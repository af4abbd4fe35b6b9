--------------------------- MODULE DocumentIntake ---------------------------
(***************************************************************************)
(* What one call of the synchronous ingestion promises to its caller (the  *)
(* sync=true upload, the sync manager), with jobs, stores, records and     *)
(* their partial failures left out: "completed" means that the content can *)
(* be retrieved, "duplicate" only that a document of the same content is   *)
(* on record, and the other answers promise nothing, not even that nothing *)
(* was stored.                                                             *)
(***************************************************************************)
CONSTANTS
  Call,        \* those that call
  Contents,    \* file contents, each with its engagement
  NoContent    \* not a content

VARIABLES
  asked,       \* the content of each call under way, or NoContent
  answer,      \* the answer to it, "none" before
  known,       \* contents a document record exists of
  available    \* contents whose document is in every store

intakeVars == <<asked, answer, known, available>>

IntakeInit ==
  /\ asked \in [Call -> Contents \cup {NoContent}]
  /\ answer = [c \in Call |-> "none"]
  /\ known = {}
  /\ available = {}

Ask(c, x) ==
  /\ asked[c] = NoContent
  /\ asked' = [asked EXCEPT ![c] = x]
  /\ UNCHANGED <<answer, known, available>>

UnderWay(c) == asked[c] # NoContent /\ answer[c] = "none"

Register(c) ==
  /\ UnderWay(c)
  /\ known' = known \cup {asked[c]}
  /\ UNCHANGED <<asked, answer, available>>

Fill(c) ==
  /\ UnderWay(c)
  /\ asked[c] \in known
  /\ available' = available \cup {asked[c]}
  /\ UNCHANGED <<asked, answer, known>>

Answer(c) ==
  /\ UnderWay(c)
  /\ \E a \in {"completed", "duplicate", "failed", "raised"} :
       /\ a = "completed" => asked[c] \in available
       /\ a = "duplicate" => asked[c] \in known
       /\ answer' = [answer EXCEPT ![c] = a]
  /\ UNCHANGED <<asked, known, available>>

(* The caller has its answer, or has died waiting for one.                 *)
Forget(c) ==
  /\ asked' = [asked EXCEPT ![c] = NoContent]
  /\ answer' = [answer EXCEPT ![c] = "none"]
  /\ UNCHANGED <<known, available>>

IntakeNext ==
  \E c \in Call :
    \/ \E x \in Contents : Ask(c, x)
    \/ Register(c) \/ Fill(c) \/ Answer(c) \/ Forget(c)

IntakeSpec == IntakeInit /\ [][IntakeNext]_intakeVars
=============================================================================
