-------------------------- MODULE DocumentCatalog --------------------------
(***************************************************************************)
(* What ingestion promises to the readers of the stores (retrieval,        *)
(* evidence search, the status endpoint) about one document, with queues,  *)
(* workers, retries and crashes left out: it is registered at most once,   *)
(* its content appears at most once, it is declared complete only with its *)
(* content in place and failed only without, and that verdict is final.    *)
(***************************************************************************)
CONSTANT Document

VARIABLES
  status,     \* processing status of the document record
  available   \* the documents whose content is in every store

Init ==
  /\ status = [d \in Document |-> "absent"]
  /\ available = {}

Register(d) ==
  /\ status[d] = "absent"
  /\ status' = [status EXCEPT ![d] = "processing"]
  /\ UNCHANGED available

Fill(d) ==
  /\ status[d] = "processing"
  /\ d \notin available
  /\ available' = available \cup {d}
  /\ UNCHANGED status

Close(d) ==
  /\ status[d] = "processing"
  /\ status' = [status EXCEPT ![d] = IF d \in available THEN "completed" ELSE "failed"]
  /\ UNCHANGED available

Next == \E d \in Document : Register(d) \/ Fill(d) \/ Close(d)

Spec == Init /\ [][Next]_<<status, available>>
=============================================================================
