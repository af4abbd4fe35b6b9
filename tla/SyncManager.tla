----------------------------- MODULE SyncManager -----------------------------
(***************************************************************************)
(* Syncs of an external source (connectors/sync_manager.py and the         *)
(* connector routes).  A sync lists what was modified since the last one,  *)
(* fetches each document and hands it to the synchronous ingestion, of     *)
(* which no more is assumed than DocumentIntake promises.  Meanwhile the   *)
(* source is edited, other syncs and connection tests use the same         *)
(* connector object with its one HTTP client, and processes die.           *)
(*                                                                         *)
(* There is one connector id; ids share nothing.  Time is counted in       *)
(* events: now grows with each edit and each tick.  A version of a         *)
(* document is named by the time it was made.                              *)
(***************************************************************************)
EXTENDS Naturals

CONSTANTS
  Process,      \* API processes, each with its registry
  Connector,    \* connector objects
  Sync,         \* requests for a sync or a test; each may be made again
  Engagement,
  Item,         \* the documents of the source
  Linked,       \* whether the source links the pages of a listing
  None,         \* no connector, no time, no content
  Interval,     \* sync_interval_minutes
  MaxTime,      \* bound on now
  MaxRequests   \* bound on requests

Time == 0..MaxTime
Content == Engagement \X Item \X Time

ASSUME SyncManagerAssumption ==
  /\ MaxTime \in Nat /\ Interval \in Nat /\ MaxRequests \in Nat
  /\ Linked \in BOOLEAN
  /\ None \notin Connector \cup Time \cup Content

VARIABLES
  now, modified,             \* the clock; when each item was last edited
  registry, fresh, client,   \* _connectors; objects not yet made; _client
  pc, job, requests,         \* the syncs: next call, local variables; their number
  state,                     \* the collection connector_sync_state
  known, available,          \* the contents ingested, see DocumentIntake
  missed,    \* history: present versions a running sync skipped or could
             \* not ingest
  excused,   \* history: present versions that no later sync has to list
  cutoff     \* history: engagements with a sync that could not save its end

source == <<now, modified>>
objects == <<registry, fresh, client>>
intake == <<known, available>>
history == <<missed, excused, cutoff>>
vars == <<source, objects, pc, job, requests, state, intake, history>>

(* last_sync_at and last_sync_status; the two counts are left out.         *)
SyncState ==
  [last : Time \cup {None}, status : {"idle", "running", "completed", "failed"}]
NewState == [last |-> None, status |-> "idle"]

Job ==
  [by : Process \cup {None}, of : Engagement \cup {None},
   connector : Connector \cup {None}, since : Time \cup {None}, begun : Time,
   wanted : SUBSET Item, todo : SUBSET Item, held : Content \cup {None},
   result : SyncState]
NoJob ==
  [by |-> None, of |-> None, connector |-> None, since |-> None, begun |-> 0,
   wanted |-> {}, todo |-> {}, held |-> None, result |-> NewState]

SyncLabel == {"read", "mark", "connect", "list", "listing", "next", "ingest",
              "close", "closing", "save"}
TestLabel == {"test_connect", "test_close", "test_closing", "test_end"}
Marked == SyncLabel \ {"read", "mark"}

Version(e, i) == <<e, i, modified[i]>>
Goto(s, here, there) == pc[s] = here /\ pc' = [pc EXCEPT ![s] = there]
Usable(s) == client[job[s].connector] = "open"

-----------------------------------------------------------------------------
Init ==
  /\ now = 0
  /\ modified = [i \in Item |-> 0]
  /\ registry = [p \in Process |-> None]
  /\ fresh = Connector
  /\ client = [c \in Connector |-> "none"]
  /\ pc = [s \in Sync |-> "idle"]
  /\ job = [s \in Sync |-> NoJob]
  /\ requests = 0
  /\ state = [e \in Engagement |-> NewState]
  /\ known = {} /\ available = {}
  /\ missed = [s \in Sync |-> {}]
  /\ excused = {} /\ cutoff = {}

AllVersions(i) == {c \in Content : c[2] = i}

(* The world: time passes, and somebody edits a document at the source.    *)
Tick ==
  /\ now < MaxTime
  /\ now' = now + 1
  /\ UNCHANGED <<requests, modified, objects, pc, job, state, intake, history>>

Edit(i) ==
  /\ now < MaxTime
  /\ now' = now + 1
  /\ modified' = [modified EXCEPT ![i] = now']
  /\ missed' = [s \in Sync |-> missed[s] \ AllVersions(i)]
  /\ excused' = excused \ AllVersions(i)
  /\ UNCHANGED <<requests, objects, pc, job, state, intake, cutoff>>

(* register() replaces the object of an id; syncs under way keep theirs.   *)
Register(p) ==
  /\ \E c \in fresh :
       /\ registry' = [registry EXCEPT ![p] = c]
       /\ fresh' = fresh \ {c}
  /\ UNCHANGED <<requests, source, client, pc, job, state, intake, history>>

Unregister(p) ==
  /\ registry[p] # None
  /\ registry' = [registry EXCEPT ![p] = None]
  /\ UNCHANGED <<requests, source, fresh, client, pc, job, state, intake, history>>

(* A sync of engagement e, full or incremental, of the part w of the       *)
(* source that the request's filters single out.                           *)
StartSync(s, p, e, w) ==
  /\ registry[p] # None
  /\ requests < MaxRequests /\ requests' = requests + 1
  /\ \E first \in {"read", "mark"} : Goto(s, "idle", first)
  /\ job' = [job EXCEPT ![s] =
       [NoJob EXCEPT !.by = p, !.of = e, !.connector = registry[p],
                     !.wanted = w, !.result.status = "running"]]
  /\ UNCHANGED <<source, objects, state, intake, history>>

(* No such connector (404), or reading the state raises (500).             *)
EndUnmarked(s) ==
  /\ Goto(s, "read", "idle")
  /\ job' = [job EXCEPT ![s] = NoJob]
  /\ UNCHANGED <<requests, source, objects, state, intake, history>>

-----------------------------------------------------------------------------
(* run_sync(), one action per await.                                       *)
ReadState(s) ==
  /\ Goto(s, "read", "mark")
  /\ job' = [job EXCEPT ![s].since = state[job[s].of].last]
  /\ UNCHANGED <<requests, source, objects, state, intake, history>>

MarkRunning(s) ==
  /\ Goto(s, "mark", "connect")
  /\ state' = [state EXCEPT ![job[s].of] = job[s].result]
  /\ UNCHANGED <<requests, source, objects, job, intake, history>>

(* save_sync_state() raises, before or after its effect.                   *)
MarkRaises(s) ==
  /\ Goto(s, "mark", "idle")
  /\ \/ UNCHANGED <<state, cutoff>>
     \/ /\ state' = [state EXCEPT ![job[s].of] = job[s].result]
        /\ cutoff' = cutoff \cup {job[s].of}
  /\ job' = [job EXCEPT ![s] = NoJob]
  /\ UNCHANGED <<requests, source, objects, intake, missed, excused>>

(* connect() puts a new client in place of the old one.                    *)
Connect(s) ==
  /\ Goto(s, "connect", "list")
  /\ client' = [client EXCEPT ![job[s].connector] = "open"]
  /\ UNCHANGED <<requests, source, registry, fresh, job, state, intake, history>>

(* The first request of the listing is sent.                               *)
BeginList(s) ==
  /\ Goto(s, "list", "listing")
  /\ Usable(s)
  /\ job' = [job EXCEPT ![s].begun = now]
  /\ UNCHANGED <<requests, source, objects, state, intake, history>>

Modified(s) ==
  {i \in job[s].wanted : job[s].since = None \/ modified[i] > job[s].since}

(* The listing ends.  Where pages are linked it may have missed items      *)
(* edited after its first request.  Where the next page is a count of      *)
(* items it may skip any: others that leave, or move, shift the pages, and *)
(* without a total Jira and GRC list one page only (see UntouchedIsListed  *)
(* of ConnectorSession).  since is not used again.                         *)
EndList(s) ==
  /\ Goto(s, "listing", "next")
  /\ Usable(s)
  /\ \E skipped \in SUBSET Modified(s) :
       /\ Linked => \A i \in skipped : modified[i] > job[s].begun
       /\ job' = [job EXCEPT ![s].todo = Modified(s) \ skipped, ![s].since = None]
       /\ missed' = [missed EXCEPT ![s] = @ \cup {Version(job[s].of, i) : i \in skipped}]
  /\ UNCHANGED <<requests, source, objects, state, intake, excused, cutoff>>

(* fetch_document() returns the present version.                           *)
Fetch(s, i) ==
  /\ i \in job[s].todo
  /\ Goto(s, "next", "ingest")
  /\ Usable(s)
  /\ job' = [job EXCEPT ![s].todo = @ \ {i}, ![s].held = Version(job[s].of, i)]
  /\ UNCHANGED <<requests, source, objects, state, intake, history>>

FetchRaises(s, i) ==
  /\ pc[s] = "next" /\ i \in job[s].todo
  /\ job' = [job EXCEPT ![s].todo = @ \ {i}]
  /\ missed' = [missed EXCEPT ![s] = @ \cup {Version(job[s].of, i)}]
  /\ UNCHANGED <<requests, source, objects, pc, state, intake, excused, cutoff>>

(* The ingestion of content c: what DocumentIntake lets a call register    *)
(* and fill before it answers a.                                           *)
Intake(c, a) ==
  /\ known' \in {known, known \cup {c}}
  /\ available' \in {available, available \cup {c}}
  /\ c \in available' => c \in known'
  /\ a = "completed" => c \in available'
  /\ a = "duplicate" => c \in known

(* The sync goes on whatever the answer; only a raise counts as failed.    *)
Ingest(s) ==
  /\ Goto(s, "ingest", "next")
  /\ LET c == job[s].held IN
       \E a \in {"completed", "duplicate", "failed", "raised"} :
         /\ Intake(c, a)
         /\ missed' = IF a = "completed" \/ c # Version(job[s].of, c[2]) THEN missed
                      ELSE [missed EXCEPT ![s] = @ \cup {c}]
  /\ job' = [job EXCEPT ![s].held = None]
  /\ UNCHANGED <<requests, source, objects, state, excused, cutoff>>

(* Mutant: last_sync_at is kept by a sync that fails.                      *)
FailDated(s) ==
  /\ pc[s] \in {"connect", "list", "listing"}
  /\ pc' = [pc EXCEPT ![s] = "close"]
  /\ job' = [job EXCEPT ![s].result.status = "failed", ![s].result.last = now]
  /\ \/ UNCHANGED client
     \/ pc[s] = "connect" /\ client' = [client EXCEPT ![job[s].connector] = "open"]
  /\ UNCHANGED <<requests, source, registry, fresh, state, intake, history>>

(* Mutant: the except branch returns.                                      *)
FailAtOnce(s) ==
  /\ pc[s] \in {"connect", "list", "listing"}
  /\ pc' = [pc EXCEPT ![s] = "idle"]
  /\ job' = [job EXCEPT ![s] = NoJob]
  /\ UNCHANGED <<requests, source, objects, state, intake, history>>

(* connect() or list_documents() raises, connect() before or after it has  *)
(* put its client in place.                                                *)
Fail(s) ==
  /\ pc[s] \in {"connect", "list", "listing"}
  /\ pc' = [pc EXCEPT ![s] = "close"]
  /\ job' = [job EXCEPT ![s].result.status = "failed"]
  /\ \/ UNCHANGED client
     \/ pc[s] = "connect" /\ client' = [client EXCEPT ![job[s].connector] = "open"]
  /\ UNCHANGED <<requests, source, registry, fresh, state, intake, history>>

(* Mutant: last_sync_at is rounded up.                                     *)
CompleteAhead(s) ==
  /\ job[s].todo = {}
  /\ Goto(s, "next", "close")
  /\ job' = [job EXCEPT ![s].result.last = now + 1, ![s].result.status = "completed"]
  /\ UNCHANGED <<requests, source, objects, state, intake, history>>

Complete(s) ==
  /\ job[s].todo = {}
  /\ Goto(s, "next", "close")
  /\ job' = [job EXCEPT ![s].result.last = now, ![s].result.status = "completed"]
  /\ UNCHANGED <<requests, source, objects, state, intake, history>>

(* disconnect(): aclose() is awaited, then _client is None.                *)
Close(s, here, waiting, done) ==
  /\ LET c == job[s].connector IN
       \/ Goto(s, here, done) /\ client[c] = "none" /\ UNCHANGED client
       \/ /\ Goto(s, here, waiting)
          /\ client[c] # "none"
          /\ client' = [client EXCEPT ![c] = "closed"]
  /\ UNCHANGED <<requests, source, registry, fresh, job, state, intake, history>>

Drop(s, here, done) ==
  /\ Goto(s, here, done)
  /\ \/ client' = [client EXCEPT ![job[s].connector] = "none"]
     \/ UNCHANGED client      \* aclose() has raised
  /\ UNCHANGED <<requests, source, registry, fresh, job, state, intake, history>>

Disconnect(s) == Close(s, "close", "closing", "save") \/ Drop(s, "closing", "save")

(* What the saved last_sync_at, here t, puts out of reach of the next      *)
(* sync: versions this one skipped or could not get ingested, edits later  *)
(* than its first request, items outside its filters.                      *)
OutOfReach(s, t) ==
  missed[s] \cup {Version(job[s].of, i) : i \in {j \in Item :
    modified[j] <= t /\ (modified[j] > job[s].begun \/ j \notin job[s].wanted)}}

SaveState(s) ==
  LET r == job[s].result  e == job[s].of IN
  /\ Goto(s, "save", "idle")
  /\ state' = [state EXCEPT ![e] = r]
  /\ job' = [job EXCEPT ![s] = NoJob]
  /\ missed' = [missed EXCEPT ![s] = {}]
  /\ excused' = IF r.last = None THEN excused ELSE excused \cup OutOfReach(s, r.last)
  /\ UNCHANGED <<requests, source, objects, intake, cutoff>>

(* The last save raises, with no effect; an effect without an answer is    *)
(* as good as SaveState.                                                   *)
SaveRaises(s) ==
  /\ Goto(s, "save", "idle")
  /\ job' = [job EXCEPT ![s] = NoJob]
  /\ missed' = [missed EXCEPT ![s] = {}]
  /\ cutoff' = cutoff \cup {job[s].of}
  /\ UNCHANGED <<requests, source, objects, state, intake, excused>>

-----------------------------------------------------------------------------
(* POST /connectors/{id}/test: connect, probe, disconnect, on the object   *)
(* that syncs use.  A raise leaves the client as it is.                    *)
StartTest(s, p) ==
  /\ registry[p] # None
  /\ requests < MaxRequests /\ requests' = requests + 1
  /\ Goto(s, "idle", "test_connect")
  /\ job' = [job EXCEPT ![s] = [NoJob EXCEPT !.by = p, !.connector = registry[p]]]
  /\ UNCHANGED <<source, objects, state, intake, history>>

TestConnect(s) ==
  /\ pc[s] = "test_connect"
  /\ client' = [client EXCEPT ![job[s].connector] = "open"]
  /\ \E there \in {"test_close", "test_end"} : pc' = [pc EXCEPT ![s] = there]
  /\ UNCHANGED <<requests, source, registry, fresh, job, state, intake, history>>

TestDisconnect(s) ==
  Close(s, "test_close", "test_closing", "test_end") \/ Drop(s, "test_closing", "test_end")

TestEnd(s) ==
  /\ Goto(s, "test_end", "idle")
  /\ job' = [job EXCEPT ![s] = NoJob]
  /\ UNCHANGED <<requests, source, objects, state, intake, history>>

(* A process dies with its registry and its syncs.                         *)
Crash(p) ==
  LET gone == {s \in Sync : pc[s] # "idle" /\ job[s].by = p} IN
  /\ registry[p] # None \/ gone # {}
  /\ registry' = [registry EXCEPT ![p] = None]
  /\ pc' = [s \in Sync |-> IF s \in gone THEN "idle" ELSE pc[s]]
  /\ job' = [s \in Sync |-> IF s \in gone THEN NoJob ELSE job[s]]
  /\ \E part \in SUBSET {job[s].held : s \in {t \in gone : pc[t] = "ingest"}} :
       \E whole \in SUBSET part :
         known' = known \cup part /\ available' = available \cup whole
  /\ missed' = [s \in Sync |-> IF s \in gone THEN {} ELSE missed[s]]
  /\ cutoff' = cutoff \cup {job[s].of : s \in {t \in gone : pc[t] \in Marked}}
  /\ UNCHANGED <<requests, source, fresh, client, state, excused>>

SyncStep(s) ==
  \/ ReadState(s) \/ EndUnmarked(s) \/ MarkRunning(s) \/ MarkRaises(s)
  \/ Connect(s) \/ BeginList(s) \/ EndList(s) \/ Fail(s)
  \/ \E i \in Item : Fetch(s, i) \/ FetchRaises(s, i)
  \/ Ingest(s) \/ Complete(s)
  \/ Disconnect(s) \/ SaveState(s) \/ SaveRaises(s)
  \/ TestConnect(s) \/ TestDisconnect(s) \/ TestEnd(s)

Request(s, p) ==
  \/ StartTest(s, p)
  \/ \E e \in Engagement, w \in SUBSET Item : StartSync(s, p, e, w)

Next ==
  \/ Tick
  \/ \E i \in Item : Edit(i)
  \/ \E p \in Process : Register(p) \/ Unregister(p) \/ Crash(p)
  \/ \E s \in Sync : SyncStep(s) \/ \E p \in Process : Request(s, p)

Spec == Init /\ [][Next]_vars

(* asyncio resumes a sync whose awaited call is done; calls end or raise.  *)
FairSpec == Spec /\ \A s \in Sync : WF_vars(SyncStep(s))

-----------------------------------------------------------------------------
TypeOK ==
  /\ now \in Time
  /\ modified \in [Item -> Time]
  /\ registry \in [Process -> Connector \cup {None}]
  /\ fresh \subseteq Connector
  /\ client \in [Connector -> {"none", "open", "closed"}]
  /\ pc \in [Sync -> {"idle"} \cup SyncLabel \cup TestLabel]
  /\ job \in [Sync -> Job]
  /\ requests \in 0..MaxRequests
  /\ state \in [Engagement -> SyncState]
  /\ known \subseteq Content /\ available \subseteq Content
  /\ missed \in [Sync -> SUBSET Content]
  /\ excused \subseteq Content /\ cutoff \subseteq Engagement

(* The next incremental sync makes up for what is missing: a document      *)
(* whose present version is not ingested is listed by it, unless a         *)
(* completed sync moved last_sync_at past that version in one of four      *)
(* ways: its listing skipped it, which linked pages do not; it could not   *)
(* fetch or ingest it; it had filters that leave it out; it had begun to   *)
(* list before the version was made.  A sync that fails, is cut off, or    *)
(* meets another one on the same client adds no fifth.                     *)
LaterSyncCovers ==
  \A e \in Engagement, i \in Item :
    state[e].last # None =>
      \/ Version(e, i) \in available \cup excused
      \/ modified[i] > state[e].last

(* A sync on record as running is under way, whatever has raised in it or  *)
(* in another one of the engagement, unless a process died or the record   *)
(* could not be saved.                                                     *)
RunningIsUnderWay ==
  \A e \in Engagement :
    state[e].status = "running" =>
      e \in cutoff \/ \E s \in Sync : job[s].of = e /\ pc[s] \in Marked

(* get_freshness_report()                                                  *)
IsStale(e) == state[e].last # None /\ now > state[e].last + 2 * Interval

(* routes/connectors.py, line 163: the report "shows [...] whether         *)
(* connectors are overdue for sync": one that is overdue stays so until a  *)
(* sync of it has completed.                                               *)
OverdueIsReported ==
  [][\A e \in Engagement :
       IsStale(e) => IsStale(e)' \/ state'[e].status = "completed"]_vars
=============================================================================
