------------------------- MODULE SyncManager_proofs -------------------------
(***************************************************************************)
(* Proofs about SyncManager, for any number of processes, connectors,      *)
(* syncs, engagements and documents, and any bounds on time and requests.  *)
(*                                                                         *)
(* What a completed sync may put on record depends on what each sync under *)
(* way has done with each document it was to list, so the induction        *)
(* follows every document from the listing to the answer of the ingestion. *)
(***************************************************************************)
EXTENDS SyncManager, TLAPS

(* Nothing that is on record, or in a sync's variables, is ahead of the    *)
(* clock, and the result of a sync says how far it has come.               *)
JobOf(s) ==
  /\ pc[s] \in SyncLabel => job[s].of \in Engagement
  /\ pc[s] \in SyncLabel \cup TestLabel => job[s].connector \in Connector
  /\ pc[s] \in SyncLabel \ {"close", "closing", "save"} =>
       job[s].result = [last |-> None, status |-> "running"]
  /\ pc[s] \in {"close", "closing", "save"} =>
       job[s].result.status \in {"completed", "failed"}
  /\ pc[s] = "ingest" => job[s].held \in Content
  /\ job[s].since # None => job[s].since <= now
  /\ job[s].result.last # None => job[s].result.last <= now
  /\ job[s].begun <= now

(* The present version of a document is ingested, or excused.              *)
Covered(e, i) == Version(e, i) \in available \cup excused

(* Until the listing ends, what was last saved still leads to everything   *)
(* that is not covered.                                                    *)
ListingCovers(s) ==
  pc[s] \in {"mark", "connect", "list", "listing"} /\ job[s].since # None =>
    \A i \in Item : Covered(job[s].of, i) \/ modified[i] > job[s].since

(* From then on a document that the sync was to list was edited since, or  *)
(* is covered, missed, or still to come.                                   *)
Dealt(s, i) ==
  \/ modified[i] > job[s].begun
  \/ Covered(job[s].of, i)
  \/ Version(job[s].of, i) \in missed[s]
  \/ pc[s] \in {"next", "ingest"} /\ i \in job[s].todo
  \/ pc[s] = "ingest" /\ job[s].held = Version(job[s].of, i)

FetchCovers(s) ==
  /\ pc[s] \in {"next", "ingest"} => \A i \in job[s].wanted : Dealt(s, i)
  /\ pc[s] \in {"close", "closing", "save"} /\ job[s].result.last # None =>
       \A i \in job[s].wanted : Dealt(s, i)

SyncInv(s) == JobOf(s) /\ ListingCovers(s) /\ FetchCovers(s)

SavedInTime == \A e \in Engagement : state[e].last # None => state[e].last <= now

Inv ==
  /\ TypeOK
  /\ \A s \in Sync : SyncInv(s)
  /\ SavedInTime /\ LaterSyncCovers /\ RunningIsUnderWay

-----------------------------------------------------------------------------
LEMMA BoundsType ==
  /\ MaxTime \in Nat /\ Interval \in Nat /\ MaxRequests \in Nat
  /\ Time \subseteq Nat /\ 0 \in Time
  /\ \A t \in Time : t # None
BY SyncManagerAssumption DEF Time

LEMMA StartTypes ==
  NoJob \in Job /\ NewState \in SyncState
<1>1. NewState \in SyncState
  BY DEF NewState, SyncState
<1> QED
  BY <1>1, BoundsType DEF NoJob, Job

LEMMA VersionType ==
  ASSUME TypeOK, NEW e \in Engagement, NEW i \in Item
  PROVE  /\ Version(e, i) \in Content
         /\ \A e2, i2 : Version(e2, i2) = Version(e, i) => e2 = e /\ i2 = i
BY DEF TypeOK, Version, Content

(* The members of Job, for the steps that change one.                      *)
LEMMA JobType ==
  ASSUME TypeOK, NEW s \in Sync
  PROVE  /\ job[s].by \in Process \cup {None} /\ job[s].of \in Engagement \cup {None}
         /\ job[s].connector \in Connector \cup {None}
         /\ job[s].since \in Time \cup {None} /\ job[s].begun \in Time
         /\ job[s].wanted \subseteq Item /\ job[s].todo \subseteq Item
         /\ job[s].held \in Content \cup {None} /\ job[s].result \in SyncState
         /\ job[s].result.last \in Time \cup {None}
         /\ now \in Nat /\ job[s].begun \in Nat
         /\ job[s].result.last # None => job[s].result.last \in Nat
         /\ job[s].since # None => job[s].since \in Nat
<1>1. job[s] \in Job
  BY DEF TypeOK
<1>2. now \in Nat
  BY BoundsType DEF TypeOK
<1> QED
  BY <1>1, <1>2, BoundsType DEF Job, SyncState

(* Types are kept, action by action.                                       *)
LEMMA NextKeepsTypes ==
  ASSUME TypeOK, \A s \in Sync : JobOf(s), Next
  PROVE  TypeOK'
<1> USE DEF TypeOK
<1>1. CASE Tick
  BY <1>1, BoundsType DEF Tick, objects, intake, history, Time
<1>2. ASSUME NEW i \in Item, Edit(i) PROVE TypeOK'
  <2>1. now' \in Time
    BY <1>2, BoundsType DEF Edit, Time
  <2> QED
    BY <1>2, <2>1 DEF Edit, objects, intake
<1>3. ASSUME NEW p \in Process, Register(p) \/ Unregister(p) PROVE TypeOK'
  BY <1>3 DEF Register, Unregister, source, intake, history
<1>4. ASSUME NEW p \in Process, Crash(p) PROVE TypeOK'
  <2> DEFINE gone == {s \in Sync : pc[s] # "idle" /\ job[s].by = p}
  <2>1. /\ \A s \in Sync : pc'[s] = (IF s \in gone THEN "idle" ELSE pc[s])
        /\ \A s \in Sync : job'[s] = (IF s \in gone THEN NoJob ELSE job[s])
        /\ pc' = [s \in Sync |-> pc'[s]] /\ job' = [s \in Sync |-> job'[s]]
    BY <1>4 DEF Crash
  <2>2. pc' \in [Sync -> {"idle"} \cup SyncLabel \cup TestLabel] /\ job' \in [Sync -> Job]
    BY <2>1, StartTypes
  <2>3. {job[s].held : s \in {t \in gone : pc[t] = "ingest"}} \subseteq Content
    BY DEF JobOf
  <2>4. known' \subseteq Content /\ available' \subseteq Content
    <3>1. PICK part \in SUBSET {job[s].held : s \in {t \in gone : pc[t] = "ingest"}} :
            \E whole \in SUBSET part :
              known' = known \cup part /\ available' = available \cup whole
      BY <1>4 DEF Crash
    <3> QED BY <2>3, <3>1
  <2>5. {job[s].of : s \in {t \in gone : pc[t] \in Marked}} \subseteq Engagement
    BY DEF JobOf, Marked
  <2>6. cutoff' \subseteq Engagement
    BY <1>4, <2>5 DEF Crash
  <2>7. missed' \in [Sync -> SUBSET Content]
    BY <1>4 DEF Crash
  <2>8. registry' \in [Process -> Connector \cup {None}]
    BY <1>4 DEF Crash
  <2> HIDE DEF gone
  <2> QED
    BY <1>4, <2>2, <2>4, <2>6, <2>7, <2>8 DEF Crash, source
<1>5. ASSUME NEW s \in Sync, NEW p \in Process, Request(s, p) PROVE TypeOK'
  <2>1. requests' \in 0..MaxRequests
    <3>1. requests < MaxRequests /\ requests' = requests + 1
      BY <1>5 DEF Request, StartTest, StartSync
    <3> QED BY <3>1, BoundsType
  <2>2. pc' \in [Sync -> {"idle"} \cup SyncLabel \cup TestLabel]
    BY <1>5 DEF Request, StartTest, StartSync, Goto, SyncLabel, TestLabel
  <2>3. job' \in [Sync -> Job]
    <3>1. CASE StartTest(s, p)
      <4>1. [NoJob EXCEPT !.by = p, !.connector = registry[p]] \in Job
        BY StartTypes DEF Job
      <4> QED BY <3>1, <4>1 DEF StartTest
    <3>2. ASSUME NEW e \in Engagement, NEW w \in SUBSET Item, StartSync(s, p, e, w)
          PROVE  job' \in [Sync -> Job]
      <4>1. [NoJob EXCEPT !.by = p, !.of = e, !.connector = registry[p],
                          !.wanted = w, !.result.status = "running"] \in Job
        BY StartTypes DEF Job, SyncState
      <4> QED BY <3>2, <4>1 DEF StartSync
    <3> QED BY <1>5, <3>1, <3>2 DEF Request
  <2>4. UNCHANGED <<source, objects, state, intake, history>>
    BY <1>5 DEF Request, StartTest, StartSync
  <2> QED
    BY <2>1, <2>2, <2>3, <2>4 DEF source, objects, intake, history
<1>6. ASSUME NEW s \in Sync, SyncStep(s) PROVE TypeOK'
  <2>1. job[s] \in Job /\ JobOf(s)
    OBVIOUS
  <2>2. CASE EndUnmarked(s) \/ TestEnd(s)
    BY <2>2, StartTypes DEF EndUnmarked, TestEnd, Goto, source, objects, intake, history
  <2>3. CASE ReadState(s)
    <3>1. state[job[s].of].last \in Time \cup {None}
      BY <2>1, <2>3 DEF ReadState, Goto, JobOf, SyncLabel, SyncState
    <3>2. job' \in [Sync -> Job]
      BY <2>1, <2>3, <3>1 DEF ReadState, Job
    <3> QED
      BY <2>3, <3>2 DEF ReadState, Goto, SyncLabel, source, objects, intake, history
  <2>4. CASE MarkRunning(s) \/ MarkRaises(s)
    <3>1. job[s].of \in Engagement /\ job[s].result \in SyncState
      BY <2>1, <2>4 DEF MarkRunning, MarkRaises, Goto, JobOf, SyncLabel, Job
    <3> QED
      BY <2>4, <3>1, StartTypes
         DEF MarkRunning, MarkRaises, Goto, SyncLabel, source, objects, intake, history
  <2>5. CASE Connect(s)
    BY <2>1, <2>5 DEF Connect, Goto, SyncLabel, source, intake, history
  <2>6. CASE BeginList(s)
    <3>1. job' \in [Sync -> Job]
      BY <2>1, <2>6 DEF BeginList, Job
    <3> QED
      BY <2>6, <3>1 DEF BeginList, Goto, SyncLabel, source, objects, intake, history
  <2>7. CASE EndList(s)
    <3>1. PICK skipped \in SUBSET Modified(s) :
            /\ job' = [job EXCEPT ![s].todo = Modified(s) \ skipped, ![s].since = None]
            /\ missed' = [missed EXCEPT ![s] = @ \cup {Version(job[s].of, i) : i \in skipped}]
      BY <2>7 DEF EndList
    <3>2. Modified(s) \ skipped \subseteq Item
      BY <2>1 DEF Modified, Job
    <3>3. job' \in [Sync -> Job]
      BY <2>1, <3>1, <3>2 DEF Job
    <3>4. job[s].of \in Engagement
      BY <2>7 DEF EndList, Goto, JobOf, SyncLabel
    <3>5. {Version(job[s].of, i) : i \in skipped} \subseteq Content
      BY <3>2, <3>4, VersionType DEF Modified, Job
    <3>6. missed' \in [Sync -> SUBSET Content]
      BY <3>1, <3>5
    <3> QED
      BY <2>7, <3>3, <3>6 DEF EndList, Goto, SyncLabel, source, objects, intake
  <2>8. CASE Fail(s)
    <3>1. job' \in [Sync -> Job]
      BY <2>1, <2>8 DEF Fail, Job, SyncState
    <3> QED
      BY <2>1, <2>8, <3>1 DEF Fail, SyncLabel, source, intake, history
  <2>9. ASSUME NEW i \in Item, Fetch(s, i) \/ FetchRaises(s, i) PROVE TypeOK'
    <3>1. job[s].of \in Engagement
      BY <2>1, <2>9 DEF Fetch, FetchRaises, Goto, JobOf, SyncLabel
    <3>2. Version(job[s].of, i) \in Content
      BY <3>1, VersionType
    <3>3. job' \in [Sync -> Job]
      <4>1. CASE Fetch(s, i)
        BY <2>1, <3>2, <4>1 DEF Fetch, Job
      <4>2. CASE FetchRaises(s, i)
        BY <2>1, <4>2 DEF FetchRaises, Job
      <4> QED BY <2>9, <4>1, <4>2
    <3> QED
      BY <2>9, <3>2, <3>3
         DEF Fetch, FetchRaises, Goto, SyncLabel, source, objects, intake, history
  <2>10. CASE Ingest(s)
    <3>1. job[s].held \in Content
      BY <2>1, <2>10 DEF Ingest, Goto, JobOf
    <3>2. job' \in [Sync -> Job]
      BY <2>1, <2>10 DEF Ingest, Job
    <3>3. known' \subseteq Content /\ available' \subseteq Content
          /\ missed' \in [Sync -> SUBSET Content]
      BY <2>10, <3>1 DEF Ingest, Intake
    <3> QED
      BY <2>10, <3>2, <3>3 DEF Ingest, Goto, SyncLabel, source, objects
  <2>11. CASE Complete(s)
    <3>1. job' \in [Sync -> Job]
      BY <2>1, <2>11 DEF Complete, Job, SyncState
    <3> QED
      BY <2>11, <3>1 DEF Complete, Goto, SyncLabel, source, objects, intake, history
  <2>12. CASE Disconnect(s) \/ TestDisconnect(s) \/ TestConnect(s)
    <3>1. pc' \in [Sync -> {"idle"} \cup SyncLabel \cup TestLabel]
      BY <2>12 DEF Disconnect, TestDisconnect, TestConnect, Close, Drop, Goto, SyncLabel, TestLabel
    <3>2. client' \in [Connector -> {"none", "open", "closed"}]
      BY <2>12 DEF Disconnect, TestDisconnect, TestConnect, Close, Drop
    <3> QED
      BY <2>12, <3>1, <3>2 DEF Disconnect, TestDisconnect, TestConnect, Close, Drop,
         source, intake, history
  <2>13. CASE SaveState(s) \/ SaveRaises(s)
    <3>1. job[s].of \in Engagement /\ job[s].result \in SyncState
      BY <2>1, <2>13 DEF SaveState, SaveRaises, Goto, JobOf, SyncLabel, Job
    <3>2. \A t : OutOfReach(s, t) \subseteq Content
      BY <3>1, VersionType DEF OutOfReach
    <3>3. excused' \subseteq Content
      BY <2>13, <3>2 DEF SaveState, SaveRaises
    <3>4. missed' \in [Sync -> SUBSET Content]
      BY <2>13 DEF SaveState, SaveRaises
    <3>5. state' \in [Engagement -> SyncState]
      BY <2>13, <3>1 DEF SaveState, SaveRaises
    <3> QED
      BY <2>13, <3>1, <3>3, <3>4, <3>5, StartTypes
         DEF SaveState, SaveRaises, Goto, source, objects, intake
  <2> QED
    BY <1>6, <2>2, <2>3, <2>4, <2>5, <2>6, <2>7, <2>8, <2>9, <2>10, <2>11, <2>12, <2>13
       DEF SyncStep
<1> QED
  BY <1>1, <1>2, <1>3, <1>4, <1>5, <1>6 DEF Next

-----------------------------------------------------------------------------
(* How the world around a sync changes: time does not go back, an edit is  *)
(* later than all before it, what is covered stays so until it is edited.  *)
Grows ==
  /\ now <= now'
  /\ \A i \in Item : modified'[i] = modified[i] \/ modified'[i] > now
  /\ available \subseteq available'
  /\ \A e : \A i \in Item : Version(e, i) \in excused =>
       Version(e, i) \in excused' \/ modified'[i] > now

LEMMA CoveredStays ==
  ASSUME Grows, NEW e, NEW i \in Item, Covered(e, i)
  PROVE  Covered(e, i)' \/ modified'[i] > now
<1> SUFFICES ASSUME ~(modified'[i] > now) PROVE Covered(e, i)'
  BY DEF Grows
<1>1. Version(e, i)' = Version(e, i)
  BY DEF Version, Grows
<1> QED
  BY <1>1 DEF Grows, Covered

(* Whatever else happens, a sync that does nothing has lost nothing.       *)
LEMMA OthersGoOn ==
  ASSUME TypeOK, TypeOK', Grows, NEW s \in Sync, SyncInv(s),
         pc'[s] = pc[s], job'[s] = job[s],
         \A e : \A i \in Item : Version(e, i) \in missed[s] =>
           Version(e, i) \in missed'[s] \/ modified'[i] > now
  PROVE  SyncInv(s)'
<1> DEFINE j == job[s]
<1>1. /\ now \in Nat /\ now' \in Nat /\ j.begun \in Nat
      /\ j.since # None => j.since \in Nat
      /\ j.result.last # None => j.result.last \in Nat
      /\ j.wanted \subseteq Item
      /\ \A i \in Item : modified[i] \in Nat /\ modified'[i] \in Nat
  BY JobType, BoundsType DEF TypeOK
<1>2. now <= now'
  BY DEF Grows
<1>3. JobOf(s)'
  BY <1>1, <1>2 DEF SyncInv, JobOf
<1>4. ListingCovers(s)'
  <2> SUFFICES ASSUME pc[s] \in {"mark", "connect", "list", "listing"}, j.since # None,
                      NEW i \in Item
               PROVE  Covered(j.of, i)' \/ modified'[i] > j.since
    BY DEF ListingCovers, Covered, Version
  <2>1. j.since <= now
    BY DEF SyncInv, JobOf
  <2>2. modified'[i] > now => modified'[i] > j.since
    BY <1>1, <2>1
  <2>3. Covered(j.of, i) \/ modified[i] > j.since
    BY DEF SyncInv, ListingCovers
  <2> QED
    BY <2>2, <2>3, CoveredStays DEF Grows
<1>5. ASSUME NEW i \in Item, Dealt(s, i) PROVE Dealt(s, i)'
  <2> SUFFICES ASSUME ~(modified'[i] > j.begun) PROVE Dealt(s, i)'
    BY DEF Dealt
  <2>1. j.begun <= now
    BY DEF SyncInv, JobOf
  <2>2. modified'[i] = modified[i] /\ ~(modified'[i] > now)
    BY <1>1, <2>1 DEF Grows
  <2>3. Version(j.of, i)' = Version(j.of, i)
    BY <2>2 DEF Version
  <2>4. Covered(j.of, i) => Covered(j.of, i)'
    BY <2>2, CoveredStays
  <2>5. Version(j.of, i) \in missed[s] => Version(j.of, i)' \in missed'[s]
    BY <2>2, <2>3
  <2> QED
    BY <1>5, <2>2, <2>3, <2>4, <2>5 DEF Dealt
<1>6. FetchCovers(s)'
  BY <1>1, <1>5 DEF SyncInv, FetchCovers
<1> QED
  BY <1>3, <1>4, <1>6 DEF SyncInv

(* What was saved for an engagement still leads to what is not covered.    *)
LEMMA RecordStays ==
  ASSUME TypeOK, TypeOK', Grows, SavedInTime, LaterSyncCovers,
         NEW e \in Engagement, state'[e].last = state[e].last, state[e].last # None
  PROVE  /\ state'[e].last <= now'
         /\ \A i \in Item : Covered(e, i)' \/ modified'[i] > state'[e].last
<1> DEFINE t == state[e].last
<1>1. t \in Nat /\ now \in Nat /\ now' \in Nat
      /\ \A i \in Item : modified[i] \in Nat /\ modified'[i] \in Nat
  BY BoundsType DEF TypeOK, SyncState
<1>2. t <= now /\ now <= now'
  BY DEF SavedInTime, Grows
<1>3. ASSUME NEW i \in Item PROVE Covered(e, i)' \/ modified'[i] > t
  <2>1. Covered(e, i) \/ modified[i] > t
    BY DEF LaterSyncCovers, Covered
  <2>2. modified'[i] > now => modified'[i] > t
    BY <1>1, <1>2
  <2> QED
    BY <2>1, <2>2, CoveredStays DEF Grows
<1> QED
  BY <1>1, <1>2, <1>3

-----------------------------------------------------------------------------
(* A step of one sync that saves nothing.                                  *)
LEMMA OwnStep ==
  ASSUME Inv, TypeOK', NEW s \in Sync, SyncInv(s)',
         now' = now, modified' = modified, state' = state, excused' = excused,
         cutoff' = cutoff, available \subseteq available',
         \A u \in Sync : u # s =>
           pc'[u] = pc[u] /\ job'[u] = job[u] /\ missed'[u] = missed[u],
         pc[s] \in Marked => pc'[s] \in Marked /\ job'[s].of = job[s].of
  PROVE  Inv'
<1>1. Grows
  <2>1. now <= now'
    BY BoundsType DEF Inv, TypeOK
  <2> QED BY <2>1 DEF Grows
<1>2. \A u \in Sync : SyncInv(u)'
  BY <1>1, OthersGoOn DEF Inv
<1>3. SavedInTime'
  BY <1>1, RecordStays DEF Inv, SavedInTime
<1>4. LaterSyncCovers'
  <2> SUFFICES ASSUME NEW e \in Engagement, NEW i \in Item, state[e].last # None
               PROVE  Covered(e, i)' \/ modified'[i] > state[e].last
    BY DEF LaterSyncCovers, Covered
  <2> QED BY <1>1, RecordStays DEF Inv
<1>5. RunningIsUnderWay'
  BY DEF Inv, RunningIsUnderWay
<1> QED
  BY <1>2, <1>3, <1>4, <1>5 DEF Inv

(* Before the listing a sync has little to keep.                           *)
LEMMA StartKeepsInv ==
  ASSUME Inv, TypeOK', NEW s \in Sync, NEW p \in Process, Request(s, p)
  PROVE  Inv'
<1>1. /\ pc[s] = "idle" /\ pc'[s] \in {"read", "mark", "test_connect"}
      /\ \A u \in Sync : u # s => pc'[u] = pc[u] /\ job'[u] = job[u]
      /\ UNCHANGED <<source, state, intake, history>>
  BY DEF Request, StartTest, StartSync, Goto, Inv, TypeOK
<1>2. /\ job'[s].connector = registry[p] /\ registry[p] \in Connector
      /\ job'[s].since = None /\ job'[s].begun = 0 /\ job'[s].result.last = None
      /\ pc'[s] # "test_connect" =>
           job'[s].of \in Engagement /\ job'[s].result = [last |-> None, status |-> "running"]
  <2>1. CASE StartTest(s, p)
    BY <2>1 DEF StartTest, Goto, NoJob, NewState, Inv, TypeOK
  <2>2. ASSUME NEW e \in Engagement, NEW w \in SUBSET Item, StartSync(s, p, e, w)
        PROVE  /\ job'[s].connector = registry[p] /\ registry[p] \in Connector
               /\ job'[s].since = None /\ job'[s].begun = 0 /\ job'[s].result.last = None
               /\ job'[s].of \in Engagement
               /\ job'[s].result = [last |-> None, status |-> "running"]
    BY <2>2 DEF StartSync, NoJob, NewState, Inv, TypeOK
  <2> QED BY <2>1, <2>2 DEF Request
<1>3. SyncInv(s)'
  <2>1. 0 <= now'
    BY BoundsType DEF TypeOK
  <2> QED
    BY <1>1, <1>2, <2>1
       DEF SyncInv, JobOf, ListingCovers, FetchCovers, SyncLabel, TestLabel
<1> QED
  BY <1>1, <1>3, OwnStep DEF source, intake, history, Marked, SyncLabel

LEMMA EndUnmarkedKeepsInv ==
  ASSUME Inv, TypeOK', NEW s \in Sync, EndUnmarked(s) \/ TestEnd(s)
  PROVE  Inv'
<1>1. /\ pc[s] \in {"read", "test_end"} /\ pc'[s] = "idle" /\ job'[s] = NoJob
      /\ \A u \in Sync : u # s => pc'[u] = pc[u] /\ job'[u] = job[u]
      /\ UNCHANGED <<source, state, intake, history>>
  BY DEF EndUnmarked, TestEnd, Goto, Inv, TypeOK
<1>2. SyncInv(s)'
  <2>1. 0 <= now'
    BY BoundsType DEF TypeOK
  <2> QED
    BY <1>1, <2>1 DEF SyncInv, JobOf, ListingCovers, FetchCovers, NoJob, NewState,
       SyncLabel, TestLabel
<1> QED
  BY <1>1, <1>2, OwnStep DEF source, intake, history, Marked, SyncLabel

(* The record that is read leads to all that is not covered.               *)
LEMMA ReadKeepsInv ==
  ASSUME Inv, TypeOK', NEW s \in Sync, ReadState(s)
  PROVE  Inv'
<1>1. /\ pc[s] = "read" /\ pc'[s] = "mark"
      /\ \A u \in Sync : u # s => pc'[u] = pc[u] /\ job'[u] = job[u]
      /\ UNCHANGED <<source, state, intake, history>>
      /\ job'[s].of = job[s].of /\ job'[s].connector = job[s].connector
      /\ job'[s].result = job[s].result /\ job'[s].begun = job[s].begun
      /\ job'[s].since = state[job[s].of].last
  BY DEF ReadState, Goto, Inv, TypeOK
<1>2. JobOf(s) /\ job[s].of \in Engagement
  BY <1>1 DEF Inv, SyncInv, JobOf, SyncLabel
<1>3. JobOf(s)'
  BY <1>1, <1>2 DEF JobOf, SavedInTime, Inv, source, SyncLabel, TestLabel
<1>4. ListingCovers(s)'
  <2> SUFFICES ASSUME NEW i \in Item, state[job[s].of].last # None
               PROVE  Covered(job[s].of, i) \/ modified[i] > state[job[s].of].last
    BY <1>1 DEF ListingCovers, Covered, Version, source, intake, history
  <2> QED BY <1>2 DEF Inv, LaterSyncCovers, Covered
<1>5. FetchCovers(s)'
  BY <1>1 DEF FetchCovers
<1> QED
  BY <1>1, <1>3, <1>4, <1>5, OwnStep DEF SyncInv, source, intake, history, Marked

(* Steps that leave the variables of the sync alone.                       *)
LEMMA CallKeepsInv ==
  ASSUME Inv, TypeOK', NEW s \in Sync,
         Connect(s) \/ Disconnect(s) \/ TestConnect(s) \/ TestDisconnect(s)
  PROVE  Inv'
<1>1. /\ job' = job /\ UNCHANGED <<source, state, intake, history>>
      /\ \A u \in Sync : u # s => pc'[u] = pc[u]
      /\ \/ pc[s] = "connect" /\ pc'[s] = "list"
         \/ pc[s] \in {"close", "closing"} /\ pc'[s] \in {"closing", "save"}
         \/ pc[s] \in TestLabel /\ pc'[s] \in TestLabel
  BY DEF Connect, Disconnect, TestConnect, TestDisconnect, Close, Drop, Goto, TestLabel,
     Inv, TypeOK
<1>2. SyncInv(s)
  BY DEF Inv
<1>3. JobOf(s)'
  BY <1>1, <1>2 DEF SyncInv, JobOf, SyncLabel, TestLabel, source
<1>4. ListingCovers(s)'
  BY <1>1, <1>2 DEF SyncInv, ListingCovers, Covered, Version, TestLabel, source, intake, history
<1>5. FetchCovers(s)'
  BY <1>1, <1>2 DEF SyncInv, FetchCovers, Dealt, Covered, Version, TestLabel,
     source, intake, history
<1> QED
  BY <1>1, <1>3, <1>4, <1>5, OwnStep
     DEF SyncInv, source, intake, history, Marked, SyncLabel, TestLabel

LEMMA BeginListKeepsInv ==
  ASSUME Inv, TypeOK', NEW s \in Sync, BeginList(s)
  PROVE  Inv'
<1>1. /\ pc[s] = "list" /\ pc'[s] = "listing"
      /\ \A u \in Sync : u # s => pc'[u] = pc[u] /\ job'[u] = job[u]
      /\ UNCHANGED <<source, state, intake, history>>
      /\ job'[s].of = job[s].of /\ job'[s].connector = job[s].connector
      /\ job'[s].result = job[s].result /\ job'[s].since = job[s].since
      /\ job'[s].begun = now
  BY DEF BeginList, Goto, Inv, TypeOK
<1>2. SyncInv(s) /\ now <= now
  BY BoundsType DEF Inv, TypeOK
<1>3. JobOf(s)'
  BY <1>1, <1>2 DEF SyncInv, JobOf, SyncLabel, TestLabel, source
<1>4. ListingCovers(s)'
  BY <1>1, <1>2 DEF SyncInv, ListingCovers, Covered, Version, source, intake, history
<1>5. FetchCovers(s)'
  BY <1>1 DEF FetchCovers
<1> QED
  BY <1>1, <1>3, <1>4, <1>5, OwnStep DEF SyncInv, source, intake, history, Marked, SyncLabel

(* What the listing leaves out is missed, or was not edited since the      *)
(* record that was read.                                                   *)
LEMMA EndListKeepsInv ==
  ASSUME Inv, TypeOK', NEW s \in Sync, EndList(s)
  PROVE  Inv'
<1>1. PICK skipped \in SUBSET Modified(s) :
        /\ job' = [job EXCEPT ![s].todo = Modified(s) \ skipped, ![s].since = None]
        /\ missed' = [missed EXCEPT ![s] = @ \cup {Version(job[s].of, i) : i \in skipped}]
  BY DEF EndList
<1>2. /\ pc[s] = "listing" /\ pc'[s] = "next"
      /\ \A u \in Sync : u # s =>
           pc'[u] = pc[u] /\ job'[u] = job[u] /\ missed'[u] = missed[u]
      /\ UNCHANGED <<source, state, intake, excused, cutoff>>
      /\ job'[s].of = job[s].of /\ job'[s].connector = job[s].connector
      /\ job'[s].result = job[s].result /\ job'[s].since = None
      /\ job'[s].begun = job[s].begun /\ job'[s].wanted = job[s].wanted
      /\ job'[s].todo = Modified(s) \ skipped
      /\ missed'[s] = missed[s] \cup {Version(job[s].of, i) : i \in skipped}
  <2>1. /\ pc[s] = "listing" /\ pc' = [pc EXCEPT ![s] = "next"]
        /\ UNCHANGED <<source, state, intake, excused, cutoff>>
    BY DEF EndList, Goto
  <2> QED
    BY <1>1, <2>1 DEF Inv, TypeOK
<1>3. SyncInv(s)
  BY DEF Inv
<1>4. JobOf(s)'
  BY <1>2, <1>3 DEF SyncInv, JobOf, SyncLabel, TestLabel, source
<1>5. ListingCovers(s)'
  BY <1>2 DEF ListingCovers
<1>6. ASSUME NEW i \in job[s].wanted PROVE Dealt(s, i)'
  <2>1. i \in Item
    BY JobType DEF Inv
  <2>2. /\ now' = now /\ modified' = modified /\ available' = available
        /\ excused' = excused
    BY <1>2 DEF source, intake
  <2>3. CASE i \in Modified(s)
    <3>1. CASE i \in skipped
      <4>1. Version(job[s].of, i)' \in missed'[s]
        BY <1>2, <2>2, <3>1 DEF Version
      <4> QED BY <4>1 DEF Dealt
    <3>2. CASE i \notin skipped
      BY <1>2, <2>3, <3>2 DEF Dealt
    <3> QED BY <3>1, <3>2
  <2>4. CASE i \notin Modified(s)
    <3>1. Covered(job[s].of, i)
      BY <1>2, <1>3, <2>1, <2>4 DEF SyncInv, ListingCovers, Modified
    <3>2. Covered(job[s].of, i)'
      BY <1>2, <2>2, <3>1 DEF Covered, Version
    <3> QED BY <3>2 DEF Dealt
  <2> QED BY <2>3, <2>4
<1>7. FetchCovers(s)'
  BY <1>2, <1>6 DEF FetchCovers
<1> QED
  BY <1>2, <1>4, <1>5, <1>7, OwnStep DEF SyncInv, source, intake, history, Marked, SyncLabel

(* A document on its way from the list is held, missed, or ingested.       *)
LEMMA FetchKeepsInv ==
  ASSUME Inv, TypeOK', NEW s \in Sync, NEW i \in Item, Fetch(s, i) \/ FetchRaises(s, i)
  PROVE  Inv'
<1>1. /\ pc[s] = "next" /\ pc'[s] \in {"next", "ingest"}
      /\ \A u \in Sync : u # s =>
           pc'[u] = pc[u] /\ job'[u] = job[u] /\ missed'[u] = missed[u]
      /\ UNCHANGED <<source, state, intake, excused, cutoff>>
      /\ job'[s].of = job[s].of /\ job'[s].connector = job[s].connector
      /\ job'[s].result = job[s].result /\ job'[s].since = job[s].since
      /\ job'[s].begun = job[s].begun /\ job'[s].wanted = job[s].wanted
      /\ job'[s].todo = job[s].todo \ {i}
      /\ missed[s] \subseteq missed'[s]
      /\ \/ pc'[s] = "ingest" /\ job'[s].held = Version(job[s].of, i)
         \/ pc'[s] = "next" /\ Version(job[s].of, i) \in missed'[s]
  <2>1. CASE Fetch(s, i)
    BY <2>1 DEF Fetch, Goto, Inv, TypeOK, history
  <2>2. CASE FetchRaises(s, i)
    BY <2>2 DEF FetchRaises, Inv, TypeOK
  <2> QED BY <2>1, <2>2
<1>2. SyncInv(s)
  BY DEF Inv
<1>3. JobOf(s)'
  <2>1. Version(job[s].of, i) \in Content
    <3>1. job[s].of \in Engagement
      BY <1>1, <1>2 DEF SyncInv, JobOf, SyncLabel
    <3> QED BY <3>1, VersionType DEF Inv
  <2> QED
    BY <1>1, <1>2, <2>1 DEF SyncInv, JobOf, SyncLabel, TestLabel, source
<1>4. ListingCovers(s)'
  BY <1>1 DEF ListingCovers
<1>5. ASSUME NEW k \in job[s].wanted PROVE Dealt(s, k)'
  <2>1. Dealt(s, k)
    BY <1>1, <1>2 DEF SyncInv, FetchCovers
  <2>2. Version(job[s].of, k)' = Version(job[s].of, k)
    BY <1>1 DEF Version, source
  <2>3. Covered(job[s].of, k) => Covered(job[s].of, k)'
    BY <1>1, <2>2 DEF Covered, intake
  <2> QED
    BY <1>1, <2>1, <2>2, <2>3 DEF Dealt, source
<1>6. FetchCovers(s)'
  BY <1>1, <1>5 DEF FetchCovers
<1> QED
  BY <1>1, <1>3, <1>4, <1>6, OwnStep DEF SyncInv, source, intake, Marked, SyncLabel

LEMMA IngestKeepsInv ==
  ASSUME Inv, TypeOK', NEW s \in Sync, Ingest(s)
  PROVE  Inv'
<1>1. /\ pc[s] = "ingest" /\ pc'[s] = "next"
      /\ \A u \in Sync : u # s =>
           pc'[u] = pc[u] /\ job'[u] = job[u] /\ missed'[u] = missed[u]
      /\ UNCHANGED <<source, state, excused, cutoff>>
      /\ job'[s].of = job[s].of /\ job'[s].connector = job[s].connector
      /\ job'[s].result = job[s].result /\ job'[s].since = job[s].since
      /\ job'[s].begun = job[s].begun /\ job'[s].wanted = job[s].wanted
      /\ job'[s].todo = job[s].todo
      /\ missed[s] \subseteq missed'[s] /\ available \subseteq available'
      /\ \/ job[s].held \in available'
         \/ job[s].held # Version(job[s].of, job[s].held[2])
         \/ job[s].held \in missed'[s]
  BY DEF Ingest, Intake, Goto, Inv, TypeOK
<1>2. SyncInv(s)
  BY DEF Inv
<1>3. JobOf(s)'
  BY <1>1, <1>2 DEF SyncInv, JobOf, SyncLabel, TestLabel, source
<1>4. ListingCovers(s)'
  BY <1>1 DEF ListingCovers
<1>5. ASSUME NEW k \in job[s].wanted PROVE Dealt(s, k)'
  <2>1. Dealt(s, k)
    BY <1>1, <1>2 DEF SyncInv, FetchCovers
  <2>2. Version(job[s].of, k)' = Version(job[s].of, k)
    BY <1>1 DEF Version, source
  <2>3. Covered(job[s].of, k) => Covered(job[s].of, k)'
    BY <1>1, <2>2 DEF Covered
  <2>4. CASE job[s].held = Version(job[s].of, k)
    <3>1. job[s].held[2] = k
      BY <2>4 DEF Version
    <3>2. job[s].held \in available' \/ job[s].held \in missed'[s]
      BY <1>1, <2>4, <3>1
    <3> QED
      BY <1>1, <2>2, <2>4, <3>2 DEF Dealt, Covered
  <2> QED
    BY <1>1, <2>1, <2>2, <2>3, <2>4 DEF Dealt, source
<1>6. FetchCovers(s)'
  BY <1>1, <1>5 DEF FetchCovers
<1> QED
  BY <1>1, <1>3, <1>4, <1>6, OwnStep DEF SyncInv, source, Marked, SyncLabel

(* A sync that fails puts no time on record; one that completes has dealt  *)
(* with all that it listed.                                                *)
LEMMA EndKeepsInv ==
  ASSUME Inv, TypeOK', NEW s \in Sync, Fail(s) \/ Complete(s)
  PROVE  Inv'
<1>1. /\ pc[s] \in {"connect", "list", "listing", "next"} /\ pc'[s] = "close"
      /\ \A u \in Sync : u # s => pc'[u] = pc[u] /\ job'[u] = job[u]
      /\ UNCHANGED <<source, state, intake, history>>
      /\ job'[s].of = job[s].of /\ job'[s].connector = job[s].connector
      /\ job'[s].since = job[s].since
      /\ job'[s].begun = job[s].begun /\ job'[s].wanted = job[s].wanted
      /\ \/ /\ job'[s].result.status = "failed"
            /\ job'[s].result.last = job[s].result.last
         \/ /\ job'[s].result.status = "completed" /\ job'[s].result.last = now
            /\ pc[s] = "next" /\ job[s].todo = {}
  <2>1. job[s] \in Job
    BY DEF Inv, TypeOK
  <2>2. CASE Fail(s)
    BY <2>1, <2>2 DEF Fail, Inv, TypeOK, Job, SyncState
  <2>3. CASE Complete(s)
    BY <2>1, <2>3 DEF Complete, Goto, Inv, TypeOK, Job, SyncState
  <2> QED BY <2>2, <2>3
<1>2. SyncInv(s) /\ now <= now
  BY BoundsType DEF Inv, TypeOK
<1>3. JobOf(s)'
  BY <1>1, <1>2 DEF SyncInv, JobOf, SyncLabel, TestLabel, source
<1>4. ListingCovers(s)'
  BY <1>1 DEF ListingCovers
<1>5. ASSUME pc[s] = "next", job[s].todo = {}, NEW k \in job[s].wanted PROVE Dealt(s, k)'
  <2>1. Dealt(s, k)
    BY <1>2, <1>5 DEF SyncInv, FetchCovers
  <2> QED
    BY <1>1, <1>5, <2>1 DEF Dealt, Covered, Version, source, intake, history
<1>6. FetchCovers(s)'
  <2>1. job[s].result.last = None
    BY <1>1, <1>2 DEF SyncInv, JobOf, SyncLabel
  <2> QED
    BY <1>1, <1>5, <2>1 DEF FetchCovers
<1> QED
  BY <1>1, <1>3, <1>4, <1>6, OwnStep DEF SyncInv, source, intake, history, Marked, SyncLabel

-----------------------------------------------------------------------------
(* A step that puts something on record.  What a completed sync has not    *)
(* dealt with is out of reach, and excused with the record.                *)
LEMMA RecordKeepsInv ==
  ASSUME Inv, TypeOK', NEW s \in Sync, NEW o \in Engagement, o = job[s].of,
         SyncInv(s)',
         Grows, modified' = modified, now' = now, cutoff \subseteq cutoff',
         \A u \in Sync : u # s =>
           pc'[u] = pc[u] /\ job'[u] = job[u] /\ missed'[u] = missed[u],
         \A e \in Engagement : e # o => state'[e] = state[e],
         state'[o].last # None =>
           /\ state'[o].last <= now
           /\ \A i \in Item :
                Covered(o, i)' \/ modified[i] > state'[o].last,
         \/ state'[o].status # "running"
         \/ o \in cutoff' \/ (job'[s].of = o /\ pc'[s] \in Marked)
  PROVE  Inv'
<1>1. \A u \in Sync : SyncInv(u)'
  BY OthersGoOn DEF Inv
<1>2. SavedInTime'
  BY RecordStays DEF Inv, SavedInTime
<1>3. LaterSyncCovers'
  <2> SUFFICES ASSUME NEW e \in Engagement, NEW i \in Item, state'[e].last # None
               PROVE  Covered(e, i)' \/ modified[i] > state'[e].last
    BY DEF LaterSyncCovers, Covered
  <2>1. CASE e = o
    BY <2>1 DEF Covered, Version
  <2>2. CASE e # o
    BY <2>2, RecordStays DEF Inv
  <2> QED BY <2>1, <2>2
<1>4. RunningIsUnderWay'
  <2> SUFFICES ASSUME NEW e \in Engagement, state'[e].status = "running", e \notin cutoff'
               PROVE  \E u \in Sync : job'[u].of = e /\ pc'[u] \in Marked
    BY DEF RunningIsUnderWay
  <2>1. CASE e = o
    BY <2>1
  <2>2. CASE e # o
    <3>1. PICK u \in Sync : job[u].of = e /\ pc[u] \in Marked
      BY <2>2 DEF Inv, RunningIsUnderWay
    <3> QED BY <2>2, <3>1
  <2> QED BY <2>1, <2>2
<1> QED
  BY <1>1, <1>2, <1>3, <1>4 DEF Inv

LEMMA MarkKeepsInv ==
  ASSUME Inv, TypeOK', NEW s \in Sync, MarkRunning(s) \/ MarkRaises(s)
  PROVE  Inv'
<1>1. pc[s] = "mark" /\ SyncInv(s) /\ job[s] \in Job
  BY DEF MarkRunning, MarkRaises, Goto, Inv, TypeOK
<1>2. job[s].of \in Engagement /\ job[s].result = [last |-> None, status |-> "running"]
  BY <1>1 DEF SyncInv, JobOf, SyncLabel
<1>3. /\ UNCHANGED <<source, intake, excused, missed>> /\ cutoff \subseteq cutoff'
      /\ \A u \in Sync : u # s => pc'[u] = pc[u] /\ job'[u] = job[u]
      /\ \A e \in Engagement : e # job[s].of => state'[e] = state[e]
  BY DEF MarkRunning, MarkRaises, Goto, Inv, TypeOK, history
<1>4. Grows
  <2>1. now <= now
    BY BoundsType DEF Inv, TypeOK
  <2> QED BY <1>3, <2>1 DEF Grows, source, intake
<1>5. CASE MarkRunning(s)
  <2>1. /\ pc'[s] = "connect" /\ job' = job
        /\ state'[job[s].of] = [last |-> None, status |-> "running"]
    BY <1>2, <1>5 DEF MarkRunning, Goto, Inv, TypeOK
  <2>2. SyncInv(s)'
    BY <1>1, <1>3, <2>1 DEF SyncInv, JobOf, ListingCovers, FetchCovers, Covered, Version,
       SyncLabel, TestLabel, source, intake
  <2>3. pc'[s] \in Marked
    BY <2>1 DEF Marked, SyncLabel
  <2>4. state'[job[s].of].last = None
    BY <2>1
  <2> QED
    BY <1>2, <1>3, <1>4, <2>1, <2>2, <2>3, <2>4, RecordKeepsInv DEF source
<1>6. CASE MarkRaises(s)
  <2>1. pc'[s] = "idle" /\ job'[s] = NoJob
    BY <1>6 DEF MarkRaises, Goto, Inv, TypeOK
  <2>2. SyncInv(s)'
    <3>1. 0 <= now'
      BY BoundsType DEF TypeOK
    <3> QED
      BY <2>1, <3>1 DEF SyncInv, JobOf, ListingCovers, FetchCovers, NoJob, NewState,
         SyncLabel, TestLabel
  <2>3. CASE UNCHANGED <<state, cutoff>>
    <3>1. pc[s] \notin Marked
      BY <1>1 DEF Marked
    <3> QED
      BY <1>3, <2>2, <2>3, <3>1, OwnStep DEF source, intake
  <2>4. CASE /\ state' = [state EXCEPT ![job[s].of] = job[s].result]
             /\ cutoff' = cutoff \cup {job[s].of}
    <3>1. state'[job[s].of].last = None /\ job[s].of \in cutoff'
      BY <1>2, <2>4 DEF Inv, TypeOK
    <3> QED
      BY <1>2, <1>3, <1>4, <2>2, <3>1, RecordKeepsInv DEF source
  <2> QED BY <1>6, <2>3, <2>4 DEF MarkRaises
<1> QED BY <1>5, <1>6

LEMMA SaveKeepsInv ==
  ASSUME Inv, TypeOK', NEW s \in Sync, SaveState(s) \/ SaveRaises(s)
  PROVE  Inv'
<1>1. pc[s] = "save" /\ SyncInv(s) /\ job[s] \in Job
  BY DEF SaveState, SaveRaises, Goto, Inv, TypeOK
<1>2. /\ job[s].of \in Engagement /\ job[s].result.status # "running"
      /\ job[s].result.last # None => job[s].result.last <= now
  BY <1>1 DEF SyncInv, JobOf, SyncLabel
<1>3. /\ UNCHANGED <<source, intake>> /\ cutoff \subseteq cutoff' /\ excused \subseteq excused'
      /\ \A u \in Sync : u # s =>
           pc'[u] = pc[u] /\ job'[u] = job[u] /\ missed'[u] = missed[u]
      /\ \A e \in Engagement : e # job[s].of => state'[e] = state[e]
      /\ pc'[s] = "idle" /\ job'[s] = NoJob
  BY DEF SaveState, SaveRaises, Goto, Inv, TypeOK
<1>4. Grows
  <2>1. now <= now
    BY BoundsType DEF Inv, TypeOK
  <2> QED BY <1>3, <2>1 DEF Grows, source, intake
<1>5. SyncInv(s)'
  <2>1. 0 <= now'
    BY BoundsType DEF TypeOK
  <2> QED
    BY <1>3, <2>1 DEF SyncInv, JobOf, ListingCovers, FetchCovers, NoJob, NewState,
       SyncLabel, TestLabel
<1>6. PICK o \in Engagement : o = job[s].of
  BY <1>2
<1>7. CASE SaveState(s)
  <2>1. /\ state'[o] = job[s].result
        /\ excused' = IF job[s].result.last = None THEN excused
                      ELSE excused \cup OutOfReach(s, job[s].result.last)
    BY <1>6, <1>7 DEF SaveState, Inv, TypeOK
  <2>2. ASSUME job[s].result.last # None, NEW i \in Item,
               ~(modified[i] > job[s].result.last)
        PROVE  Covered(o, i)'
    <3>1. modified[i] <= job[s].result.last
      <4>1. modified[i] \in Nat /\ job[s].result.last \in Nat
        BY <2>2, JobType, BoundsType DEF Inv, TypeOK
      <4> QED BY <2>2, <4>1
    <3>2. Covered(o, i) \/ Version(o, i) \in OutOfReach(s, job[s].result.last)
      <4>1. CASE i \notin job[s].wanted \/ modified[i] > job[s].begun
        BY <1>6, <3>1, <4>1 DEF OutOfReach
      <4>2. CASE i \in job[s].wanted /\ ~(modified[i] > job[s].begun)
        <5>1. Dealt(s, i)
          BY <1>1, <2>2, <4>2 DEF SyncInv, FetchCovers
        <5>2. Covered(o, i) \/ Version(o, i) \in missed[s]
          BY <1>1, <1>6, <4>2, <5>1 DEF Dealt
        <5> QED BY <1>6, <5>2 DEF OutOfReach
      <4> QED BY <4>1, <4>2
    <3>3. Version(o, i) \in available' \cup excused'
      BY <1>3, <2>1, <2>2, <3>2 DEF Covered, intake
    <3> QED
      BY <1>3, <3>3 DEF Covered, Version, source
  <2>3. ASSUME state'[o].last # None, NEW i \in Item
        PROVE  Covered(o, i)' \/ modified[i] > state'[o].last
    BY <2>1, <2>2, <2>3
  <2>4. /\ state'[o].status # "running"
        /\ state'[o].last # None => state'[o].last <= now
    BY <1>2, <2>1
  <2>5. /\ modified' = modified /\ now' = now
        /\ \A e \in Engagement : e # o => state'[e] = state[e]
    BY <1>3, <1>6 DEF source
  <2> QED
    BY <1>3, <1>4, <1>5, <1>6, <2>3, <2>4, <2>5, RecordKeepsInv
<1>8. CASE SaveRaises(s)
  <2>1. state' = state /\ cutoff' = cutoff \cup {o}
    BY <1>6, <1>8 DEF SaveRaises
  <2>2. state[o].last # None =>
           /\ state[o].last <= now
           /\ \A i \in Item :
                Covered(o, i)' \/ modified[i] > state[o].last
    <3> SUFFICES ASSUME state[o].last # None
                 PROVE  /\ state[o].last <= now
                        /\ \A i \in Item : Covered(o, i)' \/ modified[i] > state[o].last
      OBVIOUS
    <3>1. state'[o].last = state[o].last /\ now' = now /\ modified' = modified
      BY <1>3, <2>1 DEF source
    <3> QED
      BY <1>4, <3>1, RecordStays DEF Inv
  <2> QED
    BY <1>3, <1>4, <1>5, <1>6, <2>1, <2>2, RecordKeepsInv DEF source
<1> QED BY <1>7, <1>8

-----------------------------------------------------------------------------
(* What happens around the syncs.                                          *)
LEMMA WorldKeepsInv ==
  ASSUME Inv, TypeOK', Grows, state' = state, RunningIsUnderWay',
         \A s \in Sync :
           \/ /\ pc'[s] = pc[s] /\ job'[s] = job[s]
              /\ \A e : \A i \in Item : Version(e, i) \in missed[s] =>
                   Version(e, i) \in missed'[s] \/ modified'[i] > now
           \/ pc'[s] = "idle" /\ job'[s] = NoJob
  PROVE  Inv'
<1>1. ASSUME NEW s \in Sync PROVE SyncInv(s)'
  <2>1. CASE pc'[s] = "idle" /\ job'[s] = NoJob
    <3>1. 0 <= now'
      BY BoundsType DEF TypeOK
    <3> QED
      BY <2>1, <3>1 DEF SyncInv, JobOf, ListingCovers, FetchCovers, NoJob, NewState,
         SyncLabel, TestLabel
  <2>2. CASE ~(pc'[s] = "idle" /\ job'[s] = NoJob)
    BY <2>2, OthersGoOn DEF Inv
  <2> QED BY <2>1, <2>2
<1>2. SavedInTime'
  BY RecordStays DEF Inv, SavedInTime
<1>3. LaterSyncCovers'
  <2> SUFFICES ASSUME NEW e \in Engagement, NEW i \in Item, state[e].last # None
               PROVE  Covered(e, i)' \/ modified'[i] > state[e].last
    BY DEF LaterSyncCovers, Covered
  <2> QED BY RecordStays DEF Inv
<1> QED
  BY <1>1, <1>2, <1>3 DEF Inv

LEMMA QuietKeepsInv ==
  ASSUME Inv, TypeOK',
         \/ Tick
         \/ \E i \in Item : Edit(i)
         \/ \E p \in Process : Register(p) \/ Unregister(p)
         \/ UNCHANGED vars
  PROVE  Inv'
<1>1. UNCHANGED <<pc, job, state, available, cutoff>>
  BY DEF Tick, Edit, Register, Unregister, vars, intake, history
<1>2. now \in Nat
  BY BoundsType DEF Inv, TypeOK
<1>3. RunningIsUnderWay'
  BY <1>1 DEF Inv, RunningIsUnderWay
<1>4. CASE \E i \in Item : Edit(i)
  <2>1. PICK k \in Item : Edit(k)
    BY <1>4
  <2>2. /\ now' = now + 1
        /\ \A i \in Item : modified'[i] = (IF i = k THEN now + 1 ELSE modified[i])
        /\ excused' = excused \ AllVersions(k)
        /\ \A s \in Sync : missed'[s] = missed[s] \ AllVersions(k)
    BY <2>1 DEF Edit, Inv, TypeOK
  <2>3. \A e : \A i \in Item : Version(e, i) \in AllVersions(k) => modified'[i] > now
    BY <1>2, <2>2 DEF AllVersions, Version
  <2>4. Grows
    BY <1>1, <1>2, <2>2, <2>3 DEF Grows
  <2> QED
    BY <1>1, <1>3, <2>2, <2>3, <2>4, WorldKeepsInv
<1>5. CASE ~\E i \in Item : Edit(i)
  <2>1. UNCHANGED <<modified, excused, missed>> /\ now' \in {now, now + 1}
    BY <1>5 DEF Tick, Register, Unregister, vars, source, history
  <2>2. Grows
    BY <1>1, <1>2, <2>1 DEF Grows
  <2> QED
    BY <1>1, <1>3, <2>1, <2>2, WorldKeepsInv
<1> QED BY <1>4, <1>5

LEMMA CrashKeepsInv ==
  ASSUME Inv, TypeOK', NEW p \in Process, Crash(p)
  PROVE  Inv'
<1> DEFINE gone == {s \in Sync : pc[s] # "idle" /\ job[s].by = p}
<1>1. /\ UNCHANGED <<source, state, excused>>
      /\ available \subseteq available'
      /\ cutoff' = cutoff \cup {job[s].of : s \in {t \in gone : pc[t] \in Marked}}
      /\ \A s \in gone : pc'[s] = "idle" /\ job'[s] = NoJob
      /\ \A s \in Sync : s \notin gone =>
           pc'[s] = pc[s] /\ job'[s] = job[s] /\ missed'[s] = missed[s]
  BY DEF Crash
<1>2. Grows
  <2>1. now <= now
    BY BoundsType DEF Inv, TypeOK
  <2> QED BY <1>1, <2>1 DEF Grows, source
<1>3. RunningIsUnderWay'
  <2> SUFFICES ASSUME NEW e \in Engagement, state[e].status = "running", e \notin cutoff'
               PROVE  \E s \in Sync : job'[s].of = e /\ pc'[s] \in Marked
    BY <1>1 DEF RunningIsUnderWay
  <2>1. PICK s \in Sync : job[s].of = e /\ pc[s] \in Marked
    BY <1>1 DEF Inv, RunningIsUnderWay
  <2>2. s \notin gone
    BY <1>1, <2>1
  <2> QED BY <1>1, <2>1, <2>2
<1> HIDE DEF gone
<1> QED
  BY <1>1, <1>2, <1>3, WorldKeepsInv

-----------------------------------------------------------------------------
LEMMA InitInv == Init => Inv
<1> SUFFICES ASSUME Init PROVE Inv
  OBVIOUS
<1>1. TypeOK
  BY StartTypes, BoundsType DEF Init, TypeOK
<1>2. \A s \in Sync : SyncInv(s)
  BY BoundsType DEF Init, SyncInv, JobOf, ListingCovers, FetchCovers, NoJob, NewState,
     SyncLabel, TestLabel
<1>3. SavedInTime /\ LaterSyncCovers /\ RunningIsUnderWay
  BY DEF Init, NewState, SavedInTime, LaterSyncCovers, RunningIsUnderWay
<1> QED
  BY <1>1, <1>2, <1>3 DEF Inv

LEMMA NextKeepsInv ==
  ASSUME Inv, [Next]_vars
  PROVE  Inv'
<1>1. TypeOK'
  <2>1. CASE Next
    BY <2>1, NextKeepsTypes DEF Inv, SyncInv
  <2>2. CASE UNCHANGED vars
    BY <2>2 DEF vars, source, objects, intake, history, Inv, TypeOK
  <2> QED BY <2>1, <2>2
<1>2. ASSUME NEW s \in Sync, SyncStep(s) PROVE Inv'
  BY <1>1, <1>2, ReadKeepsInv, EndUnmarkedKeepsInv, MarkKeepsInv, CallKeepsInv,
     BeginListKeepsInv, EndListKeepsInv, EndKeepsInv, FetchKeepsInv, IngestKeepsInv,
     SaveKeepsInv DEF SyncStep
<1> QED
  BY <1>1, <1>2, QuietKeepsInv, CrashKeepsInv, StartKeepsInv DEF Next

LEMMA Invariance == Spec => []Inv
BY InitInv, NextKeepsInv, PTL DEF Spec

-----------------------------------------------------------------------------
(* Whatever raises, dies, or runs at the same time, each sync has the      *)
(* variables that its next call needs (connectors/sync_manager.py).        *)
THEOREM SyncManagerTyped == Spec => []TypeOK
<1>1. Inv => TypeOK
  BY DEF Inv
<1> QED BY <1>1, Invariance, PTL

(* What run_sync() puts on record never hides a document from the next     *)
(* sync but in the four ways that LaterSyncCovers names.                  *)
THEOREM SyncsCover == Spec => []LaterSyncCovers
<1>1. Inv => LaterSyncCovers
  BY DEF Inv
<1> QED BY <1>1, Invariance, PTL

(* A record says "running" of a sync that is under way, unless a process   *)
(* died or a save raised.                                                  *)
THEOREM SyncsRunningAreUnderWay == Spec => []RunningIsUnderWay
<1>1. Inv => RunningIsUnderWay
  BY DEF Inv
<1> QED BY <1>1, Invariance, PTL
=============================================================================
