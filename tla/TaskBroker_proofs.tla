-------------------------- MODULE TaskBroker_proofs --------------------------
(***************************************************************************)
(* Proofs about TaskBroker, for any number of workers, queues, messages,   *)
(* retries and faults.                                                     *)
(*                                                                         *)
(* The inductive invariant is BrokerInv: types and Ownership together.     *)
(* Neither is inductive alone: what a consumer does to "its" message is    *)
(* well-typed only because it owns one, and ownership survives a step only *)
(* because delivery picks a message nobody owns.                           *)
(***************************************************************************)
EXTENDS TaskBroker, SequenceTheorems, FiniteSetTheorems, TLAPS

BrokerInv == BrokerTypeOK /\ Ownership

-----------------------------------------------------------------------------
(* How the two ways of changing the log act on each message of it.         *)

(* Moving a message changes nothing but its place.                         *)
LEMMA MovedLog ==
  ASSUME NEW l \in Seq(Message), NEW m \in DOMAIN l, NEW p \in Place
  PROVE  LET k == [l EXCEPT ![m].place = p] IN
         /\ k \in Seq(Message)
         /\ Len(k) = Len(l)
         /\ DOMAIN k = DOMAIN l
         /\ k[m].place = p
         /\ \A n \in DOMAIN l : n # m => k[n].place = l[n].place
         /\ \A n \in DOMAIN l : /\ k[n].queue = l[n].queue
                                /\ k[n].payload = l[n].payload
                                /\ k[n].retry = l[n].retry
                                /\ k[n].origin = l[n].origin
<1> DEFINE e == [l[m] EXCEPT !.place = p]
           k == [l EXCEPT ![m] = e]
<1>1. DOMAIN l = 1..Len(l) /\ Len(l) \in Nat
  BY LenProperties
<1>2. l[m] \in Message
  BY <1>1, ElementOfSeq
<1>3. e \in Message
  BY <1>2 DEF Message
<1>4. /\ k \in Seq(Message)
      /\ Len(k) = Len(l)
      /\ \A n \in 1..Len(l) : k[n] = IF n = m THEN e ELSE l[n]
  BY <1>1, <1>3, ExceptSeq
<1>5. DOMAIN k = DOMAIN l
  OBVIOUS
<1>6. /\ e.place = p
      /\ e.queue = l[m].queue
      /\ e.payload = l[m].payload
      /\ e.retry = l[m].retry
      /\ e.origin = l[m].origin
  BY <1>2 DEF Message
<1>7. k = [l EXCEPT ![m].place = p]
  OBVIOUS
<1> QED
  BY <1>1, <1>4, <1>5, <1>6, <1>7

(* Publishing adds one message at the end.                                 *)
LEMMA AppendedLog ==
  ASSUME NEW l \in Seq(Message), NEW e \in Message
  PROVE  LET k == Append(l, e) IN
         /\ k \in Seq(Message)
         /\ DOMAIN k = DOMAIN l \cup {Len(l) + 1}
         /\ Len(l) + 1 \notin DOMAIN l
         /\ k[Len(l) + 1] = e
         /\ \A n \in DOMAIN l : k[n] = l[n]
<1>1. DOMAIN l = 1..Len(l) /\ Len(l) \in Nat
  BY LenProperties
<1> QED
  BY <1>1

-----------------------------------------------------------------------------
(* A step of a consumer that answers for the message it owns.              *)
LEMMA ReleaseKeepsInv ==
  ASSUME BrokerInv, faults' \in 0..MaxFaults,
         NEW c \in Consumer, phase[c] \in Holding,
         NEW p \in Place \ {"unacked"}, NEW next \in Phase \ Holding,
         Release(c, p, next)
  PROVE  BrokerInv'
<1> DEFINE m == held[c]
<1>1. m \in DOMAIN log /\ log[m].place = "unacked"
  BY DEF BrokerInv, Ownership
<1>2. /\ log' \in Seq(Message)
      /\ DOMAIN log' = DOMAIN log
      /\ log'[m].place = p
      /\ \A n \in DOMAIN log : n # m => log'[n].place = log[n].place
      /\ \A n \in DOMAIN log : log'[n].queue = log[n].queue
  BY <1>1, MovedLog DEF Release, Moved, BrokerInv, BrokerTypeOK
<1>3. m \in Nat \ {0}
  BY <1>1, LenProperties DEF BrokerInv, BrokerTypeOK
<1>4. /\ held' \in [Consumer -> Nat]
      /\ phase' \in [Consumer -> Phase]
      /\ held'[c] = 0 /\ phase'[c] = next
      /\ \A d \in Consumer : d # c => held'[d] = held[d] /\ phase'[d] = phase[d]
  BY DEF Release, BrokerInv, BrokerTypeOK
<1>5. \A d \in Consumer : d # c => held[d] # m
  BY <1>3 DEF BrokerInv, Ownership
<1>6. BrokerTypeOK'
  BY <1>2, <1>4 DEF BrokerTypeOK
<1>7. ASSUME NEW d \in Consumer
      PROVE  IF phase'[d] \in Holding
               THEN /\ held'[d] \in DOMAIN log'
                    /\ log'[held'[d]].place = "unacked"
                    /\ log'[held'[d]].queue = QueueOf(d)
               ELSE held'[d] = 0
  <2>1. CASE d = c
    BY <2>1, <1>4
  <2>2. CASE d # c
    BY <2>2, <1>2, <1>4, <1>5 DEF BrokerInv, Ownership
  <2> QED BY <2>1, <2>2
<1>8. \A d, e \in Consumer : held'[d] = held'[e] => d = e \/ held'[d] = 0
  BY <1>4 DEF BrokerInv, Ownership
<1>9. ASSUME NEW n \in DOMAIN log', log'[n].place = "unacked"
      PROVE  \E d \in Consumer : held'[d] = n
  <2>1. n # m /\ n \in DOMAIN log /\ log[n].place = "unacked"
    BY <1>2, <1>9
  <2>2. PICK d \in Consumer : held[d] = n
    BY <2>1 DEF BrokerInv, Ownership
  <2> QED BY <2>1, <2>2, <1>4
<1> QED
  BY <1>6, <1>7, <1>8, <1>9 DEF BrokerInv, Ownership

(* A step that publishes a message and leaves ownership alone.             *)
LEMMA AppendKeepsInv ==
  ASSUME BrokerInv, faults' \in 0..MaxFaults,
         NEW e \in Message, e.place = "ready", log' = Append(log, e),
         held' = held, phase' \in [Consumer -> Phase],
         \A c \in Consumer : phase'[c] \in Holding <=> phase[c] \in Holding
  PROVE  BrokerInv'
<1>1. /\ log' \in Seq(Message)
      /\ DOMAIN log' = DOMAIN log \cup {Len(log) + 1}
      /\ log'[Len(log) + 1] = e
      /\ \A n \in DOMAIN log : log'[n] = log[n]
  BY AppendedLog DEF BrokerInv, BrokerTypeOK
<1>2. BrokerTypeOK'
  BY <1>1 DEF BrokerInv, BrokerTypeOK
<1>3. Ownership'
  BY <1>1 DEF BrokerInv, Ownership
<1> QED
  BY <1>2, <1>3 DEF BrokerInv

(* A step that leaves the log alone and gives no one a message.            *)
LEMMA PhaseKeepsInv ==
  ASSUME BrokerInv, faults' \in 0..MaxFaults, log' = log, held' = held,
         phase' \in [Consumer -> Phase],
         \A c \in Consumer : phase'[c] \in Holding <=> phase[c] \in Holding
  PROVE  BrokerInv'
BY DEF BrokerInv, BrokerTypeOK, Ownership

(* Initially there is no message and no consumer has any.                  *)
LEMMA InitInv == BrokerInit => BrokerInv
<1> SUFFICES ASSUME BrokerInit PROVE BrokerInv
  OBVIOUS
<1>1. log \in Seq(Message) /\ DOMAIN log = {}
  BY DEF BrokerInit
<1>2. BrokerTypeOK
  BY <1>1, BrokerAssumption DEF BrokerInit, BrokerTypeOK, Phase
<1>3. Ownership
  BY <1>1 DEF BrokerInit, Ownership, Holding
<1> QED
  BY <1>2, <1>3 DEF BrokerInv

(* publish() adds a message nobody owns.                                   *)
LEMMA PublishKeepsInv ==
  ASSUME BrokerInv, NEW q \in Queue, NEW p \in Payload,
         Publish(q, p), UNCHANGED <<phase, held, faults>>
  PROVE  BrokerInv'
<1> DEFINE e == Fresh(q, p, 0, Len(log) + 1)
<1>1. Len(log) \in Nat
  BY LenProperties DEF BrokerInv, BrokerTypeOK
<1>2. e \in Message /\ e.place = "ready" /\ log' = Append(log, e)
  BY <1>1, BrokerAssumption DEF Publish, Fresh, Message, Place
<1> QED
  BY <1>2, AppendKeepsInv DEF BrokerInv, BrokerTypeOK

(* Delivery makes an idle consumer the owner of a message nobody owned.    *)
LEMMA DeliverKeepsInv ==
  ASSUME BrokerInv, NEW c \in Consumer, NEW m \in DOMAIN log, Deliver(c, m)
  PROVE  BrokerInv'
<1>1. /\ log' \in Seq(Message)
      /\ DOMAIN log' = DOMAIN log
      /\ log'[m].place = "unacked"
      /\ \A n \in DOMAIN log : n # m => log'[n].place = log[n].place
      /\ \A n \in DOMAIN log : log'[n].queue = log[n].queue
  <2>1. "unacked" \in Place
    BY DEF Place
  <2>2. log \in Seq(Message) /\ log' = [log EXCEPT ![m].place = "unacked"]
    BY DEF Deliver, Moved, BrokerInv, BrokerTypeOK
  <2> QED
    BY <2>1, <2>2, MovedLog
<1>2. m \in Nat \ {0}
  BY LenProperties DEF BrokerInv, BrokerTypeOK
<1>3. /\ held' = [held EXCEPT ![c] = m]
      /\ phase' = [phase EXCEPT ![c] = "handling"]
      /\ phase[c] = "idle" /\ faults' = faults
      /\ log[m].place = "ready" /\ log[m].queue = QueueOf(c)
  BY DEF Deliver, Advance
<1>4. \A d \in Consumer : held[d] # m
  BY <1>2, <1>3 DEF BrokerInv, Ownership
<1>5. BrokerTypeOK'
  BY <1>1, <1>2, <1>3 DEF BrokerInv, BrokerTypeOK, Phase
<1>6. /\ held'[c] = m /\ phase'[c] = "handling" /\ phase[c] \notin Holding
      /\ \A d \in Consumer : d # c => held'[d] = held[d] /\ phase'[d] = phase[d]
  BY <1>3 DEF BrokerInv, BrokerTypeOK, Holding
<1>7. ASSUME NEW d \in Consumer
      PROVE  IF phase'[d] \in Holding
               THEN /\ held'[d] \in DOMAIN log'
                    /\ log'[held'[d]].place = "unacked"
                    /\ log'[held'[d]].queue = QueueOf(d)
               ELSE held'[d] = 0
  <2>1. CASE d = c
    BY <2>1, <1>1, <1>3, <1>6 DEF Holding
  <2>2. CASE d # c
    BY <2>2, <1>1, <1>4, <1>6 DEF BrokerInv, Ownership
  <2> QED BY <2>1, <2>2
<1>8. \A d, e \in Consumer : held'[d] = held'[e] => d = e \/ held'[d] = 0
  BY <1>4, <1>6 DEF BrokerInv, Ownership
<1>9. ASSUME NEW n \in DOMAIN log', log'[n].place = "unacked"
      PROVE  \E d \in Consumer : held'[d] = n
  <2>1. CASE n = m
    BY <2>1, <1>6
  <2>2. CASE n # m
    <3>1. PICK d \in Consumer : held[d] = n
      BY <2>2, <1>1, <1>9 DEF BrokerInv, Ownership
    <3>2. d # c
      BY <3>1, <1>1, <1>2, <1>6, <1>9, LenProperties DEF BrokerInv, BrokerTypeOK, Ownership
    <3> QED BY <3>1, <3>2, <1>6
  <2> QED BY <2>1, <2>2
<1>10. Ownership'
  BY <1>7, <1>8, <1>9 DEF Ownership
<1> QED
  BY <1>5, <1>10 DEF BrokerInv

(* The copy of a failed message is well-typed because its retry count was  *)
(* below the limit, and nobody owns it yet.                                *)
LEMMA RepublishKeepsInv ==
  ASSUME BrokerInv, NEW c \in Consumer, Republish(c)
  PROVE  BrokerInv'
<1> DEFINE m == held[c]
           e == NextAttempt(m)
<1>1. phase[c] = "raised" /\ m \in DOMAIN log
  BY DEF Republish, Advance, BrokerInv, Ownership, Holding
<1>2. log[m] \in Message
  BY <1>1, LenProperties, ElementOfSeq DEF BrokerInv, BrokerTypeOK
<1>3. e \in Message /\ e.place = "ready" /\ log' = Append(log, e)
  BY <1>2, BrokerAssumption DEF Republish, NextAttempt, Fresh, Message, Place
<1>4. phase' = [phase EXCEPT ![c] = "republished"] /\ held' = held /\ faults' = faults
  BY DEF Republish, Advance
<1>5. phase' \in [Consumer -> Phase]
  BY <1>4 DEF BrokerInv, BrokerTypeOK, Phase
<1>6. \A d \in Consumer : phase'[d] \in Holding <=> phase[d] \in Holding
  BY <1>1, <1>4 DEF BrokerInv, BrokerTypeOK, Holding
<1>7. faults' \in 0..MaxFaults
  BY <1>4 DEF BrokerInv, BrokerTypeOK
<1> QED
  BY <1>3, <1>4, <1>5, <1>6, <1>7, AppendKeepsInv

(* What a crash does to the log: exactly the messages the process owned    *)
(* become ready again.                                                     *)
LEMMA CrashedLog ==
  ASSUME BrokerInv, NEW w \in Worker, Crash(w)
  PROVE  /\ log' \in Seq(Message)
         /\ DOMAIN log' = DOMAIN log
         /\ \A m \in DOMAIN log :
              /\ log'[m].queue = log[m].queue
              /\ log'[m].payload = log[m].payload
              /\ log'[m].retry = log[m].retry
              /\ log'[m].origin = log[m].origin
              /\ log'[m].place = IF \E q \in Queue : held[<<w, q>>] = m
                                   THEN "ready" ELSE log[m].place
<1> DEFINE owned(m) == \E q \in Queue : held[<<w, q>>] = m
           e(m) == IF owned(m) THEN [log[m] EXCEPT !.place = "ready"] ELSE log[m]
<1>1. DOMAIN log = 1..Len(log) /\ Len(log) \in Nat
  BY LenProperties DEF BrokerInv, BrokerTypeOK
<1>2. log' = [m \in 1..Len(log) |-> e(m)]
  BY <1>1 DEF Crash
<1>3. ASSUME NEW m \in DOMAIN log
      PROVE  /\ e(m) \in Message
             /\ e(m).queue = log[m].queue
             /\ e(m).payload = log[m].payload
             /\ e(m).retry = log[m].retry
             /\ e(m).origin = log[m].origin
             /\ e(m).place = IF owned(m) THEN "ready" ELSE log[m].place
  <2>1. log[m] \in Message
    BY <1>1, ElementOfSeq DEF BrokerInv, BrokerTypeOK
  <2>2. [log[m] EXCEPT !.place = "ready"] \in Message
    BY <2>1 DEF Message, Place
  <2> QED
    BY <2>1, <2>2 DEF Message
<1>4. log' \in Seq(Message)
  <2>1. log' \in [1..Len(log) -> Message]
    BY <1>1, <1>2, <1>3
  <2> QED
    BY <1>1, <2>1, SeqDef
<1>5. DOMAIN log' = DOMAIN log
  BY <1>1, <1>2
<1>6. \A m \in DOMAIN log : log'[m] = e(m)
  BY <1>1, <1>2
<1> QED
  BY <1>3, <1>4, <1>5, <1>6

(* A crash takes the messages of the process back and leaves the others.   *)
LEMMA CrashKeepsInv ==
  ASSUME BrokerInv, NEW w \in Worker, Crash(w)
  PROVE  BrokerInv'
<1>1. /\ log' \in Seq(Message)
      /\ DOMAIN log' = DOMAIN log
      /\ \A m \in DOMAIN log :
           /\ log'[m].queue = log[m].queue
           /\ log'[m].place = IF \E q \in Queue : held[<<w, q>>] = m
                                THEN "ready" ELSE log[m].place
  BY CrashedLog
<1>2. /\ held' = [c \in Consumer |-> IF c[1] = w THEN 0 ELSE held[c]]
      /\ phase' = [c \in Consumer |-> IF c[1] = w THEN "down" ELSE phase[c]]
      /\ faults < MaxFaults /\ faults' = faults + 1
  BY DEF Crash, Fault
<1>3. BrokerTypeOK'
  BY <1>1, <1>2, BrokerAssumption DEF BrokerInv, BrokerTypeOK, Phase
<1>4. \A c \in Consumer : c[1] = w <=> \E q \in Queue : c = <<w, q>>
  BY DEF Consumer
<1>5. \A m \in DOMAIN log : m # 0
  BY LenProperties DEF BrokerInv, BrokerTypeOK
<1>6. ASSUME NEW c \in Consumer
      PROVE  IF phase'[c] \in Holding
               THEN /\ held'[c] \in DOMAIN log'
                    /\ log'[held'[c]].place = "unacked"
                    /\ log'[held'[c]].queue = QueueOf(c)
               ELSE held'[c] = 0
  <2>1. CASE c[1] = w
    BY <2>1, <1>2 DEF Holding
  <2>2. CASE c[1] # w /\ phase[c] \notin Holding
    BY <2>2, <1>2 DEF BrokerInv, Ownership
  <2>3. CASE c[1] # w /\ phase[c] \in Holding
    <3>1. /\ held[c] \in DOMAIN log
          /\ log[held[c]].place = "unacked"
          /\ log[held[c]].queue = QueueOf(c)
      BY <2>3 DEF BrokerInv, Ownership
    <3>2. \A q \in Queue : held[<<w, q>>] # held[c]
      BY <2>3, <3>1, <1>4, <1>5 DEF BrokerInv, Ownership, Consumer
    <3> QED
      BY <2>3, <3>1, <3>2, <1>1, <1>2
  <2> QED BY <2>1, <2>2, <2>3
<1>7. \A c, d \in Consumer : held'[c] = held'[d] => c = d \/ held'[c] = 0
  BY <1>2 DEF BrokerInv, Ownership
<1>8. ASSUME NEW m \in DOMAIN log', log'[m].place = "unacked"
      PROVE  \E c \in Consumer : held'[c] = m
  <2>1. /\ m \in DOMAIN log /\ log[m].place = "unacked"
        /\ ~ \E q \in Queue : held[<<w, q>>] = m
    BY <1>1, <1>8
  <2>2. PICK c \in Consumer : held[c] = m
    BY <2>1 DEF BrokerInv, Ownership
  <2>3. c[1] # w
    BY <2>1, <2>2, <1>4
  <2> QED BY <2>2, <2>3, <1>2
<1>9. Ownership'
  BY <1>6, <1>7, <1>8 DEF Ownership
<1> QED
  BY <1>3, <1>9 DEF BrokerInv

(* Starting, killing and stopping a worker.                                *)
LEMMA WorkerKeepsInv ==
  ASSUME BrokerInv, NEW w \in Worker, Start(w) \/ Shutdown(w)
  PROVE  BrokerInv'
<1>1. log' = log /\ held' = held /\ faults' \in 0..MaxFaults
  BY BrokerAssumption DEF Start, Shutdown, Fault, BrokerInv, BrokerTypeOK
<1>2. phase' \in [Consumer -> Phase]
  BY DEF Start, Shutdown, BrokerInv, BrokerTypeOK, Phase
<1>3. \A c \in Consumer : c[1] = w => \E q \in Queue : c = <<w, q>>
  BY DEF Consumer
<1>4. \A c \in Consumer : phase'[c] \in Holding <=> phase[c] \in Holding
  <2>1. CASE Start(w)
    BY <2>1, <1>3 DEF Start, Holding
  <2>2. CASE Shutdown(w)
    BY <2>2 DEF Shutdown, Holding
  <2> QED BY <2>1, <2>2
<1> QED
  BY <1>1, <1>2, <1>4, PhaseKeepsInv

(* The steps of one consumer.                                              *)
LEMMA ConsumerKeepsInv ==
  ASSUME BrokerInv, NEW c \in Consumer, ConsumerStep(c) \/ RepublishFails(c)
  PROVE  BrokerInv'
<1>0. faults \in 0..MaxFaults /\ MaxFaults \in Nat
  BY BrokerAssumption DEF BrokerInv, BrokerTypeOK
<1>1. ASSUME NEW m \in DOMAIN log, Deliver(c, m) PROVE BrokerInv'
  BY <1>1, DeliverKeepsInv
<1>2. CASE HandlerReturns(c)
  BY <1>2, <1>0, ReleaseKeepsInv DEF HandlerReturns, Holding, Place, Phase
<1>3. CASE HandlerRaises(c)
  BY <1>3, <1>0, PhaseKeepsInv
     DEF HandlerRaises, Advance, BrokerInv, BrokerTypeOK, Holding, Phase
<1>4. CASE Republish(c)
  BY <1>4, RepublishKeepsInv
<1>5. CASE AckRetried(c)
  BY <1>5, <1>0, ReleaseKeepsInv DEF AckRetried, Holding, Place, Phase
<1>6. CASE DropExhausted(c)
  BY <1>6, <1>0, ReleaseKeepsInv DEF DropExhausted, Holding, Place, Phase
<1>7. CASE RejectCancelled(c)
  BY <1>7, <1>0, ReleaseKeepsInv DEF RejectCancelled, Holding, Place, Phase
<1>8. CASE RepublishFails(c)
  BY <1>8, <1>0, ReleaseKeepsInv DEF RepublishFails, Fault, Holding, Place, Phase
<1> QED
  BY <1>1, <1>2, <1>3, <1>4, <1>5, <1>6, <1>7, <1>8 DEF ConsumerStep

(* Types and ownership together are inductive.                             *)
LEMMA NextKeepsInv == BrokerInv /\ [BrokerNext]_brokerVars => BrokerInv'
<1> SUFFICES ASSUME BrokerInv, [BrokerNext]_brokerVars PROVE BrokerInv'
  OBVIOUS
<1>1. ASSUME NEW q \in Queue, NEW p \in Payload,
             Publish(q, p), UNCHANGED <<phase, held, faults>>
      PROVE  BrokerInv'
  BY <1>1, PublishKeepsInv
<1>2. ASSUME NEW w \in Worker, Start(w) \/ Crash(w) \/ Shutdown(w)
      PROVE  BrokerInv'
  BY <1>2, CrashKeepsInv, WorkerKeepsInv
<1>3. ASSUME NEW c \in Consumer, ConsumerStep(c) \/ RepublishFails(c)
      PROVE  BrokerInv'
  BY <1>3, ConsumerKeepsInv
<1>4. CASE UNCHANGED brokerVars
  BY <1>4 DEF brokerVars, BrokerInv, BrokerTypeOK, Ownership
<1> QED
  BY <1>1, <1>2, <1>3, <1>4 DEF BrokerNext

(* Messages, phases and counters keep their types in every run.            *)
THEOREM BrokerTyping == BrokerSpec => []BrokerTypeOK
<1>1. BrokerInv => BrokerTypeOK
  BY DEF BrokerInv
<1> QED
  BY <1>1, InitInv, NextKeepsInv, PTL DEF BrokerSpec

(* In every run, with any number of workers crashing and being shut down,  *)
(* an unacknowledged message is owned by exactly one consumer of its queue.*)
THEOREM BrokerOwnership == BrokerSpec => []Ownership
<1>1. BrokerInv => Ownership
  BY DEF BrokerInv
<1> QED
  BY <1>1, InitInv, NextKeepsInv, PTL DEF BrokerSpec

-----------------------------------------------------------------------------
(* No task is lost.  With types and ownership NoTaskLost is inductive: the *)
(* only step that supersedes a current message (Republish) adds its        *)
(* successor, which is current, in the same step; acknowledging a retried  *)
(* message touches one that was superseded before.                         *)

(* What a step has to do to keep every task: keep the messages and their   *)
(* origins, replace what it supersedes, and add only current messages.     *)
LEMMA KeepsTasks ==
  ASSUME NoTaskLost,
         \A n \in DOMAIN log : n \in DOMAIN log' /\ log'[n].origin = log[n].origin,
         \A n \in DOMAIN log : ~Superseded(n) =>
            \E k \in DOMAIN log' : log'[k].origin = log[n].origin /\ ~Superseded(k)',
         \A n \in DOMAIN log' : n \notin DOMAIN log => ~Superseded(n)'
  PROVE  NoTaskLost'
<1> SUFFICES ASSUME NEW n \in DOMAIN log'
             PROVE  \E k \in DOMAIN log' : log'[k].origin = log'[n].origin /\ ~Superseded(k)'
  BY DEF NoTaskLost, CurrentCopies
<1>1. CASE n \notin DOMAIN log
  BY <1>1
<1>2. CASE n \in DOMAIN log
  <2>1. PICK k \in DOMAIN log : log[k].origin = log[n].origin /\ ~Superseded(k)
    BY <1>2 DEF NoTaskLost, CurrentCopies
  <2> QED
    BY <1>2, <2>1
<1> QED
  BY <1>1, <1>2

(* A consumer that answers for its message without superseding it.         *)
LEMMA ReleaseKeepsTasks ==
  ASSUME BrokerInv, NoTaskLost,
         NEW c \in Consumer, phase[c] \in Holding,
         NEW p \in Place \ {"unacked"}, NEW next \in Phase \ Holding,
         p = "retried" => phase[c] = "republished",
         Release(c, p, next)
  PROVE  NoTaskLost'
<1> DEFINE m == held[c]
<1>1. m \in DOMAIN log /\ log[m].place = "unacked"
  BY DEF BrokerInv, Ownership
<1>2. /\ DOMAIN log' = DOMAIN log
      /\ log'[m].place = p
      /\ \A n \in DOMAIN log : n # m => log'[n].place = log[n].place
      /\ \A n \in DOMAIN log : log'[n].origin = log[n].origin
  BY <1>1, MovedLog DEF Release, Moved, BrokerInv, BrokerTypeOK
<1>3. /\ held'[c] = 0 /\ phase'[c] = next /\ next # "republished"
      /\ \A d \in Consumer : d # c => held'[d] = held[d] /\ phase'[d] = phase[d]
  BY DEF Release, BrokerInv, BrokerTypeOK, Holding
<1>4. ASSUME NEW n \in DOMAIN log, ~Superseded(n)
      PROVE  ~Superseded(n)'
  <2>1. CASE n = m
    <3>1. p # "retried"
      BY <2>1, <1>4 DEF Superseded
    <3>2. \A d \in Consumer : d # c => held'[d] # m
      BY <1>1, <1>3, LenProperties DEF BrokerInv, BrokerTypeOK, Ownership
    <3> QED
      BY <2>1, <3>1, <3>2, <1>2, <1>3 DEF Superseded
  <2>2. CASE n # m
    BY <2>2, <1>2, <1>3, <1>4 DEF Superseded
  <2> QED BY <2>1, <2>2
<1> QED
  BY <1>2, <1>4, KeepsTasks

(* Delivery supersedes nothing.                                            *)
LEMMA DeliverKeepsTasks ==
  ASSUME BrokerInv, NoTaskLost, NEW c \in Consumer, NEW m \in DOMAIN log, Deliver(c, m)
  PROVE  NoTaskLost'
<1>1. /\ DOMAIN log' = DOMAIN log
      /\ log'[m].place = "unacked"
      /\ \A n \in DOMAIN log : n # m => log'[n].place = log[n].place
      /\ \A n \in DOMAIN log : log'[n].origin = log[n].origin
  <2>1. "unacked" \in Place
    BY DEF Place
  <2>2. log \in Seq(Message) /\ log' = [log EXCEPT ![m].place = "unacked"]
    BY DEF Deliver, Moved, BrokerInv, BrokerTypeOK
  <2> QED
    BY <2>1, <2>2, MovedLog
<1>2. /\ phase'[c] = "handling"
      /\ \A d \in Consumer : d # c => held'[d] = held[d] /\ phase'[d] = phase[d]
  BY DEF Deliver, Advance, BrokerInv, BrokerTypeOK
<1>3. \A n \in DOMAIN log : ~Superseded(n) => ~Superseded(n)'
  BY <1>1, <1>2 DEF Superseded
<1> QED
  BY <1>1, <1>3, KeepsTasks

(* A new message is current: it is ready, and nobody owns it yet.          *)
LEMMA AppendKeepsTasks ==
  ASSUME BrokerInv, NoTaskLost, NEW e \in Message, e.place = "ready",
         log' = Append(log, e), held' = held,
         \A n \in DOMAIN log : ~Superseded(n) =>
           ~Superseded(n)' \/ log[n].origin = e.origin
  PROVE  NoTaskLost'
<1>0. PICK new : new = Len(log) + 1
  OBVIOUS
<1>1. /\ DOMAIN log' = DOMAIN log \cup {new}
      /\ new \notin DOMAIN log
      /\ log'[new] = e
      /\ \A n \in DOMAIN log : log'[n] = log[n]
  BY <1>0, AppendedLog DEF BrokerInv, BrokerTypeOK
<1>2. new # 0
  BY <1>0, LenProperties DEF BrokerInv, BrokerTypeOK
<1>3. \A d \in Consumer : held[d] # new
  BY <1>1, <1>2 DEF BrokerInv, Ownership
<1>4. ~Superseded(new)'
  BY <1>1, <1>3 DEF Superseded
<1>5. \A n \in DOMAIN log : ~Superseded(n) =>
         \E k \in DOMAIN log' : log'[k].origin = log[n].origin /\ ~Superseded(k)'
  BY <1>1, <1>4
<1>6. \A n \in DOMAIN log' : n \notin DOMAIN log => ~Superseded(n)'
  BY <1>1, <1>4
<1> QED
  BY <1>1, <1>5, <1>6, KeepsTasks

(* A change of phase that neither enters nor leaves "republished".         *)
LEMMA PhaseKeepsTasks ==
  ASSUME BrokerInv, NoTaskLost, log' = log, held' = held,
         \A c \in Consumer : phase'[c] = "republished" => phase[c] = "republished"
  PROVE  NoTaskLost'
<1>1. \A n \in DOMAIN log : ~Superseded(n) => ~Superseded(n)'
  BY DEF Superseded
<1> QED
  BY <1>1, KeepsTasks

(* A crash can only make a superseded message current again.               *)
LEMMA CrashKeepsTasks ==
  ASSUME BrokerInv, NoTaskLost, NEW w \in Worker, Crash(w)
  PROVE  NoTaskLost'
<1>1. /\ DOMAIN log' = DOMAIN log
      /\ \A m \in DOMAIN log :
           /\ log'[m].origin = log[m].origin
           /\ log'[m].place = "retried" => log[m].place = "retried"
  BY CrashedLog
<1>2. \A c \in Consumer : phase'[c] = "republished" =>
                            phase[c] = "republished" /\ held'[c] = held[c]
  BY DEF Crash
<1>3. \A n \in DOMAIN log : ~Superseded(n) => ~Superseded(n)'
  BY <1>1, <1>2 DEF Superseded
<1> QED
  BY <1>1, <1>3, KeepsTasks

(* A new task is its own current message.                                  *)
LEMMA PublishKeepsTasks ==
  ASSUME BrokerInv, NoTaskLost, NEW q \in Queue, NEW p \in Payload,
         Publish(q, p), UNCHANGED <<phase, held, faults>>
  PROVE  NoTaskLost'
<1> DEFINE e == Fresh(q, p, 0, Len(log) + 1)
<1>1. e \in Message /\ e.place = "ready" /\ log' = Append(log, e)
  BY LenProperties, BrokerAssumption
     DEF Publish, Fresh, Message, Place, BrokerInv, BrokerTypeOK
<1>2. \A n \in DOMAIN log : log'[n] = log[n]
  BY <1>1, AppendedLog DEF BrokerInv, BrokerTypeOK
<1>3. \A n \in DOMAIN log : ~Superseded(n) => ~Superseded(n)'
  BY <1>2 DEF Superseded
<1> QED
  BY <1>1, <1>3, AppendKeepsTasks

(* The copy is current from the step that supersedes its original.         *)
LEMMA RepublishKeepsTasks ==
  ASSUME BrokerInv, NoTaskLost, NEW c \in Consumer, Republish(c)
  PROVE  NoTaskLost'
<1> DEFINE m == held[c]
           e == NextAttempt(m)
<1>1. phase[c] = "raised" /\ m \in DOMAIN log
  BY DEF Republish, Advance, BrokerInv, Ownership, Holding
<1>2. log[m] \in Message
  BY <1>1, LenProperties, ElementOfSeq DEF BrokerInv, BrokerTypeOK
<1>3. e \in Message /\ e.place = "ready" /\ e.origin = log[m].origin
      /\ log' = Append(log, e)
  BY <1>2, BrokerAssumption DEF Republish, NextAttempt, Fresh, Message, Place
<1>4. \A n \in DOMAIN log : log'[n] = log[n]
  BY <1>3, AppendedLog DEF BrokerInv, BrokerTypeOK
<1>5. held' = held /\ \A d \in Consumer : d # c => phase'[d] = phase[d]
  BY DEF Republish, Advance, BrokerInv, BrokerTypeOK
<1>6. \A n \in DOMAIN log : ~Superseded(n) => ~Superseded(n)' \/ n = m
  BY <1>4, <1>5 DEF Superseded
<1> QED
  BY <1>3, <1>5, <1>6, AppendKeepsTasks

(* Every step keeps every task.                                            *)
LEMMA NextKeepsTasks ==
  BrokerInv /\ NoTaskLost /\ [BrokerNext]_brokerVars => NoTaskLost'
<1> SUFFICES ASSUME BrokerInv, NoTaskLost, [BrokerNext]_brokerVars PROVE NoTaskLost'
  OBVIOUS
<1>1. ASSUME NEW q \in Queue, NEW p \in Payload,
             Publish(q, p), UNCHANGED <<phase, held, faults>>
      PROVE  NoTaskLost'
  BY <1>1, PublishKeepsTasks
<1>2. ASSUME NEW w \in Worker, Start(w) \/ Crash(w) \/ Shutdown(w)
      PROVE  NoTaskLost'
  <2>1. CASE Start(w)
    BY <2>1, PhaseKeepsTasks DEF Start
  <2>2. CASE Crash(w)
    BY <2>2, CrashKeepsTasks
  <2>3. CASE Shutdown(w)
    BY <2>3, PhaseKeepsTasks DEF Shutdown
  <2> QED BY <1>2, <2>1, <2>2, <2>3
<1>3. ASSUME NEW c \in Consumer, ConsumerStep(c) \/ RepublishFails(c)
      PROVE  NoTaskLost'
  <2>1. ASSUME NEW m \in DOMAIN log, Deliver(c, m) PROVE NoTaskLost'
    BY <2>1, DeliverKeepsTasks
  <2>2. CASE HandlerReturns(c)
    BY <2>2, ReleaseKeepsTasks DEF HandlerReturns, Holding, Place, Phase
  <2>3. CASE HandlerRaises(c)
    BY <2>3, PhaseKeepsTasks DEF HandlerRaises, Advance, BrokerInv, BrokerTypeOK
  <2>4. CASE Republish(c)
    BY <2>4, RepublishKeepsTasks
  <2>5. CASE AckRetried(c)
    BY <2>5, ReleaseKeepsTasks DEF AckRetried, Holding, Place, Phase
  <2>6. CASE DropExhausted(c)
    BY <2>6, ReleaseKeepsTasks DEF DropExhausted, Holding, Place, Phase
  <2>7. CASE RejectCancelled(c)
    BY <2>7, ReleaseKeepsTasks DEF RejectCancelled, Holding, Place, Phase
  <2>8. CASE RepublishFails(c)
    BY <2>8, ReleaseKeepsTasks DEF RepublishFails, Holding, Place, Phase
  <2> QED
    BY <1>3, <2>1, <2>2, <2>3, <2>4, <2>5, <2>6, <2>7, <2>8 DEF ConsumerStep
<1>4. CASE UNCHANGED brokerVars
  BY <1>4, PhaseKeepsTasks DEF brokerVars
<1> QED
  BY <1>1, <1>2, <1>3, <1>4 DEF BrokerNext

(* No interleaving of retries, acknowledgements, crashes and shutdowns     *)
(* leaves a published task without a message that stands for it.           *)
THEOREM BrokerLosesNoTask == BrokerSpec => []NoTaskLost
<1>1. BrokerInit => NoTaskLost
  BY DEF BrokerInit, NoTaskLost
<1> QED
  BY <1>1, InitInv, NextKeepsInv, NextKeepsTasks, PTL DEF BrokerSpec
-----------------------------------------------------------------------------
(* Every attempt of a task.  A copy comes from a message one retry before  *)
(* it, so by descent the log has a message of the task for every retry     *)
(* count up to that of any of its messages.                                *)
Descent ==
  \A m \in DOMAIN log :
    /\ log[m].origin \in DOMAIN log
    /\ log[log[m].origin].queue = log[m].queue
    /\ log[m].place = "dropped" => log[m].retry = MAX_RETRIES
    /\ \A r \in 0..log[m].retry :
         \E n \in DOMAIN log : log[n].origin = log[m].origin /\ log[n].retry = r

Waiting == {"ready", "unacked"}

(* The three things a step may do to the log, whoever takes it.            *)
MovesWaiting ==
  /\ DOMAIN log' = DOMAIN log
  /\ \A n \in DOMAIN log :
       \/ log'[n].place = log[n].place
       \/ log[n].place \in Waiting /\ log'[n].place \in Waiting

Answers(m) ==
  /\ DOMAIN log' = DOMAIN log
  /\ log[m].place = "unacked" /\ log'[m].place \notin Waiting
  /\ log'[m].place = "dropped" => log[m].retry >= MAX_RETRIES
  /\ \A n \in DOMAIN log : n # m => log'[n].place = log[n].place

Adds(new) ==
  /\ DOMAIN log' = DOMAIN log \cup {new} /\ new \notin DOMAIN log
  /\ \A n \in DOMAIN log : log'[n].place = log[n].place
  /\ log'[new] \in Message /\ log'[new].place = "ready"
  /\ \/ log'[new].origin = new /\ log'[new].retry = 0
     \/ \E m \in DOMAIN log : /\ log[m].place = "unacked"
                              /\ log'[new].queue = log[m].queue
                              /\ log'[new].origin = log[m].origin
                              /\ log'[new].retry = log[m].retry + 1

KeepsMessages ==
  \A n \in DOMAIN log : /\ n \in DOMAIN log'
                        /\ log'[n].queue = log[n].queue
                        /\ log'[n].retry = log[n].retry
                        /\ log'[n].origin = log[n].origin

LogStep ==
  /\ KeepsMessages
  /\ \/ MovesWaiting
     \/ \E m \in DOMAIN log : Answers(m)
     \/ Adds(Len(log) + 1)

(* A consumer that answers for its message.                                *)
LEMMA ReleaseOnLog ==
  ASSUME BrokerInv, NEW c \in Consumer, phase[c] \in Holding,
         NEW p \in Place \ Waiting, NEW next \in Phase,
         p = "dropped" => log[held[c]].retry >= MAX_RETRIES,
         Release(c, p, next)
  PROVE  LogStep
<1> DEFINE m == held[c]
<1>1. m \in DOMAIN log /\ log[m].place = "unacked"
  BY DEF BrokerInv, Ownership
<1>2. log \in Seq(Message) /\ log' = [log EXCEPT ![m].place = p]
  BY DEF Release, Moved, BrokerInv, BrokerTypeOK
<1>3. /\ DOMAIN log' = DOMAIN log
      /\ log'[m].place = p
      /\ \A n \in DOMAIN log : n # m => log'[n].place = log[n].place
      /\ KeepsMessages
  BY <1>1, <1>2, MovedLog DEF KeepsMessages
<1>4. Answers(m)
  BY <1>1, <1>3 DEF Answers
<1> QED
  BY <1>1, <1>3, <1>4 DEF LogStep

LEMMA DeliverOnLog ==
  ASSUME BrokerInv, NEW c \in Consumer, NEW m \in DOMAIN log, Deliver(c, m)
  PROVE  LogStep
<1>1. log \in Seq(Message) /\ log' = [log EXCEPT ![m].place = "unacked"]
  BY DEF Deliver, Moved, BrokerInv, BrokerTypeOK
<1>2. "unacked" \in Place
  BY DEF Place
<1>3. /\ DOMAIN log' = DOMAIN log
      /\ log'[m].place = "unacked"
      /\ \A n \in DOMAIN log : n # m => log'[n].place = log[n].place
      /\ KeepsMessages
  BY <1>1, <1>2, MovedLog DEF KeepsMessages
<1>4. MovesWaiting
  BY <1>3 DEF MovesWaiting, Waiting, Deliver
<1> QED
  BY <1>3, <1>4 DEF LogStep

LEMMA PublishOnLog ==
  ASSUME BrokerInv, NEW q \in Queue, NEW p \in Payload, Publish(q, p)
  PROVE  LogStep
<1> DEFINE e == Fresh(q, p, 0, Len(log) + 1)
<1>1. e \in Message /\ e.place = "ready" /\ e.origin = Len(log) + 1 /\ e.retry = 0
  BY LenProperties, BrokerAssumption DEF Fresh, Message, Place, BrokerInv, BrokerTypeOK
<1>2. log' = Append(log, e)
  BY DEF Publish
<1>3. /\ DOMAIN log' = DOMAIN log \cup {Len(log) + 1}
      /\ Len(log) + 1 \notin DOMAIN log
      /\ log'[Len(log) + 1] = e
      /\ \A n \in DOMAIN log : log'[n] = log[n]
  BY <1>1, <1>2, AppendedLog DEF BrokerInv, BrokerTypeOK
<1>4. Adds(Len(log) + 1)
  BY <1>1, <1>3 DEF Adds
<1> QED
  BY <1>3, <1>4 DEF LogStep, KeepsMessages

LEMMA RepublishOnLog ==
  ASSUME BrokerInv, NEW c \in Consumer, Republish(c)
  PROVE  LogStep
<1> DEFINE m == held[c]
           e == NextAttempt(m)
<1>1. m \in DOMAIN log /\ log[m].place = "unacked"
  BY DEF Republish, Advance, BrokerInv, Ownership, Holding
<1>2. log[m] \in Message
  BY <1>1, LenProperties, ElementOfSeq DEF BrokerInv, BrokerTypeOK
<1>3. /\ e \in Message /\ e.place = "ready"
      /\ e.queue = log[m].queue /\ e.origin = log[m].origin
      /\ e.retry = log[m].retry + 1
      /\ log' = Append(log, e)
  BY <1>2, BrokerAssumption DEF Republish, NextAttempt, Fresh, Message, Place
<1>4. /\ DOMAIN log' = DOMAIN log \cup {Len(log) + 1}
      /\ Len(log) + 1 \notin DOMAIN log
      /\ log'[Len(log) + 1] = e
      /\ \A n \in DOMAIN log : log'[n] = log[n]
  BY <1>3, AppendedLog DEF BrokerInv, BrokerTypeOK
<1>5. Adds(Len(log) + 1)
  BY <1>1, <1>3, <1>4 DEF Adds
<1> QED
  BY <1>4, <1>5 DEF LogStep, KeepsMessages

LEMMA CrashOnLog ==
  ASSUME BrokerInv, NEW w \in Worker, Crash(w)
  PROVE  LogStep
<1>0. /\ DOMAIN log' = DOMAIN log
      /\ \A m \in DOMAIN log :
           /\ log'[m].queue = log[m].queue
           /\ log'[m].retry = log[m].retry
           /\ log'[m].origin = log[m].origin
           /\ log'[m].place = IF \E q \in Queue : held[<<w, q>>] = m
                                THEN "ready" ELSE log[m].place
  BY CrashedLog
<1>1. /\ DOMAIN log' = DOMAIN log
      /\ KeepsMessages
      /\ \A m \in DOMAIN log :
           log'[m].place = IF \E q \in Queue : held[<<w, q>>] = m
                             THEN "ready" ELSE log[m].place
  BY <1>0 DEF KeepsMessages
<1>2. ASSUME NEW m \in DOMAIN log, NEW q \in Queue, held[<<w, q>>] = m
      PROVE  log[m].place = "unacked"
  <2>1. <<w, q>> \in Consumer /\ m # 0
    BY LenProperties DEF Consumer, BrokerInv, BrokerTypeOK
  <2> QED
    BY <1>2, <2>1 DEF BrokerInv, Ownership
<1>3. MovesWaiting
  BY <1>1, <1>2 DEF MovesWaiting, Waiting
<1> QED
  BY <1>1, <1>3 DEF LogStep

LEMMA QuietOnLog == ASSUME log' = log PROVE LogStep
BY DEF LogStep, KeepsMessages, MovesWaiting

LEMMA NextOnLog ==
  ASSUME BrokerInv, [BrokerNext]_brokerVars
  PROVE  LogStep
<1>1. ASSUME NEW q \in Queue, NEW p \in Payload, Publish(q, p) PROVE LogStep
  BY <1>1, PublishOnLog
<1>2. ASSUME NEW w \in Worker, Start(w) \/ Crash(w) \/ Shutdown(w) PROVE LogStep
  BY <1>2, CrashOnLog, QuietOnLog DEF Start, Shutdown
<1>3. ASSUME NEW c \in Consumer, ConsumerStep(c) \/ RepublishFails(c)
      PROVE  LogStep
  <2>1. ASSUME NEW m \in DOMAIN log, Deliver(c, m) PROVE LogStep
    BY <2>1, DeliverOnLog
  <2>2. CASE HandlerReturns(c)
    BY <2>2, ReleaseOnLog DEF HandlerReturns, Holding, Place, Phase, Waiting
  <2>3. CASE HandlerRaises(c)
    BY <2>3, QuietOnLog DEF HandlerRaises
  <2>4. CASE Republish(c)
    BY <2>4, RepublishOnLog
  <2>5. CASE AckRetried(c)
    BY <2>5, ReleaseOnLog DEF AckRetried, Holding, Place, Phase, Waiting
  <2>6. CASE DropExhausted(c)
    BY <2>6, ReleaseOnLog DEF DropExhausted, Holding, Place, Phase, Waiting
  <2>7. CASE RejectCancelled(c)
    BY <2>7, ReleaseOnLog DEF RejectCancelled, Holding, Place, Phase, Waiting
  <2>8. CASE RepublishFails(c)
    BY <2>8, ReleaseOnLog DEF RepublishFails, Holding, Place, Phase, Waiting
  <2> QED
    BY <1>3, <2>1, <2>2, <2>3, <2>4, <2>5, <2>6, <2>7, <2>8 DEF ConsumerStep
<1>4. CASE UNCHANGED brokerVars
  BY <1>4, QuietOnLog DEF brokerVars
<1> QED
  BY <1>1, <1>2, <1>3, <1>4 DEF BrokerNext

(* Descent needs nothing of a step but what it does to the log.            *)
LEMMA LogStepKeepsDescent ==
  ASSUME BrokerInv, Descent, LogStep
  PROVE  Descent'
<1>0. ASSUME NEW m \in DOMAIN log PROVE log[m].retry \in 0..MAX_RETRIES
  <2>1. log[m] \in Message
    BY LenProperties, ElementOfSeq DEF BrokerInv, BrokerTypeOK
  <2> QED
    BY <2>1 DEF Message
<1>1. \A m \in DOMAIN log : /\ m \in DOMAIN log'
                            /\ log'[m].queue = log[m].queue
                            /\ log'[m].retry = log[m].retry
                            /\ log'[m].origin = log[m].origin
  BY DEF LogStep, KeepsMessages
<1>2. ASSUME NEW m \in DOMAIN log
      PROVE  /\ log'[m].origin \in DOMAIN log'
             /\ log'[log'[m].origin].queue = log'[m].queue
             /\ \A r \in 0..log'[m].retry : \E n \in DOMAIN log' :
                  log'[n].origin = log'[m].origin /\ log'[n].retry = r
  <2>1. log[m].origin \in DOMAIN log /\ log[log[m].origin].queue = log[m].queue
    BY DEF Descent
  <2>2. ASSUME NEW r \in 0..log[m].retry
        PROVE  \E n \in DOMAIN log' :
                 log'[n].origin = log'[m].origin /\ log'[n].retry = r
    <3>1. PICK n \in DOMAIN log : log[n].origin = log[m].origin /\ log[n].retry = r
      BY DEF Descent
    <3> QED
      BY <1>1, <3>1
  <2> QED
    BY <1>1, <2>1, <2>2
<1>3. ASSUME NEW m \in DOMAIN log, log'[m].place = "dropped"
      PROVE  log'[m].retry = MAX_RETRIES
  <2>1. CASE log[m].place = "dropped"
    BY <2>1, <1>1 DEF Descent
  <2>2. CASE log[m].place # "dropped"
    <3>1. Answers(m)
      BY <1>3, <2>2 DEF LogStep, MovesWaiting, Answers, Adds, Waiting
    <3> QED
      BY <3>1, <1>0, <1>1, <1>3, BrokerAssumption DEF Answers
  <2> QED BY <2>1, <2>2
<1>4. ASSUME NEW new, new = Len(log) + 1, Adds(new)
      PROVE  /\ log'[new].origin \in DOMAIN log'
             /\ log'[log'[new].origin].queue = log'[new].queue
             /\ log'[new].place # "dropped"
             /\ \A r \in 0..log'[new].retry : \E n \in DOMAIN log' :
                  log'[n].origin = log'[new].origin /\ log'[n].retry = r
  <2>1. new \in DOMAIN log' /\ log'[new].place = "ready"
    BY <1>4 DEF Adds
  <2>2. CASE log'[new].origin = new /\ log'[new].retry = 0
    BY <2>1, <2>2
  <2>3. CASE log'[new].origin # new \/ log'[new].retry # 0
    <3>1. PICK m \in DOMAIN log : /\ log'[new].queue = log[m].queue
                                  /\ log'[new].origin = log[m].origin
                                  /\ log'[new].retry = log[m].retry + 1
      BY <1>4, <2>3 DEF Adds
    <3>2. ASSUME NEW r \in 0..log'[new].retry
          PROVE  \E n \in DOMAIN log' :
                   log'[n].origin = log'[new].origin /\ log'[n].retry = r
      <4>1. CASE r = log'[new].retry
        BY <2>1, <4>1
      <4>2. CASE r # log'[new].retry
        <5>1. r \in 0..log[m].retry
          BY <1>0, <3>1, <4>2, BrokerAssumption
        <5> QED
          BY <1>1, <1>2, <3>1, <5>1
      <4> QED BY <4>1, <4>2
    <3> QED
      BY <1>1, <1>2, <2>1, <3>1, <3>2
  <2> QED BY <2>2, <2>3
<1>5. ASSUME NEW m \in DOMAIN log', m \notin DOMAIN log
      PROVE  m = Len(log) + 1 /\ Adds(Len(log) + 1)
  BY <1>5 DEF LogStep, MovesWaiting, Answers, Adds
<1>6. ASSUME NEW m \in DOMAIN log'
      PROVE  /\ log'[m].origin \in DOMAIN log'
             /\ log'[log'[m].origin].queue = log'[m].queue
             /\ \A r \in 0..log'[m].retry : \E n \in DOMAIN log' :
                  log'[n].origin = log'[m].origin /\ log'[n].retry = r
             /\ log'[m].place = "dropped" => log'[m].retry = MAX_RETRIES
  <2>1. CASE m \in DOMAIN log
    BY <2>1, <1>2, <1>3
  <2>2. CASE m \notin DOMAIN log
    <3>1. m = Len(log) + 1 /\ Adds(m)
      BY <1>6, <2>2, <1>5
    <3> QED
      BY <3>1, <1>4
  <2> QED BY <2>1, <2>2
<1> QED
  BY <1>6 DEF Descent

LEMMA NextKeepsDescent ==
  BrokerInv /\ Descent /\ [BrokerNext]_brokerVars => Descent'
BY NextOnLog, LogStepKeepsDescent

LEMMA InitDescent == BrokerInit => Descent
BY DEF BrokerInit, Descent

(* However retries, redeliveries and shutdowns interleave, a task is given *)
(* up by a consumer only after the log holds an attempt of it for every    *)
(* retry the limit grants.                                                 *)
THEOREM BrokerGrantsAllRetries == BrokerSpec => []DropOnlyAfterAllRetries
<1>1. BrokerInv /\ Descent => DropOnlyAfterAllRetries
  BY DEF Descent, DropOnlyAfterAllRetries
<1> QED
  BY <1>1, InitInv, InitDescent, NextKeepsInv, NextKeepsDescent, PTL DEF BrokerSpec
-----------------------------------------------------------------------------
(* The life of a task.  Has says which places the messages of a task have; *)
(* the verdict on the task depends on nothing else.                        *)
Has(l, t, p) == \E m \in DOMAIN l : l[m].origin = t /\ l[m].place = p

VerdictIn(l, t) ==
  IF \A p : ~Has(l, t, p) THEN "unpublished"
  ELSE IF Has(l, t, "handled") THEN "handled"
  ELSE IF Has(l, t, "ready") \/ Has(l, t, "unacked") THEN "pending"
  ELSE IF Has(l, t, "dead") THEN "deadlettered"
  ELSE IF Has(l, t, "dropped") THEN "dropped"
  ELSE "lost"

LEMMA VerdictByPlaces ==
  ASSUME NEW t
  PROVE  Verdict(t) = VerdictIn(log, t) /\ Verdict(t)' = VerdictIn(log', t)
<1> DEFINE places(l) == {l[m].place : m \in {n \in DOMAIN l : l[n].origin = t}}
<1>1. \A l, p : p \in places(l) <=> Has(l, t, p)
  BY DEF Has
<1>2. \A l : /\ places(l) = {} <=> \A p : ~Has(l, t, p)
             /\ places(l) \cap {"ready", "unacked"} # {}
                  <=> Has(l, t, "ready") \/ Has(l, t, "unacked")
  <2> HIDE DEF places
  <2> QED BY <1>1
<1>3. Verdict(t) = VerdictIn(log, t)
  <2>1. Verdict(t) = IF places(log) = {} THEN "unpublished"
                     ELSE IF "handled" \in places(log) THEN "handled"
                     ELSE IF places(log) \cap {"ready", "unacked"} # {} THEN "pending"
                     ELSE IF "dead" \in places(log) THEN "deadlettered"
                     ELSE IF "dropped" \in places(log) THEN "dropped"
                     ELSE "lost"
    BY DEF Verdict
  <2> HIDE DEF places
  <2> QED BY <1>1, <1>2, <2>1 DEF VerdictIn
<1>4. Verdict(t)' = VerdictIn(log', t)
  <2>1. Verdict(t)' = IF places(log') = {} THEN "unpublished"
                      ELSE IF "handled" \in places(log') THEN "handled"
                      ELSE IF places(log') \cap {"ready", "unacked"} # {} THEN "pending"
                      ELSE IF "dead" \in places(log') THEN "deadlettered"
                      ELSE IF "dropped" \in places(log') THEN "dropped"
                      ELSE "lost"
    BY DEF Verdict
  <2> HIDE DEF places
  <2> QED BY <1>1, <1>2, <2>1 DEF VerdictIn
<1> QED BY <1>3, <1>4

(* A step that moves waiting messages among themselves changes no verdict. *)
LEMMA WaitingKeepsVerdict ==
  ASSUME KeepsMessages, MovesWaiting, NEW t
  PROVE  VerdictIn(log', t) = VerdictIn(log, t)
<1>1. \A p : p \notin Waiting => (Has(log', t, p) <=> Has(log, t, p))
  BY DEF Has, KeepsMessages, MovesWaiting
<1>2. (\E p \in Waiting : Has(log', t, p)) <=> (\E p \in Waiting : Has(log, t, p))
  BY DEF Has, KeepsMessages, MovesWaiting
<1> QED
  BY <1>1, <1>2 DEF VerdictIn, Waiting

(* An answer settles the task of its message if it was pending; that the   *)
(* new verdict is a proper one is where a lost task would show.            *)
LEMMA AnswerSettles ==
  ASSUME BrokerInv', NoTaskLost', KeepsMessages, NEW m \in DOMAIN log, Answers(m)
  PROVE  /\ \A t : t # log[m].origin => VerdictIn(log', t) = VerdictIn(log, t)
         /\ \/ VerdictIn(log', log[m].origin) = VerdictIn(log, log[m].origin)
            \/ /\ VerdictIn(log, log[m].origin) = "pending"
               /\ VerdictIn(log', log[m].origin)
                    \in {"pending", "handled", "deadlettered", "dropped"}
<1> DEFINE o == log[m].origin
<1>1. ASSUME NEW t, t # o PROVE VerdictIn(log', t) = VerdictIn(log, t)
  <2>1. \A p : Has(log', t, p) <=> Has(log, t, p)
    BY <1>1 DEF Has, KeepsMessages, Answers
  <2> QED
    BY <2>1 DEF VerdictIn
<1>2. Has(log, o, "unacked") /\ (Has(log, o, "handled") => Has(log', o, "handled"))
  BY DEF Has, KeepsMessages, Answers
<1>3. CASE Has(log, o, "handled")
  BY <1>1, <1>2, <1>3 DEF VerdictIn
<1>4. CASE ~Has(log, o, "handled")
  <2>1. VerdictIn(log, o) = "pending"
    BY <1>2, <1>4 DEF VerdictIn
  <2>2. PICK k \in DOMAIN log' : log'[k].origin = o /\ ~Superseded(k)'
    BY DEF NoTaskLost, CurrentCopies, KeepsMessages
  <2>3. log'[k].place # "retried"
    BY <2>2 DEF Superseded
  <2>4. log'[k].place \in Place
    <3>1. log'[k] \in Message
      BY LenProperties, ElementOfSeq DEF BrokerInv, BrokerTypeOK
    <3> QED
      BY <3>1 DEF Message
  <2>5. Has(log', o, log'[k].place)
    BY <2>2 DEF Has
  <2>6. VerdictIn(log', o) \in {"pending", "handled", "deadlettered", "dropped"}
    BY <2>3, <2>4, <2>5 DEF VerdictIn, Place
  <2> QED BY <1>1, <2>1, <2>6
<1> QED BY <1>3, <1>4

(* A message added to a task that has one waiting changes no verdict; the  *)
(* first message of a task submits it.                                     *)
LEMMA AddSubmits ==
  ASSUME KeepsMessages, Descent, NEW new, Adds(new)
  PROVE  /\ \A t : t # new => VerdictIn(log', t) = VerdictIn(log, t)
         /\ \/ VerdictIn(log', new) = VerdictIn(log, new)
            \/ /\ VerdictIn(log, new) = "unpublished"
               /\ VerdictIn(log', new) = "pending"
<1> DEFINE o == log'[new].origin
<1>1. /\ DOMAIN log' = DOMAIN log \cup {new} /\ new \notin DOMAIN log
      /\ \A n \in DOMAIN log : /\ log'[n].place = log[n].place
                               /\ log'[n].origin = log[n].origin
      /\ log'[new].place = "ready"
  BY DEF Adds, KeepsMessages
<1>2. \A t, p : Has(log', t, p) <=> Has(log, t, p) \/ (t = o /\ p = "ready")
  BY <1>1 DEF Has
<1>3. ASSUME NEW t, t # o PROVE VerdictIn(log', t) = VerdictIn(log, t)
  BY <1>2, <1>3 DEF VerdictIn
<1>4. CASE o = new
  <2>1. \A p : ~Has(log, new, p)
    BY <1>1 DEF Has, Descent
  <2>2. VerdictIn(log, new) = "unpublished" /\ VerdictIn(log', new) = "pending"
    BY <1>2, <1>4, <2>1 DEF VerdictIn
  <2> QED BY <1>3, <1>4, <2>2
<1>5. CASE o # new
  <2>1. PICK m \in DOMAIN log : log[m].place = "unacked" /\ log[m].origin = o
    BY <1>5 DEF Adds
  <2>2. Has(log, o, "unacked")
    BY <2>1 DEF Has
  <2>3. VerdictIn(log', o) = VerdictIn(log, o)
    BY <1>2, <2>2 DEF VerdictIn
  <2> QED BY <1>3, <1>5, <2>3
<1> QED BY <1>4, <1>5

(* One step of the broker on the verdicts: at most one task changes its.   *)
LEMMA LogStepOnVerdicts ==
  ASSUME BrokerInv, BrokerInv', Descent, NoTaskLost', LogStep
  PROVE  \/ \A t : VerdictIn(log', t) = VerdictIn(log, t)
         \/ \E t : /\ \A u : u # t => VerdictIn(log', u) = VerdictIn(log, u)
                   /\ \/ /\ VerdictIn(log, t) = "unpublished"
                         /\ VerdictIn(log', t) = "pending"
                      \/ /\ VerdictIn(log, t) = "pending"
                         /\ VerdictIn(log', t) \in {"handled", "deadlettered", "dropped"}
<1>1. CASE MovesWaiting
  BY <1>1, WaitingKeepsVerdict DEF LogStep
<1>2. ASSUME NEW m \in DOMAIN log, Answers(m)
      PROVE  \/ \A t : VerdictIn(log', t) = VerdictIn(log, t)
             \/ /\ \A u : u # log[m].origin => VerdictIn(log', u) = VerdictIn(log, u)
                /\ VerdictIn(log, log[m].origin) = "pending"
                /\ VerdictIn(log', log[m].origin) \in {"handled", "deadlettered", "dropped"}
  <2>1. /\ \A t : t # log[m].origin => VerdictIn(log', t) = VerdictIn(log, t)
        /\ \/ VerdictIn(log', log[m].origin) = VerdictIn(log, log[m].origin)
           \/ /\ VerdictIn(log, log[m].origin) = "pending"
              /\ VerdictIn(log', log[m].origin)
                   \in {"pending", "handled", "deadlettered", "dropped"}
    BY <1>2, AnswerSettles DEF LogStep
  <2> QED BY <2>1
<1>3. CASE Adds(Len(log) + 1)
  <2>1. PICK new : new = Len(log) + 1
    OBVIOUS
  <2>2. /\ \A t : t # new => VerdictIn(log', t) = VerdictIn(log, t)
        /\ \/ VerdictIn(log', new) = VerdictIn(log, new)
           \/ /\ VerdictIn(log, new) = "unpublished"
              /\ VerdictIn(log', new) = "pending"
    BY <1>3, <2>1, AddSubmits DEF LogStep
  <2> QED BY <2>2
<1> QED BY <1>1, <1>2, <1>3 DEF LogStep

(* The refinement mapping: tasks are numbered by their first message, and  *)
(* only those the abstract specification names count.                      *)
verdicts == [t \in 1..MaxLog |-> Verdict(t)]

LEMMA NextImplementsLifecycle ==
  ASSUME BrokerInv, BrokerInv', Descent, NoTaskLost', [BrokerNext]_brokerVars
  PROVE  [Lifecycle!Next]_verdicts
<1> DEFINE status == [t \in 1..MaxLog |-> VerdictIn(log, t)]
           statusN == [t \in 1..MaxLog |-> VerdictIn(log', t)]
<1>1. /\ verdicts = [t \in 1..MaxLog |-> Verdict(t)] /\ verdicts = status
      /\ verdicts' = [t \in 1..MaxLog |-> Verdict(t)]' /\ verdicts' = statusN
  BY VerdictByPlaces DEF verdicts
<1>2. LogStep
  BY NextOnLog
<1>3. CASE \A t : VerdictIn(log', t) = VerdictIn(log, t)
  <2>1. statusN = status
    BY <1>3
  <2> QED BY <1>1, <2>1
<1>4. ASSUME NEW t, \A u : u # t => VerdictIn(log', u) = VerdictIn(log, u),
             \/ /\ VerdictIn(log, t) = "unpublished"
                /\ VerdictIn(log', t) = "pending"
             \/ /\ VerdictIn(log, t) = "pending"
                /\ VerdictIn(log', t) \in {"handled", "deadlettered", "dropped"}
      PROVE  [Lifecycle!Next]_verdicts
  <2>1. CASE t \notin 1..MaxLog
    <3>1. statusN = status
      BY <1>4, <2>1
    <3> QED BY <1>1, <3>1
  <2>2. CASE t \in 1..MaxLog
    <3>1. statusN = [status EXCEPT ![t] = VerdictIn(log', t)]
      BY <1>4, <2>2
    <3>2. status[t] = VerdictIn(log, t)
      BY <2>2
    <3> HIDE DEF status, statusN
    <3>3. Lifecycle!Submit(t) \/ Lifecycle!Settle(t)
      BY <1>1, <1>4, <3>1, <3>2
         DEF Lifecycle!Submit, Lifecycle!Settle, Lifecycle!Move
    <3> QED BY <2>2, <3>3 DEF Lifecycle!Next
  <2> QED BY <2>1, <2>2
<1> QED
  BY <1>2, <1>3, <1>4, LogStepOnVerdicts

(* The broker with its workers implements the life of a task, for any      *)
(* number of tasks, workers, retries and faults: no interleaving takes     *)
(* back a verdict, skips "pending" or ends a task with no verdict at all.  *)
THEOREM BrokerImplementsLifecycle == BrokerSpec => ImplementsLifecycle
<1>1. BrokerInit => Lifecycle!Init
  <2> SUFFICES ASSUME BrokerInit PROVE Lifecycle!Init
    OBVIOUS
  <2>1. \A t, p : ~Has(log, t, p)
    BY DEF BrokerInit, Has
  <2>2. \A t : Verdict(t) = "unpublished"
    BY <2>1, VerdictByPlaces DEF VerdictIn
  <2> QED BY <2>2 DEF Lifecycle!Init
<1>2. BrokerInv /\ BrokerInv' /\ Descent /\ NoTaskLost' /\ [BrokerNext]_brokerVars
        => [Lifecycle!Next]_verdicts
  BY NextImplementsLifecycle
<1>3. BrokerInit => NoTaskLost
  BY DEF BrokerInit, NoTaskLost
<1> QED
  BY <1>1, <1>2, <1>3, InitInv, InitDescent, NextKeepsInv, NextKeepsDescent,
     NextKeepsTasks, PTL
     DEF BrokerSpec, ImplementsLifecycle, Lifecycle!Spec, verdicts
-----------------------------------------------------------------------------
(* The copies of a task.  CopiesBounded is DuplicationBounded over every   *)
(* number, published or not, so that it also covers the task a step        *)
(* publishes.                                                              *)
CopiesBounded == \A o : Cardinality(CurrentCopies(o)) <= 1 + faults

(* A step without a fault adds no copy: a new message takes the place of   *)
(* the one it retries, or is the first of its task.                        *)
KeepsCopies ==
  \A o : \/ CurrentCopies(o)' \subseteq CurrentCopies(o)
         \/ \E m, n : /\ m \in CurrentCopies(o)
                      /\ CurrentCopies(o)' \subseteq (CurrentCopies(o) \ {m}) \cup {n}
         \/ \E n : CurrentCopies(o)' \subseteq {n}

(* A fault adds at most one copy to each task.                             *)
AddsOneCopy ==
  \A o : \E x : CurrentCopies(o)' \subseteq CurrentCopies(o) \cup {x}

LEMMA CopiesAreFinite ==
  ASSUME BrokerInv, NEW o
  PROVE  IsFiniteSet(CurrentCopies(o))
<1>1. DOMAIN log = 1..Len(log) /\ Len(log) \in Nat
  BY LenProperties DEF BrokerInv, BrokerTypeOK
<1>2. IsFiniteSet(DOMAIN log)
  BY <1>1, FS_Interval
<1> QED
  BY <1>2, FS_Subset DEF CurrentCopies

LEMMA KeptCopiesBounded ==
  ASSUME BrokerInv, CopiesBounded, KeepsCopies, faults' = faults
  PROVE  CopiesBounded'
<1> SUFFICES ASSUME NEW o PROVE Cardinality(CurrentCopies(o)') <= 1 + faults
  BY DEF CopiesBounded
<1> DEFINE C == CurrentCopies(o)
           D == CurrentCopies(o)'
<1>1. IsFiniteSet(C) /\ Cardinality(C) \in Nat /\ faults \in Nat
      /\ Cardinality(C) <= 1 + faults
  BY CopiesAreFinite, FS_CardinalityType, BrokerAssumption
     DEF BrokerInv, BrokerTypeOK, CopiesBounded
<1>2. \/ D \subseteq C
      \/ \E m, n : m \in C /\ D \subseteq (C \ {m}) \cup {n}
      \/ \E n : D \subseteq {n}
  BY DEF KeepsCopies
<1> HIDE DEF C, D
<1>3. CASE D \subseteq C
  <2>1. IsFiniteSet(D) /\ Cardinality(D) <= Cardinality(C)
    BY <1>1, <1>3, FS_Subset
  <2> QED BY <1>1, <2>1, FS_CardinalityType DEF D
<1>4. ASSUME NEW m, NEW n, m \in C, D \subseteq (C \ {m}) \cup {n}
      PROVE  Cardinality(D) <= 1 + faults
  <2>1. IsFiniteSet(C \ {m}) /\ Cardinality(C \ {m}) = Cardinality(C) - 1
    BY <1>1, <1>4, FS_RemoveElement
  <2> DEFINE B == C \ {m}
             E == B \cup {n}
  <2> HIDE DEF B
  <2>2. IsFiniteSet(B) /\ Cardinality(B) = Cardinality(C) - 1
    BY <2>1 DEF B
  <2>3. IsFiniteSet(E) /\ Cardinality(E) = IF n \in B THEN Cardinality(B) ELSE Cardinality(B) + 1
    BY <2>2, FS_AddElement
  <2>4. IsFiniteSet(E) /\ Cardinality(E) <= Cardinality(C)
    BY <1>1, <2>2, <2>3
  <2>5. D \in SUBSET E
    BY <1>4 DEF B
  <2>6. IsFiniteSet(D) /\ Cardinality(D) <= Cardinality(E)
    BY <2>5, <2>4, FS_Subset
  <2> QED BY <1>1, <2>4, <2>6, FS_CardinalityType
<1>5. ASSUME NEW n, D \subseteq {n}
      PROVE  Cardinality(D) <= 1 + faults
  <2>1. IsFiniteSet({n}) /\ Cardinality({n}) = 1
    BY FS_Singleton
  <2>2. D \in SUBSET {n}
    BY <1>5
  <2>3. IsFiniteSet(D) /\ Cardinality(D) <= 1
    BY <2>1, <2>2, FS_Subset
  <2> QED BY <1>1, <2>3, FS_CardinalityType
<1> QED
  BY <1>2, <1>3, <1>4, <1>5 DEF D

LEMMA AddedCopyBounded ==
  ASSUME BrokerInv, CopiesBounded, AddsOneCopy, faults' = faults + 1
  PROVE  CopiesBounded'
<1> SUFFICES ASSUME NEW o PROVE Cardinality(CurrentCopies(o)') <= 1 + (faults + 1)
  BY DEF CopiesBounded
<1> DEFINE C == CurrentCopies(o)
           D == CurrentCopies(o)'
<1>1. IsFiniteSet(C) /\ Cardinality(C) \in Nat /\ faults \in Nat
      /\ Cardinality(C) <= 1 + faults
  BY CopiesAreFinite, FS_CardinalityType, BrokerAssumption
     DEF BrokerInv, BrokerTypeOK, CopiesBounded
<1>2. PICK x : D \subseteq C \cup {x}
  BY DEF AddsOneCopy
<1> HIDE DEF C, D
<1>3. IsFiniteSet(C \cup {x}) /\ Cardinality(C \cup {x}) <= Cardinality(C) + 1
  BY <1>1, FS_AddElement
<1>4. IsFiniteSet(D) /\ Cardinality(D) <= Cardinality(C \cup {x})
  BY <1>2, <1>3, FS_Subset
<1>5. Cardinality(D) <= 1 + (faults + 1)
  BY <1>1, <1>3, <1>4, FS_CardinalityType
<1> QED
  BY <1>5 DEF D

(* What is superseded before a step stays so unless it is the message y:   *)
(* then a task has no new copy but y.                                      *)
LEMMA SupersededStays ==
  ASSUME KeepsMessages, DOMAIN log' = DOMAIN log, NEW Y,
         \A n \in DOMAIN log : Superseded(n) => Superseded(n)' \/ n \in Y
  PROVE  \A o : CurrentCopies(o)' \subseteq
                  CurrentCopies(o) \cup {n \in Y : n \in DOMAIN log /\ log[n].origin = o}
BY DEF KeepsMessages, CurrentCopies

LEMMA ReleaseOnCopies ==
  ASSUME BrokerInv, NEW c \in Consumer, phase[c] \in Holding,
         NEW p \in Place, NEW next, Release(c, p, next)
  PROVE  \A n \in DOMAIN log : Superseded(n) =>
           Superseded(n)' \/ (n = held[c] /\ phase[c] = "republished" /\ p # "retried")
<1> DEFINE m == held[c]
<1>1. m \in DOMAIN log /\ log[m].place = "unacked" /\ m # 0
  BY LenProperties DEF BrokerInv, BrokerTypeOK, Ownership
<1>2. /\ log'[m].place = p
      /\ \A n \in DOMAIN log : n # m => log'[n].place = log[n].place
  BY <1>1, MovedLog DEF Release, Moved, BrokerInv, BrokerTypeOK
<1>3. \A d \in Consumer : d # c => held'[d] = held[d] /\ phase'[d] = phase[d]
  BY DEF Release, BrokerInv, BrokerTypeOK
<1>4. \A d \in Consumer : held[d] = m => d = c
  BY <1>1 DEF BrokerInv, Ownership
<1> QED
  BY <1>1, <1>2, <1>3, <1>4 DEF Superseded

(* A step of a consumer, an injected failure or the publication of a task. *)
LEMMA RepublishKeepsCopies ==
  ASSUME BrokerInv, NEW c \in Consumer, Republish(c)
  PROVE  KeepsCopies
<1> DEFINE m == held[c]
           e == NextAttempt(m)
<1>0. PICK o, new : o = log[m].origin /\ new = Len(log) + 1
  OBVIOUS
<1>1. phase[c] = "raised" /\ m \in DOMAIN log /\ log[m].place = "unacked" /\ m # 0
  BY LenProperties DEF Republish, Advance, BrokerInv, BrokerTypeOK, Ownership, Holding
<1>2. log[m] \in Message
  BY <1>1, LenProperties, ElementOfSeq DEF BrokerInv, BrokerTypeOK
<1>3. e \in Message /\ e.origin = log[m].origin /\ log' = Append(log, e)
  BY <1>2, BrokerAssumption DEF Republish, NextAttempt, Fresh, Message, Place
<1>4. /\ DOMAIN log' = DOMAIN log \cup {new}
      /\ log'[new] = e
      /\ \A n \in DOMAIN log : log'[n] = log[n]
  BY <1>0, <1>3, AppendedLog DEF BrokerInv, BrokerTypeOK
<1>5. /\ held' = held /\ phase'[c] = "republished"
      /\ \A d \in Consumer : d # c => phase'[d] = phase[d]
  BY DEF Republish, Advance, BrokerInv, BrokerTypeOK
<1>6. \A n \in DOMAIN log : Superseded(n) => Superseded(n)'
  BY <1>1, <1>4, <1>5 DEF Superseded
<1>7. ~Superseded(m) /\ Superseded(m)'
  BY <1>1, <1>5 DEF Superseded, BrokerInv, Ownership
<1>8. \A u : u # o => CurrentCopies(u)' \subseteq CurrentCopies(u)
  BY <1>0, <1>3, <1>4, <1>6 DEF CurrentCopies
<1>9. /\ m \in CurrentCopies(o)
      /\ CurrentCopies(o)' \subseteq (CurrentCopies(o) \ {m}) \cup {new}
  <2>1. \A n \in CurrentCopies(o)' : n \in CurrentCopies(o) \/ n = new
    BY <1>4, <1>6 DEF CurrentCopies
  <2>2. m \notin CurrentCopies(o)'
    <3>1. Superseded(m)'
      BY <1>7
    <3> QED
      BY <1>1, <1>5, <3>1 DEF CurrentCopies, Superseded
  <2> QED
    BY <1>0, <1>1, <1>7, <2>1, <2>2 DEF CurrentCopies
<1> QED
  BY <1>8, <1>9 DEF KeepsCopies

LEMMA PublishKeepsCopies ==
  ASSUME BrokerInv, Descent, NEW q \in Queue, NEW p \in Payload,
         Publish(q, p), UNCHANGED <<phase, held, faults>>
  PROVE  KeepsCopies
<1>0. PICK new : new = Len(log) + 1
  OBVIOUS
<1> DEFINE e == Fresh(q, p, 0, new)
<1>1. e \in Message /\ e.origin = new /\ log' = Append(log, e)
  BY <1>0, LenProperties, BrokerAssumption
     DEF Publish, Fresh, Message, Place, BrokerInv, BrokerTypeOK
<1>2. /\ DOMAIN log' = DOMAIN log \cup {new} /\ new \notin DOMAIN log
      /\ log'[new] = e
      /\ \A n \in DOMAIN log : log'[n] = log[n]
  BY <1>0, <1>1, AppendedLog DEF BrokerInv, BrokerTypeOK
<1>3. \A n \in DOMAIN log : Superseded(n) => Superseded(n)'
  BY <1>2 DEF Superseded
<1>4. \A n \in DOMAIN log : log[n].origin # new
  BY <1>2 DEF Descent
<1>5. CurrentCopies(new)' \subseteq {new}
  BY <1>1, <1>2, <1>4 DEF CurrentCopies
<1>6. \A o : o # new => CurrentCopies(o)' \subseteq CurrentCopies(o)
  BY <1>1, <1>2, <1>3 DEF CurrentCopies
<1> QED
  BY <1>5, <1>6 DEF KeepsCopies

(* A process that dies, or is stopped, gives back what its consumers had   *)
(* superseded: the original of a copy just published is current again.  A  *)
(* process has one consumer per queue and the copies of a task are all in  *)
(* one queue, so each task gains at most one.                              *)
LEMMA StoppingAddsOneCopy ==
  ASSUME BrokerInv, Descent, NEW w \in Worker, Crash(w) \/ Shutdown(w)
  PROVE  AddsOneCopy
<1> DEFINE Y == {held[<<w, q>>] : q \in Queue}
<1>1. /\ KeepsMessages /\ DOMAIN log' = DOMAIN log
      /\ \A n \in DOMAIN log : log[n].place = "retried" => log'[n].place = "retried"
  <2>1. CASE Crash(w)
    <3>1. KeepsMessages /\ DOMAIN log' = DOMAIN log
      BY <2>1, CrashedLog DEF KeepsMessages
    <3>2. ASSUME NEW n \in DOMAIN log, log[n].place = "retried"
          PROVE  log'[n].place = "retried"
      <4>1. \A q \in Queue : held[<<w, q>>] # n
        BY <3>2, LenProperties DEF Consumer, BrokerInv, BrokerTypeOK, Ownership
      <4>2. log'[n].place = IF \E q \in Queue : held[<<w, q>>] = n
                              THEN "ready" ELSE log[n].place
        BY <2>1, CrashedLog
      <4> QED
        BY <3>2, <4>1, <4>2
    <3> QED BY <3>1, <3>2
  <2>2. CASE Shutdown(w)
    BY <2>2 DEF Shutdown, KeepsMessages
  <2> QED BY <2>1, <2>2
<1>2. \A d \in Consumer : d[1] # w => held'[d] = held[d] /\ phase'[d] = phase[d]
  BY DEF Crash, Shutdown, BrokerInv, BrokerTypeOK
<1>3. \A d \in Consumer : d[1] = w => \E q \in Queue : d = <<w, q>>
  BY DEF Consumer
<1>4. \A n \in DOMAIN log : Superseded(n) => Superseded(n)' \/ n \in Y
  BY <1>1, <1>2, <1>3 DEF Superseded
<1>5. ASSUME NEW o, NEW n \in Y, n \in DOMAIN log, log[n].origin = o
      PROVE  n = held[<<w, log[o].queue>>]
  <2>1. PICK q \in Queue : n = held[<<w, q>>]
    OBVIOUS
  <2>2. <<w, q>> \in Consumer /\ n # 0 /\ QueueOf(<<w, q>>) = q
    BY <1>5, LenProperties DEF Consumer, QueueOf, BrokerInv, BrokerTypeOK
  <2>3. log[n].queue = q
    BY <2>1, <2>2 DEF BrokerInv, Ownership
  <2> QED
    BY <1>5, <2>1, <2>3 DEF Descent
<1>6. \A o : CurrentCopies(o)' \subseteq
               CurrentCopies(o) \cup {n \in Y : n \in DOMAIN log /\ log[n].origin = o}
  <2> HIDE DEF Y
  <2> QED BY <1>1, <1>4, SupersededStays
<1>7. \A o : CurrentCopies(o)' \subseteq CurrentCopies(o) \cup {held[<<w, log[o].queue>>]}
  <2> HIDE DEF Y
  <2> QED BY <1>5, <1>6
<1> QED
  BY <1>7 DEF AddsOneCopy

LEMMA ReleaseKeepsCopies ==
  ASSUME BrokerInv, NEW c \in Consumer, phase[c] \in Holding,
         NEW p \in Place \ Waiting, NEW next \in Phase,
         p = "dropped" => log[held[c]].retry >= MAX_RETRIES,
         phase[c] = "republished" => p = "retried",
         Release(c, p, next)
  PROVE  KeepsCopies
<1>1. /\ DOMAIN log' = DOMAIN log /\ KeepsMessages
  <2>1. held[c] \in DOMAIN log
    BY DEF BrokerInv, Ownership
  <2> QED
    BY <2>1, MovedLog DEF Release, Moved, BrokerInv, BrokerTypeOK, KeepsMessages
<1>2. \A n \in DOMAIN log : Superseded(n) => Superseded(n)'
  BY ReleaseOnCopies
<1>3. \A o : CurrentCopies(o)' \subseteq CurrentCopies(o)
  BY <1>1, <1>2 DEF KeepsMessages, CurrentCopies
<1> QED
  BY <1>3 DEF KeepsCopies

LEMMA FailedRepublicationAddsOneCopy ==
  ASSUME BrokerInv, NEW c \in Consumer, RepublishFails(c)
  PROVE  AddsOneCopy
<1>1. held[c] \in DOMAIN log /\ phase[c] \in Holding
  BY DEF RepublishFails, BrokerInv, Ownership, Holding
<1>2. /\ DOMAIN log' = DOMAIN log /\ KeepsMessages
  <2>1. /\ log \in Seq(Message) /\ "dead" \in Place
        /\ log' = [log EXCEPT ![held[c]].place = "dead"]
    BY DEF RepublishFails, Release, Moved, BrokerInv, BrokerTypeOK, Place
  <2> QED
    BY <1>1, <2>1, MovedLog DEF KeepsMessages
<1>3. \A n \in DOMAIN log : Superseded(n) => Superseded(n)' \/ n = held[c]
  BY <1>1, ReleaseOnCopies DEF RepublishFails, Place
<1>4. \A o : CurrentCopies(o)' \subseteq CurrentCopies(o) \cup {held[c]}
  BY <1>2, <1>3 DEF KeepsMessages, CurrentCopies
<1> QED
  BY <1>4 DEF AddsOneCopy

LEMMA QuietKeepsCopies ==
  ASSUME log' = log, held' = held,
         \A d \in Consumer : phase[d] = "republished" => phase'[d] = "republished"
  PROVE  KeepsCopies
<1>1. \A n \in DOMAIN log : Superseded(n) => Superseded(n)'
  BY DEF Superseded
<1> QED
  BY <1>1 DEF KeepsCopies, CurrentCopies

LEMMA DeliverKeepsCopies ==
  ASSUME BrokerInv, NEW c \in Consumer, NEW m \in DOMAIN log, Deliver(c, m)
  PROVE  KeepsCopies
<1>1. log \in Seq(Message) /\ log' = [log EXCEPT ![m].place = "unacked"]
      /\ "unacked" \in Place
  BY DEF Deliver, Moved, BrokerInv, BrokerTypeOK, Place
<1>2. /\ DOMAIN log' = DOMAIN log /\ KeepsMessages
      /\ \A n \in DOMAIN log : n # m => log'[n].place = log[n].place
  BY <1>1, MovedLog DEF KeepsMessages
<1>3. /\ phase[c] = "idle" /\ log[m].place = "ready"
      /\ \A d \in Consumer : d # c => held'[d] = held[d] /\ phase'[d] = phase[d]
  BY DEF Deliver, Advance, BrokerInv, BrokerTypeOK
<1>4. \A n \in DOMAIN log : Superseded(n) => Superseded(n)'
  BY <1>2, <1>3 DEF Superseded, BrokerInv, Ownership
<1>5. \A o : CurrentCopies(o)' \subseteq CurrentCopies(o)
  BY <1>2, <1>4 DEF KeepsMessages, CurrentCopies
<1> QED
  BY <1>5 DEF KeepsCopies

LEMMA NextKeepsCopiesBounded ==
  BrokerInv /\ Descent /\ CopiesBounded /\ [BrokerNext]_brokerVars => CopiesBounded'
<1> SUFFICES ASSUME BrokerInv, Descent, CopiesBounded, [BrokerNext]_brokerVars
             PROVE  CopiesBounded'
  OBVIOUS
<1>1. ASSUME NEW q \in Queue, NEW p \in Payload,
             Publish(q, p), UNCHANGED <<phase, held, faults>>
      PROVE  CopiesBounded'
  BY <1>1, PublishKeepsCopies, KeptCopiesBounded
<1>2. ASSUME NEW w \in Worker, Start(w) \/ Crash(w) \/ Shutdown(w)
      PROVE  CopiesBounded'
  <2>1. CASE Start(w)
    <3>1. KeepsCopies
      BY <2>1, QuietKeepsCopies DEF Start, Consumer
    <3> QED BY <2>1, <3>1, KeptCopiesBounded DEF Start
  <2>2. CASE Crash(w) \/ Shutdown(w)
    BY <2>2, StoppingAddsOneCopy, AddedCopyBounded DEF Crash, Shutdown, Fault
  <2> QED BY <1>2, <2>1, <2>2
<1>3. ASSUME NEW c \in Consumer, ConsumerStep(c)
      PROVE  CopiesBounded'
  <2> SUFFICES KeepsCopies /\ faults' = faults
    BY KeptCopiesBounded
  <2>1. ASSUME NEW m \in DOMAIN log, Deliver(c, m) PROVE KeepsCopies /\ faults' = faults
    BY <2>1, DeliverKeepsCopies DEF Deliver
  <2>2. CASE HandlerReturns(c)
    BY <2>2, ReleaseKeepsCopies DEF HandlerReturns, Holding, Place, Phase, Waiting
  <2>3. CASE HandlerRaises(c)
    BY <2>3, QuietKeepsCopies DEF HandlerRaises, Advance, BrokerInv, BrokerTypeOK
  <2>4. CASE Republish(c)
    BY <2>4, RepublishKeepsCopies DEF Republish
  <2>5. CASE AckRetried(c)
    BY <2>5, ReleaseKeepsCopies DEF AckRetried, Holding, Place, Phase, Waiting
  <2>6. CASE DropExhausted(c)
    BY <2>6, ReleaseKeepsCopies DEF DropExhausted, Holding, Place, Phase, Waiting
  <2>7. CASE RejectCancelled(c)
    BY <2>7, ReleaseKeepsCopies DEF RejectCancelled, Holding, Place, Phase, Waiting
  <2> QED
    BY <1>3, <2>1, <2>2, <2>3, <2>4, <2>5, <2>6, <2>7 DEF ConsumerStep
<1>4. ASSUME NEW c \in Consumer, RepublishFails(c)
      PROVE  CopiesBounded'
  BY <1>4, FailedRepublicationAddsOneCopy, AddedCopyBounded DEF RepublishFails, Fault
<1>5. CASE UNCHANGED brokerVars
  <2>1. KeepsCopies /\ faults' = faults
    BY <1>5, QuietKeepsCopies DEF brokerVars
  <2> QED BY <2>1, KeptCopiesBounded
<1> QED
  BY <1>1, <1>2, <1>3, <1>4, <1>5 DEF BrokerNext

(* A task has at most one current copy more than there were faults, for    *)
(* any number of workers and retries: without a fault, no interleaving of  *)
(* consumers hands a task to two of them or leaves two copies of it.       *)
THEOREM BrokerDuplicatesOnlyByFaults == BrokerSpec => []DuplicationBounded
<1>1. BrokerInit => CopiesBounded
  <2> SUFFICES ASSUME BrokerInit, NEW o PROVE Cardinality(CurrentCopies(o)) <= 1 + faults
    BY DEF CopiesBounded
  <2>1. CurrentCopies(o) = {} /\ faults = 0
    BY DEF BrokerInit, CurrentCopies
  <2> QED BY <2>1, FS_EmptySet
<1>2. CopiesBounded => DuplicationBounded
  BY DEF CopiesBounded, DuplicationBounded
<1> QED
  BY <1>1, <1>2, InitInv, InitDescent, NextKeepsInv, NextKeepsDescent,
     NextKeepsCopiesBounded, PTL DEF BrokerSpec
=============================================================================
