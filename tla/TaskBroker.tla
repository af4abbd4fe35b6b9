----------------------------- MODULE TaskBroker -----------------------------
(***************************************************************************)
(* The RabbitMQ task broker (ingestion/task_broker.py) and the worker      *)
(* processes that consume from it (worker.py), for an arbitrary handler.   *)
(*                                                                         *)
(* A worker process runs one consumer per queue.  A consumer takes one     *)
(* message at a time (prefetch_count = 1) and runs the handler inside      *)
(* `async with message.process(requeue=False)`, which acknowledges the     *)
(* message when the block ends and rejects it, without requeueing, when an *)
(* exception leaves the block.  A handler that raises makes the consumer   *)
(* publish a copy of the message with the retry count one higher, or, when *)
(* the retries ran out, only write a log line; in both cases the exception *)
(* stops there and the message is acknowledged.                            *)
(*                                                                         *)
(* Every await of this code is a point where another consumer may run and  *)
(* where the process may be killed (the broker then redelivers what was    *)
(* not acknowledged) or cancelled by a signal (asyncio.CancelledError is   *)
(* not an Exception: the message is rejected, so it is dead-lettered).     *)
(*                                                                         *)
(* `log` is every message ever published, in order; a message is never     *)
(* removed from it, its `place` says where it is.  Delivery picks any      *)
(* ready message of the queue: the code relies on no order, and RabbitMQ   *)
(* gives none once messages are requeued and consumers compete.            *)
(***************************************************************************)
EXTENDS Naturals, Sequences, FiniteSets

CONSTANTS
  Worker,         \* worker processes
  Queue,          \* stage queues (ALL_QUEUES)
  Payload,        \* message bodies
  MAX_RETRIES,    \* retries of a failing message
  MaxPublished,   \* bound: messages published afresh (retries not counted)
  MaxFaults       \* bound: crashes, shutdowns and failed republications

ASSUME BrokerAssumption ==
  /\ MAX_RETRIES \in Nat
  /\ MaxPublished \in Nat
  /\ MaxFaults \in Nat

VARIABLES
  log,            \* messages ever published
  phase,          \* what each consumer is doing
  held,           \* the unacknowledged message of each consumer, 0 for none
  faults          \* crashes, shutdowns and failed republications so far

brokerVars == <<log, phase, held, faults>>

Consumer == Worker \X Queue
QueueOf(c) == c[2]

Place == {"ready",      \* in its queue, deliverable
          "unacked",    \* delivered to a consumer that has not answered yet
          "handled",    \* acknowledged, the handler returned
          "retried",    \* acknowledged, a copy was published in its stead
          "dropped",    \* acknowledged, the handler raised on the last retry
          "dead"}       \* rejected, in the dead-letter queue

Phase == {"down",         \* the worker process is not running
          "idle",         \* waiting for a message
          "handling",     \* inside the handler
          "raised",       \* in the except branch, the handler raised
          "republished",  \* the copy is in the queue, the original not yet acked
          "cancelled",    \* cancelled by the shutdown, about to reject
          "dead"}         \* the consumer task ended with an exception

(* The phases in which a consumer owns an unacknowledged message.          *)
Holding == {"handling", "raised", "republished", "cancelled"}

Message == [queue : Queue, payload : Payload, retry : 0..MAX_RETRIES,
            origin : Nat \ {0}, place : Place]

Fresh(q, p, r, o) ==
  [queue |-> q, payload |-> p, retry |-> r, origin |-> o, place |-> "ready"]

(* A copy of message m for its next attempt.                               *)
NextAttempt(m) ==
  Fresh(log[m].queue, log[m].payload, log[m].retry + 1, log[m].origin)

Moved(m, place) == [log EXCEPT ![m].place = place]

(* Consumer c answers for its message and moves on.                        *)
Release(c, place, next) ==
  /\ log' = Moved(held[c], place)
  /\ held' = [held EXCEPT ![c] = 0]
  /\ phase' = [phase EXCEPT ![c] = next]

Advance(c, from, to) ==
  /\ phase[c] = from
  /\ phase' = [phase EXCEPT ![c] = to]

Fault == faults < MaxFaults /\ faults' = faults + 1

-----------------------------------------------------------------------------
BrokerInit ==
  /\ log = << >>
  /\ phase = [c \in Consumer |-> "down"]
  /\ held = [c \in Consumer |-> 0]
  /\ faults = 0

(* publish(): a producer puts a new task on a queue.                       *)
Publish(q, p) ==
  /\ Cardinality({m \in DOMAIN log : log[m].origin = m}) < MaxPublished
  /\ log' = Append(log, Fresh(q, p, 0, Len(log) + 1))

(* run_worker(): the process connects and starts its three consumers.      *)
Start(w) ==
  /\ \A q \in Queue : phase[<<w, q>>] = "down"
  /\ phase' = [c \in Consumer |-> IF c[1] = w THEN "idle" ELSE phase[c]]
  /\ UNCHANGED <<log, held, faults>>

(* Mutants: a message is handed out again before it is answered for; a     *)
(* dead-lettered message is handed out again.                              *)
DeliverUnacked(c, m) ==
  /\ Advance(c, "idle", "handling")
  /\ log[m].place \in {"ready", "unacked"}
  /\ log[m].queue = QueueOf(c)
  /\ log' = Moved(m, "unacked")
  /\ held' = [held EXCEPT ![c] = m]
  /\ UNCHANGED faults

DeliverDead(c, m) ==
  /\ Advance(c, "idle", "handling")
  /\ log[m].place \in {"ready", "dead"}
  /\ log[m].queue = QueueOf(c)
  /\ log' = Moved(m, "unacked")
  /\ held' = [held EXCEPT ![c] = m]
  /\ UNCHANGED faults

(* The queue iterator hands the next message to the consumer.              *)
Deliver(c, m) ==
  /\ Advance(c, "idle", "handling")
  /\ log[m].place = "ready"
  /\ log[m].queue = QueueOf(c)
  /\ log' = Moved(m, "unacked")
  /\ held' = [held EXCEPT ![c] = m]
  /\ UNCHANGED faults

(* The handler returns; leaving the process() block acknowledges.          *)
HandlerReturns(c) ==
  /\ phase[c] = "handling"
  /\ Release(c, "handled", "idle")
  /\ UNCHANGED faults

(* Mutant: the exception ends the consumer, which keeps its message.       *)
HandlerRaisesThrough(c) ==
  /\ Advance(c, "handling", "dead")
  /\ UNCHANGED <<log, held, faults>>

HandlerRaises(c) ==
  /\ Advance(c, "handling", "raised")
  /\ UNCHANGED <<log, held, faults>>

(* The except branch: a copy is published with the next retry count.       *)
Republish(c) ==
  /\ Advance(c, "raised", "republished")
  /\ log[held[c]].retry < MAX_RETRIES
  /\ log' = Append(log, NextAttempt(held[c]))
  /\ UNCHANGED <<held, faults>>

(* Mutants: the message is acknowledged before its copy is published; it   *)
(* is requeued although its copy was.                                      *)
AckBeforeRepublish(c) ==
  /\ phase[c] \in {"raised", "republished"}
  /\ Release(c, "retried", "idle")
  /\ UNCHANGED faults

RequeueRetried(c) ==
  /\ phase[c] = "republished"
  /\ Release(c, "ready", "idle")
  /\ UNCHANGED faults

(* Leaving the block after the republication acknowledges the original.    *)
AckRetried(c) ==
  /\ phase[c] = "republished"
  /\ Release(c, "retried", "idle")
  /\ UNCHANGED faults

(* publish() raises inside the except branch, before or after the broker   *)
(* accepted the copy: process() rejects the original to the dead-letter    *)
(* exchange, and the exception ends the consumer task.  run_worker waits   *)
(* only for the shutdown event, so nobody restarts that consumer.          *)
RepublishFails(c) ==
  /\ Fault
  /\ \/ /\ phase[c] = "raised"
        /\ log[held[c]].retry < MAX_RETRIES
     \/ phase[c] = "republished"
  /\ Release(c, "dead", "dead")

(* Mutant: the last retry is not granted.                                  *)
DropOneEarly(c) ==
  /\ phase[c] = "raised"
  /\ log[held[c]].retry + 1 >= MAX_RETRIES
  /\ Release(c, "dropped", "idle")
  /\ UNCHANGED faults

(* Out of retries: the branch logs "sent to DLQ" and falls through, so the *)
(* block ends normally and the message is acknowledged.                    *)
DropExhausted(c) ==
  /\ phase[c] = "raised"
  /\ log[held[c]].retry >= MAX_RETRIES
  /\ Release(c, "dropped", "idle")
  /\ UNCHANGED faults

(* The process is killed: its connection closes and the broker makes every *)
(* message it had not answered deliverable again.                          *)
Crash(w) ==
  /\ Fault
  /\ \E q \in Queue : phase[<<w, q>>] # "down"
  /\ log' = [m \in DOMAIN log |->
               IF \E q \in Queue : held[<<w, q>>] = m
                 THEN [log[m] EXCEPT !.place = "ready"] ELSE log[m]]
  /\ held' = [c \in Consumer |-> IF c[1] = w THEN 0 ELSE held[c]]
  /\ phase' = [c \in Consumer |-> IF c[1] = w THEN "down" ELSE phase[c]]

(* SIGTERM: run_worker cancels its consumer tasks.                         *)
Shutdown(w) ==
  /\ Fault
  /\ \E q \in Queue : phase[<<w, q>>] \notin {"down", "cancelled"}
  /\ phase' = [c \in Consumer |->
                 IF c[1] # w THEN phase[c]
                 ELSE IF phase[c] \in Holding THEN "cancelled" ELSE "down"]
  /\ UNCHANGED <<log, held>>

(* CancelledError leaves the process() block: reject(requeue=False).       *)
RejectCancelled(c) ==
  /\ phase[c] = "cancelled"
  /\ Release(c, "dead", "down")
  /\ UNCHANGED faults

(* What a running consumer does by itself, for whatever the handler does.  *)
ConsumerStep(c) ==
  \/ \E m \in DOMAIN log : Deliver(c, m)
  \/ HandlerReturns(c)
  \/ HandlerRaises(c)
  \/ Republish(c)
  \/ AckRetried(c)
  \/ DropExhausted(c)
  \/ RejectCancelled(c)

BrokerNext ==
  \/ \E q \in Queue, p \in Payload : Publish(q, p) /\ UNCHANGED <<phase, held, faults>>
  \/ \E w \in Worker : Start(w) \/ Crash(w) \/ Shutdown(w)
  \/ \E c \in Consumer : ConsumerStep(c) \/ RepublishFails(c)

BrokerSpec == BrokerInit /\ [][BrokerNext]_brokerVars

(* A consumer whose process runs keeps going (handlers end), and whoever   *)
(* operates the workers starts them.                                       *)
BrokerFairness ==
  /\ \A w \in Worker : WF_brokerVars(Start(w))
  /\ \A c \in Consumer : WF_brokerVars(ConsumerStep(c))

FairBrokerSpec == BrokerSpec /\ BrokerFairness

-----------------------------------------------------------------------------
BrokerTypeOK ==
  /\ log \in Seq(Message)
  /\ phase \in [Consumer -> Phase]
  /\ held \in [Consumer -> Nat]
  /\ faults \in 0..MaxFaults

(* Every unacknowledged message is owned by exactly one consumer, of its   *)
(* queue, that is working on it; no other consumer owns anything.  With    *)
(* redelivery, cancellation and dying consumers this is what keeps a       *)
(* message from being stranded or worked on twice under one delivery.      *)
Ownership ==
  /\ \A c \in Consumer :
       IF phase[c] \in Holding
         THEN /\ held[c] \in DOMAIN log
              /\ log[held[c]].place = "unacked"
              /\ log[held[c]].queue = QueueOf(c)
         ELSE held[c] = 0
  /\ \A c, d \in Consumer : held[c] = held[d] => c = d \/ held[c] = 0
  /\ \A m \in DOMAIN log :
       log[m].place = "unacked" => \E c \in Consumer : held[c] = m

(* A message is superseded once the copy for its next attempt is in the    *)
(* queue; the current messages of a task are the others.                   *)
Superseded(m) ==
  \/ log[m].place = "retried"
  \/ \E c \in Consumer : held[c] = m /\ phase[c] = "republished"

CurrentCopies(o) == {m \in DOMAIN log : log[m].origin = o /\ ~Superseded(m)}

(* No task is lost between the acknowledgement of one attempt and the      *)
(* publication of the next: each task ever published has a message that    *)
(* waits, is being handled, or ended in a final place.                     *)
NoTaskLost == \A m \in DOMAIN log : CurrentCopies(log[m].origin) # {}

(* At-least-once delivery duplicates a task only through a fault, and one  *)
(* fault adds at most one copy: in particular a task is handled to the end *)
(* at most once when nothing crashes, is shut down or fails to republish.  *)
DuplicationBounded ==
  \A m \in DOMAIN log : Cardinality(CurrentCopies(log[m].origin)) <= 1 + faults

(* A message is given up only after every attempt the retry limit grants:  *)
(* the task has a message for each retry count up to MAX_RETRIES.          *)
DropOnlyAfterAllRetries ==
  \A m \in DOMAIN log :
    log[m].place = "dropped" =>
      \A r \in 0..MAX_RETRIES :
        \E n \in DOMAIN log : log[n].origin = log[m].origin /\ log[n].retry = r

(* The docstring of consume(): "If it raises, the message is retried or    *)
(* sent to dead-letter."  A message whose handler raised for the last time *)
(* is in neither place.                                                    *)
RaisedIsRetriedOrDeadLettered ==
  \A m \in DOMAIN log : log[m].place # "dropped"

Settled(m) == log[m].place \notin {"ready", "unacked"}

(* Under fair consumers a queue drains, retries included, unless every     *)
(* consumer of that queue ended with an exception: such a consumer is not  *)
(* replaced while its process lives.                                       *)
QueueDrains ==
  \A q \in Queue :
    <>[](\/ \A m \in DOMAIN log : log[m].queue = q => Settled(m)
         \/ \A w \in Worker : phase[<<w, q>>] = "dead")

(* What has become of the task whose first message is t.                   *)
Verdict(t) ==
  LET places == {log[m].place : m \in {n \in DOMAIN log : log[n].origin = t}}
  IN  IF places = {} THEN "unpublished"
      ELSE IF "handled" \in places THEN "handled"
      ELSE IF places \cap {"ready", "unacked"} # {} THEN "pending"
      ELSE IF "dead" \in places THEN "deadlettered"
      ELSE IF "dropped" \in places THEN "dropped"
      ELSE "lost"

(* A task has at most one current copy more than there were faults, and a  *)
(* copy has MAX_RETRIES + 1 attempts: no message is ever beyond this place.*)
MaxLog == MaxPublished * (MAX_RETRIES + 1) * (1 + MaxFaults)

Lifecycle == INSTANCE TaskLifecycle
               WITH Task <- 1..MaxLog,
                    status <- [t \in 1..MaxLog |-> Verdict(t)]

(* The broker with its workers implements the life of a task: every step   *)
(* leaves each task's verdict alone, publishes it, or settles it for good. *)
ImplementsLifecycle == Lifecycle!Spec
=============================================================================
