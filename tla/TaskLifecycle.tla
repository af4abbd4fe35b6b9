--------------------------- MODULE TaskLifecycle ---------------------------
(***************************************************************************)
(* What the task broker promises about one published task, with messages,  *)
(* retries, consumers and processes left out: a task that was published is *)
(* pending until a handler has finished it or it has been given up, it is  *)
(* never forgotten, and the verdict on it is final.                        *)
(*                                                                         *)
(* A task is given up in one of two places: in the dead-letter queue, or   *)
(* nowhere (the consumer acknowledges a message whose retries ran out).    *)
(***************************************************************************)
CONSTANT Task       \* the tasks that may ever be published

VARIABLE status

Status == {"unpublished", "pending", "handled", "deadlettered", "dropped"}

Init == status = [t \in Task |-> "unpublished"]

Move(t, from, to) ==
  /\ status[t] = from
  /\ status' = [status EXCEPT ![t] = to]

Submit(t) == Move(t, "unpublished", "pending")

Settle(t) == \E verdict \in {"handled", "deadlettered", "dropped"} :
               Move(t, "pending", verdict)

Next ==
  \E t \in Task : Submit(t) \/ Settle(t)

Spec == Init /\ [][Next]_status
=============================================================================
