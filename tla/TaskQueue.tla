----------------------------- MODULE TaskQueue -----------------------------
(***************************************************************************)
(* What EventLoop promises for closures handed to queueInLoop / runInLoop  *)
(* from other threads (spec section 4): they run on the loop, one at a     *)
(* time, in the order they were queued, each once, and every queued        *)
(* closure runs unless the loop stops first.                               *)
(***************************************************************************)
EXTENDS Sequences

CONSTANT Tasks

VARIABLES queue, stopped

Init == queue = <<>> /\ stopped = FALSE

Enqueue(t) == queue' = Append(queue, t) /\ UNCHANGED stopped

Run == ~stopped /\ queue # <<>> /\ queue' = Tail(queue) /\ UNCHANGED stopped

Stop == ~stopped /\ stopped' = TRUE /\ UNCHANGED queue

Next == (\E t \in Tasks : Enqueue(t)) \/ Run \/ Stop

Spec == Init /\ [][Next]_<<queue, stopped>> /\ WF_<<queue, stopped>>(Run)
====
