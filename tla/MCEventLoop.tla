---------------------------- MODULE MCEventLoop ----------------------------
(* Two producer threads, so that pushes and wakeups of different threads   *)
(* interleave; three closures, so that a closure can queue another while   *)
(* producer closures are pending; one readiness event of another channel. *)
EXTENDS EventLoop

CONSTANTS p1, p2

MCProducers == {p1, p2}
====
