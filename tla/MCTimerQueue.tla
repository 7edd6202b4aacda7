---------------------------- MODULE MCTimerQueue ----------------------------
(* Model-checking instance of TimerQueue: two heap addresses, so that a    *)
(* freed Timer's address is reused; one-shot delays 0 and 1 and a repeat   *)
(* interval of 1 tick, so that timers expire together, in order and while  *)
(* others are pending; three timers; one queued cross-thread closure.      *)
EXTENDS TimerQueue

MCAddrs == {1, 2}
MCDelays == {0, 1}
MCIntervals == {1}
====
