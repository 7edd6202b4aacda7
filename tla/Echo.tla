------------------------------- MODULE Echo -------------------------------
(***************************************************************************)
(* What the echo server promises each peer: the units a peer sends come    *)
(* back on its connection exactly once and in the order they were sent.   *)
(* A unit is named by its place in what its peer sent (1, 2, ...), so a    *)
(* unit written twice, skipped or overtaken is a step this specification  *)
(* forbids.  Only after the peer closed its end may the server tear the    *)
(* stream down, dropping what it had not written back.                     *)
(***************************************************************************)
EXTENDS Naturals, Sequences

CONSTANTS Conns, MaxSends

VARIABLES
    sentTo,    \* units each peer has sent
    pending,   \* units sent and not yet written back, oldest first
    written,   \* units written back to each peer, in the order written
    closed     \* the peer closed its end

echoVars == <<sentTo, pending, written, closed>>

Init ==
    /\ sentTo = [c \in Conns |-> 0]
    /\ pending = [c \in Conns |-> <<>>]
    /\ written = [c \in Conns |-> <<>>]
    /\ closed = [c \in Conns |-> FALSE]

\* The peer of c sends its next unit.
Send(c) ==
    /\ ~closed[c]
    /\ sentTo' = [sentTo EXCEPT ![c] = @ + 1]
    /\ pending' = [pending EXCEPT ![c] = Append(@, sentTo[c] + 1)]
    /\ UNCHANGED <<written, closed>>

\* The peer of c closes its end.
Close(c) ==
    /\ ~closed[c]
    /\ closed' = [closed EXCEPT ![c] = TRUE]
    /\ UNCHANGED <<sentTo, pending, written>>

\* The oldest k pending units of c are written back.
Return(c, k) ==
    /\ k <= Len(pending[c])
    /\ pending' = [pending EXCEPT ![c] = SubSeq(@, k + 1, Len(@))]
    /\ written' = [written EXCEPT ![c] = @ \o SubSeq(pending[c], 1, k)]
    /\ UNCHANGED <<sentTo, closed>>

\* The stream of a peer that closed is torn down with what it still held.
Discard(c) ==
    /\ closed[c]
    /\ sentTo' = [sentTo EXCEPT ![c] = 0]
    /\ pending' = [pending EXCEPT ![c] = <<>>]
    /\ written' = [written EXCEPT ![c] = <<>>]
    /\ UNCHANGED closed

Next ==
    \E c \in Conns :
        \/ Send(c) \/ Close(c) \/ Discard(c)
        \/ \E k \in 1 .. MaxSends : Return(c, k)

Spec == Init /\ [][Next]_echoVars
====
