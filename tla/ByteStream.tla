----------------------------- MODULE ByteStream -----------------------------
(***************************************************************************)
(* What a Buffer promises its users: the readable bytes are a string that  *)
(* grows at the back by the bytes written into it, can grow at the front   *)
(* by bytes put before it, and shrinks at the front by the bytes consumed. *)
(* Bytes are named by the order in which the producer made them (next), so *)
(* a byte lost, duplicated or moved is a step this specification forbids.  *)
(***************************************************************************)
EXTENDS Naturals, Sequences

CONSTANT MaxBytes   \* bytes the producer makes in total

VARIABLES content, next

Fresh(k) == [i \in 1 .. k |-> next + i - 1]

Init == content = <<>> /\ next = 1

\* k new bytes written behind the readable ones.
Write(k) ==
    /\ content' = content \o Fresh(k)
    /\ next' = next + k

\* k new bytes put in front of the readable ones.
Put(k) ==
    /\ content' = Fresh(k) \o content
    /\ next' = next + k

\* The first k readable bytes consumed.
Consume(k) ==
    /\ k <= Len(content)
    /\ content' = SubSeq(content, k + 1, Len(content))
    /\ UNCHANGED next

Next ==
    \E k \in 0 .. MaxBytes : Write(k) \/ Put(k) \/ Consume(k)

Spec == Init /\ [][Next]_<<content, next>>
====
