------------------------------ MODULE Poller ------------------------------
(***************************************************************************)
(* Poller (src/mouse/src/net/poller.cc) with the Channels that use it      *)
(* (channel.h).  pollfds_ is a sequence of slots; a disabled channel's     *)
(* slot holds the negated fd -fd-1; removeChannel swaps the last slot into *)
(* the freed one and fixes the moved channel's index_.  An assert that     *)
(* fails aborts the process: assertFailed.  This module is the Poller's    *)
(* state and its two operations; TcpServer.tla instantiates it for the    *)
(* server loop, whose accept, echo, close and connectDestroyed steps are   *)
(* the channels' owners calling them.                                      *)
(***************************************************************************)
EXTENDS Integers, Sequences, FiniteSets

CONSTANTS
    Chans,   \* channel objects, each created at most once
    Fds,     \* file descriptors, natural numbers
    NoChan   \* not a channel

Negated(fd) == -fd - 1
Events == SUBSET {"read", "write"}

VARIABLES
    st,           \* each channel object: "unborn", "live", "dead"
    cfd,          \* Channel::fd_
    ev,           \* Channel::events_
    idx,          \* Channel::index_
    pollfds,      \* Poller::pollfds_: sequence of [fd, events]
    cmap,         \* Poller::channels_: fd -> channel, NoChan when absent
    active,       \* activeChannels: reported by the last poll, not yet handled
    assertFailed  \* an assert of updateChannel/removeChannel failed

Slot == [fd : Fds \cup {Negated(f) : f \in Fds}, events : Events]

TypeOK ==
    /\ st \in [Chans -> {"unborn", "live", "dead"}]
    /\ cfd \in [Chans -> Fds \cup {-1}]
    /\ ev \in [Chans -> Events]
    /\ idx \in [Chans -> -1 .. Cardinality(Chans) - 1]
    /\ pollfds \in Seq(Slot) /\ Len(pollfds) <= Cardinality(Fds)
    /\ cmap \in [Fds -> Chans \cup {NoChan}]
    /\ active \subseteq Chans
    /\ assertFailed \in BOOLEAN

\* The real fd of a slot, whether enabled or negated.
SlotFd(s) == IF s.fd < 0 THEN Negated(s.fd) ELSE s.fd

\* Poller::updateChannel(channel) after the channel's events_ became e.
updateChannel(c, e) ==
    LET fd == cfd[c]
        i == idx[c]
    IN  IF i < 0
        THEN IF cmap[fd] # NoChan
             THEN assertFailed' = TRUE /\ UNCHANGED <<idx, pollfds, cmap>>
             ELSE /\ pollfds' = Append(pollfds, [fd |-> fd, events |-> e])
                  /\ idx' = [idx EXCEPT ![c] = Len(pollfds)]
                  /\ cmap' = [cmap EXCEPT ![fd] = c]
                  /\ UNCHANGED assertFailed
        ELSE IF \/ cmap[fd] # c
                \/ ~(i < Len(pollfds))
                \/ SlotFd(pollfds[i + 1]) # fd
             THEN assertFailed' = TRUE /\ UNCHANGED <<idx, pollfds, cmap>>
             ELSE /\ pollfds' = [pollfds EXCEPT ![i + 1] =
                                   [fd |-> IF e = {} THEN Negated(fd) ELSE fd,
                                    events |-> e]]
                  /\ UNCHANGED <<idx, cmap, assertFailed>>

\* The moved slot's channel keeps its old index_ when that slot is disabled.
removeChannelNoUnnegate(c) ==
    LET fd == cfd[c]
        i == idx[c]
        last == Len(pollfds)
        moved == pollfds[last].fd
    IN  IF \/ cmap[fd] # c \/ ev[c] # {}
           \/ ~(0 <= i /\ i < last)
           \/ pollfds[i + 1] # [fd |-> Negated(fd), events |-> ev[c]]
        THEN assertFailed' = TRUE /\ UNCHANGED <<idx, pollfds, cmap>>
        ELSE /\ pollfds' = IF i = last - 1 THEN SubSeq(pollfds, 1, last - 1)
                           ELSE SubSeq([pollfds EXCEPT ![i + 1] = pollfds[last]],
                                       1, last - 1)
             /\ cmap' = [cmap EXCEPT ![fd] = NoChan]
             /\ idx' = IF i = last - 1 \/ moved < 0 THEN idx
                       ELSE [idx EXCEPT ![cmap[moved]] = i]
             /\ UNCHANGED assertFailed

\* Poller::removeChannel(channel), lines 102-131.
removeChannel(c) ==
    LET fd == cfd[c]
        i == idx[c]
        last == Len(pollfds)
        moved == SlotFd(pollfds[last])
    IN  IF \/ cmap[fd] # c \/ ev[c] # {}
           \/ ~(0 <= i /\ i < last)
           \/ pollfds[i + 1] # [fd |-> Negated(fd), events |-> ev[c]]
        THEN assertFailed' = TRUE /\ UNCHANGED <<idx, pollfds, cmap>>
        ELSE /\ pollfds' = IF i = last - 1 THEN SubSeq(pollfds, 1, last - 1)
                           ELSE SubSeq([pollfds EXCEPT ![i + 1] = pollfds[last]],
                                       1, last - 1)
             /\ cmap' = [cmap EXCEPT ![fd] = NoChan]
             /\ idx' = IF i = last - 1 THEN idx
                       ELSE [idx EXCEPT ![cmap[moved]] = i]
             /\ UNCHANGED assertFailed

-----------------------------------------------------------------------------
(* Properties                                                              *)

\* channels_ and pollfds_ describe the same registrations: each registered
\* channel's index_ names its own slot, and each slot belongs to the channel
\* channels_ maps its fd to, after any sequence of updates and swap-with-last
\* removals, including ones that move a disabled (negated) slot.
IndexConsistent ==
    /\ \A f \in Fds : cmap[f] # NoChan =>
          LET c == cmap[f] IN
            /\ st[c] = "live" /\ cfd[c] = f
            /\ 0 <= idx[c] /\ idx[c] < Len(pollfds)
            /\ SlotFd(pollfds[idx[c] + 1]) = f
    /\ \A i \in 1 .. Len(pollfds) : cmap[SlotFd(pollfds[i])] # NoChan

\* No assert of updateChannel or removeChannel fails for channels used as
\* their owners use them, and poll never reports a channel that is disabled
\* or gone.
PollerAssertsHold ==
    /\ ~assertFailed
    /\ \A c \in active : st[c] = "live" /\ ev[c] # {}
====
