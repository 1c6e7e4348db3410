---------------------------- MODULE LineChannel ----------------------------
(***************************************************************************)
(* What one direction of a connection gives its two ends: a queue.  Lines  *)
(* arrive in the order in which they were sent, each at most once; the     *)
(* only ones that get lost are lines that were under way together, one of  *)
(* them too long for a single write.                                       *)
(***************************************************************************)
EXTENDS Naturals, Sequences

CONSTANT Length  \* lengths of lines, in the units that one write takes at least

VARIABLES
    sent,  \* sent[i]: the length of the i-th line sent
    lost,  \* the lines that cannot be read any more
    got    \* the lines that were read, in that order

channelVars == <<sent, lost, got>>

Arrived == {got[k] : k \in DOMAIN got}
UnderWay == DOMAIN sent \ Arrived

ChannelInit == sent = <<>> /\ lost = {} /\ got = <<>>

Submit(n) ==
    /\ sent' = Append(sent, n)
    /\ UNCHANGED <<lost, got>>

Collide(i, j) ==
    /\ i # j
    /\ sent[i] > 1 \/ sent[j] > 1
    /\ lost' = lost \cup {i, j}
    /\ UNCHANGED <<sent, got>>

Deliver(i) ==
    /\ i \notin lost
    /\ \A j \in UnderWay \ lost : i <= j
    /\ got' = Append(got, i)
    /\ UNCHANGED <<sent, lost>>

ChannelNext ==
    \/ \E n \in Length : Submit(n)
    \/ \E i, j \in UnderWay : Collide(i, j)
    \/ \E i \in UnderWay : Deliver(i)

ChannelSpec == ChannelInit /\ [][ChannelNext]_channelVars
=============================================================================
