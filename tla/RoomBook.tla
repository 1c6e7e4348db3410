------------------------------ MODULE RoomBook ------------------------------
(***************************************************************************)
(* What the server promises about its rooms, with no connections and no    *)
(* messages: a guest is in at most one room and changes rooms only by      *)
(* leaving the one before; nobody comes in under a name that is already in *)
(* a room; a room is opened blank by its first guest, and from then on its *)
(* text changes only at the hand of somebody in it, and is never lost.     *)
(***************************************************************************)
EXTENDS Naturals, Sequences

CONSTANTS Guest, Name, NoName, Text, Blank

Outside == 0

VARIABLES
    place,  \* place[g]: the room g is in, or Outside
    name,   \* name[g]: the name g goes by
    texts   \* texts[r]: the text of room r; the rooms are 1 .. Len(texts)

vars == <<place, name, texts>>

Init ==
    /\ place = [g \in Guest |-> Outside]
    /\ name = [g \in Guest |-> NoName]
    /\ texts = <<>>

Welcome(g) ==
    /\ place[g] = Outside
    /\ \A h \in Guest : place[h] # Outside /\ name[h] = name[g]
                            => name[g] = NoName

Open(g) ==
    /\ Welcome(g)
    /\ place' = [place EXCEPT ![g] = Len(texts) + 1]
    /\ texts' = Append(texts, Blank)
    /\ UNCHANGED name

Enter(g) ==
    /\ Welcome(g)
    /\ \E r \in DOMAIN texts : place' = [place EXCEPT ![g] = r]
    /\ UNCHANGED <<name, texts>>

Leave(g) ==
    /\ place' = [place EXCEPT ![g] = Outside]
    /\ UNCHANGED <<name, texts>>

Rename(g) ==
    /\ \E n \in Name : name' = [name EXCEPT ![g] = n]
    /\ UNCHANGED <<place, texts>>

Write(g) ==
    /\ place[g] # Outside
    /\ \E t \in Text : texts' = [texts EXCEPT ![place[g]] = t]
    /\ UNCHANGED <<place, name>>

Next == \E g \in Guest : Open(g) \/ Enter(g) \/ Leave(g) \/ Rename(g) \/ Write(g)

Spec == Init /\ [][Next]_vars
=============================================================================
