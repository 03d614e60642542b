------------------------------- MODULE Admission -------------------------------
(***************************************************************************)
(* What a pool of places promises: it admits a holder only while there is  *)
(* room, in all and in the holder's group, and whoever leaves gives back   *)
(* one place, its own, once.  A limit of 0 means no limit.  StreamSlots    *)
(* implements this with two counters and a release that may be called from *)
(* several places.                                                         *)
(***************************************************************************)
EXTENDS Integers, FiniteSets

CONSTANTS
  Holders,
  Groups,
  MaxTotal,
  MaxPerGroup

VARIABLE place    \* the group each holder has a place in, NoPlace if none

NoPlace == "outside"

Inside == {h \in Holders : place[h] # NoPlace}
InGroup(g) == {h \in Holders : place[h] = g}

Room(g) ==
  /\ MaxTotal > 0 => Cardinality(Inside) < MaxTotal
  /\ MaxPerGroup > 0 => Cardinality(InGroup(g)) < MaxPerGroup

Empty == place = [h \in Holders |-> NoPlace]

Enter(h, g) ==
  /\ place[h] = NoPlace
  /\ Room(g)
  /\ place' = [place EXCEPT ![h] = g]

Leave(h) ==
  /\ place[h] # NoPlace
  /\ place' = [place EXCEPT ![h] = NoPlace]

Admit == \E h \in Holders : Leave(h) \/ \E g \in Groups : Enter(h, g)

AdmissionSpec == Empty /\ [][Admit]_place
=============================================================================
