---------------------------- MODULE Reservations ----------------------------
(***************************************************************************)
(* What booking a room promises: a name reserves a stay at most once, in   *)
(* one step and only when no stay held by another name clashes with it;    *)
(* holds are given back, one (a cancel, a deletion) or several at a time   *)
(* (the deletion of a room), and a hold given back is not taken up again.  *)
(***************************************************************************)
EXTENDS Integers

CONSTANTS Names, Stays, NoHold

VARIABLES held,     \* the stay each name holds, or NoHold
          reserved  \* the names that have reserved

rvars == <<held, reserved>>

Clash(s, t) == s.room = t.room /\ s.checkIn < t.checkOut /\ t.checkIn < s.checkOut

RInit == held = [n \in Names |-> NoHold] /\ reserved = {}

Reserve(n, stay) ==
  /\ n \notin reserved
  /\ \A m \in Names : held[m] # NoHold => ~Clash(held[m], stay)
  /\ held' = [held EXCEPT ![n] = stay]
  /\ reserved' = reserved \cup {n}

Release(gone) ==
  /\ held' = [n \in Names |-> IF n \in gone THEN NoHold ELSE held[n]]
  /\ UNCHANGED reserved

RNext ==
  \/ \E n \in Names, stay \in Stays : Reserve(n, stay)
  \/ \E gone \in SUBSET Names : Release(gone)

RSpec == RInit /\ [][RNext]_rvars
=============================================================================
