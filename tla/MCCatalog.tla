----------------------------- MODULE MCCatalog -----------------------------
(***************************************************************************)
(* Instances of Catalog.  A room with content c2 belongs to the second     *)
(* hotel, where there is one.                                              *)
(***************************************************************************)
EXTENDS Catalog, TLC

CONSTANTS h1, h2, c1, c2

MCOneHotel   == {h1}
MCTwoHotels  == {h1, h2}
MCContents   == {c1, c2}
MCHotelOfOne == [c \in MCContents |-> h1]
MCHotelOfTwo == [c \in MCContents |-> IF c = c1 THEN h1 ELSE h2]

Symmetry == Permutations(Writers) \cup Permutations(Readers)

\* The behaviours in which every read falls between the signal of a deletion, which has
\* dropped the list, and its commit, and is answered before the commit.
SignalSent == \E w \in Writers : wpc[w] = "committing"

ReadsMidDeletion ==
  /\ \A r \in Readers : rpc[r] = "idle" /\ rpc'[r] # "idle" => SignalSent
  /\ SignalSent /\ ~SignalSent' => \A r \in Readers : rpc[r] = "idle"

MidDeletionSpec == Init /\ [][Next /\ ReadsMidDeletion]_vars
============================================================================
