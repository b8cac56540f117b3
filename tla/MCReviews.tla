----------------------------- MODULE MCReviews -----------------------------
(***************************************************************************)
(* Instances of Reviews: two posts of one guest, with a reader and an      *)
(* editor.                                                                 *)
(***************************************************************************)
EXTENDS Reviews, TLC

Symmetry == Permutations(Posters) \cup Permutations(Editors) \cup Permutations(Texts) \cup Permutations(Emails)
============================================================================
