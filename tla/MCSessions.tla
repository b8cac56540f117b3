----------------------------- MODULE MCSessions -----------------------------
(***************************************************************************)
(* Two users, one session at a time, two requests at once.                 *)
(***************************************************************************)
EXTENDS Sessions
=============================================================================
