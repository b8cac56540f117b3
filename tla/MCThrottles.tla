---------------------------- MODULE MCThrottles ----------------------------
(***************************************************************************)
(* Requests of one address, which ask two throttles: one request in two    *)
(* ticks and two in one tick.                                              *)
(***************************************************************************)
EXTENDS Throttles

MCRate == [anon |-> 1, user |-> 2, auth |-> 1]
MCWindow == [anon |-> 2, user |-> 1, auth |-> 1]
=============================================================================
