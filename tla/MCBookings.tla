---------------------------- MODULE MCBookings ----------------------------
(***************************************************************************)
(* Instances of Bookings for TLC.  The guest sends every create request;   *)
(* cancels come from the guest and from the owner of the first room's      *)
(* hotel, who is a stranger to bookings of the other rooms.                *)
(***************************************************************************)
EXTENDS Bookings, TLC

CONSTANTS guest, owner, stranger, FirstRoom, FirstCancel

MCUsers  == {guest, owner, stranger}
MCGuest  == [r \in CreateReqs |-> guest]
MCCaller == [c \in CancelReqs |-> IF c = FirstCancel THEN guest ELSE owner]
MCOwner  == [rm \in Rooms |-> IF rm = FirstRoom THEN owner ELSE stranger]

\* Create requests are interchangeable, and so are admin forms.
Symmetry == Permutations(CreateReqs) \cup Permutations(AdminForms)
===========================================================================
