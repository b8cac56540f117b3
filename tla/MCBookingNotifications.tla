----------------------- MODULE MCBookingNotifications -----------------------
(***************************************************************************)
(* Instances of BookingNotifications: the guest and the hotel's owner each *)
(* keep sockets.                                                           *)
(***************************************************************************)
EXTENDS BookingNotifications, MCBookings

CONSTANTS GuestSocket

MCViewer == [s \in Sockets |-> IF s = GuestSocket THEN guest ELSE owner]
=============================================================================
