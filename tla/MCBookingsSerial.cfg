SPECIFICATION Spec
CONSTANTS
  CreateReqs = {r1, r2}
  CancelReqs = {c1, c2}
  AdminForms = {}
  Rooms = {rm1, rm2}
  Days = {0, 1, 2}
  Prices = {1, 2}
  MaxTotal = 3
  Workers = 1
  None = None
  guest = guest
  owner = owner
  stranger = stranger
  FirstRoom = rm1
  FirstCancel = c1
  Users <- MCUsers
  Guest <- MCGuest
  Caller <- MCCaller
  Owner <- MCOwner
CHECK_DEADLOCK FALSE
INVARIANTS
  NoDoubleBooking
  OneCancelSucceeds
PROPERTIES
  ImplementsReservations
