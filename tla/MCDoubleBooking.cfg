SPECIFICATION Spec
CONSTANTS
  CreateReqs = {r1, r2}
  CancelReqs = {}
  AdminForms = {}
  Rooms = {rm1}
  Days = {0, 1, 2}
  Prices = {1}
  MaxTotal = 3
  Workers = 2
  None = None
  guest = guest
  owner = owner
  stranger = stranger
  FirstRoom = rm1
  FirstCancel = c1
  Users <- MCUsers
  Guest <- MCGuest
  Caller <- MCCaller
  Owner <- MCOwner
CHECK_DEADLOCK FALSE
INVARIANT NoDoubleBooking
