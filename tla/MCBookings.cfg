SPECIFICATION Spec
CONSTANTS
  CreateReqs = {r1, r2}
  CancelReqs = {c1, c2}
  AdminForms = {f1}
  Rooms = {rm1}
  Days = {0, 1, 2}
  Prices = {1}
  MaxTotal = 2
  Workers = 3
  None = None
  guest = guest
  owner = owner
  stranger = stranger
  FirstRoom = rm1
  FirstCancel = c1
  Users <- MCUsers
  Guest <- MCGuest
  Caller <- MCCaller
  Owner <- MCOwner
SYMMETRY Symmetry
CHECK_DEADLOCK FALSE
INVARIANTS
  TypeOK
  StoredRowsAreClean
  OverlapOnlyByRace
  CancelSticks
PROPERTY RevivedOnlyByAdmin
