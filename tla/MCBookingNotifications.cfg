SPECIFICATION NFairSpec
CONSTANTS
  CreateReqs = {r1}
  CancelReqs = {c1, c2}
  AdminForms = {f1}
  Rooms = {rm1}
  Days = {0, 1}
  Prices = {1, 2}
  MaxTotal = 1
  Workers = 2
  None = None
  guest = guest
  owner = owner
  stranger = stranger
  FirstRoom = rm1
  FirstCancel = c1
  Users <- MCUsers
  Guest <- MCGuest
  Caller <- MCCaller
  Owner <- MCOwner
  Sockets = {s1, s2}
  GuestSocket = s1
  Viewer <- MCViewer
  Capacity = 1
  Faults = TRUE
CHECK_DEADLOCK FALSE
INVARIANTS
  NTypeOK
  NewsIsTrue
PROPERTIES
  OpenSocketsHear
  RequestsAnswered
