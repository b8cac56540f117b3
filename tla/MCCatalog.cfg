SPECIFICATION Spec
CONSTANTS
  Readers = {d1}
  Writers = {w1, w2}
  Hotels <- MCOneHotel
  Rooms = {rm1}
  Contents <- MCContents
  HotelOf <- MCHotelOfOne
  Workers = 2
  Faults = TRUE
  Admin = TRUE
  HotelList = "hotels:list"
  RoomList = "rooms:list"
  None = None
  h1 = h1
  h2 = h2
  c1 = c1
  c2 = c2
SYMMETRY Symmetry
CHECK_DEADLOCK FALSE
INVARIANTS
  TypeOK
  StaleHasCause
