SPECIFICATION MidDeletionSpec
CONSTANTS
  Readers = {d1}
  Writers = {w1}
  Hotels <- MCOneHotel
  Rooms = {rm1}
  Contents <- MCContents
  HotelOf <- MCHotelOfOne
  Workers = 2
  Faults = FALSE
  Admin = FALSE
  HotelList = "hotels:list"
  RoomList = "rooms:list"
  None = None
  h1 = h1
  h2 = h2
  c1 = c1
  c2 = c2
CHECK_DEADLOCK FALSE
INVARIANTS
  NextListOmits
