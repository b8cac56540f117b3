SPECIFICATION Spec
CONSTANTS
  Readers = {d1}
  Writers = {w1}
  Hotels <- MCTwoHotels
  Rooms = {rm1}
  Contents <- MCContents
  HotelOf <- MCHotelOfTwo
  Workers = 1
  Faults = FALSE
  Admin = FALSE
  HotelList = "hotels:list"
  RoomList = "rooms:list"
  None = None
  h1 = h1
  h2 = h2
  c1 = c1
  c2 = c2
CHECK_DEADLOCK FALSE
INVARIANTS
  FreshButForCascades
