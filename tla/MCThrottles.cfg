SPECIFICATION FairSpec
CONSTANTS
  Requests = {q1, q2, q3}
  Users = {}
  Addresses = {a1}
  Views = {"plain"}
  Rate <- MCRate
  Window <- MCWindow
  Faults = TRUE
INVARIANTS TypeOK RateHeld RefusedAtRate
PROPERTY BlockEnds
