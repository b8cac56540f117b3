SPECIFICATION FairSpec
CONSTANTS
  Users = {u1, u2}
  Requests = {q1, q2}
  Sessions = {s1}
  Tokens = {t1, t2, t3}
  None = None
INVARIANTS TypeOK OneTokenPerSession LoggedOutStaysOut
PROPERTY DisabledRunsOut
