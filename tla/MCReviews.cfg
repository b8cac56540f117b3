SPECIFICATION Spec
CONSTANTS
  Posters = {p1, p2}
  Readers = {d1}
  Editors = {e1, e2}
  Users = {u1}
  Hotels = {h1}
  Texts = {t1, t2}
  Emails = {m1, m2}
  Workers = 3
  Faults = TRUE
  None = None
SYMMETRY Symmetry
CHECK_DEADLOCK FALSE
INVARIANTS
  TypeOK
  OneEarnedReview
  ServerErrorOnlyByRace
  StaleListHasCause
