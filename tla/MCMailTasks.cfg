SPECIFICATION FairSpec
CONSTANTS
  ann = ann
  bob = bob
  b1 = b1
  b2 = b2
  reminders = reminders
  code = code
  Users = {ann, bob}
  Bookings = {b1, b2}
  Runs = {reminders, code}
  None = None
  Guest <- MCGuest
  CodeFor <- MCCodeFor
INVARIANTS TypeOK AtMostOneMail ReportIsHonest DueGuestsTried
PROPERTY TaskEnds
CHECK_DEADLOCK FALSE
