\* An administrator and a user with one device between them, and two requests in flight
\* about one file of any kind: three different things happen to it, three events are
\* written, and settings or the device change once.
CONSTANTS
  admin = admin
  user = user
  t1 = t1
  w1 = w1
  w2 = w2
  c1 = c1
  c2 = c2
  Nobody = Nobody
  Profiles = {admin, user}
  Admins = {admin}
  Tokens = {t1}
  Calls = {c1, c2}
  Owners = {user}
  Words = {w1, w2}
  MaxFiles = 1
  MaxEvents = 3
  MaxNews = 3
  MaxMoves = 1
  MaxDecisions = 3
SPECIFICATION Spec
SYMMETRY MCSymmetry
INVARIANTS DecisionIsRecorded ToldIsRecorded
PROPERTIES TimesAreKept OptOutHolds
\* A mutation may always begin or end.
CHECK_DEADLOCK FALSE
