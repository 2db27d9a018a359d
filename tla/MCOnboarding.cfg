\* Two mutations that race: driver against reviewer, reviewer against reviewer.
CONSTANTS
  r1 = r1
  r2 = r2
  Requests = {r1, r2}
  MaxSubmissions = 2
SPECIFICATION Spec
SYMMETRY MCSymmetry
INVARIANTS InReviewIsSubmitted GrantIsBacked AvailableIsOnline
\* A mutation may always begin or end.
CHECK_DEADLOCK FALSE
