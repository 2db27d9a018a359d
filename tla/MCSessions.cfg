\* Two calls in flight; two codes of any mode, two sessions: two sign-ins, or
\* one and its rotation, with another rotation in flight.
CONSTANTS
  c1 = c1
  c2 = c2
  Calls = {c1, c2}
  MaxCodes = 2
  MaxSessions = 2
SPECIFICATION Spec
SYMMETRY MCSymmetry
INVARIANT OneSessionPerSignIn
PROPERTY ImplementsSignedIn
\* A request may always begin or end; the bounds use the codes and sessions up.
CHECK_DEADLOCK FALSE
