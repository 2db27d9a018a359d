CONSTANTS
  c1 = c1
  c2 = c2
  c3 = c3
  c4 = c4
  k1 = k1
  k2 = k2
  p1 = p1
  p2 = p2
  Calls = {c1, c2, c3, c4}
  Keys = {k1, k2}
  Payloads = {p1, p2}
  KeyOf <- MCKeyOf
  HashOf <- MCHashOf
  NoCall = NoCall
  NoHash = NoHash
SPECIFICATION IdempotencySpec
INVARIANT AnswerIsOwn
PROPERTY ImplementsOnceOnly
SYMMETRY MCSymmetry
\* Every call ends.
CHECK_DEADLOCK FALSE
