\* Two concurrent requests that each fit the balance and together do not.
CONSTANTS
  w1 = w1
  w2 = w2
  h1 = h1
  h2 = h2
  Withdrawals = {w1, w2}
  Handlers = {h1}
  WAmount <- MCAmount
  OpeningBalance = 2
SPECIFICATION Spec
INVARIANT NoOverdraft
CHECK_DEADLOCK FALSE
