\* Two providers, two mutations and two jobs that race, and two prices above the
\* quoted one.  The customer may set the price to the first of them, which raises the
\* quoted one and lowers the other.
CONSTANTS
  p1 = p1
  p2 = p2
  r1 = r1
  r2 = r2
  w1 = w1
  w2 = w2
  Providers = {p1, p2}
  Requests = {r1, r2}
  Workers = {w1, w2}
  QuotedPrice = 1
  CounterAmounts = {2, 3}
  EditedPrices = {2}
  NoProvider = NoProvider
SPECIFICATION Spec
SYMMETRY MCSymmetry
INVARIANTS OneWinner PriceIsAgreed ProgressIsBacked
PROPERTIES DeliveredIsSettled ImplementsMatching
CHECK_DEADLOCK FALSE
