\* Two providers, two mutations that race, and two amounts.
CONSTANTS
  p1 = p1
  p2 = p2
  r1 = r1
  r2 = r2
  a1 = a1
  a2 = a2
  Providers = {p1, p2}
  Requests = {r1, r2}
  BidAmounts = {a1, a2}
  NoProvider = NoProvider
  NoAmount = NoAmount
SPECIFICATION Spec
SYMMETRY MCSymmetry
INVARIANT ProgressIsBacked
PROPERTY ImplementsAuction
\* A mutation may always begin or end; a finished shipment is left alone.
CHECK_DEADLOCK FALSE
