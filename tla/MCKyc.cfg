\* Two executions in flight; two verifications, of either type or of both, and one webhook or
\* poll.
CONSTANTS
  n1 = n1
  f1 = f1
  c1 = c1
  c2 = c2
  NoTxn = NoTxn
  Txns = {n1, f1}
  TypeOf <- MCTypeOf
  NamesOf <- MCNamesOf
  Calls = {c1, c2}
  MaxStarts = 2
  MaxReports = 1
SPECIFICATION FairSpec
INVARIANTS VerifiedIsVendors VerifiedTogether
PROPERTIES LookedAtIsCurrent ExpiredIsPurged
CHECK_DEADLOCK FALSE
