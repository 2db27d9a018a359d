\* A card charge and a withdrawal sharing the balance, and two handlers for their
\* webhooks; the amounts are powers of two, so that no two sets of rows have the same
\* sum.
CONSTANTS
  card = card
  w1 = w1
  h1 = h1
  h2 = h2
  CardIntents = {card}
  HostedIntents = {}
  FAmount <- MCFAmount
  Collectable = {4}
  Withdrawals = {w1}
  WAmount <- MCWAmount
  Handlers = {h1, h2}
  OpeningBalance = 1
SPECIFICATION WalletFairSpec
INVARIANTS PayoutIsDebited StatusIsBacked RefundIsJustified BalanceIsPosted
PROPERTIES ReversedIsFinal FailedTransferIsRefunded DebitIsSettled ImplementsLedger
\* Every request ends and Paystack has nothing more to say.
CHECK_DEADLOCK FALSE
