\* A card and a checkout request, two handlers for webhooks and confirms, and
\* charges that collect the right amount or another.
CONSTANTS
  card = card
  hosted = hosted
  h1 = h1
  h2 = h2
  CardIntents = {card}
  HostedIntents = {hosted}
  Handlers = {h1, h2}
  FAmount <- MCAmount
  Collectable = {1, 2}
  OpeningBalance = 0
SPECIFICATION FundingFairSpec
INVARIANTS CreditIsCollected IntentIsBacked AcknowledgedIsCredited
PROPERTY PaidCheckoutIsCredited
\* Every request ends and Paystack has nothing more to say.
CHECK_DEADLOCK FALSE
