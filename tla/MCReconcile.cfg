\* Two shipments, sweeps that take one of them or both, jobs of two attempts, and an update:
\* one that tells of a broadcast, or puts the shipment back.
CONSTANTS
  s1 = s1
  s2 = s2
  Shipments = {s1, s2}
  Rank <- MCRank
  BatchSizes = {1, 2}
  Attempts = 2
  MaxUpdates = 1
SPECIFICATION ReconcileFairSpec
INVARIANT BroadcastIsDue
PROPERTIES BroadcastOnce DueIsReached
\* All shipments may leave the queue for good.
CHECK_DEADLOCK FALSE
