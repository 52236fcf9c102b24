\* In units of half a second.  The margin of 60 s and the ttl are scaled
\* down; they keep the order that EngineAssumption demands.
SPECIFICATION Spec
CONSTANTS
  Margin = 12
  MinWait = 1
  RetryTtl = 2
  Ttls = {10, 11}
  AccessLife = 14
  RefreshLife = 20
  MaxCall = 1
INVARIANTS TypeOK TokensLast SubscriptionHolds
PROPERTIES Recovers StopsWhenCancelled
CHECK_DEADLOCK FALSE
