CONSTANTS
  p1 = p1
  p2 = p2
  c1 = c1
  c2 = c2
  c3 = c3
  k1 = k1
  Producers <- MCProducers
  Consumers <- MCConsumers
  Clearers <- MCClearers
  MaxSize = 2
  MaxEnqueues = 5
  NoThread = NoThread
SPECIFICATION FairSpec
INVARIANTS PopsAnElement NoLostWakeup
PROPERTIES SleepersAreServed WindowSpec
\* The queue may rest: every element taken, every reader asleep.
CHECK_DEADLOCK FALSE
