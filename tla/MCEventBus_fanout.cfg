\* Two subscribers at their own pace, with more events than a queue holds.
SPECIFICATION FairSpec
CONSTANTS
  Subscribers = {s1, s2}
  QueueSize = 2
  MaxEvents = 3
INVARIANTS InOrder NewestKept
PROPERTIES QueuedIsDelivered
