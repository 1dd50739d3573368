SPECIFICATION FairSpec
CONSTANTS
  Delays    <- MCDelays
  Instants  <- MCInstants
  Truncated <- MCTruncated
  Threads = {t1}
  Free = free
  Never = 9
  MaxUid = 7
INVARIANTS
  TypeOK
  ExpiredIffGone
  NothingSkipped
PROPERTIES
  ArrivalsMovedAfterEveryEvent
  ImplementsEventSchedule
  StopEndsRun
  NothingStarves
