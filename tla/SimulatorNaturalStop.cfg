SPECIFICATION FairSpec
CONSTANTS
  Delays    <- MCDelays
  Instants  <- MCInstants
  Truncated <- MCTruncated
  Threads = {t1}
  Free = free
  Never = 5
  MaxUid = 6
PROPERTIES
  StopsForLackOfEvents
