SPECIFICATION SPDCFairSpec
CONSTANTS
  c1 = c1
  c2 = c2
  c3 = c3
  a = a
  b = b
  c = c
  d = d
  e = e
  f = f
  Senders = {c1, c2, c3}
  PMU_names = {a, b, c, d, e, f}
  Frames <- MCFrames
  Stof <- MCStof
  Timestamps <- MCTimestamps
  timer = 1
  nb_aggregates = 3
  Jitters <- MCJitters
  Capacity = 3
  Horizon = 6
INVARIANTS
  SPDCTypeOK
  LoggedInTime
  CompleteSetReadAtOnce
PROPERTIES
  ImplementsConcentrator
  EveryTimestampRead
