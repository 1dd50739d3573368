SPECIFICATION Spec
CONSTANTS
  filter = filter
  sink = sink
  source = source
  Filters = {filter}
  Sinks = {sink}
  Sources = {source}
  Destination <- MCDestination
  Messages = {m1, m2, m3}
  Jitters <- MCJitters
  TagModulus = 3
  Faults = {"loss", "duplicate", "stop", "misconfigured"}
  Horizon = 2
SYMMETRY MessageSymmetry
INVARIANT
  TypeOK
  DeliversWhatWasSent
  AtMostOnce
  StoredUntilRead
  NeverLeavesEarly
  CrashesOnlyUnopened
