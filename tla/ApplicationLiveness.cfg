SPECIFICATION FairSpec
CONSTANTS
  filter = filter
  sink = sink
  source = source
  Filters = {filter}
  Sinks = {sink}
  Sources = {source}
  Destination <- MCDestination
  Messages = {m1, m2}
  Jitters <- MCJitters
  TagModulus = 3
  Faults = {}
  Horizon = 3
PROPERTY
  EventuallyRead
