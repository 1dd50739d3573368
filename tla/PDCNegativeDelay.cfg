SPECIFICATION Spec
CONSTANTS
  Senders = {p1, p2, p3}
  Timestamps = {ts1}
  timer = 2
  nb_aggregates = 3
  Jitters <- MCJitters
  Capacity = 3
  Horizon = 7
SYMMETRY SenderSymmetry
INVARIANT
  NeverScheduledInThePast
