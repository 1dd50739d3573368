SPECIFICATION FairSpec
CONSTANTS
  m_startTime = 1
  sampling_period = 3
  stop_time = 11
  AppStops <- MCAppStops
  Jitters <- MCJitters
  Resolution = 2
  TiesDown <- MCTiesDown
  Horizon = 15
INVARIANT
  TypeOK
  SampledOnSchedule
  PastFree
  NoSendOnNullSocket
  StampsDiffer
PROPERTIES
  EverySampleLeaves
