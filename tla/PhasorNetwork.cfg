SPECIFICATION FairSpec
CONSTANTS
  Name <- MCName
  Pieces <- MCPieces
  padded_size = 9
  PMU_names <- MCPMUNames
  PDCs = {"PDC1", "PDC2"}
  SPDC = "SPDC"
  Target <- MCTarget
  nb_aggregates <- MCNbAggregates
  timer <- MCTimer
  sampling_period = 2
  start_time = 1
  stop_time = 5
  cleanup_time = 8
  Jitter = 0
  Stof <- MCStof
  Quickest = 1
  Punctual = 1
  MaxDelay = 2
  MaxSlow = 1
INVARIANTS
  TypeOK
  ControlSeesMeasurements
  StopLosesOnlyLate
PROPERTIES
  ImplementsConcentrators
  EveryInstantControlled
