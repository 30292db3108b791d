SPECIFICATION Spec
CONSTANTS
  Defaults <- MCDefaults
  Settings <- MCSettings
  EpsNum = 1
  EpsDen = 4
  Costs = {1, 3}
  Times = {0, 2, 4, 5}
CHECK_DEADLOCK FALSE
INVARIANTS BuffersOwned BestAreSmallest ResultJustified
PROPERTY MeasurementEnds
