SPECIFICATION DriverSpec
CONSTANT
  MaxTraces = 3
  TraceDir = "traces/"
  DefaultTracefiles <- MCDefaultTracefiles
  CommandLines <- MCCommandLines
  CpuFiles <- MCCpuFiles
  ThroughputFiles <- MCThroughputFiles
  Measured = {1000}
  Measurements <- MCMeasurements
CHECK_DEADLOCK FALSE
INVARIANTS TypeOK ValidMeansReplayed AllJudged GivenBack OnlyIllTimedAlarmsHarm ScoreEarned ReportMatchesScore
PROPERTY TimeoutEndsRun
