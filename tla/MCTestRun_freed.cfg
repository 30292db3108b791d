SPECIFICATION DriverSpec
CONSTANT
  MaxTraces = 3
  TraceDir = "traces/"
  DefaultTracefiles <- MCDefaultTracefiles
  CommandLines <- MCCommandLines
  CpuFiles <- MCCpuFiles
  ThroughputFiles <- MCThroughputFiles
  Measured = {1000}
  Measurements <- MCMeasurements
CHECK_DEADLOCK FALSE
INVARIANT FreesOnlyLive
