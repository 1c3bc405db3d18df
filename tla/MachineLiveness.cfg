SPECIFICATION FairSpec
CONSTANTS
  WaferIds = {1, 2}
  NoWafer = 0
  AlarmIds = {"ScanStall", "QueueOverflow", "FitQualityPoor"}
  Operators = {op}
  Hosts = {host}
  Repertoire = {"Start", "Abort", "ClearAlarm"}
  Lines = 2
  Points = 1
  SampleCapacity = 3
  JobCapacity = 8
  InboxCapacity = 256
  MaxRuns = 2
  Pipelined = FALSE
PROPERTIES RunEnds CompletedIsWritten CommandsAnswered ShutdownEnds
