SPECIFICATION Spec
CONSTANTS
  WaferIds = {1, 2, 3}
  NoWafer = 0
  AlarmIds = {"ScanStall", "QueueOverflow", "FitQualityPoor"}
  Operators = {op}
  Hosts = {}
  Repertoire = {"Start", "Abort"}
  Lines = 2
  Points = 1
  SampleCapacity = 3
  JobCapacity = 8
  InboxCapacity = 256
  MaxRuns = 3
  Pipelined = TRUE
INVARIANT JoinIsShort
