SPECIFICATION Spec
CONSTANTS
  WaferIds = {1, 2}
  NoWafer = 0
  AlarmIds = {"ScanStall", "QueueOverflow", "FitQualityPoor"}
  Operators = {op}
  Hosts = {host}
  Repertoire = {"Start", "Stop", "Abort", "ClearAlarm", "Offline", "OnlineLocal", "OnlineRemote"}
  Lines = 2
  Points = 1
  SampleCapacity = 3
  JobCapacity = 8
  InboxCapacity = 256
  MaxRuns = 2
  Pipelined = FALSE
INVARIANTS
  QuietBetweenRuns WaferGetsItsOwnLines AbortIsFinal NoOrphanedCaller
PROPERTIES
  StartSeesNoAlarm ImplementsLifecycle
