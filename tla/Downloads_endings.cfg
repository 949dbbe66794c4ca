SPECIFICATION EndingsSpec
CONSTANTS
  f1 = f1  f2 = f2  r1 = r1  r2 = r2
  Files = {f1}
  SizeOf <- OneByte
  Requests = {r1}
  TargetOf <- ReadsFirst
  MaxBytes = 1
  Retention = 2
  AfterSession = 1
  MaxFaults = 2
  NoRecord = NoRecord
PROPERTIES FilesEnd
CHECK_DEADLOCK FALSE
