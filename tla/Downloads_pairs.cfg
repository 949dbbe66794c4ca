SPECIFICATION PairsSpec
CONSTANTS
  f1 = f1  f2 = f2  r1 = r1  r2 = r2
  Files = {f1, f2}
  SizeOf <- OneByte
  Requests = {r1, r2}
  TargetOf <- ReadsFirst
  MaxBytes = 2
  Retention = 2
  AfterSession = 1
  MaxFaults = 1
  NoRecord = NoRecord
INVARIANTS BytesAreCounted RecordsAgree
PROPERTIES PromisesAreKept
CHECK_DEADLOCK FALSE
