SPECIFICATION Spec
CONSTANTS
  Transfers = {t1, t2}
  Quotas = {1, 2}
  MaxScans = 2
  MaxRestarts = 1
  Unknown = Unknown
  WorkerScope = w
  Profiles = {p}
  LimitedFromStart = {p}
  MaxVersion = 2
  MaxLosses = 1
  Nothing = Nothing
INVARIANTS AccountsMatchDisk
PROPERTIES NoOvercommit PolicyNeverGoesBack QuotaArrives
CHECK_DEADLOCK FALSE
