SPECIFICATION MaintenanceSpec
CONSTANTS
  u1 = u1  u2 = u2  p1 = p1  w1 = w1  n1 = n1  m1 = m1
  Users = {u1, u2}
  Profiles = {p1}
  Workers = {w1}
  Sessions = {n1, m1}
  UserOf <- MCUserOf
  ProfileOf <- MCProfileOf
  KindOf <- MCKindOf
  WorkerOf <- MCWorkerOf
  RunModes = {"ON_DEMAND"}
  UserLimit <- AnyPerUser
  ProfileLimit <- AnyPerProfile
  WorkerLimit <- OnePerWorker
  NoLimit = NoLimit
  MaxGeneration = 1
  Revocable <- RevocableOfM1
  Switchable = {p1}
  Recoverable = {p1}
INVARIANTS ReservationAgrees MaintenanceOwnsProfile
PROPERTIES NoRevival ImplementsOwnership
CONSTRAINT Undecided
