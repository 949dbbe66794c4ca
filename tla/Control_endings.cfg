SPECIFICATION EndingsSpec
CONSTANTS
  u1 = u1  u2 = u2  p1 = p1  p2 = p2  w1 = w1
  n1 = n1  m1 = m1  q1 = q1  q2 = q2  q3 = q3
  Users = {u2}
  Profiles = {p1}
  Workers = {w1}
  Sessions = {m1}
  Offers = {{m1}}
  UserOf <- MCUserOf
  ProfileOf <- MCProfileOf
  KindOf <- MCKindOf
  WorkerOf <- MCWorkerOf
  RunModes = {"ON_DEMAND"}
  UserLimit <- OnePerUser
  ProfileLimit <- OnePerProfile
  WorkerLimit <- AnyPerWorker
  NoLimit = NoLimit
  MaxGeneration = 1
  Revocable = {}
  Switchable = {}
  Recoverable = {}
  MaxDrops = 1
INVARIANTS FailedIsReleasedLast
PROPERTIES PendingEnds TabsSettle MaintenanceIsReleased ImplementsReservations
