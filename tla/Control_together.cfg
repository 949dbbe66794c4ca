SPECIFICATION TogetherSpec
CONSTANTS
  u1 = u1  u2 = u2  p1 = p1  p2 = p2  w1 = w1
  n1 = n1  m1 = m1  q1 = q1  q2 = q2  q3 = q3
  Users = {u1, u2}
  Profiles = {p1, p2}
  Workers = {w1}
  Sessions = {n1, m1, q1, q2, q3}
  Offers = {{q1, q2, q3}, {n1, m1}, {n1}}
  UserOf <- MCUserOf
  ProfileOf <- MCProfileOf
  KindOf <- MCKindOf
  WorkerOf <- MCWorkerOf
  RunModes = {"ON_DEMAND", "ALWAYS_ON"}
  UserLimit <- OnePerUser
  ProfileLimit <- OnePerProfile
  WorkerLimit <- AnyPerWorker
  NoLimit = NoLimit
  MaxGeneration = 2
  Revocable <- GrantsOfN1
  Switchable = {p1}
  Recoverable = {p1}
  MaxDrops = 0
INVARIANTS CreationIsKept OpenIsAllowed NormalQuotas ReportsAreKept
