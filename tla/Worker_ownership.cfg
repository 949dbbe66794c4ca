SPECIFICATION OwnershipSpec
CONSTANTS
  n1 = n1
  n2 = n2
  m1 = m1
  p1 = p1
  Sessions = {n1, m1}
  ProfileOf <- OneProfile
  KindOf <- Kinds
  Expires <- ExpiresAtTwo
  FirstLease <- LeasedToThree
  MaxTime = 3
  MaxViewer = 1
  MaxTickets = 1
  MaxCommands = 3
  MaxInstances = 2
  MaxFaults = 1
INVARIANTS WorkerTypeOK EntriesOwnTabs EndsAreFinal
PROPERTIES NothingComesBack ImplementsTabOwnership WantedIsKept DataIsNotReplaced
CHECK_DEADLOCK FALSE
