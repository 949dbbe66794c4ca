SPECIFICATION EndingsSpec
CONSTANTS
  n1 = n1
  n2 = n2
  m1 = m1
  p1 = p1
  Sessions = {m1}
  ProfileOf <- OneProfile
  KindOf <- Kinds
  Expires <- ExpiresAtTwo
  FirstLease <- LeasedToThree
  MaxTime = 3
  MaxViewer = 2
  MaxTickets = 2
  MaxCommands = 2
  MaxInstances = 2
  MaxFaults = 1
PROPERTIES EndingsHappen UnwantedStops
CHECK_DEADLOCK FALSE
