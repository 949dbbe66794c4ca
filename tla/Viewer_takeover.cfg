SPECIFICATION Spec
CONSTANTS
  MaxGeneration = 2
  TicketLife = 1
  LeaseLife = 2
  RenewBefore = 1
  Grace = 0
  Outages = {TRUE}
CHECK_DEADLOCK FALSE
INVARIANTS OnlyNewestTicketCounts StaleViewersAreGone LeaseIsCommitted
PROPERTIES ExpiredStaysExpired LaunchesAreCurrent
CONSTRAINT Unsettled
