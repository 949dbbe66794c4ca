SPECIFICATION LeaseSpec
CONSTANTS
  MaxGeneration = 2
  TicketLife = 1
  LeaseLife = 4
  RenewBefore = 2
  Grace = 0
  Outages = {TRUE, FALSE}
CHECK_DEADLOCK FALSE
 
PROPERTIES TabEndsWithoutBackend
