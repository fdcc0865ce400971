CONSTANTS
  Clients = {c1}
  Capacity = 1
  MaxRequests = 4
SPECIFICATION FairSpec
PROPERTY EveryRequestIsHandled
CHECK_DEADLOCK FALSE
