CONSTANTS
  Clients = {c1}
  Capacity = 1
  MaxRequests = 4
SPECIFICATION FairSpec
INVARIANTS
  TypeOK
  OrderInv
  WaitingCallerIsKnown
PROPERTIES
  HandledInOrder
  WaitingForEachOtherIsForEver
  RequestsHandledOrStuck
  TasksFollowTheStack
  StackFollowsItsPeers
CHECK_DEADLOCK FALSE
