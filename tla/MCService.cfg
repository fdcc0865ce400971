CONSTANTS
  Names = {"a", "b", "x", "y"}
  Param = Param
  Methods = {"Get", "Put"}
  OtherMethods = {"Fetch"}
  Patterns <- SomePatterns
  SegmentLists <- SomeSegmentLists
  MaxRoutes = 2
  Empty = Empty
  NotUtf8 = NotUtf8
  KnownFormats = {0, 60}
  None = None
  Peer = p1
  Paths <- SomePaths
  Queries = {"k=v", "k=w"}
  Formats = {60}
  Bodies = {"d"}
  Statuses = {"Content"}
  ForeignPackets <- SomeForeignPackets
  MaxCalls = 2
SPECIFICATION ServiceSpec
INVARIANTS
  RouterTypeOK
  TrieInv
  LookupInv
  ParamsAsRegistered
  HandlerSeesRequest
  CallerSeesResponse
  HandlerMatchesRequest
PROPERTIES
  AnswersAsTable
