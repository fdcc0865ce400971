CONSTANTS
  MID_MODULUS = 4
  TOKEN_MODULUS = 2
  MidStarts = {3}
  TokenStarts = {1}
  ACK_TIMEOUTS = {1}
  MAX_RETRANSMIT = 1
  EXCHANGE_LIFETIME = 2
  NON_LIFETIME = 2
  IDLE_SESSION_CLEANUP_INTERVAL = 1
  None = None
  Requests = {r1}
  ConRequests = {}
  Payloads = {r1, "a", "b"}
  Peers = {p1}
  InboundPackets <- ClientPeerPackets
  MaxServerQueue = 1
SPECIFICATION Spec
INVARIANTS
  CachedResponseAnswersRequest
  SeenInv
PROPERTIES
  AtMostOnceDispatch
  ResponseAnswersRequest
CHECK_DEADLOCK FALSE
