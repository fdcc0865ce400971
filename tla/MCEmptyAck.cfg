CONSTANTS
  MID_MODULUS = 3
  TOKEN_MODULUS = 3
  MidStarts = {2}
  TokenStarts = {2}
  ACK_TIMEOUTS = {1}
  MAX_RETRANSMIT = 1
  EXCHANGE_LIFETIME = 2
  NON_LIFETIME = 2
  IDLE_SESSION_CLEANUP_INTERVAL = 1
  None = None
  Requests = {r1, r2}
  ConRequests = {r1}
  Payloads = {r1, r2, "a"}
  Peers = {p1}
  InboundPackets <- QuietPeerPackets
  MaxServerQueue = 1
SPECIFICATION FairSpec
PROPERTIES
  EveryExchangeEnds
CHECK_DEADLOCK FALSE
