CONSTANTS
  MID_MODULUS = 2
  TOKEN_MODULUS = 4
  MidStarts = {1}
  TokenStarts = {1}
  ACK_TIMEOUTS = {1}
  MAX_RETRANSMIT = 1
  EXCHANGE_LIFETIME = 3
  NON_LIFETIME = 3
  IDLE_SESSION_CLEANUP_INTERVAL = 2
  None = None
  Requests = {r1, r2, r3}
  ConRequests = {r1, r2}
  Payloads = {r1, r2, r3}
  Peers = {p1}
  InboundPackets <- ConAnswers
  MaxServerQueue = 0
SPECIFICATION Spec
INVARIANTS
  ConAlwaysFoundByMid
SYMMETRY RequestSymmetry
CHECK_DEADLOCK FALSE
