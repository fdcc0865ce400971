CONSTANTS
  MID_MODULUS = 4
  TOKEN_MODULUS = 4
  MidStarts = {3}
  TokenStarts = {3}
  ACK_TIMEOUTS = {1}
  MAX_RETRANSMIT = 1
  EXCHANGE_LIFETIME = 3
  NON_LIFETIME = 2
  IDLE_SESSION_CLEANUP_INTERVAL = 1
  None = None
  Requests = {r1, r2}
  ConRequests = {r1, r2}
  Payloads = {r1, r2}
  Client = cl
  Server = sv
  MaxQueue = 1
  MAX_LATENCY = 1
SPECIFICATION LawfulSpec
INVARIANTS
  ResponseIsToRequest
CHECK_DEADLOCK FALSE
