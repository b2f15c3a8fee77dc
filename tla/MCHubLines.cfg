SPECIFICATION Spec
CONSTANTS
  a = a
  b = b
  c = c
  p1 = p1
  p2 = p2
  r1 = r1
  r2 = r2
  r3 = r3
  w = w
  Participants = {a, b, c}
  Payments = {p1}
  Requests = {r1}
  TxOf <- MCTxOf
  ContentOf <- MCContentOf
  Contents = {"signed", "other"}
  Routings <- MCRoutings1
  Lines0 <- MCLines
  Limit0 <- MCLimit
  Debt0 <- MCDebt
  MaxFaults = 2
  EditableLines <- MCEditable
  NewLimits = {1, 2}
  Freezable = {b}
  Clearers = {}
  MaxDepth = 3
  Submitted = {}
  TTLCoversCommit = FALSE
INVARIANTS LimitsRespected
CHECK_DEADLOCK FALSE
