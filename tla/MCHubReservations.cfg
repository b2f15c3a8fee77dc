SPECIFICATION Spec
CONSTANTS
  a = a
  b = b
  c = c
  p1 = p1
  p2 = p2
  r1 = r1
  r2 = r2
  r3 = r3
  w = w
  Participants = {a, b, c}
  Payments = {p1, p2}
  Requests = {r1, r3}
  TxOf <- MCTxOf
  ContentOf <- MCContentOf
  Contents = {"signed", "other"}
  Routings <- MCRoutingsR
  Lines0 <- MCLines
  Limit0 <- MCLimit
  Debt0 <- MCDebt
  MaxFaults = 1
  EditableLines = {}
  NewLimits = {}
  Freezable = {}
  Clearers = {w}
  MaxDepth = 3
  Submitted <- MCSubmitted
  TTLCoversCommit = TRUE
INVARIANTS ReservationsCovered ClearedRowsAreGone NoMutualDebt
PROPERTIES KeepsPromise
CHECK_DEADLOCK FALSE
