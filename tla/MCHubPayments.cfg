SPECIFICATION Spec
CONSTANTS
  a = a
  b = b
  c = c
  p1 = p1
  p2 = p2
  r1 = r1
  r2 = r2
  r3 = r3
  w = w
  Participants = {a, b, c}
  Payments = {p1, p2}
  Requests = {r1, r2, r3}
  TxOf <- MCTxOf
  ContentOf <- MCContentOf
  Contents = {"signed", "other"}
  Routings <- MCRoutings
  Lines0 <- MCLines
  Limit0 <- MCLimit
  Debt0 <- MCDebt
  MaxFaults = 1
  EditableLines = {}
  NewLimits = {}
  Freezable = {}
  Clearers = {}
  MaxDepth = 3
  Submitted = {}
  TTLCoversCommit = FALSE
SYMMETRY Retries
INVARIANTS TypeOK LocksMatchState OneOwner InflightMatchesState LedgerIsSumOfCommitted ReplyIsTruthful
PROPERTIES TerminalIsFinal
CHECK_DEADLOCK FALSE
