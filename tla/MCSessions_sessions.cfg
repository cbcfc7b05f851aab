SPECIFICATION Spec
CONSTANTS
  w1 = w1
  w2 = w2
  a = a
  b = b
  c1 = c1
  c2 = c2
  Clients = {c1, c2}
  MaxRequests = 2
  Inputs <- HttpInputs
  Replies <- HttpReplies
  MAX_REQUEST_BODY_BYTES = 2
  MAX_REQUEST_TIMEOUT_MS = 2
  MAX_RESPONSE_HEADERS = 2
  MAX_RESPONSE_HEADER_BYTES = 2
  MAX_RESPONSE_BODY_BYTES = 3
  HasKey = TRUE
  Wallets = {w1, w2}
  Contents = {a, b}
  MaxFaults = 2
  MaxRestarts = 1
  MaxVersion = 2
SYMMETRY Symmetry
INVARIANT RequestsAreSound
INVARIANT TuiIsSafe
INVARIANT BrowserAnswersOnce
INVARIANT StreamIsExact
INVARIANT ReplaysAreHarmless
PROPERTY JournalIsDurable
 
CHECK_DEADLOCK FALSE
