SPECIFICATION PlannedSpec
CONSTANTS
  c1 = c1
  c2 = c2
  s1 = s1
  s2 = s2
  t2 = t2
  f1 = f1
  g1 = g1
  r1 = r1
  r2 = r2
  Nobody = Nobody
  Plans <- WaitOrHurry
  Clients = {c1, c2}
  Sends = {s1, s2, t2}
  Bocs = {s2, t2}
  Signs = {g1}
  Resolvers = {r1}
  Forced = {}
  Home <- MCHome
  Validity = 1
  Margin = 1
  Expirations = {}
  TimeLag = 0
  IndexLag = 1
  MaxTime = 3
  MaxSeqno = 2
  MaxDisruptions = 1
INVARIANT SnapshotIsTrue
INVARIANT LiveMessageIsRecorded
PROPERTY ImplementsPaymentSlot
PROPERTY ReplacementIsSafe
CHECK_DEADLOCK FALSE
