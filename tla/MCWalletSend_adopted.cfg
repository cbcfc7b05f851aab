SPECIFICATION PlannedSpec
CONSTANTS
  c1 = c1
  c2 = c2
  s1 = s1
  s2 = s2
  t2 = t2
  f1 = f1
  g1 = g1
  r1 = r1
  r2 = r2
  Nobody = Nobody
  Plans <- Everything
  Clients = {c1, c2}
  Sends = {s1, t2}
  Bocs = {s1, t2}
  Signs = {}
  Resolvers = {r1, r2}
  Forced = {}
  Home <- MCHome
  Validity = 1
  Margin = 1
  Expirations = {}
  TimeLag = 0
  IndexLag = 1
  MaxTime = 0
  MaxSeqno = 1
  MaxDisruptions = 0
INVARIANT SnapshotIsTrue
CHECK_DEADLOCK FALSE
