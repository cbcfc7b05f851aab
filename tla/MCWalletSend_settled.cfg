SPECIFICATION PlannedFairSpec
CONSTANTS
  c1 = c1
  c2 = c2
  s1 = s1
  s2 = s2
  t2 = t2
  f1 = f1
  g1 = g1
  r1 = r1
  r2 = r2
  Nobody = Nobody
  Plans <- SentOrHandedOff
  Clients = {c1}
  Sends = {s1}
  Bocs = {}
  Signs = {g1}
  Resolvers = {r1}
  Forced = {}
  Home <- MCHome
  Validity = 1
  Margin = 1
  Expirations = {}
  TimeLag = 0
  IndexLag = 1
  MaxTime = 3
  MaxSeqno = 1
  MaxDisruptions = 1
PROPERTY SendsEnd
CHECK_DEADLOCK FALSE
