SPECIFICATION PlannedSpec
CONSTANTS
  c1 = c1
  c2 = c2
  s1 = s1
  s2 = s2
  t2 = t2
  f1 = f1
  g1 = g1
  r1 = r1
  r2 = r2
  Nobody = Nobody
  Plans <- RaceOrForce
  Clients = {c1, c2}
  Sends = {s1, f1}
  Bocs = {}
  Signs = {}
  Resolvers = {r2}
  Forced = {f1}
  Home <- MCHome
  Validity = 1
  Margin = 1
  Expirations = {1, 2}
  TimeLag = 1
  IndexLag = 1
  MaxTime = 3
  MaxSeqno = 2
  MaxDisruptions = 1
INVARIANT JournalIsTrue
INVARIANT RetriesSuffice
INVARIANT SendInv
PROPERTY EvidenceIsFinal
CHECK_DEADLOCK FALSE
