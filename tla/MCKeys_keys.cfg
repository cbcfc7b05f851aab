SPECIFICATION Spec
CONSTANTS
  r1 = r1
  r2 = r2
  s1 = s1
  s2 = s2
  Records = {r1, r2}
  BadRecord = "/"
  Networks = {"Mainnet"}
  Draws = {"a"}
  Phrases <- EnteredPhrases
  Slots = {s1, s2}
  MaxCreated = 2
  MaxIncidents = 1
SYMMETRY Symmetry
INVARIANT RecordsAreTrue
INVARIANT RotationIsSafe
INVARIANT CommentsReachReader
INVARIANT DerivedSessionsAgree
INVARIANT PreviewsHold
INVARIANT SignedIsSound
CHECK_DEADLOCK FALSE
