SPECIFICATION FairSpec
PROPERTY CallsReturn
PROPERTY StagedIsHeard
PROPERTY AllAccepted
PROPERTY ResponseIsHeard
PROPERTY CommentsAreRead
CHECK_DEADLOCK FALSE
