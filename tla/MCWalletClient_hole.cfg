SPECIFICATION PlannedSpec
CONSTANTS
  a = a
  b = b
  d = d
  Calls <- MCCalls
  Op <- MCOp
  MaxTx = 4
  Visible <- MCVisible
  PageSize = 2
  Nfts = {a, b, d}
  NftPageSize = 1
  MaxNftChanges = 2
  MaxFaults = 1
SYMMETRY Symmetry
INVARIANT EndIsComplete
CHECK_DEADLOCK FALSE
