CONSTANTS
  Flit = {f1, f2}
  Depth = 3
  Capacity = 3
  Throttling = FALSE
  Resizing = FALSE
  MinBuf = 1
  MaxBuf = 2
SPECIFICATION FairSpec
INVARIANTS TypeOK CreditsConserved NoLoss
PROPERTIES ImplementsFifo CreditReturns
