CONSTANTS
  Flit = {f1, f2}
  Depth = 3
  Capacity = 3
  Throttling = TRUE
  Resizing = TRUE
  MinBuf = 1
  MaxBuf = 2
SPECIFICATION Spec
INVARIANTS TypeOK CreditsConserved
PROPERTIES ImplementsFifo
