SPECIFICATION LiveSpec
CONSTANTS
  DimX = 3
  DimY = 2
  DimZ = 2
  DownLevel = 3
  Packets <- FourPackets
  Scenarios <- AllScenarios
INVARIANTS
  TypeOK
  NoCyclicWait
  Loopless
PROPERTIES
  Delivered
