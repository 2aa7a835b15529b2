SPECIFICATION Spec
CONSTANTS
  DimX = 3
  DimY = 3
  DimZ = 3
  DownLevel = 3
  Setups <- PreSetups
  HotSets <- PreHeat
  Sources <- Senders
  PreRouting = TRUE
INVARIANT
  ErasesThrottled
