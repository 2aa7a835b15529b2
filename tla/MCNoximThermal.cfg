SPECIFICATION LiveSpec
CONSTANTS
  DimX = 3
  DimY = 3
  DimZ = 3
  DownLevel = 3
  Setups <- AllSetups
  HotSets <- Heat
  Sources <- Senders
  PreRouting = FALSE
INVARIANTS
  TypeOK
  ThrottledPrefix
  LayerFree
  RouteExists
PROPERTIES
  Delivered
