SPECIFICATION LiveSpec
CONSTANTS
  Gw = 2
  Gl = 2
  Gh = 4
  Saturation = 1
  Apps <- ThreeApps
  HotSets <- Heat
INVARIANTS
  TypeOK
  AppsWhole
  NoOverbooking
PROPERTIES
  ColdPlacement
  CostFalls
  AllMapped
