CONSTANTS
  NPorts = 3
  FirstLocal = 2
  NVCs = 1
  Depth = 2
  PacketSize = 2
  Sources <- OneAndOne
  Sinks = {0, 1}
  ArchRC = TRUE
  ArchSA = TRUE
  Throttling = TRUE
  NotReserved = NOT_RESERVED
  NotValid = NOT_VALID
SPECIFICATION Spec
INVARIANTS TypeOK ReservationsMatch GrantsSound NoMisroute
PROPERTIES WormholeOrder
