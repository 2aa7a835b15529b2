CONSTANTS
  NPorts = 3
  FirstLocal = 2
  NVCs = 2
  Depth = 1
  PacketSize = 3
  Sources <- TwoAndOne
  Sinks = {1}
  ArchRC = TRUE
  ArchSA = TRUE
  Throttling = FALSE
  NotReserved = NOT_RESERVED
  NotValid = NOT_VALID
SPECIFICATION Spec
INVARIANTS TypeOK ReservationsMatch GrantsSound
PROPERTIES WormholeOrder
