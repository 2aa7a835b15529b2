CONSTANTS
  Outs = {o1, o2, o3, o4}
  Ins = {i1, i2, i3}
  NotReserved = free
  NotValid = dead
  AnyRelease = FALSE
SPECIFICATION Spec
INVARIANTS TypeOK OneOutputPerInput
PROPERTIES InvalidForever
