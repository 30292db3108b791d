SPECIFICATION Spec
CONSTANTS
  ALIGNMENT = 4
  HeapLo = 4
  HeapHi = 23
  Addrs <- MCAddrs
  Sizes = {1, 4, 5}
INVARIANT AcceptedApart
