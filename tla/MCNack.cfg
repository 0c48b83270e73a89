CONSTANTS
  Modulus = 6
  Window = 2
  MaxIndex = 9
  MaxControl = 4
  CachePackets = 1
  MaxSent = 5
SPECIFICATION SrtpSpec
INVARIANTS NacksAreServed
CHECK_DEADLOCK FALSE
