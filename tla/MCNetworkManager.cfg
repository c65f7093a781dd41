CONSTANTS
  NIfaces = 2
  Buffers <- MCBuffers
  BufIface <- MCBufIface
  Kinds <- MCKinds
  ArpRequest = "arp_req"
  NoBuf = NoBuf
  MaxArrivals = 4
SPECIFICATION FairSpec
INVARIANT TypeOK
INVARIANT PacketNotOverwritten
INVARIANT BufferAccounting
PROPERTY EveryPacketHandled
CHECK_DEADLOCK FALSE
