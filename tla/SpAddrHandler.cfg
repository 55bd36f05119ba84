SPECIFICATION FairSpec
CONSTANTS
  Addr = {a, b}
  CsrValue = {{}, {1, 6}, {1, 2}}
  StoredPin = {1, 2, 6}
  PinLevels = {{}, {2, 6}}
  None = None
INVARIANTS
  FlushesPrecedeAccesses
  PinsReadBack
PROPERTIES
  FlushesHappen
  BusTransfersComplete
  ImplementsEmulatedMmio
