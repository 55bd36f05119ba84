SPECIFICATION InterfaceFairSpec
CONSTANTS
  a = a
  b = b
  OutCommand <- const_out
  InCommand <- const_in
  Request <- const_requests
  NoRequest = NoRequest
INVARIANTS
  OvertakenOnce
  DeliveredIntact
  StagesHoldWholeMessages
PROPERTIES
  EveryRequestIsSent
  EveryPacketArrives
