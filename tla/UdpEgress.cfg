SPECIFICATION FairSpec
CONSTANTS
  Datagram = {d1, d2, d3}
  Limit = 3
  SendFails = TRUE
INVARIANTS OneSend
PROPERTIES BufferHeld AcceptedIsSent
