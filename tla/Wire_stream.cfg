CONSTANTS
  Writer = {1, 2}
  MsgType = {258}
  Size <- StreamSize
  MaxPayload = 2
  MaxMsg = 2
SPECIFICATION FairSpec
INVARIANT DeliveredIntact
PROPERTY AllDelivered
CHECK_DEADLOCK FALSE
