CONSTANTS
  Writer = {1, 2}
  MsgType = {1}
  Size <- WideSize
  MaxPayload = 0
  MaxMsg = 0
SPECIFICATION Spec
INVARIANT SizeOnWire
CHECK_DEADLOCK FALSE
