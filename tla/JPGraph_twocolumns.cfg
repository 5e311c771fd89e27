CONSTANTS
  a = a  b = b  a1 = a1  a2 = a2  b1 = b1  b2 = b2
  Address = {a, b}
  Hash = {a1, a2, b1, b2}
  Coinbase = a
  ZeroAddr = ZeroAddr
  ZeroHash = ZeroHash
  SelfSig <- MCSelfSig
  OtherPartH <- MCOtherPartH
  Start <- BootStart
  Copy <- SafeCopy
  Boot = Boot
  Nil = Nil
  Worker = {w1, w2}
  GivenType <- SafeType
  MaxChanItem = 1
  MaxRound <- SafeRound
SPECIFICATION Spec
SYMMETRY Symmetry
CHECK_DEADLOCK FALSE
INVARIANT NodeFormsColumn
