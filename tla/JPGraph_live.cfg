CONSTANTS
  a = a  b = b  a1 = a1  a2 = a2  b1 = b1  b2 = b2
  Address = {a, b}
  Hash = {a1, a2, b1, b2}
  Coinbase = a
  ZeroAddr = ZeroAddr
  ZeroHash = ZeroHash
  SelfSig <- MCSelfSig
  OtherPartH <- MCOtherPartH
  Start <- LiveStart
  Copy <- LiveCopy
  Boot = Boot
  Nil = Nil
  Worker = {w1, w2}
  GivenType <- LiveType
  MaxChanItem = 1
  MaxRound <- LiveRound
SPECIFICATION FairSpec
PROPERTY AddEventReturns
