CONSTANTS
  A = A  B = B
  Srv = {A, B}
  Nil = Nil
  Peers <- SelfDial
  Conn = {c1, c2, c3, c4}
  MaxInbox = 2
  Traffic = {}
  Faulty = {}
  Stops = {}
  Crashes = {B}
SPECIFICATION Spec
CHECK_DEADLOCK FALSE
SYMMETRY Symmetry
INVARIANTS  PeersExact
PROPERTY TableSpec
