CONSTANTS
  A = A  B = B
  Srv = {A, B}
  Nil = Nil
  Peers <- CrossDial
  Conn = {c1, c2}
  MaxInbox = 1
  Traffic = {"request"}
  Faulty = {c1}
  Stops = {A}
  Crashes = {}
SPECIFICATION FairSpec
CHECK_DEADLOCK FALSE
PROPERTIES  EndedPeerLeaves
