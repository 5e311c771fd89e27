---------------------------- MODULE ServerProofs ----------------------------
(***************************************************************************)
(* Proofs about the peer management of module Server, for any number of    *)
(* servers and connections, with crashes, resets and Stop.                 *)
(***************************************************************************)
EXTENDS Server, TLAPS

\* A connection exists or not for both of its ends.
OwnerKnown == \A x \in End : pc[x] = "none" <=> owner[x[1]] = Nil

\* A connection past the handshake joins two different servers.
PastHello == {"find", "offer"} \cup Serving
NotSelf == \A x \in End : pc[x] \in PastHello => Mine(x) # Theirs(x)

Inv == TypeOK /\ OwnerKnown /\ NotSelf /\ PeersExact

Msg == {"hello", "event", "request", "ping", "pong"}

----------------------------------------------------------------------------
\* The other end of an end is an end of the same connection, and another one.
LEMMA OtherEnd == \A x \in End : Other(x) \in End /\ Other(x)[1] = x[1] /\ Other(x) # x /\ x[1] \in Conn /\ x[2] \in Side
  BY DEF End, Other, Side

\* Closing ends keeps the types of the socket variables.
LEMMA CloseType ==
  ASSUME NEW X \in SUBSET End, NEW box \in [End -> Seq(Msg)], TypeOK, CloseWith(X, box)
  PROVE  closed' \in [End -> BOOLEAN] /\ broken' \in [Conn -> BOOLEAN] /\ inbox' \in [End -> Seq(Msg)]
<1>1. closed' \in [End -> BOOLEAN]
  BY Zenon DEF CloseWith, TypeOK
<1>2. broken' \in [Conn -> BOOLEAN]
  BY Zenon DEF CloseWith, TypeOK
<1>3. inbox' \in [End -> Seq(Msg)]
  BY DEF CloseWith
<1> QED BY <1>1, <1>2, <1>3

\* Writing a message, and reading one, keep the type of inbox.
LEMMA WrittenType ==
  ASSUME NEW x \in End, NEW m \in Msg, TypeOK
  PROVE  Written(x, m) \in [End -> Seq(Msg)]
  BY OtherEnd DEF Written, TypeOK, Msg

\* What is left of inbox after a read has its type, and so has the message read.
LEMMA RestType ==
  ASSUME NEW x \in End, TypeOK, CanRead(x)
  PROVE  Rest(x) \in [End -> Seq(Msg)] /\ Head(inbox[x]) \in Msg
  BY DEF Rest, CanRead, TypeOK, Msg

\* The type invariant holds in the first state.
LEMMA InitType == Init => TypeOK
  BY ServerAssumption DEF Init, TypeOK, Serving

\* Every step keeps the type invariant.
LEMMA StepType == TypeOK /\ [Next]_vars => TypeOK'
<1> SUFFICES ASSUME TypeOK, [Next]_vars PROVE TypeOK'
  OBVIOUS
<1> USE ServerAssumption, OtherEnd DEF Serving, net, servers
<1>1. ASSUME NEW s \in Srv, Start(s) PROVE TypeOK'
  BY <1>1 DEF Start, TypeOK
<1>2. ASSUME NEW s \in Srv, DialStatic(s) PROVE TypeOK'
  <2>1. todo' \in [Srv -> Seq(Srv)] /\ Head(todo[s]) \in Srv
    BY <1>2 DEF DialStatic, TypeOK
  <2>2. CASE UNCHANGED <<owner, pc, inbox>>
    BY <1>2, <2>1, <2>2, SMTT(30) DEF DialStatic, TypeOK
  <2>3. CASE Listening(Head(todo[s]))
    <3> DEFINE t == Head(todo[s])
    <3>1. PICK c \in Conn :
              /\ owner' = [owner EXCEPT ![c] = [side \in Side |-> IF side = "dial" THEN s ELSE t]]
              /\ pc' = [pc EXCEPT ![<<c, "dial">>] = "hello", ![<<c, "accept">>] = "backlog"]
              /\ inbox' = [inbox EXCEPT ![<<c, "accept">>] = <<"hello">>]
      BY <1>2, <2>3, Zenon DEF DialStatic
    <3>2. [side \in Side |-> IF side = "dial" THEN s ELSE t] \in [Side -> Srv]
      BY <2>1
    <3>3. owner' \in [Conn -> [Side -> Srv] \cup {Nil}]
      BY <3>1, <3>2 DEF TypeOK
    <3>4. pc' \in [End -> {"none", "backlog", "hello", "find", "offer", "leak", "gone"} \cup Serving]
      BY <3>1, Zenon DEF TypeOK
    <3>5. <<"hello">> \in Seq(Msg)
      BY DEF Msg
    <3>6. inbox' \in [End -> Seq(Msg)]
      BY <3>1, <3>5, Zenon DEF TypeOK, Msg
    <3> QED BY <1>2, <2>1, <3>3, <3>4, <3>6 DEF DialStatic, TypeOK, Msg
  <2> QED BY <1>2, <2>2, <2>3 DEF DialStatic
<1>3. ASSUME NEW s \in Srv, Stop(s) PROVE TypeOK'
  <2> DEFINE X == {x \in Ends(s) : pc[x] = "backlog"}
  <2>1. X \in SUBSET End /\ CloseWith(X, inbox) /\ inbox \in [End -> Seq(Msg)]
    BY <1>3 DEF Stop, Ends, TypeOK, Msg
  <2>2. closed' \in [End -> BOOLEAN] /\ broken' \in [Conn -> BOOLEAN] /\ inbox' \in [End -> Seq(Msg)]
    BY <2>1, CloseType, Zenon
  <2> QED BY <1>3, <2>2 DEF Stop, TypeOK, Msg
<1>4. ASSUME NEW s \in Srv, LoopEnds(s) PROVE TypeOK'
  BY <1>4 DEF LoopEnds, TypeOK
<1>5. ASSUME NEW s \in Srv, StopReturns(s) PROVE TypeOK'
  BY <1>5 DEF StopReturns, TypeOK
<1>6. ASSUME NEW s \in Srv, Crash(s) PROVE TypeOK'
  <2>1. Ends(s) \in SUBSET End /\ CloseWith(Ends(s), inbox) /\ inbox \in [End -> Seq(Msg)]
    BY <1>6 DEF Crash, Ends, TypeOK, Msg
  <2>2. closed' \in [End -> BOOLEAN] /\ broken' \in [Conn -> BOOLEAN] /\ inbox' \in [End -> Seq(Msg)]
    BY <2>1, CloseType, Zenon
  <2> QED BY <1>6, <2>2 DEF Crash, TypeOK, Msg
<1>7. ASSUME NEW x \in End, Accept(x) PROVE TypeOK'
  <2>1. Written(x, "hello") \in [End -> Seq(Msg)]
    BY WrittenType DEF Msg
  <2> QED BY <1>7, <2>1 DEF Accept, StartHandshake, TypeOK, Msg
<1>8. ASSUME NEW x \in End, ReadHello(x) PROVE TypeOK'
  <2>1. Rest(x) \in [End -> Seq(Msg)]
    BY <1>8, RestType DEF ReadHello
  <2>2. CASE CloseWith({x}, Rest(x)) /\ pc' = [pc EXCEPT ![x] = "gone"]
    <3>1. closed' \in [End -> BOOLEAN] /\ broken' \in [Conn -> BOOLEAN] /\ inbox' \in [End -> Seq(Msg)]
      BY <2>1, <2>2, CloseType, Zenon
    <3> QED BY <1>8, <2>2, <3>1, Zenon DEF ReadHello, TypeOK, Msg
  <2>3. CASE inbox' = Rest(x) /\ pc' = [pc EXCEPT ![x] = "find"] /\ UNCHANGED <<closed, broken>>
    BY <1>8, <2>1, <2>3 DEF ReadHello, TypeOK, Msg
  <2> QED BY <1>8, <2>2, <2>3 DEF ReadHello
<1>9. ASSUME NEW x \in End, pc' \in [End -> {"none", "backlog", "hello", "find", "offer", "leak", "gone"} \cup Serving],
             Close(x), UNCHANGED <<owner, peers, servers>>
      PROVE TypeOK'
  <2>1. inbox \in [End -> Seq(Msg)] /\ CloseWith({x}, inbox)
    BY <1>9 DEF Close, TypeOK, Msg
  <2>2. closed' \in [End -> BOOLEAN] /\ broken' \in [Conn -> BOOLEAN] /\ inbox' \in [End -> Seq(Msg)]
    BY <2>1, CloseType, Zenon
  <2> QED BY <1>9, <2>2 DEF TypeOK, Msg
<1>10. ASSUME NEW x \in End, HelloError(x) PROVE TypeOK'
  BY <1>9, <1>10 DEF HelloError, Reject, TypeOK
<1>11. ASSUME NEW x \in End, FindPeer(x) PROVE TypeOK'
  <2>1. CASE Reject(x)
    BY <1>9, <1>11, <2>1, SMTT(30) DEF FindPeer, Reject, TypeOK
  <2>2. CASE pc' = [pc EXCEPT ![x] = "offer"] /\ UNCHANGED <<closed, broken, inbox>>
    BY <1>11, <2>2 DEF FindPeer, TypeOK
  <2> QED BY <1>11, <2>1, <2>2, SMTT(30) DEF FindPeer
<1>12. ASSUME NEW x \in End, AddPeerConn(x) PROVE TypeOK'
  <2>1. CASE IsFree(Mine(x), Theirs(x))
    <3>1. peers' = [peers EXCEPT ![Mine(x)][Theirs(x)] = x] /\ pc' = [pc EXCEPT ![x] = "peer"]
      BY <1>12, <2>1 DEF AddPeerConn
    <3>2. peers' \in [Srv -> [Srv -> End \cup {Nil}]]
      BY <3>1, Zenon DEF TypeOK
    <3> QED BY <1>12, <3>1, <3>2 DEF AddPeerConn, TypeOK
  <2>2. CASE ~IsFree(Mine(x), Theirs(x))
    BY <1>12, <2>2, Zenon DEF AddPeerConn, TypeOK
  <2> QED BY <2>1, <2>2, SMTT(30)
<1>13. ASSUME NEW x \in End, OfferQuit(x) PROVE TypeOK'
  BY <1>13 DEF OfferQuit, TypeOK
<1>14. ASSUME NEW x \in End, HandleMsg(x) PROVE TypeOK'
  <2>1. Rest(x) \in [End -> Seq(Msg)] /\ Head(inbox[x]) \in Msg
    BY <1>14, RestType DEF HandleMsg
  <2>2. Answer(Head(inbox[x])) \in Seq(Msg)
    <3>1. <<"pong">> \in Seq(Msg) /\ <<"event">> \in Seq(Msg) /\ <<>> \in Seq(Msg)
      BY DEF Msg
    <3> QED BY <3>1, <2>1 DEF Answer
  <2>3. inbox' \in [End -> Seq(Msg)]
    BY <1>14, <2>1, <2>2, SMTT(30) DEF HandleMsg
  <2> QED BY <1>14, <2>3, Zenon DEF HandleMsg, TypeOK, Msg
<1>15. ASSUME NEW x \in End, HandleError(x) PROVE TypeOK'
  <2>1. Rest(x) \in [End -> Seq(Msg)] /\ CloseWith({x}, Rest(x))
    BY <1>15, RestType DEF HandleError
  <2>2. closed' \in [End -> BOOLEAN] /\ broken' \in [Conn -> BOOLEAN] /\ inbox' \in [End -> Seq(Msg)]
    BY <2>1, CloseType, Zenon
  <2> QED BY <1>15, <2>2, Zenon DEF HandleError, TypeOK, Msg
<1>16. ASSUME NEW x \in End, ReadEOF(x) PROVE TypeOK'
  BY <1>16, SMTT(30) DEF ReadEOF, TypeOK
<1>17. ASSUME NEW x \in End, ReadError(x) PROVE TypeOK'
  BY <1>9, <1>17 DEF ReadError, TypeOK
<1>18. ASSUME NEW x \in End, DelPeer(x) PROVE TypeOK'
  BY <1>18, Zenon DEF DelPeer, TypeOK
<1>19. ASSUME NEW x \in End, NEW m \in Traffic, SendMsg(x, m) PROVE TypeOK'
  <2>1. Written(x, m) \in [End -> Seq(Msg)]
    BY WrittenType, Zenon DEF Msg
  <2> QED BY <1>19, <2>1, Zenon DEF SendMsg, TypeOK, Msg
<1>20. ASSUME NEW c \in Conn, Reset(c) PROVE TypeOK'
  BY <1>20 DEF Reset, TypeOK
<1>21. CASE UNCHANGED vars
  BY <1>21 DEF vars, TypeOK
<1> QED
  BY <1>1, <1>2, <1>3, <1>4, <1>5, <1>6, <1>7, <1>8, <1>10, <1>11, <1>12, <1>13, <1>14, <1>15, <1>16,
     <1>17, <1>18, <1>19, <1>20, <1>21 DEF Next, ConnStep

\* Every variable of the servers and of the connections keeps its type.
THEOREM TypeCorrect == Spec => []TypeOK
  BY InitType, StepType, PTL DEF Spec
----------------------------------------------------------------------------
(* The map peers is exact.                                                  *)

\* The parts of the invariant after a step that makes no connection.
LEMMA ExactFromParts ==
  ASSUME owner' = owner,
         \A s, t \in Srv : peers'[s][t] # Nil =>
             s # t /\ peers'[s][t] \in Ends(s) /\ Theirs(peers'[s][t]) = t /\ pc'[peers'[s][t]] \in Serving,
         \A y \in End : pc'[y] \in Serving => peers'[Mine(y)][Theirs(y)] = y
  PROVE  PeersExact'
<1>1. \A s, t \in Srv : peers'[s][t] # Nil =>
         s # t /\ peers'[s][t] \in Ends(s)' /\ (Theirs(peers[s][t]) = t)' /\ pc'[peers'[s][t]] \in Serving
  <2>1. \A s : Ends(s)' = Ends(s)
    BY DEF Ends, Mine
  <2>2. \A s, t : Theirs(peers[s][t])' = Theirs(peers'[s][t])
    BY DEF Theirs, Mine, Other
  <2>3. ASSUME NEW s \in Srv, NEW t \in Srv, peers'[s][t] # Nil
        PROVE  s # t /\ peers'[s][t] \in Ends(s)' /\ (Theirs(peers[s][t]) = t)' /\ pc'[peers'[s][t]] \in Serving
    <3>1. s # t /\ peers'[s][t] \in Ends(s) /\ Theirs(peers'[s][t]) = t /\ pc'[peers'[s][t]] \in Serving
      BY <2>3, Zenon
    <3>2. Ends(s)' = Ends(s) /\ Theirs(peers[s][t])' = Theirs(peers'[s][t])
      BY <2>1, <2>2, Zenon
    <3> QED BY <3>1, <3>2, SMTT(30)
  <2> QED BY <2>3, Zenon
<1>2. \A y \in End : pc'[y] \in Serving => peers'[Mine(y)'][Theirs(y)'] = y
  BY DEF Theirs, Mine
<1> QED BY <1>1, <1>2, Zenon DEF PeersExact

\* OwnerKnown and NotSelf after a step that makes no connection.
LEMMA PlacesFromParts ==
  ASSUME Inv, owner' = owner,
         \A y \in End : pc'[y] = "none" <=> pc[y] = "none",
         \A y \in End : pc'[y] \in PastHello => pc[y] \in PastHello
  PROVE  OwnerKnown' /\ NotSelf'
<1>1. OwnerKnown'
  BY DEF Inv, OwnerKnown
<1>2. NotSelf'
  BY DEF Inv, NotSelf, Mine, Theirs, Other
<1> QED BY <1>1, <1>2

\* A step that leaves peers, the connections and the locations alone.
LEMMA StillExact ==
  ASSUME Inv, TypeOK', UNCHANGED <<owner, pc, peers>>
  PROVE  Inv'
<1>1. owner' = owner /\ pc' = pc /\ peers' = peers
  OBVIOUS
<1>2. OwnerKnown' /\ NotSelf'
  BY <1>1, PlacesFromParts, Zenon
<1>3. PeersExact'
  <2>1. PeersExact
    BY DEF Inv
  <2>2. ASSUME NEW s \in Srv, NEW t \in Srv, peers'[s][t] # Nil
        PROVE  s # t /\ peers'[s][t] \in Ends(s) /\ Theirs(peers'[s][t]) = t /\ pc'[peers'[s][t]] \in Serving
    <3>1. s # t /\ peers[s][t] \in Ends(s) /\ Theirs(peers[s][t]) = t /\ pc[peers[s][t]] \in Serving
      BY <1>1, <2>1, <2>2, Zenon DEF PeersExact
    <3> QED BY <1>1, <3>1, Zenon
  <2>3. \A y \in End : pc'[y] \in Serving => peers'[Mine(y)][Theirs(y)] = y
    BY <1>1, <2>1, Zenon DEF PeersExact
  <2> QED BY <1>1, <2>2, <2>3, ExactFromParts, Zenon
<1> QED BY <1>2, <1>3, Zenon DEF Inv

\* A step that moves the goroutines of one end, which serve a peer afterwards if
\* and only if they did before.
LEMMA MoveExact ==
  ASSUME Inv, TypeOK', NEW x \in End, NEW q,
         pc' = [pc EXCEPT ![x] = q], UNCHANGED <<owner, peers>>,
         pc[x] # "none", q # "none",
         q \in Serving <=> pc[x] \in Serving,
         q \in PastHello => Mine(x) # Theirs(x)
  PROVE  Inv'
<1> USE DEF Inv, Mine, Theirs, Other
<1>1. \A y \in End : pc'[y] = IF y = x THEN q ELSE pc[y]
  BY DEF TypeOK
<1>2. OwnerKnown'
  BY <1>1 DEF OwnerKnown
<1>3. NotSelf'
  BY <1>1 DEF NotSelf
<1>4. \A y \in End : pc'[y] \in Serving <=> pc[y] \in Serving
  BY <1>1, SMTT(30)
<1>5. PeersExact'
  <2>1. \A s, t \in Srv : peers[s][t] # Nil =>
           s # t /\ peers[s][t] \in End /\ peers[s][t] \in Ends(s) /\ Theirs(peers[s][t]) = t
           /\ pc[peers[s][t]] \in Serving
    <3> HIDE DEF Mine, Theirs, Other
    <3>1. \A s, t \in Srv : peers[s][t] # Nil =>
             s # t /\ peers[s][t] \in Ends(s) /\ Theirs(peers[s][t]) = t /\ pc[peers[s][t]] \in Serving
      BY Zenon DEF PeersExact
    <3>2. \A s : Ends(s) \subseteq End
      BY DEF Ends
    <3> QED BY <3>1, <3>2, Zenon
  <2>2. \A y \in End : pc[y] \in Serving => peers[Mine(y)][Theirs(y)] = y
    BY Zenon DEF PeersExact
  <2>3. owner' = owner /\ peers' = peers
    OBVIOUS
  <2> HIDE DEF Inv, Mine, Theirs, Other
  <2>4. ASSUME NEW s \in Srv, NEW t \in Srv, peers'[s][t] # Nil
        PROVE  s # t /\ peers'[s][t] \in Ends(s) /\ Theirs(peers'[s][t]) = t /\ pc'[peers'[s][t]] \in Serving
    <3>1. /\ s # t /\ peers[s][t] \in End /\ peers[s][t] \in Ends(s) /\ Theirs(peers[s][t]) = t
          /\ pc[peers[s][t]] \in Serving /\ peers'[s][t] = peers[s][t]
      BY <2>1, <2>3, <2>4, SMTT(30)
    <3>2. pc'[peers[s][t]] \in Serving
      BY <1>4, <3>1, Zenon
    <3> QED BY <3>1, <3>2, SMTT(30)
  <2>5. \A y \in End : pc'[y] \in Serving => peers'[Mine(y)][Theirs(y)] = y
    BY <1>4, <2>2, <2>3, SMTT(30)
  <2> QED BY <2>3, <2>4, <2>5, ExactFromParts, Zenon
<1> QED BY <1>2, <1>3, <1>5

\* The ends of the servers are servers.
LEMMA OwnersAreServers ==
  ASSUME Inv, NEW x \in End, pc[x] # "none"
  PROVE  Mine(x) \in Srv /\ Theirs(x) \in Srv /\ owner[x[1]] # Nil
<1>1. x[1] \in Conn /\ x[2] \in Side /\ Other(x)[1] = x[1] /\ Other(x)[2] \in Side
  BY DEF End, Other, Side
<1>2. owner[x[1]] # Nil
  BY DEF Inv, OwnerKnown
<1>3. owner[x[1]] \in [Side -> Srv]
  BY <1>1, <1>2, SMTT(30) DEF Inv, TypeOK
<1> QED BY <1>1, <1>2, <1>3 DEF Mine, Theirs

\* What PeersExact says of one entry.
LEMMA Entry ==
  ASSUME Inv, NEW s \in Srv, NEW t \in Srv, peers[s][t] # Nil
  PROVE  /\ s # t
         /\ peers[s][t] \in End /\ owner[peers[s][t][1]] # Nil /\ Mine(peers[s][t]) = s /\ Theirs(peers[s][t]) = t
         /\ peers[s][t] \in Ends(s)
         /\ pc[peers[s][t]] \in Serving
  BY DEF Inv, PeersExact, Ends

\* Every step of the servers keeps the inductive invariant: one case per action.
LEMMA StepInv == Inv /\ [Next]_vars => Inv'
<1> SUFFICES ASSUME Inv, [Next]_vars PROVE Inv'
  OBVIOUS
<1> USE ServerAssumption, OtherEnd
<1>0. TypeOK /\ TypeOK'
  BY StepType DEF Inv
<1>1. ASSUME NEW s \in Srv, Start(s) \/ LoopEnds(s) \/ StopReturns(s) PROVE Inv'
  BY <1>0, <1>1, StillExact DEF Start, LoopEnds, StopReturns, net
<1>2. ASSUME NEW s \in Srv, DialStatic(s) PROVE Inv'
  <2>1. CASE UNCHANGED <<owner, pc, inbox>>
    BY <1>0, <1>2, <2>1, StillExact DEF DialStatic
  <2>2. CASE Listening(Head(todo[s]))
    <3> DEFINE t == Head(todo[s])
    <3>1. PICK c \in Conn :
              /\ owner[c] = Nil
              /\ owner' = [owner EXCEPT ![c] = [side \in Side |-> IF side = "dial" THEN s ELSE t]]
              /\ pc' = [pc EXCEPT ![<<c, "dial">>] = "hello", ![<<c, "accept">>] = "backlog"]
              /\ peers' = peers
      BY <1>2, <2>2, Zenon DEF DialStatic
    <3>2. \A y \in End : IF y[1] = c THEN pc[y] = "none" /\ pc'[y] \in {"hello", "backlog"}
                                     ELSE pc'[y] = pc[y] /\ owner'[y[1]] = owner[y[1]]
      <4> SUFFICES ASSUME NEW y \in End
                   PROVE IF y[1] = c THEN pc[y] = "none" /\ pc'[y] \in {"hello", "backlog"}
                                     ELSE pc'[y] = pc[y] /\ owner'[y[1]] = owner[y[1]]
        OBVIOUS
      <4>1. y = <<y[1], y[2]>> /\ y[2] \in {"dial", "accept"} /\ y[1] \in Conn
        BY DEF End, Side
      <4>2. CASE y[1] = c
        <5>1. y = <<c, "dial">> \/ y = <<c, "accept">>
          BY <4>1, <4>2
        <5>2. pc'[y] \in {"hello", "backlog"}
          BY <1>0, <3>1, <5>1, Zenon DEF TypeOK
        <5>3. pc[y] = "none"
          BY <3>1, <4>2, SMTT(30) DEF Inv, OwnerKnown
        <5> QED BY <4>2, <5>2, <5>3
      <4>3. CASE y[1] # c
        BY <1>0, <3>1, <4>1, <4>3 DEF TypeOK
      <4> QED BY <4>2, <4>3
    <3>3. owner'[c] # Nil
      <4>1. [side \in Side |-> IF side = "dial" THEN s ELSE t] \in [Side -> Srv]
        BY <1>0, <1>2, SMTT(30) DEF DialStatic, TypeOK
      <4> QED BY <1>0, <3>1, <4>1, Zenon DEF TypeOK
    <3>4. OwnerKnown'
      BY <3>2, <3>3, SMTT(30) DEF Inv, OwnerKnown
    <3>5. NotSelf'
      BY <3>2, SMTT(30) DEF Inv, NotSelf, PastHello, Serving, Mine, Theirs, Other
    <3>6. PeersExact'
      <4>1. \A y \in End : y[1] # c => Mine(y)' = Mine(y) /\ Theirs(y)' = Theirs(y)
        BY <3>2 DEF Mine, Theirs, Other
      <4>2. \A y \in End : pc'[y] \in Serving => pc[y] \in Serving /\ y[1] # c
        BY <3>2, Zenon DEF Serving
      <4>3. \A y \in End : pc[y] \in Serving => y[1] # c
        BY <3>2, SMTT(30) DEF Serving
      <4>4. ASSUME NEW a \in Srv, NEW b \in Srv, peers[a][b] # Nil
            PROVE  /\ a # b /\ peers[a][b] \in End /\ owner'[peers[a][b][1]] # Nil
                   /\ Mine(peers[a][b])' = a /\ Theirs(peers[a][b])' = b /\ pc'[peers[a][b]] \in Serving
        <5> DEFINE x == peers[a][b]
        <5>1. a # b /\ x \in End /\ owner[x[1]] # Nil /\ Mine(x) = a /\ Theirs(x) = b /\ pc[x] \in Serving
          BY <4>4, Entry
        <5>2. x[1] # c
          BY <4>3, <5>1, SMTT(30)
        <5>3. owner'[x[1]] = owner[x[1]] /\ pc'[x] = pc[x]
          BY <3>2, <5>1, <5>2
        <5> HIDE DEF x
        <5>4. Mine(x)' = owner'[x'[1]][x'[2]] /\ x' = x
          BY <3>1 DEF Mine, x
        <5>5. Theirs(x)' = owner'[Other(x')[1]][Other(x')[2]]
          BY DEF Mine, Theirs, Other
        <5>6. Mine(x)' = a /\ Theirs(x)' = b
          BY <5>1, <5>3, <5>4, <5>5, SMTT(30) DEF Mine, Theirs, Other
        <5> QED BY <5>1, <5>3, <5>6 DEF x
      <4>5. ASSUME NEW y \in End, pc'[y] \in Serving
            PROVE peers[Mine(y)'][Theirs(y)'] = y
        BY <4>1, <4>2, <4>5 DEF Inv, PeersExact
      <4>6. ASSUME NEW a \in Srv, NEW b \in Srv, peers'[a][b] # Nil
            PROVE  (a # b /\ peers[a][b] \in Ends(a) /\ Theirs(peers[a][b]) = b /\ pc[peers[a][b]] \in Serving)'
        <5>1. peers' = peers /\ peers[a][b] # Nil
          BY <3>1, <4>6, SMTT(30)
        <5>2. /\ a # b /\ peers[a][b] \in End /\ owner'[peers[a][b][1]] # Nil
              /\ Mine(peers[a][b])' = a /\ Theirs(peers[a][b])' = b /\ pc'[peers[a][b]] \in Serving
          BY <4>4, <5>1, SMTT(30)
        <5>3. (peers[a][b] \in Ends(a))'
          BY <5>1, <5>2 DEF Ends, Mine
        <5> QED BY <5>1, <5>2, <5>3
      <4>7. ASSUME NEW y \in End, pc'[y] \in Serving
            PROVE  (peers[Mine(y)][Theirs(y)] = y)'
        BY <3>1, <4>5, <4>7
      <4> QED BY <4>6, <4>7 DEF PeersExact
    <3> QED BY <1>0, <3>4, <3>5, <3>6 DEF Inv
  <2> QED BY <1>2, <2>1, <2>2 DEF DialStatic
<1>3. ASSUME NEW s \in Srv, Stop(s) PROVE Inv'
  <2>1. \A y \in End : pc'[y] = pc[y] \/ (pc[y] = "backlog" /\ pc'[y] = "gone")
    BY <1>3 DEF Stop
  <2>2. UNCHANGED <<owner, peers>>
    BY <1>3 DEF Stop
  <2>3. OwnerKnown' /\ NotSelf'
    BY <2>1, <2>2, PlacesFromParts, Zenon DEF PastHello, Serving
  <2>4. PeersExact'
    <3>1. \A a, b \in Srv : peers'[a][b] # Nil =>
             a # b /\ peers'[a][b] \in Ends(a) /\ Theirs(peers'[a][b]) = b /\ pc'[peers'[a][b]] \in Serving
      <4> SUFFICES ASSUME NEW a \in Srv, NEW b \in Srv, peers[a][b] # Nil
                   PROVE a # b /\ peers[a][b] \in Ends(a) /\ Theirs(peers[a][b]) = b /\ pc'[peers[a][b]] \in Serving
        BY <2>2
      <4>1. peers[a][b] \in End /\ pc[peers[a][b]] \in Serving
        BY Entry
      <4>2. pc'[peers[a][b]] = pc[peers[a][b]]
        BY <2>1, <4>1, Zenon DEF Serving
      <4> QED BY <4>1, <4>2, Entry
    <3>2. \A y \in End : pc'[y] \in Serving => peers'[Mine(y)][Theirs(y)] = y
      BY <2>1, <2>2 DEF Inv, PeersExact, Serving
    <3> QED BY <2>2, <3>1, <3>2, ExactFromParts, SMTT(30)
  <2> QED BY <1>0, <2>3, <2>4 DEF Inv
<1>4. ASSUME NEW s \in Srv, Crash(s) PROVE Inv'
  <2>1. \A y \in End : IF y \in Ends(s) THEN pc'[y] = "gone" ELSE pc'[y] = pc[y]
    BY <1>4 DEF Crash
  <2>2. owner' = owner /\ peers' = [peers EXCEPT ![s] = [t \in Srv |-> Nil]]
    BY <1>4 DEF Crash
  <2>3. OwnerKnown' /\ NotSelf'
    <3>1. \A y \in Ends(s) : y \in End /\ pc[y] # "none"
      BY DEF Ends, Inv, OwnerKnown
    <3> QED BY <2>1, <2>2, <3>1, PlacesFromParts, Zenon DEF PastHello, Serving
  <2>4. PeersExact'
    <3>1. \A a, b \in Srv : peers'[a][b] = IF a = s THEN Nil ELSE peers[a][b]
      BY <1>0, <2>2 DEF TypeOK
    <3>2. \A a, b \in Srv : peers'[a][b] # Nil =>
             a # b /\ peers'[a][b] \in Ends(a) /\ Theirs(peers'[a][b]) = b /\ pc'[peers'[a][b]] \in Serving
      <4> SUFFICES ASSUME NEW a \in Srv, NEW b \in Srv, peers'[a][b] # Nil
                   PROVE a # b /\ peers'[a][b] \in Ends(a) /\ Theirs(peers'[a][b]) = b /\ pc'[peers'[a][b]] \in Serving
        OBVIOUS
      <4>1. a # s /\ peers'[a][b] = peers[a][b]
        BY <3>1
      <4>2. peers[a][b] \in End /\ peers[a][b] \notin Ends(s)
        BY <4>1, Entry DEF Ends
      <4>3. pc'[peers[a][b]] = pc[peers[a][b]]
        BY <2>1, <4>2
      <4> QED BY <4>1, <4>3, Entry
    <3>3. \A y \in End : pc'[y] \in Serving => peers'[Mine(y)][Theirs(y)] = y
      <4> SUFFICES ASSUME NEW y \in End, pc'[y] \in Serving PROVE peers'[Mine(y)][Theirs(y)] = y
        OBVIOUS
      <4>1. pc[y] \in Serving /\ y \notin Ends(s)
        BY <2>1 DEF Serving
      <4>2. Mine(y) \in Srv /\ Theirs(y) \in Srv /\ owner[y[1]] # Nil
        BY <4>1, OwnersAreServers DEF Serving
      <4>3. Mine(y) # s
        BY <4>1, <4>2 DEF Ends
      <4>4. peers[Mine(y)][Theirs(y)] = y
        BY <4>1 DEF Inv, PeersExact
      <4> QED BY <4>2, <4>3, <4>4, <3>1
    <3> QED BY <2>2, <3>2, <3>3, ExactFromParts, Zenon
  <2> QED BY <1>0, <2>3, <2>4 DEF Inv
<1>5. ASSUME NEW x \in End, Accept(x) \/ ReadHello(x) \/ HelloError(x) \/ FindPeer(x) \/ OfferQuit(x) PROVE Inv'
  <2>1. UNCHANGED <<owner, peers>> /\ pc[x] \in {"backlog", "hello", "find", "offer"}
    BY <1>5 DEF Accept, ReadHello, HelloError, FindPeer, OfferQuit, net
  <2>2. PICK q \in {"hello", "find", "offer", "leak", "gone"} :
             pc' = [pc EXCEPT ![x] = q] /\ (q = "find" => Mine(x) # Theirs(x)) /\ (q = "offer" => pc[x] = "find")
    BY <1>5 DEF Accept, StartHandshake, ReadHello, HelloError, FindPeer, OfferQuit, Reject
  <2>3. pc[x] = "find" => Mine(x) # Theirs(x)
    BY DEF Inv, NotSelf, PastHello
  <2> QED BY <1>0, <2>1, <2>2, <2>3, MoveExact, Zenon DEF Serving, PastHello
<1>6. ASSUME NEW x \in End, AddPeerConn(x) PROVE Inv'
  <2>1. pc[x] = "offer" /\ owner' = owner /\ Mine(x) # Theirs(x)
    BY <1>6 DEF AddPeerConn, net, Inv, NotSelf, PastHello
  <2>2. CASE ~IsFree(Mine(x), Theirs(x))
    BY <1>0, <1>6, <2>1, <2>2, MoveExact, Zenon DEF AddPeerConn, Serving, PastHello
  <2>3. CASE IsFree(Mine(x), Theirs(x))
    <3>1. /\ peers' = [peers EXCEPT ![Mine(x)][Theirs(x)] = x]
          /\ \A y \in End : pc'[y] = IF y = x THEN "peer" ELSE pc[y]
      BY <1>0, <1>6, <2>3 DEF AddPeerConn, TypeOK
    <3>2. Mine(x) \in Srv /\ Theirs(x) \in Srv /\ owner[x[1]] # Nil
      BY <2>1, OwnersAreServers
    <3>3. \A s, t \in Srv : peers'[s][t] = IF s = Mine(x) /\ t = Theirs(x) THEN x ELSE peers[s][t]
      BY <1>0, <3>1, <3>2, ZenonT(60) DEF TypeOK
    <3>4. peers[Mine(x)][Theirs(x)] = Nil
      BY <2>3 DEF IsFree
    <3>5. OwnerKnown' /\ NotSelf'
      BY <2>1, <3>1, PlacesFromParts DEF PastHello, Serving
    <3>8. \A s, t \in Srv : peers'[s][t] # Nil =>
             s # t /\ peers'[s][t] \in Ends(s) /\ Theirs(peers'[s][t]) = t /\ pc'[peers'[s][t]] \in Serving
      <4> SUFFICES ASSUME NEW s \in Srv, NEW t \in Srv, peers'[s][t] # Nil
                   PROVE s # t /\ peers'[s][t] \in Ends(s) /\ Theirs(peers'[s][t]) = t /\ pc'[peers'[s][t]] \in Serving
        OBVIOUS
      <4>1. CASE s = Mine(x) /\ t = Theirs(x)
        BY <4>1, <2>1, <3>1, <3>2, <3>3 DEF Ends, Serving
      <4>2. CASE ~(s = Mine(x) /\ t = Theirs(x))
        BY <4>2, <3>1, <3>3 DEF Inv, PeersExact, Ends, Serving
      <4> QED BY <4>1, <4>2
    <3>9. \A y \in End : pc'[y] \in Serving => peers'[Mine(y)][Theirs(y)] = y
      <4> SUFFICES ASSUME NEW y \in End, pc'[y] \in Serving PROVE peers'[Mine(y)][Theirs(y)] = y
        OBVIOUS
      <4>1. CASE y = x
        BY <4>1, <3>2, <3>3
      <4>2. CASE y # x
        <5>1. pc[y] \in Serving /\ peers[Mine(y)][Theirs(y)] = y
          BY <4>2, <3>1 DEF Inv, PeersExact
        <5>2. y # Nil /\ pc[y] # "none"
          BY <5>1 DEF Serving
        <5>3. Mine(y) \in Srv /\ Theirs(y) \in Srv
          BY <5>2, OwnersAreServers
        <5> QED BY <5>1, <5>2, <5>3, <3>3, <3>4
      <4> QED BY <4>1, <4>2
    <3>10. PeersExact'
      BY <2>1, <3>8, <3>9, ExactFromParts
    <3> QED BY <1>0, <3>5, <3>10 DEF Inv
  <2> QED BY <2>2, <2>3
<1>7. ASSUME NEW x \in End, HandleError(x) \/ ReadEOF(x) \/ ReadError(x) PROVE Inv'
  <2>1. UNCHANGED <<owner, peers>> /\ pc[x] = "peer"
    BY <1>7 DEF HandleError, ReadEOF, ReadError, net
  <2>2. PICK q \in {"drop", "deaf"} : pc' = [pc EXCEPT ![x] = q]
    BY <1>7 DEF HandleError, ReadEOF, ReadError
  <2>3. Mine(x) # Theirs(x)
    BY <2>1, SMTT(30) DEF Inv, NotSelf, PastHello, Serving
  <2> QED BY <1>0, <2>1, <2>2, <2>3, MoveExact, Zenon DEF Serving
<1>8. ASSUME NEW x \in End, DelPeer(x) PROVE Inv'
  <2>1. /\ pc[x] = "drop" /\ owner' = owner
        /\ peers' = [peers EXCEPT ![Mine(x)][Theirs(x)] = Nil]
        /\ \A y \in End : pc'[y] = IF y = x THEN "gone" ELSE pc[y]
    BY <1>0, <1>8 DEF DelPeer, net, TypeOK
  <2>2. Mine(x) \in Srv /\ Theirs(x) \in Srv
    BY <2>1, OwnersAreServers
  <2>3. \A s, t \in Srv : peers'[s][t] = IF s = Mine(x) /\ t = Theirs(x) THEN Nil ELSE peers[s][t]
    BY <1>0, <2>1, <2>2, SMTT(30) DEF TypeOK
  <2>4. OwnerKnown' /\ NotSelf'
    BY <2>1, PlacesFromParts DEF PastHello, Serving
  <2>6. peers[Mine(x)][Theirs(x)] = x
    BY <2>1 DEF Inv, PeersExact, Serving
  <2>7. \A s, t \in Srv : peers'[s][t] # Nil =>
             s # t /\ peers'[s][t] \in Ends(s) /\ Theirs(peers'[s][t]) = t /\ pc'[peers'[s][t]] \in Serving
    <3> SUFFICES ASSUME NEW s \in Srv, NEW t \in Srv, peers'[s][t] # Nil
                 PROVE s # t /\ peers'[s][t] \in Ends(s) /\ Theirs(peers'[s][t]) = t /\ pc'[peers'[s][t]] \in Serving
      OBVIOUS
    <3>1. ~(s = Mine(x) /\ t = Theirs(x)) /\ peers'[s][t] = peers[s][t]
      BY <2>3
    <3>2. peers[s][t] \in Ends(s) /\ Theirs(peers[s][t]) = t /\ s # t /\ pc[peers[s][t]] \in Serving
      BY <3>1 DEF Inv, PeersExact
    <3>3. peers[s][t] # x
      BY <3>1, <3>2 DEF Ends
    <3> QED BY <3>1, <3>2, <3>3, <2>1, SMTT(30) DEF Ends
  <2>8. \A y \in End : pc'[y] \in Serving => peers'[Mine(y)][Theirs(y)] = y
    <3> SUFFICES ASSUME NEW y \in End, pc'[y] \in Serving PROVE peers'[Mine(y)][Theirs(y)] = y
      OBVIOUS
    <3>1. y # x /\ pc[y] \in Serving
      BY <2>1 DEF Serving
    <3>2. peers[Mine(y)][Theirs(y)] = y /\ Mine(y) \in Srv /\ Theirs(y) \in Srv
      BY <3>1, OwnersAreServers, SMTT(30) DEF Inv, PeersExact, Serving
    <3> QED BY <3>1, <3>2, <2>3, <2>6
  <2>9. PeersExact'
    BY <2>1, <2>7, <2>8, ExactFromParts
  <2> QED BY <1>0, <2>4, <2>9 DEF Inv
<1>9. ASSUME NEW x \in End, HandleMsg(x) \/ \E m \in Traffic : SendMsg(x, m) PROVE Inv'
  BY <1>0, <1>9, StillExact, Zenon DEF HandleMsg, SendMsg
<1>10. ASSUME NEW c \in Conn, Reset(c) PROVE Inv'
  BY <1>0, <1>10, StillExact DEF Reset
<1>11. CASE UNCHANGED vars
  BY <1>0, <1>11, StillExact DEF vars, net
<1> QED
  BY <1>1, <1>2, <1>3, <1>4, <1>5, <1>6, <1>7, <1>8, <1>9, <1>10, <1>11 DEF Next, ConnStep

\* The inductive invariant holds in the first state.
LEMMA InitInv == Init => Inv
<1> SUFFICES ASSUME Init PROVE Inv
  OBVIOUS
<1> USE ServerAssumption, OtherEnd
<1>1. TypeOK
  BY InitType
<1>2. OwnerKnown /\ NotSelf /\ PeersExact
  BY DEF Init, OwnerKnown, NotSelf, PeersExact, PastHello, Serving
<1> QED BY <1>1, <1>2 DEF Inv

\* The inductive invariant: the types, connections known to both ends, handshakes
\* that end between different servers, and peers entries that match what is served.
THEOREM InvHolds == Spec => []Inv
  BY InitInv, StepInv, PTL DEF Spec

\* run's map holds exactly the connections that serve a peer, one for each node:
\* no handshake race, crash or reset can make a server serve a node twice, or let
\* delpeer delete a peer other than the one that has ended.
THEOREM PeersAreExact == Spec => []PeersExact
<1>1. Inv => PeersExact
  BY DEF Inv
<1> QED BY <1>1, InvHolds, PTL

----------------------------------------------------------------------------
(* The map peers implements the table of module PeerTable.                  *)

\* A step of a server, seen as a step of the table: run takes an entry when it
\* receives from addpeer, gives one up when it receives from delpeer, and clears
\* its entries when the process dies; no other step shows.
LEMMA TableStep == Inv /\ [Next]_vars => [Table!Next]_peers
<1> SUFFICES ASSUME Inv, [Next]_vars PROVE [Table!Next]_peers
  OBVIOUS
<1>1. ASSUME NEW x \in End, AddPeerConn(x) PROVE [Table!Next]_peers
  <2>1. CASE IsFree(Mine(x), Theirs(x))
    <3>1. /\ pc[x] = "offer" /\ peers[Mine(x)][Theirs(x)] = Nil
          /\ peers' = [peers EXCEPT ![Mine(x)][Theirs(x)] = x]
      BY <1>1, <2>1 DEF AddPeerConn, IsFree
    <3>2. Mine(x) # Theirs(x) /\ Mine(x) \in Srv /\ Theirs(x) \in Srv
      BY <3>1, OwnersAreServers DEF Inv, NotSelf, PastHello
    <3>3. ~Table!Held(x)
      <4> SUFFICES ASSUME NEW s \in Srv, NEW t \in Srv, peers[s][t] = x PROVE FALSE
        BY DEF Table!Held
      <4>1. pc[x] \in Serving
        BY ServerAssumption DEF Inv, PeersExact
      <4> QED BY <3>1, <4>1 DEF Serving
    <3>4. Table!Take(Mine(x), Theirs(x), x)
      BY <3>1, <3>2, <3>3 DEF Table!Take
    <3> QED BY <3>2, <3>4 DEF Table!Next
  <2>2. CASE ~IsFree(Mine(x), Theirs(x))
    BY <1>1, <2>2 DEF AddPeerConn
  <2> QED BY <2>1, <2>2
<1>2. ASSUME NEW x \in End, DelPeer(x) PROVE [Table!Next]_peers
  <2>1. pc[x] = "drop" /\ peers' = [peers EXCEPT ![Mine(x)][Theirs(x)] = Nil]
    BY <1>2, SMTT(30) DEF DelPeer
  <2>2. Mine(x) \in Srv /\ Theirs(x) \in Srv /\ peers[Mine(x)][Theirs(x)] = x /\ x # Nil
    BY <2>1, OwnersAreServers, ServerAssumption DEF Inv, PeersExact, Serving
  <2>3. Table!GiveUp(Mine(x), Theirs(x))
    BY <2>1, <2>2 DEF Table!GiveUp
  <2> QED BY <2>2, <2>3 DEF Table!Next
<1>3. ASSUME NEW s \in Srv, Crash(s) PROVE [Table!Next]_peers
  BY <1>3, Zenon DEF Crash, Table!Clear, Table!Next
<1>4. ASSUME NEW s \in Srv, Start(s) \/ DialStatic(s) \/ Stop(s) \/ LoopEnds(s) \/ StopReturns(s)
      PROVE  [Table!Next]_peers
  BY <1>4, SMTT(30) DEF Start, DialStatic, Stop, LoopEnds, StopReturns
<1>5. ASSUME NEW x \in End,
             Accept(x) \/ ReadHello(x) \/ HelloError(x) \/ FindPeer(x) \/ OfferQuit(x)
      PROVE  [Table!Next]_peers
  BY <1>5 DEF Accept, ReadHello, HelloError, FindPeer, OfferQuit
<1>6. ASSUME NEW x \in End,
             HandleMsg(x) \/ HandleError(x) \/ ReadEOF(x) \/ ReadError(x) \/ \E m \in Traffic : SendMsg(x, m)
      PROVE  [Table!Next]_peers
  BY <1>6, Zenon DEF HandleMsg, HandleError, ReadEOF, ReadError, SendMsg
<1>7. ASSUME NEW c \in Conn, Reset(c) PROVE [Table!Next]_peers
  BY <1>7 DEF Reset
<1>8. CASE UNCHANGED vars
  BY <1>8 DEF vars
<1> QED
  BY <1>1, <1>2, <1>3, <1>4, <1>5, <1>6, <1>7, <1>8 DEF Next, ConnStep

\* Whatever the handshakes, crashes and resets, the map peers of every server is a
\* table whose entries are taken only when free, by a connection that holds no other
\* entry of any server, and given up before they are taken again.
THEOREM ImplementsTable == Spec => TableSpec
<1>1. Init => Table!Init
  BY DEF Init, Table!Init
<1> QED BY <1>1, TableStep, InvHolds, PTL DEF Spec, TableSpec, Table!Spec
=============================================================================
