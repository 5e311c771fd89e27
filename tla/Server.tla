------------------------------- MODULE Server -------------------------------
(***************************************************************************)
(* The peer management of p2p/server.go and p2p/peer.go, for a set of      *)
(* servers joined by TCP connections.                                      *)
(*                                                                         *)
(* Every server has a goroutine `run` that owns the map `peers`, a         *)
(* goroutine `listenLoop`, a goroutine HandleConn for each new connection  *)
(* and, for each peer, the goroutines of Peer.run.  A connection has two   *)
(* ends; what is said of an end's location `pc` is said of the goroutines  *)
(* that serve it:                                                          *)
(*    none     the connection does not exist                               *)
(*    backlog  connected, listenLoop has not accepted it                   *)
(*    hello    HandleConn has sent its handshake and reads the other's     *)
(*    find     HandleConn knows the other's ID and calls FindPeer          *)
(*    offer    HandleConn found no such peer and sends to addpeer          *)
(*    peer     Peer.run: readLoop reads messages                           *)
(*    deaf     Peer.run: readLoop has ended on "EOF", run has not          *)
(*    drop     Peer.run has returned, runPeer sends to delpeer             *)
(*    leak     HandleConn has returned; the end is neither peer nor closed *)
(*    gone     closed and finished                                         *)
(***************************************************************************)
EXTENDS Naturals, Sequences

CONSTANTS
    Srv,          \* the servers, by their ID (Coinbase)
    Peers,        \* config.Peers: for each server the sequence of nodes to dial
    Conn,         \* the connections that can be made, each once
    Nil,
    MaxInbox,     \* bound on the messages in one direction
    Traffic,      \* kinds of messages that peers send of their own accord
    Faulty,       \* the connections that the network may break
    Stops,        \* the servers that Stop may be called on
    Crashes       \* the servers whose process may die and start again, once

Side == {"dial", "accept"}
End == Conn \X Side

ASSUME ServerAssumption ==
    /\ Peers \in [Srv -> Seq(Srv)]
    /\ Nil \notin End /\ Nil \notin [Side -> Srv]
    /\ MaxInbox \in Nat \ {0}
    /\ Stops \subseteq Srv /\ Crashes \subseteq Srv /\ Faulty \subseteq Conn
    /\ Traffic \subseteq {"event", "request", "ping"}

VARIABLES
    owner,       \* the servers at the two ends of a connection
    pc,          \* location of the goroutines that serve an end
    inbox,       \* the messages on their way to an end, or waiting there
    closed,      \* the end's descriptor is closed
    broken,      \* the connection is reset: reads fail with an error that is not EOF
    peers,       \* for each server, run's map from IDs to peers
    status,      \* new, running, stopping (Stop waits for the loops) or stopped
    loops,       \* the loops of a server that run: "run" and "listen"
    todo,        \* nodes that Start, or AddPeer, has still to pass to run
    crashed      \* the servers that have died once

net == <<owner, inbox, closed, broken>>
servers == <<status, loops, todo, crashed>>
vars == <<net, pc, peers, servers>>

Other(x) == <<x[1], IF x[2] = "dial" THEN "accept" ELSE "dial">>
Mine(x) == owner[x[1]][x[2]]
Theirs(x) == Mine(Other(x))
Ends(s) == {x \in End : owner[x[1]] # Nil /\ Mine(x) = s}
Listening(s) == status[s] = "running"
Quit(s) == status[s] \in {"stopping", "stopped"}

Init ==
    /\ owner = [c \in Conn |-> Nil]
    /\ pc = [x \in End |-> "none"]
    /\ inbox = [x \in End |-> <<>>]
    /\ closed = [x \in End |-> FALSE]
    /\ broken = [c \in Conn |-> FALSE]
    /\ peers = [s \in Srv |-> [t \in Srv |-> Nil]]
    /\ status = [s \in Srv |-> "new"]
    /\ loops = [s \in Srv |-> {}]
    /\ todo = [s \in Srv |-> <<>>]
    /\ crashed = {}

----------------------------------------------------------------------------
(* Sockets (external).                                                      *)

\* The ends in X are closed.  What an end has not read is lost, and resets the
\* connection; else the other end reads EOF after what was sent before.
CloseWith(X, box) ==
    /\ closed' = [x \in End |-> closed[x] \/ x \in X]
    /\ broken' = [c \in Conn |-> broken[c] \/ \E x \in X : x[1] = c /\ box[x] # <<>>]
    /\ inbox' = [x \in End |-> IF x \in X THEN <<>> ELSE box[x]]

Close(x) == CloseWith({x}, inbox)

CanRead(x) == ~broken[x[1]] /\ inbox[x] # <<>>
AtEOF(x) == ~broken[x[1]] /\ inbox[x] = <<>> /\ closed[Other(x)]

\* The inboxes after end x has read a message.
Rest(x) == [inbox EXCEPT ![x] = Tail(@)]

\* The inboxes after message m is written at end x; a write to a connection that
\* is closed or reset has no effect.
Written(x, m) ==
    IF closed[x] \/ closed[Other(x)] \/ broken[x[1]]
    THEN inbox
    ELSE [inbox EXCEPT ![Other(x)] = Append(@, m)]

\* The network breaks a connection.
Reset(c) ==
    /\ c \in Faulty /\ owner[c] # Nil /\ ~broken[c]
    /\ broken' = [broken EXCEPT ![c] = TRUE]
    /\ UNCHANGED <<owner, inbox, closed, pc, peers, servers>>

----------------------------------------------------------------------------
(* Starting and dialling.                                                   *)

\* Start and startListening.  Start then passes config.Peers to run, one by one.
Start(s) ==
    /\ status[s] = "new"
    /\ status' = [status EXCEPT ![s] = "running"]
    /\ loops' = [loops EXCEPT ![s] = {"run", "listen"}]
    /\ todo' = [todo EXCEPT ![s] = Peers[s]]
    /\ UNCHANGED <<net, pc, peers, crashed>>

\* HandleConn starts at end x: protoHandshake sends the handshake.
StartHandshake(x) == pc' = [pc EXCEPT ![x] = "hello"] /\ inbox' = Written(x, "hello")

\* run receives a node from addstatic and dials it once.
DialStatic(s) ==
    /\ "run" \in loops[s] /\ todo[s] # <<>>
    /\ todo' = [todo EXCEPT ![s] = Tail(@)]
    /\ LET t == Head(todo[s]) IN
       IF Listening(t)
       THEN \E c \in Conn :
              /\ owner[c] = Nil
              /\ owner' = [owner EXCEPT ![c] = [side \in Side |-> IF side = "dial" THEN s ELSE t]]
              /\ pc' = [pc EXCEPT ![<<c, "dial">>] = "hello", ![<<c, "accept">>] = "backlog"]
              /\ inbox' = [inbox EXCEPT ![<<c, "accept">>] = <<"hello">>]
       ELSE UNCHANGED <<owner, pc, inbox>>
    /\ UNCHANGED <<closed, broken, peers, status, loops, crashed>>

\* listenLoop accepts a connection.
Accept(x) ==
    /\ pc[x] = "backlog" /\ Listening(Mine(x))
    /\ StartHandshake(x)
    /\ UNCHANGED <<owner, closed, broken, peers, servers>>

----------------------------------------------------------------------------
(* HandleConn.                                                              *)

\* HandleConn closes the connection and returns.
Reject(x) == pc' = [pc EXCEPT ![x] = "gone"] /\ Close(x)

\* protoHandshake reads the other's ID; a connection to itself is closed.
ReadHello(x) ==
    /\ pc[x] = "hello" /\ CanRead(x)
    /\ IF Theirs(x) = Mine(x)
       THEN pc' = [pc EXCEPT ![x] = "gone"] /\ CloseWith({x}, Rest(x))
       ELSE pc' = [pc EXCEPT ![x] = "find"] /\ inbox' = Rest(x) /\ UNCHANGED <<closed, broken>>
    /\ UNCHANGED <<owner, peers, servers>>

HelloError_NotOnReset(x) ==
    /\ pc[x] = "hello" /\ AtEOF(x)
    /\ Reject(x)
    /\ UNCHANGED <<owner, peers, servers>>

\* protoHandshake fails.
HelloError(x) ==
    /\ pc[x] = "hello" /\ (AtEOF(x) \/ broken[x[1]])
    /\ Reject(x)
    /\ UNCHANGED <<owner, peers, servers>>

\* FindPeer is answered by run, or returns nil when the server has quit.
FindPeer(x) ==
    /\ pc[x] = "find"
    /\ \/ /\ "run" \in loops[Mine(x)] /\ peers[Mine(x)][Theirs(x)] # Nil
          /\ Reject(x)
       \/ /\ \/ "run" \in loops[Mine(x)] /\ peers[Mine(x)][Theirs(x)] = Nil
             \/ Quit(Mine(x))
          /\ pc' = [pc EXCEPT ![x] = "offer"] /\ UNCHANGED <<closed, broken, inbox>>
    /\ UNCHANGED <<owner, peers, servers>>

IsFree_Unchecked(s, t) == TRUE

\* run looks the node up again when the connection arrives.
IsFree(s, t) == peers[s][t] = Nil

AddPeerConn_KeepsID(x) ==
    /\ pc[x] = "offer" /\ "run" \in loops[Mine(x)] /\ IsFree(Mine(x), Theirs(x))
    /\ peers' = [peers EXCEPT ![Mine(x)][Theirs(x)] = Theirs(x)]
    /\ pc' = [pc EXCEPT ![x] = "peer"]
    /\ UNCHANGED <<net, servers>>

\* run receives from addpeer.  Two connections of one node can pass FindPeer at
\* the same time: the second is left as it is, neither served nor closed.
AddPeerConn(x) ==
    /\ pc[x] = "offer" /\ "run" \in loops[Mine(x)]
    /\ IF IsFree(Mine(x), Theirs(x))
       THEN /\ peers' = [peers EXCEPT ![Mine(x)][Theirs(x)] = x]
            /\ pc' = [pc EXCEPT ![x] = "peer"]
       ELSE pc' = [pc EXCEPT ![x] = "leak"] /\ UNCHANGED peers
    /\ UNCHANGED <<net, servers>>

\* The server has quit: HandleConn returns and leaves the connection open.
OfferQuit(x) ==
    /\ pc[x] = "offer" /\ Quit(Mine(x))
    /\ pc' = [pc EXCEPT ![x] = "leak"]
    /\ UNCHANGED <<net, peers, servers>>

----------------------------------------------------------------------------
(* Peer.                                                                    *)

\* What handle sends back.
Answer(m) == CASE m = "ping" -> <<"pong">> [] m = "request" -> <<"event">> [] OTHER -> <<>>

\* handle: an event goes to its channel, a ping is answered with a pong, a request
\* for an event with the event.  The answer is sent by a goroutine of its own; where
\* the bound MaxInbox leaves no room for it, it is not sent.
HandleMsg(x) ==
    /\ pc[x] = "peer" /\ CanRead(x)
    /\ inbox' = IF closed[Other(x)] \/ Len(inbox[Other(x)]) >= MaxInbox THEN Rest(x)
                ELSE [Rest(x) EXCEPT ![Other(x)] = @ \o Answer(Head(inbox[x]))]
    /\ UNCHANGED <<owner, closed, broken, pc, peers, servers>>

\* handle fails: the event that is asked for is not found.  readLoop ends, Peer.run
\* leaves its loop, closes the connection and returns to runPeer.
HandleError(x) ==
    /\ pc[x] = "peer" /\ CanRead(x) /\ Head(inbox[x]) = "request"
    /\ pc' = [pc EXCEPT ![x] = "drop"] /\ CloseWith({x}, Rest(x))
    /\ UNCHANGED <<owner, peers, servers>>

ReadEOF_Deletes(x) ==
    /\ pc[x] = "peer" /\ AtEOF(x)
    /\ pc' = [pc EXCEPT ![x] = "deaf"]
    /\ peers' = [peers EXCEPT ![Mine(x)][Theirs(x)] = Nil]
    /\ UNCHANGED <<net, servers>>

\* readLoop ends on "EOF": Peer.run reports the error and waits for another.
ReadEOF(x) ==
    /\ pc[x] = "peer" /\ AtEOF(x)
    /\ pc' = [pc EXCEPT ![x] = "deaf"]
    /\ UNCHANGED <<net, peers, servers>>

\* readLoop ends on another error.
ReadError(x) ==
    /\ pc[x] = "peer" /\ broken[x[1]]
    /\ pc' = [pc EXCEPT ![x] = "drop"] /\ Close(x)
    /\ UNCHANGED <<owner, peers, servers>>

DelPeer_IfOpen(x) ==
    /\ pc[x] = "drop" /\ "run" \in loops[Mine(x)] /\ ~closed[x]
    /\ peers' = [peers EXCEPT ![Mine(x)][Theirs(x)] = Nil]
    /\ pc' = [pc EXCEPT ![x] = "gone"]
    /\ UNCHANGED <<net, servers>>

\* run receives from delpeer and deletes the entry of the peer's ID.
DelPeer(x) ==
    /\ pc[x] = "drop" /\ "run" \in loops[Mine(x)]
    /\ peers' = [peers EXCEPT ![Mine(x)][Theirs(x)] = Nil]
    /\ pc' = [pc EXCEPT ![x] = "gone"]
    /\ UNCHANGED <<net, servers>>

\* BroadcastEvent, RequestEvent or pingLoop writes to a peer, which may have gone
\* deaf.
SendMsg(x, m) ==
    /\ pc[x] \in {"peer", "deaf"} /\ Len(inbox[Other(x)]) < MaxInbox
    /\ inbox' = Written(x, m)
    /\ UNCHANGED <<owner, closed, broken, pc, peers, servers>>

----------------------------------------------------------------------------
(* Stopping.                                                                *)

\* Stop closes the listener and quit, and waits for the loops.  Connections that
\* were not accepted are closed with the listener.
Stop(s) ==
    /\ s \in Stops /\ status[s] = "running" /\ todo[s] = <<>>
    /\ status' = [status EXCEPT ![s] = "stopping"]
    /\ LET X == {x \in Ends(s) : pc[x] = "backlog"} IN
         CloseWith(X, inbox) /\ pc' = [x \in End |-> IF x \in X THEN "gone" ELSE pc[x]]
    /\ UNCHANGED <<owner, peers, loops, todo, crashed>>

\* A loop sees that the server has quit, or that the listener is closed.
LoopEnds(s) ==
    /\ status[s] = "stopping"
    /\ \E l \in loops[s] : loops' = [loops EXCEPT ![s] = @ \ {l}]
    /\ UNCHANGED <<net, pc, peers, status, todo, crashed>>

StopReturns(s) ==
    /\ status[s] = "stopping" /\ loops[s] = {}
    /\ status' = [status EXCEPT ![s] = "stopped"]
    /\ UNCHANGED <<net, pc, peers, loops, todo, crashed>>

\* The process dies: the system closes its sockets.  It can be started again.
Crash(s) ==
    /\ s \in Crashes \ crashed /\ status[s] = "running"
    /\ crashed' = crashed \cup {s}
    /\ status' = [status EXCEPT ![s] = "new"]
    /\ loops' = [loops EXCEPT ![s] = {}]
    /\ todo' = [todo EXCEPT ![s] = <<>>]
    /\ peers' = [peers EXCEPT ![s] = [t \in Srv |-> Nil]]
    /\ CloseWith(Ends(s), inbox) /\ pc' = [x \in End |-> IF x \in Ends(s) THEN "gone" ELSE pc[x]]
    /\ UNCHANGED owner

----------------------------------------------------------------------------
ConnStep(x) ==
    \/ Accept(x) \/ ReadHello(x) \/ HelloError(x) \/ FindPeer(x) \/ AddPeerConn(x) \/ OfferQuit(x)
    \/ HandleMsg(x) \/ HandleError(x) \/ ReadEOF(x) \/ ReadError(x) \/ DelPeer(x)

Next ==
    \/ \E s \in Srv : Start(s) \/ DialStatic(s) \/ Stop(s) \/ LoopEnds(s) \/ StopReturns(s) \/ Crash(s)
    \/ \E x \in End : ConnStep(x)
    \/ \E x \in End, m \in Traffic : SendMsg(x, m)
    \/ \E c \in Conn : Reset(c)

Spec == Init /\ [][Next]_vars

\* The goroutines of the servers run on.  Stop, a crash, traffic and a broken
\* connection are not bound to happen.
Fairness ==
    /\ \A s \in Srv : WF_vars(Start(s)) /\ WF_vars(DialStatic(s)) /\ WF_vars(LoopEnds(s)) /\ WF_vars(StopReturns(s))
    /\ \A x \in End : WF_vars(ConnStep(x))

FairSpec == Spec /\ Fairness

----------------------------------------------------------------------------
(* Properties.                                                              *)

Serving == {"peer", "deaf", "drop"}

\* Every variable has its type.
TypeOK ==
    /\ owner \in [Conn -> [Side -> Srv] \cup {Nil}]
    /\ pc \in [End -> {"none", "backlog", "hello", "find", "offer", "leak", "gone"} \cup Serving]
    /\ inbox \in [End -> Seq({"hello", "event", "request", "ping", "pong"})]
    /\ closed \in [End -> BOOLEAN]
    /\ broken \in [Conn -> BOOLEAN]
    /\ peers \in [Srv -> [Srv -> End \cup {Nil}]]
    /\ status \in [Srv -> {"new", "running", "stopping", "stopped"}]
    /\ loops \in [Srv -> SUBSET {"run", "listen"}]
    /\ todo \in [Srv -> Seq(Srv)]
    /\ crashed \in SUBSET Crashes

\* An entry of the map peers is a connection between this server and the node of
\* that ID, a different one, whose goroutines have not finished; and every such
\* connection is in the map.  So a node is never served twice, and delpeer, which
\* deletes by ID, deletes the peer that has ended and no later one.
PeersExact ==
    /\ \A s, t \in Srv : peers[s][t] # Nil =>
          LET x == peers[s][t] IN s # t /\ x \in Ends(s) /\ Theirs(x) = t /\ pc[x] \in Serving
    /\ \A x \in End : pc[x] \in Serving => peers[Mine(x)][Theirs(x)] = x

\* The map of every server, seen from outside, is a table whose entries are taken
\* and given up but never replaced.
Table == INSTANCE PeerTable WITH holder <- peers
TableSpec == Table!Spec

\* HandleConn returns, whatever the other side does.
HandleConnReturns ==
    \A x \in End : pc[x] \in {"hello", "find", "offer"} ~> pc[x] \notin {"hello", "find", "offer"}

\* A peer that has ended leaves the map, unless the server has quit.
EndedPeerLeaves ==
    \A x \in End : pc[x] = "drop" ~> (pc[x] = "gone" \/ \E s \in Srv : x \in Ends(s) /\ Quit(s))

=============================================================================
