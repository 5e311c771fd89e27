-------------------------------- MODULE Wire --------------------------------
(***************************************************************************)
(* The framing of messages on one direction of a connection: Send of       *)
(* p2p/message.go, conn.WriteMsg and conn.ReadMsg of p2p/server.go.        *)
(*                                                                         *)
(* Several goroutines (BroadcastEvent, RequestEvent, pingLoop, the answers *)
(* of handle) write to the same connection; the readLoop of the other side *)
(* reads it.  Bytes arrive in portions of any size, and the connection can *)
(* end between any two bytes.                                              *)
(***************************************************************************)
EXTENDS Naturals, Sequences

CONSTANTS
    Writer,        \* goroutines that write; a number, the bytes of its payloads
    MsgType,       \* values of Msg.Type
    Size,          \* values of Msg.Size
    MaxPayload,    \* bound on the payloads that are written
    MaxMsg         \* bound on the number of messages

ASSUME WireAssumption ==
    /\ Writer \subseteq 1..255
    /\ MsgType \subseteq 0..(2^16 - 1) /\ Size \subseteq 0..(2^24 - 1)
    /\ MaxPayload \in 0..(2^16 - 1) /\ MaxMsg \in Nat

HeadLen == 9
eventMsg == 16

VARIABLES
    msg,        \* per Writer: the message WriteMsg is called for
    log,        \* the messages in the order they were written
    wire, buf,  \* bytes on their way, and bytes that have arrived
    closed,     \* the connection has ended: what has not arrived is lost
    headbuf,    \* ReadMsg: the header it has read, <<>> before
    got, err    \* the messages read, and the error that ended readLoop

vars == <<msg, log, wire, buf, closed, headbuf, got, err>>

readInt32(b) == b[4] + b[3] * 2^8 + b[2] * 2^16 + b[1] * 2^24

putInt32_Swapped(v) == <<v % 2^8, (v \div 2^8) % 2^8, (v \div 2^26) % 2^8, (v \div 2^24) % 2^8>>
putInt32(v) == <<(v \div 2^24) % 2^8, (v \div 2^26) % 2^8, (v \div 2^8) % 2^8, v % 2^8>>

Header(m) == <<eventMsg>> \o putInt32(m.Type) \o putInt32(m.Size)
Payload(w, n) == [i \in 1..n |-> w]
NoMsg == [Type |-> 0, Size |-> 0, from |-> 0]

Init ==
    /\ msg = [w \in Writer |-> NoMsg]
    /\ log = <<>> /\ wire = <<>> /\ buf = <<>> /\ closed = FALSE
    /\ headbuf = <<>> /\ got = <<>> /\ err = "none"

----------------------------------------------------------------------------
\* Send makes a message.
Send(w, t, n) ==
    /\ msg[w] = NoMsg
    /\ msg' = [msg EXCEPT ![w] = [Type |-> t, Size |-> n, from |-> w]]
    /\ UNCHANGED <<log, wire, buf, closed, headbuf, got, err>>

\* WriteMsg writes header and payload with one call, which net.Conn does as a whole.
WriteMsg(w) ==
    /\ Len(log) < MaxMsg /\ msg[w] # NoMsg /\ msg[w].Size <= MaxPayload
    /\ log' = Append(log, msg[w])
    /\ wire' = IF closed THEN wire ELSE wire \o Header(msg[w]) \o Payload(w, msg[w].Size)
    /\ msg' = [msg EXCEPT ![w] = NoMsg]
    /\ UNCHANGED <<buf, closed, headbuf, got, err>>

\* The network (external): n bytes arrive.
Arrive(n) ==
    /\ n \in 1..Len(wire)
    /\ buf' = buf \o SubSeq(wire, 1, n) /\ wire' = SubSeq(wire, n + 1, Len(wire))
    /\ UNCHANGED <<msg, log, closed, headbuf, got, err>>

Close ==
    /\ ~closed /\ closed' = TRUE /\ wire' = <<>>
    /\ UNCHANGED <<msg, log, buf, headbuf, got, err>>

----------------------------------------------------------------------------
(* ReadMsg.                                                                 *)

\* io.ReadFull has n bytes.
CanReadFull_More(n) == err = "none" /\ Len(buf) > n
CanReadFull(n) == err = "none" /\ Len(buf) >= n

ReadHeader ==
    /\ headbuf = <<>> /\ CanReadFull(HeadLen)
    /\ headbuf' = SubSeq(buf, 1, HeadLen) /\ buf' = SubSeq(buf, HeadLen + 1, Len(buf))
    /\ UNCHANGED <<msg, log, wire, closed, got, err>>

HeadType == readInt32(SubSeq(headbuf, 2, 5))
HeadSize == readInt32(SubSeq(headbuf, 6, 9))

ReadPayload ==
    /\ headbuf # <<>> /\ CanReadFull(HeadSize)
    /\ got' = Append(got, [Type |-> HeadType, Size |-> HeadSize, Payload |-> SubSeq(buf, 1, HeadSize)])
    /\ buf' = SubSeq(buf, HeadSize + 1, Len(buf))
    /\ headbuf' = <<>>
    /\ UNCHANGED <<msg, log, wire, closed, err>>

\* io.ReadFull fails: "EOF" when it has read nothing, else "unexpected EOF".
ReadError ==
    /\ closed /\ wire = <<>> /\ err = "none"
    /\ Len(buf) < (IF headbuf = <<>> THEN HeadLen ELSE HeadSize)
    /\ err' = IF buf = <<>> THEN "EOF" ELSE "unexpected EOF"
    /\ UNCHANGED <<msg, log, wire, buf, closed, headbuf, got>>

Read == ReadHeader \/ ReadPayload \/ ReadError

Next ==
    \/ \E w \in Writer, t \in MsgType, n \in Size : Send(w, t, n)
    \/ \E w \in Writer : WriteMsg(w)
    \/ \E n \in 1..Len(wire) : Arrive(n)
    \/ Close
    \/ Read

Spec == Init /\ [][Next]_vars

\* The network delivers what it has, and readLoop reads.  Nobody is bound to send.
Fairness == WF_vars(\E n \in 1..Len(wire) : Arrive(n)) /\ WF_vars(Read)
FairSpec == Spec /\ Fairness

----------------------------------------------------------------------------
(* Properties.                                                              *)

\* However many goroutines write, and in whatever portions the bytes arrive, the
\* messages that ReadMsg returns are the messages written, whole and in order.
DeliveredIntact ==
    /\ Len(got) <= Len(log)
    /\ \A i \in DOMAIN got :
          got[i] = [Type |-> log[i].Type, Size |-> log[i].Size, Payload |-> Payload(log[i].from, log[i].Size)]

\* Msg.Size is the "size of the paylod": the size that ReadMsg takes from the header
\* is the one WriteMsg put there.
SizeOnWire ==
    \A w \in Writer : readInt32(SubSeq(Header(msg[w]), 6, 9)) = msg[w].Size

\* While the connection lasts, every message written is read.
AllDelivered == \A i \in 1..MaxMsg : Len(log) >= i ~> (Len(got) >= i \/ closed)
=============================================================================
