-------------------------------- MODULE Node --------------------------------
(***************************************************************************)
(* One node: node.EventHandle (node/node.go) drives the rounds of module   *)
(* RoundManager.                                                           *)
(*                                                                         *)
(* EventHandle waits for an event of a peer, a local witness, a timer or a *)
(* request.  Whatever it was, it then starts AddEvent for the variables et *)
(* and ty, which keep their values from earlier turns.                     *)
(***************************************************************************)
EXTENDS RoundManager

CONSTANTS
    Copy,        \* what peers send: [id, seqNum, RoundID, ty], each once
    MaxOwn       \* bound on the events composed

OwnID == 1..MaxOwn
ID == OwnID \cup {c.id : c \in Copy}
OwnEvent(k) == [id |-> k, seqNum |-> Own, RoundID |-> 0]
EventOf(c) == [id |-> c.id, seqNum |-> c.seqNum, RoundID |-> c.RoundID]
Event == {OwnEvent(k) : k \in OwnID} \cup {EventOf(c) : c \in Copy}
NoEvent == [id |-> 0, seqNum |-> Own, RoundID |-> 0]      \* et = nil

ASSUME NodeAssumption ==
    /\ MaxOwn \in Nat
    /\ \A c \in Copy : /\ c.id \in Nat /\ c.id > MaxOwn /\ c.seqNum \in Slot \ {Own}
                       /\ c.RoundID \in 0..MaxRound /\ c.ty \in {Normal, Witness}

VARIABLES
    coming,             \* the copies that have not reached the node
    eventNorm, witnessR,    \* channels that Peer.handle sends to
    RequestChan,        \* number of requests in the channel
    et, ty, roundComming,   \* EventHandle
    composed,           \* number of own events composed
    announced,          \* the last broadcast: event and type
    calls,              \* AddEvent goroutines that have not run: <<event, type>>
    at                  \* where an event is in the graph, None if it is not

loop == <<et, ty, roundComming, composed, announced>>
nodeVars == <<vars, coming, eventNorm, witnessR, RequestChan, loop, calls, at>>

NewNode ==
    /\ NewRoundManager
    /\ coming = Copy /\ eventNorm = <<>> /\ witnessR = <<>> /\ RequestChan = 0
    /\ et = NoEvent /\ ty = 0 /\ roundComming = FALSE
    /\ composed = 0 /\ announced = <<0, 0>> /\ calls = {}
    /\ at = [i \in ID |-> None]

\* Peer.handle: an event of a peer goes to the channel of its type.
Arrive(c) ==
    /\ c \in coming /\ coming' = coming \ {c}
    /\ IF c.ty = Normal
       THEN Len(eventNorm) < MaxChanItem /\ eventNorm' = Append(eventNorm, EventOf(c)) /\ UNCHANGED witnessR
       ELSE Len(witnessR) < MaxChanItem /\ witnessR' = Append(witnessR, EventOf(c)) /\ UNCHANGED eventNorm
    /\ UNCHANGED <<vars, RequestChan, loop, calls, at>>

----------------------------------------------------------------------------
(* EventHandle.                                                             *)

\* The end of a turn: "add new event to graph, witnessLocal has been Added!"
Turn == calls' = IF ty' # WitnessLocal /\ et' # NoEvent THEN calls \cup {<<et', ty'>>} ELSE calls

RecvNorm ==
    /\ eventNorm # <<>> /\ eventNorm' = Tail(eventNorm)
    /\ et' = Head(eventNorm) /\ ty' = Normal /\ Turn
    /\ UNCHANGED <<vars, coming, witnessR, RequestChan, roundComming, composed, announced, at>>

RecvWitnessR ==
    /\ witnessR # <<>> /\ witnessR' = Tail(witnessR)
    /\ et' = Head(witnessR) /\ ty' = Witness /\ Turn
    /\ roundComming' = (roundComming \/ Head(witnessR).RoundID = currentIdx + 1)
    /\ UNCHANGED <<vars, coming, eventNorm, RequestChan, composed, announced, at>>

\* A local witness is broadcast.
RecvWitnessL ==
    /\ TakeWitnessL
    /\ et' = OwnEvent(CHOOSE k \in OwnID : at[k] = Head(witnessL)) /\ ty' = WitnessLocal /\ Turn
    /\ announced' = <<et'.id, Witness>>
    /\ UNCHANGED <<coming, eventNorm, witnessR, RequestChan, roundComming, composed, at>>

\* The timer onlyTime: an event is composed and broadcast.
OnlyTime ==
    /\ composed < MaxOwn /\ composed' = composed + 1
    /\ ComposeEvent
    /\ et' = OwnEvent(composed + 1) /\ UNCHANGED ty /\ Turn
    /\ announced' = <<composed + 1, IF roundComming THEN Witness ELSE Normal>>
    /\ roundComming' = FALSE
    /\ UNCHANGED <<coming, eventNorm, witnessR, RequestChan, at>>

OverFlow_Resets ==
    /\ UNCHANGED <<vars, coming, eventNorm, witnessR, RequestChan, et, ty, composed, announced, at>>
    /\ Turn /\ roundComming' = FALSE

\* The timer overFlow: transUnHandled is empty, as it was when EventHandle began.
OverFlow ==
    /\ UNCHANGED <<vars, coming, eventNorm, witnessR, RequestChan, loop, at>>
    /\ Turn

RecvRequest ==
    /\ RequestChan > 0 /\ RequestChan' = RequestChan - 1
    /\ UNCHANGED <<vars, coming, eventNorm, witnessR, loop, at>>
    /\ Turn

----------------------------------------------------------------------------
(* The goroutine AddEvent.                                                  *)

Again_Typed(v, t) ==
    /\ vertex' = [vertex EXCEPT ![v].witness = t]
    /\ UNCHANGED <<ownRoundID, mlen, currentIdx, witnesses, chans, ready, mon>>
Again(v, t) == IF t = Witness THEN AddAgain(v) ELSE UNCHANGED vars

\* An event that is in the graph has an effect only as a Witness; a new one is
\* added, and its other parent requested.
RunAddEvent(e, t) ==
    /\ <<e, t>> \in calls /\ calls' = calls \ {<<e, t>>}
    /\ IF at[e.id] # None
       THEN Again(at[e.id], t) /\ UNCHANGED <<at, RequestChan>>
       ELSE /\ IF e.seqNum = Own THEN AddOwn(t) ELSE AddRemote(e.seqNum, t, e.RoundID)
            /\ at' = [at EXCEPT ![e.id] = Len(vertex) + 1]
            /\ RequestChan < MaxChanItem /\ RequestChan' = RequestChan + 1
    /\ UNCHANGED <<coming, eventNorm, witnessR, loop>>

Rounds ==
    /\ \/ Loops
       \/ \E v \in 1..MaxVertex : SendSelf(v) \/ SendTrigger(v)
    /\ UNCHANGED <<coming, eventNorm, witnessR, RequestChan, loop, calls, at>>

EventHandle == RecvNorm \/ RecvWitnessR \/ RecvWitnessL \/ OnlyTime \/ OverFlow \/ RecvRequest

NodeNext ==
    \/ \E c \in Copy : Arrive(c)
    \/ EventHandle
    \/ \E e \in Event, t \in {0, Normal, Witness} : RunAddEvent(e, t)
    \/ Rounds

NodeSpec == NewNode /\ [][NodeNext]_nodeVars

----------------------------------------------------------------------------
(* Properties.                                                              *)

\* The steps of a node are steps that module RoundManager allows: whatever the
\* variables et and ty hold, RoundLoop and MonitorLoop meet no other use of the
\* graph than they were checked with.
RoundsOnly == Spec

\* A peer's witness of the next round is answered: the node forgets of the coming
\* round only when it broadcasts an own event as a Witness, whatever timers fire
\* and whatever else comes in between.
AnnouncesWitness ==
    [][roundComming /\ ~roundComming' => announced' = <<composed', Witness>>]_nodeVars

=============================================================================
