---------------------------- MODULE RoundManager ----------------------------
(***************************************************************************)
(* The rounds of one node (core/round.go): the goroutines RoundLoop,       *)
(* MonitorLoop and ConsensusShow, the channels between them, and AddEvent  *)
(* and ComposeEvent (core/jigsaw.go) as far as they touch rounds.          *)
(*                                                                         *)
(* AddEvent is one step here, up to its last send; how the goroutines that *)
(* run it interleave is the subject of module JPGraph.  The search through *)
(* the graph (JudgeSee) is left open: MonitorLoop may or may not find that *)
(* an event sees a witness strongly.                                       *)
(***************************************************************************)
EXTENDS Integers, Sequences, FiniteSets

CONSTANTS
    broadness,      \* number of nodes, from the configuration
    RoundMax,       \* own events after which MonitorLoop makes a witness anyway
    MaxChanItem,    \* capacity of every channel
    MaxRound,       \* bound on the RoundID of remote events
    MaxIdx,         \* bound on currentIdx
    MaxVertex       \* bound on the number of vertices

Normal       == 1
Witness      == 2
WitnessLocal == 3

Slot == 0..(broadness - 1)
Own == 0            \* the own node is the first that AddNode numbers
None == 0           \* no vertex; vertices are numbered from 1

ASSUME RoundAssumption ==
    /\ broadness \in Nat \ {0} /\ RoundMax \in Nat \ {0} /\ MaxChanItem \in Nat \ {0}
    /\ MaxRound \in Nat /\ MaxIdx \in Nat /\ MaxVertex \in Nat

VARIABLES
    vertex,             \* the vertices in the order they were added
    ownRoundID,         \* the RoundID of all own vertices: one big.Int, see ComposeEvent
    mlen,               \* len(jp.graph): the columns 0..mlen-1 exist
    currentIdx,         \* index of the newest round
    witnesses,          \* queue: for each round 0..currentIdx, its slice of witnesses
    SelfEventCreated, witnessL, roundTrigger, consensusTrigger,   \* channels
    senders,            \* AddEvent goroutines in their last send: <<channel, vertex>>
    ready,              \* RoundLoop: the round it is about to send, -1 when it waits
    mon                 \* MonitorLoop: location and local variables

queue == <<vertex, ownRoundID, mlen, currentIdx, witnesses>>
chans == <<SelfEventCreated, witnessL, roundTrigger, consensusTrigger, senders>>
vars == <<queue, chans, ready, mon>>

superMajority == (mlen * 2) \div 3
NoWitness == [i \in Slot |-> None]

\* The RoundID of vertex v, with own as the RoundID that the own vertices share.
RoundIDWith(v, own) == IF vertex[v].seqNum = Own THEN own ELSE vertex[v].RoundID

NewRoundManager ==
    /\ vertex = <<>> /\ ownRoundID = 0 /\ mlen = 1
    /\ currentIdx = 0 /\ witnesses = [r \in 0..0 |-> NoWitness]
    /\ SelfEventCreated = <<>> /\ witnessL = <<>> /\ roundTrigger = <<>> /\ consensusTrigger = <<>>
    /\ senders = {}
    /\ ready = -1
    /\ mon = [pc |-> "front", round |-> 0, starter |-> None, roundNum |-> 0]

----------------------------------------------------------------------------
(* AddEvent and ComposeEvent.                                               *)

Column(i) == {v \in DOMAIN vertex : vertex[v].seqNum = i}

\* The round of index r or, if there is none, the oldest one.
FindRound(r) == IF r \in 0..currentIdx THEN r ELSE 0

\* The type a vertex gets; in the mutant, the one AddEvent was called with.
VertexType_AsGiven(first, ty) == ty
VertexType(first, ty) == IF first THEN Witness ELSE ty

\* A vertex of column i, type ty and RoundID r comes to the graph.  It is filed as
\* a witness of its round when it is one, or the first of its column.
Filed(i, ty, r) ==
    LET first == Column(i) = {}
    IN  /\ vertex' = Append(vertex, [seqNum |-> i, RoundID |-> r, witness |-> VertexType(first, ty)])
        /\ witnesses' = IF first \/ ty = Witness
                        THEN [witnesses EXCEPT ![FindRound(r)][i] = Len(vertex) + 1]
                        ELSE witnesses

\* A remote event.
AddRemote(i, ty, r) ==
    /\ Len(vertex) < MaxVertex /\ i # Own /\ i <= mlen
    /\ Filed(i, ty, r)
    /\ mlen' = IF i = mlen THEN mlen + 1 ELSE mlen
    /\ UNCHANGED <<ownRoundID, currentIdx, chans, ready, mon>>

\* The RoundID that ComposeEvent gives the event, and with it, through the pointer
\* it takes from verTop, all own vertices.
ComposedRoundID == currentIdx

ComposeEvent ==
    /\ ownRoundID' = ComposedRoundID
    /\ UNCHANGED <<vertex, mlen, currentIdx, witnesses, chans, ready, mon>>

\* AddEvent of an own event with type ty.  Unless it is a witness, MonitorLoop is
\* told of it.
AddOwn(ty) ==
    /\ Len(vertex) < MaxVertex
    /\ Filed(Own, ty, ownRoundID)
    /\ senders' = IF Column(Own) # {} /\ ty = Normal
                  THEN senders \cup {<<"self", Len(vertex) + 1>>} ELSE senders
    /\ UNCHANGED <<ownRoundID, mlen, currentIdx, SelfEventCreated, witnessL, roundTrigger,
                   consensusTrigger, ready, mon>>

\* AddEvent of an event that is in the graph, as a Witness.
AddAgain(v) ==
    /\ v \in DOMAIN vertex /\ <<"trigger", v>> \notin senders
    /\ vertex' = [vertex EXCEPT ![v].witness = Witness]
    /\ senders' = senders \cup {<<"trigger", v>>}
    /\ UNCHANGED <<ownRoundID, mlen, currentIdx, witnesses, SelfEventCreated, witnessL, roundTrigger,
                   consensusTrigger, ready, mon>>

\* A goroutine finishes AddEvent: there is room in the channel.
SendSelf(v) ==
    /\ <<"self", v>> \in senders /\ Len(SelfEventCreated) < MaxChanItem
    /\ SelfEventCreated' = Append(SelfEventCreated, v)
    /\ senders' = senders \ {<<"self", v>>}
    /\ UNCHANGED <<queue, witnessL, roundTrigger, consensusTrigger, ready, mon>>

SendTrigger(v) ==
    /\ <<"trigger", v>> \in senders /\ Len(roundTrigger) < MaxChanItem
    /\ roundTrigger' = Append(roundTrigger, v)
    /\ senders' = senders \ {<<"trigger", v>>}
    /\ UNCHANGED <<queue, SelfEventCreated, witnessL, consensusTrigger, ready, mon>>

----------------------------------------------------------------------------
(* RoundLoop.                                                               *)

\* The vertex starts the next round.
StartsRound(v) ==
    \/ vertex[v].witness = WitnessLocal /\ RoundIDWith(v, ownRoundID) = currentIdx
    \/ vertex[v].witness = Witness /\ RoundIDWith(v, ownRoundID) = currentIdx + 1

\* The witnesses of a round have all come.
AllCome_OffByOne(ws) == \A i \in 1..(broadness - 1) : ws[i] # None
AllCome(ws) == \A i \in Slot : ws[i] # None

\* RoundLoop receives a witness: it may start a round, whose index the vertex gets;
\* then the vertex is filed in the round of its RoundID, if there is one.
RoundLoop ==
    /\ ready = -1 /\ roundTrigger # <<>>
    /\ LET v   == Head(roundTrigger)
           new == StartsRound(v)
           own == IF new /\ vertex[v].seqNum = Own THEN currentIdx + 1 ELSE ownRoundID
           id  == IF new THEN currentIdx + 1 ELSE RoundIDWith(v, ownRoundID)
           idx == IF new THEN currentIdx + 1 ELSE currentIdx
           all == [r \in 0..idx |-> IF r \in 0..currentIdx THEN witnesses[r] ELSE NoWitness]
       IN  /\ idx <= MaxIdx
           /\ ownRoundID' = own /\ currentIdx' = idx
           /\ IF id \in 0..idx
              THEN LET ws == [all[id] EXCEPT ![vertex[v].seqNum] = v] IN
                   /\ witnesses' = [all EXCEPT ![id] = ws]
                   /\ ready' = IF AllCome(ws) THEN id ELSE -1
              ELSE witnesses' = all /\ UNCHANGED ready
    /\ roundTrigger' = Tail(roundTrigger)
    /\ UNCHANGED <<vertex, mlen, SelfEventCreated, witnessL, consensusTrigger, senders, mon>>

SendConsensus ==
    /\ ready # -1 /\ Len(consensusTrigger) < MaxChanItem
    /\ consensusTrigger' = Append(consensusTrigger, ready)
    /\ ready' = -1
    /\ UNCHANGED <<queue, SelfEventCreated, witnessL, roundTrigger, senders, mon>>

ConsensusShow_Newest ==
    /\ consensusTrigger # <<>> /\ Head(consensusTrigger) = currentIdx
    /\ consensusTrigger' = Tail(consensusTrigger)
    /\ UNCHANGED <<queue, SelfEventCreated, witnessL, roundTrigger, senders, ready, mon>>

\* ConsensusShow receives a round and logs blocks.
ConsensusShow ==
    /\ consensusTrigger # <<>>
    /\ consensusTrigger' = Tail(consensusTrigger)
    /\ UNCHANGED <<queue, SelfEventCreated, witnessL, roundTrigger, senders, ready, mon>>

----------------------------------------------------------------------------
(* MonitorLoop.                                                             *)

\* MonitorLoop takes the newest round, then waits for an own event: the round can
\* be an old one when the event comes.
MonitorFront ==
    /\ mon.pc = "front"
    /\ mon' = [mon EXCEPT !.pc = "select", !.round = currentIdx]
    /\ UNCHANGED <<queue, chans, ready>>

\* Enough witnesses of the round have come for an event to see a majority of them.
Visible == Cardinality({i \in Slot : witnesses[mon.round][i] # None}) > superMajority

\* It receives an own event.  While nodes are missing it does not search.
MonitorRecv ==
    /\ mon.pc = "select" /\ SelfEventCreated # <<>>
    /\ SelfEventCreated' = Tail(SelfEventCreated)
    /\ LET m == [mon EXCEPT !.starter = Head(SelfEventCreated)]
           n == mon.roundNum + 1
       IN  IF mlen # broadness
           THEN mon' = [m EXCEPT !.pc = "front"]
           ELSE \/ (Visible \/ n = RoundMax) /\ mon' = [m EXCEPT !.pc = "found", !.roundNum = n]
                \/ n # RoundMax /\ mon' = [m EXCEPT !.pc = "front", !.roundNum = n]
    /\ UNCHANGED <<queue, witnessL, roundTrigger, consensusTrigger, senders, ready>>

\* The event is a local witness: EventHandle is told to broadcast it.
MonitorWitness ==
    /\ mon.pc = "found" /\ Len(witnessL) < MaxChanItem
    /\ witnessL' = Append(witnessL, mon.starter)
    /\ vertex' = [vertex EXCEPT ![mon.starter].witness = WitnessLocal]
    /\ mon' = [mon EXCEPT !.pc = "trigger"]
    /\ UNCHANGED <<ownRoundID, mlen, currentIdx, witnesses, SelfEventCreated, roundTrigger, consensusTrigger,
                   senders, ready>>

\* What is left of mon after a local witness.
Restarted == [mon EXCEPT !.pc = "front", !.roundNum = 0]

MonitorTrigger ==
    /\ mon.pc = "trigger" /\ Len(roundTrigger) < MaxChanItem
    /\ roundTrigger' = Append(roundTrigger, mon.starter)
    /\ mon' = Restarted
    /\ UNCHANGED <<queue, SelfEventCreated, witnessL, consensusTrigger, senders, ready>>

\* EventHandle receives a local witness.
TakeWitnessL ==
    /\ witnessL # <<>>
    /\ witnessL' = Tail(witnessL)
    /\ UNCHANGED <<queue, SelfEventCreated, roundTrigger, consensusTrigger, senders, ready, mon>>

----------------------------------------------------------------------------
Loops ==
    \/ RoundLoop \/ SendConsensus \/ ConsensusShow
    \/ MonitorFront \/ MonitorRecv \/ MonitorWitness \/ MonitorTrigger

Next ==
    \/ \E i \in Slot, ty \in {Normal, Witness}, r \in 0..MaxRound : AddRemote(i, ty, r)
    \/ \E ty \in {0, Normal, Witness} : AddOwn(ty)
    \/ ComposeEvent
    \/ \E v \in 1..MaxVertex : AddAgain(v) \/ SendSelf(v) \/ SendTrigger(v)
    \/ Loops \/ TakeWitnessL

Spec == NewRoundManager /\ [][Next]_vars

\* The loops run on, and EventHandle keeps receiving.  MonitorLoop waits in line for
\* roundTrigger with the goroutines of AddEvent, and is served in turn; of those
\* goroutines nothing is assumed.  No event is bound to come.
Fairness ==
    /\ WF_vars(RoundLoop) /\ WF_vars(SendConsensus) /\ WF_vars(ConsensusShow)
    /\ WF_vars(MonitorFront) /\ WF_vars(MonitorRecv) /\ WF_vars(MonitorWitness) /\ SF_vars(MonitorTrigger)
    /\ WF_vars(TakeWitnessL)

FairSpec == Spec /\ Fairness

----------------------------------------------------------------------------
(* Properties.                                                              *)

Elements(s) == {s[i] : i \in DOMAIN s}

\* ConsensusShow is told of a round only when a witness of every node has come to
\* it, and the round still has a witness of every node when it is shown.
ConsensusComplete ==
    \A r \in Elements(consensusTrigger) \cup ({ready} \ {-1}) : \A i \in Slot : witnesses[r][i] # None

\* Whoever filed it, AddEvent or RoundLoop, a slot of a round holds a witness of
\* the slot's own node; and, for another node, one whose RoundID is the round's.
\* The oldest round takes the witnesses of rounds that had not started, too.
SlotHoldsWitness ==
    \A r \in 0..currentIdx, i \in Slot :
        LET v == witnesses[r][i] IN v # None =>
            /\ vertex[v].seqNum = i /\ vertex[v].witness \in {Witness, WitnessLocal}
            /\ i = Own \/ r = 0 \/ vertex[v].RoundID = r

\* Channels of bounded capacity join the loops in a chain.  None of them stops for
\* ever: MonitorLoop comes back for the next own event, and a full channel gets room
\* again for the goroutines of AddEvent that have an event for MonitorLoop or a
\* witness for RoundLoop.
LoopsProgress ==
    /\ mon.pc # "select" ~> mon.pc = "select"
    /\ Len(SelfEventCreated) = MaxChanItem ~> Len(SelfEventCreated) < MaxChanItem
    /\ Len(roundTrigger) = MaxChanItem ~> Len(roundTrigger) < MaxChanItem
=============================================================================
