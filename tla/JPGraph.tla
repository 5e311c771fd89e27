------------------------------ MODULE JPGraph ------------------------------
(***************************************************************************)
(* The graph of events that one node keeps (core/jigsaw.go), and the part  *)
(* of a round (core/round.go) that AddEvent fills in.                      *)
(*                                                                         *)
(* A node owns one column per node of the network: a map from hashes to    *)
(* vertices and a pointer to the top vertex.  node.EventHandle starts a    *)
(* goroutine `go jp.AddEvent(et, ty)` for every event, so any number of    *)
(* them run at the same time.  Each goroutine is a Worker; an action is    *)
(* what a goroutine does between two points where it takes or gives up a   *)
(* lock, or uses a channel.                                                *)
(***************************************************************************)
EXTENDS Integers, Sequences, FiniteSets, Functions

CONSTANTS
    Address,       \* the nodes of the network
    ZeroAddr,      \* Address{}: the event names no other node
    Coinbase,      \* the node that owns this graph
    Hash,          \* the hashes of the events, one per event content
    ZeroHash,      \* Hash{}
    SelfSig,       \* creator of an event; the hash covers it
    OtherPartH,    \* other parent of an event; the hash covers it
    Start,         \* the sets of nodes that can have a column when the model starts
    Copy,          \* for each of them: the copies of events that can reach AddEvent,
    GivenType,     \*   the types EventHandle passes (0 until it has received an event)
    MaxRound,      \*   and the bound on the rounds that RoundLoop starts
    Worker,        \* goroutines that run AddEvent
    Boot,          \* marks the columns that exist when the model starts
    Nil,
    MaxChanItem    \* capacity of every channel

\* Vertex types, as in the code.
Normal  == 1
Witness == 2

Column == Address \X (Worker \cup {Boot})
Vertex == Column \X Hash

\* RoundID and OtherPartA are not covered by Event.Hash(), so two copies of one
\* event may differ in them.  digest is what Hash() computes from the content.
Event == [SelfHash : Hash, digest : Hash, OtherPartA : Address \cup {ZeroAddr}, RoundID : Nat]

ASSUME GraphAssumption ==
    /\ \A known \in Start : Coinbase \in known /\ known \subseteq Address
    /\ ZeroAddr \notin Address /\ ZeroHash \notin Hash
    /\ Nil \notin Column /\ Nil \notin Vertex /\ Boot \notin Worker
    /\ SelfSig \in [Hash -> Address]
    /\ OtherPartH \in [Hash -> Hash \cup {ZeroHash}]
    /\ \A known \in Start : /\ Copy[known] \subseteq Event /\ MaxRound[known] \in Nat
                             /\ GivenType[known] \subseteq {0, Normal, Witness}
    /\ IsFiniteSet(Address) /\ IsFiniteSet(Hash)
    /\ MaxChanItem \in Nat \ {0}

VARIABLES
    graph,             \* map[Address]*Column
    superMajority,
    column,            \* the columns allocated so far: seqNum and verTop
    vert,              \* the vertices of all columns; <<c, h>> is hashChain[h] of c
    rounds,            \* the rounds in queue; never popped, so 0..currentIdx
    roundTrigger, SelfEventCreated, RequestChan,    \* channels
    pc, loc            \* per Worker: where AddEvent is, and its local variables

core == <<graph, superMajority, column, vert, rounds>>
chans == <<roundTrigger, SelfEventCreated, RequestChan>>
vars == <<core, chans, pc, loc>>

currentIdx == Cardinality(DOMAIN rounds) - 1
hashChain(c) == {h \in Hash : <<c, h>> \in DOMAIN vert}
Known == {a \in Address : <<a, Boot>> \in DOMAIN column}
NodeCount == Cardinality({a \in Address : graph[a] # Nil})

NewRound ==
    [witnesses |-> [i \in {} |-> Nil], newComer |-> <<>>, ncLocked |-> FALSE,
     lostDict |-> [h \in Hash \cup {ZeroHash} |-> {}]]

NoCall == [e |-> Nil, ty |-> 0, self |-> Nil, other |-> Nil, ok2 |-> TRUE,
           firstWitness |-> FALSE, linkpost |-> TRUE, mlen |-> 0, round |-> 0]

NewJPGraph ==
    /\ \E known \in Start : \E sn \in [known -> 0..(Cardinality(known) - 1)] :
          /\ \A a, b \in known : sn[a] = sn[b] => a = b
          /\ sn[Coinbase] = 0
          /\ column = [c \in known \X {Boot} |-> [seqNum |-> sn[c[1]], verTop |-> ZeroHash]]
    /\ graph = [a \in Address |-> IF a \in Known THEN <<a, Boot>> ELSE Nil]
    /\ superMajority = (Cardinality(Known) * 2) \div 3
    /\ vert = [v \in {} |-> Nil]
    /\ rounds = [i \in {0} |-> NewRound]
    /\ roundTrigger = <<>> /\ SelfEventCreated = <<>> /\ RequestChan = <<>>
    /\ pc = [w \in Worker |-> "idle"]
    /\ loc = [w \in Worker |-> NoCall]

----------------------------------------------------------------------------
\* Moves worker w to location p with locals l.
Goto(w, p, l) == pc' = [pc EXCEPT ![w] = p] /\ loc' = [loc EXCEPT ![w] = l]

Return(w) == Goto(w, "idle", NoCall)

Self(w) == <<loc[w].self, loc[w].e.SelfHash>>

validateEvent(e) == e.digest = e.SelfHash

\* AddEvent up to graphLock.RUnlock: the columns of the creator and of the
\* other parent's creator are looked up under one read lock.
AddEvent(w, e, ty) ==
    /\ pc[w] = "idle"
    /\ validateEvent(e)
    /\ LET self  == graph[SelfSig[e.SelfHash]]
           other == IF e.OtherPartA = ZeroAddr THEN Nil ELSE graph[e.OtherPartA]
           ok2   == e.OtherPartA = ZeroAddr \/ other # Nil
       IN  Goto(w, IF self # Nil /\ ok2 THEN "insert" ELSE "check",
                [NoCall EXCEPT !.e = e, !.ty = ty, !.self = self, !.other = other,
                               !.ok2 = ok2, !.firstWitness = (self = Nil)])
    /\ UNCHANGED <<core, chans>>

\* The argument of the AddNode call that w is in: first the creator, then the
\* other parent's creator.
NodeArg(w) == IF loc[w].self = Nil THEN SelfSig[loc[w].e.SelfHash] ELSE loc[w].e.OtherPartA

\* AddNode returns column c to AddEvent.
NodeAdded(w, c) ==
    IF loc[w].self = Nil
    THEN Goto(w, IF loc[w].ok2 THEN "insert" ELSE "check", [loc[w] EXCEPT !.self = c])
    ELSE Goto(w, "insert", [loc[w] EXCEPT !.other = c])

\* AddNode under the read lock: the node may have a column by now.
AddNodeCheck(w) ==
    /\ pc[w] = "check"
    /\ IF graph[NodeArg(w)] # Nil
       THEN NodeAdded(w, graph[NodeArg(w)])
       ELSE Goto(w, "put", loc[w])
    /\ UNCHANGED <<core, chans>>

\* The column AddNode makes: its number is the length of the map before it is put
\* there.
NewColumn == [seqNum |-> NodeCount, verTop |-> ZeroHash]

\* AddNode under the write lock: a new column replaces whatever is there.
AddNodePut(w) ==
    /\ pc[w] = "put"
    /\ LET c == <<NodeArg(w), w>> IN
          /\ column' = [x \in DOMAIN column \cup {c} |-> IF x = c THEN NewColumn ELSE column[x]]
          /\ graph' = [graph EXCEPT ![NodeArg(w)] = c]
    /\ Goto(w, "major", [loc[w] EXCEPT !.mlen = NodeCount])
    /\ UNCHANGED <<superMajority, vert, rounds, chans>>

\* AddNode after the write lock is given up: it clears verTop of a column that
\* other goroutines can see by now.
AddNodeMajor(w) ==
    /\ pc[w] = "major"
    /\ column' = [column EXCEPT ![<<NodeArg(w), w>>].verTop = ZeroHash]
    /\ superMajority' = ((loc[w].mlen + 1) * 2) \div 3
    /\ NodeAdded(w, <<NodeArg(w), w>>)
    /\ UNCHANGED <<graph, vert, rounds, chans>>

\* A type given to a vertex that is in the column already.
SetWitness(v, ty) == vert' = [vert EXCEPT ![v].witness = ty]

\* The hash is in the column.  In the mutant it is not looked up.
Present_NoLookup(w) == FALSE
Present(w) == Self(w) \in DOMAIN vert

\* The event is in the column: only a Witness has an effect.
EventExists(w) ==
    /\ pc[w] = "insert" /\ Present(w)
    /\ IF loc[w].ty = Witness
       THEN SetWitness(Self(w), Witness) /\ Goto(w, "trigger", loc[w])
       ELSE UNCHANGED vert /\ Return(w)
    /\ UNCHANGED <<graph, superMajority, column, rounds, chans>>

TriggerRound(w) ==
    /\ pc[w] = "trigger" /\ Len(roundTrigger) < MaxChanItem
    /\ roundTrigger' = Append(roundTrigger, Self(w))
    /\ Return(w)
    /\ UNCHANGED <<core, SelfEventCreated, RequestChan>>

\* The vertex NewVertex makes, on top of the column as it is now.  In the mutant
\* it becomes another first vertex.
NewVertex_NoSelfPt(w) ==
    [witness |-> loc[w].ty, selfPt |-> ZeroHash, anotherPt |-> Nil, RoundID |-> loc[w].e.RoundID]
NewVertex(w) ==
    [witness |-> loc[w].ty, selfPt |-> column[loc[w].self].verTop, anotherPt |-> Nil,
     RoundID |-> loc[w].e.RoundID]

\* The event is new: under the column's lock it becomes the top vertex.
InsertVertex(w) ==
    /\ pc[w] = "insert" /\ ~Present(w)
    /\ vert' = [v \in DOMAIN vert \cup {Self(w)} |-> IF v = Self(w) THEN NewVertex(w) ELSE vert[v]]
    /\ column' = [column EXCEPT ![loc[w].self].verTop = loc[w].e.SelfHash]
    /\ Goto(w, "link", loc[w])
    /\ UNCHANGED <<graph, superMajority, rounds, chans>>

\* Where the other parent is looked up.  In the mutant it is the column's top.
OtherParent_Top(w) ==
    <<loc[w].other, IF loc[w].other = Nil THEN ZeroHash ELSE column[loc[w].other].verTop>>
OtherParent(w) == <<loc[w].other, OtherPartH[loc[w].e.SelfHash]>>

\* The other parent is looked up under its column's read lock.
LinkOther(w) ==
    /\ pc[w] = "link"
    /\ IF loc[w].other # Nil /\ OtherParent(w) \in DOMAIN vert
       THEN /\ vert' = [vert EXCEPT ![Self(w)].anotherPt = OtherParent(w)]
            /\ Goto(w, "round", [loc[w] EXCEPT !.linkpost = FALSE])
       ELSE UNCHANGED vert /\ Goto(w, "request", loc[w])
    /\ UNCHANGED <<graph, superMajority, column, rounds, chans>>

RequestParentEvent(w) ==
    /\ pc[w] = "request" /\ Len(RequestChan) < MaxChanItem
    /\ LET h == loc[w].e.SelfHash
       IN  RequestChan' = Append(RequestChan, [TargetHash |-> OtherPartH[h], TargetAddr |-> SelfSig[h]])
    /\ Goto(w, "round", loc[w])
    /\ UNCHANGED <<core, roundTrigger, SelfEventCreated>>

\* The search through queue leaves `round` at the last element, the oldest
\* round, when no round has the vertex's RoundID.
FindRound(id) == IF id \in DOMAIN rounds THEN id ELSE 0

\* The vertex is to be a witness.  len(hashChain) is read long after the column's
\* lock was given up.
BecomesWitness(w) ==
    loc[w].firstWitness \/ loc[w].ty = Witness \/ Cardinality(hashChain(loc[w].self)) = 1

\* Its index in witnesses.  In the mutant, that of the newest column.
Slot_Newest(w) == NodeCount - 1
Slot(w) == column[loc[w].self].seqNum

\* round.witnesses[i] = v
PutWitness(r, i, v) ==
    LET ws == rounds[r].witnesses IN
    rounds' = [rounds EXCEPT ![r].witnesses =
                 [j \in DOMAIN ws \cup {i} |-> IF j = i THEN v ELSE ws[j]]]

\* The vertex is filed as a witness of its round.
FileWitness(w) ==
    /\ pc[w] = "round"
    /\ LET r == FindRound(loc[w].e.RoundID)
       IN  /\ IF BecomesWitness(w)
              THEN SetWitness(Self(w), Witness) /\ PutWitness(r, Slot(w), Self(w))
              ELSE UNCHANGED <<vert, rounds>>
           /\ Goto(w, "comer", [loc[w] EXCEPT !.round = r])
    /\ UNCHANGED <<graph, superMajority, column, chans>>

\* What addComer does to a round: it returns with nc locked when the hash is there
\* already.  In the mutant it never unlocks.
Comer_NeverUnlocks(rd, h) == [rd EXCEPT !.newComer = Append(@, h), !.ncLocked = TRUE]
Comer(rd, h) ==
    IF h \in Range(rd.newComer)
    THEN [rd EXCEPT !.ncLocked = TRUE]
    ELSE [rd EXCEPT !.newComer = Append(@, h)]

addComer(w) ==
    /\ pc[w] = "comer" /\ ~rounds[loc[w].round].ncLocked
    /\ rounds' = [rounds EXCEPT ![loc[w].round] = Comer(@, loc[w].e.SelfHash)]
    /\ Goto(w, "lost", loc[w])
    /\ UNCHANGED <<graph, superMajority, column, vert, chans>>

\* lostDict without the entry for h.
Resolved(dict, h) == [dict EXCEPT ![h] = {}]

\* The vertex that waits.
Waiter(w) == Self(w)

\* The vertex waits.  In the mutant, only if it has no other column.
MustWait_NoColumn(w) == loc[w].linkpost /\ loc[w].other = Nil
MustWait(w) == loc[w].linkpost

\* Under ld: the children that waited for this event are linked to it, and the
\* vertex itself waits for its other parent if that was not found.
UpdateLost(w) ==
    /\ pc[w] = "lost"
    /\ LET h == loc[w].e.SelfHash
           r == loc[w].round
           waiting == rounds[r].lostDict[h]
           dict == Resolved(rounds[r].lostDict, h)
       IN  /\ vert' = [v \in DOMAIN vert |->
                         IF v \in waiting THEN [vert[v] EXCEPT !.anotherPt = Self(w)] ELSE vert[v]]
           /\ rounds' = [rounds EXCEPT ![r].lostDict =
                           IF MustWait(w) THEN [dict EXCEPT ![OtherPartH[h]] = @ \cup {Waiter(w)}] ELSE dict]
    /\ Goto(w, "notify", loc[w])
    /\ UNCHANGED <<graph, superMajority, column, chans>>

\* MonitorLoop is told of an own event, unless the event is a witness.
NotifySelf(w) ==
    /\ pc[w] = "notify"
    /\ IF SelfSig[loc[w].e.SelfHash] = Coinbase /\ vert[Self(w)].witness = Normal
       THEN /\ Len(SelfEventCreated) < MaxChanItem
            /\ SelfEventCreated' = Append(SelfEventCreated, Self(w))
       ELSE UNCHANGED SelfEventCreated
    /\ Return(w)
    /\ UNCHANGED <<core, roundTrigger, RequestChan>>

----------------------------------------------------------------------------
(* The other goroutines, as far as AddEvent can tell: RoundLoop receives    *)
(* triggers and starts rounds, MonitorLoop receives own events, EventHandle *)
(* receives requests.                                                       *)

PushRound ==
    /\ currentIdx < MaxRound[Known]
    /\ rounds' = [i \in DOMAIN rounds \cup {currentIdx + 1} |->
                    IF i \in DOMAIN rounds THEN rounds[i] ELSE NewRound]
    /\ UNCHANGED <<graph, superMajority, column, vert, chans, pc, loc>>

TakeTrigger ==
    /\ roundTrigger # <<>> /\ roundTrigger' = Tail(roundTrigger)
    /\ UNCHANGED <<core, SelfEventCreated, RequestChan, pc, loc>>

TakeSelfEvent ==
    /\ SelfEventCreated # <<>> /\ SelfEventCreated' = Tail(SelfEventCreated)
    /\ UNCHANGED <<core, roundTrigger, RequestChan, pc, loc>>

TakeRequest ==
    /\ RequestChan # <<>> /\ RequestChan' = Tail(RequestChan)
    /\ UNCHANGED <<core, roundTrigger, SelfEventCreated, pc, loc>>

----------------------------------------------------------------------------
WorkerStep(w) ==
    \/ AddNodeCheck(w) \/ AddNodePut(w) \/ AddNodeMajor(w)
    \/ EventExists(w) \/ TriggerRound(w)
    \/ InsertVertex(w) \/ LinkOther(w) \/ RequestParentEvent(w)
    \/ FileWitness(w) \/ addComer(w) \/ UpdateLost(w) \/ NotifySelf(w)

Next ==
    \/ \E w \in Worker, e \in Copy[Known], ty \in GivenType[Known] : AddEvent(w, e, ty)
    \/ \E w \in Worker : WorkerStep(w)
    \/ PushRound \/ TakeTrigger \/ TakeSelfEvent \/ TakeRequest

Spec == NewJPGraph /\ [][Next]_vars

\* Every goroutine runs on, and the receivers of the channels keep receiving.
\* Senders that wait for a channel are served in the order they came, so one
\* that finds the channel free again and again does send.
Fairness ==
    /\ \A w \in Worker :
          /\ WF_vars(WorkerStep(w))
          /\ SF_vars(TriggerRound(w)) /\ SF_vars(RequestParentEvent(w)) /\ SF_vars(NotifySelf(w))
    /\ WF_vars(TakeTrigger) /\ WF_vars(TakeSelfEvent) /\ WF_vars(TakeRequest)

FairSpec == Spec /\ Fairness

----------------------------------------------------------------------------
(* Properties.                                                              *)

\* The vertices that a goroutine has inserted and not yet finished with.
InProgress == {Self(w) : w \in {x \in Worker : pc[x] \in {"link", "request", "round", "comer", "lost"}}}

\* Every walk along selfPt, which ConsensusShow and dfsVisit make, stays inside
\* the column and ends: some order of the column's vertices puts each self parent
\* before its child.  This holds even while AddNode clears verTop of a column
\* that other goroutines fill.
SelfWalkEnds ==
    \A c \in DOMAIN column :
        LET n == Cardinality(hashChain(c)) IN
        \E s \in [1..n -> hashChain(c)] :
            /\ \A i, j \in 1..n : s[i] = s[j] => i = j
            /\ \A i \in 1..n :
                  LET p == vert[<<c, s[i]>>].selfPt IN p = ZeroHash \/ \E j \in 1..(i - 1) : s[j] = p

\* However the AddEvent goroutines interleave, a column whose node was known
\* before they started stays one chain: from verTop the selfPt pointers visit
\* every vertex of hashChain exactly once and end at the first one.
ColumnIsChain ==
    \A c \in Known \X {Boot} :
        LET n == Cardinality(hashChain(c)) IN
        \E s \in [1..n -> hashChain(c)] :
            /\ \A i, j \in 1..n : s[i] = s[j] => i = j
            /\ \A i \in 1..n : vert[<<c, s[i]>>].selfPt = IF i = 1 THEN ZeroHash ELSE s[i - 1]
            /\ column[c].verTop = IF n = 0 THEN ZeroHash ELSE s[n]

\* A vertex is linked to no vertex but its other parent, whether AddEvent finds
\* the parent at once or the parent comes later and takes the vertex from
\* lostDict.  RetrieveEvent answers a request for OtherPartH with anotherPt.
OtherParentMatches ==
    \A v \in DOMAIN vert : vert[v].anotherPt # Nil =>
        /\ vert[v].anotherPt \in DOMAIN vert
        /\ vert[v].anotherPt[2] = OtherPartH[v[2]]

\* When AddEvent has finished with a vertex, the vertex has its other parent or
\* waits for it in the lostDict of some round: none is forgotten.
UnlinkedWaits ==
    \A v \in DOMAIN vert \ InProgress : vert[v].anotherPt = Nil =>
        \E r \in DOMAIN rounds : v \in rounds[r].lostDict[OtherPartH[v[2]]]

\* AddNode: "add node(computer) to JPGraph, it forms a column".  A node has the
\* one column that the graph holds.
NodeFormsColumn == \A c \in DOMAIN column : graph[c[1]] = c

\* While every node has its column, an event comes to a round's newComer once, so
\* addComer never returns with nc locked.
NoLockLeak ==
    NodeFormsColumn => \A r \in DOMAIN rounds :
        /\ ~rounds[r].ncLocked
        /\ \A i, j \in DOMAIN rounds[r].newComer : rounds[r].newComer[i] = rounds[r].newComer[j] => i = j

\* A witness stands in the slot of its own column.
WitnessInOwnSlot ==
    \A r \in DOMAIN rounds : \A i \in DOMAIN rounds[r].witnesses :
        LET v == rounds[r].witnesses[i] IN
            v \in DOMAIN vert /\ vert[v].witness = Witness /\ column[v[1]].seqNum = i

\* AddEvent returns: no goroutine waits for ever for nc or for a channel.
AddEventReturns == \A w \in Worker : pc[w] # "idle" ~> pc[w] = "idle"

============================================================================
