----------------------------- MODULE GraphSearch -----------------------------
(***************************************************************************)
(* The search of MonitorLoop through the graph (core/round.go): for every  *)
(* witness of a round, clearColorDFS and then JudgeSee, a depth-first      *)
(* search from the newest own event.                                       *)
(*                                                                         *)
(* dfsVisit takes no lock.  While it runs, AddEvent goroutines add         *)
(* vertices, link waiting children to their other parents and mark         *)
(* witnesses; here each of them does so in one step (module JPGraph has    *)
(* their interleavings).  Events come in any order, so selfPt, which is    *)
(* the order of arrival, can differ from SelfPart, which the creator chose.*)
(*                                                                         *)
(* An event is named by a number that stands for its hash; a parent has a  *)
(* smaller number than its child, as a hash covers the hashes of parents.  *)
(***************************************************************************)
EXTENDS Integers, Sequences, FiniteSets, FiniteSetsExt

CONSTANTS
    broadness,      \* number of nodes
    History,        \* the events there are: each a sequence of [seqNum, SelfPart, OtherPart, RoundID]
    MaxSearch       \* bound on the number of own events that MonitorLoop searches from

Normal == 1
Witness == 2
WitnessLocal == 3
WHITE == 0
GREY == 1
BLACK == 2

Slot == 0..(broadness - 1)
Own == 0
Nil == 0
superMajority == (broadness * 2) \div 3

ASSUME SearchAssumption ==
    /\ broadness \in Nat \ {0} /\ MaxSearch \in Nat
    /\ \A h \in History : h \in Seq([seqNum : Slot, SelfPart : Nat, OtherPart : Nat, RoundID : Nat])
    /\ \A h \in History : \A e \in DOMAIN h :
          /\ h[e].SelfPart \in 0..(e - 1) /\ h[e].OtherPart \in 0..(e - 1)
          /\ h[e].SelfPart # Nil => h[h[e].SelfPart].seqNum = h[e].seqNum

VARIABLES
    ev,             \* the events of this behaviour
    vert,           \* the vertices, by event: pointers, witness and color
    verTop,         \* the newest vertex of each column
    lostDict,       \* <<r, v>>: v waits in round r for its other parent
    currentIdx, ownRoundID, witnesses,
    mon             \* MonitorLoop

vars == <<ev, vert, verTop, lostDict, currentIdx, ownRoundID, witnesses, mon>>

hashChain(c) == {e \in DOMAIN vert : ev[e].seqNum = c}
RoundID(e) == IF ev[e].seqNum = Own THEN ownRoundID ELSE ev[e].RoundID
FindRound(id) == IF id \in 0..currentIdx THEN id ELSE 0
NoWitness == [i \in Slot |-> Nil]

Idle == [pc |-> "front", idx |-> 0, starter |-> Nil, next |-> 0, strongsee |-> 0,
         e |-> Nil, trace |-> {}, stack |-> <<>>, before |-> [vert |-> <<>>, own |-> 0], searched |-> {}]

Init ==
    /\ ev \in History
    /\ vert = <<>> /\ verTop = [c \in Slot |-> Nil] /\ lostDict = {}
    /\ currentIdx = 0 /\ ownRoundID = 0 /\ witnesses = [r \in 0..0 |-> NoWitness]
    /\ mon = Idle

----------------------------------------------------------------------------
(* AddEvent and RoundLoop, as far as the search can tell.                   *)

\* A new event: it becomes the top of its column; its other parent is linked or
\* waited for in the vertex's round; the children that wait for it in that round
\* are linked to it; the first of a column is a witness.
AddEvent(e) ==
    /\ e \in DOMAIN ev \ DOMAIN vert
    /\ LET c == ev[e].seqNum
           r == FindRound(RoundID(e))
           known == ev[e].OtherPart \in DOMAIN vert
           waiting == {v \in DOMAIN vert : <<r, v>> \in lostDict /\ ev[v].OtherPart = e}
           new == [selfPt |-> verTop[c], anotherPt |-> IF known THEN ev[e].OtherPart ELSE Nil,
                   witness |-> IF hashChain(c) = {} THEN Witness ELSE Normal, color |-> WHITE]
       IN  /\ vert' = [v \in DOMAIN vert \cup {e} |->
                         IF v = e THEN new
                         ELSE IF v \in waiting THEN [vert[v] EXCEPT !.anotherPt = e] ELSE vert[v]]
           /\ verTop' = [verTop EXCEPT ![c] = e]
           /\ lostDict' = (lostDict \ ({r} \X waiting)) \cup (IF known THEN {} ELSE {<<r, e>>})
           /\ witnesses' = IF hashChain(c) = {} THEN [witnesses EXCEPT ![r][c] = e] ELSE witnesses
    /\ UNCHANGED <<ev, currentIdx, ownRoundID, mon>>

\* RoundLoop files vertex v, of RoundID id, after it has started a round for it.
File(v, id, new) ==
    LET idx == IF new THEN currentIdx + 1 ELSE currentIdx
        all == [r \in 0..idx |-> IF r \in 0..currentIdx THEN witnesses[r] ELSE NoWitness]
    IN  /\ currentIdx' = idx
        /\ witnesses' = IF id \in 0..idx THEN [all EXCEPT ![id][ev[v].seqNum] = v] ELSE all

\* A peer's event that is in the graph comes again as a witness.
MarkWitness(v) ==
    /\ v \in DOMAIN vert /\ ev[v].seqNum # Own /\ vert[v].witness # Witness
    /\ vert' = [vert EXCEPT ![v].witness = Witness]
    /\ File(v, ev[v].RoundID, ev[v].RoundID = currentIdx + 1)
    /\ UNCHANGED <<ev, verTop, lostDict, ownRoundID, mon>>

\* ComposeEvent gives all own vertices the newest round.
ComposeEvent ==
    /\ ownRoundID # currentIdx /\ ownRoundID' = currentIdx
    /\ UNCHANGED <<ev, vert, verTop, lostDict, currentIdx, witnesses, mon>>

----------------------------------------------------------------------------
(* clearColorDFS and dfsVisit.                                              *)

\* What can be reached from s in the graph vs when the vertices of inner lead on:
\* in N steps, and in as many as there are events.
Further(S, vs, inner) == S \cup UNION {{vs[u].selfPt, vs[u].anotherPt} \ {Nil} : u \in S \cap inner}
ReachedIn(N, vs, s, inner) ==
    LET reach[n \in 0..N] == IF n = 0 THEN {s} ELSE Further(reach[n - 1], vs, inner)
    IN  reach[N]
Reached(vs, s, inner) == ReachedIn(Len(ev), vs, s, inner)

\* The vertices that clearColorDFS comes by in column c: from the top along
\* SelfPart, as long as the parent is in the column.
SelfParts(c) ==
    LET parents == [e \in DOMAIN ev |-> [selfPt |-> ev[e].SelfPart, anotherPt |-> Nil]]
    IN  Reached(parents, verTop[c], hashChain(c)) \cap hashChain(c)

\* Those it makes white: the newest of round idx, and on from there while they are
\* of that round.  In the mutant, the newest only.
Cleared_Newest(c, idx) ==
    LET ofRound == {e \in SelfParts(c) : RoundID(e) = idx} IN {e \in ofRound : \A f \in ofRound : f <= e}
Cleared(c, idx) ==
    LET ofRound == {e \in SelfParts(c) : RoundID(e) = idx}
    IN  {e \in ofRound : \A g \in SelfParts(c) \ ofRound : g < e \/ \A f \in ofRound : f < g}

clearColorDFS(idx) ==
    LET white == UNION {Cleared(c, idx) : c \in Slot}
    IN  [v \in DOMAIN vert |-> IF v \in white THEN [vert[v] EXCEPT !.color = WHITE] ELSE vert[v]]

\* The search ends at the vertex it looks for and at every witness.
Ends_ThroughWitness(m, vs, u) == u = m.e
Ends(m, vs, u) == u = m.e \/ vs[u].witness = Witness

Color_Kept(vs, u, color) == vs
Color(vs, u, color) == [vs EXCEPT ![u].color = color]

\* The call dfsVisit(u): what it leaves of MonitorLoop and of the vertices, up to
\* its loop over the two parents, which it has read by then.
Visited(m, vs, u) ==
    LET seen == [m EXCEPT !.trace = @ \cup {ev[u].seqNum}]
    IN  IF Ends(m, vs, u)
        THEN mon' = seen /\ vert' = vs
        ELSE /\ mon' = [seen EXCEPT !.stack = Append(@, [v |-> u, x |-> <<vs[u].selfPt, vs[u].anotherPt>>])]
             /\ vert' = Color(vs, u, GREY)

\* The parents of a frame that its loop has still to visit.
Unvisited(x) == {k \in 1..2 : x[k] # Nil /\ vert[x[k]].color = WHITE}

\* One turn of the innermost loop: visit the next parent that is white, or return.
dfsVisit ==
    /\ mon.pc = "visit" /\ mon.stack # <<>>
    /\ LET n == Len(mon.stack)
           f == mon.stack[n]
           todo == Unvisited(f.x)
       IN  IF todo # {}
           THEN LET k == Min(todo)
                IN  Visited([mon EXCEPT !.stack[n].x = [i \in 1..2 |-> IF i <= k THEN Nil ELSE @[i]]], vert, f.x[k])
           ELSE /\ mon' = [mon EXCEPT !.stack = SubSeq(@, 1, n - 1)]
                /\ vert' = Color(vert, f.v, BLACK)
    /\ UNCHANGED <<ev, verTop, lostDict, currentIdx, ownRoundID, witnesses>>

----------------------------------------------------------------------------
(* MonitorLoop.                                                             *)

MonitorFront ==
    /\ mon.pc = "front"
    /\ mon' = [mon EXCEPT !.pc = "select", !.idx = currentIdx]
    /\ UNCHANGED <<ev, vert, verTop, lostDict, currentIdx, ownRoundID, witnesses>>

\* The columns there are: of this node, and of the creators of events and of other parents.
graph == {Own} \cup UNION {{ev[e].seqNum, ev[IF ev[e].OtherPart = Nil THEN e ELSE ev[e].OtherPart].seqNum} : e \in DOMAIN vert}

\* An own event comes, one that AddEvent did not make a witness.  Unless every node
\* has a column by now, the loop starts again.
MonitorRecv(v) ==
    /\ mon.pc = "select" /\ Cardinality(mon.searched) < MaxSearch
    /\ v \in hashChain(Own) \ mon.searched /\ vert[v].witness = Normal
    /\ mon' = IF Cardinality(graph) # broadness THEN [mon EXCEPT !.pc = "front", !.searched = @ \cup {v}]
              ELSE [mon EXCEPT !.pc = "loop", !.starter = v, !.next = 0, !.strongsee = 0, !.searched = @ \cup {v}]
    /\ UNCHANGED <<ev, vert, verTop, lostDict, currentIdx, ownRoundID, witnesses>>

\* The slots of the round that the loop has still to come to and that are filled.
Rest == {i \in Slot : i >= mon.next /\ witnesses[mon.idx][i] # Nil}

\* The loop ends at the last slot, filled or not.  In the mutant it waits to be filled.
Ended_LastJudged == mon.next = broadness
Ended == Rest = {}

\* clearColorDFS, and JudgeSee up to the first parent.
JudgeSee ==
    /\ mon.pc = "loop" /\ Rest # {}
    /\ LET i == Min(Rest)
           vs == clearColorDFS(mon.idx)
           m == [mon EXCEPT !.pc = "visit", !.next = i + 1, !.e = witnesses[mon.idx][i], !.trace = {}, 
                                !.before = [vert |-> vs, own |-> ownRoundID]]
       IN  Visited(m, vs, mon.starter)
    /\ UNCHANGED <<ev, verTop, lostDict, currentIdx, ownRoundID, witnesses>>

\* JudgeSee after the search: it saw enough columns, or not.
Judged ==
    /\ mon.pc = "visit" /\ mon.stack = <<>>
    /\ mon' = [mon EXCEPT !.pc = "loop", !.before = Idle.before, !.e = Nil, !.trace = {},
                          !.strongsee = IF Cardinality(mon.trace) >= superMajority THEN @ + 1 ELSE @]
    /\ UNCHANGED <<ev, vert, verTop, lostDict, currentIdx, ownRoundID, witnesses>>

\* Enough witnesses are seen strongly: the starter is a local witness, and
\* RoundLoop files it.  The RoundMax-th search makes one in any case.
Found ==
    /\ vert' = [vert EXCEPT ![mon.starter].witness = WitnessLocal]
    /\ LET new == ownRoundID = currentIdx
           id == IF new THEN currentIdx + 1 ELSE ownRoundID
       IN  File(mon.starter, id, new) /\ ownRoundID' = id

Decide ==
    /\ mon.pc = "loop" /\ Ended
    /\ mon' = [mon EXCEPT !.pc = "front", !.starter = Nil, !.next = 0, !.strongsee = 0]
    /\ \/ Found
       \/ mon.strongsee <= superMajority /\ UNCHANGED <<vert, currentIdx, ownRoundID, witnesses>>
    /\ UNCHANGED <<ev, verTop, lostDict>>

MonitorLoop == MonitorFront \/ (\E v \in DOMAIN vert : MonitorRecv(v)) \/ JudgeSee \/ dfsVisit \/ Judged \/ Decide

Next == (\E e \in DOMAIN ev : AddEvent(e)) \/ (\E v \in DOMAIN vert : MarkWitness(v)) \/ ComposeEvent \/ MonitorLoop

Spec == Init /\ [][Next]_vars /\ WF_vars(MonitorLoop)
----------------------------------------------------------------------------
(* Properties.                                                              *)

Columns(S) == {ev[u].seqNum : u \in S}
NotWitness(vs) == {u \in DOMAIN vs : vs[u].witness # Witness}

\* The columns that JudgeSee counts are columns that the own event leads to: there
\* is a path that passes no witness on the way, though the pointers and witnesses
\* that dfsVisit reads change while it runs.
SearchSound ==
    mon.pc = "visit" =>
        mon.trace \subseteq Columns(Reached(vert, mon.starter,
            (DOMAIN vert \ DOMAIN mon.before.vert) \cup (NotWitness(mon.before.vert) \ {mon.e})))

\* The events of every column came in the order they were made.
InOrder(vs) == \A v \in DOMAIN vs : vs[v].selfPt = ev[v].SelfPart

\* JudgeSee counts every column of which the own event led to a vertex of the
\* round when the search began, by a path within the round.  The colors that
\* earlier searches have left in the graph hide none: clearColorDFS reaches them.
SearchComplete ==
    LET old == mon.before.vert
        ofRound == {mon.starter} \cup
            {u \in DOMAIN old : (IF ev[u].seqNum = Own THEN mon.before.own ELSE ev[u].RoundID) = mon.idx}
    IN  mon.pc = "visit" /\ mon.stack = <<>> /\ InOrder(old) =>
            Columns(ofRound \cap Reached(old, mon.starter, (ofRound \cap NotWitness(vert)) \ {mon.e}))
                \subseteq mon.trace

\* dfsVisit never calls itself, over any number of calls, on a vertex it is in: late
\* events can make a cycle of selfPt and anotherPt, and only the colors end it.
NoReentry == \A i, j \in DOMAIN mon.stack : mon.stack[i].v = mon.stack[j].v => i = j

\* The searches for all witnesses of the round end, though the round gets witnesses
\* and the graph vertices meanwhile, and MonitorLoop comes back for the next own event.
SearchEnds == mon.pc = "loop" ~> mon.pc = "front"
=============================================================================
