---------------------------- MODULE JPGraphSteps ----------------------------
(***************************************************************************)
(* What the steps of module JPGraph do, for any number of nodes, events,   *)
(* rounds and goroutines: the effect of each action, the types, what no    *)
(* step takes back, and what AddEvent knows at each of its locations.      *)
(***************************************************************************)
EXTENDS JPGraph, FiniteSetTheorems, TLAPS

Pointer == Hash \cup {ZeroHash}
Slots == UNION {[D -> Vertex] : D \in SUBSET Nat}
ColumnRec == [seqNum : Nat, verTop : Pointer]
VertexRec == [witness : 0..2, selfPt : Pointer, anotherPt : Vertex \cup {Nil}, RoundID : Nat]
Round == [witnesses : Slots, newComer : Seq(Hash), ncLocked : BOOLEAN, lostDict : [Pointer -> SUBSET Vertex]]
Call == [e : Event \cup {Nil}, ty : 0..2, self : Column \cup {Nil}, other : Column \cup {Nil}, ok2 : BOOLEAN,
         firstWitness : BOOLEAN, linkpost : BOOLEAN, mlen : Nat, round : Nat]

Filing == {"link", "request", "round", "comer"}
Working == Filing \cup {"lost"}
Inserted == Working \cup {"notify", "trigger"}
Naming == {"check", "put", "major"}

TypeOK ==
    /\ graph \in [Address -> Column \cup {Nil}]
    /\ Known \in Start
    /\ DOMAIN column \subseteq Column /\ column \in [DOMAIN column -> ColumnRec]
    /\ DOMAIN vert \subseteq Vertex /\ vert \in [DOMAIN vert -> VertexRec]
    /\ 0 \in DOMAIN rounds /\ DOMAIN rounds \subseteq Nat /\ IsFiniteSet(DOMAIN rounds)
    /\ rounds \in [DOMAIN rounds -> Round]
    /\ pc \in [Worker -> {"idle", "insert"} \cup Naming \cup Inserted]
    /\ loc \in [Worker -> Call]

\* The graph maps a node to one of its columns, and a node that has had a column
\* keeps one; a vertex is in a column; the top of a column is one of its vertices.
GraphOK ==
    /\ \A a \in Address : graph[a] # Nil => graph[a] \in DOMAIN column /\ graph[a][1] = a
    /\ \A c \in DOMAIN column : graph[c[1]] # Nil
    /\ \A v \in DOMAIN vert : v[1] \in DOMAIN column
    /\ \A c \in DOMAIN column : column[c].verTop # ZeroHash => <<c, column[c].verTop>> \in DOMAIN vert

\* What AddEvent has in its local variables at each of its locations.
CallOK(w) ==
    LET l == loc[w] IN
    pc[w] # "idle" =>
        /\ l.e \in Event
        /\ l.self # Nil => l.self \in DOMAIN column /\ l.self[1] = SelfSig[l.e.SelfHash]
        /\ ~l.ok2 => l.e.OtherPartA \in Address
        /\ IF pc[w] \in Naming THEN l.self = Nil \/ ~l.ok2 ELSE l.self # Nil
        /\ pc[w] = "put" => <<NodeArg(w), w>> \notin DOMAIN column
        /\ pc[w] = "major" => <<NodeArg(w), w>> \in DOMAIN column
        /\ pc[w] \in Inserted => Self(w) \in DOMAIN vert
        /\ pc[w] \in {"comer", "lost"} => l.round \in DOMAIN rounds
        /\ pc[w] \notin {"round", "comer", "lost", "notify", "trigger"} => l.linkpost
        /\ pc[w] \in Working => (l.linkpost <=> vert[Self(w)].anotherPt = Nil)
CallsOK == \A w \in Worker : CallOK(w)

\* A vertex that waits does so under the hash of its other parent, has none yet,
\* is done with AddEvent and waits in one round only.
LostOK ==
    /\ \A r \in DOMAIN rounds, h \in Pointer : \A v \in rounds[r].lostDict[h] :
          /\ v \in DOMAIN vert /\ OtherPartH[v[2]] = h
          /\ vert[v].anotherPt = Nil /\ v \notin InProgress
    /\ \A r, q \in DOMAIN rounds, h \in Pointer :
          rounds[r].lostDict[h] \cap rounds[q].lostDict[h] # {} => r = q

\* A vertex is filed by the goroutine that inserted it and by no other, and its
\* hash is new to newComer until then.
FilingOK ==
    /\ \A w, x \in Worker : pc[w] \in Working /\ pc[x] \in Working /\ Self(w) = Self(x) => w = x
    /\ \A r \in DOMAIN rounds : \A i \in DOMAIN rounds[r].newComer :
          LET h == rounds[r].newComer[i] IN
          \E c \in DOMAIN column :
              /\ c[1] = SelfSig[h] /\ <<c, h>> \in DOMAIN vert
              /\ \A w \in Worker : pc[w] \in Filing => Self(w) # <<c, h>>

IInv ==
    /\ TypeOK /\ GraphOK /\ CallsOK /\ LostOK /\ FilingOK
    /\ OtherParentMatches /\ UnlinkedWaits /\ WitnessInOwnSlot /\ NoLockLeak
    /\ SelfWalkEnds /\ ColumnIsChain

\* What no step takes back.
Kept ==
    /\ \A a \in Address : graph[a] # Nil => graph'[a] # Nil
    /\ \A c \in DOMAIN column : c \in DOMAIN column' /\ column'[c].seqNum = column[c].seqNum
    /\ \A v \in DOMAIN vert :
          /\ v \in DOMAIN vert'
          /\ vert'[v].selfPt = vert[v].selfPt /\ vert'[v].RoundID = vert[v].RoundID
          /\ vert[v].anotherPt # Nil => vert'[v].anotherPt = vert[v].anotherPt
          /\ vert[v].witness = Witness => vert'[v].witness = Witness
    /\ DOMAIN rounds \subseteq DOMAIN rounds'

----------------------------------------------------------------------------
Location == {"idle", "insert"} \cup Naming \cup Inserted

\* The parts of the type invariant, one by one.
LEMMA Types ==
    ASSUME TypeOK
    PROVE  /\ graph \in [Address -> Column \cup {Nil}]
           /\ Known \in Start
           /\ DOMAIN column \subseteq Column /\ column \in [DOMAIN column -> ColumnRec]
           /\ DOMAIN vert \subseteq Vertex /\ vert \in [DOMAIN vert -> VertexRec]
           /\ 0 \in DOMAIN rounds /\ DOMAIN rounds \subseteq Nat /\ IsFiniteSet(DOMAIN rounds)
           /\ rounds \in [DOMAIN rounds -> Round]
           /\ pc \in [Worker -> Location]
           /\ loc \in [Worker -> Call]
  BY Zenon DEF TypeOK, Location

\* The type invariant from its parts.
LEMMA Typed ==
    ASSUME graph' \in [Address -> Column \cup {Nil}],
           Known' \in Start,
           DOMAIN column' \subseteq Column, column' \in [DOMAIN column' -> ColumnRec],
           DOMAIN vert' \subseteq Vertex, vert' \in [DOMAIN vert' -> VertexRec],
           0 \in DOMAIN rounds', DOMAIN rounds' \subseteq Nat, IsFiniteSet(DOMAIN rounds'),
           rounds' \in [DOMAIN rounds' -> Round],
           pc' \in [Worker -> Location],
           loc' \in [Worker -> Call]
    PROVE  TypeOK'
  BY Zenon DEF TypeOK, Location

\* A goroutine that moves leaves the others where they are.
LEMMA Moved ==
    ASSUME TypeOK, NEW w \in Worker, NEW p \in Location, NEW l \in Call, Goto(w, p, l)
    PROVE  /\ pc' \in [Worker -> Location] /\ loc' \in [Worker -> Call]
           /\ pc'[w] = p /\ loc'[w] = l
           /\ \A x \in Worker \ {w} : pc'[x] = pc[x] /\ loc'[x] = loc[x]
  <1>1. pc \in [Worker -> Location] /\ loc \in [Worker -> Call]  BY Types, Zenon
  <1> QED  BY <1>1, Zenon DEF Goto

\* Before the call there are no locals.
LEMMA NoCallTyped == NoCall \in Call
  BY DEF NoCall, Call

\* The number of nodes is a natural number.
LEMMA CountTyped == NodeCount \in Nat
  <1>1. IsFiniteSet({a \in Address : graph[a] # Nil})  BY FS_Subset, GraphAssumption, Zenon
  <1> QED  BY <1>1, FS_CardinalityType, Zenon DEF NodeCount

\* A round that RoundLoop starts is empty.
LEMMA NewRoundTyped ==
    /\ NewRound \in Round /\ NewRound.witnesses = [i \in {} |-> Nil] /\ NewRound.newComer = <<>>
    /\ ~NewRound.ncLocked /\ NewRound.lostDict = [h \in Pointer |-> {}]
  <1> DEFINE ws == [i \in {} |-> Nil]
  <1>1. ws \in [{} -> Vertex]  BY Zenon
  <1>2. ws \in Slots  BY <1>1, {} \in SUBSET Nat, Zenon DEF Slots
  <1> HIDE DEF ws
  <1>3. [h \in Hash \cup {ZeroHash} |-> {}] \in [Pointer -> SUBSET Vertex]  BY Zenon DEF Pointer
  <1> QED  BY <1>2, <1>3 DEF NewRound, Round, Pointer, ws

\* The local variables of a goroutine inside AddEvent.
LEMMA InCall ==
    ASSUME TypeOK, CallsOK, NEW w \in Worker, pc[w] # "idle"
    PROVE  /\ loc[w] \in Call /\ loc[w].e \in Event
           /\ loc[w].e.SelfHash \in Hash /\ loc[w].e.RoundID \in Nat /\ loc[w].ty \in 0..2
           /\ SelfSig[loc[w].e.SelfHash] \in Address
           /\ OtherPartH[loc[w].e.SelfHash] \in Pointer
           /\ pc[w] \in Naming => NodeArg(w) \in Address /\ <<NodeArg(w), w>> \in Column
           /\ pc[w] \notin Naming => /\ loc[w].self \in DOMAIN column
                                     /\ loc[w].self \in Column
                                     /\ loc[w].self[1] = SelfSig[loc[w].e.SelfHash]
                                     /\ Self(w) \in Vertex
           /\ Self(w)[1] = loc[w].self /\ Self(w)[2] = loc[w].e.SelfHash
  <1>1. loc[w] \in Call /\ DOMAIN column \subseteq Column  BY Types, Zenon
  <1>2. CallOK(w)  BY Zenon DEF CallsOK
  <1>3. loc[w].e \in Event /\ (loc[w].self # Nil => loc[w].self \in DOMAIN column /\ loc[w].self[1] = SelfSig[loc[w].e.SelfHash])
    BY <1>2, Zenon DEF CallOK
  <1>4. loc[w].e.SelfHash \in Hash /\ loc[w].e.RoundID \in Nat  BY <1>3, Zenon DEF Event
  <1>5. SelfSig[loc[w].e.SelfHash] \in Address /\ OtherPartH[loc[w].e.SelfHash] \in Pointer
    BY <1>4, GraphAssumption, Zenon DEF Pointer
  <1>6. ASSUME pc[w] \in Naming  PROVE NodeArg(w) \in Address /\ <<NodeArg(w), w>> \in Column
    <2>1. loc[w].self = Nil \/ loc[w].e.OtherPartA \in Address  BY <1>2, <1>6, Zenon DEF CallOK
    <2>2. NodeArg(w) \in Address  BY <2>1, <1>5, Zenon DEF NodeArg
    <2> QED  BY <2>2, Zenon DEF Column
  <1>7. ASSUME pc[w] \notin Naming  PROVE loc[w].self \in DOMAIN column /\ loc[w].self \in Column /\ Self(w) \in Vertex
    <2>1. loc[w].self # Nil  BY <1>2, <1>7, Zenon DEF CallOK
    <2>2. loc[w].self \in Column  BY <2>1, <1>3, <1>1, Zenon
    <2> QED  BY <2>1, <2>2, <1>3, <1>4, Zenon DEF Vertex, Self
  <1>8. ASSUME pc[w] \notin Naming  PROVE loc[w].self[1] = SelfSig[loc[w].e.SelfHash]
    BY <1>2, <1>8, <1>3, Zenon DEF CallOK
  <1>9. Self(w)[1] = loc[w].self /\ Self(w)[2] = loc[w].e.SelfHash  BY Zenon DEF Self
  <1>10. loc[w].ty \in 0..2  BY <1>1, Zenon DEF Call
  <1> QED  BY <1>1, <1>3, <1>4, <1>5, <1>6, <1>7, <1>8, <1>9, <1>10, Zenon

----------------------------------------------------------------------------
(* What each action does to the graph.                                      *)

\* AddNode's new column gets a place of its own: it overwrites none.
LEMMA PutEffect ==
    ASSUME TypeOK, CallsOK, NEW w \in Worker, AddNodePut(w)
    PROVE  LET c == <<NodeArg(w), w>> IN
           /\ c \notin DOMAIN column /\ DOMAIN column' = DOMAIN column \cup {c}
           /\ column' \in [DOMAIN column' -> ColumnRec] /\ DOMAIN column' \subseteq Column
           /\ column'[c].verTop = ZeroHash
           /\ \A x \in DOMAIN column : column'[x] = column[x]
           /\ graph' \in [Address -> Column \cup {Nil}] /\ graph'[NodeArg(w)] = c
           /\ \A a \in Address \ {NodeArg(w)} : graph'[a] = graph[a]
           /\ Known' = Known /\ UNCHANGED <<vert, rounds>>
           /\ Goto(w, "major", [loc[w] EXCEPT !.mlen = NodeCount])
           /\ [loc[w] EXCEPT !.mlen = NodeCount] \in Call
  <1> DEFINE c == <<NodeArg(w), w>>
  <1>1. pc[w] = "put"  BY Zenon DEF AddNodePut
  <1>2. c \notin DOMAIN column  BY <1>1, Zenon DEF CallsOK, CallOK
  <1>3. c \in Column /\ NodeArg(w) \in Address /\ loc[w] \in Call  BY <1>1, InCall, Zenon DEF Naming
  <1>4. NewColumn \in ColumnRec /\ NewColumn.verTop = ZeroHash  BY CountTyped, Zenon DEF NewColumn, ColumnRec, Pointer
  <1>5. /\ column' = [x \in DOMAIN column \cup {c} |-> IF x = c THEN NewColumn ELSE column[x]]
        /\ graph' = [graph EXCEPT ![NodeArg(w)] = c]
        /\ UNCHANGED <<vert, rounds>>
        /\ Goto(w, "major", [loc[w] EXCEPT !.mlen = NodeCount])
    BY Zenon DEF AddNodePut
  <1>6. graph \in [Address -> Column \cup {Nil}] /\ DOMAIN column \subseteq Column /\ column \in [DOMAIN column -> ColumnRec]
    BY Types, Zenon
  <1>7. \A a : <<a, Boot>> # c  BY GraphAssumption, Zenon
  <1> HIDE DEF c
  <1>8. /\ DOMAIN column' = DOMAIN column \cup {c} /\ column' \in [DOMAIN column' -> ColumnRec]
        /\ DOMAIN column' \subseteq Column /\ column'[c] = NewColumn
        /\ \A x \in DOMAIN column : column'[x] = column[x]
    BY <1>2, <1>3, <1>4, <1>5, <1>6, Zenon
  <1>9. Known' = Known  BY <1>7, <1>8, Zenon DEF Known
  <1>10. /\ graph' \in [Address -> Column \cup {Nil}] /\ graph'[NodeArg(w)] = c
         /\ \A a \in Address \ {NodeArg(w)} : graph'[a] = graph[a]
    BY <1>3, <1>5, <1>6, Zenon
  <1>11. [loc[w] EXCEPT !.mlen = NodeCount] \in Call  BY <1>3, CountTyped, Zenon DEF Call
  <1> QED  BY <1>2, <1>4, <1>5, <1>8, <1>9, <1>10, <1>11, Zenon DEF c

\* AddNode clears the top of the column it made.
LEMMA MajorEffect ==
    ASSUME TypeOK, CallsOK, NEW w \in Worker, AddNodeMajor(w)
    PROVE  LET c == <<NodeArg(w), w>> IN
           /\ c \in DOMAIN column /\ c[1] = NodeArg(w) /\ c \notin Known \X {Boot}
           /\ DOMAIN column' = DOMAIN column
           /\ column' \in [DOMAIN column -> ColumnRec] /\ column'[c].verTop = ZeroHash
           /\ \A x \in DOMAIN column : column'[x].seqNum = column[x].seqNum
           /\ \A x \in DOMAIN column \ {c} : column'[x] = column[x]
           /\ Known' = Known /\ UNCHANGED <<graph, vert, rounds>>
           /\ NodeAdded(w, c)
  <1> DEFINE c == <<NodeArg(w), w>>
  <1>1. pc[w] = "major" /\ NodeAdded(w, c)  BY Zenon DEF AddNodeMajor
  <1>2. c \in DOMAIN column  BY <1>1, Zenon DEF CallsOK, CallOK
  <1>3. c[1] = NodeArg(w) /\ c \notin Known \X {Boot}  BY GraphAssumption, Zenon
  <1>4. column' = [column EXCEPT ![c].verTop = ZeroHash] /\ UNCHANGED <<graph, vert, rounds>>
    BY Zenon DEF AddNodeMajor
  <1>5. column \in [DOMAIN column -> ColumnRec]  BY Types, Zenon
  <1> HIDE DEF c
  <1>6. column[c] \in ColumnRec  BY <1>2, <1>5, Zenon
  <1>7. [column[c] EXCEPT !.verTop = ZeroHash] \in ColumnRec /\ [column[c] EXCEPT !.verTop = ZeroHash].verTop = ZeroHash
        /\ [column[c] EXCEPT !.verTop = ZeroHash].seqNum = column[c].seqNum
    BY <1>6, Zenon DEF ColumnRec, Pointer
  <1>8. column' = [column EXCEPT ![c] = [column[c] EXCEPT !.verTop = ZeroHash]]  BY <1>4, Zenon
  <1>9. /\ DOMAIN column' = DOMAIN column
        /\ column' \in [DOMAIN column -> ColumnRec] /\ column'[c].verTop = ZeroHash
        /\ \A x \in DOMAIN column : column'[x].seqNum = column[x].seqNum
        /\ \A x \in DOMAIN column \ {c} : column'[x] = column[x]
    BY <1>2, <1>5, <1>7, <1>8, Zenon
  <1>10. Known' = Known  BY <1>9, Zenon DEF Known
  <1> QED  BY <1>1, <1>2, <1>3, <1>4, <1>9, <1>10, Zenon DEF c

\* A vertex becomes a witness and is otherwise as before.
LEMMA WitnessEffect ==
    ASSUME TypeOK, NEW v \in DOMAIN vert, SetWitness(v, Witness)
    PROVE  /\ DOMAIN vert' = DOMAIN vert /\ vert' \in [DOMAIN vert -> VertexRec]
           /\ vert'[v].witness = Witness
           /\ \A u \in DOMAIN vert : /\ vert'[u].selfPt = vert[u].selfPt
                                     /\ vert'[u].anotherPt = vert[u].anotherPt
                                     /\ vert'[u].RoundID = vert[u].RoundID
           /\ \A u \in DOMAIN vert \ {v} : vert'[u] = vert[u]
  <1> DEFINE x == [vert[v] EXCEPT !.witness = Witness]
  <1>1. vert \in [DOMAIN vert -> VertexRec]  BY Types, Zenon
  <1>2. vert[v] \in VertexRec  BY <1>1, Zenon
  <1>3. /\ x \in VertexRec /\ x.witness = Witness /\ x.selfPt = vert[v].selfPt
        /\ x.anotherPt = vert[v].anotherPt /\ x.RoundID = vert[v].RoundID
    BY <1>2 DEF VertexRec, Witness
  <1>4. vert' = [vert EXCEPT ![v] = x]  BY Zenon DEF SetWitness
  <1> HIDE DEF x
  <1> QED  BY <1>1, <1>3, <1>4, Zenon

\* A new vertex goes on top of its column.
LEMMA InsertEffect ==
    ASSUME TypeOK, CallsOK, NEW w \in Worker, InsertVertex(w)
    PROVE  LET c == loc[w].self  v == Self(w) IN
           /\ c \in DOMAIN column /\ v \in Vertex /\ v \notin DOMAIN vert
           /\ DOMAIN vert' = DOMAIN vert \cup {v} /\ vert' \in [DOMAIN vert' -> VertexRec]
           /\ vert'[v].anotherPt = Nil /\ vert'[v].selfPt = column[c].verTop
           /\ \A u \in DOMAIN vert : vert'[u] = vert[u]
           /\ DOMAIN column' = DOMAIN column /\ column' \in [DOMAIN column -> ColumnRec]
           /\ column'[c].verTop = loc[w].e.SelfHash
           /\ \A x \in DOMAIN column : column'[x].seqNum = column[x].seqNum
           /\ \A x \in DOMAIN column \ {c} : column'[x] = column[x]
           /\ Known' = Known /\ UNCHANGED <<graph, rounds>>
           /\ Goto(w, "link", loc[w])
  <1> DEFINE c == loc[w].self
             v == Self(w)
             h == loc[w].e.SelfHash
             n == NewVertex(w)
             d == [column[c] EXCEPT !.verTop = h]
  <1>1. pc[w] = "insert" /\ v \notin DOMAIN vert  BY Zenon DEF InsertVertex, Present
  <1>2. c \in DOMAIN column /\ v \in Vertex /\ h \in Hash /\ loc[w].ty \in 0..2 /\ loc[w].e.RoundID \in Nat
    BY <1>1, InCall, Zenon DEF Naming
  <1>3. column \in [DOMAIN column -> ColumnRec] /\ vert \in [DOMAIN vert -> VertexRec]  BY Types, Zenon
  <1>4. column[c] \in ColumnRec  BY <1>2, <1>3, Zenon
  <1>5. n \in VertexRec /\ n.anotherPt = Nil /\ n.selfPt = column[c].verTop
    BY <1>2, <1>4, Zenon DEF NewVertex, VertexRec, ColumnRec
  <1>6. d \in ColumnRec /\ d.verTop = h /\ d.seqNum = column[c].seqNum  BY <1>2, <1>4, Zenon DEF ColumnRec, Pointer
  <1>7. /\ vert' = [u \in DOMAIN vert \cup {v} |-> IF u = v THEN n ELSE vert[u]]
        /\ column' = [column EXCEPT ![c] = d]
        /\ UNCHANGED <<graph, rounds>> /\ Goto(w, "link", loc[w])
    BY Zenon DEF InsertVertex
  <1> HIDE DEF c, v, h, n, d
  <1>8. /\ DOMAIN column' = DOMAIN column /\ column' \in [DOMAIN column -> ColumnRec]
        /\ column'[c].verTop = h
        /\ \A x \in DOMAIN column : column'[x].seqNum = column[x].seqNum
        /\ \A x \in DOMAIN column \ {c} : column'[x] = column[x]
    BY <1>2, <1>3, <1>6, <1>7, Zenon
  <1>9. /\ DOMAIN vert' = DOMAIN vert \cup {v} /\ vert' \in [DOMAIN vert' -> VertexRec]
        /\ vert'[v] = n /\ \A u \in DOMAIN vert : vert'[u] = vert[u]
    BY <1>1, <1>3, <1>5, <1>7, Zenon
  <1>10. Known' = Known  BY <1>8, Zenon DEF Known
  <1> QED  BY <1>1, <1>2, <1>5, <1>7, <1>8, <1>9, <1>10, Zenon DEF c, v, h

\* The other parent is linked when it is there.
LEMMA LinkEffect ==
    ASSUME TypeOK, CallsOK, NEW w \in Worker, LinkOther(w)
    PROVE  \/ /\ UNCHANGED <<graph, column, vert, rounds>>
              /\ Goto(w, "request", loc[w])
           \/ /\ OtherParent(w) \in DOMAIN vert /\ OtherParent(w)[2] = OtherPartH[loc[w].e.SelfHash]
              /\ DOMAIN vert' = DOMAIN vert /\ vert' \in [DOMAIN vert -> VertexRec]
              /\ vert'[Self(w)].anotherPt = OtherParent(w)
              /\ \A u \in DOMAIN vert : /\ vert'[u].selfPt = vert[u].selfPt
                                        /\ vert'[u].witness = vert[u].witness
                                        /\ vert'[u].RoundID = vert[u].RoundID
              /\ \A u \in DOMAIN vert \ {Self(w)} : vert'[u] = vert[u]
              /\ UNCHANGED <<graph, column, rounds>>
              /\ Goto(w, "round", [loc[w] EXCEPT !.linkpost = FALSE])
  <1>1. CASE ~(loc[w].other # Nil /\ OtherParent(w) \in DOMAIN vert)
    BY <1>1, Zenon DEF LinkOther
  <1>2. CASE loc[w].other # Nil /\ OtherParent(w) \in DOMAIN vert
    <2> DEFINE v == Self(w)
               x == [vert[v] EXCEPT !.anotherPt = OtherParent(w)]
    <2>1. pc[w] = "link"  BY Zenon DEF LinkOther
    <2>2. v \in DOMAIN vert  BY <2>1, Zenon DEF CallsOK, CallOK, Inserted, Working, Filing
    <2>3. vert \in [DOMAIN vert -> VertexRec] /\ DOMAIN vert \subseteq Vertex  BY Types, Zenon
    <2>4. vert[v] \in VertexRec /\ OtherParent(w) \in Vertex  BY <1>2, <2>2, <2>3, Zenon
    <2>5. /\ x \in VertexRec /\ x.anotherPt = OtherParent(w) /\ x.selfPt = vert[v].selfPt
          /\ x.witness = vert[v].witness /\ x.RoundID = vert[v].RoundID
      BY <2>4, Zenon DEF VertexRec
    <2>6. /\ vert' = [vert EXCEPT ![v] = x] /\ UNCHANGED <<graph, column, rounds>>
          /\ Goto(w, "round", [loc[w] EXCEPT !.linkpost = FALSE])
      BY <1>2, Zenon DEF LinkOther
    <2>7. OtherParent(w)[2] = OtherPartH[loc[w].e.SelfHash]  BY Zenon DEF OtherParent
    <2> HIDE DEF x, v
    <2>8. /\ DOMAIN vert' = DOMAIN vert /\ vert' \in [DOMAIN vert -> VertexRec]
          /\ vert'[v] = x /\ \A u \in DOMAIN vert \ {v} : vert'[u] = vert[u]
      BY <2>2, <2>3, <2>5, <2>6, Zenon
    <2> QED  BY <1>2, <2>5, <2>6, <2>7, <2>8, Zenon DEF v
  <1> QED  BY <1>1, <1>2, Zenon

\* A new round leaves those before it as they are.
LEMMA PushEffect ==
    ASSUME TypeOK, PushRound
    PROVE  /\ DOMAIN rounds \subseteq DOMAIN rounds' /\ DOMAIN rounds' \subseteq Nat
           /\ IsFiniteSet(DOMAIN rounds') /\ rounds' \in [DOMAIN rounds' -> Round]
           /\ \A r \in DOMAIN rounds : rounds'[r] = rounds[r]
           /\ \A r \in DOMAIN rounds' \ DOMAIN rounds : rounds'[r] = NewRound
           /\ UNCHANGED <<graph, column, vert, pc, loc>>
  <1> DEFINE n == currentIdx + 1
  <1>1. rounds \in [DOMAIN rounds -> Round] /\ DOMAIN rounds \subseteq Nat /\ IsFiniteSet(DOMAIN rounds)  BY Types, Zenon
  <1>2. Cardinality(DOMAIN rounds) \in Nat  BY <1>1, FS_CardinalityType, Zenon
  <1>3. n \in Nat  BY <1>2 DEF currentIdx
  <1>4. /\ rounds' = [i \in DOMAIN rounds \cup {n} |-> IF i \in DOMAIN rounds THEN rounds[i] ELSE NewRound]
        /\ UNCHANGED <<graph, column, vert, pc, loc>>
    BY Zenon DEF PushRound
  <1>5. IsFiniteSet(DOMAIN rounds \cup {n})  BY <1>1, FS_AddElement, Zenon
  <1> HIDE DEF n
  <1>6. DOMAIN rounds' = DOMAIN rounds \cup {n}  BY <1>4, Zenon
  <1> QED  BY <1>1, <1>3, <1>4, <1>5, <1>6, NewRoundTyped, Zenon

\* A round that is replaced by another leaves the rest of queue alone.
LEMMA RoundSet ==
    ASSUME TypeOK, NEW r \in DOMAIN rounds, NEW rd \in Round, rounds' = [rounds EXCEPT ![r] = rd]
    PROVE  /\ DOMAIN rounds' = DOMAIN rounds /\ rounds' \in [DOMAIN rounds -> Round]
           /\ rounds'[r] = rd
           /\ \A q \in DOMAIN rounds \ {r} : rounds'[q] = rounds[q]
  <1>1. rounds \in [DOMAIN rounds -> Round]  BY Types, Zenon
  <1> QED  BY <1>1, Zenon

\* A witness goes to the slot of its column in the round it names, or in round 0.
LEMMA FileEffect ==
    ASSUME TypeOK, GraphOK, CallsOK, NEW w \in Worker, FileWitness(w)
    PROVE  \E r \in DOMAIN rounds :
           /\ Goto(w, "comer", [loc[w] EXCEPT !.round = r]) /\ [loc[w] EXCEPT !.round = r] \in Call
           /\ UNCHANGED <<graph, column>>
           /\ \/ UNCHANGED <<vert, rounds>>
              \/ /\ SetWitness(Self(w), Witness) /\ Self(w) \in DOMAIN vert
                 /\ DOMAIN rounds' = DOMAIN rounds /\ rounds' \in [DOMAIN rounds -> Round]
                 /\ \A q \in DOMAIN rounds \ {r} : rounds'[q] = rounds[q]
                 /\ rounds'[r].newComer = rounds[r].newComer /\ rounds'[r].ncLocked = rounds[r].ncLocked
                 /\ rounds'[r].lostDict = rounds[r].lostDict
                 /\ \A i \in DOMAIN rounds'[r].witnesses :
                      \/ i = Slot(w) /\ rounds'[r].witnesses[i] = Self(w)
                      \/ i \in DOMAIN rounds[r].witnesses /\ rounds'[r].witnesses[i] = rounds[r].witnesses[i]
  <1> DEFINE r == FindRound(loc[w].e.RoundID)
             v == Self(w)
             i == Slot(w)
             ws == rounds[r].witnesses
             new == [j \in DOMAIN ws \cup {i} |-> IF j = i THEN v ELSE ws[j]]
             rd == [rounds[r] EXCEPT !.witnesses = new]
  <1>1. pc[w] = "round"  BY Zenon DEF FileWitness
  <1>2. /\ loc[w] \in Call /\ loc[w].self \in DOMAIN column /\ v \in Vertex  BY <1>1, InCall, Zenon DEF Naming
  <1>3. v \in DOMAIN vert  BY <1>1, Zenon DEF CallsOK, CallOK, Inserted, Working, Filing
  <1>4. r \in DOMAIN rounds /\ rounds \in [DOMAIN rounds -> Round] /\ DOMAIN rounds \subseteq Nat
    BY Types, Zenon DEF FindRound
  <1>5. /\ Goto(w, "comer", [loc[w] EXCEPT !.round = r]) /\ UNCHANGED <<graph, column>>
        /\ \/ UNCHANGED <<vert, rounds>>
           \/ SetWitness(v, Witness) /\ PutWitness(r, i, v)
    BY Zenon DEF FileWitness
  <1>6. [loc[w] EXCEPT !.round = r] \in Call  BY <1>2, <1>4, Zenon DEF Call
  <1>7. CASE UNCHANGED <<vert, rounds>>  BY <1>4, <1>5, <1>6, <1>7, Zenon
  <1>8. CASE SetWitness(v, Witness) /\ PutWitness(r, i, v)
    <2>1. rounds[r] \in Round  BY <1>4, Zenon
    <2>2. column \in [DOMAIN column -> ColumnRec]  BY Types, Zenon
    <2>3. i \in Nat  BY <2>2, <1>2, Zenon DEF Slot, ColumnRec
    <2>4. ws \in Slots  BY <2>1, Zenon DEF Round
    <2>5. PICK D \in SUBSET Nat : ws \in [D -> Vertex]  BY <2>4, Zenon DEF Slots
    <2>6. DOMAIN ws = D  BY <2>5, Zenon
    <2>7. new \in [D \cup {i} -> Vertex] /\ D \cup {i} \in SUBSET Nat  BY <2>3, <2>5, <2>6, <1>2, Zenon
    <2>8. new \in Slots  BY <2>7, Zenon DEF Slots
    <2>9. \A j \in DOMAIN new : (j = i /\ new[j] = v) \/ (j \in DOMAIN ws /\ new[j] = ws[j])  BY Zenon
    <2>10. rounds' = [rounds EXCEPT ![r] = rd]  BY <1>8, Zenon DEF PutWitness
    <2> HIDE DEF new, ws
    <2>11. /\ rd \in Round /\ rd.newComer = rounds[r].newComer /\ rd.ncLocked = rounds[r].ncLocked
           /\ rd.lostDict = rounds[r].lostDict /\ rd.witnesses = new
      BY <2>1, <2>8, Zenon DEF Round
    <2> HIDE DEF rd, r, i, v
    <2>12. /\ DOMAIN rounds' = DOMAIN rounds /\ rounds' \in [DOMAIN rounds -> Round]
           /\ \A q \in DOMAIN rounds \ {r} : rounds'[q] = rounds[q]
           /\ rounds'[r] = rd
      BY <1>4, <2>10, <2>11, RoundSet, Zenon
    <2>13. /\ rounds'[r].newComer = rounds[r].newComer /\ rounds'[r].ncLocked = rounds[r].ncLocked
           /\ rounds'[r].lostDict = rounds[r].lostDict /\ rounds'[r].witnesses = new
      BY <2>11, <2>12, Zenon
    <2>14. \A j \in DOMAIN rounds'[r].witnesses :
                      \/ j = i /\ rounds'[r].witnesses[j] = v
                      \/ j \in DOMAIN rounds[r].witnesses /\ rounds'[r].witnesses[j] = rounds[r].witnesses[j]
      BY <2>9, <2>13, Zenon DEF ws
    <2> QED  BY <1>3, <1>4, <1>5, <1>6, <1>8, <2>12, <2>13, <2>14, Zenon DEF i, v
  <1> QED  BY <1>5, <1>7, <1>8, Zenon

\* addComer appends the hash, or finds it and keeps nc locked.
LEMMA ComerEffect ==
    ASSUME TypeOK, CallsOK, NEW w \in Worker, addComer(w)
    PROVE  LET r == loc[w].round  h == loc[w].e.SelfHash IN
           /\ r \in DOMAIN rounds /\ ~rounds[r].ncLocked
           /\ DOMAIN rounds' = DOMAIN rounds /\ rounds' \in [DOMAIN rounds -> Round]
           /\ \A q \in DOMAIN rounds \ {r} : rounds'[q] = rounds[q]
           /\ rounds'[r].witnesses = rounds[r].witnesses /\ rounds'[r].lostDict = rounds[r].lostDict
           /\ \/ /\ \E i \in DOMAIN rounds[r].newComer : rounds[r].newComer[i] = h
                 /\ rounds'[r].newComer = rounds[r].newComer
              \/ /\ \A i \in DOMAIN rounds[r].newComer : rounds[r].newComer[i] # h
                 /\ rounds'[r].newComer = Append(rounds[r].newComer, h)
                 /\ ~rounds'[r].ncLocked
           /\ UNCHANGED <<graph, column, vert>>
           /\ Goto(w, "lost", loc[w])
  <1> DEFINE r == loc[w].round
             h == loc[w].e.SelfHash
             rd == Comer(rounds[r], h)
  <1>1. pc[w] = "comer" /\ ~rounds[r].ncLocked  BY Zenon DEF addComer
  <1>2. r \in DOMAIN rounds  BY <1>1, Zenon DEF CallsOK, CallOK
  <1>3. h \in Hash  BY <1>1, InCall, Zenon
  <1>4. rounds[r] \in Round  BY <1>2, Types, Zenon
  <1>5. rounds' = [rounds EXCEPT ![r] = rd] /\ UNCHANGED <<graph, column, vert>> /\ Goto(w, "lost", loc[w])
    BY Zenon DEF addComer
  <1> HIDE DEF r, h
  <1>6. /\ rd \in Round /\ rd.witnesses = rounds[r].witnesses /\ rd.lostDict = rounds[r].lostDict
        /\ \/ h \in Range(rounds[r].newComer) /\ rd.newComer = rounds[r].newComer
           \/ /\ h \notin Range(rounds[r].newComer) /\ rd.newComer = Append(rounds[r].newComer, h)
              /\ ~rd.ncLocked
    <2>1. rounds[r].newComer \in Seq(Hash)  BY <1>4, Zenon DEF Round
    <2>2. Append(rounds[r].newComer, h) \in Seq(Hash)  BY <1>3, <2>1
    <2>3. CASE h \in Range(rounds[r].newComer)
      <3>1. rd = [rounds[r] EXCEPT !.ncLocked = TRUE]  BY <2>3, Zenon DEF Comer
      <3> HIDE DEF rd
      <3> QED  BY <2>3, <3>1, <1>4, Zenon DEF Round
    <2>4. CASE h \notin Range(rounds[r].newComer)
      <3>1. rd = [rounds[r] EXCEPT !.newComer = Append(rounds[r].newComer, h)]  BY <2>4, Zenon DEF Comer
      <3> HIDE DEF rd
      <3>2. rd \in Round /\ rd.witnesses = rounds[r].witnesses /\ rd.lostDict = rounds[r].lostDict
            /\ rd.newComer = Append(rounds[r].newComer, h)
        BY <2>2, <3>1, <1>4, Zenon DEF Round
      <3>3. rd.ncLocked = rounds[r].ncLocked  BY <3>1, <1>4, Zenon DEF Round
      <3> QED  BY <2>4, <3>2, <3>3, <1>1, Zenon DEF r
    <2> QED  BY <2>3, <2>4, Zenon
  <1> HIDE DEF rd
  <1>7. /\ DOMAIN rounds' = DOMAIN rounds /\ rounds' \in [DOMAIN rounds -> Round]
        /\ \A q \in DOMAIN rounds \ {r} : rounds'[q] = rounds[q]
        /\ rounds'[r] = rd
    BY <1>2, <1>5, <1>6, RoundSet, Zenon
  <1>8. h \in Range(rounds[r].newComer) <=> \E i \in DOMAIN rounds[r].newComer : rounds[r].newComer[i] = h
    BY Zenon DEF Range
  <1>9. \/ /\ \E i \in DOMAIN rounds[r].newComer : rounds[r].newComer[i] = h
           /\ rounds'[r].newComer = rounds[r].newComer
        \/ /\ \A i \in DOMAIN rounds[r].newComer : rounds[r].newComer[i] # h
           /\ rounds'[r].newComer = Append(rounds[r].newComer, h)
           /\ ~rounds'[r].ncLocked
    BY <1>6, <1>7, <1>8, Zenon
  <1>10. rounds'[r].witnesses = rounds[r].witnesses /\ rounds'[r].lostDict = rounds[r].lostDict
    BY <1>6, <1>7, Zenon
  <1> QED  BY <1>1, <1>2, <1>5, <1>7, <1>9, <1>10, Zenon DEF r, h

\* The children that waited for the vertex are linked to it, and it waits itself
\* if its other parent was not found.
LEMMA LostEffect ==
    ASSUME TypeOK, CallsOK, NEW w \in Worker, UpdateLost(w)
    PROVE  LET r == loc[w].round  h == loc[w].e.SelfHash  old == rounds[r].lostDict  new == rounds'[r].lostDict IN
           /\ r \in DOMAIN rounds /\ h \in Hash /\ Self(w) \in DOMAIN vert
           /\ DOMAIN vert' = DOMAIN vert /\ vert' \in [DOMAIN vert -> VertexRec]
           /\ \A u \in DOMAIN vert : /\ vert'[u].selfPt = vert[u].selfPt
                                     /\ vert'[u].witness = vert[u].witness
                                     /\ vert'[u].RoundID = vert[u].RoundID
           /\ \A u \in DOMAIN vert : u \in old[h] => vert'[u].anotherPt = Self(w)
           /\ \A u \in DOMAIN vert : u \notin old[h] => vert'[u] = vert[u]
           /\ DOMAIN rounds' = DOMAIN rounds /\ rounds' \in [DOMAIN rounds -> Round]
           /\ \A q \in DOMAIN rounds \ {r} : rounds'[q] = rounds[q]
           /\ rounds'[r].witnesses = rounds[r].witnesses /\ rounds'[r].newComer = rounds[r].newComer
           /\ rounds'[r].ncLocked = rounds[r].ncLocked
           /\ \A g \in Pointer : \A v : v \in new[g] <=> \/ v \in old[g] /\ g # h
                                                         \/ loc[w].linkpost /\ g = OtherPartH[h] /\ v = Self(w)
           /\ UNCHANGED <<graph, column>>
           /\ Goto(w, "notify", loc[w])
  <1> DEFINE r == loc[w].round
             h == loc[w].e.SelfHash
             g0 == OtherPartH[h]
             me == Self(w)
             old == rounds[r].lostDict
             dict == Resolved(old, h)
             new == IF MustWait(w) THEN [dict EXCEPT ![g0] = @ \cup {me}] ELSE dict
             rd == [rounds[r] EXCEPT !.lostDict = new]
             linked(u) == [vert[u] EXCEPT !.anotherPt = me]
  <1>1. pc[w] = "lost"  BY Zenon DEF UpdateLost
  <1>2. r \in DOMAIN rounds /\ me \in DOMAIN vert
    BY <1>1, Zenon DEF CallsOK, CallOK, Inserted, Working
  <1>3. h \in Hash /\ g0 \in Pointer /\ h \in Pointer  BY <1>1, InCall, Zenon DEF Pointer
  <1>4. rounds[r] \in Round /\ vert \in [DOMAIN vert -> VertexRec] /\ me \in Vertex  BY <1>2, Types, Zenon
  <1>5. /\ vert' = [u \in DOMAIN vert |-> IF u \in old[h] THEN linked(u) ELSE vert[u]]
        /\ rounds' = [rounds EXCEPT ![r] = rd]
        /\ UNCHANGED <<graph, column>> /\ Goto(w, "notify", loc[w])
    BY Zenon DEF UpdateLost, Waiter
  <1>6. old \in [Pointer -> SUBSET Vertex]  BY <1>4, Zenon DEF Round
  <1>7. dict \in [Pointer -> SUBSET Vertex] /\ dict[h] = {} /\ \A g \in Pointer : g # h => dict[g] = old[g]
    BY <1>3, <1>6, Zenon DEF Resolved
  <1> HIDE DEF r, h, g0, me, old, dict
  <1>8. /\ new \in [Pointer -> SUBSET Vertex]
        /\ \A g \in Pointer : \A v : v \in new[g] <=> \/ v \in old[g] /\ g # h
                                                      \/ loc[w].linkpost /\ g = g0 /\ v = me
    <2>1. CASE loc[w].linkpost
      <3>1. new = [dict EXCEPT ![g0] = @ \cup {me}]  BY <2>1, Zenon DEF MustWait
      <3> HIDE DEF new
      <3>2. new = [dict EXCEPT ![g0] = dict[g0] \cup {me}] /\ dict[g0] \cup {me} \in SUBSET Vertex
        BY <3>1, <1>3, <1>4, <1>7, Zenon
      <3>3. /\ new \in [Pointer -> SUBSET Vertex] /\ new[g0] = dict[g0] \cup {me}
            /\ \A g \in Pointer : g # g0 => new[g] = dict[g]
        BY <3>2, <1>3, <1>7, Zenon
      <3> QED  BY <2>1, <3>3, <1>3, <1>7, Zenon
    <2>2. CASE ~loc[w].linkpost
      <3>1. new = dict  BY <2>2, Zenon DEF MustWait
      <3> HIDE DEF new
      <3> QED  BY <2>2, <3>1, <1>3, <1>7, Zenon
    <2> QED  BY <2>1, <2>2, Zenon
  <1> HIDE DEF new
  <1>9. /\ rd \in Round /\ rd.witnesses = rounds[r].witnesses /\ rd.newComer = rounds[r].newComer
        /\ rd.ncLocked = rounds[r].ncLocked /\ rd.lostDict = new
    BY <1>4, <1>8, Zenon DEF Round
  <1> HIDE DEF rd
  <1>10. /\ DOMAIN rounds' = DOMAIN rounds /\ rounds' \in [DOMAIN rounds -> Round]
         /\ \A q \in DOMAIN rounds \ {r} : rounds'[q] = rounds[q]
         /\ rounds'[r] = rd
    BY <1>2, <1>5, <1>9, RoundSet, Zenon
  <1>11. \A u \in DOMAIN vert : /\ linked(u) \in VertexRec /\ linked(u).selfPt = vert[u].selfPt
                                /\ linked(u).witness = vert[u].witness /\ linked(u).RoundID = vert[u].RoundID
                                /\ linked(u).anotherPt = me
    <2> TAKE u \in DOMAIN vert
    <2>1. vert[u] \in VertexRec  BY <1>4, Zenon
    <2> QED  BY <2>1, <1>4, Zenon DEF VertexRec
  <1> HIDE DEF linked
  <1>12. /\ DOMAIN vert' = DOMAIN vert
         /\ \A u \in DOMAIN vert : u \in old[h] => vert'[u] = linked(u)
         /\ \A u \in DOMAIN vert : u \notin old[h] => vert'[u] = vert[u]
    BY <1>5, Zenon
  <1>13. vert' \in [DOMAIN vert -> VertexRec]  BY <1>4, <1>5, <1>11, Zenon
  <1>14. \A u \in DOMAIN vert : /\ vert'[u].selfPt = vert[u].selfPt /\ vert'[u].witness = vert[u].witness
                                /\ vert'[u].RoundID = vert[u].RoundID
                                /\ u \in old[h] => vert'[u].anotherPt = me
    BY <1>11, <1>12, Zenon
  <1>15. rounds'[r].lostDict = new  BY <1>9, <1>10, Zenon
  <1>16. /\ rounds'[r].witnesses = rounds[r].witnesses /\ rounds'[r].newComer = rounds[r].newComer
         /\ rounds'[r].ncLocked = rounds[r].ncLocked
    BY <1>9, <1>10, Zenon
  <1>17. \A g \in Pointer : \A v : v \in rounds'[r].lostDict[g] <=> \/ v \in old[g] /\ g # h
                                                                    \/ loc[w].linkpost /\ g = g0 /\ v = me
    BY <1>8, <1>15, Zenon
  <1> QED  BY <1>2, <1>3, <1>5, <1>10, <1>12, <1>13, <1>14, <1>16, <1>17, Zenon DEF r, h, g0, me, old

----------------------------------------------------------------------------
(* How a goroutine moves.                                                   *)

\* w goes to p, before the vertex is inserted, with locals l that are in order.
Arrives(w, p, l) ==
    /\ p \in {"insert", "check"} /\ l \in Call /\ Goto(w, p, l)
    /\ l.e \in Event /\ l.linkpost
    /\ l.self # Nil => l.self \in DOMAIN column /\ l.self[1] = SelfSig[l.e.SelfHash]
    /\ ~l.ok2 => l.e.OtherPartA \in Address
    /\ IF p = "check" THEN l.self = Nil \/ ~l.ok2 ELSE l.self # Nil

\* The locations where a vertex is in the hands of its goroutine, and the vertex
\* there, are the same before and after the step.
Steady ==
    \A x \in Worker :
        /\ pc'[x] \in Working <=> pc[x] \in Working
        /\ pc'[x] \in Filing <=> pc[x] \in Filing
        /\ pc[x] \in Working => Self(x)' = Self(x)

\* AddEvent starts with what the graph holds.
LEMMA AddEventArrives ==
    ASSUME TypeOK, GraphOK, NEW w \in Worker, NEW e \in Copy[Known], NEW ty \in GivenType[Known], AddEvent(w, e, ty)
    PROVE  /\ pc[w] = "idle" /\ \E p, l : Arrives(w, p, l)
           /\ UNCHANGED <<graph, column, vert, rounds>>
  <1> DEFINE self  == graph[SelfSig[e.SelfHash]]
             other == IF e.OtherPartA = ZeroAddr THEN Nil ELSE graph[e.OtherPartA]
             ok2   == e.OtherPartA = ZeroAddr \/ other # Nil
             p == IF self # Nil /\ ok2 THEN "insert" ELSE "check"
             l == [NoCall EXCEPT !.e = e, !.ty = ty, !.self = self, !.other = other,
                                 !.ok2 = ok2, !.firstWitness = (self = Nil)]
  <1>1. pc[w] = "idle" /\ Goto(w, p, l) /\ UNCHANGED <<graph, column, vert, rounds>>
    BY Zenon DEF AddEvent, core
  <1>2. Known \in Start /\ graph \in [Address -> Column \cup {Nil}]  BY Types, Zenon
  <1>3. e \in Event /\ ty \in 0..2  BY <1>2, GraphAssumption DEF Normal, Witness
  <1>4. e.SelfHash \in Hash /\ e.OtherPartA \in Address \cup {ZeroAddr}  BY <1>3, Zenon DEF Event
  <1>5. SelfSig[e.SelfHash] \in Address  BY <1>4, GraphAssumption, Zenon
  <1>6. self \in Column \cup {Nil} /\ other \in Column \cup {Nil}  BY <1>2, <1>4, <1>5, Zenon
  <1>7. self # Nil => self \in DOMAIN column /\ self[1] = SelfSig[e.SelfHash]  BY <1>5, Zenon DEF GraphOK
  <1>8. ok2 \in BOOLEAN /\ (~ok2 => e.OtherPartA \in Address)  BY <1>4, Zenon
  <1> HIDE DEF self, other, ok2
  <1>9. (self = Nil) \in BOOLEAN /\ NoCall \in Call /\ NoCall.linkpost  BY NoCallTyped, Zenon DEF NoCall
  <1> DEFINE fw == (self = Nil)
  <1> HIDE DEF fw
  <1>10. l \in Call  BY <1>3, <1>6, <1>8, <1>9, Zenon DEF Call, fw
  <1>11. l.e = e /\ l.self = self /\ l.ok2 = ok2 /\ l.linkpost = NoCall.linkpost  BY <1>3, <1>6, <1>8, <1>9, Zenon DEF Call
  <1> HIDE DEF l
  <1>12. IF p = "check" THEN l.self = Nil \/ ~l.ok2 ELSE l.self # Nil  BY <1>11, Zenon
  <1>13. p \in {"insert", "check"}  BY Zenon
  <1> HIDE DEF p
  <1>14. ~l.ok2 => l.e.OtherPartA \in Address  BY <1>8, <1>11, Zenon
  <1>15. l.self # Nil => l.self \in DOMAIN column /\ l.self[1] = SelfSig[l.e.SelfHash]  BY <1>7, <1>11, Zenon
  <1>16. Arrives(w, p, l)  BY <1>1, <1>3, <1>9, <1>10, <1>11, <1>12, <1>13, <1>14, <1>15, Zenon DEF Arrives
  <1> QED  BY <1>1, <1>16, Zenon

\* AddNode returns a column of the node it was called for.
LEMMA NodeAddedArrives ==
    ASSUME TypeOK, CallsOK, NEW w \in Worker, pc[w] \in Naming,
           NEW c \in DOMAIN column, c[1] = NodeArg(w), NodeAdded(w, c)
    PROVE  \E p, l : Arrives(w, p, l)
  <1>1. pc[w] # "idle"  BY Zenon DEF Naming
  <1>2. loc[w] \in Call /\ loc[w].e \in Event  BY <1>1, InCall, Zenon
  <1>3. c \in Column /\ c # Nil  BY Types, GraphAssumption, Zenon
  <1>4. /\ loc[w].self # Nil => loc[w].self \in DOMAIN column /\ loc[w].self[1] = SelfSig[loc[w].e.SelfHash]
        /\ ~loc[w].ok2 => loc[w].e.OtherPartA \in Address
        /\ loc[w].linkpost
    <2>1. CallOK(w)  BY Zenon DEF CallsOK
    <2>2. pc[w] \notin {"round", "comer", "lost", "notify", "trigger"}  BY Zenon DEF Naming
    <2> QED  BY <1>1, <2>1, <2>2, Zenon DEF CallOK
  <1>5. CASE loc[w].self = Nil
    <2> DEFINE p == IF loc[w].ok2 THEN "insert" ELSE "check"
               l == [loc[w] EXCEPT !.self = c]
    <2>1. l \in Call /\ l.e = loc[w].e /\ l.self = c /\ l.ok2 = loc[w].ok2 /\ l.linkpost = loc[w].linkpost
      BY <1>2, <1>3, Zenon DEF Call
    <2>2. Goto(w, p, l)  BY <1>5, Zenon DEF NodeAdded
    <2>3. p \in {"insert", "check"} /\ (p = "check" => ~loc[w].ok2)  BY Zenon
    <2> HIDE DEF p, l
    <2>4. c[1] = SelfSig[l.e.SelfHash]  BY <1>5, <2>1, Zenon DEF NodeArg
    <2> QED  BY <1>2, <1>3, <1>4, <2>1, <2>2, <2>3, <2>4, Zenon DEF Arrives
  <1>6. CASE loc[w].self # Nil
    <2> DEFINE l == [loc[w] EXCEPT !.other = c]
    <2>1. l \in Call /\ l.e = loc[w].e /\ l.self = loc[w].self /\ l.ok2 = loc[w].ok2 /\ l.linkpost = loc[w].linkpost
      BY <1>2, <1>3, Zenon DEF Call
    <2>2. Goto(w, "insert", l)  BY <1>6, Zenon DEF NodeAdded
    <2> HIDE DEF l
    <2>3. "insert" # "check"  BY Zenon
    <2> QED  BY <1>2, <1>4, <1>6, <2>1, <2>2, <2>3, Zenon DEF Arrives
  <1> QED  BY <1>5, <1>6, Zenon

\* AddNode finds a column, or goes on to make one.
LEMMA CheckEffect ==
    ASSUME TypeOK, GraphOK, CallsOK, NEW w \in Worker, AddNodeCheck(w)
    PROVE  /\ pc[w] = "check" /\ UNCHANGED <<graph, column, vert, rounds>>
           /\ \/ \E p, l : Arrives(w, p, l)
              \/ Goto(w, "put", loc[w]) /\ <<NodeArg(w), w>> \notin DOMAIN column
  <1> DEFINE a == NodeArg(w)
  <1>1. pc[w] = "check" /\ UNCHANGED <<graph, column, vert, rounds>>  BY Zenon DEF AddNodeCheck, core
  <1>2. a \in Address /\ pc[w] \in Naming  BY <1>1, InCall, Zenon DEF Naming
  <1>3. CASE graph[a] # Nil
    <2>1. graph[a] \in DOMAIN column /\ graph[a][1] = a  BY <1>2, <1>3, Zenon DEF GraphOK
    <2>2. NodeAdded(w, graph[a])  BY <1>3, Zenon DEF AddNodeCheck
    <2> QED  BY <1>1, <1>2, <2>1, <2>2, NodeAddedArrives, Zenon
  <1>4. CASE graph[a] = Nil
    <2>1. Goto(w, "put", loc[w])  BY <1>4, Zenon DEF AddNodeCheck
    <2>2. <<a, w>>[1] = a  BY Zenon
    <2>3. <<a, w>> \notin DOMAIN column  BY <1>4, <2>2, Zenon DEF GraphOK
    <2> QED  BY <1>1, <2>1, <2>3, Zenon
  <1> QED  BY <1>3, <1>4, Zenon

\* AddNode returns the column it made.
LEMMA MajorArrives ==
    ASSUME TypeOK, CallsOK, NEW w \in Worker, AddNodeMajor(w)
    PROVE  pc[w] = "major" /\ \E p, l : Arrives(w, p, l)
  <1>1. pc[w] = "major"  BY Zenon DEF AddNodeMajor
  <1>2. pc[w] \in Naming  BY <1>1, Zenon DEF Naming
  <1>3. /\ <<NodeArg(w), w>> \in DOMAIN column /\ <<NodeArg(w), w>>[1] = NodeArg(w)
        /\ NodeAdded(w, <<NodeArg(w), w>>)
    BY MajorEffect, Zenon
  <1> QED  BY <1>1, <1>2, <1>3, NodeAddedArrives, Zenon

\* The event is there: AddEvent returns, or makes it a witness and triggers.
LEMMA ExistsEffect ==
    ASSUME TypeOK, CallsOK, NEW w \in Worker, EventExists(w)
    PROVE  /\ pc[w] = "insert" /\ Self(w) \in DOMAIN vert /\ UNCHANGED <<graph, column, rounds>>
           /\ \/ UNCHANGED vert /\ Goto(w, "idle", NoCall)
              \/ SetWitness(Self(w), Witness) /\ Goto(w, "trigger", loc[w])
  BY Zenon DEF EventExists, Present, Return

----------------------------------------------------------------------------
(* Every step keeps the invariant, one part after the other.                *)

\* A goroutine that arrives before the insertion is not in the way of others.
LEMMA ArrivesTyped ==
    ASSUME TypeOK, NEW w \in Worker, NEW p, NEW l, Arrives(w, p, l)
    PROVE  /\ pc' \in [Worker -> Location] /\ loc' \in [Worker -> Call]
           /\ pc'[w] = p /\ loc'[w] = l /\ p \in {"insert", "check"}
           /\ \A x \in Worker \ {w} : pc'[x] = pc[x] /\ loc'[x] = loc[x]
  <1>1. p \in {"insert", "check"} /\ l \in Call /\ Goto(w, p, l)  BY Zenon DEF Arrives
  <1>2. p \in Location  BY <1>1, Zenon DEF Location, Naming
  <1> QED  BY <1>1, <1>2, Moved, Zenon

\* Types, for an action of goroutine w.
LEMMA WorkerTypes ==
    ASSUME TypeOK, GraphOK, CallsOK, NEW w \in Worker, WorkerStep(w)
    PROVE  /\ TypeOK'
           /\ \A x \in Worker \ {w} : pc'[x] = pc[x] /\ loc'[x] = loc[x]
  <1> DEFINE Q == \A x \in Worker \ {w} : pc'[x] = pc[x] /\ loc'[x] = loc[x]
  <1> USE Types
  <1>1. ASSUME NEW p \in Location, NEW l \in Call, Goto(w, p, l)
        PROVE  pc' \in [Worker -> Location] /\ loc' \in [Worker -> Call] /\ Q
    BY <1>1, Moved, Zenon
  <1>2. {"idle", "insert", "check", "put", "major", "link", "request", "round", "comer", "lost", "notify", "trigger"} \subseteq Location
    BY Zenon DEF Location, Naming, Inserted, Working, Filing
  <1>3. loc[w] \in Call /\ NoCall \in Call  BY NoCallTyped, Zenon
  <1>4. ASSUME UNCHANGED column  PROVE Known' = Known /\ DOMAIN column' = DOMAIN column  BY <1>4, Zenon DEF Known
  <1>5. ASSUME UNCHANGED <<graph, column, vert, rounds>>, NEW p \in Location, NEW l \in Call, Goto(w, p, l)
        PROVE  TypeOK' /\ Q
    <2>1. UNCHANGED graph /\ UNCHANGED column /\ UNCHANGED vert /\ UNCHANGED rounds  BY <1>5, Zenon
    <2>2. DOMAIN vert' = DOMAIN vert /\ DOMAIN rounds' = DOMAIN rounds  BY <2>1, Zenon
    <2> QED  BY <2>1, <2>2, <1>4, <1>5, <1>1, Typed, Zenon
  <1>6. ASSUME UNCHANGED <<graph, column, vert, rounds>>, NEW p, NEW l, Arrives(w, p, l)
        PROVE  TypeOK' /\ Q
    <2>1. p \in {"insert", "check"} /\ l \in Call /\ Goto(w, p, l)  BY <1>6, Zenon DEF Arrives
    <2>2. p \in Location  BY <1>2, <2>1, Zenon
    <2> QED  BY <2>1, <2>2, <1>6, <1>5, Zenon
  <1>7. CASE AddNodeCheck(w)
    <2>1. UNCHANGED <<graph, column, vert, rounds>> /\ ((\E p, l : Arrives(w, p, l)) \/ Goto(w, "put", loc[w]))
      BY <1>7, CheckEffect, Zenon
    <2>2. "put" \in Location  BY <1>2, Zenon
    <2> QED  BY <2>1, <2>2, <1>3, <1>5, <1>6, Zenon
  <1>8. CASE AddNodePut(w)
    <2> DEFINE l == [loc[w] EXCEPT !.mlen = NodeCount]
    <2> HIDE DEF l
    <2>1. /\ column' \in [DOMAIN column' -> ColumnRec] /\ DOMAIN column' \subseteq Column
          /\ graph' \in [Address -> Column \cup {Nil}]
          /\ Known' = Known /\ UNCHANGED <<vert, rounds>>
          /\ Goto(w, "major", l) /\ l \in Call
      BY <1>8, PutEffect, Zenon DEF l
    <2>2. "major" \in Location  BY <1>2, Zenon
    <2>3. UNCHANGED vert /\ UNCHANGED rounds /\ DOMAIN vert' = DOMAIN vert /\ DOMAIN rounds' = DOMAIN rounds  BY <2>1, Zenon
    <2> QED  BY <2>1, <2>2, <2>3, <1>1, Typed, Zenon
  <1>9. CASE AddNodeMajor(w)
    <2>1. PICK p, l : Arrives(w, p, l)  BY <1>9, MajorArrives, Zenon
    <2>2. DOMAIN column' = DOMAIN column /\ column' \in [DOMAIN column -> ColumnRec] /\ Known' = Known
          /\ UNCHANGED <<graph, vert, rounds>>
      BY <1>9, MajorEffect, Zenon
    <2>3. UNCHANGED graph /\ UNCHANGED vert /\ UNCHANGED rounds /\ DOMAIN vert' = DOMAIN vert /\ DOMAIN rounds' = DOMAIN rounds
      BY <2>2, Zenon
    <2> QED  BY <2>1, <2>2, <2>3, ArrivesTyped, Typed, Zenon
  <1>10. CASE EventExists(w)
    <2>1. /\ Self(w) \in DOMAIN vert /\ UNCHANGED <<graph, column, rounds>>
          /\ \/ UNCHANGED vert /\ Goto(w, "idle", NoCall)
             \/ SetWitness(Self(w), Witness) /\ Goto(w, "trigger", loc[w])
      BY <1>10, ExistsEffect, Zenon
    <2>2. "idle" \in Location /\ "trigger" \in Location  BY <1>2, Zenon
    <2>3. CASE UNCHANGED vert /\ Goto(w, "idle", NoCall)
      <3>1. UNCHANGED <<graph, column, vert, rounds>>  BY <2>1, <2>3, Zenon
      <3> QED  BY <3>1, <2>3, <2>2, <1>3, <1>5, Zenon
    <2>4. CASE SetWitness(Self(w), Witness) /\ Goto(w, "trigger", loc[w])
      <3>1. DOMAIN vert' = DOMAIN vert /\ vert' \in [DOMAIN vert -> VertexRec]  BY <2>1, <2>4, WitnessEffect, Zenon
      <3>2. UNCHANGED graph /\ UNCHANGED column /\ UNCHANGED rounds /\ DOMAIN rounds' = DOMAIN rounds  BY <2>1, Zenon
      <3> QED  BY <3>1, <3>2, <2>2, <2>4, <1>1, <1>3, <1>4, Typed, Zenon
    <2> QED  BY <2>1, <2>3, <2>4, Zenon
  <1>11. CASE TriggerRound(w) \/ NotifySelf(w) \/ RequestParentEvent(w)
    <2>1. UNCHANGED <<graph, column, vert, rounds>> /\ (Goto(w, "idle", NoCall) \/ Goto(w, "round", loc[w]))
      BY <1>11, Zenon DEF TriggerRound, NotifySelf, RequestParentEvent, Return, core
    <2>2. "idle" \in Location /\ "round" \in Location  BY <1>2, Zenon
    <2> QED  BY <2>1, <2>2, <1>3, <1>5, Zenon
  <1>12. CASE InsertVertex(w)
    <2>1. /\ Self(w) \in Vertex
          /\ DOMAIN vert' = DOMAIN vert \cup {Self(w)} /\ vert' \in [DOMAIN vert' -> VertexRec]
          /\ DOMAIN column' = DOMAIN column /\ column' \in [DOMAIN column -> ColumnRec] /\ Known' = Known
          /\ UNCHANGED <<graph, rounds>> /\ Goto(w, "link", loc[w])
      BY <1>12, InsertEffect, Zenon
    <2>2. "link" \in Location  BY <1>2, Zenon
    <2>3. UNCHANGED graph /\ UNCHANGED rounds /\ DOMAIN rounds' = DOMAIN rounds  BY <2>1, Zenon
    <2>4. DOMAIN vert' \subseteq Vertex  BY <2>1, Zenon
    <2> QED  BY <2>1, <2>2, <2>3, <2>4, <1>1, <1>3, Typed, Zenon
  <1>13. CASE LinkOther(w)
    <2> DEFINE l == [loc[w] EXCEPT !.linkpost = FALSE]
    <2>1. l \in Call  BY <1>3, Zenon DEF Call
    <2>2. "request" \in Location /\ "round" \in Location  BY <1>2, Zenon
    <2> HIDE DEF l
    <2>3. CASE UNCHANGED <<graph, column, vert, rounds>> /\ Goto(w, "request", loc[w])
      BY <2>2, <2>3, <1>3, <1>5, Zenon
    <2>4. CASE /\ DOMAIN vert' = DOMAIN vert /\ vert' \in [DOMAIN vert -> VertexRec]
               /\ UNCHANGED <<graph, column, rounds>> /\ Goto(w, "round", l)
      <3>1. UNCHANGED graph /\ UNCHANGED column /\ UNCHANGED rounds /\ DOMAIN rounds' = DOMAIN rounds  BY <2>4, Zenon
      <3> QED  BY <3>1, <2>1, <2>2, <2>4, <1>1, <1>4, Typed, Zenon
    <2> QED  BY <1>13, LinkEffect, <2>3, <2>4, Zenon DEF l
  <1>14. CASE FileWitness(w)
    <2>1. PICK r \in DOMAIN rounds :
           /\ Goto(w, "comer", [loc[w] EXCEPT !.round = r]) /\ [loc[w] EXCEPT !.round = r] \in Call
           /\ UNCHANGED <<graph, column>>
           /\ \/ UNCHANGED <<vert, rounds>>
              \/ /\ SetWitness(Self(w), Witness) /\ Self(w) \in DOMAIN vert
                 /\ DOMAIN rounds' = DOMAIN rounds /\ rounds' \in [DOMAIN rounds -> Round]
      BY <1>14, FileEffect, Zenon
    <2>2. "comer" \in Location  BY <1>2, Zenon
    <2>3. CASE UNCHANGED <<vert, rounds>>
      <3>1. UNCHANGED <<graph, column, vert, rounds>>  BY <2>1, <2>3, Zenon
      <3> QED  BY <3>1, <2>1, <2>2, <1>5, Zenon
    <2>4. CASE /\ SetWitness(Self(w), Witness) /\ Self(w) \in DOMAIN vert
               /\ DOMAIN rounds' = DOMAIN rounds /\ rounds' \in [DOMAIN rounds -> Round]
      <3>1. DOMAIN vert' = DOMAIN vert /\ vert' \in [DOMAIN vert -> VertexRec]  BY <2>4, WitnessEffect, Zenon
      <3>2. UNCHANGED graph /\ UNCHANGED column  BY <2>1, Zenon
      <3> QED  BY <3>1, <3>2, <2>1, <2>2, <2>4, <1>1, <1>4, Typed, Zenon
    <2> QED  BY <2>1, <2>3, <2>4, Zenon
  <1>15. CASE addComer(w)
    <2>1. /\ DOMAIN rounds' = DOMAIN rounds /\ rounds' \in [DOMAIN rounds -> Round]
          /\ UNCHANGED <<graph, column, vert>> /\ Goto(w, "lost", loc[w])
      BY <1>15, ComerEffect, Zenon
    <2>2. "lost" \in Location  BY <1>2, Zenon
    <2>3. UNCHANGED graph /\ UNCHANGED column /\ UNCHANGED vert /\ DOMAIN vert' = DOMAIN vert  BY <2>1, Zenon
    <2> QED  BY <2>1, <2>2, <2>3, <1>1, <1>3, <1>4, Typed, Zenon
  <1>16. CASE UpdateLost(w)
    <2>1. /\ DOMAIN rounds' = DOMAIN rounds /\ rounds' \in [DOMAIN rounds -> Round]
          /\ DOMAIN vert' = DOMAIN vert /\ vert' \in [DOMAIN vert -> VertexRec]
          /\ UNCHANGED <<graph, column>> /\ Goto(w, "notify", loc[w])
      BY <1>16, LostEffect, Zenon
    <2>2. "notify" \in Location  BY <1>2, Zenon
    <2>3. UNCHANGED graph /\ UNCHANGED column  BY <2>1, Zenon
    <2> QED  BY <2>1, <2>2, <2>3, <1>1, <1>3, <1>4, Typed, Zenon
  <1> QED  BY <1>7, <1>8, <1>9, <1>10, <1>11, <1>12, <1>13, <1>14, <1>15, <1>16, Zenon DEF WorkerStep

\* Every step is one that changes nothing of the graph, or one of eight actions;
\* only the last three change which vertices are in the hands of a goroutine.
LEMMA StepCases ==
    ASSUME TypeOK, GraphOK, CallsOK, [Next]_vars
    PROVE  \/ Steady /\ UNCHANGED <<graph, column, vert, rounds>>
           \/ Steady /\ PushRound
           \/ \E w \in Worker : Steady /\ AddNodePut(w)
           \/ \E w \in Worker : Steady /\ AddNodeMajor(w)
           \/ \E w \in Worker : Steady /\ EventExists(w)
           \/ \E w \in Worker : Steady /\ LinkOther(w)
           \/ \E w \in Worker : Steady /\ FileWitness(w)
           \/ \E w \in Worker : InsertVertex(w)
           \/ \E w \in Worker : addComer(w)
           \/ \E w \in Worker : UpdateLost(w)
  <1> DEFINE Others(w) == \A x \in Worker \ {w} : pc'[x] = pc[x] /\ loc'[x] = loc[x]
             Same == UNCHANGED <<graph, column, vert, rounds>>
  <1>1. ASSUME NEW w \in Worker, Others(w), pc[w] \notin Working, pc'[w] \notin Working  PROVE Steady
    BY <1>1, Zenon DEF Steady, Self, Working, Filing
  <1>2. ASSUME NEW w \in Worker, Others(w), pc[w] \in Filing, pc'[w] \in Filing,
               loc'[w].self = loc[w].self, loc'[w].e = loc[w].e
        PROVE  Steady
    BY <1>2, Zenon DEF Steady, Self, Working, Filing
  <1>3. {"idle", "insert", "check", "put", "major", "trigger", "notify"} \cap Working = {} /\ {"link", "request", "round", "comer"} = Filing
    BY Zenon DEF Working, Filing
  <1>4. ASSUME NEW w \in Worker, NEW p, NEW l, Arrives(w, p, l), pc[w] \in {"idle", "check", "major"}
        PROVE  Steady
    <2>1. pc'[w] = p /\ p \in {"insert", "check"} /\ Others(w)  BY <1>4, ArrivesTyped, Zenon
    <2>2. pc[w] \notin Working /\ pc'[w] \notin Working  BY <2>1, <1>3, <1>4, Zenon
    <2> QED  BY <2>1, <2>2, <1>1, Zenon
  <1>5. loc \in [Worker -> Call] /\ pc \in [Worker -> Location]  BY Types, Zenon
  <1>6. ASSUME NEW w \in Worker, NEW p, NEW l, Goto(w, p, l)  PROVE pc'[w] = p /\ loc'[w] = l
    BY <1>5, <1>6, Zenon DEF Goto
  <1>7. CASE UNCHANGED vars
    <2>1. UNCHANGED <<graph, column, vert, rounds>> /\ UNCHANGED pc /\ UNCHANGED loc  BY <1>7, Zenon DEF vars, core
    <2> QED  BY <2>1, Zenon DEF Steady, Self
  <1>8. CASE TakeTrigger \/ TakeSelfEvent \/ TakeRequest
    <2>1. UNCHANGED <<graph, column, vert, rounds>> /\ UNCHANGED pc /\ UNCHANGED loc
      BY <1>8, Zenon DEF TakeTrigger, TakeSelfEvent, TakeRequest, core
    <2> QED  BY <2>1, Zenon DEF Steady, Self
  <1>9. CASE PushRound
    <2>1. UNCHANGED pc /\ UNCHANGED loc  BY <1>9, Zenon DEF PushRound
    <2> QED  BY <2>1, <1>9, Zenon DEF Steady, Self
  <1>10. ASSUME NEW w \in Worker, NEW e \in Copy[Known], NEW ty \in GivenType[Known], AddEvent(w, e, ty)
         PROVE  Steady /\ Same
    <2>1. pc[w] = "idle" /\ (\E p, l : Arrives(w, p, l)) /\ Same  BY <1>10, AddEventArrives, Zenon
    <2>2. pc[w] \in {"idle", "check", "major"}  BY <2>1, Zenon
    <2> QED  BY <2>1, <2>2, <1>4, Zenon
  <1>11. ASSUME NEW w \in Worker, WorkerStep(w)
         PROVE  \/ Steady /\ Same
                \/ Steady /\ AddNodePut(w)
                \/ Steady /\ AddNodeMajor(w)
                \/ Steady /\ EventExists(w)
                \/ Steady /\ LinkOther(w)
                \/ Steady /\ FileWitness(w)
                \/ InsertVertex(w)
                \/ addComer(w)
                \/ UpdateLost(w)
    <2>1. Others(w)  BY <1>11, WorkerTypes, Zenon
    <2>2. CASE AddNodeCheck(w)
      <3>1. pc[w] = "check" /\ Same /\ ((\E p, l : Arrives(w, p, l)) \/ Goto(w, "put", loc[w]))
        BY <2>2, CheckEffect, Zenon
      <3>2. CASE \E p, l : Arrives(w, p, l)
        <4>1. pc[w] \in {"idle", "check", "major"}  BY <3>1, Zenon
        <4> QED  BY <3>1, <3>2, <4>1, <1>4, Zenon
      <3>3. CASE Goto(w, "put", loc[w])
        <4>1. pc'[w] = "put"  BY <3>3, <1>6, Zenon
        <4>2. pc[w] \notin Working /\ pc'[w] \notin Working  BY <3>1, <4>1, <1>3, Zenon
        <4> QED  BY <3>1, <4>2, <2>1, <1>1, Zenon
      <3> QED  BY <3>1, <3>2, <3>3, Zenon
    <2>3. CASE AddNodePut(w)
      <3>1. pc[w] = "put"  BY <2>3, Zenon DEF AddNodePut
      <3>2. pc'[w] = "major"  BY <2>3, <1>6, Zenon DEF AddNodePut
      <3> QED  BY <3>1, <3>2, <2>1, <2>3, <1>1, <1>3, Zenon
    <2>4. CASE AddNodeMajor(w)
      <3>1. pc[w] = "major" /\ \E p, l : Arrives(w, p, l)  BY <2>4, MajorArrives, Zenon
      <3>2. pc[w] \in {"idle", "check", "major"}  BY <3>1, Zenon
      <3> QED  BY <3>1, <3>2, <2>4, <1>4, Zenon
    <2>5. CASE EventExists(w)
      <3>1. pc[w] = "insert" /\ (Goto(w, "idle", NoCall) \/ Goto(w, "trigger", loc[w]))  BY <2>5, ExistsEffect, Zenon
      <3>2. pc'[w] \in {"idle", "trigger"}  BY <3>1, <1>6, Zenon
      <3> QED  BY <3>1, <3>2, <2>1, <2>5, <1>1, <1>3, Zenon
    <2>6. CASE TriggerRound(w) \/ NotifySelf(w)
      <3>1. pc[w] \in {"trigger", "notify"} /\ Goto(w, "idle", NoCall) /\ Same
        BY <2>6, Zenon DEF TriggerRound, NotifySelf, Return, core
      <3>2. pc'[w] = "idle"  BY <3>1, <1>6, Zenon
      <3> QED  BY <3>1, <3>2, <2>1, <1>1, <1>3, Zenon
    <2>7. CASE RequestParentEvent(w)
      <3>1. pc[w] = "request" /\ Goto(w, "round", loc[w]) /\ Same
        BY <2>7, Zenon DEF RequestParentEvent, core
      <3>2. pc'[w] = "round" /\ loc'[w] = loc[w]  BY <3>1, <1>6, Zenon
      <3> QED  BY <3>1, <3>2, <2>1, <1>2, <1>3, Zenon
    <2>8. CASE LinkOther(w)
      <3>1. pc[w] = "link"  BY <2>8, Zenon DEF LinkOther
      <3>2. Goto(w, "request", loc[w]) \/ Goto(w, "round", [loc[w] EXCEPT !.linkpost = FALSE])  BY <2>8, Zenon DEF LinkOther
      <3>3. pc'[w] \in {"request", "round"} /\ (loc'[w] = loc[w] \/ loc'[w] = [loc[w] EXCEPT !.linkpost = FALSE])
        BY <3>2, <1>6, Zenon
      <3>4. loc[w] \in Call  BY <1>5, Zenon
      <3>5. loc'[w].self = loc[w].self /\ loc'[w].e = loc[w].e  BY <3>3, <3>4, Zenon DEF Call
      <3> QED  BY <3>1, <3>3, <3>5, <2>1, <2>8, <1>2, <1>3, Zenon
    <2>9. CASE FileWitness(w)
      <3>1. pc[w] = "round"  BY <2>9, Zenon DEF FileWitness
      <3>2. PICK r : Goto(w, "comer", [loc[w] EXCEPT !.round = r])  BY <2>9, Zenon DEF FileWitness
      <3>3. pc'[w] = "comer" /\ loc'[w] = [loc[w] EXCEPT !.round = r]  BY <3>2, <1>6, Zenon
      <3>4. loc[w] \in Call  BY <1>5, Zenon
      <3>5. loc'[w].self = loc[w].self /\ loc'[w].e = loc[w].e  BY <3>3, <3>4, Zenon DEF Call
      <3> QED  BY <3>1, <3>3, <3>5, <2>1, <2>9, <1>2, <1>3, Zenon
    <2> QED  BY <1>11, <2>2, <2>3, <2>4, <2>5, <2>6, <2>7, <2>8, <2>9, Zenon DEF WorkerStep
  <1>12. ASSUME NEW w \in Worker, WorkerStep(w)
         PROVE  \/ Steady /\ UNCHANGED <<graph, column, vert, rounds>>
                \/ \E x \in Worker : Steady /\ AddNodePut(x)
                \/ \E x \in Worker : Steady /\ AddNodeMajor(x)
                \/ \E x \in Worker : Steady /\ EventExists(x)
                \/ \E x \in Worker : Steady /\ LinkOther(x)
                \/ \E x \in Worker : Steady /\ FileWitness(x)
                \/ \E x \in Worker : InsertVertex(x)
                \/ \E x \in Worker : addComer(x)
                \/ \E x \in Worker : UpdateLost(x)
    BY <1>11, <1>12, Zenon
  <1> QED  BY <1>7, <1>8, <1>9, <1>10, <1>12, Zenon DEF Next

\* Types, for every step.
LEMMA StepTypes ==
    ASSUME TypeOK, GraphOK, CallsOK, [Next]_vars
    PROVE  TypeOK'
  <1> USE Types
  <1>1. ASSUME UNCHANGED <<graph, column, vert, rounds>>,
               pc' \in [Worker -> Location], loc' \in [Worker -> Call]
        PROVE  TypeOK'
    <2>1. UNCHANGED graph /\ UNCHANGED column /\ UNCHANGED vert /\ UNCHANGED rounds  BY <1>1, Zenon
    <2>2. DOMAIN vert' = DOMAIN vert /\ DOMAIN rounds' = DOMAIN rounds /\ DOMAIN column' = DOMAIN column  BY <2>1, Zenon
    <2>3. Known' = Known  BY <2>1, Zenon DEF Known
    <2> QED  BY <2>1, <2>2, <2>3, <1>1, Typed, Zenon
  <1>2. CASE UNCHANGED vars
    <2>1. UNCHANGED <<graph, column, vert, rounds>> /\ UNCHANGED pc /\ UNCHANGED loc  BY <1>2, Zenon DEF vars, core
    <2> QED  BY <2>1, <1>1, Zenon
  <1>3. CASE TakeTrigger \/ TakeSelfEvent \/ TakeRequest
    <2>1. UNCHANGED <<graph, column, vert, rounds>> /\ UNCHANGED pc /\ UNCHANGED loc
      BY <1>3, Zenon DEF TakeTrigger, TakeSelfEvent, TakeRequest, core
    <2> QED  BY <2>1, <1>1, Zenon
  <1>4. CASE PushRound
    <2>1. /\ DOMAIN rounds \subseteq DOMAIN rounds' /\ DOMAIN rounds' \subseteq Nat
          /\ IsFiniteSet(DOMAIN rounds') /\ rounds' \in [DOMAIN rounds' -> Round]
          /\ UNCHANGED <<graph, column, vert, pc, loc>>
      BY <1>4, PushEffect, Zenon
    <2>2. UNCHANGED graph /\ UNCHANGED column /\ UNCHANGED vert /\ UNCHANGED pc /\ UNCHANGED loc  BY <2>1, Zenon
    <2>3. DOMAIN vert' = DOMAIN vert /\ DOMAIN column' = DOMAIN column /\ 0 \in DOMAIN rounds'  BY <2>1, Zenon
    <2>4. Known' = Known  BY <2>2, Zenon DEF Known
    <2> QED  BY <2>1, <2>2, <2>3, <2>4, Typed, Zenon
  <1>5. ASSUME NEW w \in Worker, NEW e \in Copy[Known], NEW ty \in GivenType[Known], AddEvent(w, e, ty)
        PROVE  TypeOK'
    <2>1. (\E p, l : Arrives(w, p, l)) /\ UNCHANGED <<graph, column, vert, rounds>>  BY <1>5, AddEventArrives, Zenon
    <2> QED  BY <2>1, <1>1, ArrivesTyped, Zenon
  <1> QED  BY <1>2, <1>3, <1>4, <1>5, WorkerTypes, Zenon DEF Next

\* The graph holds columns of the right nodes, and the columns their vertices.
LEMMA StepGraph ==
    ASSUME TypeOK, GraphOK, CallsOK, [Next]_vars
    PROVE  GraphOK'
  <1>1. ASSUME UNCHANGED graph, UNCHANGED column, DOMAIN vert' = DOMAIN vert  PROVE GraphOK'
    BY <1>1, Zenon DEF GraphOK
  <1>2. CASE UNCHANGED <<graph, column, vert, rounds>>  BY <1>1, <1>2, Zenon
  <1>3. CASE PushRound
    <2>1. UNCHANGED <<graph, column, vert, pc, loc>>  BY <1>3, PushEffect, Zenon
    <2> QED  BY <2>1, <1>1, Zenon
  <1>4. ASSUME NEW w \in Worker, AddNodePut(w)  PROVE GraphOK'
    <2> DEFINE c == <<NodeArg(w), w>>
    <2>1. c[1] = NodeArg(w)  BY Zenon
    <2> HIDE DEF c
    <2>2. /\ c \notin DOMAIN column /\ DOMAIN column' = DOMAIN column \cup {c}
          /\ DOMAIN column' \subseteq Column /\ column'[c].verTop = ZeroHash
          /\ \A x \in DOMAIN column : column'[x] = column[x]
          /\ graph'[NodeArg(w)] = c
          /\ \A a \in Address \ {NodeArg(w)} : graph'[a] = graph[a]
          /\ UNCHANGED vert
      BY <1>4, PutEffect, Zenon DEF c
    <2>3. c # Nil  BY <2>2, GraphAssumption, Zenon
    <2>4. \A x \in Column : x[1] \in Address  BY Zenon DEF Column
    <2>5. \A a \in Address : graph'[a] # Nil => graph'[a] \in DOMAIN column' /\ graph'[a][1] = a
      BY <2>1, <2>2, Zenon DEF GraphOK
    <2>6. \A x \in DOMAIN column' : graph'[x[1]] # Nil
      BY <2>1, <2>2, <2>3, <2>4, Zenon DEF GraphOK
    <2>7. \A v \in DOMAIN vert' : v[1] \in DOMAIN column'  BY <2>2, Zenon DEF GraphOK
    <2>8. \A x \in DOMAIN column' : column'[x].verTop # ZeroHash => <<x, column'[x].verTop>> \in DOMAIN vert'
      BY <2>2, Zenon DEF GraphOK
    <2> QED  BY <2>5, <2>6, <2>7, <2>8, Zenon DEF GraphOK
  <1>5. ASSUME NEW w \in Worker, AddNodeMajor(w)  PROVE GraphOK'
    <2> DEFINE c == <<NodeArg(w), w>>
    <2> HIDE DEF c
    <2>1. /\ c \in DOMAIN column /\ DOMAIN column' = DOMAIN column /\ column'[c].verTop = ZeroHash
          /\ \A x \in DOMAIN column \ {c} : column'[x] = column[x]
          /\ UNCHANGED <<graph, vert, rounds>>
      BY <1>5, MajorEffect, Zenon DEF c
    <2> QED  BY <2>1, Zenon DEF GraphOK
  <1>6. ASSUME NEW w \in Worker, EventExists(w)  PROVE GraphOK'
    <2>1. DOMAIN vert' = DOMAIN vert /\ UNCHANGED <<graph, column, rounds>>
      BY <1>6, ExistsEffect, WitnessEffect, Zenon
    <2> QED  BY <2>1, <1>1, Zenon
  <1>7. ASSUME NEW w \in Worker, LinkOther(w)  PROVE GraphOK'
    <2>1. DOMAIN vert' = DOMAIN vert /\ UNCHANGED graph /\ UNCHANGED column  BY <1>7, LinkEffect, Zenon
    <2> QED  BY <2>1, <1>1, Zenon
  <1>8. ASSUME NEW w \in Worker, FileWitness(w)  PROVE GraphOK'
    <2>1. /\ UNCHANGED <<graph, column>>
          /\ UNCHANGED <<vert, rounds>> \/ (SetWitness(Self(w), Witness) /\ Self(w) \in DOMAIN vert)
      BY <1>8, FileEffect, Zenon
    <2>2. DOMAIN vert' = DOMAIN vert  BY <2>1, WitnessEffect, Zenon
    <2> QED  BY <2>1, <2>2, <1>1, Zenon
  <1>9. ASSUME NEW w \in Worker, InsertVertex(w)  PROVE GraphOK'
    <2> DEFINE c == loc[w].self
               v == Self(w)
    <2>1. v = <<c, loc[w].e.SelfHash>> /\ v[1] = c  BY Zenon DEF Self
    <2> HIDE DEF c, v
    <2>2. /\ c \in DOMAIN column /\ DOMAIN vert' = DOMAIN vert \cup {v}
          /\ DOMAIN column' = DOMAIN column /\ column'[c].verTop = loc[w].e.SelfHash
          /\ \A x \in DOMAIN column \ {c} : column'[x] = column[x]
          /\ UNCHANGED <<graph, rounds>>
      BY <1>9, InsertEffect, Zenon DEF c, v
    <2> QED  BY <2>1, <2>2, Zenon DEF GraphOK
  <1>10. ASSUME NEW w \in Worker, addComer(w)  PROVE GraphOK'
    <2>1. UNCHANGED <<graph, column, vert>>  BY <1>10, ComerEffect, Zenon
    <2> QED  BY <2>1, <1>1, Zenon
  <1>11. ASSUME NEW w \in Worker, UpdateLost(w)  PROVE GraphOK'
    <2>1. DOMAIN vert' = DOMAIN vert /\ UNCHANGED <<graph, column>>  BY <1>11, LostEffect, Zenon
    <2> QED  BY <2>1, <1>1, Zenon
  <1> QED  BY StepCases, <1>2, <1>3, <1>4, <1>5, <1>6, <1>7, <1>8, <1>9, <1>10, <1>11, Zenon

\* Nothing is taken back: no column or vertex goes away, a self parent and a slot
\* number are for ever, and so are another parent and a witness's type once set.
LEMMA StepKept ==
    ASSUME TypeOK, GraphOK, CallsOK, LostOK, [Next]_vars
    PROVE  Kept
  <1>1. ASSUME UNCHANGED graph, UNCHANGED column, UNCHANGED vert, DOMAIN rounds \subseteq DOMAIN rounds'
        PROVE  Kept
    BY <1>1, Zenon DEF Kept
  <1>2. CASE UNCHANGED <<graph, column, vert, rounds>>  BY <1>1, <1>2, Zenon
  <1>3. CASE PushRound
    <2>1. UNCHANGED <<graph, column, vert, pc, loc>> /\ DOMAIN rounds \subseteq DOMAIN rounds'
      BY <1>3, PushEffect, Zenon
    <2> QED  BY <2>1, <1>1, Zenon
  <1>4. ASSUME NEW w \in Worker, AddNodePut(w)  PROVE Kept
    <2> DEFINE c == <<NodeArg(w), w>>
    <2> HIDE DEF c
    <2>1. /\ DOMAIN column' = DOMAIN column \cup {c} /\ DOMAIN column' \subseteq Column
          /\ \A x \in DOMAIN column : column'[x] = column[x]
          /\ graph'[NodeArg(w)] = c
          /\ \A a \in Address \ {NodeArg(w)} : graph'[a] = graph[a]
          /\ UNCHANGED <<vert, rounds>>
      BY <1>4, PutEffect, Zenon DEF c
    <2>2. c # Nil  BY <2>1, GraphAssumption, Zenon
    <2> QED  BY <2>1, <2>2, Zenon DEF Kept
  <1>5. ASSUME NEW w \in Worker, AddNodeMajor(w)  PROVE Kept
    <2>1. /\ DOMAIN column' = DOMAIN column
          /\ \A x \in DOMAIN column : column'[x].seqNum = column[x].seqNum
          /\ UNCHANGED <<graph, vert, rounds>>
      BY <1>5, MajorEffect, Zenon
    <2> QED  BY <2>1, Zenon DEF Kept
  <1>6. ASSUME NEW w \in Worker, Self(w) \in DOMAIN vert, SetWitness(Self(w), Witness),
               UNCHANGED <<graph, column>>, DOMAIN rounds' = DOMAIN rounds
        PROVE  Kept
    <2>1. /\ DOMAIN vert' = DOMAIN vert /\ vert'[Self(w)].witness = Witness
          /\ \A u \in DOMAIN vert : /\ vert'[u].selfPt = vert[u].selfPt
                                    /\ vert'[u].anotherPt = vert[u].anotherPt
                                    /\ vert'[u].RoundID = vert[u].RoundID
          /\ \A u \in DOMAIN vert \ {Self(w)} : vert'[u] = vert[u]
      BY <1>6, WitnessEffect, Zenon
    <2> QED  BY <2>1, <1>6, Zenon DEF Kept
  <1>7. ASSUME NEW w \in Worker, EventExists(w)  PROVE Kept
    <2>1. /\ Self(w) \in DOMAIN vert /\ UNCHANGED <<graph, column, rounds>>
          /\ UNCHANGED vert \/ SetWitness(Self(w), Witness)
      BY <1>7, ExistsEffect, Zenon
    <2>2. UNCHANGED <<graph, column>> /\ DOMAIN rounds' = DOMAIN rounds /\ UNCHANGED graph /\ UNCHANGED column  BY <2>1, Zenon
    <2>3. DOMAIN rounds \subseteq DOMAIN rounds'  BY <2>2, Zenon
    <2> QED  BY <2>1, <2>2, <2>3, <1>1, <1>6, Zenon
  <1>8. ASSUME NEW w \in Worker, LinkOther(w)  PROVE Kept
    <2>1. CASE UNCHANGED <<graph, column, vert, rounds>>  BY <2>1, <1>1, Zenon
    <2>2. CASE /\ DOMAIN vert' = DOMAIN vert
               /\ \A u \in DOMAIN vert : /\ vert'[u].selfPt = vert[u].selfPt
                                         /\ vert'[u].witness = vert[u].witness
                                         /\ vert'[u].RoundID = vert[u].RoundID
               /\ \A u \in DOMAIN vert \ {Self(w)} : vert'[u] = vert[u]
               /\ UNCHANGED <<graph, column, rounds>>
      <3>1. pc[w] = "link"  BY <1>8, Zenon DEF LinkOther
      <3>2. vert[Self(w)].anotherPt = Nil
        <4>1. CallOK(w)  BY Zenon DEF CallsOK
        <4>2. pc[w] # "idle" /\ pc[w] \notin {"round", "comer", "lost", "notify", "trigger"} /\ pc[w] \in Working
          BY <3>1, Zenon DEF Working, Filing
        <4> QED  BY <4>1, <4>2, Zenon DEF CallOK
      <3> QED  BY <2>2, <3>2, Zenon DEF Kept
    <2> QED  BY <1>8, <2>1, <2>2, LinkEffect, Zenon
  <1>9. ASSUME NEW w \in Worker, FileWitness(w)  PROVE Kept
    <2>1. /\ UNCHANGED <<graph, column>>
          /\ \/ UNCHANGED <<vert, rounds>>
             \/ SetWitness(Self(w), Witness) /\ Self(w) \in DOMAIN vert /\ DOMAIN rounds' = DOMAIN rounds
      BY <1>9, FileEffect, Zenon
    <2>2. CASE UNCHANGED <<vert, rounds>>  BY <2>1, <2>2, <1>1, Zenon
    <2>3. CASE SetWitness(Self(w), Witness) /\ Self(w) \in DOMAIN vert /\ DOMAIN rounds' = DOMAIN rounds
      BY <2>1, <2>3, <1>6, Zenon
    <2> QED  BY <2>1, <2>2, <2>3, Zenon
  <1>10. ASSUME NEW w \in Worker, InsertVertex(w)  PROVE Kept
    <2>1. /\ DOMAIN vert' = DOMAIN vert \cup {Self(w)}
          /\ \A u \in DOMAIN vert : vert'[u] = vert[u]
          /\ DOMAIN column' = DOMAIN column
          /\ \A x \in DOMAIN column : column'[x].seqNum = column[x].seqNum
          /\ UNCHANGED <<graph, rounds>>
      BY <1>10, InsertEffect, Zenon
    <2> QED  BY <2>1, Zenon DEF Kept
  <1>11. ASSUME NEW w \in Worker, addComer(w)  PROVE Kept
    <2>1. UNCHANGED <<graph, column, vert>> /\ DOMAIN rounds' = DOMAIN rounds  BY <1>11, ComerEffect, Zenon
    <2> QED  BY <2>1, <1>1, Zenon
  <1>12. ASSUME NEW w \in Worker, UpdateLost(w)  PROVE Kept
    <2> DEFINE r == loc[w].round
               h == loc[w].e.SelfHash
               old == rounds[r].lostDict
    <2>1. /\ r \in DOMAIN rounds /\ h \in Hash /\ DOMAIN vert' = DOMAIN vert
          /\ \A u \in DOMAIN vert : /\ vert'[u].selfPt = vert[u].selfPt
                                    /\ vert'[u].witness = vert[u].witness
                                    /\ vert'[u].RoundID = vert[u].RoundID
          /\ \A u \in DOMAIN vert : u \notin old[h] => vert'[u] = vert[u]
          /\ DOMAIN rounds' = DOMAIN rounds /\ UNCHANGED <<graph, column>>
      BY <1>12, LostEffect, Zenon
    <2>2. h \in Pointer  BY <2>1, Zenon DEF Pointer
    <2> HIDE DEF r, h
    <2>3. \A u \in old[h] : vert[u].anotherPt = Nil  BY <2>1, <2>2, SMTT(30) DEF LostOK
    <2> HIDE DEF old
    <2> QED  BY <2>1, <2>3, Zenon DEF Kept
  <1> QED  BY StepCases, <1>2, <1>3, <1>4, <1>5, <1>7, <1>8, <1>9, <1>10, <1>11, <1>12, Zenon

\* A goroutine that does not move finds its locals in order after the step.
LEMMA CallKept ==
    ASSUME NEW x \in Worker, CallOK(x), pc'[x] = pc[x], loc'[x] = loc[x],
           DOMAIN column \subseteq DOMAIN column', DOMAIN vert \subseteq DOMAIN vert',
           DOMAIN rounds \subseteq DOMAIN rounds',
           \A a : <<a, x>> \in DOMAIN column' => <<a, x>> \in DOMAIN column,
           pc[x] \in Working => vert'[Self(x)].anotherPt = vert[Self(x)].anotherPt
    PROVE  CallOK(x)'
  <1>1. Self(x)' = Self(x) /\ NodeArg(x)' = NodeArg(x)  BY Zenon DEF Self, NodeArg
  <1>2. CASE pc[x] = "idle"  BY <1>2, Zenon DEF CallOK
  <1>3. CASE pc[x] # "idle"
    <2> DEFINE l == loc[x]
    <2>1. /\ l.e \in Event
          /\ l.self # Nil => l.self \in DOMAIN column /\ l.self[1] = SelfSig[l.e.SelfHash]
          /\ ~l.ok2 => l.e.OtherPartA \in Address
          /\ IF pc[x] \in Naming THEN l.self = Nil \/ ~l.ok2 ELSE l.self # Nil
          /\ pc[x] = "put" => <<NodeArg(x), x>> \notin DOMAIN column
          /\ pc[x] = "major" => <<NodeArg(x), x>> \in DOMAIN column
          /\ pc[x] \in Inserted => Self(x) \in DOMAIN vert
          /\ pc[x] \in {"comer", "lost"} => l.round \in DOMAIN rounds
          /\ pc[x] \notin {"round", "comer", "lost", "notify", "trigger"} => l.linkpost
          /\ pc[x] \in Working => (l.linkpost <=> vert[Self(x)].anotherPt = Nil)
      BY <1>3, Zenon DEF CallOK
    <2>2. /\ l.self # Nil => l.self \in DOMAIN column' /\ l.self[1] = SelfSig[l.e.SelfHash]
          /\ pc[x] = "put" => <<NodeArg(x), x>> \notin DOMAIN column'
          /\ pc[x] = "major" => <<NodeArg(x), x>> \in DOMAIN column'
          /\ pc[x] \in Inserted => Self(x) \in DOMAIN vert'
          /\ pc[x] \in {"comer", "lost"} => l.round \in DOMAIN rounds'
      BY <2>1, Zenon
    <2>3. pc[x] \in Working => (l.linkpost <=> vert'[Self(x)].anotherPt = Nil)  BY <2>1, Zenon
    <2> QED  BY <1>1, <2>1, <2>2, <2>3, Zenon DEF CallOK
  <1> QED  BY <1>2, <1>3, Zenon

\* The same for a goroutine that arrives before the insertion.
LEMMA CallArrived ==
    ASSUME TypeOK, NEW w \in Worker, NEW p, NEW l, Arrives(w, p, l), DOMAIN column \subseteq DOMAIN column'
    PROVE  CallOK(w)'
  <1>1. pc'[w] = p /\ loc'[w] = l /\ p \in {"insert", "check"}  BY ArrivesTyped, Zenon
  <1>2. /\ l.e \in Event /\ l.linkpost
        /\ l.self # Nil => l.self \in DOMAIN column /\ l.self[1] = SelfSig[l.e.SelfHash]
        /\ ~l.ok2 => l.e.OtherPartA \in Address
        /\ IF p = "check" THEN l.self = Nil \/ ~l.ok2 ELSE l.self # Nil
    BY Zenon DEF Arrives
  <1>3. l.self # Nil => l.self \in DOMAIN column'  BY <1>2, Zenon
  <1>4. /\ p # "put" /\ p # "major" /\ p \notin {"comer", "lost"} /\ p \notin Inserted /\ p \notin Working
        /\ (p \in Naming <=> p = "check")
    BY <1>1, Zenon DEF Inserted, Working, Filing, Naming
  <1> QED  BY <1>1, <1>2, <1>3, <1>4, Zenon DEF CallOK

\* And for one that moves on with the event and the columns it has.
LEMMA CallMoved ==
    ASSUME NEW w \in Worker, CallOK(w), pc[w] # "idle", NEW p, pc'[w] = p,
           loc'[w].e = loc[w].e, loc'[w].self = loc[w].self, loc'[w].ok2 = loc[w].ok2,
           p \in Naming <=> pc[w] \in Naming,
           DOMAIN column \subseteq DOMAIN column',
           p = "put" => <<NodeArg(w), w>> \notin DOMAIN column',
           p = "major" => <<NodeArg(w), w>> \in DOMAIN column',
           p \in Inserted => Self(w) \in DOMAIN vert',
           p \in {"comer", "lost"} => loc'[w].round \in DOMAIN rounds',
           p \notin {"round", "comer", "lost", "notify", "trigger"} => loc'[w].linkpost,
           p \in Working => (loc'[w].linkpost <=> vert'[Self(w)].anotherPt = Nil)
    PROVE  CallOK(w)'
  <1> DEFINE l == loc[w]
  <1>1. Self(w)' = Self(w) /\ NodeArg(w)' = NodeArg(w)  BY Zenon DEF Self, NodeArg
  <1>2. /\ l.e \in Event
        /\ l.self # Nil => l.self \in DOMAIN column /\ l.self[1] = SelfSig[l.e.SelfHash]
        /\ ~l.ok2 => l.e.OtherPartA \in Address
        /\ IF pc[w] \in Naming THEN l.self = Nil \/ ~l.ok2 ELSE l.self # Nil
    BY Zenon DEF CallOK
  <1>3. l.self # Nil => l.self \in DOMAIN column'  BY <1>2, Zenon
  <1> QED  BY <1>1, <1>2, <1>3, Zenon DEF CallOK

\* A goroutine that works on a vertex is the only one to link it, and makes its
\* columns alone.
LEMMA OthersLeftAlone ==
    ASSUME TypeOK, GraphOK, CallsOK, LostOK, FilingOK, NEW w \in Worker, WorkerStep(w),
           NEW x \in Worker, x # w
    PROVE  /\ pc[x] \in Working => vert'[Self(x)].anotherPt = vert[Self(x)].anotherPt
           /\ \A a : <<a, x>> \in DOMAIN column' => <<a, x>> \in DOMAIN column
  <1> DEFINE Linked == pc[x] \in Working => vert'[Self(x)].anotherPt = vert[Self(x)].anotherPt
             Alone  == \A a : <<a, x>> \in DOMAIN column' => <<a, x>> \in DOMAIN column
  <1>1. pc[x] \in Working => Self(x) \in DOMAIN vert /\ pc[x] # "idle" /\ pc[x] \notin Naming
    <2>1. CallOK(x)  BY Zenon DEF CallsOK
    <2>2. pc[x] \in Working => pc[x] # "idle" /\ pc[x] \in Inserted /\ pc[x] \notin Naming
      BY Zenon DEF Working, Inserted, Filing, Naming
    <2> QED  BY <2>1, <2>2, Zenon DEF CallOK
  <1>2. ASSUME DOMAIN column' = DOMAIN column  PROVE Alone  BY <1>2, Zenon
  <1>3. ASSUME UNCHANGED vert  PROVE Linked  BY <1>3, Zenon
  <1>4. ASSUME NEW v \in DOMAIN vert, SetWitness(v, Witness)  PROVE Linked  BY <1>1, <1>4, WitnessEffect, Zenon
  <1>5. CASE AddNodeCheck(w) \/ TriggerRound(w) \/ NotifySelf(w) \/ RequestParentEvent(w)
    <2>1. UNCHANGED column /\ UNCHANGED vert
      BY <1>5, Zenon DEF AddNodeCheck, TriggerRound, NotifySelf, RequestParentEvent, core
    <2> QED  BY <2>1, <1>2, <1>3, Zenon
  <1>6. CASE AddNodePut(w)
    <2>1. DOMAIN column' = DOMAIN column \cup {<<NodeArg(w), w>>} /\ UNCHANGED vert  BY <1>6, PutEffect, Zenon
    <2> QED  BY <2>1, <1>3, Zenon
  <1>7. CASE AddNodeMajor(w)
    <2>1. DOMAIN column' = DOMAIN column /\ UNCHANGED vert  BY <1>7, MajorEffect, Zenon
    <2> QED  BY <2>1, <1>2, <1>3, Zenon
  <1>8. CASE EventExists(w)
    <2>1. /\ Self(w) \in DOMAIN vert /\ UNCHANGED <<graph, column, rounds>>
          /\ UNCHANGED vert \/ SetWitness(Self(w), Witness)
      BY <1>8, ExistsEffect, Zenon
    <2>2. UNCHANGED column  BY <2>1, Zenon
    <2> QED  BY <2>1, <2>2, <1>2, <1>3, <1>4, Zenon
  <1>9. CASE InsertVertex(w)
    <2>1. DOMAIN column' = DOMAIN column /\ \A u \in DOMAIN vert : vert'[u] = vert[u]  BY <1>9, InsertEffect, Zenon
    <2> QED  BY <2>1, <1>1, <1>2, Zenon
  <1>10. CASE LinkOther(w)
    <2>1. pc[w] = "link"  BY <1>10, Zenon DEF LinkOther
    <2>2. pc[w] \in Working  BY <2>1, Zenon DEF Working, Filing
    <2>3. pc[x] \in Working => Self(x) # Self(w)  BY <2>2, Zenon DEF FilingOK
    <2>4. /\ UNCHANGED column
          /\ UNCHANGED vert \/ \A u \in DOMAIN vert \ {Self(w)} : vert'[u] = vert[u]
      BY <1>10, LinkEffect, Zenon
    <2>5. Linked  BY <2>3, <2>4, <1>1, Zenon
    <2> QED  BY <2>4, <2>5, <1>2, Zenon
  <1>11. CASE FileWitness(w)
    <2>1. /\ UNCHANGED <<graph, column>>
          /\ UNCHANGED <<vert, rounds>> \/ (SetWitness(Self(w), Witness) /\ Self(w) \in DOMAIN vert)
      BY <1>11, FileEffect, Zenon
    <2>2. UNCHANGED column /\ (UNCHANGED vert \/ (SetWitness(Self(w), Witness) /\ Self(w) \in DOMAIN vert))  BY <2>1, Zenon
    <2> QED  BY <2>2, <1>2, <1>3, <1>4, Zenon
  <1>12. CASE addComer(w)
    <2>1. UNCHANGED <<graph, column, vert>>  BY <1>12, ComerEffect, Zenon
    <2>2. UNCHANGED column /\ UNCHANGED vert  BY <2>1, Zenon
    <2> QED  BY <2>2, <1>2, <1>3, Zenon
  <1>13. CASE UpdateLost(w)
    <2> DEFINE r == loc[w].round
               h == loc[w].e.SelfHash
    <2>1. /\ r \in DOMAIN rounds /\ h \in Hash
          /\ \A u \in DOMAIN vert : u \notin rounds[r].lostDict[h] => vert'[u] = vert[u]
          /\ UNCHANGED <<graph, column>>
      BY <1>13, LostEffect, Zenon
    <2>2. h \in Pointer /\ UNCHANGED column  BY <2>1, Zenon DEF Pointer
    <2> HIDE DEF r, h
    <2>3. pc[x] \in Working => Self(x) \in InProgress  BY Zenon DEF InProgress, Working, Filing
    <2>4. pc[x] \in Working => Self(x) \notin rounds[r].lostDict[h]  BY <2>1, <2>2, <2>3, Zenon DEF LostOK
    <2>5. Linked  BY <2>1, <2>4, <1>1, Zenon
    <2> QED  BY <2>2, <2>5, <1>2, Zenon
  <1> QED  BY <1>5, <1>6, <1>7, <1>8, <1>9, <1>10, <1>11, <1>12, <1>13, Zenon DEF WorkerStep

\* The locals are in order after a step of goroutine w.
LEMMA WorkerCalls ==
    ASSUME TypeOK, GraphOK, CallsOK, LostOK, FilingOK, NEW w \in Worker, WorkerStep(w)
    PROVE  CallsOK'
  <1> DEFINE l == loc[w]
             me == Self(w)
  <1>1. \A x \in Worker \ {w} : pc'[x] = pc[x] /\ loc'[x] = loc[x]  BY WorkerTypes, Zenon
  <1>2. \A x \in Worker : CallOK(x)  BY Zenon DEF CallsOK
  <1>3. loc \in [Worker -> Call] /\ pc \in [Worker -> Location]  BY Types, Zenon
  <1>4. ASSUME NEW p, NEW k, Goto(w, p, k)  PROVE pc'[w] = p /\ loc'[w] = k
    BY <1>3, <1>4, Zenon DEF Goto
  <1>5. /\ DOMAIN column \subseteq DOMAIN column' /\ DOMAIN vert \subseteq DOMAIN vert'
        /\ DOMAIN rounds \subseteq DOMAIN rounds'
    <2>1. Kept  BY StepKept, Zenon DEF Next
    <2> QED  BY <2>1, Zenon DEF Kept
  <1>6. SUFFICES CallOK(w)'
    <2>1. ASSUME NEW x \in Worker, x # w  PROVE CallOK(x)'
      <3>1. /\ pc[x] \in Working => vert'[Self(x)].anotherPt = vert[Self(x)].anotherPt
            /\ \A a : <<a, x>> \in DOMAIN column' => <<a, x>> \in DOMAIN column
        BY <2>1, OthersLeftAlone, Zenon
      <3>2. pc'[x] = pc[x] /\ loc'[x] = loc[x]  BY <2>1, <1>1, Zenon
      <3> QED  BY <3>1, <3>2, <1>2, <1>5, CallKept, Zenon
    <2> QED  BY <2>1, <1>6, Zenon DEF CallsOK
  <1>7. ASSUME pc'[w] = "idle"  PROVE CallOK(w)'  BY <1>7, Zenon DEF CallOK
  <1>8. ASSUME pc[w] # "idle"
        PROVE  /\ l \in Call
               /\ pc[w] \in Inserted => me \in DOMAIN vert
               /\ pc[w] \notin {"round", "comer", "lost", "notify", "trigger"} => l.linkpost
               /\ pc[w] \in {"comer", "lost"} => l.round \in DOMAIN rounds
               /\ pc[w] \in Working => (l.linkpost <=> vert[me].anotherPt = Nil)
    BY <1>2, <1>3, <1>8, Zenon DEF CallOK
  <1>9. /\ \A p \in {"link", "request", "round", "comer"} : p \in Working /\ p \in Inserted /\ p \notin Naming
        /\ "lost" \in Working /\ "lost" \in Inserted /\ "lost" \notin Naming
        /\ "insert" \notin Naming /\ "insert" \notin Working /\ "insert" \notin Inserted
        /\ \A p \in {"notify", "trigger"} : p \notin Working /\ p \in Inserted /\ p \notin Naming
        /\ \A p \in {"check", "put", "major"} : p \notin Working /\ p \notin Inserted /\ p \in Naming
    BY Zenon DEF Working, Inserted, Filing, Naming
  <1>10. CASE AddNodeCheck(w)
    <2>1. /\ pc[w] = "check" /\ UNCHANGED <<graph, column, vert, rounds>>
          /\ \/ \E p, k : Arrives(w, p, k)
             \/ Goto(w, "put", loc[w]) /\ <<NodeArg(w), w>> \notin DOMAIN column
      BY <1>10, CheckEffect, Zenon
    <2>2. CASE Goto(w, "put", loc[w]) /\ <<NodeArg(w), w>> \notin DOMAIN column
      <3>1. pc'[w] = "put" /\ loc'[w] = loc[w]  BY <2>2, <1>4, Zenon
      <3>2. <<NodeArg(w), w>> \notin DOMAIN column'  BY <2>1, <2>2, Zenon
      <3>3. l.linkpost  BY <2>1, <1>8, Zenon
      <3>4. \A p : p = "put" => p \notin {"comer", "lost"} /\ p # "major"  BY Zenon
      <3> QED  BY <3>1, <3>2, <3>3, <3>4, <2>1, <1>2, <1>5, <1>9, CallMoved, Zenon
    <2> QED  BY <2>1, <2>2, <1>5, CallArrived, Zenon
  <1>11. CASE AddNodePut(w)
    <2>1. pc[w] = "put"  BY <1>11, Zenon DEF AddNodePut
    <2>2. /\ Goto(w, "major", [loc[w] EXCEPT !.mlen = NodeCount])
          /\ DOMAIN column' = DOMAIN column \cup {<<NodeArg(w), w>>}
      BY <1>11, PutEffect, Zenon
    <2>3. pc'[w] = "major" /\ loc'[w] = [loc[w] EXCEPT !.mlen = NodeCount]  BY <2>2, <1>4, Zenon
    <2>4. l \in Call /\ l.linkpost  BY <2>1, <1>8, Zenon
    <2>5. loc'[w].e = l.e /\ loc'[w].self = l.self /\ loc'[w].ok2 = l.ok2 /\ loc'[w].linkpost = l.linkpost
      BY <2>3, <2>4, ZenonT(60) DEF Call
    <2>6. <<NodeArg(w), w>> \in DOMAIN column'  BY <2>2, Zenon
    <2>7. "major" # "put" /\ "major" \notin {"comer", "lost"}  BY Zenon
    <2> QED  BY <2>1, <2>3, <2>4, <2>5, <2>6, <2>7, <1>2, <1>5, <1>9, CallMoved, Zenon
  <1>12. CASE AddNodeMajor(w)
    BY <1>12, <1>5, MajorArrives, CallArrived, Zenon
  <1>13. CASE EventExists(w)
    <2>1. /\ pc[w] = "insert" /\ Self(w) \in DOMAIN vert
          /\ Goto(w, "idle", NoCall) \/ Goto(w, "trigger", loc[w])
      BY <1>13, ExistsEffect, Zenon
    <2>2. CASE Goto(w, "trigger", loc[w])
      <3>1. pc'[w] = "trigger" /\ loc'[w] = loc[w]  BY <2>2, <1>4, Zenon
      <3>2. Self(w) \in DOMAIN vert'  BY <2>1, <1>5, Zenon
      <3>3. "trigger" # "put" /\ "trigger" # "major" /\ "trigger" \notin {"comer", "lost"} /\ "trigger" \in {"round", "comer", "lost", "notify", "trigger"}
        BY Zenon
      <3> QED  BY <3>1, <3>2, <3>3, <2>1, <1>2, <1>5, <1>9, CallMoved, Zenon
    <2> QED  BY <2>1, <2>2, <1>4, <1>7, Zenon
  <1>14. CASE TriggerRound(w) \/ NotifySelf(w)
    <2>1. Goto(w, "idle", NoCall)  BY <1>14, Zenon DEF TriggerRound, NotifySelf, Return
    <2> QED  BY <2>1, <1>4, <1>7, Zenon
  <1>15. CASE InsertVertex(w)
    <2>1. pc[w] = "insert"  BY <1>15, Zenon DEF InsertVertex
    <2>2. /\ DOMAIN vert' = DOMAIN vert \cup {Self(w)} /\ vert'[Self(w)].anotherPt = Nil
          /\ Goto(w, "link", loc[w])
      BY <1>15, InsertEffect, Zenon
    <2>3. pc'[w] = "link" /\ loc'[w] = loc[w]  BY <2>2, <1>4, Zenon
    <2>4. l.linkpost  BY <2>1, <1>8, Zenon
    <2>5. Self(w) \in DOMAIN vert'  BY <2>2, Zenon
    <2>6. "link" # "put" /\ "link" # "major" /\ "link" \notin {"comer", "lost"}  BY Zenon
    <2> QED  BY <2>1, <2>2, <2>3, <2>4, <2>5, <2>6, <1>2, <1>5, <1>9, CallMoved, Zenon
  <1>16. CASE LinkOther(w)
    <2>1. pc[w] = "link"  BY <1>16, Zenon DEF LinkOther
    <2>2. /\ l \in Call /\ l.linkpost /\ me \in DOMAIN vert /\ vert[me].anotherPt = Nil  BY <2>1, <1>8, <1>9, Zenon
    <2>3. me \in DOMAIN vert'  BY <2>2, <1>5, Zenon
    <2>4. CASE UNCHANGED <<graph, column, vert, rounds>> /\ Goto(w, "request", loc[w])
      <3>1. pc'[w] = "request" /\ loc'[w] = loc[w] /\ UNCHANGED vert  BY <2>4, <1>4, Zenon
      <3>2. "request" # "put" /\ "request" # "major" /\ "request" \notin {"comer", "lost"}  BY Zenon
      <3> QED  BY <3>1, <3>2, <2>1, <2>2, <2>3, <1>2, <1>5, <1>9, CallMoved, Zenon
    <2>5. CASE /\ OtherParent(w) \in DOMAIN vert /\ vert'[Self(w)].anotherPt = OtherParent(w)
               /\ Goto(w, "round", [loc[w] EXCEPT !.linkpost = FALSE])
      <3>1. pc'[w] = "round" /\ loc'[w] = [loc[w] EXCEPT !.linkpost = FALSE]  BY <2>5, <1>4, Zenon
      <3>2. loc'[w].e = l.e /\ loc'[w].self = l.self /\ loc'[w].ok2 = l.ok2 /\ loc'[w].linkpost = FALSE
        BY <3>1, <2>2 DEF Call
      <3>3. OtherParent(w) # Nil  BY <2>5, Types, GraphAssumption, Zenon
      <3>4. "round" # "put" /\ "round" # "major" /\ "round" \notin {"comer", "lost"} /\ "round" \in {"round", "comer", "lost", "notify", "trigger"}
        BY Zenon
      <3> QED  BY <3>1, <3>2, <3>3, <3>4, <2>1, <2>3, <2>5, <1>2, <1>5, <1>9, CallMoved, Zenon
    <2> QED  BY <1>16, <2>4, <2>5, LinkEffect, Zenon
  <1>17. CASE RequestParentEvent(w)
    <2>1. pc[w] = "request" /\ Goto(w, "round", loc[w]) /\ UNCHANGED vert
      BY <1>17, Zenon DEF RequestParentEvent, core
    <2>2. /\ me \in DOMAIN vert /\ (l.linkpost <=> vert[me].anotherPt = Nil)  BY <2>1, <1>8, <1>9, Zenon
    <2>3. pc'[w] = "round" /\ loc'[w] = loc[w]  BY <2>1, <1>4, Zenon
    <2>4. "round" # "put" /\ "round" # "major" /\ "round" \notin {"comer", "lost"} /\ "round" \in {"round", "comer", "lost", "notify", "trigger"}
      BY Zenon
    <2> QED  BY <2>1, <2>2, <2>3, <2>4, <1>2, <1>5, <1>9, CallMoved, Zenon
  <1>18. CASE FileWitness(w)
    <2>1. pc[w] = "round"  BY <1>18, Zenon DEF FileWitness
    <2>2. PICK r \in DOMAIN rounds :
            /\ Goto(w, "comer", [loc[w] EXCEPT !.round = r])
            /\ UNCHANGED <<vert, rounds>> \/ (SetWitness(Self(w), Witness) /\ Self(w) \in DOMAIN vert)
      BY <1>18, FileEffect, Zenon
    <2>3. /\ l \in Call /\ me \in DOMAIN vert /\ (l.linkpost <=> vert[me].anotherPt = Nil)  BY <2>1, <1>8, <1>9, Zenon
    <2>4. vert'[me].anotherPt = vert[me].anotherPt /\ me \in DOMAIN vert'  BY <2>2, <2>3, <1>5, WitnessEffect, Zenon
    <2>5. pc'[w] = "comer" /\ loc'[w] = [loc[w] EXCEPT !.round = r]  BY <2>2, <1>4, Zenon
    <2>6. /\ loc'[w].e = l.e /\ loc'[w].self = l.self /\ loc'[w].ok2 = l.ok2 /\ loc'[w].linkpost = l.linkpost
          /\ loc'[w].round = r
      BY <2>5, <2>3, Zenon DEF Call
    <2>7. r \in DOMAIN rounds'  BY <2>2, <1>5, Zenon
    <2>8. "comer" # "put" /\ "comer" # "major" /\ "comer" \in {"round", "comer", "lost", "notify", "trigger"}  BY Zenon
    <2> QED  BY <2>1, <2>3, <2>4, <2>5, <2>6, <2>7, <2>8, <1>2, <1>5, <1>9, CallMoved, Zenon
  <1>19. CASE addComer(w)
    <2>1. pc[w] = "comer"  BY <1>19, Zenon DEF addComer
    <2>2. Goto(w, "lost", loc[w]) /\ UNCHANGED <<graph, column, vert>>  BY <1>19, ComerEffect, Zenon
    <2>3. /\ me \in DOMAIN vert /\ (l.linkpost <=> vert[me].anotherPt = Nil) /\ l.round \in DOMAIN rounds'
      BY <2>1, <1>5, <1>8, <1>9, Zenon
    <2>4. pc'[w] = "lost" /\ loc'[w] = loc[w] /\ UNCHANGED vert  BY <2>2, <1>4, Zenon
    <2>5. "lost" # "put" /\ "lost" # "major" /\ "lost" \in {"round", "comer", "lost", "notify", "trigger"}  BY Zenon
    <2> QED  BY <2>1, <2>3, <2>4, <2>5, <1>2, <1>5, <1>9, CallMoved, Zenon
  <1>20. CASE UpdateLost(w)
    <2>1. pc[w] = "lost"  BY <1>20, Zenon DEF UpdateLost
    <2>2. Goto(w, "notify", loc[w])  BY <1>20, Zenon DEF UpdateLost
    <2>3. me \in DOMAIN vert'  BY <2>1, <1>5, <1>8, <1>9, Zenon
    <2>4. pc'[w] = "notify" /\ loc'[w] = loc[w]  BY <2>2, <1>4, Zenon
    <2>5. "notify" # "put" /\ "notify" # "major" /\ "notify" \notin {"comer", "lost"} /\ "notify" \in {"round", "comer", "lost", "notify", "trigger"}
      BY Zenon
    <2> QED  BY <2>1, <2>3, <2>4, <2>5, <1>2, <1>5, <1>9, CallMoved, Zenon
  <1> QED  BY <1>10, <1>11, <1>12, <1>13, <1>14, <1>15, <1>16, <1>17, <1>18, <1>19, <1>20, Zenon DEF WorkerStep

\* The locals are in order after every step.
LEMMA StepCalls ==
    ASSUME TypeOK, GraphOK, CallsOK, LostOK, FilingOK, [Next]_vars
    PROVE  CallsOK'
  <1>1. Kept  BY StepKept, Zenon
  <1>2. /\ DOMAIN column \subseteq DOMAIN column' /\ DOMAIN vert \subseteq DOMAIN vert'
        /\ DOMAIN rounds \subseteq DOMAIN rounds'
    BY <1>1, Zenon DEF Kept
  <1>3. \A x \in Worker : CallOK(x)  BY Zenon DEF CallsOK
  <1>4. ASSUME NEW x \in Worker, UNCHANGED <<column, vert>>, pc'[x] = pc[x], loc'[x] = loc[x]
        PROVE  CallOK(x)'
    <2>1. /\ \A a : <<a, x>> \in DOMAIN column' => <<a, x>> \in DOMAIN column
          /\ vert'[Self(x)].anotherPt = vert[Self(x)].anotherPt
      BY <1>4, Zenon
    <2> QED  BY <2>1, <1>2, <1>3, <1>4, CallKept, Zenon
  <1>5. CASE UNCHANGED vars \/ TakeTrigger \/ TakeSelfEvent \/ TakeRequest \/ PushRound
    <2>1. UNCHANGED <<column, vert>> /\ UNCHANGED pc /\ UNCHANGED loc
      BY <1>5, Zenon DEF vars, core, TakeTrigger, TakeSelfEvent, TakeRequest, PushRound
    <2> QED  BY <2>1, <1>4, Zenon DEF CallsOK
  <1>6. ASSUME NEW w \in Worker, NEW e \in Copy[Known], NEW ty \in GivenType[Known], AddEvent(w, e, ty)
        PROVE  CallsOK'
    <2>1. PICK p, l : Arrives(w, p, l)  BY <1>6, AddEventArrives, Zenon
    <2>2. UNCHANGED <<column, vert>>  BY <1>6, AddEventArrives, Zenon
    <2>3. CallOK(w)'  BY <2>1, <1>2, CallArrived, Zenon
    <2>4. \A x \in Worker \ {w} : pc'[x] = pc[x] /\ loc'[x] = loc[x]  BY <2>1, ArrivesTyped, Zenon
    <2>5. \A x \in Worker : x # w => CallOK(x)'  BY <2>2, <2>4, <1>4, Zenon
    <2> QED  BY <2>3, <2>5, Zenon DEF CallsOK
  <1> QED  BY <1>5, <1>6, WorkerCalls, Zenon DEF Next
=============================================================================
