------------------------- MODULE GraphSearchProofs -------------------------
(***************************************************************************)
(* Proofs about the search of module GraphSearch, for any number of nodes, *)
(* events and searches.                                                    *)
(***************************************************************************)
EXTENDS GraphSearch, FiniteSetTheorems, WellFoundedInduction, TLAPS

(* What Reached computes.                                                   *)

\* Induction, for a set of numbers instead of a predicate.
LEMMA NatSet ==
    ASSUME NEW S, 0 \in S, \A n \in Nat : n \in S => n + 1 \in S
    PROVE  Nat \subseteq S
  <1> DEFINE T == {n \in Nat : n \notin S}
             R == {ij \in Nat \X Nat : ij[1] < ij[2]}
  <1> SUFFICES ASSUME T # {}  PROVE FALSE  BY Zenon
  <1>1. IsWellFoundedOn(R, Nat)  BY NatLessThanWellFounded, Zenon DEF OpToRel
  <1>2. T \subseteq Nat  BY Zenon
  <1> HIDE DEF R, T
  <1>3. PICK x \in T : \A y \in T : <<y, x>> \notin R  BY <1>1, <1>2, WFMin, Zenon
  <1> USE DEF R, T
  <1>4. x # 0 /\ x - 1 \in Nat  OBVIOUS
  <1>5. <<x - 1, x>> \in R  BY <1>4
  <1>6. x - 1 \in S  BY <1>3, <1>4, <1>5, Zenon
  <1> QED  BY <1>4, <1>6

\* The steps of a search of at most N steps: the recursion has a solution.
Steps(f, N, vs, s, inner) ==
    f = [n \in 0..N |-> IF n = 0 THEN {s} ELSE Further(f[n - 1], vs, inner)]

\* Searches of any number of steps have them.
LEMMA StepsExist ==
    ASSUME NEW vs, NEW s, NEW inner
    PROVE  \A N \in Nat : \E f : Steps(f, N, vs, s, inner)
  <1> DEFINE F(S) == Further(S, vs, inner)
             Ok(N) == \E f : f = [n \in 0..N |-> IF n = 0 THEN {s} ELSE F(f[n - 1])]
             Good == {N \in Nat : Ok(N)}
  <1> HIDE DEF F
  <1>1. 0 \in Good
    <2> DEFINE g == [n \in 0..0 |-> {s}]
    <2>1. g = [n \in 0..0 |-> IF n = 0 THEN {s} ELSE F(g[n - 1])]  OBVIOUS
    <2>2. Ok(0)  BY <2>1, Zenon
    <2> QED  BY <2>2, Zenon
  <1>2. ASSUME NEW N \in Nat, N \in Good  PROVE N + 1 \in Good
    <2>1. PICK f : f = [n \in 0..N |-> IF n = 0 THEN {s} ELSE F(f[n - 1])]  BY <1>2, Zenon
    <2> DEFINE g == [n \in 0..(N + 1) |-> IF n = N + 1 THEN F(f[N]) ELSE f[n]]
    <2>2. \A n \in 0..N : f[n] = IF n = 0 THEN {s} ELSE F(f[n - 1])  BY <2>1, Zenon
    <2>3. ASSUME NEW n \in 0..(N + 1)  PROVE g[n] = IF n = 0 THEN {s} ELSE F(g[n - 1])
      <3>1. n # 0 => g[n - 1] = f[n - 1]  OBVIOUS
      <3>2. CASE n = N + 1
        <4>1. g[n] = F(f[N]) /\ g[n - 1] = f[N] /\ n # 0  BY <3>1, <3>2
        <4> QED  BY <4>1, Zenon
      <3>3. CASE n \in 0..N
        <4>1. g[n] = f[n]  BY <3>3
        <4>2. f[n] = IF n = 0 THEN {s} ELSE F(f[n - 1])  BY <3>3, <2>2, Zenon
        <4> QED  BY <3>1, <4>1, <4>2, Zenon
      <3> QED  BY <3>2, <3>3
    <2>4. g = [n \in 0..(N + 1) |-> g[n]]  BY Zenon
    <2> HIDE DEF g
    <2>5. g = [n \in 0..(N + 1) |-> IF n = 0 THEN {s} ELSE F(g[n - 1])]  BY <2>3, <2>4, Zenon
    <2>6. Ok(N + 1)  BY <2>5, Zenon
    <2> QED  BY <2>6
  <1> HIDE DEF Ok
  <1>3. Nat \subseteq Good  BY <1>1, <1>2, NatSet, Zenon
  <1> QED  BY <1>3, Zenon DEF Ok, F, Steps

\* ReachedIn is the last of them.
Reaches(f, N, vs, s, inner) ==
    /\ ReachedIn(N, vs, s, inner) = f[N]
    /\ f[0] = {s} /\ \A n \in 0..(N - 1) : f[n + 1] = Further(f[n], vs, inner)

\* There are such steps for Reached of any number.
LEMMA ReachedSteps ==
    ASSUME NEW N \in Nat, NEW vs, NEW s, NEW inner
    PROVE  \E f : Reaches(f, N, vs, s, inner)
  <1> DEFINE f == CHOOSE f : Steps(f, N, vs, s, inner)
  <1>1. Steps(f, N, vs, s, inner)  BY StepsExist, Zenon
  <1>2. ReachedIn(N, vs, s, inner) = f[N]  BY Zenon DEF ReachedIn, Steps
  <1> HIDE DEF f
  <1> DEFINE F(S) == Further(S, vs, inner)
  <1> HIDE DEF F
  <1>3. f = [n \in 0..N |-> IF n = 0 THEN {s} ELSE F(f[n - 1])]  BY <1>1, Zenon DEF Steps, F
  <1>4. f[0] = {s}  BY <1>3
  <1>5. ASSUME NEW n \in 0..(N - 1)  PROVE f[n + 1] = F(f[n])
    <2>1. n + 1 \in 0..N /\ n + 1 # 0 /\ (n + 1) - 1 = n  OBVIOUS
    <2> QED  BY <2>1, <1>3, Zenon
  <1> QED  BY <1>2, <1>4, <1>5, Zenon DEF F, Reaches

\* Nothing leads out of S.
Closed(S, vs, inner) == Further(S, vs, inner) = S

\* Reached is in every closed set that has s.
LEMMA ReachedLeast ==
    ASSUME NEW N \in Nat, NEW vs, NEW s, NEW inner, NEW T, s \in T,
           \A u \in T \cap inner : {vs[u].selfPt, vs[u].anotherPt} \ {Nil} \subseteq T
    PROVE  ReachedIn(N, vs, s, inner) \subseteq T
  <1>0. PICK f : Reaches(f, N, vs, s, inner)  BY ReachedSteps, Zenon
  <1>1. /\ ReachedIn(N, vs, s, inner) = f[N]
        /\ f[0] = {s} /\ \A n \in 0..(N - 1) : f[n + 1] = Further(f[n], vs, inner)
    BY <1>0, Zenon DEF Reaches
  <1> DEFINE Good == {n \in Nat : n <= N => f[n] \subseteq T}
  <1>2. 0 \in Good  BY <1>1, Zenon
  <1>3. ASSUME NEW n \in Nat, n \in Good  PROVE n + 1 \in Good
    <2> SUFFICES ASSUME n + 1 <= N  PROVE f[n + 1] \subseteq T  OBVIOUS
    <2>1. f[n] \subseteq T /\ n \in 0..(N - 1)  BY <1>3
    <2>2. f[n + 1] = Further(f[n], vs, inner)  BY <2>1, <1>1, Zenon
    <2> QED  BY <2>1, <2>2, Zenon DEF Further
  <1>4. Nat \subseteq Good  BY <1>2, <1>3, NatSet, Zenon
  <1> QED  BY <1>1, <1>4

\* As many steps as there are vertices are enough: Reached has s, and is closed.
LEMMA ReachedClosed ==
    ASSUME NEW N \in Nat, NEW vs, NEW s, NEW inner, NEW D, D \subseteq 1..N, s \in D,
           \A u \in D : {vs[u].selfPt, vs[u].anotherPt} \ {Nil} \subseteq D
    PROVE  /\ s \in ReachedIn(N, vs, s, inner)
           /\ \A u \in ReachedIn(N, vs, s, inner) \cap inner :
                 {vs[u].selfPt, vs[u].anotherPt} \ {Nil} \subseteq ReachedIn(N, vs, s, inner)
  <1>0. PICK f : Reaches(f, N, vs, s, inner)  BY ReachedSteps, Zenon
  <1>1. /\ ReachedIn(N, vs, s, inner) = f[N]
        /\ f[0] = {s} /\ \A n \in 0..(N - 1) : f[n + 1] = Further(f[n], vs, inner)
    BY <1>0, Zenon DEF Reaches
  <1> DEFINE Big(n) == /\ s \in f[n] /\ f[n] \subseteq D
                       /\ Closed(f[n], vs, inner) \/ Cardinality(f[n]) >= n + 1
             Good == {n \in Nat : n <= N => Big(n)}
  <1>2. IsFiniteSet(D) /\ Cardinality(D) <= N
    <2>1. IsFiniteSet(1..N) /\ Cardinality(1..N) = N  BY FS_Interval
    <2> QED  BY <2>1, FS_Subset, ZenonT(60)
  <1>3. 0 \in Good
    <2>1. Cardinality({s}) = 1  BY FS_Singleton, Zenon
    <2> QED  BY <2>1, <1>1
  <1>4. ASSUME NEW n \in Nat, n \in Good  PROVE n + 1 \in Good
    <2> SUFFICES ASSUME n + 1 <= N  PROVE Big(n + 1)  OBVIOUS
    <2>1. Big(n) /\ n \in 0..(N - 1)  BY <1>4
    <2>2. f[n + 1] = Further(f[n], vs, inner)  BY <2>1, <1>1, Zenon
    <2>3. f[n] \subseteq f[n + 1] /\ f[n + 1] \subseteq D  BY <2>1, <2>2, Zenon DEF Further
    <2>4. CASE Closed(f[n], vs, inner)
      <3>1. f[n + 1] = f[n]  BY <2>2, <2>4, Zenon DEF Closed
      <3> QED  BY <2>1, <2>4, <3>1, Zenon
    <2>5. CASE ~Closed(f[n], vs, inner)
      <3>1. f[n + 1] # f[n]  BY <2>2, <2>5, Zenon DEF Closed
      <3>2. IsFiniteSet(f[n + 1])  BY <2>3, <1>2, FS_Subset, Zenon
      <3>3. IsFiniteSet(f[n])  BY <2>1, <1>2, FS_Subset, Zenon
      <3>4. Cardinality(f[n]) \in Nat /\ Cardinality(f[n + 1]) \in Nat  BY <3>2, <3>3, FS_CardinalityType, Zenon
      <3>5. Cardinality(f[n]) <= Cardinality(f[n + 1]) /\ Cardinality(f[n + 1]) # Cardinality(f[n])
        BY <3>1, <3>2, <2>3, FS_Subset, Zenon
      <3>6. Cardinality(f[n]) >= n + 1  BY <2>1, <2>5, Zenon
      <3>7. Cardinality(f[n + 1]) >= n + 1 + 1  BY <3>4, <3>5, <3>6
      <3> QED  BY <2>1, <2>3, <3>7, Zenon
    <2> QED  BY <2>4, <2>5, Zenon
  <1> HIDE DEF Big
  <1>5. Nat \subseteq Good  BY <1>3, <1>4, NatSet, Zenon
  <1>6. Big(N)  BY <1>5
  <1> USE DEF Big
  <1>7. Cardinality(f[N]) <= Cardinality(D) /\ Cardinality(f[N]) \in Nat /\ Cardinality(D) \in Nat
    BY <1>2, <1>6, FS_Subset, FS_CardinalityType, Zenon
  <1>8. Closed(f[N], vs, inner)  BY <1>2, <1>6, <1>7
  <1> QED  BY <1>1, <1>6, <1>8 DEF Closed, Further

----------------------------------------------------------------------------
(* The inductive invariant.                                                 *)

VertexRec == [selfPt : Nat, anotherPt : Nat, witness : 1..3, color : 0..2]
Vertices == UNION {[D -> VertexRec] : D \in SUBSET Nat}
Frame == [v : Nat, x : [1..2 -> Nat]]
Monitor == [pc : {"front", "select", "loop", "visit"}, idx : Nat, starter : Nat, next : Nat, strongsee : Nat,
            e : Nat, trace : SUBSET Slot, stack : Seq(Frame), before : [vert : Vertices, own : Nat],
            searched : SUBSET Nat]

TypeOK ==
    /\ ev \in History
    /\ DOMAIN vert \subseteq DOMAIN ev /\ vert \in [DOMAIN vert -> VertexRec]
    /\ verTop \in [Slot -> Nat]
    /\ lostDict \subseteq Nat \X DOMAIN vert
    /\ currentIdx \in Nat /\ ownRoundID \in Nat
    /\ witnesses \in [0..currentIdx -> [Slot -> Nat]]
    /\ mon \in Monitor /\ mon.idx \in 0..currentIdx

\* A parent or 0.
Points(p, vs) == p = Nil \/ p \in DOMAIN vs

\* Pointers lead to vertices; a vertex that waits has no other parent, and waits in
\* one round.
GraphOK ==
    /\ \A v \in DOMAIN vert : Points(vert[v].selfPt, vert) /\ Points(vert[v].anotherPt, vert)
    /\ \A c \in Slot : Points(verTop[c], vert)
    /\ \A w \in lostDict : vert[w[2]].anotherPt = Nil
    /\ \A w, x \in lostDict : w[2] = x[2] => w = x

\* The calls of dfsVisit that have not returned are on grey vertices, and have
\* still to visit parents of theirs.
FrameOK(f) ==
    /\ f.v \in DOMAIN vert /\ vert[f.v].color = GREY
    /\ \A k \in 1..2 : f.x[k] \in {Nil, vert[f.v].selfPt, vert[f.v].anotherPt}
StackOK ==
    /\ mon.pc # "visit" => mon.stack = <<>>
    /\ mon.pc \in {"loop", "visit"} => mon.starter \in DOMAIN vert
    /\ \A i \in DOMAIN mon.stack : FrameOK(mon.stack[i])

\* The vertices that the search goes on from, as SearchSound has them.
Inner == (DOMAIN vert \ DOMAIN mon.before.vert) \cup (NotWitness(mon.before.vert) \ {mon.e})
FromStarter == Reached(vert, mon.starter, Inner)

\* A witness of the graph that the search began with is still one, and every call is
\* on a vertex that the search came to and goes on from.
SearchOK ==
    mon.pc = "visit" =>
        /\ \A v \in DOMAIN mon.before.vert :
              v \in DOMAIN vert /\ (mon.before.vert[v].witness = Witness => vert[v].witness = Witness)
        /\ \A i \in DOMAIN mon.stack : mon.stack[i].v \in FromStarter \cap Inner

IInv == TypeOK /\ GraphOK /\ StackOK /\ NoReentry /\ SearchOK /\ SearchSound

\* What no step takes back: a vertex stays, and so do its pointers.
Kept ==
    \A v \in DOMAIN vert :
        /\ v \in DOMAIN vert' /\ vert'[v].selfPt = vert[v].selfPt
        /\ vert[v].anotherPt # Nil => vert'[v].anotherPt = vert[v].anotherPt

----------------------------------------------------------------------------
\* An event has the fields that AddEvent reads; its number is not 0.
LEMMA Events ==
    ASSUME TypeOK
    PROVE  /\ Len(ev) \in Nat /\ DOMAIN ev = 1..Len(ev) /\ Nil \notin DOMAIN vert
           /\ \A e \in DOMAIN ev : /\ ev[e].seqNum \in Slot /\ ev[e].RoundID \in Nat
                                   /\ ev[e].SelfPart \in Nat /\ ev[e].OtherPart \in Nat
  <1>1. ev \in Seq([seqNum : Slot, SelfPart : Nat, OtherPart : Nat, RoundID : Nat]) /\ DOMAIN vert \subseteq DOMAIN ev
    BY SearchAssumption, Zenon DEF TypeOK
  <1>2. Len(ev) \in Nat /\ DOMAIN ev = 1..Len(ev)  BY <1>1
  <1>3. ASSUME NEW e \in DOMAIN ev
        PROVE  ev[e] \in [seqNum : Slot, SelfPart : Nat, OtherPart : Nat, RoundID : Nat]
    <2> DEFINE E == [seqNum : Slot, SelfPart : Nat, OtherPart : Nat, RoundID : Nat]
    <2>1. ev \in Seq(E)  BY <1>1, Zenon
    <2> HIDE DEF E
    <2>2. ev[e] \in E  BY <2>1
    <2> QED  BY <2>2, Zenon DEF E
  <1> QED  BY <1>1, <1>2, <1>3 DEF Nil

\* The parts of the type invariant that the steps use.
LEMMA Types ==
    ASSUME TypeOK
    PROVE  /\ ev \in History
           /\ DOMAIN vert \subseteq DOMAIN ev /\ vert \in [DOMAIN vert -> VertexRec]
           /\ verTop \in [Slot -> Nat]
           /\ lostDict \subseteq Nat \X DOMAIN vert
           /\ currentIdx \in Nat /\ ownRoundID \in Nat
           /\ witnesses \in [0..currentIdx -> [Slot -> Nat]]
           /\ mon \in Monitor /\ mon.idx \in 0..currentIdx
  BY Zenon DEF TypeOK

\* The same for the next state.
LEMMA Typed ==
    ASSUME ev' \in History,
           DOMAIN vert' \subseteq DOMAIN ev', vert' \in [DOMAIN vert' -> VertexRec],
           verTop' \in [Slot -> Nat],
           lostDict' \subseteq Nat \X DOMAIN vert',
           currentIdx' \in Nat, ownRoundID' \in Nat,
           witnesses' \in [0..currentIdx' -> [Slot -> Nat]],
           mon' \in Monitor, mon'.idx \in 0..currentIdx'
    PROVE  TypeOK'
  BY Zenon DEF TypeOK

\* Slots are numbers, and the colors and kinds of witness are what they are.
LEMMA Constants ==
    /\ Slot \subseteq Nat /\ Own \in Slot
    /\ NoWitness \in [Slot -> Nat]
  BY SearchAssumption DEF Slot, Own, NoWitness, Nil

\* AddEvent: one vertex more, of which the search sees nothing yet; a vertex that
\* waited may get the new one as its other parent.
LEMMA AddEffect ==
    ASSUME TypeOK, GraphOK, NEW e \in DOMAIN ev, AddEvent(e)
    PROVE  /\ e \notin DOMAIN vert /\ DOMAIN vert' = DOMAIN vert \cup {e}
           /\ vert' \in [DOMAIN vert' -> VertexRec]
           /\ Points(vert'[e].selfPt, vert) /\ Points(vert'[e].anotherPt, vert)
           /\ \A v \in DOMAIN vert :
                 /\ vert'[v].selfPt = vert[v].selfPt /\ vert'[v].color = vert[v].color
                 /\ vert'[v].witness = vert[v].witness
                 /\ \/ vert'[v].anotherPt = vert[v].anotherPt
                    \/ vert[v].anotherPt = Nil /\ vert'[v].anotherPt = e
           /\ verTop' \in [Slot -> Nat] /\ \A c \in Slot : verTop'[c] = IF c = ev[e].seqNum THEN e ELSE verTop[c]
           /\ vert'[e].selfPt = verTop[ev[e].seqNum]
           /\ lostDict' \subseteq Nat \X DOMAIN vert'
           /\ \A w \in lostDict' : vert'[w[2]].anotherPt = Nil
           /\ \A w, x \in lostDict' : w[2] = x[2] => w = x
           /\ witnesses' \in [0..currentIdx -> [Slot -> Nat]]
           /\ UNCHANGED <<ev, currentIdx, ownRoundID, mon>>
  <1> DEFINE c == ev[e].seqNum
             r == FindRound(RoundID(e))
             known == ev[e].OtherPart \in DOMAIN vert
             waiting == {v \in DOMAIN vert : <<r, v>> \in lostDict /\ ev[v].OtherPart = e}
             wit == IF hashChain(c) = {} THEN Witness ELSE Normal
             op == IF known THEN ev[e].OtherPart ELSE Nil
             new == [selfPt |-> verTop[c], anotherPt |-> op, witness |-> wit, color |-> WHITE]
  <1>1. /\ e \notin DOMAIN vert
        /\ vert' = [v \in DOMAIN vert \cup {e} |->
                      IF v = e THEN new
                      ELSE IF v \in waiting THEN [vert[v] EXCEPT !.anotherPt = e] ELSE vert[v]]
        /\ verTop' = [verTop EXCEPT ![c] = e]
        /\ lostDict' = (lostDict \ ({r} \X waiting)) \cup (IF known THEN {} ELSE {<<r, e>>})
        /\ witnesses' = IF hashChain(c) = {} THEN [witnesses EXCEPT ![r][c] = e] ELSE witnesses
        /\ UNCHANGED <<ev, currentIdx, ownRoundID, mon>>
    BY Zenon DEF AddEvent
  <1>2. c \in Slot /\ e \in Nat /\ ev[e].OtherPart \in Nat  BY Events
  <1>3. r \in 0..currentIdx
    <2>1. currentIdx \in Nat  BY Types, Zenon
    <2> QED  BY <2>1 DEF FindRound
  <1>4. verTop[c] \in Nat /\ Points(verTop[c], vert)  BY <1>2, Types, Zenon DEF GraphOK
  <1>5. new \in VertexRec
    <2>1. wit \in 1..3 /\ op \in Nat  BY <1>2, SMTT(30) DEF Witness, Normal, Nil
    <2> HIDE DEF wit, op
    <2> QED  BY <2>1, <1>4 DEF VertexRec, WHITE
  <1>6. new.selfPt = verTop[c] /\ new.anotherPt = op /\ Points(op, vert)  BY Zenon DEF Points
  <1>7. \A v \in DOMAIN vert : vert[v] \in VertexRec  BY Types, Zenon
  <1>8. \A v \in waiting : <<r, v>> \in lostDict /\ vert[v].anotherPt = Nil /\ v \in DOMAIN vert  BY Zenon DEF GraphOK
  <1>20. witnesses' \in [0..currentIdx -> [Slot -> Nat]]
    <2>1. witnesses \in [0..currentIdx -> [Slot -> Nat]]  BY Types, Zenon
    <2> DEFINE ws == [witnesses EXCEPT ![r][c] = e]
    <2>2. ws \in [0..currentIdx -> [Slot -> Nat]]
      <3> HIDE DEF r, c
      <3> QED  BY <2>1, <1>2, <1>3, Zenon
    <2>3. witnesses' = ws \/ witnesses' = witnesses  BY <1>1, Zenon
    <2> HIDE DEF ws
    <2> QED  BY <2>1, <2>2, <2>3, Zenon
  <1>21. verTop' \in [Slot -> Nat] /\ \A d \in Slot : verTop'[d] = IF d = ev[e].seqNum THEN e ELSE verTop[d]
    <2>1. verTop \in [Slot -> Nat]  BY Types, Zenon
    <2> HIDE DEF c
    <2>2. verTop' \in [Slot -> Nat] /\ \A d \in Slot : verTop'[d] = IF d = c THEN e ELSE verTop[d]
      BY <2>1, <1>1, <1>2, Zenon
    <2> QED  BY <2>2, Zenon DEF c
  <1>22. new.selfPt = verTop[ev[e].seqNum]  BY Zenon
  <1> HIDE DEF c, r, known, waiting, new, op, wit
  <1>9. DOMAIN vert' = DOMAIN vert \cup {e}  BY <1>1, Zenon
  <1>10. vert'[e] = new  BY <1>1, Zenon
  <1>11. ASSUME NEW v \in DOMAIN vert
         PROVE  /\ vert'[v] \in VertexRec
                /\ vert'[v].selfPt = vert[v].selfPt /\ vert'[v].color = vert[v].color
                /\ vert'[v].witness = vert[v].witness
                /\ vert'[v].anotherPt = IF v \in waiting THEN e ELSE vert[v].anotherPt
    <2>1. v # e  BY <1>1, Zenon
    <2>2. vert'[v] = IF v \in waiting THEN [vert[v] EXCEPT !.anotherPt = e] ELSE vert[v]  BY <1>1, <2>1, Zenon
    <2>3. vert[v] \in VertexRec  BY <1>7, Zenon
    <2> QED  BY <2>2, <2>3, <1>2, Zenon DEF VertexRec
  <1>12. vert' \in [DOMAIN vert' -> VertexRec]
    <2>1. vert' = [v \in DOMAIN vert' |-> vert'[v]]  BY <1>1, Zenon
    <2>2. \A v \in DOMAIN vert' : vert'[v] \in VertexRec  BY <1>5, <1>9, <1>10, <1>11, Zenon
    <2> QED  BY <2>1, <2>2, Zenon
  <1>13. Points(vert'[e].selfPt, vert) /\ Points(vert'[e].anotherPt, vert)  BY <1>4, <1>6, <1>10, Zenon
  <1>14. ASSUME NEW v \in DOMAIN vert
         PROVE  \/ vert'[v].anotherPt = vert[v].anotherPt
                \/ vert[v].anotherPt = Nil /\ vert'[v].anotherPt = e
    BY <1>8, <1>11, Zenon
  <1>15. lostDict \subseteq Nat \X DOMAIN vert /\ currentIdx \in Nat  BY Types, Zenon
  <1>16. lostDict' \subseteq Nat \X DOMAIN vert'  BY <1>1, <1>3, <1>9, <1>15
  <1>17. ASSUME NEW w \in lostDict', w \notin lostDict  PROVE w = <<r, e>> /\ ~known  BY <1>1, <1>17, Zenon
  <1>18. ASSUME NEW w \in lostDict'  PROVE vert'[w[2]].anotherPt = Nil
    <2>1. CASE w \notin lostDict
      <3>1. w[2] = e /\ op = Nil  BY <2>1, <1>17 DEF op
      <3> QED  BY <3>1, <1>6, <1>10, Zenon
    <2>2. CASE w \in lostDict
      <3>1. w[2] \in DOMAIN vert /\ vert[w[2]].anotherPt = Nil /\ w = <<w[1], w[2]>>  BY <2>2, <1>15 DEF GraphOK
      <3>2. w[2] \in waiting => w[1] = r
        <4>1. SUFFICES ASSUME w[2] \in waiting  PROVE w[1] = r  BY Zenon
        <4>2. <<r, w[2]>> \in lostDict  BY <4>1, <1>8, Zenon
        <4>3. w = <<r, w[2]>>  BY <4>2, <2>2, Zenon DEF GraphOK
        <4> QED  BY <4>3
      <3>3. w[2] \notin waiting
        <4> SUFFICES ASSUME w[2] \in waiting  PROVE FALSE  BY Zenon
        <4>1. w \in {r} \X waiting  BY <3>1, <3>2, Zenon
        <4>2. w = <<r, e>>  BY <4>1, <1>1, Zenon
        <4> QED  BY <4>2, <1>1, <1>8, Zenon
      <3> QED  BY <3>1, <3>3, <1>11, Zenon
    <2> QED  BY <2>1, <2>2, Zenon
  <1>19. ASSUME NEW w \in lostDict', NEW x \in lostDict', w[2] = x[2]  PROVE w = x
    <2>1. w \in lostDict => w[2] # e  BY <1>1, <1>15, Zenon
    <2>2. x \in lostDict => x[2] # e  BY <1>1, <1>15, Zenon
    <2>3. w \in lostDict \/ (w = <<r, e>> /\ w[2] = e)  BY <1>17
    <2>4. x \in lostDict \/ (x = <<r, e>> /\ x[2] = e)  BY <1>17
    <2>5. w \in lostDict /\ x \in lostDict => w = x  BY <1>19, Zenon DEF GraphOK
    <2> QED  BY <2>1, <2>2, <2>3, <2>4, <2>5, <1>19, Zenon
  <1>23. vert'[e].selfPt = verTop[ev[e].seqNum]  BY <1>10, <1>22, Zenon
  <1> QED  BY <1>1, <1>9, <1>11, <1>12, <1>13, <1>14, <1>16, <1>18, <1>19, <1>20, <1>21, <1>23, Zenon

\* RoundLoop files a vertex: the table of witnesses keeps its form.
LEMMA FileEffect ==
    ASSUME TypeOK, NEW v \in DOMAIN vert, NEW id, NEW new \in BOOLEAN, File(v, id, new)
    PROVE  /\ currentIdx' \in Nat /\ currentIdx <= currentIdx'
           /\ witnesses' \in [0..currentIdx' -> [Slot -> Nat]]
  <1> DEFINE idx == IF new THEN currentIdx + 1 ELSE currentIdx
             all == [r \in 0..idx |-> IF r \in 0..currentIdx THEN witnesses[r] ELSE NoWitness]
             filed == [all EXCEPT ![id][ev[v].seqNum] = v]
  <1>1. currentIdx' = idx /\ witnesses' = IF id \in 0..idx THEN filed ELSE all  BY Zenon DEF File
  <1>2. currentIdx \in Nat /\ witnesses \in [0..currentIdx -> [Slot -> Nat]]  BY Types, Zenon
  <1>3. idx \in Nat /\ currentIdx <= idx  BY <1>2
  <1>4. ev[v].seqNum \in Slot /\ v \in Nat
    <2>1. v \in DOMAIN ev  BY Types, Zenon
    <2> QED  BY <2>1, Events
  <1> HIDE DEF idx
  <1>5. all \in [0..idx -> [Slot -> Nat]]  BY <1>2, Constants, Zenon
  <1> HIDE DEF all
  <1>6. id \in 0..idx => filed \in [0..idx -> [Slot -> Nat]]  BY <1>4, <1>5, Zenon
  <1> QED  BY <1>1, <1>3, <1>5, <1>6, Zenon

\* The vertices ws are the vertices vs, with u of another color.
Painted(ws, vs, u, color) ==
    /\ DOMAIN ws = DOMAIN vs /\ ws \in [DOMAIN vs -> VertexRec]
    /\ \A v \in DOMAIN vs :
          /\ ws[v].selfPt = vs[v].selfPt /\ ws[v].anotherPt = vs[v].anotherPt /\ ws[v].witness = vs[v].witness
          /\ ws[v].color = IF v = u THEN color ELSE vs[v].color

\* Color does that.
LEMMA ColorEffect ==
    ASSUME NEW vs, vs \in [DOMAIN vs -> VertexRec], NEW u \in DOMAIN vs, NEW color \in 0..2
    PROVE  Painted(Color(vs, u, color), vs, u, color)
  <1> DEFINE ws == [vs EXCEPT ![u].color = color]
             new == [vs[u] EXCEPT !.color = color]
  <1>1. DOMAIN ws = DOMAIN vs /\ ws[u] = new /\ \A v \in DOMAIN vs : v # u => ws[v] = vs[v]  BY Zenon
  <1>2. /\ new \in VertexRec /\ new.selfPt = vs[u].selfPt /\ new.anotherPt = vs[u].anotherPt
        /\ new.witness = vs[u].witness /\ new.color = color
    <2>1. vs[u] \in VertexRec  BY Zenon
    <2> QED  BY <2>1, Zenon DEF VertexRec
  <1>3. ws \in [DOMAIN vs -> VertexRec]
    <2> HIDE DEF new
    <2>1. ws = [vs EXCEPT ![u] = new]  BY Zenon DEF new
    <2> QED  BY <2>1, <1>2, Zenon
  <1> HIDE DEF ws, new
  <1>4. Painted(ws, vs, u, color)  BY <1>1, <1>2, <1>3, Zenon DEF Painted
  <1> QED  BY <1>4, Zenon DEF ws, Color

\* The fields of MonitorLoop that a search leaves alone.
SameSearch(m, n) ==
    /\ n.pc = m.pc /\ n.idx = m.idx /\ n.starter = m.starter /\ n.next = m.next /\ n.e = m.e
    /\ n.before = m.before

\* dfsVisit(u) has begun: u is counted, and it ends there or waits for its parents.
Enters(m, vs, u) ==
    /\ mon' \in Monitor /\ SameSearch(m, mon') /\ mon'.trace = m.trace \cup {ev[u].seqNum}
    /\ \/ /\ u = m.e \/ vs[u].witness = Witness
          /\ mon'.stack = m.stack /\ vert' = vs
       \/ /\ u # m.e /\ vs[u].witness # Witness
          /\ \E f \in Frame : /\ mon'.stack = Append(m.stack, f)
                              /\ f.v = u /\ f.x[1] = vs[u].selfPt /\ f.x[2] = vs[u].anotherPt
          /\ Painted(vert', vs, u, GREY)

\* That is what dfsVisit does before it looks at a parent.
LEMMA VisitedEffect ==
    ASSUME NEW m \in Monitor, NEW vs, vs \in [DOMAIN vs -> VertexRec], NEW u \in DOMAIN vs,
           u \in Nat, ev[u].seqNum \in Slot, Visited(m, vs, u)
    PROVE  Enters(m, vs, u)
  <1> DEFINE seen == [m EXCEPT !.trace = @ \cup {ev[u].seqNum}]
             f == [v |-> u, x |-> <<vs[u].selfPt, vs[u].anotherPt>>]
             deep == [seen EXCEPT !.stack = Append(@, f)]
  <1>1. IF Ends(m, vs, u) THEN mon' = seen /\ vert' = vs ELSE mon' = deep /\ vert' = Color(vs, u, GREY)
    BY Zenon DEF Visited
  <1>2. seen \in Monitor /\ SameSearch(m, seen) /\ seen.trace = m.trace \cup {ev[u].seqNum} /\ seen.stack = m.stack
    BY Zenon DEF Monitor, SameSearch
  <1>3. f \in Frame /\ f.v = u /\ f.x[1] = vs[u].selfPt /\ f.x[2] = vs[u].anotherPt
    <2>1. vs[u].selfPt \in Nat /\ vs[u].anotherPt \in Nat
      <3>1. vs[u] \in VertexRec  BY Zenon
      <3> QED  BY <3>1, Zenon DEF VertexRec
    <2> QED  BY <2>1 DEF Frame
  <1> HIDE DEF seen, f
  <1>4. /\ deep \in Monitor /\ SameSearch(seen, deep) /\ deep.trace = seen.trace /\ deep.stack = Append(m.stack, f)
    <2>1. seen.stack \in Seq(Frame)  BY <1>2, Zenon DEF Monitor
    <2>2. Append(seen.stack, f) \in Seq(Frame)  BY <2>1, <1>3
    <2> QED  BY <2>2, <1>2, Zenon DEF Monitor, SameSearch
  <1> HIDE DEF deep
  <1>5. SameSearch(m, deep)  BY <1>2, <1>4, Zenon DEF SameSearch
  <1>6. CASE Ends(m, vs, u)
    <2>1. mon' = seen /\ vert' = vs  BY <1>1, <1>6, Zenon
    <2>2. u = m.e \/ vs[u].witness = Witness  BY <1>6, Zenon DEF Ends
    <2> QED  BY <2>1, <2>2, <1>2, Zenon DEF Enters
  <1>7. CASE ~Ends(m, vs, u)
    <2>1. mon' = deep /\ vert' = Color(vs, u, GREY)  BY <1>1, <1>7, Zenon
    <2>2. u # m.e /\ vs[u].witness # Witness  BY <1>7, Zenon DEF Ends
    <2>3. Painted(vert', vs, u, GREY)  BY <2>1, ColorEffect DEF GREY
    <2> QED  BY <2>1, <2>2, <2>3, <1>2, <1>3, <1>4, <1>5, Zenon DEF Enters
  <1> QED  BY <1>6, <1>7, Zenon

\* A set of numbers that is not empty has a least one.
LEMMA MinNat ==
    ASSUME NEW S, S \subseteq Nat, S # {}
    PROVE  Min(S) \in S /\ \A y \in S : Min(S) <= y
  <1> DEFINE R == {ij \in Nat \X Nat : ij[1] < ij[2]}
  <1>1. IsWellFoundedOn(R, Nat)  BY NatLessThanWellFounded, Zenon DEF OpToRel
  <1> HIDE DEF R
  <1>2. PICK x \in S : \A y \in S : <<y, x>> \notin R  BY <1>1, WFMin, Zenon
  <1> USE DEF R
  <1>3. \A y \in S : x <= y
    <2> TAKE y \in S
    <2>1. ~(y < x)  BY <1>2, Zenon
    <2> QED  BY <2>1
  <1> QED  BY <1>3, Zenon DEF Min

\* JudgeSee begins with the starter, in the graph that clearColorDFS leaves.
LEMMA JudgeEffect ==
    ASSUME TypeOK, StackOK, JudgeSee
    PROVE  \E m, vs :
              /\ m \in Monitor /\ m.pc = "visit" /\ m.idx = mon.idx /\ m.starter = mon.starter /\ m.trace = {}
              /\ m.stack = <<>> /\ m.before.vert = vs /\ mon.pc = "loop"
              /\ m.before.own = ownRoundID /\ vs = clearColorDFS(mon.idx)
              /\ DOMAIN vs = DOMAIN vert /\ vs \in [DOMAIN vert -> VertexRec]
              /\ \A v \in DOMAIN vert : /\ vs[v].selfPt = vert[v].selfPt /\ vs[v].anotherPt = vert[v].anotherPt
                                        /\ vs[v].witness = vert[v].witness
              /\ Enters(m, vs, mon.starter)
              /\ UNCHANGED <<ev, verTop, lostDict, currentIdx, ownRoundID, witnesses>>
  <1> DEFINE i == Min(Rest)
             vs == clearColorDFS(mon.idx)
             b == [vert |-> vs, own |-> ownRoundID]
             m == [mon EXCEPT !.pc = "visit", !.next = i + 1, !.e = witnesses[mon.idx][i], !.trace = {},
                              !.before = b]
             white == UNION {Cleared(c, mon.idx) : c \in Slot}
  <1>1. /\ mon.pc = "loop" /\ Rest # {} /\ Visited(m, vs, mon.starter)
        /\ UNCHANGED <<ev, verTop, lostDict, currentIdx, ownRoundID, witnesses>>
    BY Zenon DEF JudgeSee
  <1>2. i \in Slot /\ i \in Nat
    <2>1. Rest \subseteq Slot  BY Zenon DEF Rest
    <2>2. i \in Rest  BY <1>1, <2>1, Constants, MinNat, Zenon
    <2> QED  BY <2>1, <2>2, Constants, Zenon
  <1>3. /\ mon \in Monitor /\ mon.idx \in 0..currentIdx /\ ownRoundID \in Nat
        /\ witnesses \in [0..currentIdx -> [Slot -> Nat]] /\ vert \in [DOMAIN vert -> VertexRec]
    BY Types, Zenon
  <1>4. mon.stack = <<>> /\ mon.starter \in DOMAIN vert  BY <1>1, Zenon DEF StackOK
  <1>5. DOMAIN vert \subseteq Nat
    <2>1. DOMAIN vert \subseteq DOMAIN ev  BY Types, Zenon
    <2> QED  BY <2>1, Events
  <1>6. vs = [v \in DOMAIN vert |-> IF v \in white THEN [vert[v] EXCEPT !.color = WHITE] ELSE vert[v]]
    BY Zenon DEF clearColorDFS
  <1> HIDE DEF i, vs, white
  <1>7. DOMAIN vs = DOMAIN vert  BY <1>6, Zenon
  <1>8. ASSUME NEW v \in DOMAIN vert
        PROVE  /\ vs[v] \in VertexRec
               /\ vs[v].selfPt = vert[v].selfPt /\ vs[v].anotherPt = vert[v].anotherPt
               /\ vs[v].witness = vert[v].witness
    <2>1. vert[v] \in VertexRec  BY <1>3, Zenon
    <2>2. vs[v] = IF v \in white THEN [vert[v] EXCEPT !.color = WHITE] ELSE vert[v]  BY <1>6, Zenon
    <2> QED  BY <2>1, <2>2 DEF VertexRec, WHITE
  <1>9. vs \in [DOMAIN vert -> VertexRec]
    <2>1. vs = [v \in DOMAIN vert |-> vs[v]]  BY <1>6, Zenon
    <2> QED  BY <2>1, <1>8, Zenon
  <1>10. b \in [vert : Vertices, own : Nat] /\ b.vert = vs /\ b.own = ownRoundID
    <2>1. vs \in Vertices  BY <1>5, <1>9, Zenon DEF Vertices
    <2> QED  BY <2>1, <1>3, Zenon
  <1> HIDE DEF b
  <1>11. /\ m \in Monitor /\ m.pc = "visit" /\ m.idx = mon.idx /\ m.starter = mon.starter /\ m.trace = {}
         /\ m.stack = <<>> /\ m.before.vert = vs /\ m.before.own = ownRoundID
    <2>1. witnesses[mon.idx][i] \in Nat  BY <1>2, <1>3, Zenon
    <2>2. i + 1 \in Nat  BY <1>2
    <2> HIDE DEF Vertices
    <2> QED  BY <1>3, <1>4, <1>10, <2>1, <2>2, Zenon DEF Monitor
  <1> HIDE DEF m
  <1>12. mon.starter \in Nat /\ ev[mon.starter].seqNum \in Slot
    <2>1. mon.starter \in DOMAIN ev  BY <1>4, Types, Zenon
    <2> QED  BY <2>1, <1>4, <1>5, Events, Zenon
  <1>13. Enters(m, vs, mon.starter)
    <2>1. vs \in [DOMAIN vs -> VertexRec] /\ mon.starter \in DOMAIN vs  BY <1>4, <1>7, <1>9, Zenon
    <2> QED  BY <1>1, <1>11, <1>12, <2>1, VisitedEffect, Zenon
  <1>14. mon.pc = "loop" /\ UNCHANGED <<ev, verTop, lostDict, currentIdx, ownRoundID, witnesses>>  BY <1>1, Zenon
  <1>15. vs = clearColorDFS(mon.idx)  BY Zenon DEF vs
  <1> WITNESS m, vs
  <1> QED  BY <1>7, <1>8, <1>9, <1>11, <1>13, <1>14, <1>15, Zenon

\* A parent that the loop of dfsVisit passes over.
Passed(p) == p = Nil \/ vert[p].color # WHITE

\* A turn of dfsVisit's loop: the innermost call goes on to a white parent of its
\* vertex, or it returns and its vertex is black.
LEMMA DfsEffect ==
    ASSUME TypeOK, GraphOK, StackOK, dfsVisit
    PROVE  LET n == Len(mon.stack) IN
           /\ mon.pc = "visit" /\ n \in Nat \ {0} /\ DOMAIN mon.stack = 1..n
           /\ UNCHANGED <<ev, verTop, lostDict, currentIdx, ownRoundID, witnesses>>
           /\ \/ \E m, u :
                    /\ m \in Monitor /\ SameSearch(mon, m) /\ m.trace = mon.trace
                    /\ DOMAIN m.stack = 1..n /\ Len(m.stack) = n
                    /\ \A i \in 1..n : /\ m.stack[i].v = mon.stack[i].v
                                       /\ \A j \in 1..2 : m.stack[i].x[j] \in {Nil, mon.stack[i].x[j]}
                    /\ \A i \in 1..n, j \in 1..2 :
                          m.stack[i].x[j] = mon.stack[i].x[j] \/ mon.stack[i].x[j] = u \/ Passed(mon.stack[i].x[j])
                    /\ u \in DOMAIN vert /\ u \in {mon.stack[n].x[1], mon.stack[n].x[2]}
                    /\ vert[u].color = WHITE
                    /\ Enters(m, vert, u)
              \/ /\ mon' \in Monitor /\ SameSearch(mon, mon') /\ mon'.trace = mon.trace
                 /\ DOMAIN mon'.stack = 1..(n - 1) /\ \A i \in 1..(n - 1) : mon'.stack[i] = mon.stack[i]
                 /\ Painted(vert', vert, mon.stack[n].v, BLACK)
                 /\ \A j \in 1..2 : Passed(mon.stack[n].x[j])
  <1> DEFINE n == Len(mon.stack)
             f == mon.stack[n]
             todo == Unvisited(f.x)
             k == Min(todo)
             y == [i \in 1..2 |-> IF i <= k THEN Nil ELSE f.x[i]]
             g == [f EXCEPT !.x = y]
             st == [mon.stack EXCEPT ![n] = g]
             m == [mon EXCEPT !.stack = st]
             q == SubSeq(mon.stack, 1, n - 1)
             back == [mon EXCEPT !.stack = q]
  <1>1. mon \in Monitor /\ vert \in [DOMAIN vert -> VertexRec]  BY Types, Zenon
  <1>2. mon.stack \in Seq(Frame)  BY <1>1, Zenon DEF Monitor
  <1>3. /\ mon.pc = "visit" /\ mon.stack # <<>>
        /\ UNCHANGED <<ev, verTop, lostDict, currentIdx, ownRoundID, witnesses>>
    BY Zenon DEF dfsVisit
  <1>4. n \in Nat \ {0} /\ DOMAIN mon.stack = 1..n /\ f \in Frame  BY <1>2, <1>3
  <1>5. FrameOK(f)  BY <1>4 DEF StackOK
  <1>6. f.v \in Nat /\ f.x \in [1..2 -> Nat]  BY <1>4, Zenon DEF Frame
  <1>7. DOMAIN vert \subseteq DOMAIN ev /\ DOMAIN vert \subseteq Nat
    <2>1. DOMAIN vert \subseteq DOMAIN ev  BY Types, Zenon
    <2> QED  BY <2>1, Events
  <1>8. ASSUME todo # {}, Visited(m, vert, f.x[k])
        PROVE  \E mm, u :
                    /\ mm \in Monitor /\ SameSearch(mon, mm) /\ mm.trace = mon.trace
                    /\ DOMAIN mm.stack = 1..n /\ Len(mm.stack) = n
                    /\ \A i \in 1..n : /\ mm.stack[i].v = mon.stack[i].v
                                       /\ \A j \in 1..2 : mm.stack[i].x[j] \in {Nil, mon.stack[i].x[j]}
                    /\ \A i \in 1..n, j \in 1..2 :
                          mm.stack[i].x[j] = mon.stack[i].x[j] \/ mon.stack[i].x[j] = u \/ Passed(mon.stack[i].x[j])
                    /\ u \in DOMAIN vert /\ u \in {mon.stack[n].x[1], mon.stack[n].x[2]}
                    /\ vert[u].color = WHITE
                    /\ Enters(mm, vert, u)
    <2> DEFINE u == f.x[k]
    <2>1. k \in 1..2 /\ u # Nil /\ vert[u].color = WHITE
      <3>1. todo \subseteq Nat  BY SMTT(30) DEF Unvisited
      <3>2. k \in todo  BY <1>8, <3>1, MinNat, Zenon
      <3> QED  BY <3>2, Zenon DEF Unvisited
    <2>2. u \in DOMAIN vert
      <3>1. u = vert[f.v].selfPt \/ u = vert[f.v].anotherPt  BY <1>5, <2>1, Zenon DEF FrameOK
      <3> QED  BY <1>5, <2>1, <3>1, Zenon DEF FrameOK, GraphOK, Points
    <2>12. \A j \in 1..2 : y[j] = f.x[j] \/ f.x[j] = u \/ Passed(f.x[j])
      <3>1. todo \subseteq Nat  BY DEF Unvisited
      <3>2. \A j \in todo : k <= j  BY <1>8, <3>1, MinNat, Zenon
      <3>3. \A j \in 1..2 : j \notin todo => Passed(f.x[j])  BY Zenon DEF Unvisited, Passed
      <3> HIDE DEF k, todo, f
      <3> TAKE j \in 1..2
      <3>4. CASE j \notin todo  BY <3>3, <3>4, Zenon
      <3>5. CASE k < j
        <4>1. y[j] = f.x[j]  BY <2>1, <3>5
        <4> QED  BY <4>1, Zenon
      <3>6. CASE j = k  BY <3>6, Zenon
      <3> QED  BY <2>1, <3>2, <3>4, <3>5, <3>6, SMTT(30)
    <2>3. u \in {f.x[1], f.x[2]}  BY <2>1, SMTT(30)
    <2>4. y \in [1..2 -> Nat] /\ \A j \in 1..2 : y[j] \in {Nil, f.x[j]}  BY <1>6, Zenon DEF Nil
    <2> HIDE DEF y, f, n, k, todo
    <2>5. g \in Frame /\ g.v = f.v /\ g.x = y  BY <1>4, <2>4, Zenon DEF Frame
    <2> HIDE DEF g
    <2>6. /\ st \in Seq(Frame) /\ DOMAIN st = 1..n /\ Len(st) = n /\ st[n] = g
          /\ \A i \in 1..n : i # n => st[i] = mon.stack[i]
      BY <1>2, <1>4, <2>5 DEF n
    <2>7. \A i \in 1..n : /\ st[i].v = mon.stack[i].v
                          /\ \A j \in 1..2 : st[i].x[j] \in {Nil, mon.stack[i].x[j]}
      <3> SUFFICES ASSUME NEW i \in 1..n
                   PROVE  st[i].v = mon.stack[i].v /\ \A j \in 1..2 : st[i].x[j] \in {Nil, mon.stack[i].x[j]}
        BY Zenon
      <3>1. CASE i = n  BY <3>1, <2>4, <2>5, <2>6, Zenon DEF f
      <3>2. CASE i # n  BY <3>2, <2>6, Zenon
      <3> QED  BY <3>1, <3>2, Zenon
    <2>13. \A i \in 1..n, j \in 1..2 :
              st[i].x[j] = mon.stack[i].x[j] \/ mon.stack[i].x[j] = u \/ Passed(mon.stack[i].x[j])
      <3> TAKE i \in 1..n, j \in 1..2
      <3>1. CASE i = n  BY <3>1, <2>12, <2>5, <2>6, Zenon DEF f
      <3>2. CASE i # n  BY <3>2, <2>6, Zenon
      <3> QED  BY <3>1, <3>2, Zenon
    <2> HIDE DEF st
    <2>8. m \in Monitor /\ SameSearch(mon, m) /\ m.trace = mon.trace /\ m.stack = st
      BY <1>1, <2>6, Zenon DEF Monitor, SameSearch
    <2>9. Visited(m, vert, u)  BY <1>8, Zenon
    <2> HIDE DEF m, u
    <2>10. u \in Nat /\ ev[u].seqNum \in Slot  BY <2>2, <1>7, Events, Zenon
    <2>11. Enters(m, vert, u)  BY <1>1, <2>2, <2>8, <2>9, <2>10, VisitedEffect, Zenon
    <2> QED  BY <2>1, <2>2, <2>3, <2>6, <2>7, <2>8, <2>11, <2>13, Zenon DEF f
  <1>9. ASSUME mon' = back, vert' = Color(vert, f.v, BLACK)
        PROVE  /\ mon' \in Monitor /\ SameSearch(mon, mon') /\ mon'.trace = mon.trace
               /\ DOMAIN mon'.stack = 1..(n - 1) /\ \A i \in 1..(n - 1) : mon'.stack[i] = mon.stack[i]
               /\ Painted(vert', vert, f.v, BLACK)
    <2>1. q \in Seq(Frame) /\ DOMAIN q = 1..(n - 1) /\ \A i \in 1..(n - 1) : q[i] = mon.stack[i]
      <3> HIDE DEF Frame
      <3>1. q \in Seq(Frame)  BY <1>2, <1>4
      <3>2. Len(q) = n - 1  BY <1>2, <1>4
      <3>3. \A i \in 1..(n - 1) : q[i] = mon.stack[i]  BY <1>2, <1>4
      <3> QED  BY <3>1, <3>2, <3>3, <1>4
    <2>2. Painted(vert', vert, f.v, BLACK)
      <3> HIDE DEF f, n, k, q, back
      <3>1. f.v \in DOMAIN vert  BY <1>5, Zenon DEF FrameOK
      <3>2. BLACK \in 0..2  BY DEF BLACK
      <3>3. vert' = Color(vert, f.v, BLACK)  BY <1>9, Zenon
      <3> HIDE DEF BLACK
      <3> QED  BY <1>1, <3>1, <3>2, <3>3, ColorEffect, Zenon
    <2> HIDE DEF q
    <2>3. back \in Monitor /\ SameSearch(mon, back) /\ back.trace = mon.trace /\ back.stack = q
      BY <1>1, <2>1, Zenon DEF Monitor, SameSearch
    <2> HIDE DEF back, n
    <2> QED  BY <1>9, <2>1, <2>2, <2>3, Zenon
  <1>11. todo = {} => \A j \in 1..2 : Passed(f.x[j])  BY Zenon DEF Unvisited, Passed
  <1>10. \/ todo # {} /\ Visited(m, vert, f.x[k])
         \/ todo = {} /\ mon' = back /\ vert' = Color(vert, f.v, BLACK)
    <2>1. IF todo # {}
          THEN Visited([mon EXCEPT !.stack[n].x = [i \in 1..2 |-> IF i <= k THEN Nil ELSE @[i]]], vert, f.x[k])
          ELSE mon' = back /\ vert' = Color(vert, f.v, BLACK)
      BY Zenon DEF dfsVisit
    <2>2. [mon EXCEPT !.stack[n].x = [i \in 1..2 |-> IF i <= k THEN Nil ELSE @[i]]] = m
      BY Zenon
    <2> HIDE DEF todo, f, n, k, m, back
    <2> QED  BY <2>1, <2>2, Zenon
  <1> HIDE DEF todo, m, back, k, f
  <1> QED  BY <1>3, <1>4, <1>8, <1>9, <1>10, <1>11, Zenon DEF f

\* The vertices ws are the vertices vs up to colors and kinds of witness.
Alike(ws, vs) ==
    /\ DOMAIN ws = DOMAIN vs /\ ws \in [DOMAIN vs -> VertexRec]
    /\ \A v \in DOMAIN vs : ws[v].selfPt = vs[v].selfPt /\ ws[v].anotherPt = vs[v].anotherPt

\* They differ in the kind of one vertex.
Marked(ws, vs, u, ty) ==
    /\ Alike(ws, vs)
    /\ \A v \in DOMAIN vs : ws[v].color = vs[v].color /\ ws[v].witness = IF v = u THEN ty ELSE vs[v].witness

\* A vertex becomes a witness, or a local one: nothing else of it changes.
LEMMA WitnessEffect ==
    ASSUME NEW vs, vs \in [DOMAIN vs -> VertexRec], NEW u \in DOMAIN vs, NEW ty \in 1..3,
           NEW ws, ws = [vs EXCEPT ![u].witness = ty]
    PROVE  Marked(ws, vs, u, ty)
  <1> DEFINE new == [vs[u] EXCEPT !.witness = ty]
  <1>1. DOMAIN ws = DOMAIN vs /\ ws[u] = new /\ \A v \in DOMAIN vs : v # u => ws[v] = vs[v]  BY Zenon
  <1>2. /\ new \in VertexRec /\ new.selfPt = vs[u].selfPt /\ new.anotherPt = vs[u].anotherPt
        /\ new.color = vs[u].color /\ new.witness = ty
    <2>1. vs[u] \in VertexRec  BY Zenon
    <2> QED  BY <2>1, Zenon DEF VertexRec
  <1>3. ws \in [DOMAIN vs -> VertexRec]
    <2>1. ws = [vs EXCEPT ![u] = new]  BY Zenon
    <2> HIDE DEF new
    <2> QED  BY <2>1, <1>2, Zenon
  <1> HIDE DEF new
  <1>4. Alike(ws, vs)  BY <1>1, <1>2, <1>3, Zenon DEF Alike
  <1>5. ASSUME NEW v \in DOMAIN vs
        PROVE  ws[v].color = vs[v].color /\ ws[v].witness = IF v = u THEN ty ELSE vs[v].witness
    BY <1>1, <1>2, Zenon
  <1> QED  BY <1>4, <1>5, Zenon DEF Marked

\* The event comes again as a witness.
LEMMA MarkEffect ==
    ASSUME TypeOK, NEW v \in DOMAIN vert, MarkWitness(v)
    PROVE  /\ Alike(vert', vert)
           /\ \A u \in DOMAIN vert : /\ vert'[u].color = vert[u].color
                                     /\ vert'[u].witness = vert[u].witness \/ vert'[u].witness = Witness
           /\ currentIdx' \in Nat /\ currentIdx <= currentIdx'
           /\ witnesses' \in [0..currentIdx' -> [Slot -> Nat]]
           /\ UNCHANGED <<ev, verTop, lostDict, ownRoundID, mon>>
  <1>1. /\ vert' = [vert EXCEPT ![v].witness = Witness]
        /\ File(v, ev[v].RoundID, ev[v].RoundID = currentIdx + 1)
        /\ UNCHANGED <<ev, verTop, lostDict, ownRoundID, mon>>
    BY Zenon DEF MarkWitness
  <1>2. vert \in [DOMAIN vert -> VertexRec] /\ Witness \in 1..3  BY Types DEF Witness
  <1>3. /\ Alike(vert', vert)
        /\ \A u \in DOMAIN vert : /\ vert'[u].color = vert[u].color
                                  /\ vert'[u].witness = IF u = v THEN Witness ELSE vert[u].witness
    <2>1. Marked(vert', vert, v, Witness)  BY <1>1, <1>2, WitnessEffect, Zenon
    <2> QED  BY <2>1, Zenon DEF Marked
  <1>4. (ev[v].RoundID = currentIdx + 1) \in BOOLEAN  BY Zenon
  <1>5. /\ currentIdx' \in Nat /\ currentIdx <= currentIdx'
        /\ witnesses' \in [0..currentIdx' -> [Slot -> Nat]]
    BY <1>1, <1>4, FileEffect, Zenon
  <1> QED  BY <1>1, <1>3, <1>5, Zenon

\* The steps of MonitorLoop between two searches.
Between == MonitorFront \/ (\E v \in DOMAIN vert : MonitorRecv(v)) \/ Judged \/ Decide

\* No search is on after them, and the pointers are as they were.
LEMMA BetweenEffect ==
    ASSUME TypeOK, GraphOK, StackOK, Between
    PROVE  /\ mon' \in Monitor /\ mon'.idx \in 0..currentIdx' /\ mon'.pc # "visit" /\ mon'.stack = <<>>
           /\ mon'.pc = "loop" => mon'.starter \in DOMAIN vert
           /\ Alike(vert', vert)
           /\ currentIdx' \in Nat /\ ownRoundID' \in Nat
           /\ witnesses' \in [0..currentIdx' -> [Slot -> Nat]]
           /\ UNCHANGED <<ev, verTop, lostDict>>
  <1> DEFINE M == /\ mon' \in Monitor /\ mon'.idx \in 0..currentIdx /\ mon'.pc # "visit" /\ mon'.stack = <<>>
                  /\ mon'.pc = "loop" => mon'.starter \in DOMAIN vert
  <1>1. /\ mon \in Monitor /\ mon.idx \in 0..currentIdx /\ currentIdx \in Nat /\ ownRoundID \in Nat
        /\ vert \in [DOMAIN vert -> VertexRec] /\ witnesses \in [0..currentIdx -> [Slot -> Nat]]
    BY Types, Zenon
  <1>2. Alike(vert, vert)  BY <1>1, Zenon DEF Alike
  <1>3. mon.pc # "visit" => mon.stack = <<>>  BY Zenon DEF StackOK
  <1>4. mon.pc = "loop" => mon.starter \in DOMAIN vert  BY Zenon DEF StackOK
  <1>5. DOMAIN vert \subseteq Nat
    <2>1. DOMAIN vert \subseteq DOMAIN ev  BY Types, Zenon
    <2> QED  BY <2>1, Events
  <1>6. CASE MonitorFront
    <2>1. /\ mon.pc = "front" /\ mon' = [mon EXCEPT !.pc = "select", !.idx = currentIdx]
          /\ UNCHANGED <<ev, vert, verTop, lostDict, currentIdx, ownRoundID, witnesses>>
      BY <1>6, Zenon DEF MonitorFront
    <2>2. mon' \in Monitor /\ mon'.idx = currentIdx /\ mon'.pc = "select" /\ mon'.stack = mon.stack
      BY <1>1, <2>1, Zenon DEF Monitor
    <2>3. M  BY <2>1, <2>2, <1>1, <1>3
    <2> HIDE DEF M
    <2> QED  BY <2>1, <2>3, <1>1, <1>2, Zenon DEF M
  <1>7. ASSUME NEW v \in DOMAIN vert, MonitorRecv(v)  PROVE M /\ UNCHANGED <<ev, vert, verTop, lostDict, currentIdx, ownRoundID, witnesses>>
    <2> DEFINE a == [mon EXCEPT !.pc = "front", !.searched = @ \cup {v}]
               b == [mon EXCEPT !.pc = "loop", !.starter = v, !.next = 0, !.strongsee = 0, !.searched = @ \cup {v}]
    <2>1. /\ mon.pc = "select" /\ (mon' = a \/ mon' = b)
          /\ UNCHANGED <<ev, vert, verTop, lostDict, currentIdx, ownRoundID, witnesses>>
      BY <1>7, Zenon DEF MonitorRecv
    <2>2. v \in Nat  BY <1>5, Zenon
    <2>3. a \in Monitor /\ a.pc = "front" /\ a.idx = mon.idx /\ a.stack = mon.stack  BY <1>1, <2>2, Zenon DEF Monitor
    <2>4. b \in Monitor /\ b.pc = "loop" /\ b.idx = mon.idx /\ b.stack = mon.stack /\ b.starter = v
      BY <1>1, <2>2, Zenon DEF Monitor
    <2> HIDE DEF a, b
    <2> QED  BY <2>1, <2>3, <2>4, <1>1, <1>3, Zenon
  <1>8. CASE Judged
    <2> DEFINE ss == IF Cardinality(mon.trace) >= superMajority THEN mon.strongsee + 1 ELSE mon.strongsee
               a == [mon EXCEPT !.pc = "loop", !.before = Idle.before, !.e = Nil, !.trace = {}, !.strongsee = ss]
    <2>1. /\ mon.pc = "visit" /\ mon.stack = <<>> /\ mon' = a
          /\ UNCHANGED <<ev, vert, verTop, lostDict, currentIdx, ownRoundID, witnesses>>
      BY <1>8, Zenon DEF Judged
    <2>2. mon.strongsee \in Nat  BY <1>1, Zenon DEF Monitor
    <2>3. ss \in Nat  BY <2>2, SMTT(30)
    <2>4. Idle.before \in [vert : Vertices, own : Nat]
      <3>1. <<>> \in [{} -> VertexRec]  OBVIOUS
      <3>2. <<>> \in Vertices  BY <3>1, {} \in SUBSET Nat, Zenon DEF Vertices
      <3> QED  BY <3>2, Zenon DEF Idle
    <2> HIDE DEF ss, Idle, Vertices
    <2>5. a \in Monitor /\ a.pc = "loop" /\ a.idx = mon.idx /\ a.stack = mon.stack /\ a.starter = mon.starter
      BY <1>1, <2>3, <2>4, Zenon DEF Monitor, Nil
    <2>6. mon.starter \in DOMAIN vert  BY <2>1, Zenon DEF StackOK
    <2> HIDE DEF a
    <2>7. M  BY <2>1, <2>5, <2>6, <1>1, Zenon
    <2> HIDE DEF M
    <2> QED  BY <2>1, <2>7, <1>1, <1>2, Zenon DEF M
  <1>9. CASE Decide
    <2> DEFINE a == [mon EXCEPT !.pc = "front", !.starter = Nil, !.next = 0, !.strongsee = 0]
               new == ownRoundID = currentIdx
               id == IF new THEN currentIdx + 1 ELSE ownRoundID
    <2>1. /\ mon.pc = "loop" /\ mon' = a /\ UNCHANGED <<ev, verTop, lostDict>>
          /\ Found \/ UNCHANGED <<vert, currentIdx, ownRoundID, witnesses>>
      BY <1>9, Zenon DEF Decide
    <2>2. a \in Monitor /\ a.pc = "front" /\ a.idx = mon.idx /\ a.stack = mon.stack
      BY <1>1, Zenon DEF Monitor, Nil
    <2> HIDE DEF a
    <2>3. M  BY <2>1, <2>2, <1>1, <1>3, Zenon
    <2>4. ASSUME Found
          PROVE  /\ Alike(vert', vert) /\ currentIdx' \in Nat /\ currentIdx <= currentIdx' /\ ownRoundID' \in Nat
                 /\ witnesses' \in [0..currentIdx' -> [Slot -> Nat]]
      <3>1. /\ vert' = [vert EXCEPT ![mon.starter].witness = WitnessLocal]
            /\ File(mon.starter, id, new) /\ ownRoundID' = id
        BY <2>4, Zenon DEF Found
      <3>2. mon.starter \in DOMAIN vert /\ WitnessLocal \in 1..3 /\ new \in BOOLEAN /\ id \in Nat
        BY <2>1, <1>1, <1>4 DEF WitnessLocal
      <3> HIDE DEF new, id
      <3>3. Alike(vert', vert)
        <4>1. Marked(vert', vert, mon.starter, WitnessLocal)  BY <3>1, <3>2, <1>1, WitnessEffect, Zenon
        <4> QED  BY <4>1, Zenon DEF Marked
      <3>4. /\ currentIdx' \in Nat /\ currentIdx <= currentIdx'
            /\ witnesses' \in [0..currentIdx' -> [Slot -> Nat]]
        BY <3>1, <3>2, FileEffect, Zenon
      <3> QED  BY <3>1, <3>2, <3>3, <3>4, Zenon
    <2>5. /\ Alike(vert', vert) /\ currentIdx' \in Nat /\ currentIdx <= currentIdx' /\ ownRoundID' \in Nat
          /\ witnesses' \in [0..currentIdx' -> [Slot -> Nat]]
      BY <2>1, <2>4, <1>1, <1>2
    <2>6. mon'.idx \in 0..currentIdx'  BY <2>3, <2>5, <1>1
    <2> QED  BY <2>1, <2>3, <2>5, <2>6, Zenon
  <1> HIDE DEF M
  <1>10. CASE \E v \in DOMAIN vert : MonitorRecv(v)
    <2>1. M /\ UNCHANGED <<ev, vert, verTop, lostDict, currentIdx, ownRoundID, witnesses>>  BY <1>7, <1>10, Zenon
    <2> QED  BY <2>1, <1>1, <1>2, Zenon DEF M
  <1> QED  BY <1>6, <1>8, <1>9, <1>10, Zenon DEF Between

\* The steps, in the groups that the proofs tell apart.
LEMMA StepCases ==
    ASSUME [Next]_vars
    PROVE  \/ \E e \in DOMAIN ev : AddEvent(e)
           \/ \E v \in DOMAIN vert : MarkWitness(v)
           \/ UNCHANGED <<ev, vert, verTop, lostDict, currentIdx, witnesses, mon>> /\ (ownRoundID' = ownRoundID \/ ownRoundID' = currentIdx)
           \/ Between \/ JudgeSee \/ dfsVisit
  <1>1. CASE Next
    <2>1. CASE ComposeEvent  BY <2>1, Zenon DEF ComposeEvent
    <2> QED  BY <1>1, <2>1, Zenon DEF Next, MonitorLoop, Between
  <1>2. CASE UNCHANGED vars  BY <1>2, Zenon DEF vars
  <1> QED  BY <1>1, <1>2, Zenon

\* Every step that a search takes keeps the pointers, and the types of the rest.
LEMMA SearchEffect ==
    ASSUME TypeOK, GraphOK, StackOK, JudgeSee \/ dfsVisit
    PROVE  /\ mon' \in Monitor /\ mon'.idx = mon.idx /\ mon'.pc = "visit" /\ mon'.starter = mon.starter
           /\ mon.pc \in {"loop", "visit"} /\ Alike(vert', vert)
           /\ \A v \in DOMAIN vert : vert'[v].witness = vert[v].witness
           /\ UNCHANGED <<ev, verTop, lostDict, currentIdx, ownRoundID, witnesses>>
  <1>1. ASSUME NEW m, NEW vs, NEW u, Enters(m, vs, u), vs \in [DOMAIN vs -> VertexRec]
        PROVE  /\ mon' \in Monitor /\ SameSearch(m, mon') /\ Alike(vert', vs)
               /\ \A v \in DOMAIN vs : vert'[v].witness = vs[v].witness
    <2>1. CASE vert' = vs  BY <1>1, <2>1, Zenon DEF Enters, Alike
    <2>2. CASE Painted(vert', vs, u, GREY)  BY <1>1, <2>2, Zenon DEF Enters, Alike, Painted
    <2> QED  BY <1>1, <2>1, <2>2, Zenon DEF Enters
  <1>2. vert \in [DOMAIN vert -> VertexRec]  BY Types, Zenon
  <1>3. CASE JudgeSee
    <2>1. PICK m, vs :
              /\ m \in Monitor /\ m.pc = "visit" /\ m.idx = mon.idx /\ m.starter = mon.starter /\ m.trace = {}
              /\ m.stack = <<>> /\ m.before.vert = vs /\ mon.pc = "loop"
              /\ DOMAIN vs = DOMAIN vert /\ vs \in [DOMAIN vert -> VertexRec]
              /\ \A v \in DOMAIN vert : /\ vs[v].selfPt = vert[v].selfPt /\ vs[v].anotherPt = vert[v].anotherPt
                                        /\ vs[v].witness = vert[v].witness
              /\ Enters(m, vs, mon.starter)
              /\ UNCHANGED <<ev, verTop, lostDict, currentIdx, ownRoundID, witnesses>>
      BY <1>3, JudgeEffect, SMTT(30)
    <2>2. /\ mon' \in Monitor /\ SameSearch(m, mon') /\ Alike(vert', vs)
          /\ \A v \in DOMAIN vs : vert'[v].witness = vs[v].witness
      BY <1>1, <2>1, SMTT(30)
    <2>3. Alike(vert', vert) /\ \A v \in DOMAIN vert : vert'[v].witness = vert[v].witness
      BY <2>1, <2>2, SMTT(30) DEF Alike
    <2> QED  BY <2>1, <2>2, <2>3, Zenon DEF SameSearch
  <1>4. CASE dfsVisit
    <2>1. /\ mon.pc = "visit"
          /\ UNCHANGED <<ev, verTop, lostDict, currentIdx, ownRoundID, witnesses>>
          /\ \/ \E m, u : m \in Monitor /\ SameSearch(mon, m) /\ Enters(m, vert, u)
             \/ mon' \in Monitor /\ SameSearch(mon, mon') /\ \E u : Painted(vert', vert, u, BLACK)
      BY <1>4, DfsEffect, Zenon
    <2>2. ASSUME NEW m, NEW u, SameSearch(mon, m), Enters(m, vert, u)
          PROVE  /\ mon' \in Monitor /\ SameSearch(mon, mon') /\ Alike(vert', vert)
                 /\ \A v \in DOMAIN vert : vert'[v].witness = vert[v].witness
      BY <1>1, <1>2, <2>2, Zenon DEF SameSearch
    <2>3. ASSUME NEW u, Painted(vert', vert, u, BLACK)
          PROVE  Alike(vert', vert) /\ \A v \in DOMAIN vert : vert'[v].witness = vert[v].witness
      BY <2>3, Zenon DEF Painted, Alike
    <2>4. /\ mon' \in Monitor /\ SameSearch(mon, mon') /\ Alike(vert', vert)
          /\ \A v \in DOMAIN vert : vert'[v].witness = vert[v].witness
      BY <2>1, <2>2, <2>3, Zenon
    <2> QED  BY <2>1, <2>4, Zenon DEF SameSearch
  <1> QED  BY <1>3, <1>4, Zenon

\* The types hold after every step.
LEMMA StepTypes ==
    ASSUME TypeOK, GraphOK, StackOK, [Next]_vars
    PROVE  TypeOK'
  <1>0. /\ ev \in History /\ DOMAIN vert \subseteq DOMAIN ev /\ vert \in [DOMAIN vert -> VertexRec]
        /\ verTop \in [Slot -> Nat] /\ lostDict \subseteq Nat \X DOMAIN vert
        /\ currentIdx \in Nat /\ ownRoundID \in Nat
        /\ witnesses \in [0..currentIdx -> [Slot -> Nat]]
        /\ mon \in Monitor /\ mon.idx \in 0..currentIdx
    BY Types, Zenon
  <1>1. ASSUME NEW e \in DOMAIN ev, AddEvent(e)  PROVE TypeOK'
    <2>1. /\ DOMAIN vert' = DOMAIN vert \cup {e} /\ vert' \in [DOMAIN vert' -> VertexRec]
          /\ verTop' \in [Slot -> Nat] /\ lostDict' \subseteq Nat \X DOMAIN vert'
          /\ witnesses' \in [0..currentIdx -> [Slot -> Nat]]
          /\ UNCHANGED <<ev, currentIdx, ownRoundID, mon>>
      BY <1>1, AddEffect, Zenon
    <2>2. ev' = ev /\ currentIdx' = currentIdx /\ ownRoundID' = ownRoundID /\ mon' = mon  BY <2>1, Zenon
    <2>3. DOMAIN vert' \subseteq DOMAIN ev'  BY <1>0, <2>1, <2>2, Zenon
    <2>4. mon'.idx \in 0..currentIdx' /\ witnesses' \in [0..currentIdx' -> [Slot -> Nat]]  BY <1>0, <2>1, <2>2, Zenon
    <2> QED  BY <1>0, <2>1, <2>2, <2>3, <2>4, Typed, Zenon
  <1>2. ASSUME Alike(vert', vert), UNCHANGED <<ev, verTop, lostDict>>, currentIdx' \in Nat, ownRoundID' \in Nat,
               witnesses' \in [0..currentIdx' -> [Slot -> Nat]], mon' \in Monitor, mon'.idx \in 0..currentIdx'
        PROVE  TypeOK'
    <2>1. DOMAIN vert' = DOMAIN vert /\ vert' \in [DOMAIN vert' -> VertexRec]  BY <1>2, Zenon DEF Alike
    <2>2. ev' = ev /\ verTop' = verTop /\ lostDict' = lostDict  BY <1>2, Zenon
    <2>3. DOMAIN vert' \subseteq DOMAIN ev' /\ lostDict' \subseteq Nat \X DOMAIN vert'  BY <1>0, <2>1, <2>2, Zenon
    <2> QED  BY <1>0, <1>2, <2>1, <2>2, <2>3, Typed, Zenon
  <1>3. ASSUME NEW v \in DOMAIN vert, MarkWitness(v)  PROVE TypeOK'
    <2>1. /\ Alike(vert', vert) /\ currentIdx' \in Nat /\ currentIdx <= currentIdx'
          /\ witnesses' \in [0..currentIdx' -> [Slot -> Nat]]
          /\ UNCHANGED <<ev, verTop, lostDict, ownRoundID, mon>>
      BY <1>3, MarkEffect, Zenon
    <2>2. mon' \in Monitor /\ mon'.idx \in 0..currentIdx' /\ ownRoundID' \in Nat  BY <1>0, <2>1
    <2>3. UNCHANGED <<ev, verTop, lostDict>>  BY <2>1, Zenon
    <2> QED  BY <1>2, <2>1, <2>2, <2>3, Zenon
  <1>4. ASSUME UNCHANGED <<ev, vert, verTop, lostDict, currentIdx, witnesses, mon>>,
               ownRoundID' = ownRoundID \/ ownRoundID' = currentIdx
        PROVE  TypeOK'
    <2>1. Alike(vert', vert)  BY <1>0, <1>4, Zenon DEF Alike
    <2>2. /\ mon' \in Monitor /\ mon'.idx \in 0..currentIdx' /\ ownRoundID' \in Nat /\ currentIdx' \in Nat
          /\ witnesses' \in [0..currentIdx' -> [Slot -> Nat]]
      BY <1>0, <1>4, Zenon
    <2>3. UNCHANGED <<ev, verTop, lostDict>>  BY <1>4, Zenon
    <2> QED  BY <1>2, <2>1, <2>2, <2>3, Zenon
  <1>5. CASE Between  BY <1>2, <1>5, BetweenEffect, Zenon
  <1>6. CASE JudgeSee \/ dfsVisit
    <2>1. /\ mon' \in Monitor /\ mon'.idx = mon.idx /\ Alike(vert', vert)
          /\ UNCHANGED <<ev, verTop, lostDict, currentIdx, ownRoundID, witnesses>>
      BY <1>6, SearchEffect, Zenon
    <2>2. /\ mon'.idx \in 0..currentIdx' /\ ownRoundID' \in Nat /\ currentIdx' \in Nat
          /\ witnesses' \in [0..currentIdx' -> [Slot -> Nat]]
      BY <1>0, <2>1, Zenon
    <2>3. UNCHANGED <<ev, verTop, lostDict>>  BY <2>1, Zenon
    <2> QED  BY <1>2, <2>1, <2>2, <2>3, Zenon
  <1> QED  BY <1>1, <1>3, <1>4, <1>5, <1>6, StepCases, Zenon

\* The graph keeps its form.
LEMMA StepGraph ==
    ASSUME TypeOK, GraphOK, StackOK, [Next]_vars
    PROVE  GraphOK'
  <1>1. ASSUME NEW e \in DOMAIN ev, AddEvent(e)  PROVE GraphOK'
    <2>1. /\ DOMAIN vert' = DOMAIN vert \cup {e}
          /\ Points(vert'[e].selfPt, vert) /\ Points(vert'[e].anotherPt, vert)
          /\ \A v \in DOMAIN vert :
                 /\ vert'[v].selfPt = vert[v].selfPt
                 /\ vert'[v].anotherPt = vert[v].anotherPt \/ vert'[v].anotherPt = e
          /\ \A c \in Slot : verTop'[c] = IF c = ev[e].seqNum THEN e ELSE verTop[c]
          /\ \A w \in lostDict' : vert'[w[2]].anotherPt = Nil
          /\ \A w, x \in lostDict' : w[2] = x[2] => w = x
      BY <1>1, AddEffect, ZenonT(60)
    <2>2. \A v \in DOMAIN vert' : Points(vert'[v].selfPt, vert') /\ Points(vert'[v].anotherPt, vert')
      BY <2>1, SMTT(30) DEF GraphOK, Points
    <2>3. \A c \in Slot : Points(verTop'[c], vert')  BY <2>1, Zenon DEF GraphOK, Points
    <2> QED  BY <2>1, <2>2, <2>3, Zenon DEF GraphOK
  <1>2. ASSUME Alike(vert', vert), UNCHANGED <<verTop, lostDict>>  PROVE GraphOK'
    <2>1. lostDict \subseteq Nat \X DOMAIN vert  BY Types, Zenon
    <2>2. \A w \in lostDict : w[2] \in DOMAIN vert  BY <2>1, Zenon
    <2> QED  BY <1>2, <2>2, Zenon DEF Alike, GraphOK, Points
  <1>3. ASSUME NEW v \in DOMAIN vert, MarkWitness(v)  PROVE GraphOK'  BY <1>2, <1>3, MarkEffect, Zenon
  <1>4. ASSUME UNCHANGED <<ev, vert, verTop, lostDict, currentIdx, witnesses, mon>>  PROVE GraphOK'
    BY <1>4, Zenon DEF GraphOK
  <1>5. CASE Between  BY <1>2, <1>5, BetweenEffect, Zenon
  <1>6. CASE JudgeSee \/ dfsVisit  BY <1>2, <1>6, SearchEffect, Zenon
  <1> QED  BY <1>1, <1>3, <1>4, <1>5, <1>6, StepCases, Zenon

\* No step takes back a vertex or a pointer.
LEMMA StepKept ==
    ASSUME TypeOK, GraphOK, StackOK, [Next]_vars
    PROVE  Kept
  <1>1. ASSUME NEW e \in DOMAIN ev, AddEvent(e)  PROVE Kept
    <2>1. /\ DOMAIN vert' = DOMAIN vert \cup {e}
          /\ \A v \in DOMAIN vert :
                 /\ vert'[v].selfPt = vert[v].selfPt
                 /\ \/ vert'[v].anotherPt = vert[v].anotherPt
                    \/ vert[v].anotherPt = Nil /\ vert'[v].anotherPt = e
      BY <1>1, AddEffect, ZenonT(60)
    <2> QED  BY <2>1, Zenon DEF Kept
  <1>2. ASSUME Alike(vert', vert)  PROVE Kept  BY <1>2, Zenon DEF Alike, Kept
  <1>3. ASSUME NEW v \in DOMAIN vert, MarkWitness(v)  PROVE Kept  BY <1>2, <1>3, MarkEffect, Zenon
  <1>4. ASSUME UNCHANGED <<ev, vert, verTop, lostDict, currentIdx, witnesses, mon>>  PROVE Kept
    BY <1>4, Zenon DEF Kept
  <1>5. CASE Between  BY <1>2, <1>5, BetweenEffect, Zenon
  <1>6. CASE JudgeSee \/ dfsVisit  BY <1>2, <1>6, SearchEffect, Zenon
  <1> QED  BY <1>1, <1>3, <1>4, <1>5, <1>6, StepCases, Zenon

\* dfsVisit is in no vertex twice, and every vertex it is in is grey.
LEMMA StepStack ==
    ASSUME TypeOK, GraphOK, StackOK, NoReentry, [Next]_vars
    PROVE  StackOK' /\ NoReentry'
  <1>0. Kept  BY StepKept, Zenon
  <1>1. ASSUME UNCHANGED mon, \A v \in DOMAIN vert : vert'[v].color = vert[v].color
        PROVE  StackOK' /\ NoReentry'
    <2>1. NoReentry'  BY <1>1, Zenon DEF NoReentry
    <2>2. ASSUME NEW i \in DOMAIN mon.stack  PROVE FrameOK(mon.stack[i])'
      <3> DEFINE f == mon.stack[i]
      <3>1. FrameOK(f)  BY Zenon DEF StackOK
      <3>2. f.v \in DOMAIN vert /\ f.v \in DOMAIN vert' /\ vert'[f.v].color = GREY
        BY <3>1, <1>0, <1>1, Zenon DEF FrameOK, Kept
      <3>3. ASSUME NEW k \in 1..2  PROVE f.x[k] \in {Nil, vert'[f.v].selfPt, vert'[f.v].anotherPt}
        BY <3>1, <3>2, <1>0, Zenon DEF FrameOK, Kept
      <3>4. mon' = mon  BY <1>1, Zenon
      <3> QED  BY <3>2, <3>3, <3>4, Zenon DEF FrameOK
    <2>3. mon.starter \in DOMAIN vert => mon.starter \in DOMAIN vert'  BY <1>0, Zenon DEF Kept
    <2> QED  BY <1>1, <2>1, <2>2, <2>3, Zenon DEF StackOK
  <1>2. ASSUME NEW e \in DOMAIN ev, AddEvent(e)  PROVE StackOK' /\ NoReentry'
    <2>1. (\A v \in DOMAIN vert : vert'[v].color = vert[v].color) /\ UNCHANGED <<ev, currentIdx, ownRoundID, mon>>
      BY <1>2, AddEffect, Zenon
    <2> QED  BY <2>1, <1>1, Zenon
  <1>3. ASSUME NEW v \in DOMAIN vert, MarkWitness(v)  PROVE StackOK' /\ NoReentry'
    <2>1. /\ \A u \in DOMAIN vert : vert'[u].color = vert[u].color
          /\ UNCHANGED <<ev, verTop, lostDict, ownRoundID, mon>>
      BY <1>3, MarkEffect, Zenon
    <2> QED  BY <2>1, <1>1, Zenon
  <1>4. ASSUME UNCHANGED <<ev, vert, verTop, lostDict, currentIdx, witnesses, mon>>  PROVE StackOK' /\ NoReentry'
    BY <1>1, <1>4, Zenon
  <1>5. ASSUME Between  PROVE StackOK' /\ NoReentry'
    <2>1. /\ mon'.pc # "visit" /\ mon'.stack = <<>> /\ Alike(vert', vert)
          /\ mon'.pc = "loop" => mon'.starter \in DOMAIN vert
      BY <1>5, BetweenEffect, Zenon
    <2>2. DOMAIN mon'.stack = {} /\ DOMAIN vert' = DOMAIN vert  BY <2>1, SMTT(30) DEF Alike
    <2> QED  BY <2>1, <2>2, Zenon DEF StackOK, NoReentry
  <1>6. ASSUME JudgeSee  PROVE StackOK' /\ NoReentry'
    <2>1. PICK m, vs :
              /\ m \in Monitor /\ m.pc = "visit" /\ m.idx = mon.idx /\ m.starter = mon.starter /\ m.trace = {}
              /\ m.stack = <<>> /\ m.before.vert = vs /\ mon.pc = "loop"
              /\ DOMAIN vs = DOMAIN vert /\ vs \in [DOMAIN vert -> VertexRec]
              /\ \A v \in DOMAIN vert : /\ vs[v].selfPt = vert[v].selfPt /\ vs[v].anotherPt = vert[v].anotherPt
                                        /\ vs[v].witness = vert[v].witness
              /\ Enters(m, vs, mon.starter)
              /\ UNCHANGED <<ev, verTop, lostDict, currentIdx, ownRoundID, witnesses>>
      BY <1>6, JudgeEffect, SMTT(30)
    <2>2. mon'.pc = "visit" /\ mon'.starter = mon.starter  BY <2>1, Zenon DEF Enters, SameSearch
    <2>3. mon.starter \in DOMAIN vert  BY <2>1, Zenon DEF StackOK
    <2>4. CASE mon'.stack = <<>> /\ vert' = vs
      <3>1. DOMAIN mon'.stack = {}  BY <2>4, SMTT(30)
      <3> QED  BY <2>1, <2>2, <2>3, <2>4, <3>1, Zenon DEF StackOK, NoReentry
    <2>5. ASSUME NEW f \in Frame, mon'.stack = Append(<<>>, f), f.v = mon.starter,
                 f.x[1] = vs[mon.starter].selfPt, f.x[2] = vs[mon.starter].anotherPt,
                 Painted(vert', vs, mon.starter, GREY)
          PROVE  StackOK' /\ NoReentry'
      <3>1. DOMAIN mon'.stack = {1} /\ mon'.stack[1] = f  BY <2>5, SMTT(30)
      <3>2. f.v \in DOMAIN vert' /\ vert'[f.v].color = GREY  BY <2>1, <2>3, <2>5, Zenon DEF Painted
      <3>3. \A k \in 1..2 : f.x[k] \in {Nil, vert'[f.v].selfPt, vert'[f.v].anotherPt}
        <4>1. f.x[1] = vert'[f.v].selfPt /\ f.x[2] = vert'[f.v].anotherPt  BY <2>1, <2>3, <2>5, SMTT(30) DEF Painted
        <4>2. \A k \in 1..2 : k = 1 \/ k = 2  OBVIOUS
        <4> QED  BY <4>1, <4>2, Zenon
      <3>4. FrameOK(mon.stack[1])'  BY <3>1, <3>2, <3>3, Zenon DEF FrameOK
      <3>5. mon'.starter \in DOMAIN vert'  BY <2>1, <2>2, <2>3, <2>5, Zenon DEF Painted
      <3>6. NoReentry'  BY <3>1, Zenon DEF NoReentry
      <3>7. \A i \in DOMAIN mon'.stack : FrameOK(mon.stack[i])'  BY <3>1, <3>4, Zenon
      <3> QED  BY <2>2, <3>5, <3>6, <3>7, Zenon DEF StackOK
    <2> QED  BY <2>1, <2>4, <2>5, Zenon DEF Enters
  <1>7. ASSUME dfsVisit  PROVE StackOK' /\ NoReentry'
    <2>0. PICK n : n = Len(mon.stack)  BY Zenon
    <2>1. /\ mon.pc = "visit" /\ n \in Nat \ {0} /\ DOMAIN mon.stack = 1..n
          /\ \/ \E m, u :
                   /\ m \in Monitor /\ SameSearch(mon, m) /\ m.trace = mon.trace
                   /\ DOMAIN m.stack = 1..n /\ Len(m.stack) = n
                   /\ \A i \in 1..n : /\ m.stack[i].v = mon.stack[i].v
                                      /\ \A j \in 1..2 : m.stack[i].x[j] \in {Nil, mon.stack[i].x[j]}
                   /\ u \in DOMAIN vert /\ u \in {mon.stack[n].x[1], mon.stack[n].x[2]}
                   /\ vert[u].color = WHITE
                   /\ Enters(m, vert, u)
             \/ /\ mon' \in Monitor /\ SameSearch(mon, mon') /\ mon'.trace = mon.trace
                /\ DOMAIN mon'.stack = 1..(n - 1) /\ \A i \in 1..(n - 1) : mon'.stack[i] = mon.stack[i]
                /\ Painted(vert', vert, mon.stack[n].v, BLACK)
      BY <1>7, <2>0, DfsEffect, Zenon
    <2>9. n \in Nat \ {0} /\ DOMAIN mon.stack = 1..n  BY <2>1, Zenon
    <2>2. \A i \in 1..n : FrameOK(mon.stack[i])  BY <2>1, Zenon DEF StackOK
    <2>3. \A i, j \in 1..n : mon.stack[i].v = mon.stack[j].v => i = j  BY <2>1, Zenon DEF NoReentry
    <2>4. mon'.pc = "visit" /\ mon'.starter = mon.starter /\ DOMAIN vert' = DOMAIN vert
      BY <1>7, SearchEffect, Zenon DEF Alike
    <2>5. mon.starter \in DOMAIN vert  BY <2>1, Zenon DEF StackOK
    <2>6. ASSUME NEW c, NEW u \in DOMAIN vert, Painted(vert', vert, u, c),
                 NEW i \in 1..n, mon.stack[i].v # u, mon'.stack[i].v = mon.stack[i].v,
                 \A j \in 1..2 : mon'.stack[i].x[j] \in {Nil, mon.stack[i].x[j]}
          PROVE  FrameOK(mon.stack[i])'
      <3> DEFINE a == mon.stack[i].v
      <3>1. a \in DOMAIN vert /\ vert[a].color = GREY /\ \A k \in 1..2 : mon.stack[i].x[k] \in {Nil, vert[a].selfPt, vert[a].anotherPt}
        BY <2>2, Zenon DEF FrameOK
      <3>2. a \in DOMAIN vert' /\ vert'[a].color = GREY /\ vert'[a].selfPt = vert[a].selfPt /\ vert'[a].anotherPt = vert[a].anotherPt
        BY <3>1, <2>6, Zenon DEF Painted
      <3>3. \A k \in 1..2 : mon'.stack[i].x[k] \in {Nil, vert'[a].selfPt, vert'[a].anotherPt}
        BY <3>1, <3>2, <2>6, Zenon
      <3> HIDE DEF a
      <3>4. mon'.stack[i].v = a  BY <2>6, Zenon DEF a
      <3> QED  BY <3>2, <3>3, <3>4, Zenon DEF FrameOK
    <2>7. ASSUME DOMAIN mon'.stack = 1..(n - 1), \A i \in 1..(n - 1) : mon'.stack[i] = mon.stack[i],
                 Painted(vert', vert, mon.stack[n].v, BLACK)
          PROVE  StackOK' /\ NoReentry'
      <3>1. n \in 1..n /\ \A i \in 1..(n - 1) : i \in 1..n /\ i # n  BY <2>9
      <3>2. mon.stack[n].v \in DOMAIN vert  BY <2>2, <3>1, Zenon DEF FrameOK
      <3>3. ASSUME NEW i \in 1..(n - 1)  PROVE FrameOK(mon.stack[i])'
        <4>1. mon.stack[i].v # mon.stack[n].v  BY <2>3, <3>1, Zenon
        <4>2. mon'.stack[i] = mon.stack[i] /\ i \in 1..n  BY <2>7, <3>1, Zenon
        <4> QED  BY <2>6, <2>7, <3>2, <4>1, <4>2, Zenon
      <3>4. NoReentry'  BY <2>3, <2>7, <3>1, Zenon DEF NoReentry
      <3> QED  BY <2>4, <2>5, <2>7, <3>3, <3>4, Zenon DEF StackOK
    <2>8. ASSUME NEW m, NEW u \in DOMAIN vert, m \in Monitor,
                 DOMAIN m.stack = 1..n, Len(m.stack) = n,
                 \A i \in 1..n : /\ m.stack[i].v = mon.stack[i].v
                                 /\ \A j \in 1..2 : m.stack[i].x[j] \in {Nil, mon.stack[i].x[j]},
                 vert[u].color = WHITE, Enters(m, vert, u)
          PROVE  StackOK' /\ NoReentry'
      <3>1. \A i \in 1..n : mon.stack[i].v # u
        <4>1. \A i \in 1..n : vert[mon.stack[i].v].color = GREY  BY <2>2, Zenon DEF FrameOK
        <4>2. vert[u].color # GREY
          <5>1. vert[u].color = WHITE  BY <2>8, Zenon
          <5>2. WHITE # GREY  BY SMTT(30) DEF WHITE, GREY
          <5> QED  BY <5>1, <5>2, Zenon
        <4> QED  BY <4>1, <4>2, Zenon
      <3>2. CASE mon'.stack = m.stack /\ vert' = vert
        <4>1. ASSUME NEW i \in 1..n  PROVE FrameOK(mon.stack[i])'
          <5>1. FrameOK(mon.stack[i])  BY <2>2, Zenon
          <5>2. mon'.stack[i].v = mon.stack[i].v /\ \A j \in 1..2 : mon'.stack[i].x[j] \in {Nil, mon.stack[i].x[j]}
            BY <3>2, <2>8, Zenon
          <5>3. \A k \in 1..2 : mon'.stack[i].x[k] \in {Nil, vert[mon.stack[i].v].selfPt, vert[mon.stack[i].v].anotherPt}
            BY <5>1, <5>2, Zenon DEF FrameOK
          <5>4. vert' = vert  BY <3>2, Zenon
          <5> QED  BY <5>1, <5>2, <5>3, <5>4, Zenon DEF FrameOK
        <4>2. DOMAIN mon'.stack = 1..n /\ \A i \in 1..n : mon'.stack[i].v = mon.stack[i].v  BY <3>2, <2>8, Zenon
        <4>3. NoReentry'  BY <2>3, <4>2, Zenon DEF NoReentry
        <4> QED  BY <2>4, <2>5, <4>1, <4>2, <4>3, Zenon DEF StackOK
      <3>3. ASSUME NEW f \in Frame, mon'.stack = Append(m.stack, f), f.v = u,
                   f.x[1] = vert[u].selfPt, f.x[2] = vert[u].anotherPt, Painted(vert', vert, u, GREY)
            PROVE  StackOK' /\ NoReentry'
        <4>1. m.stack \in Seq(Frame)  BY <2>8, Zenon DEF Monitor
        <4>2. /\ DOMAIN mon'.stack = 1..(n + 1) /\ mon'.stack[n + 1] = f
              /\ \A i \in 1..n : mon'.stack[i] = m.stack[i]
          <5>1. Len(m.stack) = n  BY <2>8, Zenon
          <5> HIDE DEF Frame
          <5> QED  BY <2>9, <5>1, <3>3, <4>1
        <4>3. ASSUME NEW i \in 1..n  PROVE FrameOK(mon.stack[i])'
          <5>1. /\ mon'.stack[i].v = mon.stack[i].v /\ mon.stack[i].v # u
                /\ \A j \in 1..2 : mon'.stack[i].x[j] \in {Nil, mon.stack[i].x[j]}
            BY <4>2, <3>1, <2>8, Zenon
          <5> QED  BY <2>6, <3>3, <5>1, Zenon
        <4>4. FrameOK(mon.stack[n + 1])'
          <5>1. f.v \in DOMAIN vert' /\ vert'[f.v].color = GREY  BY <3>3, Zenon DEF Painted
          <5>2. f.x[1] = vert'[f.v].selfPt /\ f.x[2] = vert'[f.v].anotherPt  BY <3>3, Zenon DEF Painted
          <5>3. \A k \in 1..2 : k = 1 \/ k = 2  BY SMTT(30)
          <5>4. \A k \in 1..2 : f.x[k] \in {Nil, vert'[f.v].selfPt, vert'[f.v].anotherPt}  BY <5>2, <5>3, Zenon
          <5>5. mon'.stack[n + 1] = f  BY <4>2, Zenon
          <5> HIDE DEF Frame
          <5> QED  BY <5>1, <5>4, <5>5, Zenon DEF FrameOK
        <4>5. \A i \in 1..(n + 1) : i \in 1..n \/ i = n + 1  BY <2>9
        <4>6. \A i \in 1..n : mon'.stack[i].v = mon.stack[i].v /\ mon'.stack[i].v # u
          <5>1. \A i \in 1..n : m.stack[i].v = mon.stack[i].v  BY <2>8, Zenon
          <5> QED  BY <4>2, <3>1, <5>1, Zenon
        <4>7. mon'.stack[n + 1].v = u  BY <4>2, <3>3, Zenon
        <4>8. NoReentry'  BY <2>3, <4>2, <4>5, <4>6, <4>7, SMTT(30) DEF NoReentry
        <4>9. \A i \in DOMAIN mon'.stack : FrameOK(mon.stack[i])'  BY <4>2, <4>3, <4>4, <4>5, Zenon
        <4> QED  BY <2>4, <2>5, <4>8, <4>9, Zenon DEF StackOK
      <3> QED  BY <2>8, <3>2, <3>3, Zenon DEF Enters
    <2> QED  BY <2>1, <2>7, <2>8, Zenon
  <1> QED  BY <1>2, <1>3, <1>4, <1>5, <1>6, <1>7, StepCases, Zenon

\* The graph leads nowhere else from what the starter reaches.
LEMMA FromClosed ==
    ASSUME TypeOK, GraphOK, mon.starter \in DOMAIN vert
    PROVE  /\ mon.starter \in FromStarter
           /\ \A u \in FromStarter \cap Inner : {vert[u].selfPt, vert[u].anotherPt} \ {Nil} \subseteq FromStarter
  <1>1. Len(ev) \in Nat /\ DOMAIN ev = 1..Len(ev) /\ DOMAIN vert \subseteq DOMAIN ev  BY Types, Events, Zenon
  <1>2. \A u \in DOMAIN vert : {vert[u].selfPt, vert[u].anotherPt} \ {Nil} \subseteq DOMAIN vert
    BY Zenon DEF GraphOK, Points
  <1>3. DOMAIN vert \subseteq 1..Len(ev)  BY <1>1, Zenon
  <1> DEFINE R == ReachedIn(Len(ev), vert, mon.starter, Inner)
  <1>4. /\ mon.starter \in R
        /\ \A u \in R \cap Inner : {vert[u].selfPt, vert[u].anotherPt} \ {Nil} \subseteq R
    BY <1>1, <1>2, <1>3, ReachedClosed, Zenon
  <1> QED  BY <1>4, Zenon DEF FromStarter, Reached

\* A search that goes on reaches what it reached before.
LEMMA FromGrows ==
    ASSUME TypeOK, GraphOK, TypeOK', GraphOK', Kept, ev' = ev, mon.starter \in DOMAIN vert,
           mon'.starter = mon.starter, mon'.before = mon.before, mon'.e = mon.e
    PROVE  Inner \subseteq Inner' /\ FromStarter \subseteq FromStarter'
  <1>1. DOMAIN vert \subseteq DOMAIN vert'  BY Zenon DEF Kept
  <1>2. Inner \subseteq Inner'  BY <1>1, Zenon DEF Inner, NotWitness
  <1>3. Len(ev) \in Nat  BY Events, Zenon
  <1>4. mon'.starter \in DOMAIN vert'  BY <1>1, Zenon
  <1>5. /\ mon'.starter \in FromStarter'
        /\ \A u \in FromStarter' \cap Inner' : {vert'[u].selfPt, vert'[u].anotherPt} \ {Nil} \subseteq FromStarter'
    <2>1. Len(ev') \in Nat /\ DOMAIN ev' = 1..Len(ev') /\ DOMAIN vert' \subseteq DOMAIN ev'
      <3>1. Len(ev) \in Nat /\ DOMAIN ev = 1..Len(ev)  BY Events, Zenon
      <3>2. DOMAIN vert' \subseteq DOMAIN ev'  BY Zenon DEF TypeOK
      <3> QED  BY <3>1, <3>2, Zenon
    <2>2. \A u \in DOMAIN vert' : {vert'[u].selfPt, vert'[u].anotherPt} \ {Nil} \subseteq DOMAIN vert'
      BY SMTT(30) DEF GraphOK, Points
    <2>3. DOMAIN vert' \subseteq 1..Len(ev')  BY <2>1, Zenon
    <2> DEFINE R == ReachedIn(Len(ev'), vert', mon'.starter, Inner')
    <2>4. /\ mon'.starter \in R
          /\ \A u \in R \cap Inner' : {vert'[u].selfPt, vert'[u].anotherPt} \ {Nil} \subseteq R
      BY <1>4, <2>1, <2>2, <2>3, ReachedClosed, Zenon
    <2> QED  BY <2>4, Zenon DEF FromStarter, Reached
  <1> DEFINE T == FromStarter' \cap DOMAIN vert
  <1>6. mon.starter \in T  BY <1>5, Zenon
  <1>7. ASSUME NEW u \in T \cap Inner  PROVE {vert[u].selfPt, vert[u].anotherPt} \ {Nil} \subseteq T
    <2>1. u \in DOMAIN vert /\ u \in FromStarter' \cap Inner'  BY <1>2, Zenon
    <2>2. {vert[u].selfPt, vert[u].anotherPt} \ {Nil} \subseteq {vert'[u].selfPt, vert'[u].anotherPt} \ {Nil}
      BY <2>1, Zenon DEF Kept
    <2>3. {vert[u].selfPt, vert[u].anotherPt} \ {Nil} \subseteq DOMAIN vert  BY <2>1, SMTT(30) DEF GraphOK, Points
    <2> QED  BY <1>5, <2>1, <2>2, <2>3, Zenon
  <1> HIDE DEF T
  <1>8. ReachedIn(Len(ev), vert, mon.starter, Inner) \subseteq T  BY <1>3, <1>6, <1>7, ReachedLeast, Zenon
  <1> QED  BY <1>2, <1>8, Zenon DEF FromStarter, Reached, T

\* What the search has counted, it has come to.
Counted == mon.pc = "visit" => mon.trace \subseteq Columns(FromStarter)

\* SearchSound says just that.
LEMMA SoundIsCounted == SearchSound <=> Counted
  BY Zenon DEF SearchSound, Counted, FromStarter, Inner

\* Every step keeps the search on vertices that the starter leads to.
LEMMA StepSearch ==
    ASSUME TypeOK, GraphOK, StackOK, SearchOK, Counted, TypeOK', GraphOK', [Next]_vars
    PROVE  SearchOK' /\ Counted'
  <1> USE DEF SearchOK, Counted
  <1>0. Kept  BY StepKept, Zenon
  <1>1. ASSUME UNCHANGED mon, ev' = ev,
               \A v \in DOMAIN vert : vert[v].witness = Witness => vert'[v].witness = Witness
        PROVE  SearchOK' /\ Counted'
    <2> SUFFICES ASSUME mon.pc = "visit"  PROVE SearchOK' /\ Counted'  BY <1>1, Zenon
    <2>1. mon' = mon /\ mon.starter \in DOMAIN vert  BY <1>1, Zenon DEF StackOK
    <2>2. Inner \subseteq Inner' /\ FromStarter \subseteq FromStarter'  BY <1>0, <1>1, <2>1, FromGrows, Zenon
    <2>3. \A v \in DOMAIN mon.before.vert :
              v \in DOMAIN vert' /\ (mon.before.vert[v].witness = Witness => vert'[v].witness = Witness)
      BY <1>0, <1>1, Zenon DEF Kept
    <2>4. SearchOK'  BY <2>1, <2>2, <2>3, Zenon
    <2>5. Columns(FromStarter) \subseteq Columns(FromStarter)'  BY <1>1, <2>2, Zenon DEF Columns
    <2>6. Counted'  BY <2>1, <2>5, Zenon
    <2> QED  BY <2>4, <2>6, Zenon
  <1>2. ASSUME NEW e \in DOMAIN ev, AddEvent(e)  PROVE SearchOK' /\ Counted'
    <2>1. (\A v \in DOMAIN vert : vert'[v].witness = vert[v].witness) /\ UNCHANGED <<ev, currentIdx, ownRoundID, mon>>
      BY <1>2, AddEffect, Zenon
    <2> QED  BY <2>1, <1>1, Zenon
  <1>3. ASSUME NEW v \in DOMAIN vert, MarkWitness(v)  PROVE SearchOK' /\ Counted'
    <2>1. /\ \A u \in DOMAIN vert : vert'[u].witness = vert[u].witness \/ vert'[u].witness = Witness
          /\ UNCHANGED <<ev, verTop, lostDict, ownRoundID, mon>>
      BY <1>3, MarkEffect, Zenon
    <2> QED  BY <2>1, <1>1, Zenon
  <1>4. ASSUME UNCHANGED <<ev, vert, verTop, lostDict, currentIdx, witnesses, mon>>  PROVE SearchOK' /\ Counted'
    BY <1>1, <1>4, Zenon
  <1>5. ASSUME Between  PROVE SearchOK' /\ Counted'
    <2>1. mon'.pc # "visit"  BY <1>5, BetweenEffect, Zenon
    <2> QED  BY <2>1, Zenon
  <1>6. ASSUME JudgeSee  PROVE SearchOK' /\ Counted'
    <2>1. PICK m, vs :
              /\ m \in Monitor /\ m.pc = "visit" /\ m.idx = mon.idx /\ m.starter = mon.starter /\ m.trace = {}
              /\ m.stack = <<>> /\ m.before.vert = vs /\ mon.pc = "loop"
              /\ DOMAIN vs = DOMAIN vert /\ vs \in [DOMAIN vert -> VertexRec]
              /\ \A v \in DOMAIN vert : /\ vs[v].selfPt = vert[v].selfPt /\ vs[v].anotherPt = vert[v].anotherPt
                                        /\ vs[v].witness = vert[v].witness
              /\ Enters(m, vs, mon.starter)
              /\ UNCHANGED <<ev, verTop, lostDict, currentIdx, ownRoundID, witnesses>>
      BY <1>6, JudgeEffect
    <2>2. /\ mon'.pc = "visit" /\ mon'.starter = mon.starter /\ mon'.before.vert = vs /\ mon'.e = m.e
          /\ mon'.trace = {ev[mon.starter].seqNum}
      BY <2>1, Zenon DEF Enters, SameSearch
    <2>3. mon.starter \in DOMAIN vert /\ ev' = ev  BY <2>1, Zenon DEF StackOK
    <2>4. DOMAIN vert' = DOMAIN vert /\ \A v \in DOMAIN vert : vert'[v].witness = vert[v].witness
      BY <1>6, SearchEffect, Zenon DEF Alike
    <2>5. mon'.starter \in FromStarter'
      <3>1. (mon.starter \in DOMAIN vert)'  BY <2>2, <2>3, <2>4, Zenon
      <3>2. Len(ev') \in Nat /\ DOMAIN vert' \subseteq 1..Len(ev')
        <4>1. Len(ev) \in Nat /\ DOMAIN ev = 1..Len(ev) /\ DOMAIN vert \subseteq DOMAIN ev  BY Types, Events, Zenon
        <4> QED  BY <4>1, <2>3, <2>4, Zenon
      <3>3. \A u \in DOMAIN vert' : {vert'[u].selfPt, vert'[u].anotherPt} \ {Nil} \subseteq DOMAIN vert'
        BY SMTT(30) DEF GraphOK, Points
      <3>4. mon'.starter \in ReachedIn(Len(ev'), vert', mon'.starter, Inner')  BY <3>1, <3>2, <3>3, ReachedClosed, Zenon
      <3> QED  BY <3>4, Zenon DEF FromStarter, Reached
    <2>6. Counted'
      <3>1. ev'[mon'.starter].seqNum \in Columns(FromStarter)'  BY <2>5, Zenon DEF Columns
      <3> QED  BY <2>2, <2>3, <3>1, Zenon
    <2>7. \A v \in DOMAIN mon'.before.vert :
              v \in DOMAIN vert' /\ (mon'.before.vert[v].witness = Witness => vert'[v].witness = Witness)
      BY <2>1, <2>2, <2>4, Zenon
    <2>8. CASE mon'.stack = m.stack
      <3>1. DOMAIN mon'.stack = {}
        <4>1. mon'.stack = <<>>  BY <2>1, <2>8, Zenon
        <4>2. DOMAIN <<>> = {}  BY SMTT(30)
        <4> QED  BY <4>1, <4>2, Zenon
      <3> QED  BY <2>6, <2>7, <3>1, Zenon
    <2>9. ASSUME NEW f, mon'.stack = Append(m.stack, f), f.v = mon.starter,
                 mon.starter # m.e, vs[mon.starter].witness # Witness
          PROVE  SearchOK' /\ Counted'
      <3>1. DOMAIN mon'.stack = {1} /\ mon'.stack[1] = f
        <4>1. mon'.stack = Append(<<>>, f)  BY <2>1, <2>9, Zenon
        <4>2. \A g : DOMAIN Append(<<>>, g) = {1} /\ Append(<<>>, g)[1] = g  BY SMTT(30)
        <4> QED  BY <4>1, <4>2, Zenon
      <3>2. mon.starter \in Inner'
        <4>1. mon.starter \in NotWitness(vs) \ {m.e}  BY <2>1, <2>3, <2>9, Zenon DEF NotWitness
        <4>2. NotWitness(mon.before.vert)' = NotWitness(vs)  BY <2>2, Zenon DEF NotWitness
        <4> QED  BY <2>2, <4>1, <4>2, Zenon DEF Inner
      <3> QED  BY <2>2, <2>5, <2>6, <2>7, <2>9, <3>1, <3>2, Zenon
    <2>10. \/ mon'.stack = m.stack
           \/ /\ mon.starter # m.e /\ vs[mon.starter].witness # Witness
              /\ \E f \in Frame : mon'.stack = Append(m.stack, f) /\ f.v = mon.starter
      BY <2>1, Zenon DEF Enters
    <2> QED  BY <2>8, <2>9, <2>10, Zenon
  <1>7. ASSUME dfsVisit  PROVE SearchOK' /\ Counted'
    <2>0. PICK n : n = Len(mon.stack)  BY Zenon
    <2>1. /\ mon.pc = "visit" /\ n \in Nat \ {0} /\ DOMAIN mon.stack = 1..n
          /\ \/ \E m, u :
                   /\ m \in Monitor /\ SameSearch(mon, m) /\ m.trace = mon.trace
                   /\ DOMAIN m.stack = 1..n /\ Len(m.stack) = n
                   /\ \A i \in 1..n : m.stack[i].v = mon.stack[i].v
                   /\ u \in DOMAIN vert /\ u \in {mon.stack[n].x[1], mon.stack[n].x[2]}
                   /\ Enters(m, vert, u)
             \/ /\ SameSearch(mon, mon') /\ mon'.trace = mon.trace
                /\ DOMAIN mon'.stack = 1..(n - 1) /\ \A i \in 1..(n - 1) : mon'.stack[i] = mon.stack[i]
      BY <1>7, <2>0, DfsEffect, Zenon
    <2>2. mon.pc = "visit" /\ n \in Nat \ {0} /\ DOMAIN mon.stack = 1..n  BY <2>1, Zenon
    <2>3. mon.starter \in DOMAIN vert  BY <2>2, Zenon DEF StackOK
    <2>4. /\ mon'.pc = "visit" /\ mon'.starter = mon.starter /\ ev' = ev /\ Alike(vert', vert)
          /\ \A v \in DOMAIN vert : vert'[v].witness = vert[v].witness
      BY <1>7, SearchEffect, Zenon
    <2>5. \A i \in 1..n : mon.stack[i].v \in FromStarter \cap Inner  BY <2>2, Zenon
    <2>6. ASSUME mon'.before = mon.before, mon'.e = mon.e
          PROVE  /\ FromStarter \subseteq FromStarter' /\ Inner \subseteq Inner'
                 /\ Columns(FromStarter) \subseteq Columns(FromStarter)'
                 /\ \A v \in DOMAIN mon'.before.vert :
                       v \in DOMAIN vert' /\ (mon'.before.vert[v].witness = Witness => vert'[v].witness = Witness)
      <3>1. FromStarter \subseteq FromStarter' /\ Inner \subseteq Inner'  BY <1>0, <2>3, <2>4, <2>6, FromGrows, Zenon
      <3>2. Columns(FromStarter) \subseteq Columns(FromStarter)'  BY <2>4, <3>1, Zenon DEF Columns
      <3>3. \A v \in DOMAIN mon.before.vert :
                v \in DOMAIN vert /\ (mon.before.vert[v].witness = Witness => vert[v].witness = Witness)
        BY <2>2, Zenon
      <3> QED  BY <2>4, <2>6, <3>1, <3>2, <3>3, Zenon DEF Alike
    <2>7. ASSUME SameSearch(mon, mon'), mon'.trace = mon.trace, DOMAIN mon'.stack = 1..(n - 1),
                 \A i \in 1..(n - 1) : mon'.stack[i] = mon.stack[i]
          PROVE  SearchOK' /\ Counted'
      <3>1. mon'.before = mon.before /\ mon'.e = mon.e  BY <2>7, Zenon DEF SameSearch
      <3>2. /\ FromStarter \subseteq FromStarter' /\ Inner \subseteq Inner'
            /\ Columns(FromStarter) \subseteq Columns(FromStarter)'
            /\ \A v \in DOMAIN mon'.before.vert :
                  v \in DOMAIN vert' /\ (mon'.before.vert[v].witness = Witness => vert'[v].witness = Witness)
        BY <2>6, <3>1, Zenon
      <3>3. \A i \in 1..(n - 1) : mon'.stack[i].v \in FromStarter' \cap Inner'
        <4>1. \A i \in 1..(n - 1) : i \in 1..n  BY <2>2, SMTT(30)
        <4> QED  BY <2>5, <2>7, <3>2, <4>1, Zenon
      <3>4. mon.trace \subseteq Columns(FromStarter)  BY <2>2, Zenon
      <3> QED  BY <2>7, <3>2, <3>3, <3>4, Zenon
    <2>8. ASSUME NEW m, NEW u \in DOMAIN vert, m \in Monitor, SameSearch(mon, m), m.trace = mon.trace,
                 DOMAIN m.stack = 1..n, Len(m.stack) = n, \A i \in 1..n : m.stack[i].v = mon.stack[i].v,
                 u \in {mon.stack[n].x[1], mon.stack[n].x[2]}, Enters(m, vert, u)
          PROVE  SearchOK' /\ Counted'
      <3>1. mon'.before = mon.before /\ mon'.e = mon.e /\ m.e = mon.e /\ mon'.trace = mon.trace \cup {ev[u].seqNum}
        BY <2>8, Zenon DEF SameSearch, Enters
      <3>2. /\ FromStarter \subseteq FromStarter' /\ Inner \subseteq Inner'
            /\ Columns(FromStarter) \subseteq Columns(FromStarter)'
            /\ \A v \in DOMAIN mon'.before.vert :
                  v \in DOMAIN vert' /\ (mon'.before.vert[v].witness = Witness => vert'[v].witness = Witness)
        BY <2>6, <3>1, Zenon
      <3>3. u \in FromStarter
        <4> DEFINE f == mon.stack[n]
        <4>1. n \in 1..n  BY <2>2, SMTT(30)
        <4>2. FrameOK(f) /\ f.v \in FromStarter \cap Inner  BY <2>2, <2>5, <4>1, Zenon DEF StackOK
        <4>3. 1 \in 1..2 /\ 2 \in 1..2  BY SMTT(30)
        <4>4. u \in {Nil, vert[f.v].selfPt, vert[f.v].anotherPt}
          <5>1. f.x[1] \in {Nil, vert[f.v].selfPt, vert[f.v].anotherPt} /\ f.x[2] \in {Nil, vert[f.v].selfPt, vert[f.v].anotherPt}
            BY <4>2, <4>3, Zenon DEF FrameOK
          <5>2. u = f.x[1] \/ u = f.x[2]  BY <2>8, Zenon
          <5> HIDE DEF f
          <5> QED  BY <5>1, <5>2, Zenon
        <4>5. u # Nil  BY Events, Zenon
        <4> HIDE DEF f
        <4>6. {vert[f.v].selfPt, vert[f.v].anotherPt} \ {Nil} \subseteq FromStarter  BY <2>3, <4>2, FromClosed, Zenon
        <4> QED  BY <4>4, <4>5, <4>6, Zenon
      <3>4. Counted'
        <4>1. mon.trace \subseteq Columns(FromStarter)  BY <2>2, Zenon
        <4>2. ev[u].seqNum \in Columns(FromStarter)  BY <3>3, Zenon DEF Columns
        <4> QED  BY <3>1, <3>2, <4>1, <4>2, Zenon
      <3>5. CASE mon'.stack = m.stack
        <4>1. DOMAIN mon'.stack = 1..n /\ \A i \in 1..n : mon'.stack[i].v = mon.stack[i].v  BY <2>8, <3>5, Zenon
        <4>2. \A i \in 1..n : mon'.stack[i].v \in FromStarter' \cap Inner'  BY <2>5, <3>2, <4>1, Zenon
        <4> QED  BY <3>2, <3>4, <4>1, <4>2, Zenon
      <3>6. ASSUME NEW f \in Frame, mon'.stack = Append(m.stack, f), f.v = u, u # m.e, vert[u].witness # Witness
            PROVE  SearchOK' /\ Counted'
        <4>1. m.stack \in Seq(Frame)  BY <2>8, Zenon DEF Monitor
        <4>2. /\ DOMAIN mon'.stack = 1..(n + 1) /\ mon'.stack[n + 1] = f
              /\ \A i \in 1..n : mon'.stack[i] = m.stack[i]
          <5>1. Len(m.stack) = n  BY <2>8, Zenon
          <5> QED  BY <2>2, <5>1, <3>6, <4>1, SMTT(30)
        <4>3. u \in Inner
          <5>1. u \in DOMAIN mon.before.vert => mon.before.vert[u].witness # Witness  BY <2>2, <3>6, Zenon
          <5> QED  BY <3>1, <3>6, <5>1, Zenon DEF Inner, NotWitness
        <4>4. ASSUME NEW i \in 1..(n + 1)  PROVE mon'.stack[i].v \in FromStarter' \cap Inner'
          <5>1. CASE i = n + 1
            <6>1. mon'.stack[i].v = u  BY <3>6, <4>2, <5>1, Zenon
            <6> QED  BY <3>2, <3>3, <4>3, <6>1, Zenon
          <5>2. CASE i \in 1..n
            <6>1. mon'.stack[i].v = mon.stack[i].v  BY <2>8, <4>2, <5>2, Zenon
            <6> QED  BY <2>5, <3>2, <5>2, <6>1, Zenon
          <5>3. i \in 1..n \/ i = n + 1  BY <2>2
          <5> QED  BY <5>1, <5>2, <5>3, Zenon
        <4> QED  BY <3>2, <3>4, <4>2, <4>4, Zenon
      <3>7. \/ mon'.stack = m.stack
            \/ u # m.e /\ vert[u].witness # Witness /\ \E f \in Frame : mon'.stack = Append(m.stack, f) /\ f.v = u
        BY <2>8, Zenon DEF Enters
      <3> QED  BY <3>5, <3>6, <3>7, Zenon
    <2> QED  BY <2>1, <2>7, <2>8, Zenon
  <1> QED  BY <1>2, <1>3, <1>4, <1>5, <1>6, <1>7, StepCases, Zenon

----------------------------------------------------------------------------
(* What the search comes to.                                                *)

\* The rounds of a node's events never go back.  ComposeEvent gives an event the
\* newest round of its node, so they do not for events sent as they are composed; one
\* that RetrieveEvent sends later has the round of that time, and clearColorDFS may
\* stop before it and leave the colors behind.
RoundsGrow ==
    \A h \in History : \A a, b \in DOMAIN h :
        a < b /\ h[a].seqNum = h[b].seqNum => h[a].RoundID <= h[b].RoundID

\* Every vertex is the top of its column or the selfPt of a vertex there.
Chained ==
    \A v \in DOMAIN vert : \/ verTop[ev[v].seqNum] = v
                           \/ \E w \in DOMAIN vert : ev[w].seqNum = ev[v].seqNum /\ vert[w].selfPt = v

\* AddEvent puts a vertex on top of the one that was there.
LEMMA StepChained ==
    ASSUME TypeOK, GraphOK, StackOK, Chained, [Next]_vars
    PROVE  Chained'
  <1>1. ASSUME NEW e \in DOMAIN ev, AddEvent(e)  PROVE Chained'
    <2>1. /\ DOMAIN vert' = DOMAIN vert \cup {e} /\ vert'[e].selfPt = verTop[ev[e].seqNum]
          /\ \A v \in DOMAIN vert : vert'[v].selfPt = vert[v].selfPt
          /\ \A c \in Slot : verTop'[c] = IF c = ev[e].seqNum THEN e ELSE verTop[c]
          /\ UNCHANGED <<ev, currentIdx, ownRoundID, mon>>
      BY <1>1, AddEffect, Zenon
    <2>2. ev' = ev  BY <2>1, Zenon
    <2>3. DOMAIN vert \subseteq DOMAIN ev /\ \A v \in DOMAIN ev : ev[v].seqNum \in Slot  BY Types, Events, Zenon
    <2>4. ASSUME NEW v \in DOMAIN vert'
          PROVE  \/ verTop'[ev[v].seqNum] = v
                 \/ \E w \in DOMAIN vert' : ev[w].seqNum = ev[v].seqNum /\ vert'[w].selfPt = v
      <3>1. CASE v = e  BY <3>1, <2>1, <2>3, Zenon
      <3>2. CASE v \in DOMAIN vert /\ verTop[ev[v].seqNum] = v  BY <3>2, <2>1, <2>3, Zenon
      <3>3. CASE v \in DOMAIN vert /\ verTop[ev[v].seqNum] # v
        <4>1. PICK w \in DOMAIN vert : ev[w].seqNum = ev[v].seqNum /\ vert[w].selfPt = v  BY <3>3, Zenon DEF Chained
        <4> QED  BY <4>1, <2>1, Zenon
      <3> QED  BY <3>1, <3>2, <3>3, <2>1, Zenon
    <2> QED  BY <2>2, <2>4, Zenon DEF Chained
  <1>2. ASSUME Alike(vert', vert), UNCHANGED <<ev, verTop, lostDict>>  PROVE Chained'
    BY <1>2, SMTT(30) DEF Alike, Chained
  <1>3. ASSUME NEW v \in DOMAIN vert, MarkWitness(v)  PROVE Chained'
    <2>1. Alike(vert', vert) /\ UNCHANGED <<ev, verTop, lostDict, ownRoundID, mon>>  BY <1>3, MarkEffect, Zenon
    <2> QED  BY <1>2, <2>1, Zenon
  <1>4. ASSUME UNCHANGED <<ev, vert, verTop, lostDict, currentIdx, witnesses, mon>>  PROVE Chained'
    BY <1>4, Zenon DEF Chained
  <1>5. CASE Between  BY <1>2, <1>5, BetweenEffect, Zenon
  <1>6. CASE JudgeSee \/ dfsVisit
    <2>1. Alike(vert', vert) /\ UNCHANGED <<ev, verTop, lostDict, currentIdx, ownRoundID, witnesses>>
      BY <1>6, SearchEffect, Zenon
    <2> QED  BY <1>2, <2>1, Zenon
  <1> QED  BY <1>1, <1>3, <1>4, <1>5, <1>6, StepCases, Zenon

\* When the events of the columns came in order, clearColorDFS comes by all of a column.
LEMMA SelfPartsAll ==
    ASSUME TypeOK, Chained, InOrder(vert), NEW c \in Slot
    PROVE  SelfParts(c) = hashChain(c)
  <1> DEFINE parents == [e \in DOMAIN ev |-> [selfPt |-> ev[e].SelfPart, anotherPt |-> Nil]]
             R == ReachedIn(Len(ev), parents, verTop[c], hashChain(c))
  <1>1. SelfParts(c) = R \cap hashChain(c)  BY Zenon DEF SelfParts, Reached
  <1>2. /\ Len(ev) \in Nat /\ DOMAIN ev = 1..Len(ev) /\ DOMAIN vert \subseteq DOMAIN ev
        /\ \A e \in DOMAIN ev : ev[e].SelfPart \in 0..(e - 1)
    <2>1. Len(ev) \in Nat /\ DOMAIN ev = 1..Len(ev) /\ DOMAIN vert \subseteq DOMAIN ev /\ ev \in History
      BY Types, Events, Zenon
    <2>2. \A e \in DOMAIN ev : ev[e].SelfPart \in 0..(e - 1)  BY <2>1, SearchAssumption, Zenon
    <2> QED  BY <2>1, <2>2, Zenon
  <1>3. \A e \in DOMAIN ev : parents[e].selfPt = ev[e].SelfPart /\ parents[e].anotherPt = Nil  BY Zenon
  <1> HIDE DEF parents
  <1>4. ASSUME NEW v \in hashChain(c), v # verTop[c]
        PROVE  \E w \in hashChain(c) : ev[w].SelfPart = v /\ v < w
    <2>1. v \in DOMAIN vert /\ ev[v].seqNum = c  BY Zenon DEF hashChain
    <2>2. PICK w \in DOMAIN vert : ev[w].seqNum = c /\ vert[w].selfPt = v  BY <1>4, <2>1, Zenon DEF Chained
    <2>3. ev[w].SelfPart = v  BY <2>2, Zenon DEF InOrder
    <2>4. v < w  BY <1>2, <2>2, <2>3, SMTT(30)
    <2> QED  BY <2>2, <2>3, <2>4, Zenon DEF hashChain
  <1>5. hashChain(c) \subseteq 1..Len(ev)  BY <1>2, Zenon DEF hashChain
  <1>6. CASE verTop[c] \notin DOMAIN ev
    <2> DEFINE Good == {n \in Nat : \A v \in hashChain(c) : v + n < Len(ev)}
    <2>1. 0 \in Good
      <3> SUFFICES ASSUME NEW v \in hashChain(c)  PROVE v < Len(ev)  BY <1>5, SMTT(30)
      <3>1. v # verTop[c]  BY <1>2, <1>5, <1>6, Zenon
      <3>2. PICK w \in hashChain(c) : v < w  BY <3>1, <1>4, Zenon
      <3> QED  BY <3>2, <1>2, <1>5
    <2>2. ASSUME NEW n \in Nat, n \in Good  PROVE n + 1 \in Good
      <3> SUFFICES ASSUME NEW v \in hashChain(c)  PROVE v + (n + 1) < Len(ev)  BY SMTT(30)
      <3>1. v # verTop[c]  BY <1>2, <1>5, <1>6, Zenon
      <3>2. PICK w \in hashChain(c) : v < w  BY <3>1, <1>4, Zenon
      <3>3. w + n < Len(ev)  BY <2>2, Zenon
      <3> QED  BY <3>2, <3>3, <1>2, <1>5, SMTT(30)
    <2>3. Nat \subseteq Good  BY <2>1, <2>2, NatSet, Zenon
    <2>4. ASSUME NEW v \in hashChain(c)  PROVE FALSE
      <3>1. Len(ev) \in Good  BY <2>3, <1>2, Zenon
      <3>2. v + Len(ev) < Len(ev) /\ v \in 1..Len(ev)  BY <3>1, <1>5, Zenon
      <3> QED  BY <3>2, <1>2, SMTT(30)
    <2> QED  BY <1>1, <2>4, Zenon
  <1>7. CASE verTop[c] \in DOMAIN ev
    <2>1. \A u \in DOMAIN ev : {parents[u].selfPt, parents[u].anotherPt} \ {Nil} \subseteq DOMAIN ev
      BY <1>2, <1>3, SMTT(30) DEF Nil
    <2>2. DOMAIN ev \subseteq 1..Len(ev) /\ Len(ev) \in Nat  BY <1>2, Zenon
    <2>3. /\ verTop[c] \in R
          /\ \A u \in R \cap hashChain(c) : {parents[u].selfPt, parents[u].anotherPt} \ {Nil} \subseteq R
      BY <1>7, <2>1, <2>2, ReachedClosed, Zenon
    <2> HIDE DEF R
    <2> DEFINE Good == {n \in Nat : \A v \in hashChain(c) : v + n >= Len(ev) => v \in R}
    <2>4. ASSUME NEW v \in hashChain(c), NEW w \in hashChain(c), w \in R, ev[w].SelfPart = v  PROVE v \in R
      <3>1. w \in DOMAIN ev /\ v # Nil  BY <1>2, <1>5, SMTT(30) DEF Nil
      <3>2. parents[w].selfPt = v  BY <1>3, <2>4, <3>1, Zenon
      <3> QED  BY <2>3, <2>4, <3>1, <3>2, Zenon
    <2>5. 0 \in Good
      <3> SUFFICES ASSUME NEW v \in hashChain(c), v >= Len(ev)  PROVE v \in R  BY <1>5, SMTT(30)
      <3>1. CASE v = verTop[c]  BY <2>3, <3>1, Zenon
      <3>2. CASE v # verTop[c]
        <4>1. PICK w \in hashChain(c) : v < w  BY <3>2, <1>4, Zenon
        <4> QED  BY <4>1, <1>2, <1>5, SMTT(30)
      <3> QED  BY <3>1, <3>2, Zenon
    <2>6. ASSUME NEW n \in Nat, n \in Good  PROVE n + 1 \in Good
      <3> SUFFICES ASSUME NEW v \in hashChain(c), v + (n + 1) >= Len(ev)  PROVE v \in R  BY SMTT(30)
      <3>1. CASE v = verTop[c]  BY <2>3, <3>1, Zenon
      <3>2. CASE v # verTop[c]
        <4>1. PICK w \in hashChain(c) : ev[w].SelfPart = v /\ v < w  BY <3>2, <1>4, Zenon
        <4>2. w + n >= Len(ev)  BY <4>1, <1>2, <1>5, SMTT(30)
        <4>3. w \in R  BY <2>6, <4>2, Zenon
        <4> QED  BY <2>4, <4>1, <4>3, Zenon
      <3> QED  BY <3>1, <3>2, Zenon
    <2>7. Nat \subseteq Good  BY <2>5, <2>6, NatSet, Zenon
    <2>8. ASSUME NEW v \in hashChain(c)  PROVE v \in R
      <3>1. Len(ev) \in Good  BY <2>7, <1>2, Zenon
      <3>2. v + Len(ev) >= Len(ev)  BY <1>2, <1>5
      <3> QED  BY <3>1, <3>2, Zenon
    <2> QED  BY <1>1, <2>8, Zenon
  <1> QED  BY <1>6, <1>7, Zenon

\* Then no vertex of the round keeps the color of an earlier search.
LEMMA ClearedAll ==
    ASSUME RoundsGrow, TypeOK, Chained, InOrder(vert), NEW idx, NEW u \in DOMAIN vert, RoundID(u) = idx
    PROVE  clearColorDFS(idx)[u].color = WHITE
  <1> DEFINE c == ev[u].seqNum
             ofRound == {e \in hashChain(c) : RoundID(e) = idx}
             white == UNION {Cleared(d, idx) : d \in Slot}
  <1>1. /\ u \in DOMAIN ev /\ DOMAIN vert \subseteq DOMAIN ev /\ DOMAIN ev \subseteq Nat /\ ev \in History
        /\ c \in Slot /\ \A e \in DOMAIN ev : ev[e].RoundID \in Nat
    BY Types, Events, SMTT(30)
  <1>2. SelfParts(c) = hashChain(c)  BY <1>1, SelfPartsAll, Zenon
  <1>3. u \in ofRound  BY Zenon DEF hashChain
  <1>4. ASSUME NEW g \in hashChain(c) \ ofRound  PROVE g < u \/ \A f \in ofRound : f < g
    <2>1. \A f \in hashChain(c) : f \in DOMAIN ev /\ f \in Nat /\ ev[f].seqNum = c  BY <1>1, Zenon DEF hashChain
    <2>2. RoundID(g) # RoundID(u) /\ g # u  BY <1>3, Zenon
    <2>3. c # Own  BY <2>1, <2>2, Zenon DEF RoundID
    <2>4. ev[g].RoundID # idx /\ \A f \in ofRound : ev[f].RoundID = idx  BY <2>1, <2>3, Zenon DEF RoundID
    <2>5. \A a, b \in hashChain(c) : a < b => ev[a].RoundID <= ev[b].RoundID
      BY <1>1, <2>1, Zenon DEF RoundsGrow
    <2> SUFFICES ASSUME u < g, NEW f \in ofRound  PROVE f < g  BY <1>1, <2>1, <2>2, SMTT(30)
    <2>6. ev[u].RoundID = idx /\ ev[f].RoundID = idx /\ ev[g].RoundID \in Nat /\ idx \in Nat
      BY <1>1, <1>3, <2>1, <2>4, Zenon
    <2>7. ev[u].RoundID <= ev[g].RoundID  BY <1>3, <2>5, Zenon
    <2>8. g < f => ev[g].RoundID <= ev[f].RoundID  BY <2>5, Zenon
    <2>9. f # g /\ f \in Nat /\ g \in Nat  BY <2>1, Zenon
    <2> QED  BY <2>4, <2>6, <2>7, <2>8, <2>9, SMTT(30)
  <1>5. u \in Cleared(c, idx)  BY <1>2, <1>3, <1>4, Zenon DEF Cleared
  <1>6. u \in white  BY <1>1, <1>5, Zenon
  <1>7. clearColorDFS(idx) = [v \in DOMAIN vert |-> IF v \in white THEN [vert[v] EXCEPT !.color = WHITE] ELSE vert[v]]
    BY Zenon DEF clearColorDFS
  <1> HIDE DEF white
  <1>8. clearColorDFS(idx)[u] = [vert[u] EXCEPT !.color = WHITE]  BY <1>6, <1>7, Zenon
  <1>9. vert[u] \in VertexRec  BY Types, Zenon
  <1> QED  BY <1>8, <1>9, Zenon DEF VertexRec

\* The vertices of the round that the search is for, as SearchComplete has them.
OfRound ==
    {mon.starter} \cup {u \in DOMAIN mon.before.vert :
        (IF ev[u].seqNum = Own THEN mon.before.own ELSE ev[u].RoundID) = mon.idx}

\* The search has come to u: its column is counted, and it ended there or u has a color.
Came(u) ==
    /\ ev[u].seqNum \in mon.trace
    /\ vert[u].color # WHITE \/ u = mon.e \/ vert[u].witness = Witness

\* A call on u has still to look at p.
Waits(u, p) == \E i \in DOMAIN mon.stack : mon.stack[i].v = u /\ \E j \in 1..2 : mon.stack[i].x[j] = p

\* What the search has come to or will: the starter, and with every vertex of the
\* round that it goes on from, the parents of the round.
AllCame ==
    /\ Came(mon.starter)
    /\ \A u \in OfRound : vert[u].color # WHITE => ev[u].seqNum \in mon.trace
    /\ \A u \in OfRound : u # mon.e /\ vert[u].witness # Witness /\ vert[u].color # WHITE =>
          \A p \in {mon.before.vert[u].selfPt, mon.before.vert[u].anotherPt} \cap OfRound : Came(p) \/ Waits(u, p)

\* The pointers that the search began with are still there.
OldKept ==
    /\ mon.starter \in DOMAIN mon.before.vert
    /\ \A v \in DOMAIN mon.before.vert :
          /\ v \in DOMAIN vert /\ vert[v].selfPt = mon.before.vert[v].selfPt
          /\ mon.before.vert[v].anotherPt # Nil => vert[v].anotherPt = mon.before.vert[v].anotherPt

CompleteOK == mon.pc = "visit" => OldKept /\ (InOrder(mon.before.vert) => AllCame)

\* A step of a search, or one beside it: colors and witnesses stay, a vertex that gets
\* a color is counted and waits for its parents, and a parent that is not waited for
\* any more has been come to, or has a color.
LEMMA CompleteKept ==
    ASSUME TypeOK, mon.pc = "visit", CompleteOK, Kept, ev' = ev, SameSearch(mon, mon'),
           mon.trace \subseteq mon'.trace,
           \A v \in DOMAIN vert : /\ vert[v].color # WHITE => vert'[v].color # WHITE
                                  /\ vert[v].witness = Witness => vert'[v].witness = Witness,
           \A v \in DOMAIN vert : vert[v].color = WHITE /\ vert'[v].color # WHITE =>
              /\ ev[v].seqNum \in mon'.trace
              /\ \A p \in {vert[v].selfPt, vert[v].anotherPt} : Waits(v, p)',
           \A v \in DOMAIN vert, p \in DOMAIN vert :
              Waits(v, p) => Waits(v, p)' \/ Came(p)' \/ vert[p].color # WHITE
    PROVE  CompleteOK'
  <1>1. /\ mon'.starter = mon.starter /\ mon'.before = mon.before /\ mon'.idx = mon.idx /\ mon'.e = mon.e
    BY Zenon DEF SameSearch
  <1>2. OldKept /\ (InOrder(mon.before.vert) => AllCame)  BY Zenon DEF CompleteOK
  <1>3. OldKept'  BY <1>1, <1>2, ZenonT(60) DEF OldKept, Kept
  <1>4. OfRound' = OfRound /\ OfRound \subseteq DOMAIN mon.before.vert /\ OfRound \subseteq DOMAIN vert
    BY <1>1, <1>2, Zenon DEF OfRound, OldKept
  <1>5. InOrder(mon.before.vert)' = InOrder(mon.before.vert)  BY <1>1, Zenon DEF InOrder
  <1> SUFFICES ASSUME InOrder(mon.before.vert)  PROVE AllCame'  BY <1>3, <1>5, Zenon DEF CompleteOK
  <1>6. AllCame  BY <1>2, Zenon
  <1>7. \A p \in DOMAIN vert : Came(p) => Came(p)'  BY <1>1, Zenon DEF Came
  <1>8. Came(mon.starter)'
    <2>1. mon.starter \in DOMAIN vert  BY <1>4, Zenon DEF OfRound
    <2>2. ev[mon.starter].seqNum \in mon'.trace
      <3>1. ev[mon.starter].seqNum \in mon.trace  BY <1>6, Zenon DEF AllCame, Came
      <3> QED  BY <3>1, Zenon
    <2> QED  BY <1>1, <1>6, <2>1, <2>2, Zenon DEF AllCame, Came
  <1>9. ASSUME NEW u \in OfRound, vert'[u].color # WHITE  PROVE ev[u].seqNum \in mon'.trace
    BY <1>4, <1>6, <1>9, Zenon DEF AllCame
  <1>10. ASSUME NEW u \in OfRound, u # mon.e, vert'[u].witness # Witness, vert'[u].color # WHITE,
                NEW p \in {mon.before.vert[u].selfPt, mon.before.vert[u].anotherPt} \cap OfRound
         PROVE  Came(p)' \/ Waits(u, p)'
    <2>1. u \in DOMAIN vert /\ p \in DOMAIN vert /\ u \in DOMAIN mon.before.vert  BY <1>4, Zenon
    <2>2. CASE vert[u].color = WHITE
      <3>1. p # Nil  BY <2>1, Events, Zenon
      <3>2. p \in {vert[u].selfPt, vert[u].anotherPt}  BY <1>2, <2>1, <3>1, Zenon DEF OldKept
      <3> QED  BY <1>10, <2>1, <2>2, <3>2, Zenon
    <2>3. CASE vert[u].color # WHITE
      <3>1. Came(p) \/ Waits(u, p)  BY <1>6, <1>10, <2>1, <2>3, Zenon DEF AllCame
      <3>2. Came(p) => Came(p)'  BY <1>7, <2>1, Zenon
      <3>3. Waits(u, p) => Waits(u, p)' \/ Came(p)' \/ vert[p].color # WHITE  BY <2>1, Zenon
      <3>4. vert[p].color # WHITE => Came(p)
        <4>1. vert[p].color # WHITE => ev[p].seqNum \in mon.trace  BY <1>6, Zenon DEF AllCame
        <4> QED  BY <4>1, Zenon DEF Came
      <3> QED  BY <3>1, <3>2, <3>3, <3>4, Zenon
    <2> QED  BY <2>2, <2>3, Zenon
  <1> QED  BY <1>1, <1>4, <1>8, <1>9, <1>10, Zenon DEF AllCame

\* A frame more.
LEMMA FrameAdded ==
    ASSUME NEW st \in Seq(Frame), NEW f \in Frame
    PROVE  LET t == Append(st, f) IN
           /\ Len(st) + 1 \in DOMAIN t /\ t[Len(st) + 1] = f
           /\ \A i \in 1..Len(st) : i \in DOMAIN t /\ t[i] = st[i]
  <1> HIDE DEF Frame
  <1>1. Len(st) \in Nat /\ DOMAIN Append(st, f) = 1..(Len(st) + 1)  BY SMTT(30)
  <1>2. Append(st, f)[Len(st) + 1] = f  BY SMTT(30)
  <1>3. \A i \in 1..Len(st) : Append(st, f)[i] = st[i]  BY SMTT(30)
  <1>4. /\ Len(st) + 1 \in 1..(Len(st) + 1)
        /\ \A i \in 1..Len(st) : i \in 1..(Len(st) + 1)
    BY <1>1, SMTT(30)
  <1> QED  BY <1>1, <1>2, <1>3, <1>4, Zenon

\* Every step keeps it: a search begins on a graph without old colors, and an event
\* or a witness that comes meanwhile takes nothing from what is waited for.
LEMMA StepComplete ==
    ASSUME RoundsGrow, TypeOK, GraphOK, StackOK, Chained, CompleteOK, [Next]_vars
    PROVE  CompleteOK'
  <1>0. Kept  BY StepKept, Zenon
  <1>1. ASSUME UNCHANGED mon, ev' = ev,
               \A v \in DOMAIN vert : /\ vert'[v].color = vert[v].color
                                      /\ vert[v].witness = Witness => vert'[v].witness = Witness
        PROVE  CompleteOK'
    <2> SUFFICES ASSUME mon.pc = "visit"  PROVE CompleteOK'  BY <1>1, Zenon DEF CompleteOK
    <2>1. mon' = mon  BY <1>1, Zenon
    <2>2. SameSearch(mon, mon')  BY <2>1, Zenon DEF SameSearch
    <2>3. \A v, p : Waits(v, p) => Waits(v, p)'  BY <2>1, Zenon DEF Waits
    <2> QED  BY <1>0, <1>1, <2>1, <2>2, <2>3, CompleteKept, Zenon
  <1>2. ASSUME NEW e \in DOMAIN ev, AddEvent(e)  PROVE CompleteOK'
    <2>1. /\ \A v \in DOMAIN vert : vert'[v].color = vert[v].color /\ vert'[v].witness = vert[v].witness
          /\ UNCHANGED <<ev, currentIdx, ownRoundID, mon>>
      BY <1>2, AddEffect, Zenon
    <2> QED  BY <2>1, <1>1, Zenon
  <1>3. ASSUME NEW v \in DOMAIN vert, MarkWitness(v)  PROVE CompleteOK'
    <2>1. /\ \A u \in DOMAIN vert : /\ vert'[u].color = vert[u].color
                                    /\ vert'[u].witness = vert[u].witness \/ vert'[u].witness = Witness
          /\ UNCHANGED <<ev, verTop, lostDict, ownRoundID, mon>>
      BY <1>3, MarkEffect, Zenon
    <2> QED  BY <2>1, <1>1, Zenon
  <1>4. ASSUME UNCHANGED <<ev, vert, verTop, lostDict, currentIdx, witnesses, mon>>  PROVE CompleteOK'
    BY <1>1, <1>4, Zenon
  <1>5. ASSUME Between  PROVE CompleteOK'
    <2>1. mon'.pc # "visit"  BY <1>5, BetweenEffect, Zenon
    <2> QED  BY <2>1, Zenon DEF CompleteOK
  <1>6. ASSUME JudgeSee  PROVE CompleteOK'
    <2>1. PICK m, vs :
              /\ m \in Monitor /\ m.pc = "visit" /\ m.idx = mon.idx /\ m.starter = mon.starter /\ m.trace = {}
              /\ m.stack = <<>> /\ m.before.vert = vs /\ mon.pc = "loop"
              /\ m.before.own = ownRoundID /\ vs = clearColorDFS(mon.idx)
              /\ DOMAIN vs = DOMAIN vert /\ vs \in [DOMAIN vert -> VertexRec]
              /\ \A v \in DOMAIN vert : /\ vs[v].selfPt = vert[v].selfPt /\ vs[v].anotherPt = vert[v].anotherPt
                                        /\ vs[v].witness = vert[v].witness
              /\ Enters(m, vs, mon.starter)
              /\ UNCHANGED <<ev, verTop, lostDict, currentIdx, ownRoundID, witnesses>>
      BY <1>6, JudgeEffect, Zenon
    <2>9. PICK s : s = mon.starter  BY Zenon
    <2>2. /\ mon'.pc = "visit" /\ mon'.starter = s /\ mon'.before.vert = vs /\ mon'.before.own = ownRoundID
          /\ mon'.e = m.e /\ mon'.idx = mon.idx /\ mon'.trace = {ev[s].seqNum}
      BY <2>1, <2>9, Zenon DEF Enters, SameSearch
    <2>3. s \in DOMAIN vert /\ ev' = ev  BY <2>1, <2>9, Zenon DEF StackOK
    <2>4. \/ (s = m.e \/ vs[s].witness = Witness) /\ vert' = vs
          \/ /\ s # m.e /\ vs[s].witness # Witness /\ Painted(vert', vs, s, GREY)
             /\ \E f \in Frame : mon'.stack = Append(<<>>, f) /\ f.v = s /\ f.x[1] = vs[s].selfPt /\ f.x[2] = vs[s].anotherPt
      BY <2>1, <2>9, Zenon DEF Enters
    <2>5. /\ DOMAIN vert' = DOMAIN vs
          /\ \A v \in DOMAIN vs : /\ vert'[v].selfPt = vs[v].selfPt /\ vert'[v].anotherPt = vs[v].anotherPt
                                  /\ vert'[v].witness = vs[v].witness
                                  /\ v # s => vert'[v].color = vs[v].color
      BY <2>4, Zenon DEF Painted
    <2>6. OldKept'
      <3>1. \A v \in DOMAIN vs : /\ v \in DOMAIN vert' /\ vert'[v].selfPt = vs[v].selfPt
                                 /\ vs[v].anotherPt # Nil => vert'[v].anotherPt = vs[v].anotherPt
        BY <2>5, Zenon
      <3>2. DOMAIN vs = DOMAIN vert  BY <2>1, Zenon
      <3>3. mon'.before.vert = vs /\ mon'.starter = s  BY <2>2, Zenon
      <3>4. mon'.starter \in DOMAIN vs  BY <2>3, <3>2, <3>3, Zenon
      <3> QED  BY <3>1, <3>3, <3>4, Zenon DEF OldKept
    <2>7. Came(s)'
      <3>1. GREY # WHITE  BY SMTT(30) DEF GREY, WHITE
      <3>2. vert'[s].color # WHITE \/ s = m.e \/ vert'[s].witness = Witness  BY <2>1, <2>3, <2>4, <2>5, <3>1, Zenon DEF Painted
      <3> QED  BY <2>2, <2>3, <3>2, Zenon DEF Came
    <2>8. ASSUME InOrder(mon.before.vert)'  PROVE AllCame'
      <3>1. InOrder(vert)  BY <2>1, <2>2, <2>3, <2>8, SMTT(30) DEF InOrder
      <3>2. ASSUME NEW u \in OfRound', u # s  PROVE vert'[u].color = WHITE
        <4>1. u \in DOMAIN vert /\ RoundID(u) = mon.idx  BY <2>1, <2>2, <2>3, <3>2, Zenon DEF OfRound, RoundID
        <4>2. vs[u].color = WHITE  BY <2>1, <3>1, <4>1, ClearedAll, SMTT(30)
        <4> QED  BY <2>1, <2>5, <3>2, <4>1, <4>2, Zenon
      <3>3. ASSUME NEW p \in {vs[s].selfPt, vs[s].anotherPt}, s # m.e, vert'[s].witness # Witness  PROVE Waits(s, p)'
        <4>1. vs[s].witness # Witness  BY <2>1, <2>3, <2>5, <3>3, Zenon
        <4>2. PICK f \in Frame : mon'.stack = Append(<<>>, f) /\ f.v = s /\ f.x[1] = vs[s].selfPt /\ f.x[2] = vs[s].anotherPt
          BY <2>4, <3>3, <4>1, Zenon
        <4>3. DOMAIN mon'.stack = {1} /\ mon'.stack[1] = f
          <5>1. \A g : DOMAIN Append(<<>>, g) = {1} /\ Append(<<>>, g)[1] = g  OBVIOUS
          <5> QED  BY <4>2, <5>1, Zenon
        <4>4. \E j \in 1..2 : f.x[j] = p
          <5>1. 1 \in 1..2 /\ 2 \in 1..2  OBVIOUS
          <5> QED  BY <3>3, <4>2, <5>1, Zenon
        <4> QED  BY <4>2, <4>3, <4>4, Zenon DEF Waits
      <3> QED  BY <2>2, <2>3, <2>7, <3>2, <3>3, Zenon DEF AllCame
    <2> QED  BY <2>6, <2>8, Zenon DEF CompleteOK
  <1>7. ASSUME dfsVisit  PROVE CompleteOK'
    <2>0. PICK n : n = Len(mon.stack)  BY Zenon
    <2>1. /\ mon.pc = "visit" /\ n \in Nat \ {0} /\ DOMAIN mon.stack = 1..n
          /\ \/ \E m, u :
                   /\ m \in Monitor /\ SameSearch(mon, m) /\ m.trace = mon.trace
                   /\ DOMAIN m.stack = 1..n /\ Len(m.stack) = n
                   /\ \A i \in 1..n : m.stack[i].v = mon.stack[i].v
                   /\ \A i \in 1..n, j \in 1..2 :
                         m.stack[i].x[j] = mon.stack[i].x[j] \/ mon.stack[i].x[j] = u \/ Passed(mon.stack[i].x[j])
                   /\ u \in DOMAIN vert
                   /\ Enters(m, vert, u)
             \/ /\ SameSearch(mon, mon') /\ mon'.trace = mon.trace
                /\ DOMAIN mon'.stack = 1..(n - 1) /\ \A i \in 1..(n - 1) : mon'.stack[i] = mon.stack[i]
                /\ Painted(vert', vert, mon.stack[n].v, BLACK)
                /\ \A j \in 1..2 : Passed(mon.stack[n].x[j])
      BY <1>7, <2>0, DfsEffect, Zenon
    <2>2. mon.pc = "visit" /\ n \in Nat \ {0} /\ DOMAIN mon.stack = 1..n  BY <2>1, Zenon
    <2>3. /\ ev' = ev /\ \A v \in DOMAIN vert : vert'[v].witness = vert[v].witness
      BY <1>7, SearchEffect, Zenon
    <2>4. WHITE # GREY /\ WHITE # BLACK  BY SMTT(30) DEF WHITE, GREY, BLACK
    <2>5. \A p \in DOMAIN vert : Passed(p) => vert[p].color # WHITE  BY Events, Zenon DEF Passed
    <2>6. ASSUME SameSearch(mon, mon'), mon'.trace = mon.trace,
                 DOMAIN mon'.stack = 1..(n - 1), \A i \in 1..(n - 1) : mon'.stack[i] = mon.stack[i],
                 Painted(vert', vert, mon.stack[n].v, BLACK), \A j \in 1..2 : Passed(mon.stack[n].x[j])
          PROVE  CompleteOK'
      <3>1. n \in DOMAIN mon.stack  BY <2>2, SMTT(30)
      <3>2. vert[mon.stack[n].v].color = GREY  BY <3>1, Zenon DEF StackOK, FrameOK
      <3>3. \A v \in DOMAIN vert : vert[v].color # WHITE <=> vert'[v].color # WHITE  BY <2>4, <2>6, <3>2, Zenon DEF Painted
      <3>4. ASSUME NEW v \in DOMAIN vert, NEW p \in DOMAIN vert, Waits(v, p)
            PROVE  Waits(v, p)' \/ vert[p].color # WHITE
        <4>1. PICK i \in 1..n : mon.stack[i].v = v /\ \E j \in 1..2 : mon.stack[i].x[j] = p  BY <2>2, <3>4, Zenon DEF Waits
        <4>2. CASE i = n  BY <2>5, <2>6, <4>1, <4>2, Zenon
        <4>3. CASE i # n
          <5>1. i \in 1..(n - 1)  BY <2>2, <4>3, SMTT(30)
          <5>2. i \in DOMAIN mon'.stack /\ mon'.stack[i] = mon.stack[i]  BY <2>6, <5>1, Zenon
          <5> QED  BY <4>1, <5>2, Zenon DEF Waits
        <4> QED  BY <4>2, <4>3, Zenon
      <3> QED  BY <1>0, <2>2, <2>3, <2>6, <3>3, <3>4, CompleteKept, Zenon
    <2>7. ASSUME NEW m, NEW u \in DOMAIN vert, m \in Monitor, SameSearch(mon, m), m.trace = mon.trace,
                 DOMAIN m.stack = 1..n, Len(m.stack) = n, \A i \in 1..n : m.stack[i].v = mon.stack[i].v,
                 \A i \in 1..n, j \in 1..2 :
                     m.stack[i].x[j] = mon.stack[i].x[j] \/ mon.stack[i].x[j] = u \/ Passed(mon.stack[i].x[j]),
                 Enters(m, vert, u)
          PROVE  CompleteOK'
      <3>1. SameSearch(mon, mon') /\ mon'.e = m.e /\ mon'.trace = mon.trace \cup {ev[u].seqNum}
        BY <2>7, Zenon DEF SameSearch, Enters
      <3>2. \/ (u = m.e \/ vert[u].witness = Witness) /\ mon'.stack = m.stack /\ vert' = vert
            \/ /\ Painted(vert', vert, u, GREY)
               /\ \E f \in Frame : mon'.stack = Append(m.stack, f) /\ f.v = u /\ f.x[1] = vert[u].selfPt /\ f.x[2] = vert[u].anotherPt
        BY <2>7, Zenon DEF Enters
      <3>3. \A i \in 1..n : i \in DOMAIN mon'.stack /\ mon'.stack[i] = m.stack[i]
        <4>1. CASE mon'.stack = m.stack  BY <2>7, <4>1, Zenon
        <4>2. ASSUME NEW f \in Frame, mon'.stack = Append(m.stack, f)
              PROVE  \A i \in 1..n : i \in DOMAIN mon'.stack /\ mon'.stack[i] = m.stack[i]
          <5>1. m.stack \in Seq(Frame)  BY <2>7, Zenon DEF Monitor
          <5>2. \A i \in 1..Len(m.stack) : i \in DOMAIN Append(m.stack, f) /\ Append(m.stack, f)[i] = m.stack[i]
            BY <5>1, FrameAdded, Zenon
          <5> QED  BY <2>7, <4>2, <5>2, Zenon
        <4> QED  BY <3>2, <4>1, <4>2, Zenon
      <3>4. ASSUME NEW v \in DOMAIN vert, vert[v].color = WHITE, vert'[v].color # WHITE
            PROVE  /\ v = u /\ \A p \in {vert[v].selfPt, vert[v].anotherPt} : Waits(v, p)'
        <4>1. vert' # vert  BY <3>4, Zenon
        <4>2. v = u  BY <3>2, <3>4, <4>1, Zenon DEF Painted
        <4>3. PICK f \in Frame : mon'.stack = Append(m.stack, f) /\ f.v = u /\ f.x[1] = vert[u].selfPt /\ f.x[2] = vert[u].anotherPt
          BY <3>2, <4>1, Zenon
        <4>4. n + 1 \in DOMAIN mon'.stack /\ mon'.stack[n + 1] = f
          <5>1. m.stack \in Seq(Frame)  BY <2>7, Zenon DEF Monitor
          <5> QED  BY <2>7, <4>3, <5>1, FrameAdded, Zenon
        <4>5. ASSUME NEW p \in {vert[v].selfPt, vert[v].anotherPt}  PROVE \E j \in 1..2 : f.x[j] = p
          <5>1. 1 \in 1..2 /\ 2 \in 1..2  BY SMTT(30)
          <5> QED  BY <4>2, <4>3, <4>5, <5>1, Zenon
        <4> QED  BY <4>2, <4>3, <4>4, <4>5, Zenon DEF Waits
      <3>5. Came(u)'
        <4>1. vert'[u].color # WHITE \/ u = m.e \/ vert'[u].witness = Witness  BY <2>3, <2>4, <3>2, Zenon DEF Painted
        <4> QED  BY <2>3, <3>1, <4>1, Zenon DEF Came
      <3>6. \A v \in DOMAIN vert : vert[v].color # WHITE => vert'[v].color # WHITE  BY <2>4, <3>2, Zenon DEF Painted
      <3>7. ASSUME NEW v \in DOMAIN vert, NEW p \in DOMAIN vert, Waits(v, p)
            PROVE  Waits(v, p)' \/ Came(p)' \/ vert[p].color # WHITE
        <4>1. PICK i \in 1..n : mon.stack[i].v = v /\ \E j \in 1..2 : mon.stack[i].x[j] = p  BY <2>2, <3>7, Zenon DEF Waits
        <4>2. PICK j \in 1..2 : mon.stack[i].x[j] = p  BY <4>1, Zenon
        <4>3. CASE m.stack[i].x[j] = p
          <5>1. i \in DOMAIN mon'.stack /\ mon'.stack[i].v = v /\ mon'.stack[i].x[j] = p  BY <2>7, <3>3, <4>1, <4>3, Zenon
          <5> QED  BY <5>1, Zenon DEF Waits
        <4>4. CASE p = u  BY <3>5, <4>4, Zenon
        <4>5. CASE Passed(p)  BY <2>5, <4>5, Zenon
        <4> QED  BY <2>7, <4>2, <4>3, <4>4, <4>5, Zenon
      <3>8. \A v \in DOMAIN vert : vert[v].color = WHITE /\ vert'[v].color # WHITE =>
              /\ ev[v].seqNum \in mon'.trace
              /\ \A p \in {vert[v].selfPt, vert[v].anotherPt} : Waits(v, p)'
        BY <3>1, <3>4, Zenon
      <3> QED  BY <1>0, <2>2, <2>3, <3>1, <3>6, <3>7, <3>8, CompleteKept, Zenon
    <2> QED  BY <2>1, <2>6, <2>7, Zenon
  <1> QED  BY <1>2, <1>3, <1>4, <1>5, <1>6, <1>7, StepCases, Zenon

\* When no call is left, all that the starter led to has been come to.
LEMMA CompleteEnd ==
    ASSUME TypeOK, CompleteOK
    PROVE  SearchComplete
  <1> DEFINE inner == (OfRound \cap NotWitness(vert)) \ {mon.e}
             R == Reached(mon.before.vert, mon.starter, inner)
  <1> SUFFICES ASSUME mon.pc = "visit", mon.stack = <<>>, InOrder(mon.before.vert)
               PROVE  Columns(OfRound \cap R) \subseteq mon.trace
    BY Zenon DEF SearchComplete, OfRound
  <1>1. OldKept /\ AllCame  BY Zenon DEF CompleteOK
  <1>2. \A u, p : ~Waits(u, p)
    <2>1. DOMAIN mon.stack = {}  BY SMTT(30)
    <2> QED  BY <2>1, Zenon DEF Waits
  <1>3. OfRound \subseteq DOMAIN mon.before.vert /\ OfRound \subseteq DOMAIN vert  BY <1>1, Zenon DEF OfRound, OldKept
  <1> DEFINE T == {u \in Nat : u \in OfRound => Came(u)}
  <1>4. DOMAIN vert \subseteq Nat
    <2>1. DOMAIN vert \subseteq DOMAIN ev  BY Types, Zenon
    <2> QED  BY <2>1, Events, SMTT(30)
  <1>5. mon.starter \in T  BY <1>1, <1>3, <1>4, Zenon DEF AllCame, OfRound
  <1>6. ASSUME NEW u \in T \cap inner
        PROVE  {mon.before.vert[u].selfPt, mon.before.vert[u].anotherPt} \ {Nil} \subseteq T
    <2>1. /\ u \in OfRound /\ u # mon.e /\ vert[u].witness # Witness /\ Came(u)  BY Zenon DEF NotWitness
    <2>2. vert[u].color # WHITE  BY <2>1, Zenon DEF Came
    <2>3. \A p \in {mon.before.vert[u].selfPt, mon.before.vert[u].anotherPt} \cap OfRound : Came(p)
      BY <1>1, <1>2, <2>1, <2>2, Zenon DEF AllCame
    <2>4. mon.before.vert[u].selfPt \in Nat /\ mon.before.vert[u].anotherPt \in Nat
      <3>1. mon.before.vert \in Vertices /\ u \in DOMAIN mon.before.vert
        <4>1. mon \in Monitor  BY Types, Zenon
        <4> HIDE DEF Vertices
        <4> QED  BY <1>3, <2>1, <4>1, Zenon DEF Monitor
      <3>2. mon.before.vert[u] \in VertexRec
        <4>1. PICK D : mon.before.vert \in [D -> VertexRec]  BY <3>1, Zenon DEF Vertices
        <4> QED  BY <3>1, <4>1, Zenon
      <3> QED  BY <3>2, Zenon DEF VertexRec
    <2> QED  BY <2>3, <2>4, Zenon
  <1>7. Len(ev) \in Nat  BY Events, Zenon
  <1> HIDE DEF T, inner
  <1>8. ReachedIn(Len(ev), mon.before.vert, mon.starter, inner) \subseteq T  BY <1>5, <1>6, <1>7, ReachedLeast
  <1>9. R \subseteq T  BY <1>8, Zenon DEF Reached
  <1> HIDE DEF R
  <1>10. \A u \in OfRound \cap R : ev[u].seqNum \in mon.trace  BY <1>9, Zenon DEF T, Came
  <1> QED  BY <1>10, Zenon DEF Columns

----------------------------------------------------------------------------
\* The graph is empty at first, and no search is on.
LEMMA InitIInv == Init => IInv
  <1> SUFFICES ASSUME Init  PROVE IInv  BY Zenon
  <1>1. /\ ev \in History /\ vert = <<>> /\ verTop = [c \in Slot |-> Nil] /\ lostDict = {}
        /\ currentIdx = 0 /\ ownRoundID = 0 /\ witnesses = [r \in 0..0 |-> NoWitness] /\ mon = Idle
    BY Zenon DEF Init
  <1>2. DOMAIN vert = {}  BY <1>1, SMTT(30)
  <1>3. Idle \in Monitor /\ Idle.pc = "front" /\ Idle.idx = 0 /\ Idle.stack = <<>>
    <2>1. <<>> \in [{} -> VertexRec]  OBVIOUS
    <2>2. <<>> \in Vertices  BY <2>1, {} \in SUBSET Nat, Zenon DEF Vertices
    <2>3. <<>> \in Seq(Frame)  OBVIOUS
    <2> HIDE DEF Vertices, Frame
    <2> QED  BY <2>2, <2>3, Zenon DEF Idle, Monitor, Nil
  <1>4. TypeOK
    <2>1. verTop \in [Slot -> Nat] /\ lostDict \subseteq Nat \X DOMAIN vert /\ currentIdx \in Nat /\ ownRoundID \in Nat
      BY <1>1, Zenon DEF Nil
    <2>2. witnesses \in [0..currentIdx -> [Slot -> Nat]]  BY <1>1, Constants, Zenon
    <2>3. vert \in [DOMAIN vert -> VertexRec] /\ DOMAIN vert \subseteq DOMAIN ev  BY <1>1, <1>2, SMTT(30)
    <2>4. mon \in Monitor /\ mon.idx \in 0..currentIdx  BY <1>1, <1>3, SMTT(30)
    <2> QED  BY <1>1, <2>1, <2>2, <2>3, <2>4, Zenon DEF TypeOK
  <1>5. GraphOK  BY <1>1, <1>2, Zenon DEF GraphOK, Points
  <1>6. DOMAIN mon.stack = {} /\ mon.pc = "front" /\ mon.stack = <<>>  BY <1>1, <1>3, SMTT(30)
  <1>7. StackOK /\ NoReentry /\ SearchOK /\ SearchSound  BY <1>6 DEF StackOK, NoReentry, SearchOK, SearchSound
  <1> QED  BY <1>4, <1>5, <1>7, Zenon DEF IInv

\* Every step keeps the inductive invariant.
LEMMA StepIInv == IInv /\ [Next]_vars => IInv'
  <1> SUFFICES ASSUME IInv, [Next]_vars  PROVE IInv'  BY Zenon
  <1>1. TypeOK /\ GraphOK /\ StackOK /\ NoReentry /\ SearchOK /\ SearchSound  BY Zenon DEF IInv
  <1>2. TypeOK' /\ GraphOK' /\ StackOK' /\ NoReentry'  BY <1>1, StepTypes, StepGraph, StepStack, Zenon
  <1>3. Counted  BY <1>1, SoundIsCounted, Zenon
  <1>4. SearchOK' /\ Counted'  BY <1>1, <1>2, <1>3, StepSearch, Zenon
  <1>5. SearchSound'  BY <1>4, Zenon DEF SearchSound, Counted, FromStarter, Inner
  <1> QED  BY <1>2, <1>4, <1>5, Zenon DEF IInv

----------------------------------------------------------------------------
\* The inductive invariant holds in every reachable state.
THEOREM SearchInv == Spec => []IInv
  <1>1. Spec => Init /\ [][Next]_vars  BY PTL DEF Spec
  <1> QED  BY <1>1, InitIInv, StepIInv, PTL

\* JudgeSee counts no column that the own event does not lead to, however AddEvent
\* changes the graph under dfsVisit.
THEOREM CountsReached == Spec => []SearchSound
  <1>1. IInv => SearchSound  BY Zenon DEF IInv
  <1> QED  BY <1>1, SearchInv, PTL

\* JudgeSee misses no column: whatever AddEvent adds, links and marks meanwhile, and
\* whatever colors earlier searches have left, it counts every column of which a path
\* within the round led to a vertex when it began.  This needs the rounds of a node's
\* events to grow.
THEOREM CountsAll == RoundsGrow => (Spec => []SearchComplete)
  <1> SUFFICES ASSUME RoundsGrow  PROVE Spec => []SearchComplete  BY Zenon
  <1> DEFINE CInv == Chained /\ CompleteOK
  <1>1. Init => CInv
    <2> SUFFICES ASSUME Init  PROVE CInv  BY Zenon
    <2>1. DOMAIN vert = {} /\ mon.pc = "front"  BY SMTT(30) DEF Init, Idle
    <2> QED  BY <2>1, Zenon DEF Chained, CompleteOK
  <1>2. IInv /\ CInv /\ [Next]_vars => CInv'
    <2> SUFFICES ASSUME IInv, CInv, [Next]_vars  PROVE CInv'  BY Zenon
    <2>1. TypeOK /\ GraphOK /\ StackOK  BY Zenon DEF IInv
    <2> QED  BY <2>1, StepChained, StepComplete, Zenon
  <1>3. IInv /\ CInv => SearchComplete
    <2> SUFFICES ASSUME IInv, CInv  PROVE SearchComplete  BY Zenon
    <2>1. TypeOK  BY Zenon DEF IInv
    <2> QED  BY <2>1, CompleteEnd, Zenon
  <1>4. Spec => Init /\ [][Next]_vars  BY PTL DEF Spec
  <1> QED  BY <1>1, <1>2, <1>3, <1>4, SearchInv, PTL

\* dfsVisit is never in one vertex twice, whatever cycles late events make.
THEOREM VisitsOnce == Spec => []NoReentry
  <1>1. IInv => NoReentry  BY Zenon DEF IInv
  <1> QED  BY <1>1, SearchInv, PTL

\* No step takes a vertex out of the graph, or a pointer that dfsVisit may follow.
THEOREM PointersKept == Spec => [][Kept]_vars
  <1>1. IInv /\ [Next]_vars => [Kept]_vars
    <2> SUFFICES ASSUME IInv, [Next]_vars  PROVE Kept  BY Zenon
    <2>1. TypeOK /\ GraphOK /\ StackOK  BY Zenon DEF IInv
    <2> QED  BY <2>1, StepKept, Zenon
  <1>2. Spec => Init /\ [][Next]_vars  BY PTL DEF Spec
  <1> QED  BY <1>1, <1>2, SearchInv, PTL

============================================================================
