----------------------------- MODULE NodeProofs -----------------------------
(***************************************************************************)
(* Proofs about the rounds of module RoundManager and about a node, for    *)
(* any number of nodes, channels of any capacity and any bounds on events  *)
(* and rounds.                                                             *)
(***************************************************************************)
EXTENDS Node, TLAPS

(* The rounds.                                                              *)

IsOwn(v) == v \in DOMAIN vertex /\ vertex[v].seqNum = Own
IsWitness(v) == v \in DOMAIN vertex /\ vertex[v].witness \in {Witness, WitnessLocal}

Vertex == [seqNum : Slot, RoundID : Nat, witness : 0..3]

TypeOK ==
    /\ vertex \in Seq(Vertex) /\ ownRoundID \in Nat /\ mlen \in Nat /\ currentIdx \in Nat
    /\ witnesses \in [0..currentIdx -> [Slot -> Nat]]
    /\ SelfEventCreated \in Seq(Nat) /\ witnessL \in Seq(Nat) /\ roundTrigger \in Seq(Nat)
    /\ consensusTrigger \in Seq(Nat) /\ ready \in Nat \cup {-1}
    /\ senders \subseteq {"self", "trigger"} \X Nat
    /\ mon \in [pc : {"front", "select", "found", "trigger"}, round : Nat, starter : Nat, roundNum : Nat]

\* MonitorLoop is told of own events only, so a local witness is an own event, and
\* EventHandle is told of own events only.
SelfIsOwn ==
    /\ \A x \in senders : x[1] = "self" => IsOwn(x[2])
    /\ \A k \in DOMAIN SelfEventCreated : IsOwn(SelfEventCreated[k])
    /\ \A k \in DOMAIN witnessL : IsOwn(witnessL[k])
    /\ mon.pc \in {"found", "trigger"} => IsOwn(mon.starter)
    /\ \A v \in DOMAIN vertex : vertex[v].witness = WitnessLocal => vertex[v].seqNum = Own

\* RoundLoop is told of witnesses only.
TriggerIsWitness ==
    /\ \A x \in senders : x[1] = "trigger" => IsWitness(x[2])
    /\ \A k \in DOMAIN roundTrigger : IsWitness(roundTrigger[k])
    /\ mon.pc = "trigger" => IsWitness(mon.starter)

\* A slot is empty or holds a vertex.
SlotHoldsVertex == \A r \in 0..currentIdx, i \in Slot : witnesses[r][i] \in 0..Len(vertex)

\* A round that ConsensusShow is or will be told of exists.
ToldExists ==
    /\ \A k \in DOMAIN consensusTrigger : consensusTrigger[k] \in 0..currentIdx
    /\ ready # -1 => ready \in 0..currentIdx

IInv ==
    /\ TypeOK /\ SelfIsOwn /\ TriggerIsWitness /\ SlotHoldsVertex /\ ToldExists
    /\ SlotHoldsWitness /\ ConsensusComplete

----------------------------------------------------------------------------
(* What no step takes back.                                                 *)

\* A vertex stays, with its column and RoundID, and a witness stays a witness.
VertexKept ==
    /\ Len(vertex) <= Len(vertex')
    /\ \A v \in DOMAIN vertex :
          /\ vertex'[v].seqNum = vertex[v].seqNum /\ vertex'[v].RoundID = vertex[v].RoundID
          /\ vertex[v].witness \in {Witness, WitnessLocal} => vertex'[v].witness \in {Witness, WitnessLocal}

\* A round stays, and a slot that is filled stays filled.
SlotsKept ==
    /\ currentIdx <= currentIdx'
    /\ \A r \in 0..currentIdx, i \in Slot : witnesses[r][i] # None => witnesses'[r][i] # None

\* What Append makes of a sequence, and Head and Tail of one that is not empty.
LEMMA Appended ==
  ASSUME NEW S, NEW s \in Seq(S), NEW e \in S
  PROVE  /\ Append(s, e) \in Seq(S) /\ Len(Append(s, e)) = Len(s) + 1 /\ Len(s) \in Nat
         /\ DOMAIN s = 1..Len(s) /\ DOMAIN Append(s, e) = 1..(Len(s) + 1)
         /\ Append(s, e)[Len(s) + 1] = e
         /\ \A k \in 1..Len(s) : Append(s, e)[k] = s[k]
  BY SMTT(30)

\* What a receive from a channel takes and leaves.
LEMMA Received ==
  ASSUME NEW S, NEW s \in Seq(S), s # <<>>
  PROVE  /\ Tail(s) \in Seq(S) /\ Head(s) = s[1] /\ 1 \in DOMAIN s /\ Head(s) \in S
         /\ \A k \in DOMAIN Tail(s) : k + 1 \in DOMAIN s /\ Tail(s)[k] = s[k + 1]
  OBVIOUS

\* NewRoundManager makes a state of the inductive invariant.
LEMMA InitIInv == NewRoundManager => IInv
<1> SUFFICES ASSUME NewRoundManager PROVE IInv
  BY Zenon
<1> USE RoundAssumption DEF NewRoundManager, NoWitness, None
<1>1. TypeOK
  BY DEF TypeOK
<1>2. SelfIsOwn /\ TriggerIsWitness
  BY DEF SelfIsOwn, TriggerIsWitness
<1>3. SlotHoldsVertex /\ ToldExists /\ SlotHoldsWitness /\ ConsensusComplete
  BY DEF SlotHoldsVertex, ToldExists, SlotHoldsWitness, ConsensusComplete, Elements
<1> QED BY <1>1, <1>2, <1>3, Zenon DEF IInv

\* The parts of the type invariant.
LEMMA Types ==
  ASSUME IInv
  PROVE  /\ vertex \in Seq(Vertex) /\ Len(vertex) \in Nat /\ DOMAIN vertex = 1..Len(vertex)
         /\ \A v \in DOMAIN vertex : vertex[v] \in Vertex
         /\ ownRoundID \in Nat /\ mlen \in Nat /\ currentIdx \in Nat
         /\ witnesses \in [0..currentIdx -> [Slot -> Nat]]
         /\ SelfEventCreated \in Seq(Nat) /\ witnessL \in Seq(Nat) /\ roundTrigger \in Seq(Nat)
         /\ consensusTrigger \in Seq(Nat) /\ ready \in Nat \cup {-1}
         /\ senders \subseteq {"self", "trigger"} \X Nat
         /\ mon \in [pc : {"front", "select", "found", "trigger"}, round : Nat, starter : Nat, roundNum : Nat]
<1>1. vertex \in Seq(Vertex)
  BY Zenon DEF IInv, TypeOK
<1>2. /\ Len(vertex) \in Nat /\ DOMAIN vertex = 1..Len(vertex)
      /\ \A v \in DOMAIN vertex : vertex[v] \in Vertex
  BY <1>1
<1> QED BY <1>1, <1>2, Zenon DEF IInv, TypeOK

\* What AddEvent does when it files a new vertex of column i, type t and RoundID q.
LEMMA FiledKept ==
  ASSUME IInv, NEW i \in Slot, NEW t \in {0, Normal, Witness}, NEW q \in Nat, Filed(i, t, q),
         currentIdx' = currentIdx
  PROVE  /\ vertex' \in Seq(Vertex) /\ witnesses' \in [0..currentIdx -> [Slot -> Nat]]
         /\ VertexKept /\ SlotsKept /\ SlotHoldsVertex' /\ SlotHoldsWitness'
         /\ Len(vertex') = Len(vertex) + 1 /\ vertex'[Len(vertex) + 1].seqNum = i
         /\ \A v \in DOMAIN vertex : vertex'[v] = vertex[v]
         /\ vertex'[Len(vertex) + 1].witness # WitnessLocal
<1> DEFINE n == Len(vertex) + 1
           r == FindRound(q)
           w == VertexType(Column(i) = {}, t)
           filed == Column(i) = {} \/ t = Witness
<1> USE DEF None, Normal, Witness, WitnessLocal
<1>0. /\ vertex \in Seq(Vertex) /\ Len(vertex) \in Nat /\ DOMAIN vertex = 1..Len(vertex) /\ currentIdx \in Nat
      /\ witnesses \in [0..currentIdx -> [Slot -> Nat]] /\ SlotHoldsVertex /\ SlotHoldsWitness
  BY Types, Zenon DEF IInv
<1>1. r \in 0..currentIdx /\ (r = 0 \/ r = q)
  BY <1>0 DEF FindRound
<1>2. w \in 0..2 /\ (filed => w = Witness)
  BY DEF VertexType
<1>3. vertex' = Append(vertex, [seqNum |-> i, RoundID |-> q, witness |-> w])
  BY Zenon DEF Filed
<1>4. witnesses' = IF filed THEN [witnesses EXCEPT ![r][i] = n] ELSE witnesses
  BY Zenon DEF Filed
<1> HIDE DEF w, filed, r
<1>5. [seqNum |-> i, RoundID |-> q, witness |-> w] \in Vertex
  BY <1>2 DEF Vertex
<1>6. vertex' \in Seq(Vertex) /\ Len(vertex') = n /\ n \in Nat
  BY <1>0, <1>3, <1>5, Appended
<1>7. /\ \A v \in DOMAIN vertex : vertex'[v] = vertex[v]
      /\ vertex'[n] = [seqNum |-> i, RoundID |-> q, witness |-> w]
  BY <1>0, <1>3, <1>5, Appended
<1>8. VertexKept
  BY <1>0, <1>6, <1>7 DEF VertexKept
<1>9. /\ witnesses' \in [0..currentIdx -> [Slot -> Nat]]
      /\ \A s \in 0..currentIdx, j \in Slot :
            witnesses'[s][j] = witnesses[s][j] \/ (filed /\ s = r /\ j = i /\ witnesses'[s][j] = n)
  <2>1. CASE filed
    <3>1. witnesses' = [witnesses EXCEPT ![r][i] = n]
      BY <1>4, <2>1, Zenon
    <3> HIDE DEF n
    <3>2. /\ witnesses' \in [0..currentIdx -> [Slot -> Nat]]
          /\ \A s \in 0..currentIdx, j \in Slot :
                witnesses'[s][j] = witnesses[s][j] \/ (s = r /\ j = i /\ witnesses'[s][j] = n)
      <4>1. [witnesses[r] EXCEPT ![i] = n] \in [Slot -> Nat]
        BY <1>0, <1>1, <1>6, Zenon
      <4>2. witnesses' = [witnesses EXCEPT ![r] = [witnesses[r] EXCEPT ![i] = n]]
        BY <3>1, Zenon
      <4> QED BY <1>0, <1>1, <4>1, <4>2, Zenon
    <3> QED BY <2>1, <3>2, Zenon
  <2>2. CASE ~filed
    BY <1>0, <1>4, <2>2, Zenon
  <2> QED BY <2>1, <2>2, Zenon
<1>10. \A s \in 0..currentIdx, j \in Slot : witnesses'[s][j] = witnesses[s][j] \/ witnesses'[s][j] = n
  BY <1>9, Zenon
<1>11. SlotsKept
  <2>1. n # None /\ currentIdx <= currentIdx'
    BY <1>0
  <2> QED BY <1>10, <2>1, Zenon DEF SlotsKept
<1>12. SlotHoldsVertex'
  <2> SUFFICES ASSUME NEW s \in 0..currentIdx, NEW j \in Slot PROVE witnesses'[s][j] \in 0..Len(vertex')
    BY Zenon DEF SlotHoldsVertex
  <2>1. witnesses[s][j] \in 0..Len(vertex) /\ Len(vertex) \in Nat
    BY <1>0, Zenon DEF SlotHoldsVertex
  <2>2. witnesses'[s][j] = witnesses[s][j] \/ witnesses'[s][j] = n
    BY <1>10, Zenon
  <2> QED BY <1>6, <2>1, <2>2, SMTT(30)
<1>13. SlotHoldsWitness'
  <2> SUFFICES ASSUME NEW s \in 0..currentIdx, NEW j \in Slot, witnesses'[s][j] # None
               PROVE  /\ vertex'[witnesses'[s][j]].seqNum = j
                      /\ vertex'[witnesses'[s][j]].witness \in {Witness, WitnessLocal}
                      /\ j = Own \/ s = 0 \/ vertex'[witnesses'[s][j]].RoundID = s
    BY Zenon DEF SlotHoldsWitness
  <2>1. CASE witnesses'[s][j] = witnesses[s][j]
    <3>1. witnesses[s][j] \in DOMAIN vertex
      BY <1>0, <2>1, SMTT(30) DEF SlotHoldsVertex
    <3> QED BY <1>0, <2>1, <3>1, <1>7, SMTT(30) DEF SlotHoldsWitness
  <2>2. CASE filed /\ s = r /\ j = i /\ witnesses'[s][j] = n
    BY <2>2, <1>1, <1>2, <1>7
  <2> QED BY <2>1, <2>2, <1>9, Zenon
<1>14. vertex'[n].seqNum = i /\ vertex'[n].witness # WitnessLocal
  BY <1>2, <1>7
<1> QED BY <1>6, <1>7, <1>8, <1>9, <1>11, <1>13, <1>14, <1>12, Zenon

\* A vertex that becomes a witness keeps the rest, and so do the other vertices.
LEMMA Changed ==
  ASSUME IInv, NEW v \in DOMAIN vertex, NEW w \in {Witness, WitnessLocal},
         vertex' = [vertex EXCEPT ![v].witness = w]
  PROVE  /\ vertex' \in Seq(Vertex) /\ Len(vertex') = Len(vertex) /\ DOMAIN vertex' = DOMAIN vertex
         /\ VertexKept /\ vertex'[v].witness = w
         /\ \A u \in DOMAIN vertex \ {v} : vertex'[u] = vertex[u]
<1>1. /\ vertex \in Seq(Vertex) /\ Len(vertex) \in Nat /\ DOMAIN vertex = 1..Len(vertex)
      /\ \A u \in DOMAIN vertex : vertex[u] \in Vertex
  BY Types, Zenon
<1>2. [vertex[v] EXCEPT !.witness = w] \in Vertex
  BY <1>1 DEF Vertex, Witness, WitnessLocal
<1>3. vertex' = [vertex EXCEPT ![v] = [vertex[v] EXCEPT !.witness = w]]
  BY Zenon
<1>4. vertex' \in Seq(Vertex) /\ Len(vertex') = Len(vertex) /\ DOMAIN vertex' = DOMAIN vertex
  BY <1>1, <1>2, <1>3
<1>5. /\ vertex'[v] = [vertex[v] EXCEPT !.witness = w]
      /\ \A u \in DOMAIN vertex \ {v} : vertex'[u] = vertex[u]
  BY <1>1, <1>3, Zenon
<1>6. vertex'[v].seqNum = vertex[v].seqNum /\ vertex'[v].RoundID = vertex[v].RoundID /\ vertex'[v].witness = w
  BY <1>1, <1>5, Zenon DEF Vertex
<1>7. VertexKept
  BY <1>1, <1>4, <1>5, <1>6 DEF VertexKept
<1> QED BY <1>4, <1>5, <1>6, <1>7, Zenon

\* Every step keeps the types, the vertices and the slots.
LEMMA StepKept == IInv /\ [Next]_vars => TypeOK' /\ VertexKept /\ SlotsKept
<1> SUFFICES ASSUME IInv, [Next]_vars PROVE TypeOK' /\ VertexKept /\ SlotsKept
  BY Zenon
<1> USE DEF None, Normal, Witness, WitnessLocal
<1> DEFINE Mon == [pc : {"front", "select", "found", "trigger"}, round : Nat, starter : Nat, roundNum : Nat]
           Sending == {"self", "trigger"} \X Nat
<1>0. Own \in Slot
  BY RoundAssumption DEF Own, Slot
<1>1. ASSUME UNCHANGED vertex PROVE VertexKept
  BY <1>1, Types DEF VertexKept
<1>2. ASSUME UNCHANGED <<currentIdx, witnesses>> PROVE SlotsKept
  BY <1>2, Types DEF SlotsKept
<1>3. ASSUME NEW i \in Slot, NEW t \in {Normal, Witness}, NEW q \in 0..MaxRound, AddRemote(i, t, q)
      PROVE  TypeOK' /\ VertexKept /\ SlotsKept
  <2>1. q \in Nat /\ Filed(i, t, q) /\ currentIdx' = currentIdx
    BY <1>3, RoundAssumption DEF AddRemote
  <2>2. mlen' \in Nat
    BY <1>3, Types, SMTT(30) DEF AddRemote
  <2>3. vertex' \in Seq(Vertex) /\ witnesses' \in [0..currentIdx -> [Slot -> Nat]] /\ VertexKept /\ SlotsKept
    BY <2>1, FiledKept, Zenon
  <2> QED BY <1>3, <2>2, <2>3, Types, Zenon DEF AddRemote, chans, TypeOK
<1>4. ASSUME NEW t \in {0, Normal, Witness}, AddOwn(t) PROVE TypeOK' /\ VertexKept /\ SlotsKept
  <2>1. Filed(Own, t, ownRoundID) /\ currentIdx' = currentIdx /\ ownRoundID \in Nat
    BY <1>4, Types, Zenon DEF AddOwn
  <2>2. vertex' \in Seq(Vertex) /\ witnesses' \in [0..currentIdx -> [Slot -> Nat]] /\ VertexKept /\ SlotsKept
    BY <1>0, <2>1, FiledKept, Zenon
  <2>3. Len(vertex) + 1 \in Nat
    BY Types
  <2>4. senders' \subseteq Sending
    BY <1>4, <2>3, Types, SMTT(30) DEF AddOwn
  <2> QED BY <1>4, <2>2, <2>4, Types, Zenon DEF AddOwn, TypeOK
<1>5. CASE ComposeEvent
  BY <1>1, <1>2, <1>5, Types, Zenon DEF ComposeEvent, ComposedRoundID, chans, TypeOK
<1>6. ASSUME NEW v \in 1..MaxVertex, AddAgain(v) PROVE TypeOK' /\ VertexKept /\ SlotsKept
  <2>1. v \in DOMAIN vertex /\ v \in Nat /\ vertex' = [vertex EXCEPT ![v].witness = Witness]
    BY <1>6 DEF AddAgain
  <2>2. vertex' \in Seq(Vertex) /\ VertexKept
    BY <2>1, Changed, Zenon
  <2>3. senders' \subseteq Sending
    BY <1>6, <2>1, Types, SMTT(30) DEF AddAgain
  <2> QED BY <1>2, <1>6, <2>2, <2>3, Types, Zenon DEF AddAgain, TypeOK
<1>7. ASSUME NEW v \in 1..MaxVertex, SendSelf(v) \/ SendTrigger(v) PROVE TypeOK' /\ VertexKept /\ SlotsKept
  <2>1. Append(SelfEventCreated, v) \in Seq(Nat) /\ Append(roundTrigger, v) \in Seq(Nat)
    BY Types, Appended
  <2>2. senders' \subseteq Sending
    BY <1>7, Types, Zenon DEF SendSelf, SendTrigger
  <2> QED BY <1>1, <1>2, <1>7, <2>1, <2>2, Types, Zenon DEF SendSelf, SendTrigger, queue, TypeOK
<1>8. CASE RoundLoop
  <2> DEFINE v   == Head(roundTrigger)
             new == StartsRound(v)
             id  == IF new THEN currentIdx + 1 ELSE RoundIDWith(v, ownRoundID)
             idx == IF new THEN currentIdx + 1 ELSE currentIdx
             all == [r \in 0..idx |-> IF r \in 0..currentIdx THEN witnesses[r] ELSE NoWitness]
             ws  == [all[id] EXCEPT ![vertex[v].seqNum] = v]
  <2>1. /\ ownRoundID' = IF new /\ vertex[v].seqNum = Own THEN currentIdx + 1 ELSE ownRoundID
        /\ currentIdx' = idx
        /\ roundTrigger # <<>> /\ roundTrigger' = Tail(roundTrigger)
        /\ IF id \in 0..idx
           THEN /\ witnesses' = [all EXCEPT ![id] = ws]
                /\ ready' = IF AllCome(ws) THEN id ELSE -1
           ELSE witnesses' = all /\ UNCHANGED ready
        /\ UNCHANGED <<vertex, mlen, SelfEventCreated, witnessL, consensusTrigger, senders, mon>>
    BY <1>8, Zenon DEF RoundLoop
  <2>2. /\ v = roundTrigger[1] /\ 1 \in DOMAIN roundTrigger /\ v \in Nat
        /\ Tail(roundTrigger) \in Seq(Nat)
    BY <2>1, Received, Types, Zenon
  <2>3. v \in DOMAIN vertex /\ v # None
    BY <2>2, Types, SMTT(30) DEF IInv, TriggerIsWitness, IsWitness
  <2>4. vertex[v].seqNum \in Slot /\ RoundIDWith(v, ownRoundID) \in Nat
    BY <2>3, Types, Zenon DEF Vertex, RoundIDWith
  <2> HIDE DEF v, new
  <2>5. idx \in Nat /\ id \in Nat /\ currentIdx <= idx /\ currentIdx \in Nat /\ ownRoundID' \in Nat
    <3>1. currentIdx \in Nat /\ currentIdx + 1 \in Nat /\ ownRoundID \in Nat
      BY Types
    <3>2. ownRoundID' \in {currentIdx + 1, ownRoundID}
      BY <2>1, Zenon
    <3>3. idx \in {currentIdx, currentIdx + 1} /\ id \in {currentIdx + 1, RoundIDWith(v, ownRoundID)}
      BY Zenon
    <3> HIDE DEF idx, id
    <3> QED BY <2>4, <3>1, <3>2, <3>3
  <2>6. all \in [0..idx -> [Slot -> Nat]] /\ \A r \in 0..currentIdx : all[r] = witnesses[r]
    <3>1. NoWitness \in [Slot -> Nat] /\ witnesses \in [0..currentIdx -> [Slot -> Nat]]
      BY Types, Zenon DEF NoWitness
    <3> HIDE DEF idx
    <3> QED BY <3>1, <2>5
  <2> HIDE DEF id, idx, all
  <2>7. CASE id \in 0..idx
    <3>1. ws \in [Slot -> Nat] /\ \A i \in Slot : all[id][i] # None => ws[i] # None
      BY <2>2, <2>3, <2>4, <2>6, <2>7, Zenon
    <3> HIDE DEF ws
    <3>2. witnesses' = [all EXCEPT ![id] = ws] /\ ready' \in Nat \cup {-1}
      BY <2>1, <2>5, <2>7, Zenon
    <3>3. witnesses' \in [0..idx -> [Slot -> Nat]]
      BY <2>6, <2>7, <3>1, <3>2, Zenon
    <3>4. \A r \in 0..currentIdx, i \in Slot : witnesses[r][i] # None => witnesses'[r][i] # None
      BY <2>5, <2>6, <2>7, <3>1, <3>2
    <3>5. SlotsKept
      BY <2>1, <2>5, <3>4, Zenon DEF SlotsKept
    <3> QED BY <1>1, <2>1, <2>2, <2>5, <3>2, <3>3, <3>5, Types, Zenon DEF TypeOK
  <2>8. CASE id \notin 0..idx
    <3>1. witnesses' = all /\ ready' = ready
      BY <2>1, <2>8, Zenon
    <3>2. SlotsKept
      BY <2>1, <2>5, <2>6, <3>1, Zenon DEF SlotsKept
    <3> QED BY <1>1, <2>1, <2>2, <2>5, <2>6, <3>1, <3>2, Types, Zenon DEF TypeOK
  <2> QED BY <2>7, <2>8, Zenon
<1>9. CASE SendConsensus
  <2>1. Append(consensusTrigger, ready) \in Seq(Nat) /\ -1 \in Nat \cup {-1}
    BY <1>9, Types, Appended, Zenon DEF SendConsensus
  <2> QED BY <1>1, <1>2, <1>9, <2>1, Types, Zenon DEF SendConsensus, queue, TypeOK
<1>10. CASE ConsensusShow
  BY <1>1, <1>2, <1>10, Types, Received, Zenon DEF ConsensusShow, queue, TypeOK
<1>11. CASE TakeWitnessL
  BY <1>1, <1>2, <1>11, Types, Received, Zenon DEF TakeWitnessL, queue, TypeOK
<1>12. CASE MonitorFront
  <2>1. mon' \in Mon
    BY <1>12, Types, Zenon DEF MonitorFront
  <2> QED BY <1>1, <1>2, <1>12, <2>1, Types, Zenon DEF MonitorFront, queue, chans, TypeOK
<1>13. CASE MonitorTrigger
  <2>1. mon' \in Mon /\ Append(roundTrigger, mon.starter) \in Seq(Nat)
    BY <1>13, Types, Appended, Zenon DEF MonitorTrigger, Restarted
  <2> QED BY <1>1, <1>2, <1>13, <2>1, Types, Zenon DEF MonitorTrigger, queue, TypeOK
<1>14. CASE MonitorRecv
  <2>1. Tail(SelfEventCreated) \in Seq(Nat) /\ Head(SelfEventCreated) \in Nat
    BY <1>14, Received, Types, Zenon DEF MonitorRecv
  <2>2. mon' \in Mon
    <3>1. mon \in Mon
      BY Types, Zenon
    <3>2. [mon EXCEPT !.starter = Head(SelfEventCreated)] \in Mon /\ mon.roundNum + 1 \in Nat
      BY <2>1, <3>1, SMTT(30)
    <3> QED BY <1>14, <3>2, Zenon DEF MonitorRecv
  <2> QED BY <1>1, <1>2, <1>14, <2>1, <2>2, Types, Zenon DEF MonitorRecv, queue, TypeOK
<1>15. CASE MonitorWitness
  <2>1. mon.starter \in DOMAIN vertex /\ vertex' = [vertex EXCEPT ![mon.starter].witness = WitnessLocal]
    BY <1>15, Zenon DEF MonitorWitness, IInv, SelfIsOwn, IsOwn
  <2>2. vertex' \in Seq(Vertex) /\ VertexKept
    BY <2>1, Changed, Zenon
  <2>3. mon' \in Mon /\ Append(witnessL, mon.starter) \in Seq(Nat)
    BY <1>15, Types, Appended, Zenon DEF MonitorWitness
  <2> QED BY <1>2, <1>15, <2>2, <2>3, Types, Zenon DEF MonitorWitness, TypeOK
<1>16. CASE UNCHANGED vars
  BY <1>1, <1>2, <1>16, Types, Zenon DEF vars, queue, chans, TypeOK
<1> QED
  BY <1>3, <1>4, <1>5, <1>6, <1>7, <1>8, <1>9, <1>10, <1>11, <1>12, <1>13, <1>14, <1>15, <1>16, Zenon DEF Next, Loops

\* An own vertex stays one and a witness stays one.
LEMMA StillSo ==
  ASSUME IInv, TypeOK', VertexKept
  PROVE  \A v : (IsOwn(v) => IsOwn(v)') /\ (IsWitness(v) => IsWitness(v)')
<1>1. /\ Len(vertex) \in Nat /\ DOMAIN vertex = 1..Len(vertex)
      /\ Len(vertex') \in Nat /\ DOMAIN vertex' = 1..Len(vertex')
  <2>1. vertex' \in Seq(Vertex)
    BY Zenon DEF TypeOK
  <2> QED BY <2>1, Types
<1>2. DOMAIN vertex \subseteq DOMAIN vertex'
  BY <1>1 DEF VertexKept
<1> QED BY <1>2, Zenon DEF VertexKept, IsOwn, IsWitness

\* Every step keeps what the channels and loops hold: own events on the way to
\* MonitorLoop, witnesses on the way to RoundLoop.
LEMMA StepChannels == IInv /\ [Next]_vars => SelfIsOwn' /\ TriggerIsWitness'
<1> SUFFICES ASSUME IInv, [Next]_vars PROVE SelfIsOwn' /\ TriggerIsWitness'
  BY Zenon
<1> DEFINE OwnThen(v) == v \in DOMAIN vertex' /\ vertex'[v].seqNum = Own
           WitnessThen(v) == v \in DOMAIN vertex' /\ vertex'[v].witness \in {Witness, WitnessLocal}
           LocalOwn == \A v \in DOMAIN vertex : vertex[v].witness = WitnessLocal => vertex[v].seqNum = Own
           LocalOwnThen == \A v \in DOMAIN vertex' : vertex'[v].witness = WitnessLocal => vertex'[v].seqNum = Own
           Senders(S) == \A x \in S : (x[1] = "self" => OwnThen(x[2])) /\ (x[1] = "trigger" => WitnessThen(x[2]))
           Self(s) == \A k \in DOMAIN s : OwnThen(s[k])
           Trigger(s) == \A k \in DOMAIN s : WitnessThen(s[k])
           Mon(m) == (m.pc \in {"found", "trigger"} => OwnThen(m.starter)) /\ (m.pc = "trigger" => WitnessThen(m.starter))
<1>0. /\ TypeOK' /\ VertexKept /\ LocalOwn
      /\ \A v : (IsOwn(v) => OwnThen(v)) /\ (IsWitness(v) => WitnessThen(v))
  BY StepKept, StillSo, Zenon DEF IInv, SelfIsOwn, IsOwn, IsWitness
<1>1. Senders(senders) /\ Self(SelfEventCreated) /\ Self(witnessL) /\ Trigger(roundTrigger) /\ Mon(mon)
  BY <1>0, Zenon DEF IInv, SelfIsOwn, TriggerIsWitness
<1>2. ASSUME Senders(senders'), Self(SelfEventCreated'), Self(witnessL'), Trigger(roundTrigger'), Mon(mon'),
             LocalOwnThen
      PROVE  SelfIsOwn' /\ TriggerIsWitness'
  BY <1>2, Zenon DEF SelfIsOwn, TriggerIsWitness, IsOwn, IsWitness
<1>3. ASSUME UNCHANGED vertex PROVE LocalOwnThen
  BY <1>0, <1>3, Zenon
<1> HIDE DEF Senders, Self, Trigger, Mon, LocalOwnThen
<1>4. ASSUME NEW i \in Slot, NEW t \in {0, Normal, Witness}, NEW q \in Nat, Filed(i, t, q),
             currentIdx' = currentIdx
      PROVE  LocalOwnThen /\ (i = Own => OwnThen(Len(vertex) + 1))
  <2>1. /\ Len(vertex') = Len(vertex) + 1 /\ vertex'[Len(vertex) + 1].seqNum = i
        /\ \A v \in DOMAIN vertex : vertex'[v] = vertex[v]
        /\ vertex'[Len(vertex) + 1].witness # WitnessLocal /\ vertex' \in Seq(Vertex)
    BY <1>4, FiledKept, Zenon
  <2>2. Len(vertex) \in Nat /\ DOMAIN vertex = 1..Len(vertex) /\ DOMAIN vertex' = 1..Len(vertex')
    BY <2>1, Types
  <2>3. \A v \in DOMAIN vertex' : v \in DOMAIN vertex \/ v = Len(vertex) + 1
    BY <2>1, <2>2
  <2>4. Len(vertex) + 1 \in DOMAIN vertex'
    BY <2>1, <2>2
  <2> QED BY <1>0, <2>1, <2>3, <2>4, Zenon DEF LocalOwnThen
<1>5. ASSUME NEW s \in Seq(Nat), NEW v \in Nat
       PROVE  /\ Self(s) /\ OwnThen(v) => Self(Append(s, v))
              /\ Trigger(s) /\ WitnessThen(v) => Trigger(Append(s, v))
  <2>1. \A k \in DOMAIN Append(s, v) : (k \in DOMAIN s /\ Append(s, v)[k] = s[k]) \/ Append(s, v)[k] = v
    BY Appended
  <2> QED BY <2>1, Zenon DEF Self, Trigger
<1>6. ASSUME NEW i \in Slot, NEW t \in {Normal, Witness}, NEW q \in 0..MaxRound, AddRemote(i, t, q)
      PROVE  SelfIsOwn' /\ TriggerIsWitness'
  <2>1. q \in Nat /\ Filed(i, t, q) /\ currentIdx' = currentIdx
    BY <1>6, RoundAssumption DEF AddRemote
  <2>2. LocalOwnThen
    BY <1>4, <2>1, Zenon
  <2> QED BY <1>1, <1>2, <1>6, <2>2, Zenon DEF AddRemote, chans
<1>7. ASSUME NEW t \in {0, Normal, Witness}, AddOwn(t) PROVE SelfIsOwn' /\ TriggerIsWitness'
  <2>1. Filed(Own, t, ownRoundID) /\ currentIdx' = currentIdx /\ ownRoundID \in Nat /\ Own \in Slot
    BY <1>7, Types, RoundAssumption DEF AddOwn, Own, Slot
  <2>2. LocalOwnThen /\ OwnThen(Len(vertex) + 1)
    BY <1>4, <2>1, Zenon
  <2>3. Senders(senders')
    BY <1>1, <1>7, <2>2 DEF AddOwn, Senders
  <2> QED BY <1>1, <1>2, <1>7, <2>2, <2>3, Zenon DEF AddOwn
<1>8. CASE ComposeEvent
  BY <1>1, <1>2, <1>3, <1>8, Zenon DEF ComposeEvent, chans
<1>9. ASSUME NEW v \in 1..MaxVertex, AddAgain(v) PROVE SelfIsOwn' /\ TriggerIsWitness'
  <2>1. v \in DOMAIN vertex /\ vertex' = [vertex EXCEPT ![v].witness = Witness]
    BY <1>9, Zenon DEF AddAgain
  <2>2. /\ DOMAIN vertex' = DOMAIN vertex /\ vertex'[v].witness = Witness
        /\ \A u \in DOMAIN vertex \ {v} : vertex'[u] = vertex[u]
    BY <2>1, Changed, Zenon
  <2>3. LocalOwnThen
    BY <1>0, <2>1, <2>2 DEF LocalOwnThen, Witness, WitnessLocal
  <2>4. Senders(senders')
    BY <1>1, <1>9, <2>1, <2>2 DEF AddAgain, Senders
  <2> QED BY <1>1, <1>2, <1>9, <2>3, <2>4, Zenon DEF AddAgain
<1>10. ASSUME NEW v \in 1..MaxVertex, SendSelf(v) PROVE SelfIsOwn' /\ TriggerIsWitness'
  <2>1. OwnThen(v) /\ Senders(senders')
    BY <1>1, <1>10, Zenon DEF SendSelf, Senders
  <2>2. Self(SelfEventCreated')
    BY <1>1, <1>10, <1>5, <2>1, Types, Zenon DEF SendSelf
  <2> QED BY <1>1, <1>2, <1>3, <1>10, <2>1, <2>2, Zenon DEF SendSelf, queue
<1>11. ASSUME NEW v \in 1..MaxVertex, SendTrigger(v) PROVE SelfIsOwn' /\ TriggerIsWitness'
  <2>1. WitnessThen(v) /\ Senders(senders')
    BY <1>1, <1>11, Zenon DEF SendTrigger, Senders
  <2>2. Trigger(roundTrigger')
    BY <1>1, <1>11, <1>5, <2>1, Types, Zenon DEF SendTrigger
  <2> QED BY <1>1, <1>2, <1>3, <1>11, <2>1, <2>2, Zenon DEF SendTrigger, queue
<1>12. CASE RoundLoop
  <2>1. Trigger(roundTrigger')
    BY <1>1, <1>12, Received, Types, SMTT(30) DEF RoundLoop, Trigger
  <2> QED BY <1>1, <1>2, <1>3, <1>12, <2>1, Zenon DEF RoundLoop
<1>13. CASE SendConsensus \/ ConsensusShow
  BY <1>1, <1>2, <1>3, <1>13, Zenon DEF SendConsensus, ConsensusShow, queue
<1>14. CASE TakeWitnessL
  <2>1. Self(witnessL')
    <3>1. witnessL # <<>> /\ witnessL' = Tail(witnessL) /\ witnessL \in Seq(Nat)
      BY <1>14, Types, Zenon DEF TakeWitnessL
    <3>2. \A k \in DOMAIN witnessL' : k + 1 \in DOMAIN witnessL /\ witnessL'[k] = witnessL[k + 1]
      BY <3>1, Received, Zenon
    <3> QED BY <1>1, <3>2, Zenon DEF Self
  <2> QED BY <1>1, <1>2, <1>3, <1>14, <2>1, Zenon DEF TakeWitnessL, queue
<1>15. CASE MonitorFront
  <2>1. Mon(mon')
    BY <1>15, Types, Zenon DEF MonitorFront, Mon
  <2> QED BY <1>1, <1>2, <1>3, <1>15, <2>1, Zenon DEF MonitorFront, queue, chans
<1>16. CASE MonitorRecv
  <2>1. Self(SelfEventCreated') /\ OwnThen(Head(SelfEventCreated))
    <3>1. SelfEventCreated # <<>> /\ SelfEventCreated' = Tail(SelfEventCreated) /\ SelfEventCreated \in Seq(Nat)
      BY <1>16, Types, Zenon DEF MonitorRecv
    <3>2. /\ Head(SelfEventCreated) = SelfEventCreated[1] /\ 1 \in DOMAIN SelfEventCreated
          /\ \A k \in DOMAIN SelfEventCreated' :
                k + 1 \in DOMAIN SelfEventCreated /\ SelfEventCreated'[k] = SelfEventCreated[k + 1]
      BY <3>1, Received, Zenon
    <3> QED BY <1>1, <3>2, Zenon DEF Self
  <2>2. Mon(mon')
    BY <1>16, <2>1, Types, Zenon DEF MonitorRecv, Mon
  <2> QED BY <1>1, <1>2, <1>3, <1>16, <2>1, <2>2, Zenon DEF MonitorRecv, queue
<1>17. CASE MonitorWitness
  <2>1. /\ mon.starter \in DOMAIN vertex /\ vertex' = [vertex EXCEPT ![mon.starter].witness = WitnessLocal]
        /\ IsOwn(mon.starter)
    BY <1>17, Zenon DEF MonitorWitness, IInv, SelfIsOwn, IsOwn
  <2>2. /\ DOMAIN vertex' = DOMAIN vertex /\ vertex'[mon.starter].witness = WitnessLocal
        /\ \A u \in DOMAIN vertex \ {mon.starter} : vertex'[u] = vertex[u]
    BY <2>1, Changed, Zenon
  <2>3. OwnThen(mon.starter) /\ WitnessThen(mon.starter)
    BY <1>0, <2>1, <2>2, Zenon
  <2>4. LocalOwnThen
    BY <1>0, <2>2, <2>3, Zenon DEF LocalOwnThen
  <2>5. Mon(mon')
    <3>1. mon'.starter = mon.starter
      BY <1>17, Types, Zenon DEF MonitorWitness
    <3> QED BY <2>3, <3>1, Zenon DEF Mon
  <2>6. Self(witnessL')
    <3>1. mon.starter \in Nat /\ witnessL \in Seq(Nat)
      BY Types, Zenon
    <3> QED BY <1>1, <1>5, <1>17, <2>3, <3>1, Zenon DEF MonitorWitness
  <2> QED BY <1>1, <1>2, <1>17, <2>4, <2>5, <2>6, Zenon DEF MonitorWitness
<1>18. CASE MonitorTrigger
  <2>1. Mon(mon')
    BY <1>18, Types, Zenon DEF MonitorTrigger, Restarted, Mon
  <2>2. Trigger(roundTrigger')
    <3>1. mon.starter \in Nat /\ WitnessThen(mon.starter) /\ roundTrigger \in Seq(Nat)
      BY <1>1, <1>18, Types, Zenon DEF MonitorTrigger, Mon
    <3> QED BY <1>1, <1>18, <1>5, <3>1, Zenon DEF MonitorTrigger
  <2> QED BY <1>1, <1>2, <1>3, <1>18, <2>1, <2>2, Zenon DEF MonitorTrigger, queue
<1>19. CASE UNCHANGED vars
  BY <1>1, <1>2, <1>3, <1>19, Zenon DEF vars, queue, chans
<1> QED
  BY <1>6, <1>7, <1>8, <1>9, <1>10, <1>11, <1>12, <1>13, <1>15, <1>16, <1>17, <1>18, <1>19, <1>14, Zenon DEF Next, Loops

\* What RoundLoop does with the vertex v that it receives: it files it, in the
\* round idx that it may have started or an older one, or in none.
LEMMA RoundLoopFiles ==
  ASSUME IInv, RoundLoop
  PROVE  \E v \in DOMAIN vertex, id \in Nat :
           /\ IsWitness(v) /\ vertex[v].seqNum \in Slot
           /\ vertex[v].seqNum = Own \/ vertex[v].RoundID = id
           /\ currentIdx' \in {currentIdx, currentIdx + 1} /\ vertex' = vertex
           /\ \A r \in 0..currentIdx', i \in Slot :
                 witnesses'[r][i] = IF r = id /\ i = vertex[v].seqNum THEN v
                                    ELSE IF r \in 0..currentIdx THEN witnesses[r][i] ELSE None
           /\ \/ id \in 0..currentIdx' /\ ready' = id /\ \A i \in Slot : witnesses'[id][i] # None
              \/ ready' = -1
<1> DEFINE v   == Head(roundTrigger)
           new == StartsRound(v)
           id  == IF new THEN currentIdx + 1 ELSE RoundIDWith(v, ownRoundID)
           idx == IF new THEN currentIdx + 1 ELSE currentIdx
           all == [r \in 0..idx |-> IF r \in 0..currentIdx THEN witnesses[r] ELSE NoWitness]
           ws  == [all[id] EXCEPT ![vertex[v].seqNum] = v]
<1>1. /\ currentIdx' = idx /\ roundTrigger # <<>> /\ ready = -1 /\ vertex' = vertex
      /\ IF id \in 0..idx
         THEN /\ witnesses' = [all EXCEPT ![id] = ws]
              /\ ready' = IF AllCome(ws) THEN id ELSE -1
         ELSE witnesses' = all /\ UNCHANGED ready
  BY Zenon DEF RoundLoop
<1>2. v = roundTrigger[1] /\ 1 \in DOMAIN roundTrigger
  BY <1>1, Received, Types, Zenon
<1>3. IsWitness(v) /\ v \in DOMAIN vertex
  BY <1>2, Zenon DEF IInv, TriggerIsWitness, IsWitness
<1>4. vertex[v].seqNum \in Slot /\ RoundIDWith(v, ownRoundID) \in Nat
  BY <1>3, Types, Zenon DEF Vertex, RoundIDWith
<1> HIDE DEF v
<1>5. vertex[v].seqNum = Own \/ vertex[v].RoundID = id
  <2>1. vertex[v].seqNum # Own => vertex[v].witness # WitnessLocal /\ RoundIDWith(v, ownRoundID) = vertex[v].RoundID
    BY <1>3, Zenon DEF IInv, SelfIsOwn, RoundIDWith
  <2> QED BY <2>1, Zenon DEF StartsRound
<1> HIDE DEF new
<1>6. /\ idx \in Nat /\ id \in Nat /\ currentIdx <= idx /\ currentIdx \in Nat
      /\ idx \in {currentIdx, currentIdx + 1}
  <2>1. currentIdx \in Nat /\ currentIdx + 1 \in Nat
    BY Types, SMTT(30)
  <2>2. idx \in {currentIdx, currentIdx + 1} /\ id \in {currentIdx + 1, RoundIDWith(v, ownRoundID)}
    BY Zenon
  <2> HIDE DEF idx, id
  <2> QED BY <1>4, <2>1, <2>2
<1>7. /\ all \in [0..idx -> [Slot -> Nat]]
      /\ \A r \in 0..idx, i \in Slot : all[r][i] = IF r \in 0..currentIdx THEN witnesses[r][i] ELSE None
  <2>1. NoWitness \in [Slot -> Nat] /\ witnesses \in [0..currentIdx -> [Slot -> Nat]]
    BY Types, Zenon DEF NoWitness, None
  <2> HIDE DEF idx
  <2> QED BY <1>6, <2>1, Zenon DEF NoWitness, None
<1> HIDE DEF id, idx, all
<1>8. ASSUME NEW r \in 0..idx, NEW i \in Slot
      PROVE  witnesses'[r][i] = IF r = id /\ i = vertex[v].seqNum THEN v ELSE all[r][i]
  <2>1. CASE id \in 0..idx
    <3>1. witnesses' = [all EXCEPT ![id] = ws]
      BY <1>1, <2>1, Zenon
    <3> QED BY <1>4, <1>7, <2>1, <3>1, Zenon
  <2>2. CASE id \notin 0..idx
    <3>1. witnesses' = all
      BY <1>1, <2>2, Zenon
    <3> QED BY <2>2, <3>1, Zenon
  <2> QED BY <2>1, <2>2, Zenon
<1>9. \/ id \in 0..idx /\ ready' = id /\ \A i \in Slot : witnesses'[id][i] # None
      \/ ready' = -1
  <2>1. CASE id \in 0..idx
    <3>1. /\ witnesses' = [all EXCEPT ![id] = ws]
          /\ (ready' = id /\ AllCome(ws)) \/ ready' = -1
      BY <1>1, <2>1, Zenon
    <3>2. witnesses'[id] = ws
      BY <1>7, <2>1, <3>1, Zenon
    <3> QED BY <2>1, <3>1, <3>2, Zenon DEF AllCome
  <2>2. CASE id \notin 0..idx
    BY <1>1, <2>2, Zenon
  <2> QED BY <2>1, <2>2, Zenon
<1>10. \A r \in 0..currentIdx', i \in Slot :
          witnesses'[r][i] = IF r = id /\ i = vertex[v].seqNum THEN v
                             ELSE IF r \in 0..currentIdx THEN witnesses[r][i] ELSE None
  BY <1>1, <1>7, <1>8, SMTT(30)
<1>11. currentIdx' \in {currentIdx, currentIdx + 1} /\ vertex' = vertex
  BY <1>1, <1>6, Zenon
<1>12. \/ id \in 0..currentIdx' /\ ready' = id /\ \A i \in Slot : witnesses'[id][i] # None
       \/ ready' = -1
  BY <1>1, <1>9, Zenon
<1>13. v \in DOMAIN vertex /\ id \in Nat
  BY <1>3, <1>6, Zenon
<1> HIDE DEF ws
<1> QED BY <1>3, <1>4, <1>5, <1>10, <1>11, <1>12, <1>13, Zenon

\* Every step keeps what the slots hold.
LEMMA StepSlots == IInv /\ [Next]_vars => SlotHoldsVertex' /\ SlotHoldsWitness'
<1> SUFFICES ASSUME IInv, [Next]_vars PROVE SlotHoldsVertex' /\ SlotHoldsWitness'
  BY Zenon
<1> DEFINE Right(r, i, w) ==
             /\ w \in 0..Len(vertex')
             /\ w # None => /\ vertex'[w].seqNum = i /\ vertex'[w].witness \in {Witness, WitnessLocal}
                            /\ i = Own \/ r = 0 \/ vertex'[w].RoundID = r
<1>0. /\ VertexKept /\ SlotHoldsVertex /\ SlotHoldsWitness
      /\ Len(vertex) \in Nat /\ DOMAIN vertex = 1..Len(vertex) /\ currentIdx \in Nat
  BY StepKept, Types, Zenon DEF IInv
<1>1. ASSUME NEW r \in 0..currentIdx, NEW i \in Slot PROVE Right(r, i, witnesses[r][i])
  <2> DEFINE w == witnesses[r][i]
  <2>1. w \in 0..Len(vertex)
    BY <1>0, Zenon DEF SlotHoldsVertex
  <2>2. w \in 0..Len(vertex') /\ (w # None => w \in DOMAIN vertex)
    <3>1. Len(vertex') \in Nat /\ Len(vertex) <= Len(vertex')
      <4>1. vertex' \in Seq(Vertex)
        BY StepKept, Zenon DEF TypeOK
      <4> QED BY <1>0, <4>1 DEF VertexKept
    <3> QED BY <1>0, <2>1, <3>1, SMTT(30) DEF None
  <2>3. w # None => /\ vertex[w].seqNum = i /\ vertex[w].witness \in {Witness, WitnessLocal}
                    /\ i = Own \/ r = 0 \/ vertex[w].RoundID = r
    BY <1>0, Zenon DEF SlotHoldsWitness
  <2> QED BY <1>0, <2>2, <2>3, Zenon DEF VertexKept
<1>2. ASSUME UNCHANGED <<currentIdx, witnesses>> PROVE SlotHoldsVertex' /\ SlotHoldsWitness'
  BY <1>1, <1>2, Zenon DEF SlotHoldsVertex, SlotHoldsWitness
<1>3. ASSUME NEW i \in Slot, NEW t \in {Normal, Witness}, NEW q \in 0..MaxRound, AddRemote(i, t, q)
      PROVE  SlotHoldsVertex' /\ SlotHoldsWitness'
  <2>1. q \in Nat /\ Filed(i, t, q) /\ currentIdx' = currentIdx
    BY <1>3, RoundAssumption DEF AddRemote
  <2> QED BY <2>1, FiledKept, Zenon
<1>4. ASSUME NEW t \in {0, Normal, Witness}, AddOwn(t) PROVE SlotHoldsVertex' /\ SlotHoldsWitness'
  <2>1. Filed(Own, t, ownRoundID) /\ currentIdx' = currentIdx /\ ownRoundID \in Nat /\ Own \in Slot
    BY <1>4, Types, RoundAssumption DEF AddOwn, Own, Slot
  <2> QED BY <2>1, FiledKept, Zenon
<1>5. CASE RoundLoop
  <2>1. PICK v \in DOMAIN vertex, id \in Nat :
           /\ IsWitness(v) /\ vertex[v].seqNum \in Slot
           /\ vertex[v].seqNum = Own \/ vertex[v].RoundID = id
           /\ currentIdx' \in {currentIdx, currentIdx + 1} /\ vertex' = vertex
           /\ \A r \in 0..currentIdx', i \in Slot :
                 witnesses'[r][i] = IF r = id /\ i = vertex[v].seqNum THEN v
                                    ELSE IF r \in 0..currentIdx THEN witnesses[r][i] ELSE None
    BY <1>5, RoundLoopFiles, Zenon
  <2>2. ASSUME NEW r \in 0..currentIdx', NEW i \in Slot PROVE Right(r, i, witnesses'[r][i])
    <3> DEFINE w == witnesses'[r][i]
    <3>1. CASE r = id /\ i = vertex[v].seqNum
      <4>1. w = v
        BY <2>1, <3>1, Zenon
      <4>2. v \in 0..Len(vertex)
        BY <1>0, SMTT(30)
      <4> QED BY <2>1, <3>1, <4>1, <4>2, Zenon DEF IsWitness
    <3>2. CASE ~(r = id /\ i = vertex[v].seqNum) /\ r \in 0..currentIdx
      <4>1. w = witnesses[r][i]
        BY <2>1, <3>2, Zenon
      <4> QED BY <1>1, <3>2, <4>1, SMTT(30)
    <3>3. CASE ~(r = id /\ i = vertex[v].seqNum) /\ r \notin 0..currentIdx
      <4>1. w = None
        BY <2>1, <3>3, Zenon
      <4> QED BY <1>0, <2>1, <4>1, SMTT(30) DEF None
    <3> QED BY <3>1, <3>2, <3>3, Zenon
  <2> QED BY <2>2, Zenon DEF SlotHoldsVertex, SlotHoldsWitness
<1>6. CASE ComposeEvent
  BY <1>2, <1>6, Zenon DEF ComposeEvent
<1>7. ASSUME NEW v \in 1..MaxVertex, AddAgain(v) \/ SendSelf(v) \/ SendTrigger(v)
      PROVE  SlotHoldsVertex' /\ SlotHoldsWitness'
  BY <1>2, <1>7, Zenon DEF AddAgain, SendSelf, SendTrigger, queue
<1>8. CASE SendConsensus \/ ConsensusShow \/ TakeWitnessL
  BY <1>2, <1>8, Zenon DEF SendConsensus, ConsensusShow, TakeWitnessL, queue
<1>9. CASE MonitorFront \/ MonitorRecv \/ MonitorWitness \/ MonitorTrigger
  BY <1>2, <1>9, Zenon DEF MonitorFront, MonitorRecv, MonitorWitness, MonitorTrigger, queue
<1>10. CASE UNCHANGED vars
  BY <1>2, <1>10, Zenon DEF vars, queue
<1> QED
  BY <1>3, <1>4, <1>5, <1>6, <1>7, <1>8, <1>9, <1>10, Zenon DEF Next, Loops

\* Every step keeps the rounds complete that ConsensusShow is or will be told of.
LEMMA StepTold == IInv /\ [Next]_vars => ToldExists' /\ ConsensusComplete'
<1> SUFFICES ASSUME IInv, [Next]_vars PROVE ToldExists' /\ ConsensusComplete'
  BY Zenon
<1> DEFINE Complete(r) == r \in 0..currentIdx' /\ \A i \in Slot : witnesses'[r][i] # None
           AllComplete(s) == \A k \in DOMAIN s : Complete(s[k])
<1>1. /\ AllComplete(consensusTrigger) /\ (ready # -1 => Complete(ready))
  <2>1. \A r \in 0..currentIdx : (\A i \in Slot : witnesses[r][i] # None) => Complete(r)
    <3>1. SlotsKept /\ currentIdx \in Nat /\ currentIdx' \in Nat
      BY StepKept, Types, Zenon DEF TypeOK
    <3>2. \A r \in 0..currentIdx : r \in 0..currentIdx'
      BY <3>1 DEF SlotsKept
    <3> QED BY <3>1, <3>2, Zenon DEF SlotsKept
  <2> HIDE DEF Complete
  <2>2. \A k \in DOMAIN consensusTrigger : consensusTrigger[k] \in 0..currentIdx /\ consensusTrigger[k] \in Elements(consensusTrigger)
    BY Zenon DEF IInv, ToldExists, Elements
  <2>3. AllComplete(consensusTrigger)
    BY <2>1, <2>2, Zenon DEF IInv, ConsensusComplete
  <2>4. ASSUME ready # -1 PROVE Complete(ready)
    <3>1. ready \in 0..currentIdx /\ ready \in {ready} \ {-1}
      BY <2>4, Zenon DEF IInv, ToldExists
    <3> QED BY <2>1, <3>1, Zenon DEF IInv, ConsensusComplete
  <2> QED BY <2>3, <2>4, Zenon
<1>2. ASSUME AllComplete(consensusTrigger'), ready' # -1 => Complete(ready')
      PROVE  ToldExists' /\ ConsensusComplete'
  BY <1>2, Zenon DEF ToldExists, ConsensusComplete, Elements
<1> HIDE DEF Complete
<1>3. ASSUME UNCHANGED <<consensusTrigger, ready>> PROVE ToldExists' /\ ConsensusComplete'
  BY <1>1, <1>2, <1>3, Zenon
<1>4. CASE RoundLoop
  <2>1. consensusTrigger' = consensusTrigger
    BY <1>4, Zenon DEF RoundLoop
  <2>2. ready' # -1 => Complete(ready')
    BY <1>4, RoundLoopFiles, Zenon DEF Complete
  <2> QED BY <1>1, <1>2, <2>1, <2>2, Zenon
<1>5. CASE SendConsensus
  <2>1. /\ ready # -1 /\ consensusTrigger' = Append(consensusTrigger, ready) /\ ready' = -1
        /\ consensusTrigger \in Seq(Nat) /\ ready \in Nat
    BY <1>5, Types, Zenon DEF SendConsensus
  <2>2. \A k \in DOMAIN consensusTrigger' :
           (k \in DOMAIN consensusTrigger /\ consensusTrigger'[k] = consensusTrigger[k]) \/ consensusTrigger'[k] = ready
    BY <2>1, Appended
  <2>3. AllComplete(consensusTrigger')
    BY <1>1, <2>1, <2>2, Zenon
  <2> QED BY <1>2, <2>1, <2>3, Zenon
<1>6. CASE ConsensusShow
  <2>1. /\ consensusTrigger # <<>> /\ consensusTrigger' = Tail(consensusTrigger) /\ ready' = ready
        /\ consensusTrigger \in Seq(Nat)
    BY <1>6, Types, Zenon DEF ConsensusShow
  <2>2. \A k \in DOMAIN consensusTrigger' :
           k + 1 \in DOMAIN consensusTrigger /\ consensusTrigger'[k] = consensusTrigger[k + 1]
    BY <2>1, Received, Zenon
  <2>3. AllComplete(consensusTrigger')
    BY <1>1, <2>2, Zenon
  <2> QED BY <1>1, <1>2, <2>1, <2>3, Zenon
<1>7. ASSUME NEW i \in Slot, NEW t \in {Normal, Witness}, NEW q \in 0..MaxRound, AddRemote(i, t, q)
      PROVE  ToldExists' /\ ConsensusComplete'
  BY <1>3, <1>7, Zenon DEF AddRemote, chans
<1>8. ASSUME NEW t \in {0, Normal, Witness}, AddOwn(t) PROVE ToldExists' /\ ConsensusComplete'
  BY <1>3, <1>8, Zenon DEF AddOwn
<1>9. CASE ComposeEvent
  BY <1>3, <1>9, Zenon DEF ComposeEvent, chans
<1>10. ASSUME NEW v \in 1..MaxVertex, AddAgain(v) \/ SendSelf(v) \/ SendTrigger(v)
       PROVE  ToldExists' /\ ConsensusComplete'
  BY <1>3, <1>10, Zenon DEF AddAgain, SendSelf, SendTrigger
<1>11. CASE MonitorFront \/ MonitorRecv \/ MonitorWitness \/ MonitorTrigger \/ TakeWitnessL
  BY <1>3, <1>11, Zenon DEF MonitorFront, MonitorRecv, MonitorWitness, MonitorTrigger, TakeWitnessL, chans
<1>12. CASE UNCHANGED vars
  BY <1>3, <1>12, Zenon DEF vars, chans
<1> QED
  BY <1>4, <1>5, <1>6, <1>7, <1>8, <1>9, <1>10, <1>11, <1>12, Zenon DEF Next, Loops

\* Every step keeps the inductive invariant.
LEMMA StepIInv == IInv /\ [Next]_vars => IInv'
  BY StepKept, StepChannels, StepSlots, StepTold, Zenon DEF IInv

----------------------------------------------------------------------------
\* The inductive invariant: own events only on the way to MonitorLoop, witnesses only
\* on the way to RoundLoop, and rounds that ConsensusShow is told of that exist.
THEOREM RoundInv == Spec => []IInv
  BY InitIInv, StepIInv, PTL DEF Spec

\* RoundLoop sends a round to ConsensusShow only when it has a witness of every
\* node, and it still has them when ConsensusShow receives it, whatever AddEvent
\* and RoundLoop file in between.
THEOREM ShownComplete == Spec => []ConsensusComplete
<1>1. IInv => ConsensusComplete
  BY Zenon DEF IInv
<1> QED BY <1>1, RoundInv, PTL

\* A slot of a round holds a witness of its own node and, after the oldest round,
\* of that round, though AddEvent files vertices on another goroutine than RoundLoop
\* and starts no round.
THEOREM SlotsRight == Spec => []SlotHoldsWitness
<1>1. IInv => SlotHoldsWitness
  BY Zenon DEF IInv
<1> QED BY <1>1, RoundInv, PTL

\* Nothing is taken back: no step removes a round, empties a slot that was filled,
\* moves a vertex to another column or round, or unmakes a witness.
THEOREM NothingTakenBack == Spec => [][VertexKept /\ SlotsKept]_vars
<1>1. IInv /\ [Next]_vars => [VertexKept /\ SlotsKept]_vars
  BY StepKept, Zenon
<1> QED BY <1>1, RoundInv, PTL DEF Spec
----------------------------------------------------------------------------
(* One node: EventHandle, whose variables et and ty keep their values from  *)
(* turn to turn, uses the rounds as module RoundManager allows.             *)

PeerEvent == {EventOf(c) : c \in Copy}

NodeTypeOK ==
    /\ Len(vertex) <= MaxVertex
    /\ eventNorm \in Seq(PeerEvent) /\ witnessR \in Seq(PeerEvent)
    /\ at \in [ID -> Nat]

\* The event of a peer is never left in et with a type other than that of an event
\* of a peer, so no goroutine AddEvent gets it with another.
CallsTyped ==
    /\ et.seqNum = Own \/ ty \in {Normal, Witness}
    /\ \A x \in calls : x[1].seqNum = Own \/ x[2] \in {Normal, Witness}

\* Every own vertex is of an event that the node composed.
OwnComposed == \A v \in DOMAIN vertex : vertex[v].seqNum = Own => \E k \in OwnID : at[k] = v

NodeInv == IInv /\ NodeTypeOK /\ CallsTyped /\ OwnComposed

\* The event that EventHandle broadcasts as a local witness is the one that
\* MonitorLoop has found.
AnnouncesFound == [][RecvWitnessL => at[et'.id] = Head(witnessL) /\ announced' = <<et'.id, Witness>>]_nodeVars

----------------------------------------------------------------------------
\* What NodeAssumption says of an event that is not an own one.
LEMMA PeerEvents ==
  /\ \A e \in Event : e.seqNum # Own => e.seqNum \in Slot /\ e.RoundID \in 0..MaxRound
  /\ \A e \in PeerEvent : e \in Event /\ e.id \in Nat /\ e.id > MaxOwn /\ e # NoEvent
  /\ \A e \in Event : e.id \in ID /\ (e.seqNum = Own <=> e.id \in OwnID)
  BY NodeAssumption DEF Event, PeerEvent, OwnEvent, EventOf, OwnID, ID, NoEvent

\* The steps of the rounds that add no vertex.
NoNewVertex ==
    TakeWitnessL \/ ComposeEvent \/ Loops \/ (\E v \in 1..MaxVertex : AddAgain(v) \/ SendSelf(v) \/ SendTrigger(v)) \/ UNCHANGED vars

\* None of them changes how many vertices there are.
LEMMA SameLength ==
  ASSUME IInv, NoNewVertex
  PROVE  Len(vertex') = Len(vertex)
<1> USE DEF queue, chans
<1>1. ASSUME NEW v \in 1..MaxVertex, AddAgain(v) PROVE Len(vertex') = Len(vertex)
  BY <1>1, Changed, Zenon DEF AddAgain
<1>2. CASE MonitorWitness
  <2>1. mon.starter \in DOMAIN vertex
    BY <1>2, Zenon DEF MonitorWitness, IInv, SelfIsOwn, IsOwn
  <2> QED BY <1>2, <2>1, Changed, Zenon DEF MonitorWitness
<1>3. CASE UNCHANGED vertex
  BY <1>3, Zenon
<1>4. ASSUME NEW v \in 1..MaxVertex, SendSelf(v) \/ SendTrigger(v) PROVE Len(vertex') = Len(vertex)
  BY <1>3, <1>4, Zenon DEF SendSelf, SendTrigger
<1>5. CASE TakeWitnessL \/ ComposeEvent \/ RoundLoop \/ SendConsensus \/ ConsensusShow
  BY <1>3, <1>5, Zenon DEF TakeWitnessL, ComposeEvent, RoundLoop, SendConsensus, ConsensusShow
<1>6. CASE MonitorFront \/ MonitorRecv \/ MonitorTrigger \/ UNCHANGED vars
  BY <1>3, <1>6, Zenon DEF MonitorFront, MonitorRecv, MonitorTrigger, vars
<1> QED BY <1>1, <1>2, <1>4, <1>5, <1>6, Zenon DEF NoNewVertex, Loops

\* The steps of a node are steps of the rounds, or leave the rounds alone.
LEMMA RoundStep == NodeInv /\ [NodeNext]_nodeVars => [Next]_vars
<1> SUFFICES ASSUME NodeInv, [NodeNext]_nodeVars PROVE [Next]_vars
  BY Zenon
<1>1. ASSUME NEW c \in Copy, Arrive(c) PROVE [Next]_vars
  BY <1>1, Zenon DEF Arrive
<1>2. CASE RecvNorm \/ RecvWitnessR \/ OverFlow \/ RecvRequest
  BY <1>2, Zenon DEF RecvNorm, RecvWitnessR, OverFlow, RecvRequest
<1>3. CASE RecvWitnessL \/ OnlyTime
  BY <1>3, Zenon DEF RecvWitnessL, OnlyTime, Next
<1>4. ASSUME NEW e \in Event, NEW t \in {0, Normal, Witness}, RunAddEvent(e, t) PROVE [Next]_vars
  <2>1. CASE at[e.id] # None
    <3>1. CASE t = Witness
      <4>1. AddAgain(at[e.id])
        BY <1>4, <2>1, <3>1, Zenon DEF RunAddEvent, Again
      <4>2. at[e.id] \in 1..MaxVertex
        <5>1. /\ at[e.id] \in DOMAIN vertex /\ DOMAIN vertex = 1..Len(vertex) /\ Len(vertex) \in Nat
              /\ Len(vertex) <= MaxVertex /\ MaxVertex \in Nat
          BY <4>1, Types, RoundAssumption, Zenon DEF AddAgain, NodeInv, NodeTypeOK
        <5> QED BY <5>1
      <4> QED BY <4>1, <4>2, Zenon DEF Next
    <3>2. CASE t # Witness
      BY <1>4, <2>1, <3>2, Zenon DEF RunAddEvent, Again
    <3> QED BY <3>1, <3>2, Zenon
  <2>2. CASE at[e.id] = None /\ e.seqNum = Own
    <3>1. AddOwn(t)
      BY <1>4, <2>2, Zenon DEF RunAddEvent
    <3> QED BY <3>1, Zenon DEF Next
  <2>3. CASE at[e.id] = None /\ e.seqNum # Own
    <3>1. AddRemote(e.seqNum, t, e.RoundID) /\ <<e, t>> \in calls
      BY <1>4, <2>3, Zenon DEF RunAddEvent
    <3>2. t \in {Normal, Witness}
      BY <2>3, <3>1, Zenon DEF NodeInv, CallsTyped
    <3>3. e.seqNum \in Slot /\ e.RoundID \in 0..MaxRound
      BY <2>3, PeerEvents, Zenon
    <3> QED BY <3>1, <3>2, <3>3, Zenon DEF Next
  <2> QED BY <2>1, <2>2, <2>3, Zenon
<1>5. CASE Rounds
  BY <1>5, Zenon DEF Rounds, Next
<1>6. CASE UNCHANGED nodeVars
  BY <1>6, Zenon DEF nodeVars
<1> QED BY <1>1, <1>2, <1>3, <1>4, <1>5, <1>6, Zenon DEF NodeNext, EventHandle

\* A step that adds no vertex to the graph and composes no event in it keeps what
\* is said of the graph.
LEMMA GraphKept ==
  ASSUME NodeInv, [Next]_vars, NoNewVertex, UNCHANGED at
  PROVE  Len(vertex') <= MaxVertex /\ OwnComposed'
<1>1. Len(vertex') = Len(vertex) /\ VertexKept /\ vertex' \in Seq(Vertex)
  BY SameLength, StepKept, Zenon DEF NodeInv, TypeOK
<1>2. DOMAIN vertex' = DOMAIN vertex
  BY <1>1, Types DEF NodeInv
<1>3. OwnComposed'
  BY <1>1, <1>2, Zenon DEF NodeInv, OwnComposed, VertexKept
<1> QED BY <1>1, <1>3, Zenon DEF NodeInv, NodeTypeOK

\* The end of a turn of EventHandle keeps what is said of calls.
LEMMA TurnTyped ==
  ASSUME NodeInv, Turn, et'.seqNum = Own \/ ty' \in {Normal, Witness}
  PROVE  CallsTyped'
<1>1. \A x \in calls' : x \in calls \/ x = <<et', ty'>>
  BY Zenon DEF Turn
<1>2. \A x \in calls' : x[1].seqNum = Own \/ x[2] \in {Normal, Witness}
  BY <1>1 DEF NodeInv, CallsTyped
<1> QED BY <1>2, Zenon DEF CallsTyped

\* The first event in a channel of events of peers is one, and so are the others.
LEMMA PeerChannel ==
  ASSUME NEW s \in Seq(PeerEvent)
  PROVE  /\ \A c \in Copy : Append(s, EventOf(c)) \in Seq(PeerEvent)
         /\ s # <<>> => Head(s) \in PeerEvent /\ Tail(s) \in Seq(PeerEvent)
<1>1. \A c \in Copy : EventOf(c) \in PeerEvent
  BY Zenon DEF PeerEvent
<1> QED BY <1>1

\* The first state of a node.
LEMMA InitNode == NewNode => NodeInv
<1> SUFFICES ASSUME NewNode PROVE NodeInv
  BY Zenon
<1>1. IInv
  BY InitIInv, Zenon DEF NewNode
<1>2. NodeTypeOK
  BY RoundAssumption, SMTT(30) DEF NewNode, NewRoundManager, NodeTypeOK, None
<1>3. CallsTyped
  BY Zenon DEF NewNode, CallsTyped, NoEvent
<1>4. OwnComposed
  BY SMTT(30) DEF NewNode, NewRoundManager, OwnComposed
<1> QED BY <1>1, <1>2, <1>3, <1>4, Zenon DEF NodeInv

\* What AddEvent of a new event does to the graph: it makes one vertex, and the
\* event is at that vertex from then on.
LEMMA Added ==
  ASSUME NodeInv, NEW e \in Event, NEW i \in Slot, NEW t \in {0, Normal, Witness}, NEW q \in Nat,
         Filed(i, t, q), currentIdx' = currentIdx, Len(vertex) < MaxVertex, i = Own <=> e.id \in OwnID,
         at[e.id] = None, at' = [at EXCEPT ![e.id] = Len(vertex) + 1]
  PROVE  Len(vertex') <= MaxVertex /\ at' \in [ID -> Nat] /\ OwnComposed'
<1>1. /\ Len(vertex') = Len(vertex) + 1 /\ vertex'[Len(vertex) + 1].seqNum = i
      /\ \A v \in DOMAIN vertex : vertex'[v] = vertex[v]
      /\ vertex' \in Seq(Vertex)
  BY FiledKept, Zenon DEF NodeInv
<1>2. Len(vertex) \in Nat /\ DOMAIN vertex = 1..Len(vertex) /\ e.id \in ID /\ at \in [ID -> Nat]
  BY Types, PeerEvents, Zenon DEF NodeInv, NodeTypeOK
<1>3. DOMAIN vertex' = 1..Len(vertex')
  BY <1>1, SMTT(30)
<1>4. \A v \in DOMAIN vertex' : (v \in DOMAIN vertex /\ v # None) \/ v = Len(vertex) + 1
  BY <1>1, <1>2, <1>3, SMTT(30) DEF None
<1>5. at' \in [ID -> Nat] /\ at'[e.id] = Len(vertex) + 1 /\ \A k \in ID : at[k] # None => at'[k] = at[k]
  BY <1>2, SMTT(30)
<1>6. OwnID \subseteq ID
  BY Zenon DEF ID
<1>7. OwnComposed'
  <2> SUFFICES ASSUME NEW v \in DOMAIN vertex', vertex'[v].seqNum = Own PROVE \E k \in OwnID : at'[k] = v
    BY Zenon DEF OwnComposed
  <2>1. CASE v \in DOMAIN vertex /\ v # None
    BY <1>1, <1>5, <1>6, <2>1, Zenon DEF NodeInv, OwnComposed
  <2>2. CASE v = Len(vertex) + 1
    BY <1>1, <1>5, <2>2, Zenon
  <2> QED BY <1>4, <2>1, <2>2, Zenon
<1>8. Len(vertex') <= MaxVertex
  BY <1>1, <1>2, RoundAssumption, SMTT(30)
<1> QED BY <1>5, <1>7, <1>8, Zenon

\* Every step of a node keeps the inductive invariant.
LEMMA StepNode == NodeInv /\ [NodeNext]_nodeVars => NodeInv'
<1> SUFFICES ASSUME NodeInv, [NodeNext]_nodeVars PROVE NodeInv'
  BY Zenon
<1>0. /\ [Next]_vars /\ IInv /\ IInv' /\ NodeTypeOK /\ CallsTyped
      /\ eventNorm \in Seq(PeerEvent) /\ witnessR \in Seq(PeerEvent) /\ at \in [ID -> Nat]
  BY RoundStep, StepIInv, Zenon DEF NodeInv, NodeTypeOK
<1>1. ASSUME NoNewVertex, UNCHANGED at, eventNorm' \in Seq(PeerEvent), witnessR' \in Seq(PeerEvent), CallsTyped'
      PROVE  NodeInv'
  BY <1>0, <1>1, GraphKept, Zenon DEF NodeInv, NodeTypeOK
<1>2. ASSUME NEW c \in Copy, Arrive(c) PROVE NodeInv'
  <2>1. eventNorm' \in Seq(PeerEvent) /\ witnessR' \in Seq(PeerEvent)
    BY <1>0, <1>2, PeerChannel, Zenon DEF Arrive
  <2>2. CallsTyped'
    BY <1>0, <1>2, Zenon DEF Arrive, loop, CallsTyped
  <2> QED BY <1>1, <1>2, <2>1, <2>2, Zenon DEF Arrive, NoNewVertex
<1>3. CASE RecvNorm
  <2>1. eventNorm' \in Seq(PeerEvent)
    BY <1>0, <1>3, PeerChannel, Zenon DEF RecvNorm
  <2>2. CallsTyped'
    BY <1>3, TurnTyped, Zenon DEF RecvNorm
  <2> QED BY <1>0, <1>1, <1>3, <2>1, <2>2, Zenon DEF RecvNorm, NoNewVertex
<1>4. CASE RecvWitnessR
  <2>1. witnessR' \in Seq(PeerEvent)
    BY <1>0, <1>4, PeerChannel, Zenon DEF RecvWitnessR
  <2>2. CallsTyped'
    BY <1>4, TurnTyped, Zenon DEF RecvWitnessR
  <2> QED BY <1>0, <1>1, <1>4, <2>1, <2>2, Zenon DEF RecvWitnessR, NoNewVertex
<1>5. CASE RecvWitnessL
  <2>1. CallsTyped'
    BY <1>5, TurnTyped, Zenon DEF RecvWitnessL, OwnEvent
  <2> QED BY <1>0, <1>1, <1>5, <2>1, Zenon DEF RecvWitnessL, NoNewVertex
<1>6. CASE OnlyTime
  <2>1. CallsTyped'
    BY <1>6, TurnTyped, Zenon DEF OnlyTime, OwnEvent
  <2> QED BY <1>0, <1>1, <1>6, <2>1, Zenon DEF OnlyTime, NoNewVertex
<1>7. CASE OverFlow \/ RecvRequest
  <2>1. CallsTyped'
    BY <1>0, <1>7, TurnTyped, Zenon DEF OverFlow, RecvRequest, CallsTyped, loop
  <2> QED BY <1>0, <1>1, <1>7, <2>1, Zenon DEF OverFlow, RecvRequest, NoNewVertex
<1>8. ASSUME NEW e \in Event, NEW t \in {0, Normal, Witness}, RunAddEvent(e, t) PROVE NodeInv'
  <2>1. CallsTyped' /\ UNCHANGED <<eventNorm, witnessR>>
    BY <1>0, <1>8, Zenon DEF RunAddEvent, CallsTyped, loop
  <2>2. CASE at[e.id] # None
    <3>1. UNCHANGED at /\ (AddAgain(at[e.id]) \/ UNCHANGED vars)
      BY <1>8, <2>2, Zenon DEF RunAddEvent, Again
    <3>2. AddAgain(at[e.id]) => at[e.id] \in 1..MaxVertex
      <4>1. DOMAIN vertex = 1..Len(vertex) /\ Len(vertex) \in Nat /\ Len(vertex) <= MaxVertex /\ MaxVertex \in Nat
        BY <1>0, Types, RoundAssumption, Zenon DEF NodeTypeOK
      <4> QED BY <4>1, SMTT(30) DEF AddAgain
    <3>3. NoNewVertex
      BY <3>1, <3>2, Zenon DEF NoNewVertex
    <3> QED BY <1>0, <1>1, <2>1, <3>1, <3>3, Zenon
  <2>3. CASE at[e.id] = None
    <3>1. at' = [at EXCEPT ![e.id] = Len(vertex) + 1]
      BY <1>8, <2>3, Zenon DEF RunAddEvent
    <3>2. Len(vertex') <= MaxVertex /\ at' \in [ID -> Nat] /\ OwnComposed'
      <4>1. CASE e.seqNum = Own
        <5>1. Filed(Own, t, ownRoundID) /\ currentIdx' = currentIdx /\ Len(vertex) < MaxVertex
          BY <1>8, <2>3, <4>1, Zenon DEF RunAddEvent, AddOwn
        <5>2. Own \in Slot /\ ownRoundID \in Nat /\ (Own = Own <=> e.id \in OwnID)
          BY <1>0, <4>1, Types, PeerEvents, RoundAssumption, SMTT(30) DEF Own, Slot
        <5> QED BY <2>3, <3>1, <5>1, <5>2, Added, Zenon
      <4>2. CASE e.seqNum # Own
        <5>1. Filed(e.seqNum, t, e.RoundID) /\ currentIdx' = currentIdx /\ Len(vertex) < MaxVertex
          BY <1>8, <2>3, <4>2, Zenon DEF RunAddEvent, AddRemote
        <5>2. e.seqNum \in Slot /\ e.RoundID \in Nat /\ (e.seqNum = Own <=> e.id \in OwnID)
          BY <4>2, PeerEvents, RoundAssumption, SMTT(30)
        <5> QED BY <2>3, <3>1, <5>1, <5>2, Added, Zenon
      <4> QED BY <4>1, <4>2, Zenon
    <3> QED BY <1>0, <2>1, <3>2, Zenon DEF NodeInv, NodeTypeOK
  <2> QED BY <2>2, <2>3, Zenon
<1>9. CASE Rounds
  <2>1. CallsTyped'
    BY <1>0, <1>9, Zenon DEF Rounds, CallsTyped, loop
  <2>2. NoNewVertex
    BY <1>9, Zenon DEF Rounds, NoNewVertex
  <2> QED BY <1>0, <1>1, <1>9, <2>1, <2>2, Zenon DEF Rounds
<1>10. CASE UNCHANGED nodeVars
  <2>1. CallsTyped'
    BY <1>0, <1>10, Zenon DEF nodeVars, CallsTyped, loop
  <2> QED BY <1>0, <1>1, <1>10, <2>1, Zenon DEF nodeVars, NoNewVertex
<1> QED
  BY <1>2, <1>3, <1>4, <1>5, <1>6, <1>7, <1>8, <1>9, <1>10, Zenon DEF NodeNext, EventHandle

----------------------------------------------------------------------------
\* The inductive invariant: the rounds' own, the types that AddEvent is called
\* with, and an event composed for every own vertex.
THEOREM NodeInvHolds == NodeSpec => []NodeInv
  BY InitNode, StepNode, PTL DEF NodeSpec

\* A node is an implementation of the rounds: EventHandle, which repeats AddEvent
\* with whatever et and ty were left at, never makes a step of the graph or of the
\* loops that module RoundManager does not have.
THEOREM NodeImplementsRounds == NodeSpec => RoundsOnly
<1>1. NewNode => NewRoundManager
  BY Zenon DEF NewNode
<1> QED BY <1>1, RoundStep, NodeInvHolds, PTL DEF NodeSpec, RoundsOnly, Spec

\* In a node, too, ConsensusShow is told of complete rounds only.
THEOREM NodeShownComplete == NodeSpec => []ConsensusComplete
  BY NodeImplementsRounds, ShownComplete, PTL DEF RoundsOnly

\* In a node, too, the slots of a round hold the right witnesses.
THEOREM NodeSlotsRight == NodeSpec => []SlotHoldsWitness
  BY NodeImplementsRounds, SlotsRight, PTL DEF RoundsOnly

\* A node that has learnt of a coming round broadcasts an own event as Witness
\* before it forgets of it.
THEOREM NodeAnswers == NodeSpec => AnnouncesWitness
<1>1. [NodeNext]_nodeVars => [roundComming /\ ~roundComming' => announced' = <<composed', Witness>>]_nodeVars
  <2> SUFFICES ASSUME NodeNext, roundComming, ~roundComming' PROVE announced' = <<composed', Witness>>
    BY Zenon
  <2>1. CASE OnlyTime
    BY <2>1, Zenon DEF OnlyTime
  <2>2. CASE RecvWitnessR
    BY <2>2, Zenon DEF RecvWitnessR
  <2>3. CASE RecvNorm \/ RecvWitnessL \/ OverFlow \/ RecvRequest
    BY <2>3, Zenon DEF RecvNorm, RecvWitnessL, OverFlow, RecvRequest, loop
  <2>4. ASSUME NEW c \in Copy, Arrive(c) PROVE FALSE
    BY <2>4, Zenon DEF Arrive, loop
  <2>5. ASSUME NEW e \in Event, NEW t \in {0, Normal, Witness}, RunAddEvent(e, t) PROVE FALSE
    BY <2>5, Zenon DEF RunAddEvent, loop
  <2>6. CASE Rounds
    BY <2>6, Zenon DEF Rounds, loop
  <2> QED BY <2>1, <2>2, <2>3, <2>4, <2>5, <2>6, Zenon DEF NodeNext, EventHandle
<1> QED BY <1>1, PTL DEF NodeSpec, AnnouncesWitness

\* EventHandle finds the event of every vertex that MonitorLoop sends it, and
\* broadcasts that one: a local witness is always an event that the node composed.
THEOREM NodeAnnouncesFound == NodeSpec => AnnouncesFound
<1>1. NodeInv /\ [NodeNext]_nodeVars =>
        [RecvWitnessL => at[et'.id] = Head(witnessL) /\ announced' = <<et'.id, Witness>>]_nodeVars
  <2> SUFFICES ASSUME NodeInv, RecvWitnessL
               PROVE  at[et'.id] = Head(witnessL) /\ announced' = <<et'.id, Witness>>
    BY Zenon
  <2>1. witnessL # <<>> /\ witnessL \in Seq(Nat)
    BY Types, Zenon DEF RecvWitnessL, TakeWitnessL, NodeInv
  <2>2. Head(witnessL) = witnessL[1] /\ 1 \in DOMAIN witnessL
    BY <2>1
  <2>3. IsOwn(Head(witnessL))
    BY <2>2, Zenon DEF NodeInv, IInv, SelfIsOwn
  <2>4. \E k \in OwnID : at[k] = Head(witnessL)
    BY <2>3, Zenon DEF NodeInv, OwnComposed, IsOwn
  <2> DEFINE k == CHOOSE j \in OwnID : at[j] = Head(witnessL)
  <2>5. at[k] = Head(witnessL)
    BY <2>4, Zenon
  <2>6. et' = OwnEvent(k) /\ announced' = <<et'.id, Witness>>
    BY Zenon DEF RecvWitnessL
  <2> QED BY <2>5, <2>6, Zenon DEF OwnEvent
<1> QED BY <1>1, NodeInvHolds, PTL DEF NodeSpec, AnnouncesFound
=============================================================================
