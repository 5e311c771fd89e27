--------------------------- MODULE JPGraphProofs ---------------------------
(***************************************************************************)
(* Proofs about the graph of module JPGraph, for any number of nodes,      *)
(* events, rounds and goroutines.                                          *)
(***************************************************************************)
EXTENDS JPGraphSteps

(* What is filed where.                                                     *)

\* A vertex in progress is in the hands of some goroutine.
LEMMA Progress ==
    /\ \A v : v \in InProgress <=> \E x \in Worker : pc[x] \in Working /\ Self(x) = v
    /\ \A v : v \in InProgress' <=> \E x \in Worker : pc'[x] \in Working /\ Self(x)' = v
  <1>1. {"link", "request", "round", "comer", "lost"} = Working  BY Zenon DEF Working, Filing
  <1> QED  BY <1>1, Zenon DEF InProgress

\* The same vertices stay in progress while no goroutine takes up or finishes one.
LEMMA ProgressSteady ==
    ASSUME Steady
    PROVE  \A v : v \in InProgress' <=> v \in InProgress
  BY Progress, Zenon DEF Steady

\* The three actions that begin or end the work on a vertex.
LEMMA Turns ==
    ASSUME TypeOK, GraphOK, CallsOK, FilingOK, NEW w \in Worker
    PROVE  /\ InsertVertex(w) =>
                /\ pc[w] \notin Working /\ pc'[w] \in Filing /\ pc'[w] \in Working /\ Self(w)' = Self(w)
                /\ \A v : v \in InProgress' <=> v \in InProgress \/ v = Self(w)
           /\ addComer(w) =>
                /\ pc[w] \in Filing /\ pc[w] \in Working /\ pc'[w] \notin Filing /\ pc'[w] \in Working
                /\ Self(w)' = Self(w)
                /\ \A v : v \in InProgress' <=> v \in InProgress
           /\ UpdateLost(w) =>
                /\ pc[w] \in Working /\ pc[w] \notin Filing /\ pc'[w] \notin Working /\ pc'[w] \notin Filing
                /\ \A v : v \in InProgress' <=> v \in InProgress /\ v # Self(w)
           /\ InsertVertex(w) \/ addComer(w) \/ UpdateLost(w) =>
                \A x \in Worker \ {w} : pc'[x] = pc[x] /\ Self(x)' = Self(x)
  <1>1. ASSUME NEW p, Goto(w, p, loc[w])
        PROVE  pc'[w] = p /\ Self(w)' = Self(w) /\ \A x \in Worker \ {w} : pc'[x] = pc[x] /\ Self(x)' = Self(x)
    <2>1. loc \in [Worker -> Call] /\ pc \in [Worker -> Location]  BY Types, Zenon
    <2>2. pc'[w] = p /\ loc'[w] = loc[w] /\ \A x \in Worker \ {w} : pc'[x] = pc[x] /\ loc'[x] = loc[x]
      BY <1>1, <2>1, Zenon DEF Goto
    <2> QED  BY <2>2, Zenon DEF Self
  <1>2. /\ "insert" \notin Working /\ "link" \in Filing /\ "link" \in Working
        /\ "comer" \in Filing /\ "comer" \in Working /\ "lost" \notin Filing /\ "lost" \in Working
        /\ "notify" \notin Working /\ "notify" \notin Filing
    BY Zenon DEF Working, Filing
  <1>3. InsertVertex(w) => pc[w] = "insert" /\ Goto(w, "link", loc[w])  BY Zenon DEF InsertVertex
  <1>4. addComer(w) => pc[w] = "comer" /\ Goto(w, "lost", loc[w])  BY Zenon DEF addComer
  <1>5. UpdateLost(w) => pc[w] = "lost" /\ Goto(w, "notify", loc[w])  BY Zenon DEF UpdateLost
  <1>6. \A x \in Worker \ {w} : pc[w] \in Working /\ pc[x] \in Working => Self(x) # Self(w)
    BY Zenon DEF FilingOK
  <1>7. ASSUME InsertVertex(w)  PROVE \A v : v \in InProgress' <=> v \in InProgress \/ v = Self(w)
    <2>1. pc'[w] \in Working /\ pc[w] \notin Working /\ Self(w)' = Self(w)
          /\ \A x \in Worker \ {w} : pc'[x] = pc[x] /\ Self(x)' = Self(x)
      BY <1>1, <1>2, <1>3, <1>7, Zenon
    <2> QED  BY <2>1, Progress, Zenon
  <1>8. ASSUME addComer(w)  PROVE \A v : v \in InProgress' <=> v \in InProgress
    <2>1. pc'[w] \in Working /\ pc[w] \in Working /\ Self(w)' = Self(w)
          /\ \A x \in Worker \ {w} : pc'[x] = pc[x] /\ Self(x)' = Self(x)
      BY <1>1, <1>2, <1>4, <1>8, Zenon
    <2> QED  BY <2>1, Progress, Zenon
  <1>9. ASSUME UpdateLost(w)  PROVE \A v : v \in InProgress' <=> v \in InProgress /\ v # Self(w)
    <2>1. pc'[w] \notin Working /\ pc[w] \in Working
          /\ \A x \in Worker \ {w} : pc'[x] = pc[x] /\ Self(x)' = Self(x)
      BY <1>1, <1>2, <1>5, <1>9, Zenon
    <2> QED  BY <2>1, <1>6, Progress, SMTT(30)
  <1> QED  BY <1>1, <1>2, <1>3, <1>4, <1>5, <1>7, <1>8, <1>9, Zenon

\* What waits in lostDict, after every step.
LEMMA StepLost ==
    ASSUME TypeOK, GraphOK, CallsOK, LostOK, FilingOK, [Next]_vars
    PROVE  LostOK'
  <1> DEFINE SameDict == \A r \in DOMAIN rounds' :
                 \/ r \in DOMAIN rounds /\ rounds'[r].lostDict = rounds[r].lostDict
                 \/ \A h \in Pointer : rounds'[r].lostDict[h] = {}
             SameLinks == \A v \in DOMAIN vert \ InProgress : vert'[v].anotherPt = vert[v].anotherPt
             SameWork == \A v \in DOMAIN vert : v \in InProgress' => v \in InProgress
  <1>1. DOMAIN vert \subseteq DOMAIN vert'
    <2>1. Kept  BY StepKept, Zenon
    <2> QED  BY <2>1, Zenon DEF Kept
  <1>2. /\ \A r \in DOMAIN rounds, h \in Pointer : \A v \in rounds[r].lostDict[h] :
             v \in DOMAIN vert /\ OtherPartH[v[2]] = h /\ vert[v].anotherPt = Nil /\ v \notin InProgress
        /\ \A r, q \in DOMAIN rounds, h \in Pointer : \A v :
             v \in rounds[r].lostDict[h] /\ v \in rounds[q].lostDict[h] => r = q
    BY SMTT(30) DEF LostOK
  <1>3. ASSUME \A r \in DOMAIN rounds', h \in Pointer : \A v \in rounds'[r].lostDict[h] :
                  v \in DOMAIN vert' /\ OtherPartH[v[2]] = h /\ vert'[v].anotherPt = Nil /\ v \notin InProgress',
               \A r, q \in DOMAIN rounds', h \in Pointer : \A v :
                  v \in rounds'[r].lostDict[h] /\ v \in rounds'[q].lostDict[h] => r = q
        PROVE  LostOK'
    BY <1>3 DEF LostOK
  <1>4. ASSUME SameDict, SameLinks, SameWork  PROVE LostOK'
    <2>1. \A r \in DOMAIN rounds', h \in Pointer : \A v \in rounds'[r].lostDict[h] :
             r \in DOMAIN rounds /\ v \in rounds[r].lostDict[h]
      BY <1>4, Zenon
    <2>2. \A r \in DOMAIN rounds', h \in Pointer : \A v \in rounds'[r].lostDict[h] :
             v \in DOMAIN vert' /\ OtherPartH[v[2]] = h /\ vert'[v].anotherPt = Nil /\ v \notin InProgress'
      BY <2>1, <1>1, <1>2, <1>4
    <2>3. \A r, q \in DOMAIN rounds', h \in Pointer : \A v :
             v \in rounds'[r].lostDict[h] /\ v \in rounds'[q].lostDict[h] => r = q
      BY <2>1, <1>2
    <2> QED  BY <2>2, <2>3, <1>3, Zenon
  <1>5. ASSUME UNCHANGED rounds  PROVE SameDict  BY <1>5, Zenon
  <1>6. ASSUME UNCHANGED vert  PROVE SameLinks  BY <1>6, Zenon
  <1>7. ASSUME Steady  PROVE SameWork  BY <1>7, ProgressSteady, Zenon
  <1>8. ASSUME NEW v \in DOMAIN vert, SetWitness(v, Witness)  PROVE SameLinks  BY <1>8, WitnessEffect, Zenon
  <1>9. CASE Steady /\ UNCHANGED <<graph, column, vert, rounds>>  BY <1>4, <1>5, <1>6, <1>7, <1>9, Zenon
  <1>10. CASE Steady /\ PushRound
    <2>1. /\ \A r \in DOMAIN rounds : rounds'[r] = rounds[r]
          /\ \A r \in DOMAIN rounds' \ DOMAIN rounds : rounds'[r] = NewRound
          /\ UNCHANGED <<graph, column, vert, pc, loc>>
      BY <1>10, PushEffect, Zenon
    <2>2. \A h \in Pointer : NewRound.lostDict[h] = {}  BY NewRoundTyped, Zenon
    <2>3. SameDict  BY <2>1, <2>2, Zenon
    <2>4. SameLinks  BY <2>1, Zenon
    <2> QED  BY <2>3, <2>4, <1>4, <1>7, <1>10, Zenon
  <1>11. ASSUME NEW w \in Worker, Steady /\ AddNodePut(w)  PROVE LostOK'
    <2>1. UNCHANGED vert /\ UNCHANGED rounds  BY <1>11, Zenon DEF AddNodePut
    <2> QED  BY <2>1, <1>4, <1>5, <1>6, <1>7, <1>11, Zenon
  <1>12. ASSUME NEW w \in Worker, Steady /\ AddNodeMajor(w)  PROVE LostOK'
    <2>1. UNCHANGED vert /\ UNCHANGED rounds  BY <1>12, Zenon DEF AddNodeMajor
    <2> QED  BY <2>1, <1>4, <1>5, <1>6, <1>7, <1>12, Zenon
  <1>13. ASSUME NEW w \in Worker, Steady /\ EventExists(w)  PROVE LostOK'
    <2>1. /\ Self(w) \in DOMAIN vert /\ UNCHANGED <<graph, column, rounds>>
          /\ UNCHANGED vert \/ SetWitness(Self(w), Witness)
      BY <1>13, ExistsEffect, Zenon
    <2>2. UNCHANGED rounds  BY <2>1, Zenon
    <2> QED  BY <2>1, <2>2, <1>4, <1>5, <1>6, <1>7, <1>8, <1>13, Zenon
  <1>14. ASSUME NEW w \in Worker, Steady /\ LinkOther(w)  PROVE LostOK'
    <2>1. pc[w] = "link"  BY <1>14, Zenon DEF LinkOther
    <2>2. pc[w] \in Working  BY <2>1, Zenon DEF Working, Filing
    <2>3. Self(w) \in InProgress  BY <2>2, Progress, Zenon
    <2>4. /\ UNCHANGED rounds
          /\ UNCHANGED vert \/ \A u \in DOMAIN vert \ {Self(w)} : vert'[u] = vert[u]
      BY <1>14, LinkEffect, Zenon
    <2>5. SameLinks  BY <2>3, <2>4, Zenon
    <2> QED  BY <2>4, <2>5, <1>4, <1>5, <1>7, <1>14, Zenon
  <1>15. ASSUME NEW w \in Worker, Steady /\ FileWitness(w)  PROVE LostOK'
    <2>1. \/ UNCHANGED <<vert, rounds>>
          \/ /\ SetWitness(Self(w), Witness) /\ Self(w) \in DOMAIN vert
             /\ DOMAIN rounds' = DOMAIN rounds
             /\ \A q \in DOMAIN rounds : rounds'[q].lostDict = rounds[q].lostDict
      BY <1>15, FileEffect, Zenon
    <2>2. SameDict  BY <2>1, Zenon
    <2>3. UNCHANGED vert \/ (SetWitness(Self(w), Witness) /\ Self(w) \in DOMAIN vert)  BY <2>1, Zenon
    <2>4. SameLinks  BY <2>3, <1>6, <1>8, Zenon
    <2> QED  BY <2>2, <2>4, <1>4, <1>7, <1>15, Zenon
  <1>16. ASSUME NEW w \in Worker, InsertVertex(w)  PROVE LostOK'
    <2>1. Self(w) \notin DOMAIN vert /\ (\A u \in DOMAIN vert : vert'[u] = vert[u]) /\ UNCHANGED rounds
      BY <1>16, InsertEffect, Zenon
    <2>2. \A v : v \in InProgress' <=> v \in InProgress \/ v = Self(w)  BY <1>16, Turns, Zenon
    <2>3. SameLinks /\ SameWork  BY <2>1, <2>2, Zenon
    <2> QED  BY <2>1, <2>3, <1>4, <1>5, Zenon
  <1>17. ASSUME NEW w \in Worker, addComer(w)  PROVE LostOK'
    <2>1. /\ UNCHANGED <<graph, column, vert>> /\ DOMAIN rounds' = DOMAIN rounds
          /\ \A q \in DOMAIN rounds : rounds'[q].lostDict = rounds[q].lostDict
      BY <1>17, ComerEffect, Zenon
    <2>2. \A v : v \in InProgress' <=> v \in InProgress  BY <1>17, Turns, Zenon
    <2>3. SameDict /\ SameLinks /\ SameWork  BY <2>1, <2>2, Zenon
    <2> QED  BY <2>3, <1>4, Zenon
  <1>18. ASSUME NEW w \in Worker, UpdateLost(w)  PROVE LostOK'
    <2> DEFINE r == loc[w].round
               h == loc[w].e.SelfHash
               g0 == OtherPartH[h]
               me == Self(w)
    <2>1. /\ r \in DOMAIN rounds /\ h \in Hash /\ me \in DOMAIN vert /\ DOMAIN vert' = DOMAIN vert
          /\ \A u \in DOMAIN vert : u \notin rounds[r].lostDict[h] => vert'[u] = vert[u]
          /\ DOMAIN rounds' = DOMAIN rounds
          /\ \A q \in DOMAIN rounds \ {r} : rounds'[q] = rounds[q]
          /\ \A g \in Pointer : \A v : v \in rounds'[r].lostDict[g] <=>
                \/ v \in rounds[r].lostDict[g] /\ g # h
                \/ loc[w].linkpost /\ g = g0 /\ v = me
      BY <1>18, LostEffect, Zenon
    <2>2. me[2] = h  BY Zenon DEF Self
    <2>3. h \in Pointer  BY <2>1, Zenon DEF Pointer
    <2>4. pc[w] \in Working /\ \A v : v \in InProgress' <=> v \in InProgress /\ v # me  BY <1>18, Turns, Zenon
    <2>5. me \in InProgress  BY <2>4, Progress, Zenon
    <2>6. loc[w].linkpost => vert[me].anotherPt = Nil
      <3>1. CallOK(w) /\ pc[w] # "idle"  BY <2>4, Zenon DEF CallsOK, Working, Filing
      <3> QED  BY <3>1, <2>4, Zenon DEF CallOK
    <2> HIDE DEF r, h, g0, me
    <2>7. \A q \in DOMAIN rounds', g \in Pointer : \A v \in rounds'[q].lostDict[g] :
             \/ v \in rounds[q].lostDict[g] /\ (q # r \/ g # h)
             \/ q = r /\ loc[w].linkpost /\ g = g0 /\ v = me
      BY <2>1, SMTT(30)
    <2>8. \A q \in DOMAIN rounds, g \in Pointer : \A v \in rounds[q].lostDict[g] :
             (q # r \/ g # h) => v \notin rounds[r].lostDict[h]
      BY <2>1, <2>3, <1>2, SMTT(30)
    <2>9. ASSUME NEW q \in DOMAIN rounds', NEW g \in Pointer, NEW v \in rounds'[q].lostDict[g]
          PROVE  v \in DOMAIN vert' /\ OtherPartH[v[2]] = g /\ vert'[v].anotherPt = Nil /\ v \notin InProgress'
      <3>1. CASE v \in rounds[q].lostDict[g] /\ (q # r \/ g # h)
        <4>1. q \in DOMAIN rounds  BY <2>1, Zenon
        <4>2. v \in DOMAIN vert /\ OtherPartH[v[2]] = g /\ vert[v].anotherPt = Nil /\ v \notin InProgress
          BY <3>1, <4>1, <1>2, Zenon
        <4>3. vert'[v] = vert[v]  BY <3>1, <4>1, <4>2, <2>1, <2>8, SMTT(30)
        <4> QED  BY <4>2, <4>3, <2>1, <2>4, Zenon
      <3>2. CASE q = r /\ loc[w].linkpost /\ g = g0 /\ v = me
        <4>1. OtherPartH[v[2]] = g  BY <3>2, <2>2, Zenon DEF g0
        <4>2. me \notin rounds[r].lostDict[h]  BY <2>1, <2>3, <2>5, <1>2, Zenon
        <4> QED  BY <3>2, <4>1, <4>2, <2>1, <2>4, <2>6, Zenon
      <3> QED  BY <2>7, <2>9, <3>1, <3>2, Zenon
    <2>10. ASSUME NEW p \in DOMAIN rounds', NEW q \in DOMAIN rounds', NEW g \in Pointer, NEW v,
                  v \in rounds'[p].lostDict[g], v \in rounds'[q].lostDict[g]
           PROVE  p = q
      <3>1. v = me => v \notin rounds[p].lostDict[g] /\ v \notin rounds[q].lostDict[g]  BY <2>1, <2>5, <1>2, SMTT(30)
      <3> QED  BY <2>1, <2>7, <2>10, <3>1, <1>2, SMTT(30)
    <2> QED  BY <2>9, <2>10, <1>3, Zenon
  <1> QED  BY StepCases, <1>9, <1>10, <1>11, <1>12, <1>13, <1>14, <1>15, <1>16, <1>17, <1>18, Zenon

\* newComer changes by addComer alone.
LEMMA ComersKept ==
    ASSUME TypeOK, GraphOK, CallsOK, [Next]_vars, ~\E w \in Worker : addComer(w)
    PROVE  \A r \in DOMAIN rounds' :
               \/ /\ r \in DOMAIN rounds /\ rounds'[r].newComer = rounds[r].newComer
                  /\ rounds'[r].ncLocked = rounds[r].ncLocked
               \/ rounds'[r].newComer = <<>> /\ ~rounds'[r].ncLocked
  <1> DEFINE P == \A r \in DOMAIN rounds' :
               \/ /\ r \in DOMAIN rounds /\ rounds'[r].newComer = rounds[r].newComer
                  /\ rounds'[r].ncLocked = rounds[r].ncLocked
               \/ rounds'[r].newComer = <<>> /\ ~rounds'[r].ncLocked
  <1>1. ASSUME UNCHANGED rounds  PROVE P  BY <1>1, Zenon
  <1>2. ASSUME PushRound  PROVE P
    <2>1. /\ \A r \in DOMAIN rounds : rounds'[r] = rounds[r]
          /\ \A r \in DOMAIN rounds' \ DOMAIN rounds : rounds'[r] = NewRound
      BY <1>2, PushEffect, Zenon
    <2>2. NewRound.newComer = <<>> /\ ~NewRound.ncLocked  BY NewRoundTyped, Zenon
    <2>3. ASSUME NEW r \in DOMAIN rounds'
          PROVE  \/ /\ r \in DOMAIN rounds /\ rounds'[r].newComer = rounds[r].newComer
                    /\ rounds'[r].ncLocked = rounds[r].ncLocked
                 \/ rounds'[r].newComer = <<>> /\ ~rounds'[r].ncLocked
      <3>1. CASE r \in DOMAIN rounds  BY <3>1, <2>1, Zenon
      <3>2. CASE r \notin DOMAIN rounds
        <4>1. rounds'[r] = NewRound  BY <3>2, <2>1, Zenon
        <4> QED  BY <4>1, <2>2, Zenon
      <3> QED  BY <3>1, <3>2, Zenon
    <2> QED  BY <2>3, Zenon
  <1>3. ASSUME NEW w \in Worker, AddNodePut(w) \/ AddNodeMajor(w) \/ EventExists(w) \/ LinkOther(w) \/ InsertVertex(w)
        PROVE  P
    <2>1. UNCHANGED rounds  BY <1>3, Zenon DEF AddNodePut, AddNodeMajor, EventExists, LinkOther, InsertVertex
    <2> QED  BY <2>1, <1>1, Zenon
  <1>4. ASSUME NEW w \in Worker, FileWitness(w)  PROVE P
    <2>1. PICK r \in DOMAIN rounds :
             \/ UNCHANGED <<vert, rounds>>
             \/ /\ DOMAIN rounds' = DOMAIN rounds
                /\ \A q \in DOMAIN rounds \ {r} : rounds'[q] = rounds[q]
                /\ rounds'[r].newComer = rounds[r].newComer /\ rounds'[r].ncLocked = rounds[r].ncLocked
      BY <1>4, FileEffect, Zenon
    <2>2. CASE UNCHANGED <<vert, rounds>>  BY <2>2, <1>1, Zenon
    <2>3. CASE /\ DOMAIN rounds' = DOMAIN rounds
               /\ \A q \in DOMAIN rounds \ {r} : rounds'[q] = rounds[q]
               /\ rounds'[r].newComer = rounds[r].newComer /\ rounds'[r].ncLocked = rounds[r].ncLocked
      <3> SUFFICES ASSUME NEW q \in DOMAIN rounds'
                   PROVE  q \in DOMAIN rounds /\ rounds'[q].newComer = rounds[q].newComer /\ rounds'[q].ncLocked = rounds[q].ncLocked
        BY Zenon
      <3>1. CASE q = r  BY <2>3, <3>1, Zenon
      <3>2. CASE q # r  BY <2>3, <3>2, Zenon
      <3> QED  BY <3>1, <3>2, Zenon
    <2> QED  BY <2>1, <2>2, <2>3, Zenon
  <1>5. ASSUME NEW w \in Worker, UpdateLost(w)  PROVE P
    <2> DEFINE r == loc[w].round
    <2>1. /\ DOMAIN rounds' = DOMAIN rounds
          /\ \A q \in DOMAIN rounds \ {r} : rounds'[q] = rounds[q]
          /\ rounds'[r].newComer = rounds[r].newComer /\ rounds'[r].ncLocked = rounds[r].ncLocked
      BY <1>5, LostEffect, Zenon
    <2> HIDE DEF r
    <2> SUFFICES ASSUME NEW q \in DOMAIN rounds'
                 PROVE  q \in DOMAIN rounds /\ rounds'[q].newComer = rounds[q].newComer /\ rounds'[q].ncLocked = rounds[q].ncLocked
      BY Zenon
    <2>2. CASE q = r  BY <2>1, <2>2, Zenon
    <2>3. CASE q # r  BY <2>1, <2>3, Zenon
    <2> QED  BY <2>2, <2>3, Zenon
  <1>6. ASSUME UNCHANGED <<graph, column, vert, rounds>>  PROVE P  BY <1>1, <1>6, Zenon
  <1> HIDE DEF P
  <1>7. P  BY StepCases, <1>2, <1>3, <1>4, <1>5, <1>6, Zenon
  <1> QED  BY <1>7, Zenon DEF P

\* One goroutine files a vertex, once, after every step.
LEMMA StepFiling ==
    ASSUME TypeOK, GraphOK, CallsOK, LostOK, FilingOK, [Next]_vars
    PROVE  FilingOK'
  <1> DEFINE Apart == \A w, x \in Worker : pc'[w] \in Working /\ pc'[x] \in Working /\ Self(w)' = Self(x)' => w = x
             Hands == \A x \in Worker : pc'[x] \in Filing =>
                          (pc[x] \in Filing /\ Self(x)' = Self(x)) \/ Self(x)' \notin DOMAIN vert
             Filed(h) == \E c \in DOMAIN column :
                           /\ c[1] = SelfSig[h] /\ <<c, h>> \in DOMAIN vert
                           /\ \A w \in Worker : pc[w] \in Filing => Self(w) # <<c, h>>
             FiledThen(h) == \E c \in DOMAIN column' :
                           /\ c[1] = SelfSig[h] /\ <<c, h>> \in DOMAIN vert'
                           /\ \A w \in Worker : pc'[w] \in Filing => Self(w)' # <<c, h>>
  <1>1. DOMAIN column \subseteq DOMAIN column' /\ DOMAIN vert \subseteq DOMAIN vert'
    <2>1. Kept  BY StepKept, Zenon
    <2> QED  BY <2>1, Zenon DEF Kept
  <1>2. /\ \A w, x \in Worker : pc[w] \in Working /\ pc[x] \in Working /\ Self(w) = Self(x) => w = x
        /\ \A r \in DOMAIN rounds : \A i \in DOMAIN rounds[r].newComer : Filed(rounds[r].newComer[i])
    BY Zenon DEF FilingOK
  <1>3. \A x \in Worker : pc[x] \in Working => Self(x) \in DOMAIN vert
    <2> TAKE x \in Worker
    <2>1. CallOK(x)  BY Zenon DEF CallsOK
    <2>2. pc[x] \in Working => pc[x] # "idle" /\ pc[x] \in Inserted  BY Zenon DEF Working, Inserted, Filing
    <2> QED  BY <2>1, <2>2, Zenon DEF CallOK
  <1>4. Filing \subseteq Working  BY Zenon DEF Working
  <1>5. ASSUME Hands, NEW h, Filed(h)  PROVE FiledThen(h)
    BY <1>1, <1>5, Zenon
  <1>6. ASSUME Apart, \A r \in DOMAIN rounds' : \A i \in DOMAIN rounds'[r].newComer : FiledThen(rounds'[r].newComer[i])
        PROVE  FilingOK'
    BY <1>6, Zenon DEF FilingOK
  <1>7. ASSUME Apart, Hands, ~\E w \in Worker : addComer(w)  PROVE FilingOK'
    <2>1. \A r \in DOMAIN rounds' :
               \/ r \in DOMAIN rounds /\ rounds'[r].newComer = rounds[r].newComer
               \/ rounds'[r].newComer = <<>>
      BY <1>7, ComersKept, Zenon
    <2>2. \A r \in DOMAIN rounds' : \A i \in DOMAIN rounds'[r].newComer : Filed(rounds'[r].newComer[i])
      <3> HIDE DEF Filed
      <3> QED  BY <2>1, <1>2, SMTT(30)
    <2> HIDE DEF Apart, Filed, FiledThen, Hands
    <2> QED  BY <2>2, <1>5, <1>6, <1>7, Zenon
  <1>8. CASE \E w \in Worker : addComer(w)
    <2>1. PICK w \in Worker : addComer(w)  BY <1>8, Zenon
    <2> DEFINE r == loc[w].round
               h == loc[w].e.SelfHash
    <2>2. /\ pc[w] \in Filing /\ pc[w] \in Working /\ pc'[w] \notin Filing /\ pc'[w] \in Working
          /\ Self(w)' = Self(w)
          /\ \A x \in Worker \ {w} : pc'[x] = pc[x] /\ Self(x)' = Self(x)
      BY <2>1, Turns, Zenon
    <2>3. Apart  BY <2>2, <1>2, SMTT(30)
    <2>4. Hands  BY <2>2, Zenon
    <2>5. /\ DOMAIN rounds' = DOMAIN rounds /\ r \in DOMAIN rounds
          /\ \A q \in DOMAIN rounds \ {r} : rounds'[q] = rounds[q]
          /\ \/ rounds'[r].newComer = rounds[r].newComer
             \/ rounds'[r].newComer = Append(rounds[r].newComer, h)
          /\ UNCHANGED <<graph, column, vert>>
      BY <2>1, ComerEffect, Zenon
    <2>6. pc[w] # "idle" /\ pc[w] \notin Naming  BY <2>2, Zenon DEF Filing, Naming
    <2>7. /\ loc[w].self \in DOMAIN column /\ loc[w].self[1] = SelfSig[h] /\ h \in Hash
      BY <2>6, InCall, Zenon
    <2>8. Self(w) = <<loc[w].self, h>>  BY Zenon DEF Self
    <2>9. \A x \in Worker : pc'[x] \in Filing => Self(x)' # Self(w)  BY <2>2, <1>2, <1>4
    <2>10. FiledThen(h)  BY <2>2, <2>7, <2>8, <2>9, <1>1, <1>3, Zenon
    <2>11. rounds[r].newComer \in Seq(Hash)  BY <2>5, Types, Zenon DEF Round
    <2> HIDE DEF Apart, Filed, FiledThen, Hands, r, h
    <2>12. \A i \in DOMAIN rounds'[r].newComer :
               \/ i \in DOMAIN rounds[r].newComer /\ rounds'[r].newComer[i] = rounds[r].newComer[i]
               \/ rounds'[r].newComer[i] = h
      BY <2>5, <2>7, <2>11, SMTT(30)
    <2>13. \A i \in DOMAIN rounds'[r].newComer : FiledThen(rounds'[r].newComer[i])
      BY <2>4, <2>5, <2>10, <2>12, <1>2, <1>5, Zenon
    <2>14. \A q \in DOMAIN rounds' : \A i \in DOMAIN rounds'[q].newComer : FiledThen(rounds'[q].newComer[i])
      BY <2>4, <2>5, <2>13, <1>2, <1>5, Zenon
    <2> QED  BY <2>3, <2>14, <1>6, Zenon
  <1>9. CASE ~\E w \in Worker : addComer(w)
    <2>1. ASSUME Steady  PROVE Apart /\ Hands  BY <2>1, <1>2, <1>4, Zenon DEF Steady
    <2>2. ASSUME NEW w \in Worker, InsertVertex(w)  PROVE Apart /\ Hands
      <3>1. /\ pc[w] \notin Working /\ Self(w)' = Self(w)
            /\ \A x \in Worker \ {w} : pc'[x] = pc[x] /\ Self(x)' = Self(x)
        BY <2>2, Turns, Zenon
      <3>2. Self(w) \notin DOMAIN vert  BY <2>2, InsertEffect, Zenon
      <3> QED  BY <3>1, <3>2, <1>2, <1>3
    <2>3. ASSUME NEW w \in Worker, UpdateLost(w)  PROVE Apart /\ Hands
      <3>1. /\ pc'[w] \notin Working /\ pc'[w] \notin Filing
            /\ \A x \in Worker \ {w} : pc'[x] = pc[x] /\ Self(x)' = Self(x)
        BY <2>3, Turns, Zenon
      <3> QED  BY <3>1, <1>2
    <2> HIDE DEF Apart, Hands
    <2>4. Apart /\ Hands  BY StepCases, <1>9, <2>1, <2>2, <2>3, Zenon
    <2> QED  BY <2>4, <1>7, <1>9, Zenon
  <1> QED  BY <1>8, <1>9, Zenon

\* A node that has two columns has them for ever.
LEMMA StepForms ==
    ASSUME TypeOK, GraphOK, CallsOK, [Next]_vars, NodeFormsColumn'
    PROVE  NodeFormsColumn
  <1>1. ASSUME UNCHANGED graph, DOMAIN column' = DOMAIN column  PROVE NodeFormsColumn
    BY <1>1, Zenon DEF NodeFormsColumn
  <1>2. CASE UNCHANGED <<graph, column, vert, rounds>>  BY <1>1, <1>2, Zenon
  <1>3. CASE PushRound  BY <1>1, <1>3, Zenon DEF PushRound
  <1>4. ASSUME NEW w \in Worker, AddNodePut(w)  PROVE NodeFormsColumn
    <2> DEFINE c == <<NodeArg(w), w>>
    <2> HIDE DEF c
    <2>1. /\ c \notin DOMAIN column /\ DOMAIN column' = DOMAIN column \cup {c} /\ DOMAIN column' \subseteq Column
          /\ graph'[NodeArg(w)] = c
          /\ \A a \in Address \ {NodeArg(w)} : graph'[a] = graph[a]
      BY <1>4, PutEffect, Zenon DEF c
    <2>2. \A x \in Column : x[1] \in Address  BY Zenon DEF Column
    <2> QED  BY <2>1, <2>2, Zenon DEF NodeFormsColumn
  <1>5. ASSUME NEW w \in Worker, AddNodeMajor(w)  PROVE NodeFormsColumn
    <2>1. DOMAIN column' = DOMAIN column /\ UNCHANGED <<graph, vert, rounds>>  BY <1>5, MajorEffect, Zenon
    <2> QED  BY <2>1, <1>1, Zenon
  <1>6. ASSUME NEW w \in Worker, EventExists(w) \/ LinkOther(w) \/ FileWitness(w) \/ addComer(w) \/ UpdateLost(w)
        PROVE  NodeFormsColumn
    <2>1. UNCHANGED graph /\ UNCHANGED column  BY <1>6, Zenon DEF EventExists, LinkOther, FileWitness, addComer, UpdateLost
    <2> QED  BY <2>1, <1>1, Zenon
  <1>7. ASSUME NEW w \in Worker, InsertVertex(w)  PROVE NodeFormsColumn
    <2>1. DOMAIN column' = DOMAIN column /\ UNCHANGED graph  BY <1>7, InsertEffect, Zenon
    <2> QED  BY <2>1, <1>1, Zenon
  <1> QED  BY StepCases, <1>2, <1>3, <1>4, <1>5, <1>6, <1>7, Zenon

\* nc is not left locked while every node has one column.
LEMMA StepLock ==
    ASSUME TypeOK, GraphOK, CallsOK, FilingOK, NoLockLeak, [Next]_vars
    PROVE  NoLockLeak'
  <1> DEFINE Once(s) == \A i, j \in DOMAIN s : s[i] = s[j] => i = j
  <1> SUFFICES ASSUME NodeFormsColumn'
               PROVE  \A q \in DOMAIN rounds' : ~rounds'[q].ncLocked /\ Once(rounds'[q].newComer)
    BY Zenon DEF NoLockLeak
  <1>1. NodeFormsColumn  BY StepForms, Zenon
  <1>2. \A q \in DOMAIN rounds : ~rounds[q].ncLocked /\ Once(rounds[q].newComer)
    BY <1>1, Zenon DEF NoLockLeak
  <1>3. CASE ~\E w \in Worker : addComer(w)
    <2>1. \A q \in DOMAIN rounds' :
               \/ /\ q \in DOMAIN rounds /\ rounds'[q].newComer = rounds[q].newComer
                  /\ rounds'[q].ncLocked = rounds[q].ncLocked
               \/ rounds'[q].newComer = <<>> /\ ~rounds'[q].ncLocked
      BY <1>3, ComersKept, Zenon
    <2>2. Once(<<>>)  OBVIOUS
    <2> HIDE DEF Once
    <2> QED  BY <2>1, <2>2, <1>2, Zenon
  <1>4. CASE \E w \in Worker : addComer(w)
    <2>1. PICK w \in Worker : addComer(w)  BY <1>4, Zenon
    <2> DEFINE r == loc[w].round
               h == loc[w].e.SelfHash
               old == rounds[r].newComer
    <2>2. /\ DOMAIN rounds' = DOMAIN rounds /\ r \in DOMAIN rounds
          /\ \A q \in DOMAIN rounds \ {r} : rounds'[q] = rounds[q]
          /\ \/ \E i \in DOMAIN old : old[i] = h
             \/ /\ \A i \in DOMAIN old : old[i] # h
                /\ rounds'[r].newComer = Append(old, h)
                /\ ~rounds'[r].ncLocked
      BY <2>1, ComerEffect, Zenon
    <2>3. pc[w] = "comer"  BY <2>1, Zenon DEF addComer
    <2>4. pc[w] \in Filing /\ pc[w] # "idle" /\ pc[w] \notin Naming  BY <2>3, Zenon DEF Filing, Naming
    <2>5. loc[w].self \in DOMAIN column /\ loc[w].self[1] = SelfSig[h] /\ h \in Hash  BY <2>4, InCall, Zenon
    <2>6. Self(w) = <<loc[w].self, h>>  BY Zenon DEF Self
    <2>7. old \in Seq(Hash)  BY <2>2, Types, Zenon DEF Round
    <2> HIDE DEF r, h
    <2>8. \A i \in DOMAIN old : old[i] # h
      <3> SUFFICES ASSUME NEW i \in DOMAIN old, old[i] = h  PROVE FALSE  BY Zenon
      <3>1. PICK c \in DOMAIN column : c[1] = SelfSig[h] /\ \A x \in Worker : pc[x] \in Filing => Self(x) # <<c, h>>
        BY <2>2, ZenonT(60) DEF FilingOK
      <3>2. c = loc[w].self  BY <3>1, <2>5, <1>1, Zenon DEF NodeFormsColumn
      <3> QED  BY <3>1, <3>2, <2>4, <2>6, Zenon
    <2> HIDE DEF old
    <2>9. rounds'[r].newComer = Append(old, h) /\ ~rounds'[r].ncLocked  BY <2>2, <2>8, Zenon
    <2>10. Once(old)  BY <2>2, <1>2, Zenon DEF old
    <2>11. Once(rounds'[r].newComer)  BY <2>5, <2>7, <2>8, <2>9, <2>10
    <2> HIDE DEF Once
    <2> QED  BY <2>2, <2>9, <2>11, <1>2, Zenon
  <1> QED  BY <1>3, <1>4, Zenon

\* The slots of witnesses, after every step.
LEMMA StepSlot ==
    ASSUME TypeOK, GraphOK, CallsOK, LostOK, WitnessInOwnSlot, [Next]_vars
    PROVE  WitnessInOwnSlot'
  <1> DEFINE Right(i, v) == v \in DOMAIN vert /\ vert[v].witness = Witness /\ column[v[1]].seqNum = i
             RightThen(i, v) == v \in DOMAIN vert' /\ vert'[v].witness = Witness /\ column'[v[1]].seqNum = i
             Old(q, i) == /\ q \in DOMAIN rounds /\ i \in DOMAIN rounds[q].witnesses
                          /\ rounds'[q].witnesses[i] = rounds[q].witnesses[i]
  <1>1. ASSUME NEW i, NEW v, Right(i, v)  PROVE RightThen(i, v)
    <2>1. Kept  BY StepKept, Zenon
    <2>2. v[1] \in DOMAIN column  BY <1>1, Zenon DEF GraphOK
    <2> QED  BY <2>1, <2>2, <1>1, Zenon DEF Kept
  <1>2. \A q \in DOMAIN rounds : \A i \in DOMAIN rounds[q].witnesses : Right(i, rounds[q].witnesses[i])
    BY Zenon DEF WitnessInOwnSlot
  <1>3. SUFFICES \A q \in DOMAIN rounds' : \A i \in DOMAIN rounds'[q].witnesses :
                    Old(q, i) \/ RightThen(i, rounds'[q].witnesses[i])
    <2> HIDE DEF Right, RightThen
    <2>1. \A q \in DOMAIN rounds' : \A i \in DOMAIN rounds'[q].witnesses : RightThen(i, rounds'[q].witnesses[i])
      BY <1>1, <1>2, <1>3, Zenon
    <2> QED  BY <2>1, Zenon DEF RightThen, WitnessInOwnSlot
  <1> DEFINE P == \A q \in DOMAIN rounds' : \A i \in DOMAIN rounds'[q].witnesses :
                    Old(q, i) \/ RightThen(i, rounds'[q].witnesses[i])
  <1>4. ASSUME DOMAIN rounds' = DOMAIN rounds, \A q \in DOMAIN rounds : rounds'[q].witnesses = rounds[q].witnesses
        PROVE  P
    BY <1>4, Zenon
  <1>5. ASSUME PushRound  PROVE P
    <2>1. /\ \A r \in DOMAIN rounds : rounds'[r] = rounds[r]
          /\ \A r \in DOMAIN rounds' \ DOMAIN rounds : rounds'[r] = NewRound
      BY <1>5, PushEffect, Zenon
    <2>2. DOMAIN NewRound.witnesses = {}  BY NewRoundTyped, Zenon
    <2> QED  BY <2>1, <2>2, Zenon
  <1>6. ASSUME NEW w \in Worker, AddNodePut(w) \/ AddNodeMajor(w) \/ EventExists(w) \/ LinkOther(w) \/ InsertVertex(w)
        PROVE  P
    <2>1. UNCHANGED rounds  BY <1>6, Zenon DEF AddNodePut, AddNodeMajor, EventExists, LinkOther, InsertVertex
    <2> QED  BY <2>1, <1>4, Zenon
  <1>7. ASSUME NEW w \in Worker, FileWitness(w)  PROVE P
    <2>1. PICK r \in DOMAIN rounds :
           /\ UNCHANGED <<graph, column>>
           /\ \/ UNCHANGED <<vert, rounds>>
              \/ /\ SetWitness(Self(w), Witness) /\ Self(w) \in DOMAIN vert
                 /\ DOMAIN rounds' = DOMAIN rounds
                 /\ \A q \in DOMAIN rounds \ {r} : rounds'[q] = rounds[q]
                 /\ \A i \in DOMAIN rounds'[r].witnesses :
                      \/ i = Slot(w) /\ rounds'[r].witnesses[i] = Self(w)
                      \/ i \in DOMAIN rounds[r].witnesses /\ rounds'[r].witnesses[i] = rounds[r].witnesses[i]
      BY <1>7, FileEffect, Zenon
    <2>2. CASE UNCHANGED <<vert, rounds>>  BY <2>2, <1>4, Zenon
    <2>3. CASE /\ SetWitness(Self(w), Witness) /\ Self(w) \in DOMAIN vert
               /\ DOMAIN rounds' = DOMAIN rounds
               /\ \A q \in DOMAIN rounds \ {r} : rounds'[q] = rounds[q]
               /\ \A i \in DOMAIN rounds'[r].witnesses :
                      \/ i = Slot(w) /\ rounds'[r].witnesses[i] = Self(w)
                      \/ i \in DOMAIN rounds[r].witnesses /\ rounds'[r].witnesses[i] = rounds[r].witnesses[i]
      <3>1. DOMAIN vert' = DOMAIN vert /\ vert'[Self(w)].witness = Witness  BY <2>3, WitnessEffect, Zenon
      <3>2. Self(w)[1] = loc[w].self /\ column' = column  BY <2>1, Zenon DEF Self
      <3>3. RightThen(Slot(w), Self(w))  BY <2>3, <3>1, <3>2, Zenon DEF Slot
      <3> HIDE DEF RightThen
      <3> SUFFICES ASSUME NEW q \in DOMAIN rounds', NEW i \in DOMAIN rounds'[q].witnesses
                   PROVE  Old(q, i) \/ RightThen(i, rounds'[q].witnesses[i])
        BY Zenon
      <3>4. CASE q = r  BY <2>3, <3>3, <3>4, Zenon
      <3>5. CASE q # r  BY <2>3, <3>5, Zenon
      <3> QED  BY <3>4, <3>5, Zenon
    <2> QED  BY <2>1, <2>2, <2>3, Zenon
  <1>8. ASSUME NEW w \in Worker, addComer(w)  PROVE P
    <2>1. DOMAIN rounds' = DOMAIN rounds /\ \A q \in DOMAIN rounds : rounds'[q].witnesses = rounds[q].witnesses
      BY <1>8, ComerEffect, Zenon
    <2> QED  BY <2>1, <1>4, Zenon
  <1>9. ASSUME NEW w \in Worker, UpdateLost(w)  PROVE P
    <2> DEFINE r == loc[w].round
    <2>1. /\ DOMAIN rounds' = DOMAIN rounds /\ rounds'[r].witnesses = rounds[r].witnesses
          /\ \A q \in DOMAIN rounds \ {r} : rounds'[q] = rounds[q]
      BY <1>9, LostEffect, Zenon
    <2> HIDE DEF r
    <2>2. \A q \in DOMAIN rounds : rounds'[q].witnesses = rounds[q].witnesses  BY <2>1, Zenon
    <2> QED  BY <2>1, <2>2, <1>4, Zenon
  <1>10. ASSUME UNCHANGED <<graph, column, vert, rounds>>  PROVE P  BY <1>4, <1>10, Zenon
  <1> HIDE DEF P
  <1>11. P  BY StepCases, <1>5, <1>6, <1>7, <1>8, <1>9, <1>10, Zenon
  <1> QED  BY <1>11, Zenon DEF P

\* What a vertex is linked to, after every step.
LEMMA StepOther ==
    ASSUME TypeOK, GraphOK, CallsOK, LostOK, OtherParentMatches, [Next]_vars
    PROVE  OtherParentMatches'
  <1> DEFINE Good(v) == \/ v \in DOMAIN vert /\ vert'[v].anotherPt = vert[v].anotherPt
                        \/ vert'[v].anotherPt = Nil
                        \/ vert'[v].anotherPt \in DOMAIN vert' /\ vert'[v].anotherPt[2] = OtherPartH[v[2]]
             P == \A v \in DOMAIN vert' : Good(v)
  <1>1. DOMAIN vert \subseteq DOMAIN vert'
    <2>1. Kept  BY StepKept, Zenon
    <2> QED  BY <2>1, Zenon DEF Kept
  <1>2. SUFFICES P
    BY <1>1, <1>2, Zenon DEF OtherParentMatches
  <1>3. ASSUME UNCHANGED vert  PROVE P  BY <1>3, Zenon
  <1>4. ASSUME NEW v \in DOMAIN vert, SetWitness(v, Witness)  PROVE P  BY <1>4, WitnessEffect, Zenon
  <1>5. ASSUME NEW w \in Worker, AddNodePut(w) \/ AddNodeMajor(w) \/ addComer(w)  PROVE P
    <2>1. UNCHANGED vert  BY <1>5, Zenon DEF AddNodePut, AddNodeMajor, addComer
    <2> QED  BY <2>1, <1>3, Zenon
  <1>6. ASSUME NEW w \in Worker, EventExists(w)  PROVE P
    BY <1>3, <1>4, <1>6, ExistsEffect, Zenon
  <1>7. ASSUME NEW w \in Worker, LinkOther(w)  PROVE P
    <2>1. CASE UNCHANGED <<graph, column, vert, rounds>>  BY <2>1, <1>3, Zenon
    <2>2. CASE /\ OtherParent(w) \in DOMAIN vert /\ OtherParent(w)[2] = OtherPartH[loc[w].e.SelfHash]
               /\ DOMAIN vert' = DOMAIN vert
               /\ vert'[Self(w)].anotherPt = OtherParent(w)
               /\ \A u \in DOMAIN vert \ {Self(w)} : vert'[u] = vert[u]
      <3>1. Self(w)[2] = loc[w].e.SelfHash  BY Zenon DEF Self
      <3>2. Good(Self(w))  BY <2>2, <3>1, Zenon
      <3>3. \A u \in DOMAIN vert \ {Self(w)} : Good(u)  BY <2>2, Zenon
      <3> HIDE DEF Good
      <3> QED  BY <2>2, <3>2, <3>3, Zenon
    <2> HIDE DEF P
    <2> QED  BY <1>7, <2>1, <2>2, LinkEffect, Zenon
  <1>8. ASSUME NEW w \in Worker, FileWitness(w)  PROVE P
    <2>1. UNCHANGED <<vert, rounds>> \/ (SetWitness(Self(w), Witness) /\ Self(w) \in DOMAIN vert)
      BY <1>8, FileEffect, Zenon
    <2>2. UNCHANGED vert \/ (SetWitness(Self(w), Witness) /\ Self(w) \in DOMAIN vert)  BY <2>1, Zenon
    <2> QED  BY <2>2, <1>3, <1>4, Zenon
  <1>9. ASSUME NEW w \in Worker, InsertVertex(w)  PROVE P
    <2>1. /\ DOMAIN vert' = DOMAIN vert \cup {Self(w)} /\ vert'[Self(w)].anotherPt = Nil
          /\ \A u \in DOMAIN vert : vert'[u] = vert[u]
      BY <1>9, InsertEffect, Zenon
    <2> QED  BY <2>1, Zenon
  <1>10. ASSUME NEW w \in Worker, UpdateLost(w)  PROVE P
    <2> DEFINE r == loc[w].round
               h == loc[w].e.SelfHash
               me == Self(w)
    <2>1. /\ r \in DOMAIN rounds /\ h \in Hash /\ me \in DOMAIN vert /\ DOMAIN vert' = DOMAIN vert
          /\ \A u \in DOMAIN vert : u \in rounds[r].lostDict[h] => vert'[u].anotherPt = me
          /\ \A u \in DOMAIN vert : u \notin rounds[r].lostDict[h] => vert'[u] = vert[u]
      BY <1>10, LostEffect, Zenon
    <2>2. me[2] = h /\ h \in Pointer  BY <2>1, Zenon DEF Self, Pointer
    <2> HIDE DEF r, h, me
    <2>3. \A u \in rounds[r].lostDict[h] : OtherPartH[u[2]] = h  BY <2>1, <2>2, SMTT(30) DEF LostOK
    <2> QED  BY <2>1, <2>2, <2>3, Zenon
  <1>11. ASSUME PushRound  PROVE P  BY <1>3, <1>11, Zenon DEF PushRound
  <1>12. ASSUME UNCHANGED <<graph, column, vert, rounds>>  PROVE P  BY <1>3, <1>12, Zenon
  <1> HIDE DEF P
  <1> QED  BY StepCases, <1>5, <1>6, <1>7, <1>8, <1>9, <1>10, <1>11, <1>12, Zenon

\* Only UpdateLost changes what waits in a round.
LEMMA DictsKept ==
    ASSUME TypeOK, GraphOK, CallsOK, [Next]_vars, ~\E w \in Worker : UpdateLost(w), NEW q \in DOMAIN rounds
    PROVE  q \in DOMAIN rounds' /\ rounds'[q].lostDict = rounds[q].lostDict
  <1> DEFINE P == q \in DOMAIN rounds' /\ rounds'[q].lostDict = rounds[q].lostDict
  <1>1. ASSUME UNCHANGED rounds  PROVE P  BY <1>1, Zenon
  <1>2. ASSUME PushRound  PROVE P  BY <1>2, PushEffect, Zenon
  <1>3. ASSUME NEW w \in Worker, AddNodePut(w) \/ AddNodeMajor(w) \/ EventExists(w) \/ LinkOther(w) \/ InsertVertex(w)
        PROVE  P
    <2>1. UNCHANGED rounds  BY <1>3, Zenon DEF AddNodePut, AddNodeMajor, EventExists, LinkOther, InsertVertex
    <2> QED  BY <2>1, <1>1, Zenon
  <1>4. ASSUME NEW w \in Worker, FileWitness(w)  PROVE P
    <2>1. PICK r \in DOMAIN rounds :
             \/ UNCHANGED <<vert, rounds>>
             \/ /\ DOMAIN rounds' = DOMAIN rounds
                /\ \A x \in DOMAIN rounds \ {r} : rounds'[x] = rounds[x]
                /\ rounds'[r].lostDict = rounds[r].lostDict
      BY <1>4, FileEffect, Zenon
    <2>2. UNCHANGED rounds \/ P  BY <2>1, Zenon
    <2> QED  BY <2>2, <1>1, Zenon
  <1>5. ASSUME NEW w \in Worker, addComer(w)  PROVE P
    BY <1>5, ComerEffect, Zenon
  <1>6. ASSUME UNCHANGED <<graph, column, vert, rounds>>  PROVE P  BY <1>1, <1>6, Zenon
  <1> HIDE DEF P
  <1>7. P  BY StepCases, <1>2, <1>3, <1>4, <1>5, <1>6, Zenon
  <1> QED  BY <1>7, Zenon DEF P

\* No vertex is forgotten, after every step.
LEMMA StepWaits ==
    ASSUME TypeOK, GraphOK, CallsOK, LostOK, FilingOK, UnlinkedWaits, [Next]_vars
    PROVE  UnlinkedWaits'
  <1>1. \A v \in DOMAIN vert : v \in DOMAIN vert' /\ (vert'[v].anotherPt = Nil => vert[v].anotherPt = Nil)
    <2>1. Kept  BY StepKept, Zenon
    <2> QED  BY <2>1, Zenon DEF Kept
  <1>2. \A v \in DOMAIN vert : v \notin InProgress /\ vert[v].anotherPt = Nil =>
            \E r \in DOMAIN rounds : v \in rounds[r].lostDict[OtherPartH[v[2]]]
    BY Zenon DEF UnlinkedWaits
  <1>3. SUFFICES ASSUME NEW v \in DOMAIN vert', v \notin InProgress', vert'[v].anotherPt = Nil
                 PROVE  \E r \in DOMAIN rounds' : v \in rounds'[r].lostDict[OtherPartH[v[2]]]
    BY Zenon DEF UnlinkedWaits
  <1>4. CASE ~\E w \in Worker : UpdateLost(w)
    <2>1. v \in DOMAIN vert /\ v \notin InProgress
      <3> DEFINE P == v \in DOMAIN vert /\ v \notin InProgress
      <3>1. ASSUME Steady, DOMAIN vert' = DOMAIN vert  PROVE P  BY <1>3, <3>1, ProgressSteady, Zenon
      <3>2. ASSUME Steady, UNCHANGED <<graph, column, vert, rounds>>  PROVE P  BY <3>1, <3>2, Zenon
      <3>3. ASSUME Steady, PushRound  PROVE P
        <4>1. UNCHANGED vert  BY <3>3, Zenon DEF PushRound
        <4> QED  BY <4>1, <3>1, <3>3, Zenon
      <3>4. ASSUME NEW w \in Worker, Steady, AddNodePut(w) \/ AddNodeMajor(w)  PROVE P
        <4>1. UNCHANGED vert  BY <3>4, Zenon DEF AddNodePut, AddNodeMajor
        <4> QED  BY <4>1, <3>1, <3>4, Zenon
      <3>5. ASSUME NEW w \in Worker, Steady, EventExists(w)  PROVE P
        <4>1. DOMAIN vert' = DOMAIN vert  BY <3>5, ExistsEffect, WitnessEffect, Zenon
        <4> QED  BY <4>1, <3>1, <3>5, Zenon
      <3>6. ASSUME NEW w \in Worker, Steady, LinkOther(w)  PROVE P
        <4>1. DOMAIN vert' = DOMAIN vert  BY <3>6, LinkEffect, Zenon
        <4> QED  BY <4>1, <3>1, <3>6, Zenon
      <3>7. ASSUME NEW w \in Worker, Steady, FileWitness(w)  PROVE P
        <4>1. UNCHANGED <<vert, rounds>> \/ (SetWitness(Self(w), Witness) /\ Self(w) \in DOMAIN vert)
          BY <3>7, FileEffect, Zenon
        <4>2. DOMAIN vert' = DOMAIN vert  BY <4>1, WitnessEffect, Zenon
        <4> QED  BY <4>2, <3>1, <3>7, Zenon
      <3>8. ASSUME NEW w \in Worker, InsertVertex(w)  PROVE P
        <4>1. DOMAIN vert' = DOMAIN vert \cup {Self(w)}  BY <3>8, InsertEffect, Zenon
        <4>2. \A u : u \in InProgress' <=> u \in InProgress \/ u = Self(w)  BY <3>8, Turns, Zenon
        <4> QED  BY <4>1, <4>2, <1>3, Zenon
      <3>9. ASSUME NEW w \in Worker, addComer(w)  PROVE P
        <4>1. UNCHANGED vert  BY <3>9, Zenon DEF addComer
        <4>2. \A u : u \in InProgress' <=> u \in InProgress  BY <3>9, Turns, Zenon
        <4> QED  BY <4>1, <4>2, <1>3, Zenon
      <3> HIDE DEF P
      <3>10. P  BY StepCases, <1>4, <3>2, <3>3, <3>4, <3>5, <3>6, <3>7, <3>8, <3>9, Zenon
      <3> QED  BY <3>10, Zenon DEF P
    <2>2. PICK r \in DOMAIN rounds : v \in rounds[r].lostDict[OtherPartH[v[2]]]  BY <2>1, <1>1, <1>2, <1>3, Zenon
    <2>3. r \in DOMAIN rounds' /\ rounds'[r].lostDict = rounds[r].lostDict  BY <1>4, DictsKept, Zenon
    <2> QED  BY <2>2, <2>3, Zenon
  <1>5. CASE \E w \in Worker : UpdateLost(w)
    <2>1. PICK w \in Worker : UpdateLost(w)  BY <1>5, Zenon
    <2> DEFINE r == loc[w].round
               h == loc[w].e.SelfHash
               me == Self(w)
               g == OtherPartH[v[2]]
    <2>2. /\ r \in DOMAIN rounds /\ h \in Hash /\ me \in DOMAIN vert /\ DOMAIN vert' = DOMAIN vert
          /\ \A u \in DOMAIN vert : u \in rounds[r].lostDict[h] => vert'[u].anotherPt = me
          /\ DOMAIN rounds' = DOMAIN rounds
          /\ \A q \in DOMAIN rounds \ {r} : rounds'[q] = rounds[q]
          /\ \A k \in Pointer : \A u : u \in rounds'[r].lostDict[k] <=>
                \/ u \in rounds[r].lostDict[k] /\ k # h
                \/ loc[w].linkpost /\ k = OtherPartH[h] /\ u = me
      BY <2>1, LostEffect, Zenon
    <2>3. pc[w] \in Working /\ \A u : u \in InProgress' <=> u \in InProgress /\ u # me  BY <2>1, Turns, Zenon
    <2>4. v \in DOMAIN vert /\ vert[v].anotherPt = Nil  BY <2>2, <1>1, <1>3, Zenon
    <2>5. v \in Vertex /\ me \in Vertex /\ me # Nil  BY <2>2, <2>4, Types, GraphAssumption, SMTT(30)
    <2>6. g \in Pointer  BY <2>5, GraphAssumption, Zenon DEF Vertex, Pointer
    <2>7. CASE v = me
      <3>1. CallOK(w) /\ pc[w] # "idle"  BY <2>3, Zenon DEF CallsOK, Working, Filing
      <3>2. loc[w].linkpost  BY <3>1, <2>3, <2>4, <2>7, Zenon DEF CallOK
      <3>3. g = OtherPartH[h]  BY <2>7, Zenon DEF Self
      <3> HIDE DEF r, h, me, g
      <3>4. v \in rounds'[r].lostDict[g]  BY <3>2, <3>3, <2>2, <2>6, <2>7, Zenon
      <3> QED  BY <3>4, <2>2, Zenon DEF g
    <2>8. CASE v # me
      <3>1. v \notin InProgress  BY <2>3, <2>8, <1>3, Zenon
      <3>2. PICK q \in DOMAIN rounds : v \in rounds[q].lostDict[g]  BY <3>1, <2>4, <1>2, Zenon
      <3> HIDE DEF r, h, me, g
      <3>3. v \notin rounds[r].lostDict[h]  BY <2>2, <2>4, <2>5, <1>3, Zenon
      <3>4. v \in rounds'[q].lostDict[g]  BY <3>2, <3>3, <2>2, <2>6, Zenon
      <3> QED  BY <3>2, <3>4, <2>2, Zenon DEF g
    <2> QED  BY <2>7, <2>8, Zenon
  <1> QED  BY <1>4, <1>5, Zenon

\* Only InsertVertex adds a vertex or raises the top of a column that was there
\* from the start.
LEMMA TopsKept ==
    ASSUME TypeOK, GraphOK, CallsOK, [Next]_vars, ~\E w \in Worker : InsertVertex(w)
    PROVE  /\ DOMAIN vert' = DOMAIN vert /\ Known' = Known
           /\ \A c \in Known \X {Boot} : column'[c].verTop = column[c].verTop
  <1> DEFINE P == /\ DOMAIN vert' = DOMAIN vert /\ Known' = Known
                  /\ \A c \in Known \X {Boot} : column'[c].verTop = column[c].verTop
  <1>1. ASSUME UNCHANGED column, DOMAIN vert' = DOMAIN vert  PROVE P
    BY <1>1, Zenon DEF Known
  <1>2. \A c \in Known \X {Boot} : c \in DOMAIN column  BY SMTT(30) DEF Known
  <1>3. ASSUME UNCHANGED <<graph, column, vert, rounds>>  PROVE P  BY <1>1, <1>3, Zenon
  <1>4. ASSUME PushRound  PROVE P  BY <1>1, <1>4, Zenon DEF PushRound
  <1>5. ASSUME NEW w \in Worker, AddNodePut(w)  PROVE P
    <2>1. Known' = Known /\ (\A x \in DOMAIN column : column'[x] = column[x]) /\ UNCHANGED vert  BY <1>5, PutEffect, Zenon
    <2> QED  BY <2>1, <1>2, Zenon
  <1>6. ASSUME NEW w \in Worker, AddNodeMajor(w)  PROVE P
    <2> DEFINE c == <<NodeArg(w), w>>
    <2> HIDE DEF c
    <2>1. /\ c \notin Known \X {Boot} /\ \A x \in DOMAIN column \ {c} : column'[x] = column[x]
          /\ Known' = Known /\ UNCHANGED vert
      BY <1>6, MajorEffect, Zenon DEF c
    <2> QED  BY <2>1, <1>2, Zenon
  <1>7. ASSUME NEW w \in Worker, EventExists(w)  PROVE P
    <2>1. DOMAIN vert' = DOMAIN vert /\ UNCHANGED column  BY <1>7, ExistsEffect, WitnessEffect, Zenon
    <2> QED  BY <2>1, <1>1, Zenon
  <1>8. ASSUME NEW w \in Worker, LinkOther(w)  PROVE P
    <2>1. DOMAIN vert' = DOMAIN vert /\ UNCHANGED column  BY <1>8, LinkEffect, Zenon
    <2> QED  BY <2>1, <1>1, Zenon
  <1>9. ASSUME NEW w \in Worker, FileWitness(w)  PROVE P
    <2>1. /\ UNCHANGED <<graph, column>>
          /\ UNCHANGED <<vert, rounds>> \/ (SetWitness(Self(w), Witness) /\ Self(w) \in DOMAIN vert)
      BY <1>9, FileEffect, Zenon
    <2>2. DOMAIN vert' = DOMAIN vert  BY <2>1, WitnessEffect, Zenon
    <2> QED  BY <2>1, <2>2, <1>1, Zenon
  <1>10. ASSUME NEW w \in Worker, addComer(w)  PROVE P  BY <1>1, <1>10, Zenon DEF addComer
  <1>11. ASSUME NEW w \in Worker, UpdateLost(w)  PROVE P
    <2>1. DOMAIN vert' = DOMAIN vert /\ UNCHANGED <<graph, column>>  BY <1>11, LostEffect, Zenon
    <2> QED  BY <2>1, <1>1, Zenon
  <1> HIDE DEF P
  <1>12. P  BY StepCases, <1>3, <1>4, <1>5, <1>6, <1>7, <1>8, <1>9, <1>10, <1>11, Zenon
  <1> QED  BY <1>12, Zenon DEF P

\* The chain of a column is finite, and grows by one.
LEMMA ChainSize ==
    ASSUME NEW c
    PROVE  /\ Cardinality(hashChain(c)) \in Nat
           /\ \A h : h \notin hashChain(c) => Cardinality(hashChain(c) \cup {h}) = Cardinality(hashChain(c)) + 1
  <1>1. IsFiniteSet(hashChain(c))  BY FS_Subset, GraphAssumption, Zenon DEF hashChain
  <1> QED  BY <1>1, FS_CardinalityType, FS_AddElement, Zenon

\* A new vertex is the only change to the chains: its hash joins the chain of its
\* column.
LEMMA ChainGrows ==
    ASSUME TypeOK, GraphOK, CallsOK, NEW w \in Worker, InsertVertex(w), NEW c
    PROVE  /\ c # loc[w].self => hashChain(c)' = hashChain(c)
           /\ c = loc[w].self => /\ loc[w].e.SelfHash \notin hashChain(c)
                                 /\ hashChain(c)' = hashChain(c) \cup {loc[w].e.SelfHash}
  <1> DEFINE h == loc[w].e.SelfHash
  <1>1. Self(w) = <<loc[w].self, h>>  BY Zenon DEF Self
  <1>2. Self(w) \notin DOMAIN vert /\ DOMAIN vert' = DOMAIN vert \cup {Self(w)} /\ Self(w) \in Vertex
    BY InsertEffect, Zenon
  <1>3. h \in Hash  BY <1>1, <1>2, SMTT(30) DEF Vertex
  <1> QED  BY <1>1, <1>2, <1>3, SMTT(30) DEF hashChain

\* Walks along selfPt end, after every step.
LEMMA StepWalk ==
    ASSUME TypeOK, GraphOK, CallsOK, LostOK, SelfWalkEnds, [Next]_vars
    PROVE  SelfWalkEnds'
  <1> DEFINE Walk(c, n, s) ==
                 /\ s \in [1..n -> hashChain(c)]
                 /\ \A i, j \in 1..n : s[i] = s[j] => i = j
                 /\ \A i \in 1..n : vert[<<c, s[i]>>].selfPt = ZeroHash
                                    \/ \E j \in 1..(i - 1) : s[j] = vert[<<c, s[i]>>].selfPt
             WalkThen(c, n, s, S) ==
                 /\ s \in [1..n -> S]
                 /\ \A i, j \in 1..n : s[i] = s[j] => i = j
                 /\ \A i \in 1..n : vert'[<<c, s[i]>>].selfPt = ZeroHash
                                    \/ \E j \in 1..(i - 1) : s[j] = vert'[<<c, s[i]>>].selfPt
  <1>1. \A v \in DOMAIN vert : v \in DOMAIN vert' /\ vert'[v].selfPt = vert[v].selfPt
    <2>1. Kept  BY StepKept, Zenon
    <2> QED  BY <2>1, Zenon DEF Kept
  <1>2. ASSUME NEW c \in DOMAIN column  PROVE \E s : Walk(c, Cardinality(hashChain(c)), s)
    <2> DEFINE n == Cardinality(hashChain(c))
    <2>1. \E s \in [1..n -> hashChain(c)] :
            /\ \A i, j \in 1..n : s[i] = s[j] => i = j
            /\ \A i \in 1..n : vert[<<c, s[i]>>].selfPt = ZeroHash
                               \/ \E j \in 1..(i - 1) : s[j] = vert[<<c, s[i]>>].selfPt
      BY Zenon DEF SelfWalkEnds
    <2> QED  BY <2>1, Zenon
  <1>3. SUFFICES ASSUME NEW c \in DOMAIN column'
                 PROVE  \E s : WalkThen(c, Cardinality(hashChain(c)'), s, hashChain(c)')
    BY Zenon DEF SelfWalkEnds, hashChain
  <1> DEFINE S == hashChain(c)
             n == Cardinality(S)
  <1>4. \A h \in S : <<c, h>> \in DOMAIN vert  BY Zenon DEF hashChain
  <1>5. n \in Nat  BY ChainSize, Zenon
  <1>6. ASSUME hashChain(c)' = S, c \in DOMAIN column
        PROVE  \E s : WalkThen(c, Cardinality(hashChain(c)'), s, hashChain(c)')
    <2>1. PICK s : Walk(c, n, s)  BY <1>2, <1>6, Zenon
    <2> HIDE DEF n, S
    <2>2. \A i \in 1..n : vert'[<<c, s[i]>>].selfPt = vert[<<c, s[i]>>].selfPt
      BY <2>1, <1>1, <1>4, Zenon DEF S
    <2>3. WalkThen(c, n, s, S)  BY <2>1, <2>2, Zenon DEF S
    <2> QED  BY <2>3, <1>6, Zenon DEF n
  <1>7. ASSUME hashChain(c)' = {}
        PROVE  \E s : WalkThen(c, Cardinality(hashChain(c)'), s, hashChain(c)')
    <2>1. Cardinality({}) = 0  BY FS_EmptySet, Zenon
    <2>2. 1..0 = {}  BY SMTT(30)
    <2>3. [i \in {} |-> c] \in [1..0 -> {}]  BY <2>2, Zenon
    <2>4. WalkThen(c, 0, [i \in {} |-> c], {})  BY <2>2, <2>3, Zenon
    <2> HIDE DEF WalkThen
    <2> QED  BY <2>1, <2>4, <1>7, Zenon
  <1>8. CASE ~\E w \in Worker : InsertVertex(w)
    <2>1. DOMAIN vert' = DOMAIN vert  BY <1>8, TopsKept, Zenon
    <2>2. hashChain(c)' = S  BY <2>1, Zenon DEF hashChain
    <2>3. c \notin DOMAIN column => S = {}  BY Zenon DEF hashChain, GraphOK
    <2> QED  BY <2>2, <2>3, <1>6, <1>7, Zenon
  <1>9. CASE \E w \in Worker : InsertVertex(w)
    <2>1. PICK w \in Worker : InsertVertex(w)  BY <1>9, Zenon
    <2> DEFINE h == loc[w].e.SelfHash
    <2>2. /\ c # loc[w].self => hashChain(c)' = S
          /\ c = loc[w].self => h \notin S /\ hashChain(c)' = S \cup {h}
      BY <2>1, ChainGrows, Zenon
    <2>3. DOMAIN column' = DOMAIN column  BY <2>1, InsertEffect, Zenon
    <2>4. CASE c # loc[w].self  BY <2>2, <2>3, <2>4, <1>6, Zenon
    <2>5. CASE c = loc[w].self
      <3>1. h \notin S /\ hashChain(c)' = S \cup {h} /\ Cardinality(S \cup {h}) = n + 1  BY <2>2, <2>5, ChainSize, Zenon
      <3>2. PICK s : Walk(c, n, s)  BY <2>3, <1>2, SMTT(30)
      <3> DEFINE t == [i \in 1..(n + 1) |-> IF i = n + 1 THEN h ELSE s[i]]
                 top == column[c].verTop
      <3>3. vert'[<<c, h>>].selfPt = top  BY <2>1, <2>5, InsertEffect, Zenon DEF Self
      <3>4. top = ZeroHash \/ top \in S
        <4>1. column[c] \in ColumnRec  BY <2>3, Types, Zenon
        <4>2. top \in Hash \cup {ZeroHash}  BY <4>1, Zenon DEF ColumnRec, Pointer
        <4> QED  BY <4>2, <2>3, Zenon DEF GraphOK, hashChain
      <3> HIDE DEF n, S, h, top
      <3>5. s \in [1..n -> S] /\ (\A i, j \in 1..n : s[i] = s[j] => i = j)
        BY <3>2, Zenon DEF S
      <3>6. \A i \in 1..n : vert'[<<c, s[i]>>].selfPt = vert[<<c, s[i]>>].selfPt
        BY <3>5, <1>1, <1>4, Zenon
      <3>7. \A i \in 1..n : vert'[<<c, s[i]>>].selfPt = ZeroHash
                            \/ \E j \in 1..(i - 1) : s[j] = vert'[<<c, s[i]>>].selfPt
        BY <3>2, <3>6, Zenon
      <3>8. \A i \in 1..n : t[i] = s[i]  BY <1>5, SMTT(30)
      <3>9. t[n + 1] = h  BY <1>5, SMTT(30)
      <3>10. t \in [1..(n + 1) -> S \cup {h}]  BY <3>5, <1>5, SMTT(30)
      <3> HIDE DEF t
      <3>11. \A i, j \in 1..(n + 1) : t[i] = t[j] => i = j
        <4>1. \A i \in 1..n : t[i] # h  BY <3>1, <3>5, <3>8
        <4>2. \A i \in 1..(n + 1) : i \in 1..n \/ i = n + 1  BY <1>5, SMTT(30)
        <4> QED  BY <4>1, <4>2, <3>5, <3>8, <3>9, Zenon
      <3>12. top = ZeroHash \/ \E j \in 1..n : t[j] = top
        <4>1. s \in Surjection(1..n, S)
          <5>1. s \in Injection(1..n, S)  BY <3>5, Zenon DEF Injection, IsInjective
          <5>2. IsFiniteSet(S)  BY FS_Subset, GraphAssumption, Zenon DEF S, hashChain
          <5>3. Cardinality(1..n) = Cardinality(S)  BY <1>5, FS_Interval DEF n
          <5> QED  BY <5>1, <5>2, <5>3, FS_Injection, Zenon
        <4>2. ASSUME top \in S  PROVE \E j \in 1..n : s[j] = top  BY <4>1, <4>2, Zenon DEF Surjection
        <4> QED  BY <4>2, <3>4, <3>8, Zenon
      <3>13. WalkThen(c, n + 1, t, S \cup {h})
        <4>1. ASSUME NEW i \in 1..(n + 1)
              PROVE  vert'[<<c, t[i]>>].selfPt = ZeroHash
                     \/ \E j \in 1..(i - 1) : t[j] = vert'[<<c, t[i]>>].selfPt
          <5>1. CASE i = n + 1  BY <5>1, <3>3, <3>9, <3>12, <1>5, SMTT(30)
          <5>2. CASE i \in 1..n
            <6>1. t[i] = s[i]  BY <5>2, <3>8, Zenon
            <6>2. \A j \in 1..(i - 1) : t[j] = s[j]  BY <5>2, <3>8, <1>5, SMTT(30)
            <6> QED  BY <5>2, <6>1, <6>2, <3>7, Zenon
          <5> QED  BY <5>1, <5>2, <1>5, SMTT(30)
        <4> QED  BY <4>1, <3>10, <3>11, Zenon
      <3> HIDE DEF WalkThen
      <3> QED  BY <3>1, <3>13, Zenon
    <2> QED  BY <2>4, <2>5, Zenon
  <1> QED  BY <1>8, <1>9, Zenon

\* A column that was there from the start is one chain, after every step.
LEMMA StepChain ==
    ASSUME TypeOK, GraphOK, CallsOK, LostOK, ColumnIsChain, [Next]_vars
    PROVE  ColumnIsChain'
  <1> DEFINE Chain(c, n, s) ==
                 /\ s \in [1..n -> hashChain(c)]
                 /\ \A i, j \in 1..n : s[i] = s[j] => i = j
                 /\ \A i \in 1..n : vert[<<c, s[i]>>].selfPt = IF i = 1 THEN ZeroHash ELSE s[i - 1]
                 /\ column[c].verTop = IF n = 0 THEN ZeroHash ELSE s[n]
             ChainThen(c, n, s, S) ==
                 /\ s \in [1..n -> S]
                 /\ \A i, j \in 1..n : s[i] = s[j] => i = j
                 /\ \A i \in 1..n : vert'[<<c, s[i]>>].selfPt = IF i = 1 THEN ZeroHash ELSE s[i - 1]
                 /\ column'[c].verTop = IF n = 0 THEN ZeroHash ELSE s[n]
  <1>1. \A v \in DOMAIN vert : v \in DOMAIN vert' /\ vert'[v].selfPt = vert[v].selfPt
    <2>1. Kept  BY StepKept, Zenon
    <2> QED  BY <2>1, Zenon DEF Kept
  <1>2. ASSUME NEW c \in Known \X {Boot}  PROVE \E s : Chain(c, Cardinality(hashChain(c)), s)
    <2> DEFINE n == Cardinality(hashChain(c))
    <2>1. \E s \in [1..n -> hashChain(c)] :
            /\ \A i, j \in 1..n : s[i] = s[j] => i = j
            /\ \A i \in 1..n : vert[<<c, s[i]>>].selfPt = IF i = 1 THEN ZeroHash ELSE s[i - 1]
            /\ column[c].verTop = IF n = 0 THEN ZeroHash ELSE s[n]
      BY Zenon DEF ColumnIsChain
    <2> QED  BY <2>1, Zenon
  <1>3. SUFFICES ASSUME NEW c \in Known' \X {Boot}
                 PROVE  \E s : ChainThen(c, Cardinality(hashChain(c)'), s, hashChain(c)')
    <2>1. ASSUME NEW c, \E s : ChainThen(c, Cardinality(hashChain(c)'), s, hashChain(c)')
          PROVE  \E s \in [1..Cardinality(hashChain(c)') -> hashChain(c)'] :
                    /\ \A i, j \in 1..Cardinality(hashChain(c)') : s[i] = s[j] => i = j
                    /\ \A i \in 1..Cardinality(hashChain(c)') :
                          vert'[<<c, s[i]>>].selfPt = IF i = 1 THEN ZeroHash ELSE s[i - 1]
                    /\ column'[c].verTop = IF Cardinality(hashChain(c)') = 0 THEN ZeroHash
                                           ELSE s[Cardinality(hashChain(c)')]
      BY <2>1, Zenon
    <2> HIDE DEF ChainThen
    <2> QED  BY <2>1, Zenon DEF ColumnIsChain
  <1> DEFINE S == hashChain(c)
             n == Cardinality(S)
  <1>4. \A h \in S : <<c, h>> \in DOMAIN vert  BY Zenon DEF hashChain
  <1>5. n \in Nat  BY ChainSize, Zenon
  <1>6. ASSUME hashChain(c)' = S, c \in Known \X {Boot}, column'[c].verTop = column[c].verTop
        PROVE  \E s : ChainThen(c, Cardinality(hashChain(c)'), s, hashChain(c)')
    <2>1. PICK s : Chain(c, n, s)  BY <1>2, <1>6, Zenon
    <2> HIDE DEF n, S
    <2>2. \A i \in 1..n : vert'[<<c, s[i]>>].selfPt = vert[<<c, s[i]>>].selfPt
      BY <2>1, <1>1, <1>4, Zenon DEF S
    <2>3. ChainThen(c, n, s, S)  BY <2>1, <2>2, <1>6, Zenon DEF S
    <2> HIDE DEF ChainThen
    <2> QED  BY <2>3, <1>6, Zenon DEF n
  <1>7. CASE ~\E w \in Worker : InsertVertex(w)
    <2>1. /\ DOMAIN vert' = DOMAIN vert /\ Known' = Known
          /\ \A x \in Known \X {Boot} : column'[x].verTop = column[x].verTop
      BY <1>7, TopsKept, Zenon
    <2>2. hashChain(c)' = S  BY <2>1, Zenon DEF hashChain
    <2> QED  BY <2>1, <2>2, <1>6, Zenon
  <1>8. CASE \E w \in Worker : InsertVertex(w)
    <2>1. PICK w \in Worker : InsertVertex(w)  BY <1>8, Zenon
    <2> DEFINE h == loc[w].e.SelfHash
    <2>2. /\ c # loc[w].self => hashChain(c)' = S
          /\ c = loc[w].self => h \notin S /\ hashChain(c)' = S \cup {h}
      BY <2>1, ChainGrows, Zenon
    <2>3. /\ Known' = Known /\ column'[loc[w].self].verTop = h
          /\ \A x \in DOMAIN column \ {loc[w].self} : column'[x] = column[x]
      BY <2>1, InsertEffect, Zenon
    <2>4. c \in Known \X {Boot} /\ c \in DOMAIN column  BY <2>3, SMTT(30) DEF Known
    <2>5. CASE c # loc[w].self  BY <2>2, <2>3, <2>4, <2>5, <1>6, Zenon
    <2>6. CASE c = loc[w].self
      <3>1. h \notin S /\ hashChain(c)' = S \cup {h} /\ Cardinality(S \cup {h}) = n + 1  BY <2>2, <2>6, ChainSize, Zenon
      <3>2. PICK s : Chain(c, n, s)  BY <2>4, <1>2, Zenon
      <3> DEFINE t == [i \in 1..(n + 1) |-> IF i = n + 1 THEN h ELSE s[i]]
      <3>3. vert'[<<c, h>>].selfPt = column[c].verTop  BY <2>1, <2>6, InsertEffect, Zenon DEF Self
      <3>4. column'[c].verTop = h  BY <2>3, <2>6, Zenon
      <3> HIDE DEF n, S, h
      <3>5. s \in [1..n -> S] /\ (\A i, j \in 1..n : s[i] = s[j] => i = j)
        BY <3>2, Zenon DEF S
      <3>6. \A i \in 1..n : vert'[<<c, s[i]>>].selfPt = IF i = 1 THEN ZeroHash ELSE s[i - 1]
        BY <3>2, <3>5, <1>1, <1>4, Zenon
      <3>7. column[c].verTop = IF n = 0 THEN ZeroHash ELSE s[n]  BY <3>2, Zenon
      <3>8. \A i \in 1..n : t[i] = s[i]  BY <1>5, SMTT(30)
      <3>9. t[n + 1] = h  BY <1>5, SMTT(30)
      <3>10. t \in [1..(n + 1) -> S \cup {h}]  BY <3>5, <1>5, SMTT(30)
      <3> HIDE DEF t
      <3>11. \A i, j \in 1..(n + 1) : t[i] = t[j] => i = j
        <4>1. \A i \in 1..n : t[i] # h  BY <3>1, <3>5, <3>8, SMTT(30)
        <4>2. \A i \in 1..(n + 1) : i \in 1..n \/ i = n + 1  BY <1>5, SMTT(30)
        <4> QED  BY <4>1, <4>2, <3>5, <3>8, <3>9, Zenon
      <3>12. ASSUME NEW i \in 1..(n + 1)
             PROVE  vert'[<<c, t[i]>>].selfPt = IF i = 1 THEN ZeroHash ELSE t[i - 1]
        <4>1. CASE i = n + 1
          <5>1. vert'[<<c, t[i]>>].selfPt = IF n = 0 THEN ZeroHash ELSE s[n]  BY <4>1, <3>3, <3>7, <3>9, Zenon
          <5>2. n # 0 => t[n] = s[n] /\ i - 1 = n /\ i # 1  BY <4>1, <3>8, <1>5, SMTT(30)
          <5>3. n = 0 => i = 1  BY <4>1, SMTT(30)
          <5> QED  BY <5>1, <5>2, <5>3, Zenon
        <4>2. CASE i \in 1..n
          <5>1. t[i] = s[i] /\ (i # 1 => t[i - 1] = s[i - 1])  BY <4>2, <3>8, <1>5, SMTT(30)
          <5> QED  BY <4>2, <5>1, <3>6, Zenon
        <4> QED  BY <4>1, <4>2, <1>5, SMTT(30)
      <3>13. column'[c].verTop = IF n + 1 = 0 THEN ZeroHash ELSE t[n + 1]  BY <3>4, <3>9, <1>5, SMTT(30)
      <3>14. ChainThen(c, n + 1, t, S \cup {h})  BY <3>10, <3>11, <3>12, <3>13, Zenon
      <3> HIDE DEF ChainThen
      <3> QED  BY <3>1, <3>14, Zenon
    <2> QED  BY <2>5, <2>6, Zenon
  <1> QED  BY <1>7, <1>8, Zenon

----------------------------------------------------------------------------
\* The graph starts with the columns of some known nodes, and empty.
LEMMA InitIInv == NewJPGraph => IInv
  <1> SUFFICES ASSUME NewJPGraph  PROVE IInv  BY Zenon
  <1>0. PICK known \in Start : \E sn \in [known -> 0..(Cardinality(known) - 1)] :
           column = [c \in known \X {Boot} |-> [seqNum |-> sn[c[1]], verTop |-> ZeroHash]]
    BY Zenon DEF NewJPGraph
  <1>1. PICK sn \in [known -> 0..(Cardinality(known) - 1)] :
           column = [c \in known \X {Boot} |-> [seqNum |-> sn[c[1]], verTop |-> ZeroHash]]
    BY <1>0, Zenon
  <1>2. /\ graph = [a \in Address |-> IF a \in Known THEN <<a, Boot>> ELSE Nil]
        /\ vert = [v \in {} |-> Nil] /\ rounds = [i \in {0} |-> NewRound]
        /\ pc = [w \in Worker |-> "idle"] /\ loc = [w \in Worker |-> NoCall]
    BY Zenon DEF NewJPGraph
  <1>3. known \subseteq Address  BY GraphAssumption, Zenon
  <1>4. DOMAIN column = known \X {Boot} /\ DOMAIN vert = {} /\ DOMAIN rounds = {0}  BY <1>1, <1>2, Zenon
  <1>5. Known = known  BY <1>3, <1>4, Zenon DEF Known
  <1>6. rounds[0] = NewRound  BY <1>2, Zenon
  <1>7. TypeOK
    <2>1. graph \in [Address -> Column \cup {Nil}]  BY <1>2, Zenon DEF Column
    <2>2. DOMAIN column \subseteq Column  BY <1>3, <1>4, Zenon DEF Column
    <2>3. column \in [DOMAIN column -> ColumnRec]
      <3>1. \A a \in known : sn[a] \in Nat  BY <1>1, SMTT(30)
      <3>2. \A c \in known \X {Boot} : [seqNum |-> sn[c[1]], verTop |-> ZeroHash] \in ColumnRec
        BY <3>1, Zenon DEF ColumnRec, Pointer
      <3> QED  BY <3>2, <1>1, <1>4, Zenon
    <2>4. DOMAIN vert \subseteq Vertex /\ vert \in [DOMAIN vert -> VertexRec]  BY <1>2, Zenon
    <2>5. IsFiniteSet(DOMAIN rounds)  BY <1>4, FS_Singleton, ZenonT(60)
    <2>6. 0 \in DOMAIN rounds /\ DOMAIN rounds \subseteq Nat  BY <1>4, SMTT(30)
    <2>7. rounds \in [DOMAIN rounds -> Round]  BY <1>2, NewRoundTyped, Zenon
    <2>8. pc \in [Worker -> {"idle", "insert"} \cup Naming \cup Inserted] /\ loc \in [Worker -> Call]
      BY <1>2, NoCallTyped, Zenon
    <2> QED  BY <1>5, <2>1, <2>2, <2>3, <2>4, <2>5, <2>6, <2>7, <2>8, Zenon DEF TypeOK
  <1>8. \A c \in DOMAIN column : c[1] \in Known /\ graph[c[1]] = c /\ c # Nil /\ column[c].verTop = ZeroHash
    <2> SUFFICES ASSUME NEW c \in DOMAIN column
                 PROVE  c[1] \in Known /\ graph[c[1]] = c /\ c # Nil /\ column[c].verTop = ZeroHash
      BY Zenon
    <2>1. PICK a \in known : c = <<a, Boot>>  BY <1>4, SMTT(30)
    <2>2. c[1] = a  BY <2>1, Zenon
    <2>3. graph[a] = <<a, Boot>>  BY <1>2, <1>3, <1>5, Zenon
    <2>4. c \in Column  BY <1>7, Types, Zenon
    <2>5. c # Nil  BY <2>4, GraphAssumption, Zenon
    <2>6. column[c].verTop = ZeroHash  BY <1>1, <1>4, Zenon
    <2> QED  BY <1>5, <2>1, <2>2, <2>3, <2>5, <2>6, Zenon
  <1>9. GraphOK
    <2>1. \A a \in Address : graph[a] # Nil => graph[a] \in DOMAIN column /\ graph[a][1] = a
      BY <1>2, <1>4, <1>5, Zenon
    <2> QED  BY <2>1, <1>4, <1>8, Zenon DEF GraphOK
  <1>10. \A w \in Worker : pc[w] = "idle"  BY <1>2, Zenon
  <1>11. CallsOK  BY <1>10, Zenon DEF CallsOK, CallOK
  <1>12. LostOK
    <2>1. \A h \in Pointer : rounds[0].lostDict[h] = {}  BY <1>6, NewRoundTyped, Zenon
    <2> QED  BY <2>1, <1>4, Zenon DEF LostOK
  <1>13. DOMAIN rounds[0].newComer = {} /\ ~rounds[0].ncLocked /\ DOMAIN rounds[0].witnesses = {}
    <2>1. DOMAIN NewRound.newComer = {} /\ DOMAIN NewRound.witnesses = {}  BY NewRoundTyped, SMTT(30)
    <2> QED  BY <2>1, <1>6, NewRoundTyped, Zenon
  <1>14. FilingOK
    <2>1. "idle" \notin Working  BY Zenon DEF Working, Filing
    <2> QED  BY <2>1, <1>4, <1>10, <1>13, Zenon DEF FilingOK
  <1>15. OtherParentMatches /\ UnlinkedWaits  BY <1>4, Zenon DEF OtherParentMatches, UnlinkedWaits
  <1>16. WitnessInOwnSlot  BY <1>4, <1>13, Zenon DEF WitnessInOwnSlot
  <1>17. NoLockLeak
    <2>1. \A r \in DOMAIN rounds : r = 0  BY <1>4, Zenon
    <2> QED  BY <2>1, <1>13, Zenon DEF NoLockLeak
  <1>18. \A c : hashChain(c) = {}  BY <1>4, Zenon DEF hashChain
  <1>19. \A c : Cardinality(hashChain(c)) = 0 /\ 1..0 = {} /\ [i \in {} |-> Nil] \in [1..0 -> {}]
    BY <1>18, FS_EmptySet, SMTT(30)
  <1>20. SelfWalkEnds  BY <1>18, <1>19, Zenon DEF SelfWalkEnds
  <1>21. ColumnIsChain
    <2>1. \A c \in Known \X {Boot} : column[c].verTop = ZeroHash  BY <1>4, <1>5, <1>8, Zenon
    <2> QED  BY <2>1, <1>18, <1>19, Zenon DEF ColumnIsChain
  <1> QED  BY <1>7, <1>9, <1>11, <1>12, <1>14, <1>15, <1>16, <1>17, <1>20, <1>21, Zenon DEF IInv

\* Every step keeps the inductive invariant.
LEMMA StepIInv == IInv /\ [Next]_vars => IInv'
  <1> SUFFICES ASSUME IInv, [Next]_vars  PROVE IInv'  BY Zenon
  <1>1. /\ TypeOK /\ GraphOK /\ CallsOK /\ LostOK /\ FilingOK
        /\ OtherParentMatches /\ UnlinkedWaits /\ WitnessInOwnSlot /\ NoLockLeak
        /\ SelfWalkEnds /\ ColumnIsChain
    BY Zenon DEF IInv
  <1>2. TypeOK' /\ GraphOK'  BY <1>1, StepTypes, StepGraph, Zenon
  <1>3. CallsOK' /\ LostOK' /\ FilingOK'  BY <1>1, StepCalls, StepLost, StepFiling, Zenon
  <1>4. OtherParentMatches' /\ UnlinkedWaits'  BY <1>1, StepOther, StepWaits, Zenon
  <1>5. WitnessInOwnSlot' /\ NoLockLeak'  BY <1>1, StepSlot, StepLock, Zenon
  <1>6. SelfWalkEnds' /\ ColumnIsChain'  BY <1>1, StepWalk, StepChain, Zenon
  <1> QED  BY <1>2, <1>3, <1>4, <1>5, <1>6, Zenon DEF IInv

----------------------------------------------------------------------------
\* The inductive invariant holds in every reachable state.
THEOREM GraphInv == Spec => []IInv
  BY InitIInv, StepIInv, PTL DEF Spec

\* A node's column that was there from the start is one chain from its top to its
\* first vertex, whatever AddEvent goroutines insert into it.
THEOREM ColumnsAreChains == Spec => []ColumnIsChain
  <1>1. IInv => ColumnIsChain  BY Zenon DEF IInv
  <1> QED  BY <1>1, GraphInv, PTL

\* Every walk along selfPt stays in its column and ends, even in a column whose
\* verTop AddNode has cleared under other goroutines.
THEOREM WalksEnd == Spec => []SelfWalkEnds
  <1>1. IInv => SelfWalkEnds  BY Zenon DEF IInv
  <1> QED  BY <1>1, GraphInv, PTL

\* A vertex is linked to its other parent and to nothing else.
THEOREM LinksRight == Spec => []OtherParentMatches
  <1>1. IInv => OtherParentMatches  BY Zenon DEF IInv
  <1> QED  BY <1>1, GraphInv, PTL

\* AddEvent forgets no vertex: it has its other parent, or waits in lostDict.
THEOREM NoneForgotten == Spec => []UnlinkedWaits
  <1>1. IInv => UnlinkedWaits  BY Zenon DEF IInv
  <1> QED  BY <1>1, GraphInv, PTL

\* A witness stands in the slot of its own column.
THEOREM SlotsOwn == Spec => []WitnessInOwnSlot
  <1>1. IInv => WitnessInOwnSlot  BY Zenon DEF IInv
  <1> QED  BY <1>1, GraphInv, PTL

\* addComer never returns with nc locked while every node has one column.
THEOREM LockReleased == Spec => []NoLockLeak
  <1>1. IInv => NoLockLeak  BY Zenon DEF IInv
  <1> QED  BY <1>1, GraphInv, PTL

\* No step takes back a column, a vertex, a self parent, a link to another parent
\* or the type of a witness.
THEOREM GraphGrows == Spec => [][Kept]_vars
  <1>1. IInv /\ [Next]_vars => [Kept]_vars
    <2> SUFFICES ASSUME IInv, [Next]_vars  PROVE Kept  BY Zenon
    <2>1. TypeOK /\ GraphOK /\ CallsOK /\ LostOK  BY Zenon DEF IInv
    <2> QED  BY <2>1, StepKept, Zenon
  <1> QED  BY <1>1, GraphInv, PTL DEF Spec

============================================================================
