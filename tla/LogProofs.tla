------------------------------ MODULE LogProofs ------------------------------
(***************************************************************************)
(* Proofs about package log, module Log, for any handlers, any goroutines, *)
(* any settings and any messages.  The invariant behind CacheFresh and     *)
(* LoggerCtxKept assumes nothing of the constants, so it says of a value   *)
(* no more than its shape.  DecisionsExplained, about what GlogHandler     *)
(* lets pass, has as hypotheses that levels are numbers, and that what is  *)
(* behind the channel of BufferedHandler has no GlogHandler of its own.    *)
(***************************************************************************)
EXTENDS Log, SequenceTheorems, TLAPS

IsSeq(s) == \E S : s \in Seq(S)

Setting(s) == s = [level |-> s.level, patterns |-> s.patterns, location |-> s.location]

\* A frame that has got one of the first n records.
Frame(f, n) ==
    /\ f = [h |-> f.h, r |-> f.r, pc |-> f.pc, i |-> f.i, x |-> f.x, v |-> f.v, out |-> f.out, from |-> f.from]
    /\ f.r \in 1..n
Frames(s, n) == IsSeq(s) /\ \A i \in DOMAIN s : Frame(s[i], n)

\* A record whose context is one of the arrays up to n, none of a logger.
Rec(r, n) == r = [lvl |-> r.lvl, site |-> r.site, ctx |-> r.ctx] /\ r.ctx \in 3..n

SettingsOK == IsSeq(settings) /\ settings # <<>> /\ \A n \in DOMAIN settings : Setting(settings[n])
GoroutineOK(s, n) ==
    /\ s = [stack |-> s.stack, ret |-> s.ret, left |-> s.left, judged |-> s.judged]
    /\ Frames(s.stack, n)
GoroutinesOK(gg, n) == gg = [p \in Process |-> gg[p]] /\ \A p \in Process : GoroutineOK(gg[p], n)
QueueOK(q, n) == IsSeq(q) /\ \A i \in DOMAIN q : q[i] \in 1..n
RecsOK(rs, cs) == IsSeq(cs) /\ Len(cs) >= 2 /\ IsSeq(rs) /\ \A i \in DOMAIN rs : Rec(rs[i], Len(cs))

\* The records that frames and the channel have are records, and no record's context
\* is the array of a logger.
ShapeOK ==
    /\ ctxOf = [l \in Logger |-> IF l = root THEN 1 ELSE 2]
    /\ RecsOK(recs, ctxs) /\ GoroutinesOK(g, Len(recs)) /\ QueueOK(queue, Len(recs))

IInv == SettingsOK /\ CacheFresh /\ ShapeOK

----------------------------------------------------------------------------
(* Sequences.                                                               *)

\* t is s with e at the end.
Appends(t, s, e) ==
    /\ IsSeq(t) /\ Len(s) \in Nat /\ DOMAIN s = 1..Len(s)
    /\ DOMAIN t = 1..(Len(s) + 1) /\ Len(t) = Len(s) + 1
    /\ t[Len(s) + 1] = e /\ \A i \in 1..Len(s) : t[i] = s[i]

\* Append.
LEMMA AppendSeq ==
    ASSUME NEW s, IsSeq(s), NEW e
    PROVE  Appends(Append(s, e), s, e)
  <1>1. PICK S : s \in Seq(S)  BY Zenon DEF IsSeq
  <1>2. s \in Seq(S \cup {e})  BY <1>1, SeqMonotonic, Zenon
  <1>3. Append(s, e) \in Seq(S \cup {e})  BY <1>2
  <1>4. /\ Len(s) \in Nat /\ DOMAIN s = 1..Len(s)
        /\ DOMAIN Append(s, e) = 1..(Len(s) + 1) /\ Len(Append(s, e)) = Len(s) + 1
        /\ Append(s, e)[Len(s) + 1] = e
    BY <1>2
  <1>5. \A i \in 1..Len(s) : Append(s, e)[i] = s[i]  BY <1>2
  <1> QED  BY <1>3, <1>4, <1>5, Zenon DEF Appends, IsSeq

\* The rest of a sequence.
LEMMA TailSeq ==
    ASSUME NEW s, IsSeq(s), s # <<>>
    PROVE  /\ IsSeq(Tail(s)) /\ Len(s) \in Nat /\ DOMAIN s = 1..Len(s) /\ Head(s) = s[1] /\ 1 \in DOMAIN s
           /\ \A i \in DOMAIN Tail(s) : i + 1 \in DOMAIN s /\ Tail(s)[i] = s[i + 1]
  <1>1. PICK S : s \in Seq(S)  BY Zenon DEF IsSeq
  <1>2. Tail(s) \in Seq(S)  BY <1>1
  <1>3. Len(s) \in Nat /\ DOMAIN s = 1..Len(s) /\ Head(s) = s[1] /\ 1 \in DOMAIN s  BY <1>1
  <1>4. \A i \in DOMAIN Tail(s) : i + 1 \in DOMAIN s /\ Tail(s)[i] = s[i + 1]  BY <1>1
  <1> QED  BY <1>2, <1>3, <1>4, Zenon DEF IsSeq

\* The elements of c are e and those of s.
Pushed(c, e, s) == IsSeq(c) /\ \A i \in DOMAIN c : c[i] = e \/ \E j \in DOMAIN s : c[i] = s[j]

\* A sequence with another element at the beginning.
LEMMA PushSeq ==
    ASSUME NEW s, IsSeq(s), NEW e
    PROVE  Pushed(<<e>> \o s, e, s)
  <1> DEFINE c == <<e>> \o s
  <1>1. PICK S : s \in Seq(S)  BY Zenon DEF IsSeq
  <1>2. s \in Seq(S \cup {e})  BY <1>1, SeqMonotonic, Zenon
  <1>3. <<e>> \in Seq(S \cup {e}) /\ Len(<<e>>) = 1 /\ <<e>>[1] = e  OBVIOUS
  <1>4. c \in Seq(S \cup {e}) /\ Len(c) = 1 + Len(s)  BY <1>2
  <1>5. c[1] = e  BY <1>2
  <1>6. \A i \in 1..Len(s) : c[1 + i] = s[i]  BY <1>2
  <1> HIDE DEF c
  <1>7. ASSUME NEW i \in DOMAIN c
        PROVE  c[i] = e \/ \E j \in DOMAIN s : c[i] = s[j]
    <2>1. i \in 1..(1 + Len(s)) /\ DOMAIN s = 1..Len(s) /\ Len(s) \in Nat  BY <1>2, <1>4
    <2>2. CASE i = 1  BY <1>5, <2>2, Zenon
    <2>3. CASE i # 1
      <3>1. i - 1 \in 1..Len(s) /\ 1 + (i - 1) = i  BY <2>1, <2>3
      <3> QED  BY <1>6, <2>1, <3>1, Zenon
    <2> QED  BY <2>2, <2>3, Zenon
  <1> QED  BY <1>4, <1>7, Zenon DEF Pushed, IsSeq, c

\* An element is replaced.
LEMMA ExceptedSeq ==
    ASSUME NEW s, IsSeq(s), NEW i, NEW e
    PROVE  LET t == [s EXCEPT ![i] = e] IN
           /\ IsSeq(t) /\ Len(s) \in Nat /\ Len(t) = Len(s) /\ DOMAIN t = DOMAIN s /\ DOMAIN s = 1..Len(s)
           /\ \A j \in DOMAIN s : t[j] = IF j = i THEN e ELSE s[j]
  <1> DEFINE t == [s EXCEPT ![i] = e]
  <1>1. PICK S : s \in Seq(S)  BY Zenon DEF IsSeq
  <1>2. s \in Seq(S \cup {e})  BY <1>1, SeqMonotonic, Zenon
  <1>3. Len(s) \in Nat /\ DOMAIN s = 1..Len(s)  BY <1>1
  <1>4. DOMAIN t = DOMAIN s /\ \A j \in DOMAIN s : t[j] = IF j = i THEN e ELSE s[j]  BY Zenon
  <1>5. t \in [1..Len(s) -> S \cup {e}]
    <2>1. \A j \in 1..Len(s) : s[j] \in S \cup {e}  BY <1>2
    <2>2. t = [j \in DOMAIN s |-> t[j]]  BY <1>4, Zenon
    <2>3. \A j \in DOMAIN s : t[j] \in S \cup {e}  BY <1>3, <1>4, <2>1, Zenon
    <2> HIDE DEF t
    <2> QED  BY <1>3, <2>2, <2>3, Zenon
  <1> HIDE DEF t
  <1>6. t \in Seq(S \cup {e}) /\ Len(t) = Len(s)  BY <1>3, <1>5
  <1> QED  BY <1>3, <1>4, <1>6, Zenon DEF IsSeq, t

----------------------------------------------------------------------------
(* Frames.                                                                  *)

\* A Log that begins.
LEMMA CallFrame ==
    ASSUME NEW n, NEW h, NEW r \in 1..n
    PROVE  Frame(Call(h, r), n)
  BY Zenon DEF Frame, Call

\* What a frame remembers changes, its record does not.
LEMMA FrameKept ==
    ASSUME NEW n, NEW f, Frame(f, n), NEW a, NEW b, NEW c
    PROVE  /\ Frame([f EXCEPT !.pc = a], n) /\ Frame([f EXCEPT !.i = a], n)
           /\ Frame([f EXCEPT !.pc = a, !.out = b], n)
           /\ Frame([f EXCEPT !.pc = a, !.i = b, !.v = c], n)
           /\ Frame([f EXCEPT !.pc = a, !.i = b, !.x = c], n)
  <1>1. \A d, e : Frame(d, n) => Frame([d EXCEPT !.pc = e], n)  BY DEF Frame
  <1>2. \A d, e : Frame(d, n) => Frame([d EXCEPT !.i = e], n)  BY DEF Frame
  <1>3. \A d, e : Frame(d, n) => Frame([d EXCEPT !.x = e], n)  BY DEF Frame
  <1>4. \A d, e : Frame(d, n) => Frame([d EXCEPT !.v = e], n)  BY DEF Frame
  <1>5. \A d, e : Frame(d, n) => Frame([d EXCEPT !.out = e], n)  BY DEF Frame
  <1>6. [f EXCEPT !.pc = a, !.out = b] = [[f EXCEPT !.pc = a] EXCEPT !.out = b]  BY Zenon
  <1>7. [f EXCEPT !.pc = a, !.i = b, !.v = c] = [[[f EXCEPT !.pc = a] EXCEPT !.i = b] EXCEPT !.v = c]  BY Zenon
  <1>8. [f EXCEPT !.pc = a, !.i = b, !.x = c] = [[[f EXCEPT !.pc = a] EXCEPT !.i = b] EXCEPT !.x = c]  BY Zenon
  <1> QED  BY <1>1, <1>2, <1>3, <1>4, <1>5, <1>6, <1>7, <1>8, Zenon

\* The frames below the top, and the top.
LEMMA TailFrames ==
    ASSUME NEW n, NEW s, Frames(s, n), s # <<>>
    PROVE  Frames(Tail(s), n) /\ Frame(Head(s), n)
  <1>1. IsSeq(s) /\ \A i \in DOMAIN s : Frame(s[i], n)  BY Zenon DEF Frames
  <1>2. /\ IsSeq(Tail(s)) /\ Head(s) = s[1] /\ 1 \in DOMAIN s
        /\ \A i \in DOMAIN Tail(s) : i + 1 \in DOMAIN s /\ Tail(s)[i] = s[i + 1]
    BY <1>1, TailSeq, Zenon
  <1> QED  BY <1>1, <1>2, Zenon DEF Frames

\* A frame more.
LEMMA PushFrames ==
    ASSUME NEW n, NEW s, Frames(s, n), NEW f, Frame(f, n)
    PROVE  Frames(<<f>> \o s, n)
  <1> DEFINE c == <<f>> \o s
  <1>1. IsSeq(s) /\ \A i \in DOMAIN s : Frame(s[i], n)  BY Zenon DEF Frames
  <1>2. Pushed(c, f, s)  BY <1>1, PushSeq, Zenon
  <1> HIDE DEF c
  <1>3. Frames(c, n)  BY <1>1, <1>2, Zenon DEF Frames, Pushed
  <1> QED  BY <1>3, Zenon DEF c

\* Two frames more, one after the other.
LEMMA TwoSeq ==
    ASSUME NEW s, IsSeq(s), NEW h, NEW f
    PROVE  <<h>> \o (<<f>> \o s) = <<h, f>> \o s
  <1>1. PICK S : s \in Seq(S)  BY Zenon DEF IsSeq
  <1> DEFINE U == S \cup {h, f}
  <1>2. s \in Seq(U)  BY <1>1, SeqMonotonic, Zenon
  <1>3. <<h>> \in Seq(U) /\ <<f>> \in Seq(U)  OBVIOUS
  <1>4. (<<h>> \o <<f>>) \o s = <<h>> \o (<<f>> \o s)
    <2> HIDE DEF U
    <2> QED  BY <1>2, <1>3, ConcatAssociative
  <1>5. <<h>> \o <<f>> = <<h, f>>
    <2> DEFINE c == <<h>> \o <<f>>
               d == <<h, f>>
    <2>1. c \in Seq({h, f}) /\ d \in Seq({h, f}) /\ Len(c) = 2 /\ Len(d) = 2  OBVIOUS
    <2>2. c[1] = d[1] /\ c[2] = d[2]  OBVIOUS
    <2> HIDE DEF c, d
    <2>3. \A i \in 1..Len(c) : c[i] = d[i]  BY <2>1, <2>2
    <2>4. c = d  BY <2>1, <2>3, SeqEqual, Zenon
    <2> QED  BY <2>4, Zenon DEF c, d
  <1> QED  BY <1>4, <1>5, Zenon

\* Two frames more.
LEMMA PushTwo ==
    ASSUME NEW n, NEW s, Frames(s, n), NEW f, Frame(f, n), NEW h, Frame(h, n)
    PROVE  Frames(<<h, f>> \o s, n)
  <1>1. Frames(<<f>> \o s, n)  BY PushFrames, Zenon
  <1>2. Frames(<<h>> \o (<<f>> \o s), n)  BY <1>1, PushFrames, Zenon
  <1>3. <<h>> \o (<<f>> \o s) = <<h, f>> \o s  BY TwoSeq, Zenon DEF Frames
  <1> QED  BY <1>2, <1>3, Zenon

\* More records.
LEMMA MoreRecs ==
    ASSUME NEW n \in Nat, NEW k \in Nat, n <= k
    PROVE  /\ \A gg : GoroutinesOK(gg, n) => GoroutinesOK(gg, k)
           /\ \A q : QueueOK(q, n) => QueueOK(q, k)
           /\ \A s : Frames(s, n) => Frames(s, k)
           /\ \A f : Frame(f, n) => Frame(f, k)
  <1>1. 1..n \subseteq 1..k  OBVIOUS
  <1>2. \A f : Frame(f, n) => Frame(f, k)  BY <1>1, Zenon DEF Frame
  <1>3. \A s : Frames(s, n) => Frames(s, k)  BY <1>2, Zenon DEF Frames
  <1>4. \A gg : GoroutinesOK(gg, n) => GoroutinesOK(gg, k)  BY <1>3, Zenon DEF GoroutinesOK, GoroutineOK
  <1>5. \A q : QueueOK(q, n) => QueueOK(q, k)  BY <1>1, Zenon DEF QueueOK
  <1> QED  BY <1>2, <1>3, <1>4, <1>5, Zenon

----------------------------------------------------------------------------
(* Goroutines.                                                              *)

\* What a goroutine may change of itself.
LEMMA GoroutineKept ==
    ASSUME NEW n, NEW s, GoroutineOK(s, n), NEW e
    PROVE  /\ Frames(e, n) => GoroutineOK([s EXCEPT !.stack = e], n)
           /\ GoroutineOK([s EXCEPT !.ret = e], n) /\ GoroutineOK([s EXCEPT !.left = e], n)
           /\ GoroutineOK([s EXCEPT !.judged = e], n)
  <1>1. Frames(e, n) => GoroutineOK([s EXCEPT !.stack = e], n)  BY DEF GoroutineOK
  <1>2. GoroutineOK([s EXCEPT !.ret = e], n)  BY DEF GoroutineOK
  <1>3. GoroutineOK([s EXCEPT !.left = e], n)  BY DEF GoroutineOK
  <1>4. GoroutineOK([s EXCEPT !.judged = e], n)  BY DEF GoroutineOK
  <1> QED  BY <1>1, <1>2, <1>3, <1>4, Zenon

\* A goroutine changes itself only.
LEMMA PutGoroutine ==
    ASSUME NEW n, NEW gg, GoroutinesOK(gg, n), NEW p \in Process, NEW s, GoroutineOK(s, n)
    PROVE  GoroutinesOK([gg EXCEPT ![p] = s], n)
  <1> DEFINE new == [gg EXCEPT ![p] = s]
  <1>1. gg = [q \in Process |-> gg[q]]  BY Zenon DEF GoroutinesOK
  <1>2. new = [q \in Process |-> new[q]] /\ new[p] = s /\ \A q \in Process : q # p => new[q] = gg[q]  BY <1>1, Zenon
  <1> HIDE DEF new
  <1>3. \A q \in Process : GoroutineOK(new[q], n)  BY <1>2, Zenon DEF GoroutinesOK
  <1>4. GoroutinesOK(new, n)  BY <1>2, <1>3, Zenon DEF GoroutinesOK
  <1> QED  BY <1>4, Zenon DEF new

\* The stack of a goroutine is replaced.
LEMMA PutStack ==
    ASSUME NEW n, NEW gg, GoroutinesOK(gg, n), NEW p \in Process, NEW s, Frames(s, n)
    PROVE  GoroutinesOK([gg EXCEPT ![p].stack = s], n)
  <1>1. GoroutineOK(gg[p], n)  BY Zenon DEF GoroutinesOK
  <1>2. GoroutineOK([gg[p] EXCEPT !.stack = s], n)  BY <1>1, GoroutineKept, Zenon
  <1>3. GoroutinesOK([gg EXCEPT ![p] = [gg[p] EXCEPT !.stack = s]], n)  BY <1>2, PutGoroutine, Zenon
  <1>4. [gg EXCEPT ![p].stack = s] = [gg EXCEPT ![p] = [gg[p] EXCEPT !.stack = s]]  BY Zenon
  <1> QED  BY <1>3, <1>4, Zenon

\* The stack of a goroutine, and what the last Log returned, are replaced.
LEMMA PutReturn ==
    ASSUME NEW n, NEW gg, GoroutinesOK(gg, n), NEW p \in Process, NEW s, Frames(s, n), NEW e
    PROVE  GoroutinesOK([gg EXCEPT ![p].stack = s, ![p].ret = e], n)
  <1> DEFINE one == [gg[p] EXCEPT !.stack = s]
             two == [one EXCEPT !.ret = e]
  <1>1. GoroutineOK(gg[p], n)  BY Zenon DEF GoroutinesOK
  <1>2. GoroutineOK(one, n)  BY <1>1, GoroutineKept, Zenon
  <1>3. GoroutineOK(two, n)
    <2> HIDE DEF one
    <2> QED  BY <1>2, GoroutineKept, Zenon
  <1>4. GoroutinesOK([gg EXCEPT ![p] = two], n)
    <2> HIDE DEF two
    <2> QED  BY <1>3, PutGoroutine, Zenon
  <1>5. [gg EXCEPT ![p].stack = s, ![p].ret = e] = [gg EXCEPT ![p] = two]
    <2>1. gg = [q \in Process |-> gg[q]]  BY Zenon DEF GoroutinesOK
    <2> QED  BY <2>1, Zenon
  <1> QED  BY <1>4, <1>5, Zenon

\* The stack of a goroutine, and the records that it has left, are replaced.
LEMMA PutWrite ==
    ASSUME NEW n, NEW gg, GoroutinesOK(gg, n), NEW p \in Process, NEW s, Frames(s, n), NEW e
    PROVE  GoroutinesOK([gg EXCEPT ![p].left = e, ![p].stack = s], n)
  <1> DEFINE one == [gg[p] EXCEPT !.left = e]
             two == [one EXCEPT !.stack = s]
  <1>1. GoroutineOK(gg[p], n)  BY Zenon DEF GoroutinesOK
  <1>2. GoroutineOK(one, n)  BY <1>1, GoroutineKept, Zenon
  <1>3. GoroutineOK(two, n)
    <2> HIDE DEF one
    <2> QED  BY <1>2, GoroutineKept, Zenon
  <1>4. GoroutinesOK([gg EXCEPT ![p] = two], n)
    <2> HIDE DEF two
    <2> QED  BY <1>3, PutGoroutine, Zenon
  <1>5. [gg EXCEPT ![p].left = e, ![p].stack = s] = [gg EXCEPT ![p] = two]
    <2>1. gg = [q \in Process |-> gg[q]]  BY Zenon DEF GoroutinesOK
    <2> QED  BY <2>1, Zenon
  <1> QED  BY <1>4, <1>5, Zenon

\* A decision is noted.
LEMMA PutJudged ==
    ASSUME NEW n, NEW gg, GoroutinesOK(gg, n), NEW p \in Process, NEW e
    PROVE  GoroutinesOK([gg EXCEPT ![p].judged = e], n)
  <1>1. GoroutineOK(gg[p], n)  BY Zenon DEF GoroutinesOK
  <1>2. GoroutineOK([gg[p] EXCEPT !.judged = e], n)  BY <1>1, GoroutineKept, Zenon
  <1>3. GoroutinesOK([gg EXCEPT ![p] = [gg[p] EXCEPT !.judged = e]], n)  BY <1>2, PutGoroutine, Zenon
  <1>4. [gg EXCEPT ![p].judged = e] = [gg EXCEPT ![p] = [gg[p] EXCEPT !.judged = e]]  BY Zenon
  <1> QED  BY <1>3, <1>4, Zenon

\* What a handler's Log does to the stack of its goroutine.
LEMMA HandlerSteps ==
    ASSUME GoroutinesOK(g, Len(recs)), NEW p \in Process, g[p].stack # <<>>
    PROVE  /\ Frame(Top(p), Len(recs)) /\ Top(p).r \in 1..Len(recs) /\ Frames(Tail(g[p].stack), Len(recs))
           /\ \A f : Frame(f, Len(recs)) => GoroutinesOK(Set(p, f), Len(recs))
           /\ \A h : GoroutinesOK(Become(p, h), Len(recs))
           /\ \A f, h : Frame(f, Len(recs)) => GoroutinesOK(Await(p, f, h), Len(recs))
           /\ \A e : GoroutinesOK(Return(p, e), Len(recs))
  <1> DEFINE n == Len(recs)
             t == Tail(g[p].stack)
  <1>1. Frames(g[p].stack, n)  BY Zenon DEF GoroutinesOK, GoroutineOK
  <1>2. Frames(t, n) /\ Frame(Top(p), n)  BY <1>1, TailFrames, Zenon DEF Top
  <1>3. \A f : Frame(f, n) => GoroutinesOK(Set(p, f), n)
    <2> TAKE f
    <2> HAVE Frame(f, n)
    <2>1. Frames(<<f>> \o t, n)  BY <1>2, PushFrames, Zenon
    <2>2. GoroutinesOK([g EXCEPT ![p].stack = <<f>> \o t], n)
      <3> DEFINE s == <<f>> \o t
      <3> HIDE DEF s
      <3>1. Frames(s, n)  BY <2>1, Zenon DEF s
      <3>2. GoroutinesOK([g EXCEPT ![p].stack = s], n)  BY <3>1, PutStack, Zenon
      <3> QED  BY <3>2, Zenon DEF s
    <2>3. Set(p, f) = [g EXCEPT ![p].stack = <<f>> \o t]  BY Zenon DEF Set
    <2> QED  BY <2>2, <2>3, Zenon
  <1>4. \A f, h : Frame(f, n) => GoroutinesOK(Await(p, f, h), n)
    <2> TAKE f, h
    <2> HAVE Frame(f, n)
    <2>1. Frame(Call(h, f.r), n)
      <3>1. f.r \in 1..n  BY Zenon DEF Frame
      <3> QED  BY <3>1, CallFrame, Zenon
    <2> DEFINE s == <<Call(h, f.r), f>> \o t
    <2>2. Await(p, f, h) = [g EXCEPT ![p].stack = s]  BY Zenon DEF Await
    <2>3. Frames(s, n)
      <3> DEFINE c == Call(h, f.r)
      <3> HIDE DEF c
      <3>1. Frame(c, n)  BY <2>1, Zenon DEF c
      <3>2. Frames(<<c, f>> \o t, n)  BY <1>2, <3>1, PushTwo, Zenon
      <3> QED  BY <3>2, Zenon DEF c
    <2> HIDE DEF s
    <2>4. GoroutinesOK([g EXCEPT ![p].stack = s], n)  BY <2>3, PutStack, Zenon
    <2> QED  BY <2>2, <2>4, Zenon
  <1>5. \A e : GoroutinesOK(Return(p, e), n)
    <2> TAKE e
    <2>1. GoroutinesOK([g EXCEPT ![p].stack = t, ![p].ret = e], n)
      <3> HIDE DEF t
      <3> QED  BY <1>2, PutReturn, Zenon
    <2>2. Return(p, e) = [g EXCEPT ![p].stack = t, ![p].ret = e]  BY Zenon DEF Return
    <2> QED  BY <2>1, <2>2, Zenon
  <1>6. Top(p).r \in 1..n  BY <1>2, Zenon DEF Frame
  <1>7. \A h : GoroutinesOK(Become(p, h), n)
    <2> TAKE h
    <2>1. Frame(Call(h, Top(p).r), n)  BY <1>6, CallFrame, Zenon
    <2> QED  BY <1>3, <2>1, Zenon DEF Become
  <1> QED  BY <1>2, <1>3, <1>4, <1>5, <1>6, <1>7, Zenon

----------------------------------------------------------------------------
(* Records and their contexts.                                              *)

\* The contexts of the loggers stay, records are not lost.
Keeps ==
    /\ RecsOK(recs', ctxs') /\ Len(recs) \in Nat /\ Len(recs') \in Nat /\ Len(recs) <= Len(recs')
    /\ ctxs'[1] = ctxs[1] /\ ctxs'[2] = ctxs[2]

\* The parts of RecsOK.
LEMMA RecTypes ==
    ASSUME RecsOK(recs, ctxs)
    PROVE  /\ IsSeq(ctxs) /\ IsSeq(recs) /\ Len(ctxs) \in Nat /\ Len(ctxs) >= 2 /\ Len(recs) \in Nat
           /\ DOMAIN ctxs = 1..Len(ctxs) /\ DOMAIN recs = 1..Len(recs)
           /\ \A i \in 1..Len(recs) : Rec(recs[i], Len(ctxs))
  <1>1. IsSeq(ctxs) /\ IsSeq(recs) /\ Len(ctxs) >= 2 /\ \A i \in DOMAIN recs : Rec(recs[i], Len(ctxs))
    BY Zenon DEF RecsOK
  <1>2. Len(ctxs) \in Nat /\ DOMAIN ctxs = 1..Len(ctxs)  BY <1>1, AppendSeq, Zenon DEF Appends
  <1>3. Len(recs) \in Nat /\ DOMAIN recs = 1..Len(recs)  BY <1>1, AppendSeq, Zenon DEF Appends
  <1> QED  BY <1>1, <1>2, <1>3, Zenon

\* Records and contexts are left alone.
LEMMA KeepsSame ==
    ASSUME RecsOK(recs, ctxs), recs' = recs, ctxs' = ctxs
    PROVE  Keeps
  <1>1. Len(recs) \in Nat /\ Len(recs) <= Len(recs)  BY RecTypes
  <1> QED  BY <1>1, Zenon DEF Keeps

\* A context becomes the last array.
LEMMA NewArray ==
    ASSUME RecsOK(recs, ctxs), NEW c
    PROVE  LET cs == Append(ctxs, c) IN
           /\ IsSeq(cs) /\ Len(cs) = Len(ctxs) + 1 /\ Len(cs) \in Nat /\ Len(cs) >= 2
           /\ Len(ctxs) + 1 \in 3..Len(cs) /\ cs[1] = ctxs[1] /\ cs[2] = ctxs[2]
           /\ \A r : Rec(r, Len(ctxs)) => Rec(r, Len(cs))
  <1> DEFINE cs == Append(ctxs, c)
  <1>1. IsSeq(ctxs) /\ Len(ctxs) \in Nat /\ Len(ctxs) >= 2  BY RecTypes, Zenon
  <1>2. IsSeq(cs) /\ Len(cs) = Len(ctxs) + 1 /\ \A i \in 1..Len(ctxs) : cs[i] = ctxs[i]
    <2>1. Appends(cs, ctxs, c)  BY <1>1, AppendSeq, Zenon
    <2> HIDE DEF cs
    <2> QED  BY <2>1, Zenon DEF Appends
  <1> HIDE DEF cs
  <1>3. Len(cs) \in Nat /\ Len(cs) >= 2 /\ Len(ctxs) + 1 \in 3..Len(cs)  BY <1>1, <1>2
  <1>4. cs[1] = ctxs[1] /\ cs[2] = ctxs[2]
    <2>1. 1 \in 1..Len(ctxs) /\ 2 \in 1..Len(ctxs)  BY <1>1
    <2> QED  BY <1>2, <2>1, Zenon
  <1>5. \A r : Rec(r, Len(ctxs)) => Rec(r, Len(cs))
    <2>1. 3..Len(ctxs) \subseteq 3..Len(cs)  BY <1>1, <1>2
    <2> QED  BY <2>1, Zenon DEF Rec
  <1> QED  BY <1>2, <1>3, <1>4, <1>5, Zenon DEF cs

\* append copies: the array that the record had stays as it is.
LEMMA KeepsAppended ==
    ASSUME RecsOK(recs, ctxs), NEW r \in 1..Len(recs), NEW e, Appended(r, e)
    PROVE  Keeps
  <1> DEFINE c == Append(Ctx(r), e)
             k == Len(ctxs) + 1
             old == recs[r]
             new == [old EXCEPT !.ctx = k]
             rs == [recs EXCEPT ![r] = new]
  <1>1. ctxs' = Append(ctxs, c) /\ recs' = [recs EXCEPT ![r].ctx = k]  BY Zenon DEF Appended
  <1>2. recs' = rs  BY <1>1, Zenon
  <1> HIDE DEF c
  <1>3. /\ IsSeq(ctxs') /\ Len(ctxs') \in Nat /\ Len(ctxs') >= 2 /\ k \in 3..Len(ctxs')
        /\ ctxs'[1] = ctxs[1] /\ ctxs'[2] = ctxs[2]
        /\ \A x : Rec(x, Len(ctxs)) => Rec(x, Len(ctxs'))
    BY <1>1, NewArray, Zenon
  <1>4. /\ IsSeq(recs) /\ Len(recs) \in Nat /\ DOMAIN recs = 1..Len(recs)
        /\ \A i \in 1..Len(recs) : Rec(recs[i], Len(ctxs))
    BY RecTypes, Zenon
  <1>5. Rec(old, Len(ctxs))  BY <1>4, Zenon
  <1> HIDE DEF k, old
  <1>6. Rec(new, Len(ctxs'))  BY <1>3, <1>5 DEF Rec
  <1> HIDE DEF new
  <1>7. IsSeq(rs) /\ Len(rs) = Len(recs) /\ DOMAIN rs = DOMAIN recs /\ \A j \in DOMAIN recs : rs[j] = IF j = r THEN new ELSE recs[j]
    BY <1>4, ExceptedSeq, Zenon
  <1> HIDE DEF rs
  <1>8. \A j \in DOMAIN recs' : Rec(recs'[j], Len(ctxs'))  BY <1>2, <1>3, <1>4, <1>6, <1>7, Zenon
  <1>9. RecsOK(recs', ctxs')  BY <1>2, <1>3, <1>7, <1>8, Zenon DEF RecsOK
  <1>10. Len(recs') \in Nat /\ Len(recs) <= Len(recs')  BY <1>2, <1>4, <1>7
  <1> QED  BY <1>3, <1>4, <1>9, <1>10, Zenon DEF Keeps

\* A new record has an array of its own.
LEMMA KeepsWrite ==
    ASSUME RecsOK(recs, ctxs), NEW p, NEW m, NEW frames, NEW left, write(p, m, frames, left)
    PROVE  Keeps /\ Len(recs') = Len(recs) + 1
  <1> DEFINE c == newContext(ctxs[ctxOf[m.l]], m.args, m.odd)
             k == Len(ctxs) + 1
             new == [lvl |-> m.lvl, site |-> m.site, ctx |-> k]
  <1>1. ctxs' = Append(ctxs, c) /\ recs' = Append(recs, new)  BY Zenon DEF write, Recorded
  <1> HIDE DEF c
  <1>2. /\ IsSeq(ctxs') /\ Len(ctxs') \in Nat /\ Len(ctxs') >= 2 /\ k \in 3..Len(ctxs')
        /\ ctxs'[1] = ctxs[1] /\ ctxs'[2] = ctxs[2]
        /\ \A x : Rec(x, Len(ctxs)) => Rec(x, Len(ctxs'))
    BY <1>1, NewArray, Zenon
  <1>3. /\ IsSeq(recs) /\ Len(recs) \in Nat /\ DOMAIN recs = 1..Len(recs)
        /\ \A i \in 1..Len(recs) : Rec(recs[i], Len(ctxs))
    BY RecTypes, Zenon
  <1> HIDE DEF k
  <1>4. Rec(new, Len(ctxs'))  BY <1>2, Zenon DEF Rec
  <1> HIDE DEF new
  <1>5. /\ IsSeq(recs') /\ Len(recs') = Len(recs) + 1 /\ DOMAIN recs' = 1..(Len(recs) + 1)
        /\ recs'[Len(recs) + 1] = new /\ \A i \in 1..Len(recs) : recs'[i] = recs[i]
    <2>1. Appends(recs', recs, new)  BY <1>1, <1>3, AppendSeq, Zenon
    <2> QED  BY <2>1, Zenon DEF Appends
  <1>6. \A j \in 1..(Len(recs) + 1) : j = Len(recs) + 1 \/ j \in 1..Len(recs)  BY <1>3
  <1>7. \A j \in DOMAIN recs' : Rec(recs'[j], Len(ctxs'))  BY <1>2, <1>3, <1>4, <1>5, <1>6, Zenon
  <1>8. RecsOK(recs', ctxs')  BY <1>2, <1>5, <1>7, Zenon DEF RecsOK
  <1>9. Len(recs') \in Nat /\ Len(recs) <= Len(recs')  BY <1>3, <1>5
  <1> QED  BY <1>2, <1>3, <1>5, <1>8, <1>9, Zenon DEF Keeps

\* BacktraceAt's location changes the level of a record, and not its context.
LEMMA KeepsLevel ==
    ASSUME RecsOK(recs, ctxs), NEW r \in 1..Len(recs), NEW e, ctxs' = ctxs,
           recs' = [recs EXCEPT ![r].lvl = e]
    PROVE  Keeps
  <1> DEFINE old == recs[r]
             new == [old EXCEPT !.lvl = e]
             rs == [recs EXCEPT ![r] = new]
  <1>1. recs' = rs  BY Zenon
  <1>2. /\ IsSeq(ctxs) /\ Len(ctxs) >= 2 /\ IsSeq(recs) /\ Len(recs) \in Nat /\ DOMAIN recs = 1..Len(recs)
        /\ \A i \in 1..Len(recs) : Rec(recs[i], Len(ctxs))
    BY RecTypes, Zenon
  <1>3. Rec(old, Len(ctxs))  BY <1>2, Zenon
  <1> HIDE DEF old
  <1>4. Rec(new, Len(ctxs))  BY <1>3 DEF Rec
  <1> HIDE DEF new
  <1>5. IsSeq(rs) /\ Len(rs) = Len(recs) /\ DOMAIN rs = DOMAIN recs /\ \A j \in DOMAIN recs : rs[j] = IF j = r THEN new ELSE recs[j]
    BY <1>2, ExceptedSeq, Zenon
  <1> HIDE DEF rs
  <1>6. \A j \in DOMAIN recs' : Rec(recs'[j], Len(ctxs))  BY <1>1, <1>2, <1>4, <1>5, Zenon
  <1>7. RecsOK(recs', ctxs')  BY <1>1, <1>2, <1>5, <1>6, Zenon DEF RecsOK
  <1>8. Len(recs') \in Nat /\ Len(recs) <= Len(recs')  BY <1>1, <1>2, <1>5
  <1> QED  BY <1>2, <1>7, <1>8, Zenon DEF Keeps

\* LazyHandler writes to the array of a record.
LEMMA KeepsStore ==
    ASSUME RecsOK(recs, ctxs), NEW r \in 1..Len(recs), NEW i, NEW e, recs' = recs,
           ctxs' = [ctxs EXCEPT ![recs[r].ctx][i].v = e]
    PROVE  Keeps
  <1> DEFINE k == recs[r].ctx
             new == [ctxs[k] EXCEPT ![i].v = e]
             cs == [ctxs EXCEPT ![k] = new]
  <1>1. ctxs' = cs  BY Zenon
  <1>2. /\ IsSeq(ctxs) /\ Len(ctxs) \in Nat /\ Len(ctxs) >= 2 /\ IsSeq(recs) /\ Len(recs) \in Nat
        /\ DOMAIN ctxs = 1..Len(ctxs) /\ \A j \in 1..Len(recs) : Rec(recs[j], Len(ctxs))
    BY RecTypes, Zenon
  <1>3. k \in 3..Len(ctxs)  BY <1>2, Zenon DEF Rec
  <1> HIDE DEF k, new
  <1>4. IsSeq(cs) /\ Len(cs) = Len(ctxs) /\ \A j \in DOMAIN ctxs : cs[j] = IF j = k THEN new ELSE ctxs[j]
    BY <1>2, ExceptedSeq, Zenon
  <1> HIDE DEF cs
  <1>5. 1 # k /\ 2 # k /\ 1 \in DOMAIN ctxs /\ 2 \in DOMAIN ctxs  BY <1>2, <1>3
  <1>6. ctxs'[1] = ctxs[1] /\ ctxs'[2] = ctxs[2]  BY <1>1, <1>4, <1>5, Zenon
  <1>7. RecsOK(recs', ctxs')  BY <1>1, <1>2, <1>4, Zenon DEF RecsOK
  <1>8. Len(recs) <= Len(recs)  BY <1>2
  <1> QED  BY <1>2, <1>6, <1>7, <1>8, Zenon DEF Keeps

----------------------------------------------------------------------------
(* The steps of the handlers.                                               *)

\* What a step may do to records, goroutines and channel.
ShapeStep ==
    Keeps /\ GoroutinesOK(g', Len(recs')) /\ QueueOK(queue', Len(recs')) /\ ctxOf' = ctxOf

\* A step that adds no record to a stack or the channel.
LEMMA Steps ==
    ASSUME ShapeOK, Keeps, GoroutinesOK(g', Len(recs)), QueueOK(queue', Len(recs)), ctxOf' = ctxOf
    PROVE  ShapeStep
  <1>1. Len(recs) \in Nat /\ Len(recs') \in Nat /\ Len(recs) <= Len(recs')  BY Zenon DEF Keeps
  <1> QED  BY <1>1, MoreRecs, Zenon DEF ShapeStep

\* A step that changes goroutines only.
LEMMA StackSteps ==
    ASSUME ShapeOK, GoroutinesOK(g', Len(recs)), UNCHANGED <<recs, ctxs, queue, ctxOf>>
    PROVE  ShapeStep
  <1>1. RecsOK(recs, ctxs) /\ QueueOK(queue, Len(recs))  BY Zenon DEF ShapeOK
  <1>2. recs' = recs /\ ctxs' = ctxs /\ queue' = queue /\ ctxOf' = ctxOf  BY Zenon
  <1>3. Keeps  BY <1>1, <1>2, KeepsSame, Zenon
  <1> QED  BY <1>1, <1>2, <1>3, Steps, Zenon

\* What there is to know of a handler's frame.
Framed(p) ==
    /\ Frame(Top(p), Len(recs)) /\ Top(p).r \in 1..Len(recs) /\ Frames(Tail(g[p].stack), Len(recs))
    /\ \A f : Frame(f, Len(recs)) => GoroutinesOK(Set(p, f), Len(recs))
    /\ \A h : GoroutinesOK(Become(p, h), Len(recs))
    /\ \A f, h : Frame(f, Len(recs)) => GoroutinesOK(Await(p, f, h), Len(recs))
    /\ \A e : GoroutinesOK(Return(p, e), Len(recs))

\* A handler that runs has got a frame.
LEMMA HasFrame ==
    ASSUME ShapeOK, NEW p \in Process, NEW k, NEW pc, At(p, k, pc)
    PROVE  Framed(p)
  <1>1. g[p].stack # <<>> /\ GoroutinesOK(g, Len(recs))  BY Zenon DEF At, ShapeOK
  <1> QED  BY <1>1, HandlerSteps, Zenon DEF Framed

\* logger.write is done.
LEMMA StepLogged ==
    ASSUME ShapeOK, NEW p \in Process, Logged(p)
    PROVE  ShapeStep
  <1>1. Framed(p)  BY HasFrame, Zenon DEF Logged
  <1>2. GoroutinesOK([Return(p, "") EXCEPT ![p].judged = Unjudged], Len(recs))
    <2>1. GoroutinesOK(Return(p, ""), Len(recs))  BY <1>1, Zenon DEF Framed
    <2> QED  BY <2>1, PutJudged, Zenon
  <1>3. GoroutinesOK(g', Len(recs)) /\ UNCHANGED <<recs, ctxs, queue, ctxOf>>  BY <1>2, Zenon DEF Logged
  <1> QED  BY <1>3, StackSteps, Zenon

\* A goroutine's decision is noted, whatever comes next.
LEMMA JudgedOK ==
    ASSUME NEW n, NEW p \in Process, NEW next, GoroutinesOK(next, n), NEW passed
    PROVE  GoroutinesOK(Judged(p, passed, next), n)
  BY PutJudged, Zenon DEF Judged

\* The level of a site decides.
LEMMA SiteLevelOK ==
    ASSUME NEW p \in Process, Framed(p), NEW level
    PROVE  GoroutinesOK(SiteLevel(p, level), Len(recs))
  <1>1. GoroutinesOK(Become(p, Top(p).h.h), Len(recs)) /\ GoroutinesOK(Return(p, ""), Len(recs))
    BY Zenon DEF Framed
  <1>2. GoroutinesOK(Judged(p, TRUE, Become(p, Top(p).h.h)), Len(recs))  BY <1>1, JudgedOK, Zenon
  <1>3. GoroutinesOK(Judged(p, FALSE, Return(p, "")), Len(recs))  BY <1>1, JudgedOK, Zenon
  <1> QED  BY <1>2, <1>3, Zenon DEF SiteLevel

\* A frame of the glog handler goes on.
LEMMA GlogOn ==
    ASSUME NEW p \in Process, Framed(p), NEW pc
    PROVE  GoroutinesOK(Set(p, Glog(p, pc)), Len(recs))
  <1>1. Frame(Glog(p, pc), Len(recs))  BY FrameKept, Zenon DEF Framed, Glog
  <1> QED  BY <1>1, Zenon DEF Framed

\* GlogHandler.Log.
LEMMA StepGlog ==
    ASSUME ShapeOK, NEW p \in Process, GlogLog(p)
    PROVE  ShapeStep
  <1>1. CASE GlogBacktrace(p)
    <2>1. Framed(p)  BY <1>1, HasFrame, Zenon DEF GlogBacktrace
    <2>2. GoroutinesOK(g', Len(recs)) /\ UNCHANGED <<recs, ctxs, queue, ctxOf>>
      BY <1>1, <2>1, GlogOn, Zenon DEF GlogBacktrace, GlogStep
    <2> QED  BY <2>2, StackSteps, Zenon
  <1>2. CASE GlogLocation(p)
    <2>1. Framed(p)  BY <1>2, HasFrame, Zenon DEF GlogLocation
    <2>2. GoroutinesOK(g', Len(recs)) /\ ctxs' = ctxs /\ queue' = queue /\ ctxOf' = ctxOf
      BY <1>2, <2>1, GlogOn, Zenon DEF GlogLocation, GlogStep
    <2>3. recs' = recs \/ recs' = [recs EXCEPT ![Top(p).r].lvl = LvlInfo]  BY <1>2, Zenon DEF GlogLocation
    <2>4. RecsOK(recs, ctxs) /\ Top(p).r \in 1..Len(recs) /\ QueueOK(queue, Len(recs))
      BY <2>1, Zenon DEF ShapeOK, Framed
    <2>5. Keeps  BY <2>2, <2>3, <2>4, KeepsSame, KeepsLevel, Zenon
    <2> QED  BY <2>2, <2>4, <2>5, Steps, Zenon
  <1>3. CASE GlogLevel(p)
    <2>1. Framed(p)  BY <1>3, HasFrame, Zenon DEF GlogLevel
    <2>2. GoroutinesOK(Judged(p, TRUE, Become(p, Top(p).h.h)), Len(recs))
      <3>1. GoroutinesOK(Become(p, Top(p).h.h), Len(recs))  BY <2>1, Zenon DEF Framed
      <3> QED  BY <3>1, JudgedOK, Zenon
    <2>3. GoroutinesOK(Set(p, Glog(p, "override")), Len(recs))  BY <2>1, GlogOn, Zenon
    <2>4. GoroutinesOK(g', Len(recs))  BY <1>3, <2>2, <2>3, Zenon DEF GlogLevel
    <2>5. UNCHANGED <<recs, ctxs, queue, ctxOf>>  BY <1>3, Zenon DEF GlogLevel, GlogStep
    <2> QED  BY <2>4, <2>5, StackSteps, Zenon
  <1>4. CASE GlogOverride(p)
    <2>1. Framed(p)  BY <1>4, HasFrame, Zenon DEF GlogOverride
    <2>2. GoroutinesOK(Judged(p, FALSE, Return(p, "")), Len(recs))
      <3>1. GoroutinesOK(Return(p, ""), Len(recs))  BY <2>1, Zenon DEF Framed
      <3> QED  BY <3>1, JudgedOK, Zenon
    <2>3. GoroutinesOK(Set(p, Glog(p, "cache")), Len(recs))  BY <2>1, GlogOn, Zenon
    <2>4. GoroutinesOK(g', Len(recs))  BY <1>4, <2>2, <2>3, Zenon DEF GlogOverride
    <2>5. UNCHANGED <<recs, ctxs, queue, ctxOf>>  BY <1>4, Zenon DEF GlogOverride, GlogStep
    <2> QED  BY <2>4, <2>5, StackSteps, Zenon
  <1>5. CASE GlogCache(p)
    <2>1. Framed(p)  BY <1>5, HasFrame, Zenon DEF GlogCache
    <2>2. \A level : GoroutinesOK(SiteLevel(p, level), Len(recs))  BY <2>1, SiteLevelOK, Zenon
    <2>3. GoroutinesOK(Set(p, Glog(p, "rules")), Len(recs))  BY <2>1, GlogOn, Zenon
    <2>4. GoroutinesOK(g', Len(recs))  BY <1>5, <2>2, <2>3, Zenon DEF GlogCache
    <2>5. UNCHANGED <<recs, ctxs, queue, ctxOf>>  BY <1>5, Zenon DEF GlogCache, GlogStep
    <2> QED  BY <2>4, <2>5, StackSteps, Zenon
  <1>6. CASE GlogRules(p)
    <2>1. Framed(p)  BY <1>6, HasFrame, Zenon DEF GlogRules
    <2>2. \A level : GoroutinesOK(SiteLevel(p, level), Len(recs))  BY <2>1, SiteLevelOK, Zenon
    <2>3. GoroutinesOK(g', Len(recs))  BY <1>6, <2>2, Zenon DEF GlogRules
    <2>4. UNCHANGED <<recs, ctxs, queue, ctxOf>>  BY <1>6, Zenon DEF GlogRules, GlogStep
    <2> QED  BY <2>3, <2>4, StackSteps, Zenon
  <1> QED  BY <1>1, <1>2, <1>3, <1>4, <1>5, <1>6, Zenon DEF GlogLog

\* swapHandler.Log.
LEMMA StepSwapped ==
    ASSUME ShapeOK, NEW p \in Process, Swapped(p)
    PROVE  ShapeStep
  <1>1. Framed(p)  BY HasFrame, Zenon DEF Swapped
  <1>2. GoroutinesOK(g', Len(recs))  BY <1>1, Zenon DEF Swapped, Framed
  <1>3. UNCHANGED <<recs, ctxs, queue, ctxOf>>  BY Zenon DEF Swapped
  <1> QED  BY <1>2, <1>3, StackSteps, Zenon

\* DiscardHandler.
LEMMA StepDiscard ==
    ASSUME ShapeOK, NEW p \in Process, DiscardLog(p)
    PROVE  ShapeStep
  <1>1. Framed(p)  BY HasFrame, Zenon DEF DiscardLog
  <1>2. GoroutinesOK(g', Len(recs))  BY <1>1, Zenon DEF DiscardLog, Framed
  <1>3. UNCHANGED <<recs, ctxs, queue, ctxOf>>  BY Zenon DEF DiscardLog, Quiet, Still
  <1> QED  BY <1>2, <1>3, StackSteps, Zenon

\* FilterHandler.
LEMMA StepFilter ==
    ASSUME ShapeOK, NEW p \in Process, FilterLog(p)
    PROVE  ShapeStep
  <1>1. Framed(p)  BY HasFrame, Zenon DEF FilterLog
  <1>2. GoroutinesOK(g', Len(recs))  BY <1>1, Zenon DEF FilterLog, Framed
  <1>3. UNCHANGED <<recs, ctxs, queue, ctxOf>>  BY Zenon DEF FilterLog, Quiet, Still
  <1> QED  BY <1>2, <1>3, StackSteps, Zenon

\* MultiHandler.
LEMMA StepMulti ==
    ASSUME ShapeOK, NEW p \in Process, MultiLog(p)
    PROVE  ShapeStep
  <1>1. Framed(p)  BY HasFrame, Zenon DEF MultiLog
  <1>2. Frame([Top(p) EXCEPT !.i = Top(p).i + 1], Len(recs))  BY <1>1, FrameKept, Zenon DEF Framed
  <1>3. GoroutinesOK(g', Len(recs))  BY <1>1, <1>2, Zenon DEF MultiLog, Framed
  <1>4. UNCHANGED <<recs, ctxs, queue, ctxOf>>  BY Zenon DEF MultiLog, Quiet, Still
  <1> QED  BY <1>3, <1>4, StackSteps, Zenon

\* FailoverHandler, before a handler.
LEMMA StepFailover ==
    ASSUME ShapeOK, NEW p \in Process, FailoverLog(p)
    PROVE  ShapeStep
  <1>1. Framed(p)  BY HasFrame, Zenon DEF FailoverLog
  <1>2. Frame([Top(p) EXCEPT !.pc = "back"], Len(recs))  BY <1>1, FrameKept, Zenon DEF Framed
  <1>3. GoroutinesOK(g', Len(recs))  BY <1>1, <1>2, Zenon DEF FailoverLog, Framed
  <1>4. UNCHANGED <<recs, ctxs, queue, ctxOf>>  BY Zenon DEF FailoverLog, Quiet, Still
  <1> QED  BY <1>3, <1>4, StackSteps, Zenon

\* SyncHandler takes its mutex.
LEMMA StepSyncLock ==
    ASSUME ShapeOK, NEW p \in Process, SyncLock(p)
    PROVE  ShapeStep
  <1>1. Framed(p)  BY HasFrame, Zenon DEF SyncLock
  <1>2. Frame([Top(p) EXCEPT !.pc = "back"], Len(recs))  BY <1>1, FrameKept, Zenon DEF Framed
  <1>3. GoroutinesOK(g', Len(recs))  BY <1>1, <1>2, Zenon DEF SyncLock, Framed
  <1>4. UNCHANGED <<recs, ctxs, queue, ctxOf>>  BY Zenon DEF SyncLock, Still
  <1> QED  BY <1>3, <1>4, StackSteps, Zenon

\* SyncHandler gives its mutex back.
LEMMA StepSyncUnlock ==
    ASSUME ShapeOK, NEW p \in Process, SyncUnlock(p)
    PROVE  ShapeStep
  <1>1. Framed(p)  BY HasFrame, Zenon DEF SyncUnlock
  <1>2. GoroutinesOK(g', Len(recs))  BY <1>1, Zenon DEF SyncUnlock, Framed
  <1>3. UNCHANGED <<recs, ctxs, queue, ctxOf>>  BY Zenon DEF SyncUnlock, Still
  <1> QED  BY <1>2, <1>3, StackSteps, Zenon

\* StreamHandler formats.
LEMMA StepStreamFormat ==
    ASSUME ShapeOK, NEW p \in Process, StreamFormat(p)
    PROVE  ShapeStep
  <1>1. Framed(p)  BY HasFrame, Zenon DEF StreamFormat
  <1>2. Frame([Top(p) EXCEPT !.pc = "out", !.out = Ctx(Top(p).r)], Len(recs))  BY <1>1, FrameKept, Zenon DEF Framed
  <1>3. GoroutinesOK(g', Len(recs))  BY <1>1, <1>2, Zenon DEF StreamFormat, Framed
  <1>4. UNCHANGED <<recs, ctxs, queue, ctxOf>>  BY Zenon DEF StreamFormat, Still
  <1> QED  BY <1>3, <1>4, StackSteps, Zenon

\* StreamHandler writes.
LEMMA StepStreamWrite ==
    ASSUME ShapeOK, NEW p \in Process, StreamWrite(p)
    PROVE  ShapeStep
  <1>1. Framed(p)  BY HasFrame, Zenon DEF StreamWrite
  <1>2. GoroutinesOK(g', Len(recs))  BY <1>1, Zenon DEF StreamWrite, Framed
  <1>3. UNCHANGED <<recs, ctxs, queue, ctxOf>>  BY Zenon DEF StreamWrite, Still
  <1> QED  BY <1>2, <1>3, StackSteps, Zenon

\* CallerFileHandler.
LEMMA StepCallerFile ==
    ASSUME ShapeOK, NEW p \in Process, CallerFileLog(p)
    PROVE  ShapeStep
  <1>1. Framed(p)  BY HasFrame, Zenon DEF CallerFileLog
  <1>2. GoroutinesOK(g', Len(recs))  BY <1>1, Zenon DEF CallerFileLog, Framed
  <1>3. RecsOK(recs, ctxs) /\ Top(p).r \in 1..Len(recs) /\ QueueOK(queue, Len(recs))
    BY <1>1, Zenon DEF ShapeOK, Framed
  <1>4. Keeps  BY <1>3, KeepsAppended, Zenon DEF CallerFileLog
  <1>5. queue' = queue /\ ctxOf' = ctxOf  BY Zenon DEF CallerFileLog, Quiet, Still
  <1> QED  BY <1>2, <1>3, <1>4, <1>5, Steps, Zenon

\* FailoverHandler, after a handler.
LEMMA StepFailoverBack ==
    ASSUME ShapeOK, NEW p \in Process, FailoverBack(p)
    PROVE  ShapeStep
  <1>1. Framed(p)  BY HasFrame, Zenon DEF FailoverBack
  <1>2. Frame([Top(p) EXCEPT !.pc = "in", !.i = Top(p).i + 1, !.x = g[p].ret], Len(recs))
    BY <1>1, FrameKept, Zenon DEF Framed
  <1>3. GoroutinesOK(g', Len(recs))  BY <1>1, <1>2, Zenon DEF FailoverBack, Framed
  <1>4. RecsOK(recs, ctxs) /\ Top(p).r \in 1..Len(recs) /\ QueueOK(queue, Len(recs))
    BY <1>1, Zenon DEF ShapeOK, Framed
  <1>5. (recs' = recs /\ ctxs' = ctxs) \/ \E e : Appended(Top(p).r, e)  BY Zenon DEF FailoverBack, Explained
  <1>6. Keeps  BY <1>4, <1>5, KeepsSame, KeepsAppended, Zenon
  <1>7. queue' = queue /\ ctxOf' = ctxOf  BY Zenon DEF FailoverBack, Quiet, Still
  <1> QED  BY <1>3, <1>4, <1>6, <1>7, Steps, Zenon

\* ChannelHandler.
LEMMA StepChannel ==
    ASSUME ShapeOK, NEW p \in Process, ChannelLog(p)
    PROVE  ShapeStep
  <1> DEFINE n == Len(recs)
             r == Top(p).r
  <1>1. Framed(p)  BY HasFrame, Zenon DEF ChannelLog
  <1>2. GoroutinesOK(g', n)  BY <1>1, Zenon DEF ChannelLog, Framed
  <1>3. RecsOK(recs, ctxs) /\ r \in 1..n /\ QueueOK(queue, n)  BY <1>1, Zenon DEF ShapeOK, Framed
  <1>4. recs' = recs /\ ctxs' = ctxs /\ ctxOf' = ctxOf /\ queue' = Append(queue, r)  BY Zenon DEF ChannelLog, Still
  <1>5. Keeps  BY <1>3, <1>4, KeepsSame, Zenon
  <1>6. QueueOK(queue', n)
    <2>1. Appends(queue', queue, r)  BY <1>3, <1>4, AppendSeq, Zenon DEF QueueOK
    <2> HIDE DEF r, n
    <2>2. Len(queue) \in Nat  BY <2>1, Zenon DEF Appends
    <2>3. \A i \in 1..(Len(queue) + 1) : i = Len(queue) + 1 \/ i \in 1..Len(queue)  BY <2>2
    <2> QED  BY <1>3, <2>1, <2>3, Zenon DEF Appends, QueueOK
  <1> QED  BY <1>2, <1>4, <1>5, <1>6, Steps, Zenon

\* The goroutine of BufferedHandler takes a record from the channel.
LEMMA StepFlush ==
    ASSUME ShapeOK, Flush
    PROVE  ShapeStep
  <1> DEFINE n == Len(recs)
             f == Call(Flushed, Head(queue))
             s == <<f>>
  <1>1. RecsOK(recs, ctxs) /\ GoroutinesOK(g, n) /\ QueueOK(queue, n)  BY Zenon DEF ShapeOK
  <1>2. /\ queue # <<>> /\ queue' = Tail(queue) /\ g' = [g EXCEPT ![Flusher].stack = s]
        /\ recs' = recs /\ ctxs' = ctxs /\ ctxOf' = ctxOf
    BY Zenon DEF Flush, Still
  <1>3. IsSeq(queue) /\ \A i \in DOMAIN queue : queue[i] \in 1..n  BY <1>1, Zenon DEF QueueOK
  <1>4. /\ IsSeq(Tail(queue)) /\ Head(queue) = queue[1] /\ 1 \in DOMAIN queue
        /\ \A i \in DOMAIN Tail(queue) : i + 1 \in DOMAIN queue /\ Tail(queue)[i] = queue[i + 1]
    BY <1>2, <1>3, TailSeq, Zenon
  <1>5. QueueOK(queue', n)  BY <1>2, <1>3, <1>4, Zenon DEF QueueOK
  <1>6. Frame(f, n)
    <2>1. Head(queue) \in 1..n  BY <1>3, <1>4, Zenon
    <2> QED  BY <2>1, CallFrame, Zenon
  <1>7. Frames(s, n)
    <2> HIDE DEF f
    <2>1. s \in Seq({f}) /\ DOMAIN s = {1} /\ s[1] = f  OBVIOUS
    <2> HIDE DEF s
    <2> QED  BY <1>6, <2>1, Zenon DEF Frames, IsSeq
  <1> HIDE DEF s
  <1>8. Flusher \in Process  BY Zenon DEF Process
  <1>9. GoroutinesOK(g', n)  BY <1>1, <1>2, <1>7, <1>8, PutStack, Zenon
  <1>10. Keeps  BY <1>1, <1>2, KeepsSame, Zenon
  <1> QED  BY <1>2, <1>5, <1>9, <1>10, Steps, Zenon

\* A new record, with frames for it.
LEMMA StepWrite ==
    ASSUME ShapeOK, NEW p \in Process, NEW m, NEW frames, Frames(frames, Len(recs)), NEW left,
           write(p, m, frames, left), queue' = queue, ctxOf' = ctxOf
    PROVE  ShapeStep
  <1> DEFINE n == Len(recs')
             r == Len(recs) + 1
             c == Call(SwapHandler(m.l), r)
             d == Call([k |-> "logger"], r)
             f == [d EXCEPT !.i = m.lvl]
             s == <<c, f>> \o frames
  <1>1. RecsOK(recs, ctxs) /\ GoroutinesOK(g, Len(recs)) /\ QueueOK(queue, Len(recs))  BY Zenon DEF ShapeOK
  <1>2. Keeps /\ n = Len(recs) + 1  BY <1>1, KeepsWrite, Zenon
  <1>3. Len(recs) \in Nat /\ n \in Nat /\ Len(recs) <= n  BY <1>2, Zenon DEF Keeps
  <1>4. r \in 1..n  BY <1>2, <1>3
  <1>5. g' = [g EXCEPT ![p].left = left, ![p].stack = s]  BY Zenon DEF write
  <1> HIDE DEF n, r
  <1>6. Frame(c, n) /\ Frame(d, n)  BY <1>4, CallFrame, Zenon
  <1> HIDE DEF c, d
  <1>7. Frame(f, n)  BY <1>6, FrameKept, Zenon
  <1> HIDE DEF f
  <1>8. GoroutinesOK(g, n) /\ QueueOK(queue, n) /\ Frames(frames, n)  BY <1>1, <1>3, MoreRecs, Zenon
  <1>9. Frames(s, n)  BY <1>6, <1>7, <1>8, PushTwo, Zenon
  <1> HIDE DEF s
  <1>10. GoroutinesOK(g', n)  BY <1>5, <1>8, <1>9, PutWrite, Zenon
  <1> QED  BY <1>2, <1>8, <1>10, Zenon DEF ShapeStep, n

\* A logger is called.
LEMMA StepLogCall ==
    ASSUME ShapeOK, NEW p \in Goroutine, LogCall(p)
    PROVE  ShapeStep
  <1>1. p \in Process  BY Zenon DEF Process
  <1>2. queue' = queue /\ ctxOf' = ctxOf  BY Zenon DEF LogCall
  <1>3. PICK m : write(p, m, <<>>, g[p].left - 1)  BY Zenon DEF LogCall
  <1>4. Frames(<<>>, Len(recs))
    <2>1. <<>> \in Seq({}) /\ DOMAIN <<>> = {}  OBVIOUS
    <2> QED  BY <2>1, Zenon DEF Frames, IsSeq
  <1> QED  BY <1>1, <1>2, <1>3, <1>4, StepWrite, Zenon

\* LazyHandler calls a function.
LEMMA StepLazyCall ==
    ASSUME ShapeOK, NEW p \in Process, LazyCall(p)
    PROVE  ShapeStep
  <1>1. Framed(p)  BY HasFrame, Zenon DEF LazyCall
  <1>2. queue' = queue /\ ctxOf' = ctxOf  BY Zenon DEF LazyCall, Quiet, Still
  <1>3. PICK a, b, c :
           LET called == [Top(p) EXCEPT !.pc = a, !.i = b, !.v = c] IN
           \/ g' = Set(p, called) /\ recs' = recs /\ ctxs' = ctxs
           \/ write(p, Nested, <<called>> \o Tail(g[p].stack), g[p].left)
    BY Zenon DEF LazyCall
  <1> DEFINE called == [Top(p) EXCEPT !.pc = a, !.i = b, !.v = c]
  <1>4. Frame(called, Len(recs)) /\ Frames(Tail(g[p].stack), Len(recs))  BY <1>1, FrameKept, Zenon DEF Framed
  <1>5. \/ g' = Set(p, called) /\ recs' = recs /\ ctxs' = ctxs
        \/ write(p, Nested, <<called>> \o Tail(g[p].stack), g[p].left)
    BY <1>3, Zenon
  <1> HIDE DEF called
  <1>6. CASE g' = Set(p, called) /\ recs' = recs /\ ctxs' = ctxs
    <2>1. GoroutinesOK(g', Len(recs))  BY <1>1, <1>4, <1>6, Zenon DEF Framed
    <2> QED  BY <1>2, <1>6, <2>1, StackSteps, Zenon
  <1>7. CASE write(p, Nested, <<called>> \o Tail(g[p].stack), g[p].left)
    <2>1. Frames(<<called>> \o Tail(g[p].stack), Len(recs))  BY <1>4, PushFrames, Zenon
    <2> QED  BY <1>2, <1>7, <2>1, StepWrite, Zenon
  <1> QED  BY <1>5, <1>6, <1>7, Zenon

\* LazyHandler stores a value.
LEMMA StepLazyStore ==
    ASSUME ShapeOK, NEW p \in Process, LazyStore(p)
    PROVE  ShapeStep
  <1> DEFINE f == Top(p)
  <1>1. Framed(p)  BY HasFrame, Zenon DEF LazyStore
  <1>2. \A x : Frame([f EXCEPT !.pc = "in", !.i = f.i + 1, !.x = x], Len(recs))
    BY <1>1, FrameKept, Zenon DEF Framed
  <1>3. g' = Set(p, [f EXCEPT !.pc = "in", !.i = f.i + 1, !.x = IF f.v = "err" THEN "err" ELSE f.x])
    BY Zenon DEF LazyStore
  <1>4. GoroutinesOK(g', Len(recs))  BY <1>1, <1>2, <1>3, Zenon DEF Framed
  <1>5. RecsOK(recs, ctxs) /\ f.r \in 1..Len(recs) /\ QueueOK(queue, Len(recs))
    BY <1>1, Zenon DEF ShapeOK, Framed
  <1>6. recs' = recs /\ queue' = queue /\ ctxOf' = ctxOf /\ ctxs' = [ctxs EXCEPT ![recs[f.r].ctx][f.i].v = f.v]
    BY Zenon DEF LazyStore, Quiet, Still
  <1> HIDE DEF f
  <1>7. Keeps  BY <1>5, <1>6, KeepsStore, Zenon
  <1> QED  BY <1>4, <1>5, <1>6, <1>7, Steps, Zenon

\* LazyHandler has evaluated all.
LEMMA StepLazyDone ==
    ASSUME ShapeOK, NEW p \in Process, LazyDone(p)
    PROVE  ShapeStep
  <1>1. Framed(p)  BY HasFrame, Zenon DEF LazyDone
  <1>2. GoroutinesOK(g', Len(recs))  BY <1>1, Zenon DEF LazyDone, Framed
  <1>3. RecsOK(recs, ctxs) /\ Top(p).r \in 1..Len(recs) /\ QueueOK(queue, Len(recs))
    BY <1>1, Zenon DEF ShapeOK, Framed
  <1>4. (recs' = recs /\ ctxs' = ctxs) \/ \E e : Appended(Top(p).r, e)  BY Zenon DEF LazyDone
  <1>5. Keeps  BY <1>3, <1>4, KeepsSame, KeepsAppended, Zenon
  <1>6. queue' = queue /\ ctxOf' = ctxOf  BY Zenon DEF LazyDone, Quiet, Still
  <1> QED  BY <1>2, <1>3, <1>5, <1>6, Steps, Zenon

\* Any step.
LEMMA StepShape ==
    ASSUME ShapeOK, [Next]_vars
    PROVE  ShapeStep
  <1>1. ASSUME NEW p \in Process, Handle(p) PROVE ShapeStep
    BY <1>1, StepLogged, StepSwapped, StepGlog, StepDiscard, StepFilter, StepCallerFile, StepMulti, StepFailover,
       StepFailoverBack, StepChannel, StepLazyCall, StepLazyStore, StepLazyDone, StepSyncLock, StepSyncUnlock,
       StepStreamFormat, StepStreamWrite, Zenon DEF Handle
  <1>2. CASE Change \/ UNCHANGED vars
    <2>1. g' = g /\ UNCHANGED <<recs, ctxs, queue, ctxOf>>  BY <1>2, Zenon DEF Change, vars
    <2>2. GoroutinesOK(g', Len(recs))  BY <2>1, Zenon DEF ShapeOK
    <2> QED  BY <2>1, <2>2, StackSteps, Zenon
  <1> QED  BY <1>1, <1>2, StepLogCall, StepFlush, Zenon DEF Next, Run

----------------------------------------------------------------------------
(* The settings and the cache.                                              *)

\* Settings and cache are left alone.
LEMMA SameSettings ==
    ASSUME SettingsOK, CacheFresh, settings' = settings, siteCache' = siteCache
    PROVE  SettingsOK' /\ CacheFresh'
  <1>1. SettingsOK'  BY Zenon DEF SettingsOK
  <1>2. CacheFresh'  BY Zenon DEF CacheFresh, Current
  <1> QED  BY <1>1, <1>2, Zenon

\* New settings are the current ones.
LEMMA NewSettings ==
    ASSUME SettingsOK, NEW s, Setting(s), settings' = Append(settings, s)
    PROVE  SettingsOK' /\ Current' = s
  <1>1. IsSeq(settings) /\ \A n \in DOMAIN settings : Setting(settings[n])  BY Zenon DEF SettingsOK
  <1>2. Appends(settings', settings, s)  BY <1>1, AppendSeq, Zenon
  <1>3. Len(settings) \in Nat /\ Len(settings') = Len(settings) + 1  BY <1>2, Zenon DEF Appends
  <1>4. \A n \in 1..(Len(settings) + 1) : n = Len(settings) + 1 \/ n \in 1..Len(settings)  BY <1>3
  <1>5. \A n \in DOMAIN settings' : Setting(settings'[n])  BY <1>1, <1>2, <1>4, Zenon DEF Appends
  <1>6. settings' # <<>>
    <2>1. Len(<<>>) = 0 /\ Len(settings) + 1 # 0  BY <1>3
    <2> QED  BY <1>3, <2>1, Zenon
  <1>7. SettingsOK'  BY <1>2, <1>5, <1>6, Zenon DEF SettingsOK, Appends
  <1>8. Current' = s  BY <1>2, Zenon DEF Current, Appends
  <1> QED  BY <1>7, <1>8, Zenon

\* The current settings are settings.
LEMMA CurrentSetting ==
    ASSUME SettingsOK
    PROVE  Setting(Current)
  <1>1. IsSeq(settings) /\ settings # <<>> /\ \A n \in DOMAIN settings : Setting(settings[n])  BY Zenon DEF SettingsOK
  <1>2. PICK S : settings \in Seq(S)  BY <1>1, Zenon DEF IsSeq
  <1>3. Len(settings) \in DOMAIN settings  BY <1>1, <1>2
  <1> QED  BY <1>1, <1>3, Zenon DEF Current

\* Verbosity and BacktraceAt leave the patterns, Vmodule empties the cache.
LEMMA StepChange ==
    ASSUME SettingsOK, CacheFresh, Change
    PROVE  SettingsOK' /\ CacheFresh'
  <1>1. Setting(Current)  BY CurrentSetting, Zenon
  <1>2. ASSUME NEW level, Verbosity(level) PROVE SettingsOK' /\ CacheFresh'
    <2> DEFINE s == [Current EXCEPT !.level = level]
    <2>1. Setting(s) /\ s.patterns = Current.patterns  BY <1>1 DEF Setting
    <2>2. settings' = Append(settings, s) /\ siteCache' = siteCache  BY <1>2, Zenon DEF Verbosity
    <2> HIDE DEF s
    <2>3. SettingsOK' /\ Current' = s  BY <2>1, <2>2, NewSettings, Zenon
    <2>4. CacheFresh'  BY <2>1, <2>2, <2>3, Zenon DEF CacheFresh
    <2> QED  BY <2>3, <2>4, Zenon
  <1>3. ASSUME NEW site, BacktraceAt(site) PROVE SettingsOK' /\ CacheFresh'
    <2> DEFINE s == [Current EXCEPT !.location = site]
    <2>1. Setting(s) /\ s.patterns = Current.patterns  BY <1>1 DEF Setting
    <2>2. settings' = Append(settings, s) /\ siteCache' = siteCache  BY <1>3, Zenon DEF BacktraceAt
    <2> HIDE DEF s
    <2>3. SettingsOK' /\ Current' = s  BY <2>1, <2>2, NewSettings, Zenon
    <2>4. CacheFresh'  BY <2>1, <2>2, <2>3, Zenon DEF CacheFresh
    <2> QED  BY <2>3, <2>4, Zenon
  <1>4. ASSUME NEW ruleset, Vmodule(ruleset) PROVE SettingsOK' /\ CacheFresh'
    <2> DEFINE rules == SelectSeq(ruleset, LAMBDA rule : rule.level > 0)
               s == [Current EXCEPT !.patterns = rules]
    <2>1. settings' = Append(settings, s) /\ siteCache' = <<>>  BY <1>4, Zenon DEF Vmodule
    <2> HIDE DEF rules
    <2>2. Setting(s)  BY <1>1 DEF Setting
    <2> HIDE DEF s
    <2>3. SettingsOK'  BY <2>1, <2>2, NewSettings, Zenon
    <2>4. CacheFresh'  BY <2>1 DEF CacheFresh
    <2> QED  BY <2>3, <2>4, Zenon
  <1>5. ASSUME NEW l, NEW h, SetHandler(l, h) PROVE SettingsOK' /\ CacheFresh'
    BY <1>5, SameSettings, Zenon DEF SetHandler
  <1> QED  BY <1>2, <1>3, <1>4, <1>5, Zenon DEF Change

\* What GlogHandler.Log puts into the cache is what the patterns say that are in force
\* when it has the lock.
LEMMA StepRules ==
    ASSUME SettingsOK, CacheFresh, NEW p, GlogRules(p)
    PROVE  SettingsOK' /\ CacheFresh'
  <1> DEFINE site == recs[Top(p).r].site
             level == PatternLevel(Current.patterns, site)
  <1>1. siteCache' = [s \in DOMAIN siteCache \cup {site} |-> IF s = site THEN level ELSE siteCache[s]]
    BY Zenon DEF GlogRules, Patterns
  <1>2. settings' = settings  BY Zenon DEF GlogRules, GlogStep
  <1>3. SettingsOK' /\ Current' = Current  BY <1>2, Zenon DEF SettingsOK, Current
  <1> HIDE DEF site
  <1>4. /\ DOMAIN siteCache' = DOMAIN siteCache \cup {site}
        /\ \A s \in DOMAIN siteCache \cup {site} : siteCache'[s] = IF s = site THEN level ELSE siteCache[s]
    <2> HIDE DEF level
    <2> QED  BY <1>1, Zenon
  <1>5. CacheFresh'  BY <1>3, <1>4, Zenon DEF CacheFresh
  <1> QED  BY <1>3, <1>5, Zenon

\* Any step.
LEMMA StepSettings ==
    ASSUME SettingsOK, CacheFresh, [Next]_vars
    PROVE  SettingsOK' /\ CacheFresh'
  <1>1. ASSUME NEW p, Handle(p) PROVE SettingsOK' /\ CacheFresh'
    <2>1. CASE GlogRules(p)  BY <2>1, StepRules, Zenon
    <2>2. CASE ~GlogRules(p)
      <3>1. settings' = settings /\ siteCache' = siteCache
        BY <1>1, <2>2, Zenon DEF Handle, Logged, Swapped, GlogLog, GlogBacktrace, GlogLocation, GlogLevel, GlogOverride, GlogCache,
           GlogStep, DiscardLog, FilterLog, CallerFileLog, MultiLog, FailoverLog, FailoverBack, ChannelLog, LazyCall,
           LazyStore, LazyDone, SyncLock, SyncUnlock, StreamFormat, StreamWrite, Still
      <3> QED  BY <3>1, SameSettings, Zenon
    <2> QED  BY <2>1, <2>2, Zenon
  <1>2. CASE UNCHANGED vars  BY <1>2, SameSettings, Zenon DEF vars
  <1>3. CASE Flush  BY <1>3, SameSettings, Zenon DEF Flush, Still
  <1>4. ASSUME NEW p, LogCall(p) PROVE SettingsOK' /\ CacheFresh'  BY <1>4, SameSettings, Zenon DEF LogCall
  <1> QED  BY <1>1, <1>2, <1>3, <1>4, StepChange, Zenon DEF Next, Run

----------------------------------------------------------------------------
(* The invariant.                                                           *)

\* Nothing has been logged.
LEMMA InitIInv == Init => IInv
  <1> SUFFICES ASSUME Init PROVE IInv  BY Zenon
  <1>1. <<>> \in Seq({}) /\ DOMAIN <<>> = {} /\ Len(<<>>) = 0  OBVIOUS
  <1>2. IsSeq(<<>>)  BY <1>1, Zenon DEF IsSeq
  <1>3. SettingsOK
    <2>1. PICK c : settings = <<[level |-> c.level, patterns |-> c.patterns, location |-> NoSite]>>
      BY Zenon DEF Init
    <2> DEFINE s == [level |-> c.level, patterns |-> c.patterns, location |-> NoSite]
    <2>2. Setting(s)  BY Zenon DEF Setting
    <2> HIDE DEF s
    <2>3. <<s>> \in Seq({s}) /\ <<s>> # <<>> /\ DOMAIN <<s>> = {1} /\ <<s>>[1] = s  BY SMTT(30)
    <2>4. settings = <<s>>  BY <2>1, Zenon DEF s
    <2>5. IsSeq(<<s>>)  BY <2>3, Zenon DEF IsSeq
    <2>6. \A n \in {1} : n = 1  BY Zenon
    <2> QED  BY <2>2, <2>3, <2>4, <2>5, <2>6, Zenon DEF SettingsOK
  <1>4. CacheFresh
    <2>1. siteCache = <<>>  BY Zenon DEF Init
    <2> QED  BY <1>1, <2>1, Zenon DEF CacheFresh
  <1>5. RecsOK(recs, ctxs)
    <2> DEFINE d == newContext(<<>>, childCtx, FALSE)
    <2>1. recs = <<>> /\ ctxs = <<<<>>, d>>  BY Zenon DEF Init
    <2> HIDE DEF d
    <2>2. <<<<>>, d>> \in Seq({<<>>, d}) /\ Len(<<<<>>, d>>) = 2  OBVIOUS
    <2>3. IsSeq(ctxs)  BY <2>1, <2>2, Zenon DEF IsSeq
    <2>4. Len(ctxs) >= 2  BY <2>1
    <2> QED  BY <1>1, <1>2, <2>1, <2>3, <2>4, Zenon DEF RecsOK
  <1>6. GoroutinesOK(g, Len(recs))
    <2>1. g = [p \in Process |-> g[p]]  BY Zenon DEF Init
    <2>2. ASSUME NEW p \in Process PROVE GoroutineOK(g[p], Len(recs))
      <3>1. g[p] = [stack |-> <<>>, ret |-> "", left |-> IF p = Flusher THEN 0 ELSE MaxLog, judged |-> Unjudged]
        BY Zenon DEF Init
      <3>2. Frames(<<>>, Len(recs))  BY <1>1, <1>2, Zenon DEF Frames
      <3>3. PICK s, r, n, j : g[p] = [stack |-> s, ret |-> r, left |-> n, judged |-> j] /\ s = <<>>  BY <3>1, Zenon
      <3>4. g[p].stack = s  BY <3>3, SMTT(30)
      <3>5. g[p] = [stack |-> g[p].stack, ret |-> g[p].ret, left |-> g[p].left, judged |-> g[p].judged]  BY <3>3, Zenon
      <3> QED  BY <3>2, <3>3, <3>4, <3>5, Zenon DEF GoroutineOK
    <2> QED  BY <2>1, <2>2, Zenon DEF GoroutinesOK
  <1>7. QueueOK(queue, Len(recs))  BY <1>1, <1>2, Zenon DEF QueueOK, Init
  <1>8. ctxOf = [l \in Logger |-> IF l = root THEN 1 ELSE 2]  BY Zenon DEF Init
  <1> QED  BY <1>3, <1>4, <1>5, <1>6, <1>7, <1>8, Zenon DEF IInv, ShapeOK

\* Any step.
LEMMA StepIInv == IInv /\ [Next]_vars => IInv'
  <1> SUFFICES ASSUME IInv, [Next]_vars PROVE IInv'  BY Zenon
  <1>1. SettingsOK /\ CacheFresh /\ ShapeOK  BY Zenon DEF IInv
  <1>2. SettingsOK' /\ CacheFresh'  BY <1>1, StepSettings, Zenon
  <1>3. ShapeStep  BY <1>1, StepShape, Zenon
  <1>4. ShapeOK'  BY <1>1, <1>3, Zenon DEF ShapeStep, Keeps, ShapeOK
  <1> QED  BY <1>2, <1>4, Zenon DEF IInv

----------------------------------------------------------------------------
(* The theorems.                                                            *)

\* The cache is fresh; records, frames and channel hold records; and no record's
\* context is the array of a logger.
THEOREM LogInv == Spec => []IInv
  <1>1. Spec => Init /\ [][Next]_vars  BY PTL DEF Spec
  <1> QED  BY <1>1, InitIInv, StepIInv, PTL

\* GlogHandler.siteCache never holds a level of patterns that Vmodule has replaced.
THEOREM CacheIsFresh == Spec => []CacheFresh
  <1>1. IInv => CacheFresh  BY Zenon DEF IInv
  <1> QED  BY <1>1, LogInv, PTL

\* Whatever the handlers, LazyHandler's evaluation of a record's context in place leaves
\* the context of every logger as New made it.
THEOREM LoggersKeepCtx == Spec => LoggerCtxKept
  <1>1. IInv /\ [Next]_vars => [\A l \in Logger : ctxs'[ctxOf'[l]] = ctxs[ctxOf[l]]]_vars
    <2> SUFFICES ASSUME IInv, [Next]_vars, NEW l \in Logger
                 PROVE  ctxs'[ctxOf'[l]] = ctxs[ctxOf[l]]
      BY Zenon
    <2>1. ShapeOK  BY Zenon DEF IInv
    <2>2. ctxs'[1] = ctxs[1] /\ ctxs'[2] = ctxs[2] /\ ctxOf' = ctxOf  BY <2>1, StepShape, Zenon DEF ShapeStep, Keeps
    <2>3. ctxOf[l] = 1 \/ ctxOf[l] = 2  BY <2>1, Zenon DEF ShapeOK
    <2> QED  BY <2>2, <2>3, Zenon
  <1>2. Spec => [][Next]_vars  BY PTL DEF Spec
  <1> QED  BY <1>1, <1>2, LogInv, PTL DEF LoggerCtxKept

----------------------------------------------------------------------------
(* What GlogHandler decides.                                                *)

\* A handler of P, and all that it wraps, is no GlogHandler, and does not lead to one
\* through a logger.
Plain(P) ==
    \A h \in P :
        /\ h.k # "glog" /\ h.k # "swap"
        /\ h.k \in {"filter", "caller", "lazy", "sync"} => h.h \in P
        /\ h.k \in {"multi", "failover"} => \A i \in Nat : 1 <= i /\ i <= Len(h.hs) => h.hs[i] \in P

\* The handler that a BufferedHandler wraps has no GlogHandler in it.
FlushedPlain == \E P : Flushed \in P /\ Plain(P)

\* Levels are those of records (LvlCrit and up), or 0.
LevelsNat ==
    /\ Levels \subseteq Nat /\ \A c \in Configured : c.level \in Nat
    /\ Nested.lvl \in Nat /\ \A p \in Goroutine : \A m \in Messages[p] : m.lvl \in Nat

\* Where GlogHandler.Log is once level has refused the record.
Deciding == {"override", "cache", "rules"}

\* Settings in force since Log was called refuse the record by level.
Refused(f) == \E n \in f.from..Len(settings) : ~Passes(settings[n].level, recs[f.r].lvl)

\* The settings of a frame's from are in force or were, only GlogHandler decides, and a
\* handler that tries others counts them from 1.
FrameJ(P, f) ==
    /\ f.from \in 1..Len(settings)
    /\ f.h.k \in {"multi", "failover"} => f.i \in Nat /\ 1 <= f.i
    /\ f.pc \in Deciding => f.h \notin P /\ Refused(f)

\* Only the handler on top of a stack decides.
StacksJ(P) ==
    \A p \in Process : \A i \in DOMAIN g[p].stack :
        FrameJ(P, g[p].stack[i]) /\ (i # 1 => g[p].stack[i].pc \notin Deciding)

\* Two goroutines have the same record only if one has it from the channel.
Apart(P) ==
    \A p, q \in Process : p # q =>
        \A i \in DOMAIN g[p].stack, j \in DOMAIN g[q].stack :
            g[p].stack[i].r = g[q].stack[j].r => g[p].stack[i].h \in P \/ g[q].stack[j].h \in P

\* A change of the settings changes the level or the patterns, and not both.
SettingsJ ==
    /\ \A n \in 1..Len(settings) : settings[n].level \in Nat
    /\ \A n \in 1..Len(settings) : n + 1 \in 1..Len(settings) =>
           settings[n + 1].level = settings[n].level \/ settings[n + 1].patterns = settings[n].patterns

RecsJ == \A r \in 1..Len(recs) : recs[r].lvl \in Nat

\* What DecisionExplained says of a decision, which is about settings there have been.
Justified(j) ==
    /\ j.from \in 1..Len(settings) /\ j.to \in 1..Len(settings)
    /\ j.passed => \E n \in j.from .. j.to : Allows(settings[n], j.site, j.lvl)
    /\ ~j.passed /\ j.to - j.from <= 1 => \E n \in j.from .. j.to : ~Allows(settings[n], j.site, j.lvl)

JInv(P) == StacksJ(P) /\ Apart(P) /\ SettingsJ /\ RecsJ /\ \A p \in Process : Justified(g[p].judged)

\* The frames of t are those of s below its top, and ones of F.
Mixed(t, F, s) == \A i \in DOMAIN t : t[i] \in F \/ \E j \in DOMAIN s : j # 1 /\ t[i] = s[j]

\* The stack below the top.
LEMMA MixedTail ==
    ASSUME NEW s, IsSeq(s), s # <<>>
    PROVE  Mixed(Tail(s), {}, s) /\ IsSeq(Tail(s)) /\ Head(s) = s[1] /\ 1 \in DOMAIN s
  <1>1. /\ IsSeq(Tail(s)) /\ Head(s) = s[1] /\ 1 \in DOMAIN s
        /\ \A i \in DOMAIN Tail(s) : i + 1 \in DOMAIN s /\ Tail(s)[i] = s[i + 1]
    BY TailSeq, Zenon
  <1>2. PICK S : Tail(s) \in Seq(S)  BY <1>1, Zenon DEF IsSeq
  <1>3. \A i \in DOMAIN Tail(s) : i + 1 # 1
    <2> DEFINE t == Tail(s)
    <2> HIDE DEF t
    <2>1. t \in Seq(S)  BY <1>2, Zenon DEF t
    <2>2. \A i \in DOMAIN t : i + 1 # 1  BY <2>1
    <2> QED  BY <2>2, Zenon DEF t
  <1>4. Mixed(Tail(s), {}, s)  BY <1>1, <1>3, Zenon DEF Mixed
  <1> QED  BY <1>1, <1>4, Zenon

\* A frame on top of others.
LEMMA TopSeq ==
    ASSUME NEW s, IsSeq(s), NEW e
    PROVE  \A i \in DOMAIN (<<e>> \o s) : (i = 1 /\ (<<e>> \o s)[i] = e) \/ \E j \in DOMAIN s : (<<e>> \o s)[i] = s[j]
  <1> DEFINE c == <<e>> \o s
  <1>1. PICK S : s \in Seq(S)  BY Zenon DEF IsSeq
  <1>2. s \in Seq(S \cup {e})  BY <1>1, SeqMonotonic, Zenon
  <1>3. <<e>> \in Seq(S \cup {e}) /\ Len(<<e>>) = 1 /\ <<e>>[1] = e  OBVIOUS
  <1>4. c \in Seq(S \cup {e}) /\ Len(c) = 1 + Len(s)  BY <1>2
  <1>5. c[1] = e  BY <1>2
  <1>6. \A i \in 1..Len(s) : c[1 + i] = s[i]  BY <1>2
  <1> HIDE DEF c
  <1>7. ASSUME NEW i \in DOMAIN c
        PROVE  (i = 1 /\ c[i] = e) \/ \E j \in DOMAIN s : c[i] = s[j]
    <2>1. i \in 1..(1 + Len(s)) /\ DOMAIN s = 1..Len(s) /\ Len(s) \in Nat  BY <1>2, <1>4
    <2>2. CASE i = 1  BY <1>5, <2>2, Zenon
    <2>3. CASE i # 1
      <3>1. i - 1 \in 1..Len(s) /\ 1 + (i - 1) = i  BY <2>1, <2>3
      <3> QED  BY <1>6, <2>1, <3>1, Zenon
    <2> QED  BY <2>2, <2>3, Zenon
  <1> QED  BY <1>7, Zenon DEF c

\* Frames on top of a stack from which the top is taken.
LEMMA MixedPush ==
    ASSUME NEW s, NEW t, IsSeq(t), NEW F, Mixed(t, F, s), NEW c, NEW d
    PROVE  Mixed(<<c>> \o t, F \cup {c}, s) /\ Mixed(<<c, d>> \o t, F \cup {c, d}, s)
  <1>1. ASSUME NEW u, IsSeq(u), NEW G, Mixed(u, G, s), NEW e
        PROVE  IsSeq(<<e>> \o u) /\ Mixed(<<e>> \o u, G \cup {e}, s)
    <2>1. Pushed(<<e>> \o u, e, u)  BY <1>1, PushSeq, Zenon
    <2> DEFINE b == <<e>> \o u
    <2> HIDE DEF b
    <2>2. IsSeq(b) /\ \A i \in DOMAIN b : b[i] = e \/ \E j \in DOMAIN u : b[i] = u[j]
      BY <2>1, Zenon DEF Pushed, b
    <2>3. \A i \in DOMAIN u : u[i] \in G \cup {e} \/ \E j \in DOMAIN s : j # 1 /\ u[i] = s[j]  BY <1>1, Zenon DEF Mixed
    <2>4. e \in G \cup {e}  BY Zenon
    <2>5. Mixed(b, G \cup {e}, s)
      <3> DEFINE H == G \cup {e}
      <3> HIDE DEF H
      <3>1. e \in H /\ \A i \in DOMAIN u : u[i] \in H \/ \E j \in DOMAIN s : j # 1 /\ u[i] = s[j]  BY <2>3, <2>4, Zenon DEF H
      <3>2. ASSUME NEW i \in DOMAIN b  PROVE b[i] \in H \/ \E j \in DOMAIN s : j # 1 /\ b[i] = s[j]
        BY <2>2, <3>1
      <3>3. Mixed(b, H, s)  BY <3>2, Zenon DEF Mixed
      <3> QED  BY <3>3, Zenon DEF H
    <2> QED  BY <2>2, <2>5, Zenon DEF b
  <1>2. Mixed(<<c>> \o t, F \cup {c}, s)  BY <1>1, Zenon
  <1>3. IsSeq(<<d>> \o t) /\ Mixed(<<d>> \o t, F \cup {d}, s)  BY <1>1, Zenon
  <1>4. Mixed(<<c>> \o (<<d>> \o t), (F \cup {d}) \cup {c}, s)  BY <1>1, <1>3, Zenon
  <1>5. <<c>> \o (<<d>> \o t) = <<c, d>> \o t  BY TwoSeq, Zenon
  <1>6. (F \cup {d}) \cup {c} = F \cup {c, d}  BY Zenon
  <1> QED  BY <1>2, <1>4, <1>5, <1>6, Zenon

\* The goroutine has the record, with a handler that is not of P.
Holds(P, p, r) == \E t \in DOMAIN g[p].stack : r = g[p].stack[t].r /\ g[p].stack[t].h \notin P

\* A frame that p begins, or goes on with: of a record that it has, of a new one, or
\* for a handler of P.
New(P, p, e) ==
    /\ e.from \in 1..Len(settings) /\ e.pc \notin Deciding
    /\ e.h.k \in {"multi", "failover"} => e.i \in Nat /\ 1 <= e.i
    /\ e.h \in P \/ e.r = Len(recs) + 1 \/ Holds(P, p, e.r)

\* GlogHandler goes on, the record being refused by level.
Goes(P, p, e) ==
    /\ e.from \in 1..Len(settings) /\ e.h.k \notin {"multi", "failover"} /\ e.h \notin P
    /\ \E n \in e.from..Len(settings) : ~Passes(settings[n].level, recs[e.r].lvl)
    /\ Holds(P, p, e.r) /\ recs' = recs

\* What a step does to the stack of p.
StackStep(P, p) ==
    \A i \in DOMAIN g'[p].stack :
        \/ \E j \in DOMAIN g[p].stack : j # 1 /\ g'[p].stack[i] = g[p].stack[j]
        \/ New(P, p, g'[p].stack[i])
        \/ i = 1 /\ Goes(P, p, g'[p].stack[i])

\* Only the level of a record that p has changes.
RecsStep(P, p) == RecsJ' /\ \A r \in 1..Len(recs) : recs'[r].lvl = recs[r].lvl \/ Holds(P, p, r)

\* A step of p.
JStep(P, p) ==
    /\ settings' = settings /\ (\A q \in Process : q # p => g'[q] = g[q])
    /\ StackStep(P, p) /\ RecsStep(P, p) /\ Justified(g'[p].judged)

\* Frames have records.
LEMMA FrameRec ==
    ASSUME ShapeOK, NEW p \in Process, NEW i \in DOMAIN g[p].stack
    PROVE  g[p].stack[i].r \in 1..Len(recs) /\ Len(recs) \in Nat /\ g[p].stack[i].r # Len(recs) + 1
  <1>1. Frame(g[p].stack[i], Len(recs)) /\ RecsOK(recs, ctxs)
    BY Zenon DEF ShapeOK, GoroutinesOK, GoroutineOK, Frames
  <1>2. g[p].stack[i].r \in 1..Len(recs)  BY <1>1, Zenon DEF Frame
  <1>3. Len(recs) \in Nat  BY <1>1, RecTypes, Zenon
  <1> QED  BY <1>2, <1>3, SMTT(30)

\* A step of a goroutine.
LEMMA StepJ ==
    ASSUME ShapeOK, NEW P, JInv(P), NEW p \in Process, JStep(P, p)
    PROVE  JInv(P)'
  <1>1. StacksJ(P) /\ Apart(P) /\ SettingsJ /\ \A q \in Process : Justified(g[q].judged)  BY Zenon DEF JInv
  <1>2. settings' = settings /\ \A q \in Process : q # p => g'[q] = g[q]  BY Zenon DEF JStep
  <1>3. StackStep(P, p) /\ RecsStep(P, p) /\ Justified(g'[p].judged)  BY Zenon DEF JStep
  <1>4. StacksJ(P)'
    <2> SUFFICES ASSUME NEW q \in Process, NEW i \in DOMAIN g'[q].stack
                 PROVE  FrameJ(P, g[q].stack[i])' /\ (i # 1 => g'[q].stack[i].pc \notin Deciding)
      BY Zenon DEF StacksJ
    <2> DEFINE e == g'[q].stack[i]
    <2>1. CASE q # p
      <3>1. g'[q] = g[q] /\ i \in DOMAIN g[q].stack  BY <1>2, <2>1, Zenon
      <3>2. FrameJ(P, g[q].stack[i]) /\ (i # 1 => g[q].stack[i].pc \notin Deciding)  BY <1>1, <3>1, Zenon DEF StacksJ
      <3>3. ASSUME g[q].stack[i].pc \in Deciding
            PROVE  g[q].stack[i].h \notin P /\ recs'[g[q].stack[i].r].lvl = recs[g[q].stack[i].r].lvl
        <4>1. g[q].stack[i].h \notin P  BY <3>2, <3>3, Zenon DEF FrameJ
        <4>2. ~Holds(P, p, g[q].stack[i].r)  BY <1>1, <2>1, <3>1, <4>1, Zenon DEF Holds, Apart
        <4> QED  BY <1>3, <3>1, <4>1, <4>2, FrameRec, Zenon DEF RecsStep
      <3> QED  BY <1>2, <3>1, <3>2, <3>3, Zenon DEF FrameJ, Refused
    <2>2. CASE q = p
      <3>1. CASE \E j \in DOMAIN g[p].stack : j # 1 /\ g'[p].stack[i] = g[p].stack[j]
        <4>1. PICK j \in DOMAIN g[p].stack : j # 1 /\ g'[p].stack[i] = g[p].stack[j]  BY <3>1, Zenon
        <4>2. FrameJ(P, g[p].stack[j]) /\ g[p].stack[j].pc \notin Deciding  BY <1>1, <4>1, Zenon DEF StacksJ
        <4> QED  BY <1>2, <2>2, <4>1, <4>2, Zenon DEF FrameJ
      <3>2. CASE New(P, p, g'[p].stack[i])  BY <1>2, <2>2, <3>2, Zenon DEF FrameJ, New
      <3>3. CASE i = 1 /\ Goes(P, p, g'[p].stack[i])  BY <1>2, <2>2, <3>3, Zenon DEF FrameJ, Refused, Goes
      <3> QED  BY <1>3, <2>2, <3>1, <3>2, <3>3, Zenon DEF StackStep
    <2> QED  BY <2>1, <2>2, Zenon
  <1>5. ASSUME NEW q \in Process, q # p, NEW i \in DOMAIN g'[p].stack, NEW j \in DOMAIN g'[q].stack,
               g'[p].stack[i].r = g'[q].stack[j].r
        PROVE  g'[p].stack[i].h \in P \/ g'[q].stack[j].h \in P
    <2>1. g'[q] = g[q] /\ j \in DOMAIN g[q].stack  BY <1>2, <1>5, Zenon
    <2>2. CASE \E k \in DOMAIN g[p].stack : k # 1 /\ g'[p].stack[i] = g[p].stack[k]
      BY <1>1, <1>5, <2>1, <2>2, Zenon DEF Apart
    <2>3. CASE g'[p].stack[i].r = Len(recs) + 1  BY <1>5, <2>1, <2>3, FrameRec, Zenon
    <2>4. CASE Holds(P, p, g'[p].stack[i].r)  BY <1>1, <1>5, <2>1, <2>4, Zenon DEF Holds, Apart
    <2> QED  BY <1>3, <2>2, <2>3, <2>4, Zenon DEF StackStep, New, Goes
  <1>6. Apart(P)'
    <2> SUFFICES ASSUME NEW q \in Process, NEW s \in Process, q # s,
                        NEW i \in DOMAIN g'[q].stack, NEW j \in DOMAIN g'[s].stack, g'[q].stack[i].r = g'[s].stack[j].r
                 PROVE  g'[q].stack[i].h \in P \/ g'[s].stack[j].h \in P
      BY Zenon DEF Apart
    <2>1. CASE q = p  BY <1>5, <2>1, Zenon
    <2>2. CASE s = p  BY <1>5, <2>2, Zenon
    <2>3. CASE q # p /\ s # p
      <3>1. g'[q] = g[q] /\ g'[s] = g[s]  BY <1>2, <2>3, Zenon
      <3> QED  BY <1>1, <3>1, Zenon DEF Apart
    <2> QED  BY <2>1, <2>2, <2>3, Zenon
  <1>7. SettingsJ'  BY <1>1, <1>2, Zenon DEF SettingsJ
  <1>8. \A q \in Process : Justified(g[q].judged)'
    <2> SUFFICES ASSUME NEW q \in Process  PROVE Justified(g[q].judged)'  BY Zenon
    <2>1. Justified(g'[q].judged)  BY <1>1, <1>2, <1>3, Zenon
    <2> QED  BY <1>2, <2>1, Zenon DEF Justified
  <1> QED  BY <1>3, <1>4, <1>6, <1>7, <1>8, Zenon DEF JInv, RecsStep

\* In x, p has the stack s and the decision j, and the others have not changed.
Put(x, p, s, j) == x[p].stack = s /\ x[p].judged = j /\ \A q \in Process : q # p => x[q] = g[q]

\* What of the goroutines changes with a stack.
LEMMA PutParts ==
    ASSUME ShapeOK, NEW p \in Process, NEW s, NEW e
    PROVE  /\ Put([g EXCEPT ![p].stack = s], p, s, g[p].judged)
           /\ Put([g EXCEPT ![p].stack = s, ![p].ret = e], p, s, g[p].judged)
           /\ Put([g EXCEPT ![p].left = e, ![p].stack = s], p, s, g[p].judged)
  <1>1. g = [q \in Process |-> g[q]] /\ GoroutineOK(g[p], Len(recs))  BY Zenon DEF ShapeOK, GoroutinesOK
  <1>2. g[p] = [stack |-> g[p].stack, ret |-> g[p].ret, left |-> g[p].left, judged |-> g[p].judged]
    BY <1>1, Zenon DEF GoroutineOK
  <1>3. Put([g EXCEPT ![p].stack = s], p, s, g[p].judged)  BY <1>1, <1>2, Zenon DEF Put
  <1>4. Put([g EXCEPT ![p].stack = s, ![p].ret = e], p, s, g[p].judged)  BY <1>1, <1>2, Zenon DEF Put
  <1>5. Put([g EXCEPT ![p].left = e, ![p].stack = s], p, s, g[p].judged)  BY <1>1, <1>2, Zenon DEF Put
  <1> QED  BY <1>3, <1>4, <1>5, Zenon

\* What of the goroutines a handler changes.
LEMMA PutSteps ==
    ASSUME ShapeOK, NEW p \in Process
    PROVE  /\ \A f : Put(Set(p, f), p, <<f>> \o Tail(g[p].stack), g[p].judged)
           /\ \A f, h : Put(Await(p, f, h), p, <<Call(h, f.r), f>> \o Tail(g[p].stack), g[p].judged)
           /\ \A e : Put(Return(p, e), p, Tail(g[p].stack), g[p].judged)
  <1>1. \A s, e : /\ Put([g EXCEPT ![p].stack = s], p, s, g[p].judged)
                  /\ Put([g EXCEPT ![p].stack = s, ![p].ret = e], p, s, g[p].judged)
    BY PutParts, Zenon
  <1>2. \A f : Set(p, f) = [g EXCEPT ![p].stack = <<f>> \o Tail(g[p].stack)]  BY Zenon DEF Set
  <1>3. \A f, h : Await(p, f, h) = [g EXCEPT ![p].stack = <<Call(h, f.r), f>> \o Tail(g[p].stack)]  BY Zenon DEF Await
  <1>4. \A e : Return(p, e) = [g EXCEPT ![p].stack = Tail(g[p].stack), ![p].ret = e]  BY Zenon DEF Return
  <1>5. \A f : Put(Set(p, f), p, <<f>> \o Tail(g[p].stack), g[p].judged)
    <2> TAKE f
    <2>1. Put([g EXCEPT ![p].stack = <<f>> \o Tail(g[p].stack)], p, <<f>> \o Tail(g[p].stack), g[p].judged)  BY <1>1, Zenon
    <2> QED  BY <1>2, <2>1, Zenon
  <1>6. \A f, h : Put(Await(p, f, h), p, <<Call(h, f.r), f>> \o Tail(g[p].stack), g[p].judged)
    <2> TAKE f, h
    <2> DEFINE s == <<Call(h, f.r), f>> \o Tail(g[p].stack)
    <2>1. Await(p, f, h) = [g EXCEPT ![p].stack = s]  BY <1>3, Zenon
    <2> HIDE DEF s
    <2>2. Put(Await(p, f, h), p, s, g[p].judged)  BY <1>1, <2>1, Zenon
    <2> QED  BY <2>2, Zenon DEF s
  <1>7. \A e : Put(Return(p, e), p, Tail(g[p].stack), g[p].judged)
    <2> TAKE e
    <2>1. Put([g EXCEPT ![p].stack = Tail(g[p].stack), ![p].ret = e], p, Tail(g[p].stack), g[p].judged)  BY <1>1, Zenon
    <2> QED  BY <1>4, <2>1, Zenon
  <1> QED  BY <1>5, <1>6, <1>7, Zenon

\* A decision is noted.
LEMMA PutDecision ==
    ASSUME NEW x, NEW n, GoroutinesOK(x, n), NEW p \in Process, NEW s, NEW j, NEW k, Put(x, p, s, j)
    PROVE  Put([x EXCEPT ![p].judged = k], p, s, k)
  <1>1. x = [q \in Process |-> x[q]] /\ GoroutineOK(x[p], n)  BY Zenon DEF GoroutinesOK
  <1>2. x[p] = [stack |-> x[p].stack, ret |-> x[p].ret, left |-> x[p].left, judged |-> x[p].judged]
    BY <1>1, Zenon DEF GoroutineOK
  <1> QED  BY <1>1, <1>2, Zenon DEF Put

\* What there is to know of the frame of a handler that runs.
Ready(P, p) ==
    /\ Top(p) = g[p].stack[1] /\ 1 \in DOMAIN g[p].stack /\ IsSeq(Tail(g[p].stack))
    /\ Mixed(Tail(g[p].stack), {}, g[p].stack)
    /\ Frame(Top(p), Len(recs)) /\ FrameJ(P, Top(p)) /\ Len(settings) \in Nat /\ Len(settings) >= 1

\* Some settings are in force.
LEMMA SettingsLen ==
    ASSUME SettingsOK
    PROVE  /\ Len(settings) \in Nat /\ Len(settings) >= 1 /\ DOMAIN settings = 1..Len(settings)
           /\ Len(settings) \in 1..Len(settings) /\ 1 \in 1..Len(settings)
  <1>1. IsSeq(settings) /\ settings # <<>>  BY Zenon DEF SettingsOK
  <1>2. PICK S : settings \in Seq(S)  BY <1>1, Zenon DEF IsSeq
  <1> QED  BY <1>1, <1>2

\* A handler that runs.
LEMMA IsReady ==
    ASSUME SettingsOK, ShapeOK, NEW P, JInv(P), NEW p \in Process, g[p].stack # <<>>
    PROVE  Ready(P, p)
  <1>1. Frames(g[p].stack, Len(recs))  BY Zenon DEF ShapeOK, GoroutinesOK, GoroutineOK
  <1>2. IsSeq(g[p].stack) /\ \A i \in DOMAIN g[p].stack : Frame(g[p].stack[i], Len(recs))  BY <1>1, Zenon DEF Frames
  <1>3. /\ Mixed(Tail(g[p].stack), {}, g[p].stack) /\ IsSeq(Tail(g[p].stack))
        /\ Head(g[p].stack) = g[p].stack[1] /\ 1 \in DOMAIN g[p].stack
    BY <1>2, MixedTail, Zenon
  <1>4. FrameJ(P, g[p].stack[1])  BY <1>3, Zenon DEF JInv, StacksJ
  <1>5. Len(settings) \in Nat /\ Len(settings) >= 1  BY SettingsLen, Zenon
  <1> QED  BY <1>2, <1>3, <1>4, <1>5, Zenon DEF Ready, Top

\* The frames that a step adds are new.
LEMMA MixedStep ==
    ASSUME NEW P, NEW p \in Process, NEW F, Mixed(g'[p].stack, F, g[p].stack), \A f \in F : New(P, p, f)
    PROVE  StackStep(P, p)
  BY Zenon DEF Mixed, StackStep

\* The frame on top goes on as f.
LEMMA TopStep ==
    ASSUME NEW P, NEW p \in Process, Ready(P, p), NEW f, g'[p].stack = <<f>> \o Tail(g[p].stack),
           New(P, p, f) \/ Goes(P, p, f)
    PROVE  StackStep(P, p)
  <1> DEFINE t == Tail(g[p].stack)
             c == <<f>> \o t
  <1>1. IsSeq(t) /\ \A i \in DOMAIN t : \E j \in DOMAIN g[p].stack : j # 1 /\ t[i] = g[p].stack[j]
    BY Zenon DEF Ready, Mixed
  <1>2. \A i \in DOMAIN c : (i = 1 /\ c[i] = f) \/ \E j \in DOMAIN t : c[i] = t[j]
    <2> HIDE DEF t
    <2>1. IsSeq(t)  BY <1>1, Zenon
    <2> QED  BY <2>1, TopSeq, SMTT(30)
  <1>3. g'[p].stack = c  BY Zenon
  <1> HIDE DEF c, t
  <1> SUFFICES ASSUME NEW i \in DOMAIN g'[p].stack
               PROVE  \/ \E j \in DOMAIN g[p].stack : j # 1 /\ g'[p].stack[i] = g[p].stack[j]
                      \/ New(P, p, g'[p].stack[i])
                      \/ i = 1 /\ Goes(P, p, g'[p].stack[i])
    BY Zenon DEF StackStep
  <1>4. CASE i = 1 /\ c[i] = f  BY <1>3, <1>4, Zenon
  <1>5. ASSUME NEW j \in DOMAIN t, c[i] = t[j]
        PROVE  \E k \in DOMAIN g[p].stack : k # 1 /\ g'[p].stack[i] = g[p].stack[k]
    <2>1. PICK k \in DOMAIN g[p].stack : k # 1 /\ t[j] = g[p].stack[k]  BY <1>1, Zenon
    <2> QED  BY <1>3, <1>5, <2>1, Zenon
  <1> QED  BY <1>2, <1>3, <1>4, <1>5, Zenon

\* The handler on top goes on as f, deciding nothing.
On(p, f) ==
    /\ f.h = Top(p).h /\ f.r = Top(p).r /\ f.from = Top(p).from /\ f.pc \notin Deciding
    /\ f.h.k \in {"multi", "failover"} => f.i \in Nat /\ 1 <= f.i

\* h is a handler that the one on top may call.
Calls(P, p, h) == Top(p).h \in P => h \in P

\* A handler that only runs others.
Ordinary(P, p) ==
    \/ \E e : g' = Return(p, e)
    \/ \E h : Calls(P, p, h) /\ g' = Become(p, h)
    \/ \E f : On(p, f) /\ g' = Set(p, f)
    \/ \E f, h : On(p, f) /\ Calls(P, p, h) /\ g' = Await(p, f, h)

\* The top's record is with the goroutine.
LEMMA TopHeld ==
    ASSUME NEW P, NEW p, Ready(P, p), Top(p).h \notin P
    PROVE  Holds(P, p, Top(p).r)
  BY Zenon DEF Ready, Holds

\* The frames with which the top goes on, and which it calls.
LEMMA NewFrames ==
    ASSUME NEW P, NEW p, Ready(P, p)
    PROVE  /\ \A f : On(p, f) => New(P, p, f)
           /\ \A h, r : r = Top(p).r /\ Calls(P, p, h) => New(P, p, Call(h, r))
           /\ \A h : h \in P => \A r : New(P, p, Call(h, r))
           /\ \A h : New(P, p, Call(h, Len(recs) + 1))
  <1>1. Top(p).from \in 1..Len(settings) /\ Len(settings) \in 1..Len(settings)  BY DEF Ready, FrameJ
  <1>2. \A f : On(p, f) => New(P, p, f)  BY <1>1, TopHeld, Zenon DEF On, New
  <1>3. \A h, r : LET c == Call(h, r) IN c.h = h /\ c.r = r /\ c.pc \notin Deciding /\ c.from = Len(settings) /\ c.i \in Nat /\ 1 <= c.i
    BY DEF Call, Deciding
  <1>4. \A h, r : h \in P \/ r = Len(recs) + 1 \/ Holds(P, p, r) => New(P, p, Call(h, r))
    BY <1>1, <1>3, ZenonT(60) DEF New
  <1>5. \A h, r : r = Top(p).r /\ Calls(P, p, h) => New(P, p, Call(h, r))  BY <1>4, TopHeld, Zenon DEF Calls
  <1> QED  BY <1>2, <1>4, <1>5, Zenon

\* What such a handler changes.
LEMMA OrdinaryStep ==
    ASSUME ShapeOK, NEW P, NEW p \in Process, Ready(P, p), Ordinary(P, p)
    PROVE  StackStep(P, p) /\ g'[p].judged = g[p].judged /\ \A q \in Process : q # p => g'[q] = g[q]
  <1> DEFINE t == Tail(g[p].stack)
             j == g[p].judged
  <1>1. Mixed(t, {}, g[p].stack) /\ IsSeq(t)  BY Zenon DEF Ready
  <1>2. ASSUME NEW s, Put(g', p, s, j)
        PROVE  g'[p].stack = s /\ g'[p].judged = g[p].judged /\ \A q \in Process : q # p => g'[q] = g[q]
    BY <1>2, Zenon DEF Put
  <1>3. ASSUME NEW e, g' = Return(p, e)  PROVE StackStep(P, p) /\ Put(g', p, t, j)
    <2>1. Put(g', p, t, j)  BY <1>3, PutSteps, Zenon
    <2>2. g'[p].stack = t  BY <1>2, <2>1, Zenon
    <2>3. StackStep(P, p)
      <3>1. Mixed(g'[p].stack, {}, g[p].stack)  BY <1>1, <2>2, Zenon
      <3>2. \A f \in {} : New(P, p, f)  BY Zenon
      <3> QED  BY <3>1, <3>2, MixedStep, SMTT(30)
    <2> QED  BY <2>1, <2>3, Zenon
  <1>4. ASSUME NEW f, New(P, p, f), g' = Set(p, f)  PROVE StackStep(P, p) /\ \E s : Put(g', p, s, j)
    <2>1. Put(g', p, <<f>> \o t, j)  BY <1>4, PutSteps, Zenon
    <2>2. g'[p].stack = <<f>> \o t  BY <2>1, Zenon DEF Put
    <2>3. StackStep(P, p)  BY <1>4, <2>2, TopStep, Zenon
    <2> QED  BY <2>1, <2>3, Zenon
  <1>5. ASSUME NEW h, Calls(P, p, h), g' = Become(p, h)  PROVE StackStep(P, p) /\ \E s : Put(g', p, s, j)
    <2>1. New(P, p, Call(h, Top(p).r))  BY <1>5, NewFrames, Zenon
    <2>2. g' = Set(p, Call(h, Top(p).r))  BY <1>5, Zenon DEF Become
    <2> QED  BY <1>4, <2>1, <2>2, Zenon
  <1>6. ASSUME NEW f, NEW h, On(p, f), Calls(P, p, h), g' = Await(p, f, h)
        PROVE  StackStep(P, p) /\ \E s : Put(g', p, s, j)
    <2> DEFINE c == Call(h, f.r)
    <2>1. New(P, p, f)  BY <1>6, NewFrames, Zenon
    <2>2. New(P, p, c)
      <3>1. f.r = Top(p).r  BY <1>6, Zenon DEF On
      <3> QED  BY <1>6, <3>1, NewFrames, Zenon
    <2>3. Put(g', p, <<c, f>> \o t, j)  BY <1>6, PutSteps, Zenon
    <2>4. g'[p].stack = <<c, f>> \o t  BY <2>3, Zenon DEF Put
    <2> HIDE DEF c, t
    <2>5. Mixed(<<c, f>> \o t, {} \cup {c, f}, g[p].stack)  BY <1>1, MixedPush, Zenon
    <2>6. \A x \in {} \cup {c, f} : New(P, p, x)  BY <2>1, <2>2, Zenon
    <2>7. StackStep(P, p)  BY <2>4, <2>5, <2>6, MixedStep, Zenon
    <2> QED  BY <2>3, <2>7, Zenon
  <1>7. StackStep(P, p) /\ \E s : Put(g', p, s, j)
    BY <1>3, <1>4, <1>5, <1>6, NewFrames, Zenon DEF Ordinary
  <1> QED  BY <1>2, <1>7, Zenon

----------------------------------------------------------------------------
(* Decisions.                                                               *)

\* The patterns do not let the record pass.
NoOverride(patterns, site, lvl) == ~(patterns # <<>> /\ PatternLevel(patterns, site) >= lvl)

\* Level refused the record, then the patterns did.  If the settings have changed once
\* meanwhile, they changed in one of the two: before or after, both refuse it.
LEMMA DropExplained ==
    ASSUME SettingsOK, SettingsJ, NEW from \in 1..Len(settings), NEW site, NEW lvl,
           \E n \in from..Len(settings) : ~Passes(settings[n].level, lvl),
           NoOverride(Current.patterns, site, lvl), Len(settings) - from <= 1
    PROVE  \E n \in from..Len(settings) : ~Allows(settings[n], site, lvl)
  <1> DEFINE k == Len(settings)
  <1>1. k \in Nat /\ k \in 1..k /\ 1 \in 1..k  BY SettingsLen, Zenon
  <1>2. \A n \in 1..k : Allows(settings[n], site, lvl) <=>
            Passes(settings[n].level, lvl) \/ ~NoOverride(settings[n].patterns, site, lvl)
    BY Zenon DEF Allows, Passes, NoOverride
  <1>3. PICK n \in from..k : ~Passes(settings[n].level, lvl)  BY Zenon
  <1>4. NoOverride(settings[k].patterns, site, lvl)  BY Zenon DEF Current
  <1>5. CASE n = k
    <2>1. ~Allows(settings[k], site, lvl)  BY <1>1, <1>2, <1>3, <1>4, <1>5, Zenon
    <2> QED  BY <1>3, <1>5, <2>1, Zenon
  <1>6. CASE n # k
    <2> HIDE DEF k
    <2>1. n = from /\ n + 1 = k /\ n \in 1..k /\ n + 1 \in 1..k /\ k \in from..k  BY <1>1, <1>3, <1>6 DEF k
    <2>2. settings[k].level = settings[n].level \/ settings[k].patterns = settings[n].patterns
      BY <2>1, Zenon DEF SettingsJ, k
    <2>3. ~Allows(settings[k], site, lvl) \/ ~Allows(settings[n], site, lvl)  BY <1>1, <1>2, <1>3, <1>4, <2>1, <2>2, Zenon
    <2>4. \E o \in from..k : ~Allows(settings[o], site, lvl)  BY <1>3, <2>1, <2>3, Zenon
    <2> QED  BY <2>4, Zenon DEF k
  <1> QED  BY <1>5, <1>6, Zenon

\* What the patterns in force say lets a record pass only if the settings do.
LEMMA PassExplained ==
    ASSUME SettingsOK, SettingsJ, NEW site, NEW lvl \in Nat, Passes(PatternLevel(Current.patterns, site), lvl)
    PROVE  Allows(Current, site, lvl)
  <1>1. CASE Current.patterns # <<>>  BY <1>1, Zenon DEF Allows, Passes
  <1>2. CASE Current.patterns = <<>>
    <2>1. DOMAIN <<>> = {}  OBVIOUS
    <2>2. {n \in DOMAIN Current.patterns : site \in Current.patterns[n].sites} = {}  BY <1>2, <2>1, Zenon
    <2>3. PatternLevel(Current.patterns, site) = 0  BY <2>2, Zenon DEF PatternLevel
    <2>4. 0 >= lvl  BY <2>3, Zenon DEF Passes
    <2>5. Current.level \in Nat  BY SettingsLen, Zenon DEF SettingsJ, Current
    <2>6. Current.level >= lvl
      <3> DEFINE l == Current.level
      <3> HIDE DEF l
      <3>1. l \in Nat  BY <2>5, Zenon DEF l
      <3>2. l >= lvl  BY <2>4, <3>1
      <3> QED  BY <3>2, Zenon DEF l
    <2> QED  BY <2>6, Zenon DEF Allows
  <1> QED  BY <1>1, <1>2, Zenon

----------------------------------------------------------------------------
(* The steps of the handlers, again.                                        *)

\* The level of no record changes.
LEMMA RecsSame ==
    ASSUME NEW P, JInv(P), NEW p, recs' = recs
    PROVE  RecsStep(P, p)
  BY Zenon DEF JInv, RecsJ, RecsStep

\* append to a record's context.
LEMMA RecsAppended ==
    ASSUME ShapeOK, NEW P, JInv(P), NEW p, NEW r \in 1..Len(recs), NEW e, Appended(r, e)
    PROVE  RecsStep(P, p)
  <1> DEFINE new == [recs[r] EXCEPT !.ctx = Len(ctxs) + 1]
             rs == [recs EXCEPT ![r] = new]
  <1>1. recs' = rs  BY Zenon DEF Appended
  <1>2. IsSeq(recs) /\ Rec(recs[r], Len(ctxs)) /\ DOMAIN recs = 1..Len(recs)  BY RecTypes, Zenon DEF ShapeOK
  <1>3. new.lvl = recs[r].lvl  BY <1>2, Zenon DEF Rec
  <1> HIDE DEF new
  <1>4. Len(rs) = Len(recs) /\ \A j \in DOMAIN recs : rs[j] = IF j = r THEN new ELSE recs[j]
    BY <1>2, ExceptedSeq, Zenon
  <1> HIDE DEF rs
  <1>5. Len(recs') = Len(recs) /\ \A j \in 1..Len(recs) : recs'[j].lvl = recs[j].lvl  BY <1>1, <1>2, <1>3, <1>4, Zenon
  <1> QED  BY <1>5, Zenon DEF JInv, RecsJ, RecsStep

\* GlogHandler changes the level of the record that it has.
LEMMA RecsLevel ==
    ASSUME ShapeOK, NEW P, JInv(P), NEW p, NEW r \in 1..Len(recs), Holds(P, p, r),
           recs' = [recs EXCEPT ![r].lvl = LvlInfo]
    PROVE  RecsStep(P, p)
  <1> DEFINE new == [recs[r] EXCEPT !.lvl = LvlInfo]
             rs == [recs EXCEPT ![r] = new]
  <1>1. recs' = rs  BY Zenon
  <1>2. IsSeq(recs) /\ Rec(recs[r], Len(ctxs)) /\ DOMAIN recs = 1..Len(recs)  BY RecTypes, Zenon DEF ShapeOK
  <1>3. new.lvl \in Nat  BY <1>2, Zenon DEF Rec, LvlInfo
  <1> HIDE DEF new
  <1>4. Len(rs) = Len(recs) /\ \A j \in DOMAIN recs : rs[j] = IF j = r THEN new ELSE recs[j]
    BY <1>2, ExceptedSeq, Zenon
  <1> HIDE DEF rs
  <1>5. Len(recs') = Len(recs) /\ \A j \in 1..Len(recs) : recs'[j] = recs[j] \/ (j = r /\ recs'[j].lvl \in Nat)
    BY <1>1, <1>2, <1>3, <1>4, Zenon
  <1> QED  BY <1>5, Zenon DEF JInv, RecsJ, RecsStep

\* A new record.
LEMMA RecsWrite ==
    ASSUME ShapeOK, NEW P, JInv(P), NEW p, NEW m, m.lvl \in Nat, NEW frames, NEW left, write(p, m, frames, left)
    PROVE  RecsStep(P, p)
  <1> DEFINE new == [lvl |-> m.lvl, site |-> m.site, ctx |-> Recorded(m).at]
  <1>1. recs' = Append(recs, new)  BY Zenon DEF write
  <1>2. new.lvl \in Nat  BY Zenon
  <1> HIDE DEF new
  <1>3. IsSeq(recs)  BY RecTypes, Zenon DEF ShapeOK
  <1>4. Appends(recs', recs, new)  BY <1>1, <1>3, AppendSeq, Zenon
  <1>5. /\ Len(recs) \in Nat /\ Len(recs') = Len(recs) + 1
        /\ recs'[Len(recs) + 1] = new /\ \A i \in 1..Len(recs) : recs'[i] = recs[i]
    BY <1>4, Zenon DEF Appends
  <1>6. \A j \in 1..(Len(recs) + 1) : j = Len(recs) + 1 \/ j \in 1..Len(recs)  BY <1>5
  <1> QED  BY <1>2, <1>5, <1>6, Zenon DEF JInv, RecsJ, RecsStep

\* What runs when a handler is at pc.
LEMMA AtReady ==
    ASSUME SettingsOK, ShapeOK, NEW P, JInv(P), NEW p \in Process, NEW k, NEW pc, At(p, k, pc)
    PROVE  /\ Ready(P, p) /\ Framed(p) /\ Top(p).h.k = k /\ Top(p).pc = pc /\ Top(p).r \in 1..Len(recs)
           /\ Top(p).from \in 1..Len(settings) /\ Len(settings) \in Nat
  <1>1. g[p].stack # <<>> /\ Top(p).h.k = k /\ Top(p).pc = pc  BY Zenon DEF At
  <1>2. Ready(P, p)  BY <1>1, IsReady, Zenon
  <1>3. Framed(p)  BY HasFrame, Zenon
  <1> QED  BY <1>1, <1>2, <1>3, Zenon DEF Framed, Ready, FrameJ

\* A step of a handler that only runs others.
LEMMA StepOrdinary ==
    ASSUME ShapeOK, NEW P, JInv(P), NEW p \in Process, Ready(P, p), Ordinary(P, p), RecsStep(P, p), settings' = settings
    PROVE  JStep(P, p)
  <1>1. StackStep(P, p) /\ g'[p].judged = g[p].judged /\ \A q \in Process : q # p => g'[q] = g[q]  BY OrdinaryStep, Zenon
  <1>2. Justified(g[p].judged)  BY Zenon DEF JInv
  <1> QED  BY <1>1, <1>2, Zenon DEF JStep

\* The frame on top goes on.
LEMMA OnForms ==
    ASSUME NEW P, NEW p, Ready(P, p), NEW a, a \notin Deciding, NEW b, NEW c,
           Top(p).h.k \in {"multi", "failover"} => b \in Nat /\ 1 <= b
    PROVE  /\ On(p, [Top(p) EXCEPT !.pc = a])
           /\ On(p, [Top(p) EXCEPT !.pc = a, !.out = c])
           /\ On(p, [Top(p) EXCEPT !.pc = a, !.i = b, !.v = c])
           /\ On(p, [Top(p) EXCEPT !.pc = a, !.i = b, !.x = c])
           /\ Top(p).pc \notin Deciding => On(p, [Top(p) EXCEPT !.i = b])
  <1> DEFINE f == Top(p)
  <1>1. /\ f = [h |-> f.h, r |-> f.r, pc |-> f.pc, i |-> f.i, x |-> f.x, v |-> f.v, out |-> f.out, from |-> f.from]
        /\ f.h.k \in {"multi", "failover"} => f.i \in Nat /\ 1 <= f.i
    BY Zenon DEF Ready, Frame, FrameJ
  <1> DEFINE Kept(e) == e.h = f.h /\ e.r = f.r /\ e.from = f.from
  <1>2. \A e : Kept(e) /\ e.pc \notin Deciding /\ (f.h.k \in {"multi", "failover"} => e.i \in Nat /\ 1 <= e.i) => On(p, e)
    BY Zenon DEF On
  <1>3. LET e == [f EXCEPT !.pc = a] IN Kept(e) /\ e.pc = a /\ e.i = f.i
    <2> HIDE DEF f
    <2> QED  BY <1>1, Zenon
  <1>4. LET e == [f EXCEPT !.pc = a, !.out = c] IN Kept(e) /\ e.pc = a /\ e.i = f.i
    <2> HIDE DEF f
    <2> QED  BY <1>1, Zenon
  <1>5. LET e == [f EXCEPT !.pc = a, !.i = b, !.v = c] IN Kept(e) /\ e.pc = a /\ e.i = b
    <2> HIDE DEF f
    <2> QED  BY <1>1, Zenon
  <1>6. LET e == [f EXCEPT !.pc = a, !.i = b, !.x = c] IN Kept(e) /\ e.pc = a /\ e.i = b
    <2> HIDE DEF f
    <2> QED  BY <1>1, Zenon
  <1>7. LET e == [f EXCEPT !.i = b] IN Kept(e) /\ e.pc = f.pc /\ e.i = b
    <2> HIDE DEF f
    <2> QED  BY <1>1, Zenon
  <1> HIDE DEF Kept
  <1> QED  BY <1>1, <1>2, <1>3, <1>4, <1>5, <1>6, <1>7, Zenon

\* What a handler may call.
LEMMA MayCall ==
    ASSUME NEW P, Plain(P), NEW p
    PROVE  /\ Top(p).h.k \in {"glog", "swap"} => Top(p).h \notin P /\ \A h : Calls(P, p, h)
           /\ Top(p).h.k \in {"filter", "caller", "lazy", "sync"} => Calls(P, p, Top(p).h.h)
           /\ Top(p).h.k \in {"multi", "failover"} =>
                  \A i \in Nat : 1 <= i /\ i <= Len(Top(p).h.hs) => Calls(P, p, Top(p).h.hs[i])
  <1>1. Top(p).h.k \in {"glog", "swap"} => Top(p).h \notin P  BY Zenon DEF Plain
  <1>2. Top(p).h.k \in {"filter", "caller", "lazy", "sync"} => Calls(P, p, Top(p).h.h)  BY Zenon DEF Plain, Calls
  <1>3. Top(p).h.k \in {"multi", "failover"} =>
            \A i \in Nat : 1 <= i /\ i <= Len(Top(p).h.hs) => Calls(P, p, Top(p).h.hs[i])
    BY Zenon DEF Plain, Calls
  <1> QED  BY <1>1, <1>2, <1>3, Zenon DEF Calls

\* pcs of frames that decide nothing.
LEMMA Undecided ==
    \A pc \in {"in", "back", "out", "store", "location", "level"} : pc \notin Deciding
  BY Zenon DEF Deciding

\* swapHandler, DiscardHandler, FilterHandler, CallerFileHandler.
LEMMA JSimple ==
    ASSUME SettingsOK, ShapeOK, NEW P, Plain(P), JInv(P), NEW p \in Process,
           Swapped(p) \/ DiscardLog(p) \/ FilterLog(p) \/ CallerFileLog(p)
    PROVE  JStep(P, p)
  <1>1. settings' = settings
    BY Zenon DEF Swapped, DiscardLog, FilterLog, CallerFileLog, Still
  <1>2. CASE Swapped(p)
    <2>1. Ready(P, p) /\ Top(p).h.k = "swap"  BY <1>2, AtReady, Zenon DEF Swapped
    <2>2. Ordinary(P, p)
      <3>1. \A h : Calls(P, p, h)
        <4>1. "swap" \in {"glog", "swap"}  BY Zenon
        <4> QED  BY <2>1, <4>1, MayCall, Zenon
      <3> QED  BY <1>2, <3>1, Zenon DEF Swapped, Ordinary
    <2>3. RecsStep(P, p)  BY <1>2, RecsSame, Zenon DEF Swapped
    <2> QED  BY <1>1, <2>1, <2>2, <2>3, StepOrdinary, Zenon
  <1>3. CASE DiscardLog(p)
    <2>1. Ready(P, p)  BY <1>3, AtReady, Zenon DEF DiscardLog
    <2>2. Ordinary(P, p)  BY <1>3, Zenon DEF DiscardLog, Ordinary
    <2>3. RecsStep(P, p)  BY <1>3, RecsSame, Zenon DEF DiscardLog
    <2> QED  BY <1>1, <2>1, <2>2, <2>3, StepOrdinary, Zenon
  <1>4. CASE FilterLog(p)
    <2>1. Ready(P, p) /\ Top(p).h.k = "filter"  BY <1>4, AtReady, Zenon DEF FilterLog
    <2>2. Calls(P, p, Top(p).h.h)  BY <2>1, MayCall, Zenon
    <2>3. Ordinary(P, p)  BY <1>4, <2>2, Zenon DEF FilterLog, Ordinary
    <2>4. RecsStep(P, p)  BY <1>4, RecsSame, Zenon DEF FilterLog
    <2> QED  BY <1>1, <2>1, <2>3, <2>4, StepOrdinary, Zenon
  <1>5. CASE CallerFileLog(p)
    <2>1. Ready(P, p) /\ Top(p).h.k = "caller" /\ Top(p).r \in 1..Len(recs)  BY <1>5, AtReady, Zenon DEF CallerFileLog
    <2>2. Calls(P, p, Top(p).h.h)  BY <2>1, MayCall, Zenon
    <2>3. Ordinary(P, p)  BY <1>5, <2>2, Zenon DEF CallerFileLog, Ordinary
    <2>4. RecsStep(P, p)  BY <1>5, <2>1, RecsAppended, Zenon DEF CallerFileLog
    <2> QED  BY <1>1, <2>1, <2>3, <2>4, StepOrdinary, Zenon
  <1> QED  BY <1>2, <1>3, <1>4, <1>5, Zenon

\* MultiHandler and FailoverHandler.
LEMMA JMany ==
    ASSUME SettingsOK, ShapeOK, NEW P, Plain(P), JInv(P), NEW p \in Process,
           MultiLog(p) \/ FailoverLog(p) \/ FailoverBack(p)
    PROVE  JStep(P, p)
  <1> DEFINE f == Top(p)
  <1>1. settings' = settings  BY Zenon DEF MultiLog, FailoverLog, FailoverBack, Still
  <1>2. PICK k, pc : At(p, k, pc) /\ k \in {"multi", "failover"} /\ pc \notin Deciding
    BY Undecided, Zenon DEF MultiLog, FailoverLog, FailoverBack
  <1>3. Ready(P, p) /\ f.h.k \in {"multi", "failover"} /\ f.pc \notin Deciding /\ f.r \in 1..Len(recs)
    BY <1>2, AtReady, Zenon
  <1>4. f.i \in Nat /\ 1 <= f.i  BY <1>3, Zenon DEF Ready, FrameJ
  <1>5. f.i + 1 \in Nat /\ 1 <= f.i + 1
    <2> HIDE DEF f
    <2> QED  BY <1>4
  <1>6. f.i <= Len(f.h.hs) => Calls(P, p, f.h.hs[f.i])  BY <1>3, <1>4, MayCall, Zenon
  <1>7. CASE MultiLog(p)
    <2>1. On(p, [f EXCEPT !.i = f.i + 1])
      <3>1. "in" \notin Deciding  BY Undecided, Zenon
      <3> QED  BY <1>3, <1>5, <3>1, OnForms, Zenon
    <2>2. Ordinary(P, p)  BY <1>6, <1>7, <2>1, Zenon DEF MultiLog, Ordinary
    <2>3. RecsStep(P, p)  BY <1>7, RecsSame, Zenon DEF MultiLog
    <2> QED  BY <1>1, <1>3, <2>2, <2>3, StepOrdinary, Zenon
  <1>8. CASE FailoverLog(p)
    <2>1. On(p, [f EXCEPT !.pc = "back"])
      <3>1. "back" \notin Deciding  BY Undecided, Zenon
      <3> QED  BY <1>3, <1>4, <3>1, OnForms, Zenon
    <2>2. Ordinary(P, p)  BY <1>6, <1>8, <2>1, Zenon DEF FailoverLog, Ordinary
    <2>3. RecsStep(P, p)  BY <1>8, RecsSame, Zenon DEF FailoverLog
    <2> QED  BY <1>1, <1>3, <2>2, <2>3, StepOrdinary, Zenon
  <1>9. CASE FailoverBack(p)
    <2>1. On(p, [f EXCEPT !.pc = "in", !.i = f.i + 1, !.x = g[p].ret])
      <3>1. "in" \notin Deciding  BY Undecided, Zenon
      <3> QED  BY <1>3, <1>5, <3>1, OnForms, Zenon
    <2>2. Ordinary(P, p)  BY <1>9, <2>1, Zenon DEF FailoverBack, Ordinary
    <2>3. recs' = recs \/ \E e : Appended(f.r, e)  BY <1>9, Zenon DEF FailoverBack, Explained
    <2>4. RecsStep(P, p)  BY <1>3, <2>3, RecsSame, RecsAppended, Zenon
    <2> QED  BY <1>1, <1>3, <2>2, <2>4, StepOrdinary, Zenon
  <1> QED  BY <1>7, <1>8, <1>9, Zenon

\* ChannelHandler, SyncHandler, StreamHandler.
LEMMA JStream ==
    ASSUME SettingsOK, ShapeOK, NEW P, Plain(P), JInv(P), NEW p \in Process,
           ChannelLog(p) \/ SyncLock(p) \/ SyncUnlock(p) \/ StreamFormat(p) \/ StreamWrite(p)
    PROVE  JStep(P, p)
  <1> DEFINE f == Top(p)
  <1>1. settings' = settings /\ recs' = recs
    BY Zenon DEF ChannelLog, SyncLock, SyncUnlock, StreamFormat, StreamWrite, Still
  <1>2. PICK k, pc : At(p, k, pc) /\ (SyncLock(p) => k = "sync") /\ (StreamFormat(p) => k = "write")
    <2>1. CASE ChannelLog(p) /\ ~SyncLock(p) /\ ~StreamFormat(p)  BY <2>1, Zenon DEF ChannelLog
    <2>2. CASE SyncUnlock(p) /\ ~SyncLock(p) /\ ~StreamFormat(p)  BY <2>2, Zenon DEF SyncUnlock
    <2>3. CASE StreamWrite(p) /\ ~SyncLock(p) /\ ~StreamFormat(p)  BY <2>3, Zenon DEF StreamWrite
    <2>4. CASE SyncLock(p)
      <3>1. At(p, "sync", "in")  BY <2>4, Zenon DEF SyncLock
      <3>2. ~StreamFormat(p)
        <4>1. Top(p).h.k = "sync"  BY <3>1, Zenon DEF At
        <4>2. StreamFormat(p) => Top(p).h.k = "write"  BY Zenon DEF StreamFormat, At
        <4>3. "sync" # "write"  BY Zenon
        <4> QED  BY <4>1, <4>2, <4>3, Zenon
      <3> QED  BY <3>1, <3>2, Zenon
    <2>5. CASE StreamFormat(p) /\ ~SyncLock(p)  BY <2>5, Zenon DEF StreamFormat
    <2> QED  BY <2>1, <2>2, <2>3, <2>4, <2>5, Zenon
  <1>3. Ready(P, p) /\ f.h.k = k  BY <1>2, AtReady, Zenon
  <1>4. Ordinary(P, p)
    <2>1. CASE SyncLock(p)
      <3>1. f.h.k = "sync"  BY <1>2, <1>3, <2>1, Zenon
      <3>2. Calls(P, p, f.h.h)  BY <3>1, MayCall, Zenon
      <3>3. On(p, [f EXCEPT !.pc = "back"])
        <4>1. "back" \notin Deciding /\ ~(f.h.k \in {"multi", "failover"})  BY <3>1, Undecided, Zenon
        <4> QED  BY <1>3, <4>1, OnForms, Zenon
      <3> QED  BY <2>1, <3>2, <3>3, Zenon DEF SyncLock, Ordinary
    <2>2. CASE StreamFormat(p)
      <3>1. f.h.k = "write"  BY <1>2, <1>3, <2>2, Zenon
      <3>2. On(p, [f EXCEPT !.pc = "out", !.out = Ctx(f.r)])
        <4>1. "out" \notin Deciding /\ ~(f.h.k \in {"multi", "failover"})  BY <3>1, Undecided, Zenon
        <4> QED  BY <1>3, <4>1, OnForms, Zenon
      <3> QED  BY <2>2, <3>2, Zenon DEF StreamFormat, Ordinary
    <2>3. CASE ChannelLog(p) \/ SyncUnlock(p) \/ StreamWrite(p)
      BY <2>3, Zenon DEF ChannelLog, SyncUnlock, StreamWrite, Ordinary
    <2> QED  BY <2>1, <2>2, <2>3, Zenon
  <1>5. RecsStep(P, p)  BY <1>1, RecsSame, Zenon
  <1> QED  BY <1>1, <1>3, <1>4, <1>5, StepOrdinary, Zenon

\* A record is made and given to a logger's handler.
LEMMA JWrite ==
    ASSUME SettingsOK, ShapeOK, NEW P, Plain(P), JInv(P), NEW p \in Process, NEW m, m.lvl \in Nat,
           NEW frames, IsSeq(frames), NEW F, Mixed(frames, F, g[p].stack), \A e \in F : New(P, p, e), NEW left,
           write(p, m, frames, left), settings' = settings
    PROVE  JStep(P, p)
  <1> DEFINE r == Len(recs) + 1
             c == Call(SwapHandler(m.l), r)
             d == [Call([k |-> "logger"], r) EXCEPT !.i = m.lvl]
             s == <<c, d>> \o frames
  <1>1. Len(settings) \in 1..Len(settings)  BY SettingsLen, Zenon
  <1>2. New(P, p, c)
    <2>1. c.from = Len(settings) /\ c.pc = "in" /\ c.h.k = "swap" /\ c.r = r  BY Zenon DEF Call, SwapHandler
    <2>2. "in" \notin Deciding /\ "swap" \notin {"multi", "failover"}  BY Undecided, Zenon
    <2> HIDE DEF c
    <2> QED  BY <1>1, <2>1, <2>2, Zenon DEF New
  <1>3. New(P, p, d)
    <2>1. d.from = Len(settings) /\ d.pc = "in" /\ d.h.k = "logger" /\ d.r = r  BY Zenon DEF Call
    <2>2. "in" \notin Deciding /\ "logger" \notin {"multi", "failover"}  BY Undecided, Zenon
    <2> HIDE DEF d
    <2> QED  BY <1>1, <2>1, <2>2, Zenon DEF New
  <1>4. g' = [g EXCEPT ![p].left = left, ![p].stack = s]  BY Zenon DEF write
  <1> HIDE DEF c, d
  <1>5. Put(g', p, s, g[p].judged)
    <2> HIDE DEF s
    <2> QED  BY <1>4, PutParts, Zenon
  <1>6. Mixed(s, F \cup {c, d}, g[p].stack)  BY MixedPush, Zenon
  <1>7. \A e \in F \cup {c, d} : New(P, p, e)  BY <1>2, <1>3, Zenon
  <1> HIDE DEF s
  <1>8. g'[p].stack = s /\ g'[p].judged = g[p].judged /\ \A q \in Process : q # p => g'[q] = g[q]  BY <1>5, Zenon DEF Put
  <1>9. StackStep(P, p)  BY <1>6, <1>7, <1>8, MixedStep, Zenon
  <1>10. RecsStep(P, p)  BY RecsWrite, Zenon
  <1> QED  BY <1>8, <1>9, <1>10, Zenon DEF JStep, JInv

\* A logger is called.
LEMMA JLogCall ==
    ASSUME SettingsOK, ShapeOK, NEW P, Plain(P), LevelsNat, JInv(P), NEW p \in Goroutine, LogCall(p)
    PROVE  JStep(P, p)
  <1>1. p \in Process  BY Zenon DEF Process
  <1>2. settings' = settings  BY Zenon DEF LogCall
  <1>3. PICK m \in Messages[p] : write(p, m, <<>>, g[p].left - 1)  BY Zenon DEF LogCall
  <1>4. m.lvl \in Nat  BY Zenon DEF LevelsNat
  <1>5. <<>> \in Seq({}) /\ DOMAIN <<>> = {}  OBVIOUS
  <1> DEFINE none == {}
  <1>6. IsSeq(<<>>) /\ Mixed(<<>>, none, g[p].stack)  BY <1>5, Zenon DEF IsSeq, Mixed
  <1>7. \A e \in none : New(P, p, e)  BY Zenon
  <1> HIDE DEF none
  <1> QED  BY <1>1, <1>2, <1>3, <1>4, <1>6, <1>7, JWrite, Zenon

\* LazyHandler.
LEMMA JLazy ==
    ASSUME SettingsOK, ShapeOK, NEW P, Plain(P), LevelsNat, JInv(P), NEW p \in Process,
           LazyCall(p) \/ LazyStore(p) \/ LazyDone(p)
    PROVE  JStep(P, p)
  <1> DEFINE f == Top(p)
  <1>1. settings' = settings  BY Zenon DEF LazyCall, LazyStore, LazyDone, Still
  <1>2. \E pc : At(p, "lazy", pc)  BY Zenon DEF LazyCall, LazyStore, LazyDone
  <1>3. Ready(P, p) /\ f.h.k = "lazy" /\ f.r \in 1..Len(recs)  BY <1>2, AtReady, Zenon
  <1>4. ~(f.h.k \in {"multi", "failover"})  BY <1>3, Zenon
  <1>5. CASE LazyCall(p)
    <2>1. PICK b, c :
             LET called == [f EXCEPT !.pc = "store", !.i = b, !.v = c] IN
             \/ g' = Set(p, called) /\ recs' = recs
             \/ write(p, Nested, <<called>> \o Tail(g[p].stack), g[p].left)
      BY <1>5, Zenon DEF LazyCall
    <2> DEFINE called == [f EXCEPT !.pc = "store", !.i = b, !.v = c]
    <2>2. On(p, called)
      <3>1. "store" \notin Deciding  BY Undecided, Zenon
      <3> QED  BY <1>3, <1>4, <3>1, OnForms, Zenon
    <2>3. \/ g' = Set(p, called) /\ recs' = recs
          \/ write(p, Nested, <<called>> \o Tail(g[p].stack), g[p].left)
      BY <2>1, Zenon
    <2> HIDE DEF called, f
    <2>4. CASE g' = Set(p, called) /\ recs' = recs
      <3>1. Ordinary(P, p)  BY <2>2, <2>4, Zenon DEF Ordinary
      <3> QED  BY <1>1, <1>3, <2>4, <3>1, RecsSame, StepOrdinary, Zenon
    <2>5. CASE write(p, Nested, <<called>> \o Tail(g[p].stack), g[p].left)
      <3> DEFINE t == Tail(g[p].stack)
      <3>1. IsSeq(t) /\ Mixed(t, {}, g[p].stack)  BY <1>3, Zenon DEF Ready
      <3> HIDE DEF t
      <3>2. Mixed(<<called>> \o t, {} \cup {called}, g[p].stack)  BY <3>1, MixedPush, Zenon
      <3>3. IsSeq(<<called>> \o t)  BY <3>1, PushSeq, Zenon DEF Pushed
      <3>4. New(P, p, called)  BY <1>3, <2>2, NewFrames, Zenon
      <3>5. \A e \in {} \cup {called} : New(P, p, e)  BY <3>4, Zenon
      <3>6. Nested.lvl \in Nat  BY Zenon DEF LevelsNat
      <3>7. write(p, Nested, <<called>> \o t, g[p].left)  BY <2>5, Zenon DEF t
      <3> QED  BY <1>1, <3>2, <3>3, <3>5, <3>6, <3>7, JWrite, Zenon
    <2> QED  BY <2>3, <2>4, <2>5, Zenon
  <1>6. CASE LazyStore(p)
    <2>1. \A x : On(p, [f EXCEPT !.pc = "in", !.i = f.i + 1, !.x = x])
      <3>1. "in" \notin Deciding  BY Undecided, Zenon
      <3> QED  BY <1>3, <1>4, <3>1, OnForms, Zenon
    <2>2. g' = Set(p, [f EXCEPT !.pc = "in", !.i = f.i + 1, !.x = IF f.v = "err" THEN "err" ELSE f.x]) /\ recs' = recs
      BY <1>6, Zenon DEF LazyStore
    <2>3. Ordinary(P, p)  BY <2>1, <2>2, Zenon DEF Ordinary
    <2> QED  BY <1>1, <1>3, <2>2, <2>3, RecsSame, StepOrdinary, Zenon
  <1>7. CASE LazyDone(p)
    <2>1. Calls(P, p, f.h.h)  BY <1>3, MayCall, Zenon
    <2>2. Ordinary(P, p)  BY <1>7, <2>1, Zenon DEF LazyDone, Ordinary
    <2>3. recs' = recs \/ \E e : Appended(f.r, e)  BY <1>7, Zenon DEF LazyDone
    <2>4. RecsStep(P, p)  BY <1>3, <2>3, RecsSame, RecsAppended, Zenon
    <2> QED  BY <1>1, <1>3, <2>2, <2>4, StepOrdinary, Zenon
  <1> QED  BY <1>5, <1>6, <1>7, Zenon

\* The goroutine of BufferedHandler takes a record, which its own handler gets.
LEMMA JFlush ==
    ASSUME SettingsOK, ShapeOK, NEW P, Plain(P), Flushed \in P, JInv(P), Flush
    PROVE  JStep(P, Flusher)
  <1> DEFINE c == Call(Flushed, Head(queue))
             s == <<c>>
  <1>1. Flusher \in Process  BY Zenon DEF Process
  <1>2. settings' = settings /\ recs' = recs /\ g' = [g EXCEPT ![Flusher].stack = s]  BY Zenon DEF Flush, Still
  <1>3. New(P, Flusher, c)
    <2>1. c.from = Len(settings) /\ c.pc = "in" /\ c.i = 1 /\ c.h = Flushed  BY Zenon DEF Call
    <2>2. "in" \notin Deciding /\ 1 \in Nat /\ 1 <= 1 /\ Len(settings) \in 1..Len(settings)  BY Undecided, SettingsLen, SMTT(30)
    <2> HIDE DEF c
    <2> QED  BY <2>1, <2>2, Zenon DEF New
  <1> HIDE DEF c
  <1>4. DOMAIN s = {1} /\ s[1] = c  OBVIOUS
  <1> HIDE DEF s
  <1>5. Put(g', Flusher, s, g[Flusher].judged)  BY <1>1, <1>2, PutParts, Zenon
  <1>6. /\ g'[Flusher].stack = s /\ g'[Flusher].judged = g[Flusher].judged
        /\ \A q \in Process : q # Flusher => g'[q] = g[q]
    BY <1>5, Zenon DEF Put
  <1>7. StackStep(P, Flusher)
    <2> DEFINE one == {c}
    <2>1. Mixed(s, one, g[Flusher].stack)
      <3>1. \A i \in DOMAIN s : s[i] \in one  BY <1>4, Zenon
      <3> QED  BY <3>1, Zenon DEF Mixed
    <2>2. \A e \in one : New(P, Flusher, e)  BY <1>3, Zenon
    <2> HIDE DEF one
    <2> QED  BY <1>1, <1>6, <2>1, <2>2, MixedStep, Zenon
  <1>8. RecsStep(P, Flusher)  BY <1>2, RecsSame, Zenon
  <1> QED  BY <1>1, <1>2, <1>6, <1>7, <1>8, Zenon DEF JStep, JInv

\* A decision, when what comes next is another handler or a return.
LEMMA JDecides ==
    ASSUME ShapeOK, NEW P, JInv(P), NEW p \in Process, Ready(P, p), Framed(p), NEW next, NEW j, Justified(j),
           (\E e : next = Return(p, e)) \/ (\E h : Calls(P, p, h) /\ next = Become(p, h)),
           g' = [next EXCEPT ![p].judged = j], recs' = recs, settings' = settings
    PROVE  JStep(P, p)
  <1> DEFINE t == Tail(g[p].stack)
             none == {}
  <1>1. GoroutinesOK(next, Len(recs))  BY Zenon DEF Framed
  <1>2. \A e \in none : New(P, p, e)  BY Zenon
  <1>3. Mixed(t, none, g[p].stack)  BY Zenon DEF Ready
  <1> HIDE DEF none
  <1>4. ASSUME NEW s, Put(next, p, s, g[p].judged)
        PROVE  g'[p].stack = s /\ g'[p].judged = j /\ \A q \in Process : q # p => g'[q] = g[q]
    <2>1. Put(g', p, s, j)  BY <1>1, <1>4, PutDecision, Zenon
    <2> QED  BY <2>1, Zenon DEF Put
  <1>5. CASE \E e : next = Return(p, e)
    <2>1. Put(next, p, t, g[p].judged)  BY <1>5, PutSteps, Zenon
    <2>2. StackStep(P, p)  BY <1>2, <1>3, <1>4, <2>1, MixedStep, Zenon
    <2>3. RecsStep(P, p)  BY RecsSame, Zenon
    <2> QED  BY <1>4, <2>1, <2>2, <2>3, Zenon DEF JStep
  <1>6. ASSUME NEW h, Calls(P, p, h), next = Become(p, h)  PROVE JStep(P, p)
    <2> DEFINE c == Call(h, Top(p).r)
    <2>1. New(P, p, c)  BY <1>6, NewFrames, Zenon
    <2>2. next = Set(p, c)  BY <1>6, Zenon DEF Become
    <2> HIDE DEF c
    <2>3. Put(next, p, <<c>> \o t, g[p].judged)  BY <2>2, PutSteps, Zenon
    <2>4. g'[p].stack = <<c>> \o t  BY <1>4, <2>3, Zenon
    <2>5. StackStep(P, p)  BY <2>1, <2>4, TopStep, Zenon
    <2>6. RecsStep(P, p)  BY RecsSame, Zenon
    <2> QED  BY <1>4, <2>3, <2>5, <2>6, Zenon DEF JStep
  <1> QED  BY <1>5, <1>6, Zenon

\* Settings that allow the record, or, if there were not more than one change, some that do not.
LEMMA Verdicts ==
    ASSUME SettingsOK, NEW site, NEW lvl, NEW from \in 1..Len(settings)
    PROVE  LET j(passed) == [site |-> site, lvl |-> lvl, passed |-> passed, from |-> from, to |-> Len(settings)] IN
           /\ Allows(Current, site, lvl) => Justified(j(TRUE))
           /\ (Len(settings) - from <= 1 => \E n \in from..Len(settings) : ~Allows(settings[n], site, lvl)) =>
                  Justified(j(FALSE))
  <1> DEFINE j(passed) == [site |-> site, lvl |-> lvl, passed |-> passed, from |-> from, to |-> Len(settings)]
  <1>1. Len(settings) \in 1..Len(settings) /\ Len(settings) \in from..Len(settings)  BY SettingsLen, SMTT(30)
  <1>2. \A b : j(b).site = site /\ j(b).lvl = lvl /\ j(b).from = from /\ j(b).to = Len(settings)  BY Zenon
  <1>3. j(TRUE).passed = TRUE /\ j(FALSE).passed = FALSE  BY Zenon
  <1> HIDE DEF j
  <1>4. Allows(Current, site, lvl) => Justified(j(TRUE))  BY <1>1, <1>2, <1>3, Zenon DEF Justified, Current
  <1>5. (Len(settings) - from <= 1 => \E n \in from..Len(settings) : ~Allows(settings[n], site, lvl)) => Justified(j(FALSE))
    BY <1>1, <1>2, <1>3, Zenon DEF Justified
  <1> QED  BY <1>4, <1>5, Zenon DEF j

\* logger.write is done.
LEMMA JLogged ==
    ASSUME SettingsOK, ShapeOK, NEW P, Plain(P), JInv(P), NEW p \in Process, Logged(p)
    PROVE  JStep(P, p)
  <1>1. Ready(P, p) /\ Framed(p)  BY AtReady, Zenon DEF Logged
  <1>2. Justified(Unjudged)
    <2>1. 1 \in 1..Len(settings)  BY SettingsLen, Zenon
    <2>2. settings[1].level \in Nat  BY <2>1, Zenon DEF JInv, SettingsJ
    <2>3. settings[1].level >= 0
      <3> DEFINE l == settings[1].level
      <3> HIDE DEF l
      <3>1. l >= 0  BY <2>2 DEF l
      <3> QED  BY <3>1, Zenon DEF l
    <2>4. Allows(settings[1], NoSite, LvlCrit)  BY <2>3, Zenon DEF Allows, LvlCrit
    <2>5. /\ Unjudged.from = 1 /\ Unjudged.to = 1 /\ Unjudged.site = NoSite /\ Unjudged.lvl = LvlCrit
          /\ Unjudged.passed = TRUE
      BY Zenon DEF Unjudged
    <2>6. 1 \in 1..1  OBVIOUS
    <2> QED  BY <2>1, <2>4, <2>5, <2>6, Zenon DEF Justified
  <1>3. g' = [Return(p, "") EXCEPT ![p].judged = Unjudged] /\ recs' = recs /\ settings' = settings  BY Zenon DEF Logged
  <1> QED  BY <1>1, <1>2, <1>3, JDecides, Zenon

\* Backtrace and location, before GlogHandler.Log looks at the level.
LEMMA JGlogBefore ==
    ASSUME SettingsOK, ShapeOK, NEW P, Plain(P), JInv(P), NEW p \in Process, GlogBacktrace(p) \/ GlogLocation(p)
    PROVE  JStep(P, p)
  <1>1. settings' = settings  BY Zenon DEF GlogBacktrace, GlogLocation, GlogStep
  <1>2. \E pc : At(p, "glog", pc)  BY Zenon DEF GlogBacktrace, GlogLocation
  <1>3. Ready(P, p) /\ Top(p).h.k = "glog" /\ Top(p).r \in 1..Len(recs)  BY <1>2, AtReady, Zenon
  <1>4. Top(p).h \notin P  BY <1>3, MayCall, Zenon
  <1>5. \A pc : pc \notin Deciding => On(p, Glog(p, pc))
    <2>1. ~(Top(p).h.k \in {"multi", "failover"})  BY <1>3, Zenon
    <2> QED  BY <1>3, <2>1, OnForms, Zenon DEF Glog
  <1>6. \E pc : pc \in {"location", "level"} /\ g' = Set(p, Glog(p, pc))
    BY Zenon DEF GlogBacktrace, GlogLocation
  <1>7. Ordinary(P, p)  BY <1>5, <1>6, Undecided, Zenon DEF Ordinary
  <1>8. recs' = recs \/ recs' = [recs EXCEPT ![Top(p).r].lvl = LvlInfo]  BY Zenon DEF GlogBacktrace, GlogLocation
  <1>9. Holds(P, p, Top(p).r)  BY <1>3, <1>4, TopHeld, Zenon
  <1>10. RecsStep(P, p)
    <2>1. CASE recs' = recs  BY <2>1, RecsSame, Zenon
    <2>2. CASE recs' = [recs EXCEPT ![Top(p).r].lvl = LvlInfo]  BY <1>3, <1>9, <2>2, RecsLevel, Zenon
    <2> QED  BY <1>8, <2>1, <2>2, Zenon
  <1> QED  BY <1>1, <1>3, <1>7, <1>10, StepOrdinary, Zenon

\* GlogHandler.Log goes on with a record that level has refused.
LEMMA JGoes ==
    ASSUME ShapeOK, NEW P, JInv(P), NEW p \in Process, Ready(P, p), Top(p).h.k = "glog", Top(p).h \notin P, Refused(Top(p)),
           NEW pc, g' = Set(p, Glog(p, pc)), recs' = recs, settings' = settings
    PROVE  JStep(P, p)
  <1> DEFINE f == Top(p)
             e == Glog(p, pc)
  <1>1. f = [h |-> f.h, r |-> f.r, pc |-> f.pc, i |-> f.i, x |-> f.x, v |-> f.v, out |-> f.out, from |-> f.from]
    BY Zenon DEF Ready, Frame
  <1>2. e.h = f.h /\ e.r = f.r /\ e.from = f.from
    <2>1. e = [f EXCEPT !.pc = pc]  BY Zenon DEF Glog
    <2> HIDE DEF f, e
    <2> QED  BY <1>1, <2>1, Zenon
  <1>3. Goes(P, p, e)
    <2>1. f.from \in 1..Len(settings)  BY Zenon DEF Ready, FrameJ
    <2>2. "glog" \notin {"multi", "failover"}  BY Zenon
    <2>3. Holds(P, p, f.r)  BY TopHeld, Zenon
    <2> HIDE DEF e
    <2> QED  BY <1>2, <2>1, <2>2, <2>3, Zenon DEF Goes, Refused
  <1> HIDE DEF e
  <1>4. Put(g', p, <<e>> \o Tail(g[p].stack), g[p].judged)  BY PutSteps, Zenon DEF e
  <1>5. /\ g'[p].stack = <<e>> \o Tail(g[p].stack) /\ g'[p].judged = g[p].judged
        /\ \A q \in Process : q # p => g'[q] = g[q]
    BY <1>4, Zenon DEF Put
  <1>6. StackStep(P, p)  BY <1>3, <1>5, TopStep, Zenon
  <1>7. RecsStep(P, p)  BY RecsSame, Zenon
  <1> QED  BY <1>5, <1>6, <1>7, Zenon DEF JStep, JInv

\* A record that level has refused is dropped if the patterns in force refuse it, too.
LEMMA DropJustified ==
    ASSUME SettingsOK, NEW P, JInv(P), NEW p, Ready(P, p), Refused(Top(p)),
           NoOverride(Current.patterns, recs[Top(p).r].site, recs[Top(p).r].lvl)
    PROVE  Justified([site |-> recs[Top(p).r].site, lvl |-> recs[Top(p).r].lvl, passed |-> FALSE,
                      from |-> Top(p).from, to |-> Len(settings)])
  <1> DEFINE from == Top(p).from
             site == recs[Top(p).r].site
             lvl == recs[Top(p).r].lvl
  <1>1. from \in 1..Len(settings) /\ SettingsJ  BY Zenon DEF Ready, FrameJ, JInv
  <1>2. \E n \in from..Len(settings) : ~Passes(settings[n].level, lvl)  BY Zenon DEF Refused
  <1>3. NoOverride(Current.patterns, site, lvl)  BY Zenon
  <1> HIDE DEF from, site, lvl
  <1>4. Len(settings) - from <= 1 => \E n \in from..Len(settings) : ~Allows(settings[n], site, lvl)
    BY <1>1, <1>2, <1>3, DropExplained, Zenon
  <1>5. Justified([site |-> site, lvl |-> lvl, passed |-> FALSE, from |-> from, to |-> Len(settings)])
    BY <1>1, <1>4, Verdicts, Zenon
  <1> QED  BY <1>5, Zenon DEF from, site, lvl

\* A record passes if the settings in force allow it.
LEMMA PassJustified ==
    ASSUME SettingsOK, NEW P, NEW p, Ready(P, p), Allows(Current, recs[Top(p).r].site, recs[Top(p).r].lvl)
    PROVE  Justified([site |-> recs[Top(p).r].site, lvl |-> recs[Top(p).r].lvl, passed |-> TRUE,
                      from |-> Top(p).from, to |-> Len(settings)])
  <1>1. Top(p).from \in 1..Len(settings)  BY Zenon DEF Ready, FrameJ
  <1> QED  BY <1>1, Verdicts, Zenon

\* GlogHandler.Log decides by what the patterns in force say of the site.
LEMMA JSite ==
    ASSUME SettingsOK, ShapeOK, NEW P, Plain(P), JInv(P), NEW p \in Process, Ready(P, p), Framed(p), Top(p).h.k = "glog",
           Refused(Top(p)), NEW level, level = PatternLevel(Current.patterns, recs[Top(p).r].site),
           g' = SiteLevel(p, level), recs' = recs, settings' = settings
    PROVE  JStep(P, p)
  <1> DEFINE site == recs[Top(p).r].site
             lvl == recs[Top(p).r].lvl
             j(b) == [site |-> site, lvl |-> lvl, passed |-> b, from |-> Top(p).from, to |-> Len(settings)]
  <1>1. \A h : Calls(P, p, h)  BY MayCall, Zenon
  <1>2. lvl \in Nat /\ SettingsJ  BY Zenon DEF JInv, RecsJ, Framed
  <1>3. CASE Passes(level, lvl)
    <2>1. g' = [Become(p, Top(p).h.h) EXCEPT ![p].judged = j(TRUE)]  BY <1>3, Zenon DEF SiteLevel, Judged
    <2>2. Justified(j(TRUE))
      <3>1. Passes(PatternLevel(Current.patterns, site), lvl)  BY <1>3, Zenon
      <3>2. Allows(Current, site, lvl)
        <4> HIDE DEF site, lvl
        <4> QED  BY <1>2, <3>1, PassExplained, Zenon
      <3> QED  BY <3>2, PassJustified, Zenon
    <2> HIDE DEF j
    <2> QED  BY <1>1, <2>1, <2>2, JDecides, Zenon
  <1>4. CASE ~Passes(level, lvl)
    <2>1. g' = [Return(p, "") EXCEPT ![p].judged = j(FALSE)]  BY <1>4, Zenon DEF SiteLevel, Judged
    <2>2. NoOverride(Current.patterns, site, lvl)  BY <1>4, Zenon DEF NoOverride, Passes
    <2>3. Justified(j(FALSE))  BY <2>2, DropJustified, Zenon
    <2> HIDE DEF j
    <2> QED  BY <2>1, <2>3, JDecides, Zenon
  <1> QED  BY <1>3, <1>4, Zenon

\* GlogHandler.Log reads level, override, cache and patterns.
LEMMA JGlog ==
    ASSUME SettingsOK, CacheFresh, ShapeOK, NEW P, Plain(P), JInv(P), NEW p \in Process,
           GlogLevel(p) \/ GlogOverride(p) \/ GlogCache(p) \/ GlogRules(p)
    PROVE  JStep(P, p)
  <1> DEFINE site == recs[Top(p).r].site
             lvl == recs[Top(p).r].lvl
             j(b) == [site |-> site, lvl |-> lvl, passed |-> b, from |-> Top(p).from, to |-> Len(settings)]
  <1>1. settings' = settings /\ recs' = recs
    BY Zenon DEF GlogLevel, GlogOverride, GlogCache, GlogRules, GlogStep
  <1>2. PICK pc : At(p, "glog", pc) /\ (~GlogLevel(p) => pc \in Deciding)
    <2>1. "override" \in Deciding /\ "cache" \in Deciding /\ "rules" \in Deciding  BY Zenon DEF Deciding
    <2>2. CASE GlogLevel(p)  BY <2>2, Zenon DEF GlogLevel
    <2>3. CASE GlogOverride(p)  BY <2>1, <2>3, Zenon DEF GlogOverride
    <2>4. CASE GlogCache(p)  BY <2>1, <2>4, Zenon DEF GlogCache
    <2>5. CASE GlogRules(p)  BY <2>1, <2>5, Zenon DEF GlogRules
    <2> QED  BY <2>2, <2>3, <2>4, <2>5, Zenon
  <1>3. Ready(P, p) /\ Framed(p) /\ Top(p).h.k = "glog" /\ Top(p).pc = pc /\ Top(p).from \in 1..Len(settings)
    BY <1>2, AtReady, Zenon
  <1>4. Top(p).h \notin P /\ \A h : Calls(P, p, h)  BY <1>3, MayCall, Zenon
  <1>5. CASE GlogLevel(p)
    <2>1. CASE Passes(Current.level, lvl)
      <3>1. g' = [Become(p, Top(p).h.h) EXCEPT ![p].judged = j(TRUE)]  BY <1>5, <2>1, Zenon DEF GlogLevel, Judged
      <3>2. Allows(Current, site, lvl)  BY <2>1, Zenon DEF Allows, Passes
      <3>3. Justified(j(TRUE))  BY <1>3, <3>2, PassJustified, Zenon
      <3> HIDE DEF j
      <3> QED  BY <1>1, <1>3, <1>4, <3>1, <3>3, JDecides, Zenon
    <2>2. CASE ~Passes(Current.level, lvl)
      <3>1. g' = Set(p, Glog(p, "override"))  BY <1>5, <2>2, Zenon DEF GlogLevel
      <3>2. Len(settings) \in Top(p).from..Len(settings)  BY <1>3, SettingsLen
      <3>3. Refused(Top(p))  BY <2>2, <3>2, Zenon DEF Refused, Current
      <3> QED  BY <1>1, <1>3, <1>4, <3>1, <3>3, JGoes, Zenon
    <2> QED  BY <2>1, <2>2, Zenon
  <1>6. ASSUME ~GlogLevel(p)  PROVE Refused(Top(p))  BY <1>2, <1>3, <1>6, Zenon DEF Ready, FrameJ
  <1>7. CASE ~GlogLevel(p) /\ GlogOverride(p)
    <2>1. CASE Current.patterns = <<>>
      <3>1. g' = [Return(p, "") EXCEPT ![p].judged = j(FALSE)]  BY <1>7, <2>1, Zenon DEF GlogOverride, Judged
      <3>2. NoOverride(Current.patterns, site, lvl)  BY <2>1, Zenon DEF NoOverride
      <3>3. Justified(j(FALSE))  BY <1>3, <1>6, <1>7, <3>2, DropJustified, Zenon
      <3> HIDE DEF j
      <3> QED  BY <1>1, <1>3, <3>1, <3>3, JDecides, Zenon
    <2>2. CASE Current.patterns # <<>>
      <3>1. g' = Set(p, Glog(p, "cache"))  BY <1>7, <2>2, Zenon DEF GlogOverride
      <3> QED  BY <1>1, <1>3, <1>4, <1>6, <1>7, <3>1, JGoes, Zenon
    <2> QED  BY <2>1, <2>2, Zenon
  <1>8. CASE ~GlogLevel(p) /\ GlogCache(p)
    <2>1. CASE site \in DOMAIN siteCache
      <3>1. g' = SiteLevel(p, siteCache[site])  BY <1>8, <2>1, Zenon DEF GlogCache
      <3>2. siteCache[site] = PatternLevel(Current.patterns, site)  BY <2>1, Zenon DEF CacheFresh
      <3> QED  BY <1>1, <1>3, <1>6, <1>8, <3>1, <3>2, JSite, Zenon
    <2>2. CASE site \notin DOMAIN siteCache
      <3>1. g' = Set(p, Glog(p, "rules"))  BY <1>8, <2>2, Zenon DEF GlogCache
      <3> QED  BY <1>1, <1>3, <1>4, <1>6, <1>8, <3>1, JGoes, Zenon
    <2> QED  BY <2>1, <2>2, Zenon
  <1>9. CASE ~GlogLevel(p) /\ GlogRules(p)
    <2>1. g' = SiteLevel(p, PatternLevel(Current.patterns, site))  BY <1>9, Zenon DEF GlogRules, Patterns
    <2> QED  BY <1>1, <1>3, <1>6, <1>9, <2>1, JSite, Zenon
  <1> QED  BY <1>5, <1>7, <1>8, <1>9, Zenon

\* The settings change, in the level or in the patterns.
LEMMA JSettings ==
    ASSUME SettingsOK, ShapeOK, NEW P, JInv(P), NEW new, settings' = Append(settings, new), new.level \in Nat,
           new.level = Current.level \/ new.patterns = Current.patterns, recs' = recs, g' = g
    PROVE  JInv(P)'
  <1> DEFINE k == Len(settings)
  <1>1. IsSeq(settings) /\ k \in Nat /\ k >= 1  BY SettingsLen, Zenon DEF SettingsOK
  <1>2. Appends(settings', settings, new)  BY <1>1, AppendSeq, Zenon
  <1>3. Len(settings') = k + 1 /\ settings'[k + 1] = new /\ \A i \in 1..k : settings'[i] = settings[i]  BY <1>2, Zenon DEF Appends
  <1>4. Current = settings[k]  BY Zenon DEF Current
  <1>5. StacksJ(P) /\ Apart(P) /\ SettingsJ /\ RecsJ /\ \A q \in Process : Justified(g[q].judged)  BY Zenon DEF JInv
  <1> HIDE DEF k
  <1>6. 1..k \subseteq 1..(k + 1) /\ \A i \in 1..k : i..k \subseteq 1..k /\ i..k \subseteq i..(k + 1)  BY <1>1, SMTT(30)
  <1>7. \A f : FrameJ(P, f) => FrameJ(P, f)'
    <2> SUFFICES ASSUME NEW f, FrameJ(P, f)  PROVE FrameJ(P, f)'  BY Zenon
    <2>1. f.from \in 1..k  BY Zenon DEF FrameJ, k
    <2>2. Refused(f) => Refused(f)'
      <3> SUFFICES ASSUME Refused(f)  PROVE Refused(f)'  BY Zenon
      <3>1. PICK n \in f.from..k : ~Passes(settings[n].level, recs[f.r].lvl)  BY Zenon DEF Refused, k
      <3>2. n \in f.from..(k + 1) /\ settings'[n] = settings[n]  BY <1>3, <1>6, <2>1, Zenon
      <3> QED  BY <1>3, <3>1, <3>2, Zenon DEF Refused
    <2> QED  BY <1>3, <1>6, <2>1, <2>2, Zenon DEF FrameJ
  <1>8. StacksJ(P)'  BY <1>5, <1>7, Zenon DEF StacksJ
  <1>9. Apart(P)' /\ RecsJ'
    <2>1. Apart(P)'  BY <1>5 DEF Apart
    <2>2. RecsJ'  BY <1>5, Zenon DEF RecsJ
    <2> QED  BY <2>1, <2>2, Zenon
  <1>10. SettingsJ'
    <2>1. \A n \in 1..(k + 1) : n = k + 1 \/ n \in 1..k  BY <1>1
    <2>2. \A n \in 1..(k + 1) : settings'[n].level \in Nat  BY <1>3, <1>5, <2>1, Zenon DEF SettingsJ, k
    <2>3. ASSUME NEW n \in 1..(k + 1), n + 1 \in 1..(k + 1)
          PROVE  settings'[n + 1].level = settings'[n].level \/ settings'[n + 1].patterns = settings'[n].patterns
      <3>1. n \in 1..k /\ k \in 1..k /\ (n = k \/ n + 1 \in 1..k)  BY <1>1, <2>3, SMTT(30)
      <3>2. CASE n = k  BY <1>3, <1>4, <3>1, <3>2, Zenon
      <3>3. CASE n + 1 \in 1..k  BY <1>3, <1>5, <3>1, <3>3, Zenon DEF SettingsJ, k
      <3> QED  BY <3>1, <3>2, <3>3, Zenon
    <2> QED  BY <1>3, <2>2, <2>3, Zenon DEF SettingsJ
  <1>11. ASSUME NEW j, Justified(j)  PROVE Justified(j)'
    <2>1. j.from \in 1..k /\ j.to \in 1..k  BY <1>11, Zenon DEF Justified, k
    <2>2. \A n \in j.from..j.to : settings'[n] = settings[n]
      <3>1. \A n \in j.from..j.to : n \in 1..k
        <4> DEFINE a == j.from
                   b == j.to
        <4> HIDE DEF a, b
        <4>1. a \in 1..k /\ b \in 1..k  BY <2>1, Zenon DEF a, b
        <4>2. \A n \in a..b : n \in 1..k  BY <1>1, <4>1, SMTT(30)
        <4> QED  BY <4>2, Zenon DEF a, b
      <3> QED  BY <1>3, <3>1, Zenon
    <2> QED  BY <1>3, <1>6, <1>11, <2>1, <2>2, Zenon DEF Justified
  <1>12. \A q \in Process : Justified(g[q].judged)'
    <2> SUFFICES ASSUME NEW q \in Process  PROVE Justified(g[q].judged)'  BY Zenon
    <2>1. Justified(g[q].judged)  BY <1>5, Zenon
    <2> DEFINE j == g[q].judged
    <2>2. j' = j  BY Zenon
    <2> QED  BY <1>11, <2>1, <2>2, Zenon DEF Justified
  <1> QED  BY <1>8, <1>9, <1>10, <1>12, Zenon DEF JInv

\* Settings, records and goroutines stay.
LEMMA JSame ==
    ASSUME NEW P, JInv(P), settings' = settings, recs' = recs, g' = g
    PROVE  JInv(P)'
  <1>1. StacksJ(P)'  BY ZenonT(60) DEF JInv, StacksJ, FrameJ, Refused
  <1>2. Apart(P)' /\ SettingsJ' /\ RecsJ'
    <2>1. Apart(P)'  BY DEF JInv, Apart
    <2>2. SettingsJ' /\ RecsJ'  BY Zenon DEF JInv, SettingsJ, RecsJ
    <2> QED  BY <2>1, <2>2, Zenon
  <1>3. (\A p \in Process : Justified(g[p].judged))'  BY Zenon DEF JInv, Justified
  <1> QED  BY <1>1, <1>2, <1>3, Zenon DEF JInv

\* Verbosity, Vmodule, BacktraceAt, SetHandler.
LEMMA JChange ==
    ASSUME SettingsOK, ShapeOK, NEW P, LevelsNat, JInv(P), Change
    PROVE  JInv(P)'
  <1>1. Setting(Current) /\ recs' = recs /\ g' = g  BY CurrentSetting, Zenon DEF Change
  <1>2. Current.level \in Nat  BY SettingsLen, Zenon DEF JInv, SettingsJ, Current
  <1>3. ASSUME NEW level \in Levels, Verbosity(level)  PROVE JInv(P)'
    <2> DEFINE new == [Current EXCEPT !.level = level]
    <2>1. new.level = level /\ new.patterns = Current.patterns  BY <1>1, Zenon DEF Setting
    <2>2. level \in Nat  BY Zenon DEF LevelsNat
    <2>3. settings' = Append(settings, new)  BY <1>3, Zenon DEF Verbosity
    <2> HIDE DEF new
    <2> QED  BY <1>1, <2>1, <2>2, <2>3, JSettings, Zenon
  <1>4. ASSUME NEW ruleset, Vmodule(ruleset)  PROVE JInv(P)'
    <2> DEFINE rules == SelectSeq(ruleset, LAMBDA rule : rule.level > 0)
               new == [Current EXCEPT !.patterns = rules]
    <2>1. settings' = Append(settings, new)  BY <1>4, Zenon DEF Vmodule
    <2> HIDE DEF rules
    <2>2. new.level = Current.level  BY <1>1, Zenon DEF Setting
    <2> HIDE DEF new
    <2> QED  BY <1>1, <1>2, <2>1, <2>2, JSettings, Zenon
  <1>5. ASSUME NEW site, BacktraceAt(site)  PROVE JInv(P)'
    <2> DEFINE new == [Current EXCEPT !.location = site]
    <2>1. new.level = Current.level  BY <1>1, Zenon DEF Setting
    <2>2. settings' = Append(settings, new)  BY <1>5, Zenon DEF BacktraceAt
    <2> HIDE DEF new
    <2> QED  BY <1>1, <1>2, <2>1, <2>2, JSettings, Zenon
  <1>6. ASSUME NEW l, NEW h, SetHandler(l, h)  PROVE JInv(P)'
    <2>1. settings' = settings  BY <1>6, Zenon DEF SetHandler
    <2> QED  BY <1>1, <2>1, JSame, Zenon
  <1> QED  BY <1>3, <1>4, <1>5, <1>6, Zenon DEF Change

\* Any step.
LEMMA StepJInv ==
    ASSUME NEW P, Plain(P), Flushed \in P, LevelsNat, IInv, JInv(P), [Next]_vars
    PROVE  JInv(P)'
  <1>1. SettingsOK /\ CacheFresh /\ ShapeOK  BY Zenon DEF IInv
  <1>2. ASSUME NEW p \in Process, Handle(p)  PROVE JInv(P)'
    <2>1. JStep(P, p)
      BY <1>1, <1>2, JLogged, JSimple, JGlogBefore, JGlog, JMany, JStream, JLazy, Zenon DEF Handle, GlogLog
    <2> QED  BY <1>1, <2>1, StepJ, Zenon
  <1>3. CASE Flush
    <2>1. Flusher \in Process  BY Zenon DEF Process
    <2> QED  BY <1>1, <1>3, <2>1, JFlush, StepJ, Zenon
  <1>4. ASSUME NEW p \in Goroutine, LogCall(p)  PROVE JInv(P)'
    <2>1. p \in Process  BY Zenon DEF Process
    <2> QED  BY <1>1, <1>4, <2>1, JLogCall, StepJ, Zenon
  <1>5. CASE Change  BY <1>1, <1>5, JChange, Zenon
  <1>6. CASE UNCHANGED vars
    <2>1. settings' = settings /\ recs' = recs /\ g' = g  BY <1>6, Zenon DEF vars
    <2> QED  BY <2>1, JSame, Zenon
  <1> QED  BY <1>2, <1>3, <1>4, <1>5, <1>6, Zenon DEF Next, Run

\* Nothing has been decided.
LEMMA InitJInv ==
    ASSUME NEW P, LevelsNat, Init
    PROVE  JInv(P)
  <1>1. \A p \in Process : g[p].stack = <<>> /\ g[p].judged = Unjudged
    <2> SUFFICES ASSUME NEW p \in Process  PROVE g[p].stack = <<>> /\ g[p].judged = Unjudged  BY Zenon
    <2>1. g[p] = [stack |-> <<>>, ret |-> "", left |-> IF p = Flusher THEN 0 ELSE MaxLog, judged |-> Unjudged]
      BY Zenon DEF Init
    <2>2. PICK s, r, n, j : g[p] = [stack |-> s, ret |-> r, left |-> n, judged |-> j] /\ s = <<>> /\ j = Unjudged  BY <2>1, Zenon
    <2>3. g[p].stack = s /\ g[p].judged = j  BY <2>2, SMTT(30)
    <2> QED  BY <2>2, <2>3, Zenon
  <1>2. DOMAIN <<>> = {} /\ Len(<<>>) = 0 /\ 1..0 = {}  OBVIOUS
  <1>3. StacksJ(P) /\ Apart(P)  BY <1>1, <1>2, Zenon DEF StacksJ, Apart
  <1>4. RecsJ  BY <1>2, Zenon DEF RecsJ, Init
  <1>5. PICK c \in Configured : settings = <<[level |-> c.level, patterns |-> c.patterns, location |-> NoSite]>>
    BY Zenon DEF Init
  <1> DEFINE s == [level |-> c.level, patterns |-> c.patterns, location |-> NoSite]
  <1>6. s.level \in Nat  BY Zenon DEF LevelsNat
  <1>7. settings = <<s>>  BY <1>5, Zenon
  <1> HIDE DEF s
  <1>8. Len(settings) = 1 /\ settings[1] = s /\ 1 \in 1..1 /\ (\A n \in 1..1 : n = 1) /\ 1 + 1 \notin 1..1  BY <1>7
  <1>9. SettingsJ  BY <1>6, <1>8, Zenon DEF SettingsJ
  <1>10. Justified(Unjudged)
    <2>1. s.level >= 0
      <3> DEFINE l == s.level
      <3> HIDE DEF l
      <3>1. l >= 0  BY <1>6 DEF l
      <3> QED  BY <3>1, Zenon DEF l
    <2>2. Allows(settings[1], NoSite, LvlCrit)  BY <1>8, <2>1, Zenon DEF Allows, LvlCrit
    <2>3. /\ Unjudged.from = 1 /\ Unjudged.to = 1 /\ Unjudged.site = NoSite /\ Unjudged.lvl = LvlCrit
          /\ Unjudged.passed = TRUE
      BY Zenon DEF Unjudged
    <2> QED  BY <1>8, <2>2, <2>3, Zenon DEF Justified
  <1> QED  BY <1>1, <1>3, <1>4, <1>9, <1>10, Zenon DEF JInv

\* Whatever the handlers of the loggers, whoever changes the settings and however often:
\* although GlogHandler.Log reads level, override, cache and patterns one after the other,
\* a record passes only if settings in force meanwhile allow it, and is dropped, unless
\* they changed twice, only if some do not.
THEOREM DecisionsExplained == FlushedPlain /\ LevelsNat => (Spec => []DecisionExplained)
  <1> SUFFICES ASSUME FlushedPlain, LevelsNat  PROVE Spec => []DecisionExplained  BY Zenon
  <1>1. PICK P : Flushed \in P /\ Plain(P)  BY Zenon DEF FlushedPlain
  <1>2. Init => JInv(P)  BY InitJInv, Zenon
  <1>3. IInv /\ JInv(P) /\ [Next]_vars => JInv(P)'  BY <1>1, StepJInv, Zenon
  <1>4. JInv(P) => DecisionExplained  BY Zenon DEF JInv, Justified, DecisionExplained
  <1>5. Spec => Init /\ [][Next]_vars  BY PTL DEF Spec
  <1> QED  BY <1>2, <1>3, <1>4, <1>5, LogInv, PTL
=============================================================================
