---------------------------- MODULE StreamProofs ----------------------------
(***************************************************************************)
(* For every input, and for every sequence of calls, no operation of a     *)
(* Stream reads beyond a list or charges a list with bytes that the input  *)
(* limit refuses; and outside of lists, while no operation has failed, it  *)
(* stands where a value of the input begins.                               *)
(***************************************************************************)
EXTENDS StreamUse, WellFoundedInduction, TLAPS

Errors == {"", "EOF", "EOL", "UnexpectedEOF", "ElemTooLarge", "ValueTooLarge", "CanonSize", "CanonInt",
           "ExpectedString", "ExpectedList", "UintOverflow", "InvalidBool", "NotInList", "NotAtEOL"}

Octet == 0..255
Octets == Seq(Octet)
Lists == Seq([pos : Nat, size : Nat])

Stream == [in : Octets, remaining : Nat, limited : BOOLEAN, kind : {-1, 0, 1, 2}, size : Nat,
           byteval : Octet, kinderr : Errors, stack : Lists]

\* The lists that are open lie within each other, and, under a limit, so do they
\* within what remained of it when they were opened (b).
Nesting(st, b) ==
    \A i \in 1..Len(st.stack) :
        /\ st.stack[i].pos <= st.stack[i].size
        /\ i < Len(st.stack) => st.stack[i + 1].size <= st.stack[i].size - st.stack[i].pos
        /\ st.limited =>
              /\ st.stack[i].size <= b[i]
              /\ i < Len(st.stack) => b[i + 1] = b[i] - st.stack[i].pos
              /\ i = Len(st.stack) => st.remaining = b[i] - st.stack[i].pos

\* What Kind has found ahead fits, or else has its error.
Ahead(st) ==
    st.kind >= 0 => /\ st.kinderr = "" => Fits(st)
                    /\ st.limited /\ InList(st) => st.kinderr # "ValueTooLarge"

StreamOK(st, b) ==
    /\ st \in Stream
    /\ b \in Seq(Nat) /\ Len(b) = Len(st.stack)
    /\ Nesting(st, b)
    /\ Ahead(st)

\* What an operation on st gives that leaves the lists open.
Kept(st, b, r) ==
    /\ StreamOK(r.s, b)
    /\ r.s.limited = st.limited
    /\ r.err \in Errors
    /\ st.limited /\ InList(st) => r.err # "ValueTooLarge"

----------------------------------------------------------------------------
\* What a sequence is.
LEMMA SeqFacts ==
    ASSUME NEW S, NEW q \in Seq(S)
    PROVE  Len(q) \in Nat /\ DOMAIN q = 1..Len(q) /\ \A i \in 1..Len(q) : q[i] \in S
BY SMTT(30)

\* A part of a sequence.
LEMMA PartOK ==
    ASSUME NEW S, NEW q \in Seq(S), NEW m \in Nat, NEW n \in Nat, 1 <= m, n <= Len(q), m <= n + 1
    PROVE  SubSeq(q, m, n) \in Seq(S)
OBVIOUS

\* The first of a sequence.
LEMMA PrefixOK ==
    ASSUME NEW S, NEW q \in Seq(S), NEW n \in Nat, n <= Len(q)
    PROVE  SubSeq(q, 1, n) \in Seq(S) /\ Len(SubSeq(q, 1, n)) = n /\ \A i \in 1..n : SubSeq(q, 1, n)[i] = q[i]
OBVIOUS

\* What a stream has.
LEMMA StreamParts ==
    ASSUME NEW st \in Stream
    PROVE  /\ st.stack \in Seq([pos : Nat, size : Nat]) /\ st.in \in Seq(Octet)
           /\ st.remaining \in Nat /\ st.size \in Nat
<1>1. st.stack \in Lists /\ st.in \in Octets /\ st.remaining \in Nat /\ st.size \in Nat
  BY DEF Stream
<1> QED
  BY <1>1, Zenon DEF Lists, Octets

\* Charge only moves the position in the innermost list.
LEMMA ChargeOK ==
    ASSUME NEW st \in Stream, NEW n \in Nat
    PROVE  LET t == Charge(st, n)
           IN  /\ t \in Stream
               /\ t.in = st.in /\ t.remaining = st.remaining /\ t.limited = st.limited
               /\ t.kind = st.kind /\ t.kinderr = st.kinderr
               /\ Len(t.stack) = Len(st.stack)
               /\ \A i \in 1..Len(st.stack) :
                     /\ t.stack[i].size = st.stack[i].size
                     /\ t.stack[i].pos = IF i = Len(st.stack) THEN st.stack[i].pos + n ELSE st.stack[i].pos
<1>1. CASE ~InList(st)
  <2>1. Charge(st, n) = st
    BY <1>1 DEF Charge
  <2>2. Len(st.stack) = 0
    BY <1>1 DEF InList, Stream
  <2> QED
    BY <2>1, <2>2 DEF Stream
<1>2. CASE InList(st)
  <2> DEFINE k == Len(st.stack)
             e == [st.stack[k] EXCEPT !.pos = @ + n]
             stk == [st.stack EXCEPT ![k] = e]
  <2>1. /\ st.stack \in Seq([pos : Nat, size : Nat]) /\ k \in Nat /\ k > 0
        /\ DOMAIN st.stack = 1..k
        /\ \A i \in 1..k : st.stack[i] \in [pos : Nat, size : Nat]
    <3>1. st.stack \in Seq([pos : Nat, size : Nat])
      BY StreamParts
    <3> QED BY <1>2, <3>1, SeqFacts, Zenon DEF InList
  <2>2. e \in [pos : Nat, size : Nat] /\ e.pos = st.stack[k].pos + n /\ e.size = st.stack[k].size
    <3>1. st.stack[k] \in [pos : Nat, size : Nat]
      BY <2>1
    <3> QED BY <3>1, SMTT(30)
  <2>3. stk \in Seq([pos : Nat, size : Nat]) /\ Len(stk) = k
        /\ \A i \in 1..k : stk[i] = IF i = k THEN e ELSE st.stack[i]
    <3> HIDE DEF e
    <3> QED BY <2>1, <2>2, SMTT(30)
  <2>4. Charge(st, n) = [st EXCEPT !.stack = stk]
    BY <1>2 DEF Charge
  <2> HIDE DEF stk, e
  <2> DEFINE t == [st EXCEPT !.stack = stk]
  <2>5. /\ t \in Stream /\ t.stack = stk /\ t.in = st.in /\ t.remaining = st.remaining
        /\ t.limited = st.limited /\ t.kind = st.kind /\ t.kinderr = st.kinderr
    <3>1. stk \in Lists
      BY <2>3, Zenon DEF Lists
    <3> QED BY <3>1 DEF Stream
  <2> HIDE DEF t
  <2>6. \A i \in 1..k : /\ t.stack[i].size = st.stack[i].size
                        /\ t.stack[i].pos = IF i = k THEN st.stack[i].pos + n ELSE st.stack[i].pos
    BY <2>2, <2>3, <2>5, SMTT(30)
  <2>7. Charge(st, n) = t
    BY <2>4 DEF t
  <2> QED
    BY <2>3, <2>5, <2>6, <2>7, SMTT(30)
<1> QED
  BY <1>1, <1>2

\* A stream whose Kind is to look again.
LEMMA RearmedOK ==
    ASSUME NEW st \in Stream
    PROVE  LET t == [st EXCEPT !.kind = -1]
           IN  /\ t \in Stream /\ t.kind = -1 /\ t.in = st.in /\ t.remaining = st.remaining
               /\ t.limited = st.limited /\ t.stack = st.stack
BY DEF Stream

\* Nothing is ahead of a stream before Kind has looked.
LEMMA NotAhead == ASSUME NEW st, st.kind = -1 PROVE Ahead(st)
<1>1. ~(st.kind >= 0)
  OBVIOUS
<1> QED
  BY <1>1, Zenon DEF Ahead

\* What a stream that is well nested gives for its innermost list.
LEMMA Innermost ==
    ASSUME NEW st, NEW b, st \in Stream, b \in Seq(Nat), Len(b) = Len(st.stack), Nesting(st, b), InList(st)
    PROVE  /\ Left(st) \in Nat
           /\ Left(st) = st.stack[Len(st.stack)].size - st.stack[Len(st.stack)].pos
           /\ st.limited => Left(st) <= st.remaining
<1> DEFINE k == Len(st.stack)
<1>1. st.stack \in Seq([pos : Nat, size : Nat]) /\ st.remaining \in Nat
  BY StreamParts
<1>2. k \in Nat /\ k > 0 /\ st.stack[k] \in [pos : Nat, size : Nat] /\ b[k] \in Nat
  <2>1. k \in Nat /\ k > 0
    BY <1>1, SeqFacts DEF InList
  <2>2. k \in 1..Len(st.stack) /\ k \in 1..Len(b)
    BY <2>1
  <2> HIDE DEF k
  <2> QED BY <1>1, <2>1, <2>2, SeqFacts, Zenon
<1>3. /\ st.stack[k].pos <= st.stack[k].size
      /\ st.limited => st.stack[k].size <= b[k] /\ st.remaining = b[k] - st.stack[k].pos
  BY <1>2 DEF Nesting
<1> QED
  BY <1>1, <1>2, <1>3, SMTT(30) DEF Left, Tos

\* willRead charges no list beyond its end, and within a list it never meets the limit.
LEMMA WillReadOK ==
    ASSUME NEW st, NEW b, StreamOK(st, b), NEW n \in Nat
    PROVE  LET r == willRead(st, n) IN Kept(st, b, r) /\ r.s.kind = -1 /\ r.s.in = st.in
<1> DEFINE t == [st EXCEPT !.kind = -1]
           c == Charge(t, n)
           d == [c EXCEPT !.remaining = IF st.limited THEN @ - n ELSE @]
           r == willRead(st, n)
           k == Len(st.stack)
<1>1. /\ t \in Stream /\ t.kind = -1 /\ t.in = st.in /\ t.remaining = st.remaining
      /\ t.limited = st.limited /\ t.stack = st.stack
  BY RearmedOK DEF StreamOK
<1>2. /\ c \in Stream /\ c.kind = -1 /\ c.in = st.in /\ c.remaining = st.remaining
      /\ c.limited = st.limited /\ Len(c.stack) = k
      /\ \A i \in 1..k : /\ c.stack[i].size = st.stack[i].size
                         /\ c.stack[i].pos = IF i = k THEN st.stack[i].pos + n ELSE st.stack[i].pos
  <2> HIDE DEF t
  <2> QED BY <1>1, ChargeOK
<1>3. /\ b \in Seq(Nat) /\ Len(b) = k /\ k \in Nat /\ Nesting(st, b) /\ st \in Stream
      /\ \A i \in 1..k : st.stack[i] \in [pos : Nat, size : Nat] /\ b[i] \in Nat
  <2>1. st.stack \in Seq([pos : Nat, size : Nat])
    BY StreamParts, Zenon DEF StreamOK
  <2> QED BY <2>1, SeqFacts, Zenon DEF StreamOK
<1>4. r = IF InList(st) /\ n > Left(st) THEN Fail(t, "ElemTooLarge")
          ELSE IF st.limited /\ n > st.remaining THEN Fail(c, "ValueTooLarge")
          ELSE Ok(d, <<>>)
  BY DEF willRead
<1>5. InList(st) => Left(st) \in Nat /\ Left(st) = st.stack[k].size - st.stack[k].pos
                    /\ (st.limited => Left(st) <= st.remaining)
  BY <1>3, Innermost
<1> HIDE DEF t, c, r
<1>6. CASE InList(st) /\ n > Left(st)
  <2>1. r.s = t /\ r.err = "ElemTooLarge"
    BY <1>4, <1>6 DEF Fail
  <2>2. Nesting(t, b)
    BY <1>1, <1>3, Zenon DEF Nesting
  <2>3. Ahead(t)
    BY <1>1, NotAhead
  <2> QED
    <3>1. r.err \in Errors /\ r.err # "ValueTooLarge"
      BY <2>1 DEF Errors
    <3> QED BY <1>1, <1>3, <2>1, <2>2, <2>3, <3>1, Zenon DEF Kept, StreamOK, r
<1>7. CASE ~(InList(st) /\ n > Left(st)) /\ st.limited /\ n > st.remaining
  <2>1. r.s = c /\ r.err = "ValueTooLarge"
    BY <1>4, <1>7 DEF Fail
  <2>2. ~InList(st) /\ k = 0
    BY <1>3, <1>5, <1>7 DEF InList, Stream
  <2>3. Nesting(c, b)
    BY <1>2, <2>2 DEF Nesting
  <2>4. Ahead(c)
    BY <1>2, NotAhead
  <2> QED
    <3>1. r.err \in Errors
      BY <2>1 DEF Errors
    <3> QED BY <1>2, <1>3, <2>1, <2>2, <2>3, <2>4, <3>1, Zenon DEF Kept, StreamOK, r
<1>8. CASE ~(InList(st) /\ n > Left(st)) /\ ~(st.limited /\ n > st.remaining)
  <2>1. r.s = d /\ r.err = ""
    BY <1>4, <1>8, Zenon DEF Ok
  <2>2. st.remaining \in Nat /\ st.limited \in BOOLEAN
    BY <1>3 DEF Stream
  <2>3. /\ d \in Stream /\ d.kind = -1 /\ d.in = st.in /\ d.limited = st.limited /\ d.stack = c.stack
        /\ d.remaining = IF st.limited THEN st.remaining - n ELSE st.remaining
    <3>1. (IF st.limited THEN c.remaining - n ELSE c.remaining) \in Nat
      BY <1>2, <1>8, <2>2
    <3> QED BY <1>2, <3>1 DEF Stream
  <2> HIDE DEF d
  <2>4. Nesting(d, b)
    <3> SUFFICES ASSUME NEW i \in 1..k
                 PROVE  /\ d.stack[i].pos <= d.stack[i].size
                        /\ i < k => d.stack[i + 1].size <= d.stack[i].size - d.stack[i].pos
                        /\ d.limited => /\ d.stack[i].size <= b[i]
                                        /\ i < k => b[i + 1] = b[i] - d.stack[i].pos
                                        /\ i = k => d.remaining = b[i] - d.stack[i].pos
      BY <1>2, <2>3 DEF Nesting
    <3>1. /\ st.stack[i].pos <= st.stack[i].size
          /\ i < k => st.stack[i + 1].size <= st.stack[i].size - st.stack[i].pos
          /\ st.limited => /\ st.stack[i].size <= b[i]
                           /\ i < k => b[i + 1] = b[i] - st.stack[i].pos
                           /\ i = k => st.remaining = b[i] - st.stack[i].pos
      BY <1>3 DEF Nesting
    <3>2. CASE i = k
      <4>1. n <= st.stack[k].size - st.stack[k].pos
        BY <1>3, <1>5, <1>8, <3>2 DEF InList
      <4>2. d.stack[i].size = st.stack[i].size /\ d.stack[i].pos = st.stack[i].pos + n
        BY <1>2, <2>3, <3>2
      <4>3. st.stack[i].pos \in Nat /\ st.stack[i].size \in Nat /\ b[i] \in Nat
        BY <1>3
      <4>4. ~(i < k) /\ k \in Nat
        BY <1>3, <3>2
      <4>5. n <= st.stack[i].size - st.stack[i].pos
        BY <3>2, <4>1
      <4>6. d.stack[i].pos <= d.stack[i].size
        BY <4>2, <4>3, <4>5, SMTT(30)
      <4>7. ASSUME d.limited PROVE d.stack[i].size <= b[i] /\ d.remaining = b[i] - d.stack[i].pos
        <5>1. st.limited /\ d.remaining = st.remaining - n
          BY <2>3, <4>7
        <5>2. st.stack[i].size <= b[i] /\ st.remaining = b[i] - st.stack[i].pos
          BY <3>1, <3>2, <5>1
        <5> QED BY <4>2, <4>3, <5>1, <5>2
      <4> QED BY <4>4, <4>6, <4>7
    <3>3. CASE i # k
      <4>1. i + 1 \in 1..k
        BY <1>3, <3>3, SMTT(30)
      <4> QED BY <1>2, <1>3, <2>3, <3>1, <3>3, <4>1, Zenon
    <3> QED BY <3>2, <3>3
  <2>5. Ahead(d)
    BY <2>3, NotAhead
  <2> QED
    <3>1. r.err \in Errors /\ r.err # "ValueTooLarge"
      BY <2>1, Zenon DEF Errors
    <3>2. Len(d.stack) = k
      BY <1>2, <2>3
    <3> QED BY <1>3, <2>1, <2>3, <2>4, <2>5, <3>1, <3>2, Zenon DEF Kept, StreamOK, r
<1> QED
  BY <1>6, <1>7, <1>8 DEF r

\* Whether a list is open shows in b.
LEMMA OpenShows ==
    ASSUME NEW st, NEW b, NEW t, Len(b) = Len(st.stack), Len(b) = Len(t.stack)
    PROVE  InList(t) = InList(st)
BY DEF InList

\* One operation after another.
LEMMA KeptKept ==
    ASSUME NEW st, NEW b, NEW q, NEW r, StreamOK(st, b), Kept(st, b, q), Kept(q.s, b, r)
    PROVE  Kept(st, b, r)
<1>1. InList(q.s) = InList(st)
  BY OpenShows, Zenon DEF Kept, StreamOK
<1> QED
  BY <1>1, Zenon DEF Kept

\* What is left of the input is of no account.
LEMMA InputRead ==
    ASSUME NEW st, NEW b, StreamOK(st, b), st.kind = -1, NEW x \in Seq(Octet)
    PROVE  LET t == [st EXCEPT !.in = x]
           IN  StreamOK(t, b) /\ t.kind = -1 /\ t.limited = st.limited
<1> DEFINE t == [st EXCEPT !.in = x]
<1>1. st \in Stream /\ b \in Seq(Nat) /\ Len(b) = Len(st.stack) /\ Nesting(st, b)
  BY DEF StreamOK
<1>2. /\ t \in Stream /\ t.kind = -1 /\ t.limited = st.limited /\ t.stack = st.stack
      /\ t.remaining = st.remaining
  <2>1. x \in Octets
    BY Zenon DEF Octets
  <2> QED BY <1>1, <2>1, Zenon DEF Stream
<1> HIDE DEF t
<1>3. Nesting(t, b)
  BY <1>1, <1>2 DEF Nesting
<1>4. Ahead(t)
  BY <1>2, NotAhead
<1>5. Len(b) = Len(t.stack)
  BY <1>1, <1>2
<1> QED
  BY <1>1, <1>2, <1>3, <1>4, <1>5, Zenon DEF StreamOK, t

\* readFull charges what it reads, or what it meant to read, and gives all of it.
LEMMA ReadFullOK ==
    ASSUME NEW st, NEW b, StreamOK(st, b), NEW n \in Nat
    PROVE  LET r == readFull(st, n)
           IN  /\ Kept(st, b, r) /\ r.s.kind = -1
               /\ r.err = "" => r.v \in Seq(Octet) /\ Len(r.v) = n
<1> DEFINE r == readFull(st, n)
           w == willRead(st, n)
           got == IF n > Len(st.in) THEN Len(st.in) ELSE n
           x == SubSeq(w.s.in, got + 1, Len(w.s.in))
           t == [w.s EXCEPT !.in = x]
<1>1. Kept(st, b, w) /\ w.s.kind = -1 /\ w.s.in = st.in
  BY WillReadOK
<1>2. st.in \in Seq(Octet) /\ Len(st.in) \in Nat
  <2>1. st.in \in Seq(Octet)
    BY StreamParts, Zenon DEF StreamOK
  <2> QED BY <2>1, SeqFacts
<1>3. r = IF w.err # "" THEN w
          ELSE IF got < n THEN Fail(t, "UnexpectedEOF")
          ELSE Ok(t, SubSeq(st.in, 1, n))
  BY DEF readFull, Taken
<1> HIDE DEF w, r
<1>4. x \in Seq(Octet)
  <2>1. got + 1 \in Nat /\ 1 <= got + 1 /\ got + 1 <= Len(st.in) + 1 /\ Len(st.in) <= Len(st.in)
    BY <1>2
  <2>2. SubSeq(st.in, got + 1, Len(st.in)) \in Seq(Octet)
    <3> HIDE DEF got
    <3> QED BY <1>2, <2>1, PartOK
  <2> QED BY <1>1, <2>2, Zenon
<1>5. StreamOK(t, b) /\ t.kind = -1 /\ t.limited = w.s.limited
  <2>1. StreamOK(w.s, b)
    BY <1>1, Zenon DEF Kept
  <2> HIDE DEF x
  <2> QED BY <1>1, <1>4, <2>1, InputRead
<1> HIDE DEF t
<1>6. CASE w.err # ""
  <2>1. r = w
    BY <1>3, <1>6, Zenon
  <2> QED BY <1>1, <1>6, <2>1, Zenon DEF r
<1>7. CASE w.err = "" /\ got < n
  <2>1. r.s = t /\ r.err = "UnexpectedEOF"
    BY <1>3, <1>7, Zenon DEF Fail
  <2>2. r.err \in Errors /\ r.err # "ValueTooLarge" /\ r.err # ""
    BY <2>1 DEF Errors
  <2> QED BY <1>1, <1>5, <2>1, <2>2, Zenon DEF Kept, r
<1>8. CASE w.err = "" /\ ~(got < n)
  <2>1. r.s = t /\ r.err = "" /\ r.v = SubSeq(st.in, 1, n)
    BY <1>3, <1>8, Zenon DEF Ok
  <2>2. r.err \in Errors /\ r.err # "ValueTooLarge"
    BY <2>1, Zenon DEF Errors
  <2>3. n <= Len(st.in)
    <3>1. ~(got < n)
      BY <1>8, Zenon
    <3> HIDE DEF x
    <3> QED BY <1>2, <3>1
  <2>4. r.v \in Seq(Octet) /\ Len(r.v) = n
    <3>1. SubSeq(st.in, 1, n) \in Seq(Octet) /\ Len(SubSeq(st.in, 1, n)) = n
      BY <1>2, <2>3, PrefixOK, Zenon
    <3> QED BY <2>1, <3>1, Zenon
  <2> QED BY <1>1, <1>5, <2>1, <2>2, <2>4, Zenon DEF Kept, r
<1> QED
  BY <1>6, <1>7, <1>8, Zenon

\* A number of any bytes.
LEMMA NumberOK == ASSUME NEW q \in Seq(Octet) PROVE Number(q) \in Nat
<1>1. Huge \in Nat
  BY DEF Huge
<1>2. Len(q) \in Nat /\ \A i \in 1..Len(q) : q[i] \in Nat
  <2>1. Len(q) \in Nat /\ \A i \in 1..Len(q) : q[i] \in Octet
    BY SeqFacts
  <2>2. \A x \in Octet : x \in Nat
    BY DEF Octet
  <2> QED BY <2>1, <2>2, Zenon
<1>3. CASE Len(q) \in 0..3
  <2>1. CASE Len(q) = 0
    BY <2>1 DEF Number
  <2>2. CASE Len(q) = 1
    BY <1>2, <2>2 DEF Number
  <2>3. CASE Len(q) = 2
    <3>1. q[1] \in Nat /\ q[2] \in Nat
      BY <1>2, <2>3
    <3> QED BY <2>3, <3>1 DEF Number
  <2>4. CASE Len(q) = 3
    <3>1. q[1] \in Nat /\ q[2] \in Nat /\ q[3] \in Nat
      BY <1>2, <2>4
    <3> QED BY <2>4, <3>1 DEF Number
  <2> QED BY <1>3, <2>1, <2>2, <2>3, <2>4
<1>4. CASE Len(q) \notin 0..3
  <2>1. Number(q) = Huge
    BY <1>2, <1>4 DEF Number
  <2> QED BY <1>1, <2>1
<1> QED
  BY <1>3, <1>4

\* readUint reads a number.
LEMMA ReadUintOK ==
    ASSUME NEW st, NEW b, StreamOK(st, b), NEW n \in Nat
    PROVE  LET r == readUint(st, n)
           IN  Kept(st, b, r) /\ r.s.kind = -1 /\ (r.err = "" => r.v \in Nat)
<1> DEFINE r == readUint(st, n)
           f == readFull(st, n)
           t == [st EXCEPT !.kind = -1]
<1>1. Kept(st, b, f) /\ f.s.kind = -1 /\ (f.err = "" => f.v \in Seq(Octet))
  BY ReadFullOK, Zenon
<1>2. r = IF n = 0 THEN Ok(t, 0)
          ELSE IF f.err # "" THEN f
          ELSE IF n > 1 /\ f.v[1] = 0 THEN Fail(f.s, "CanonSize")
          ELSE Ok(f.s, Number(f.v))
  BY DEF readUint, UintOf
<1> HIDE DEF r, f
<1>3. CASE n = 0
  <2>1. r.s = t /\ r.err = "" /\ r.v = 0 /\ r.err \in Errors /\ r.err # "ValueTooLarge" /\ r.v \in Nat
    BY <1>2, <1>3, Zenon DEF Ok, Errors
  <2>2. st \in Stream /\ b \in Seq(Nat) /\ Len(b) = Len(st.stack) /\ Nesting(st, b)
    BY DEF StreamOK
  <2>3. /\ t \in Stream /\ t.kind = -1 /\ t.limited = st.limited /\ t.stack = st.stack
        /\ t.remaining = st.remaining
    BY <2>2, RearmedOK
  <2> HIDE DEF t
  <2>4. Nesting(t, b) /\ Len(b) = Len(t.stack)
    BY <2>2, <2>3, SMTT(30) DEF Nesting
  <2>5. Ahead(t)
    BY <2>3, NotAhead
  <2> QED BY <2>1, <2>2, <2>3, <2>4, <2>5, Zenon DEF Kept, StreamOK, r
<1>4. CASE n # 0 /\ f.err # ""
  <2>1. r = f
    BY <1>2, <1>4, Zenon
  <2> QED BY <1>1, <1>4, <2>1, Zenon DEF r
<1>5. CASE n # 0 /\ f.err = "" /\ n > 1 /\ f.v[1] = 0
  <2>1. r.s = f.s /\ r.err = "CanonSize"
    BY <1>2, <1>5, Zenon DEF Fail
  <2>2. r.err \in Errors /\ r.err # "ValueTooLarge" /\ r.err # ""
    BY <2>1 DEF Errors
  <2> QED BY <1>1, <2>1, <2>2, Zenon DEF Kept, r
<1>6. CASE n # 0 /\ f.err = "" /\ ~(n > 1 /\ f.v[1] = 0)
  <2>1. r.s = f.s /\ r.err = "" /\ r.v = Number(f.v)
    BY <1>2, <1>6, Zenon DEF Ok
  <2>2. r.err \in Errors /\ r.err # "ValueTooLarge"
    BY <2>1, Zenon DEF Errors
  <2>3. r.v \in Nat
    BY <1>1, <1>6, <2>1, NumberOK, Zenon
  <2> QED BY <1>1, <2>1, <2>2, <2>3, Zenon DEF Kept, r
<1> QED
  BY <1>3, <1>4, <1>5, <1>6, Zenon

----------------------------------------------------------------------------
\* What readKind makes of st: the lists are as before, something is ahead, and
\* whether it fits is not known yet.
Looked(st, b, k) ==
    /\ k \in Stream /\ b \in Seq(Nat) /\ Len(b) = Len(k.stack) /\ Nesting(k, b)
    /\ k.limited = st.limited /\ k.kind \in {0, 1, 2}
    /\ st.limited /\ InList(st) => k.kinderr # "ValueTooLarge"

\* readKind: a value whose head is read leaves the stream in order.
LEMMA FoundOK ==
    ASSUME NEW st, NEW b, NEW r, StreamOK(st, b), Kept(st, b, r),
           NEW kind \in {0, 1, 2}, NEW n \in Nat, NEW err \in Errors,
           st.limited /\ InList(st) => err # "ValueTooLarge"
    PROVE  Looked(st, b, Found(r.s, kind, n, err))
<1> DEFINE k == Found(r.s, kind, n, err)
<1>1. r.s \in Stream /\ b \in Seq(Nat) /\ Len(b) = Len(r.s.stack) /\ Nesting(r.s, b) /\ r.s.limited = st.limited
  BY Zenon DEF Kept, StreamOK
<1>2. /\ k \in Stream /\ k.kind = kind /\ k.kinderr = err /\ k.limited = r.s.limited
      /\ k.stack = r.s.stack /\ k.remaining = r.s.remaining
  BY <1>1, Zenon DEF Found, Stream
<1> HIDE DEF k
<1>3. Nesting(k, b) /\ Len(b) = Len(k.stack)
  BY <1>1, <1>2 DEF Nesting
<1> QED
  BY <1>1, <1>2, <1>3, Zenon DEF Looked, k

\* readKind: so does a value whose size was read with readUint, canonical or not.
LEMMA LongOK ==
    ASSUME NEW st, NEW b, NEW q, StreamOK(st, b), Kept(st, b, q), NEW kind \in {1, 2}, NEW n \in Nat
    PROVE  Looked(st, b, Long(kind, readUint(q.s, n)))
<1> DEFINE r == readUint(q.s, n)
<1>1. Kept(q.s, b, r) /\ (r.err = "" => r.v \in Nat)
  BY ReadUintOK, Zenon DEF Kept
<1>2. Kept(st, b, r)
  BY <1>1, KeptKept, Zenon
<1>3. r.err \in Errors /\ (st.limited /\ InList(st) => r.err # "ValueTooLarge")
  BY <1>2, Zenon DEF Kept
<1>4. kind \in {0, 1, 2} /\ 0 \in Nat
  OBVIOUS
<1>5. Long(kind, readUint(q.s, n)) = IF r.err # "" THEN Found(r.s, kind, 0, r.err)
                                   ELSE Found(r.s, kind, r.v, IF r.v < 56 THEN "CanonSize" ELSE "")
  BY DEF Long
<1>6. (IF r.v < 56 THEN "CanonSize" ELSE "") \in Errors /\ (IF r.v < 56 THEN "CanonSize" ELSE "") # "ValueTooLarge"
  BY DEF Errors
<1> HIDE DEF r
<1>7. CASE r.err # ""
  <2>1. Looked(st, b, Found(r.s, kind, 0, r.err))
    BY <1>2, <1>3, <1>4, FoundOK, Zenon
  <2> QED BY <1>5, <1>7, <2>1, Zenon
<1>8. CASE r.err = ""
  <2>1. Looked(st, b, Found(r.s, kind, r.v, IF r.v < 56 THEN "CanonSize" ELSE ""))
    BY <1>1, <1>2, <1>4, <1>6, <1>8, FoundOK, Zenon
  <2> QED BY <1>5, <1>8, <2>1, Zenon
<1> QED
  BY <1>7, <1>8, Zenon

\* A stream that has its byteval.
LEMMA BytevalOK ==
    ASSUME NEW st, NEW b, NEW r, Kept(st, b, r), r.s.kind = -1, NEW v \in Octet
    PROVE  Kept(st, b, Ok([r.s EXCEPT !.byteval = v], <<>>))
<1> DEFINE t == [r.s EXCEPT !.byteval = v]
           q == Ok(t, <<>>)
<1>1. r.s \in Stream /\ b \in Seq(Nat) /\ Len(b) = Len(r.s.stack) /\ Nesting(r.s, b) /\ r.s.limited = st.limited
  BY Zenon DEF Kept, StreamOK
<1>2. /\ t \in Stream /\ t.kind = -1 /\ t.limited = r.s.limited
      /\ t.stack = r.s.stack /\ t.remaining = r.s.remaining
  BY <1>1, SMTT(30) DEF Stream
<1>3. q.s = t /\ q.err \in Errors /\ q.err # "ValueTooLarge"
  BY DEF Ok, Errors
<1> HIDE DEF t, q
<1>4. Nesting(t, b) /\ Len(b) = Len(t.stack)
  BY <1>1, <1>2 DEF Nesting
<1>5. Ahead(t)
  BY <1>2, NotAhead
<1> QED
  BY <1>1, <1>2, <1>3, <1>4, <1>5, Zenon DEF Kept, StreamOK, t, q

\* readKind finds something, or an error.
LEMMA ReadKindOK ==
    ASSUME NEW st, NEW b, StreamOK(st, b)
    PROVE  Looked(st, b, readKind(st))
<1> DEFINE r == readFull(st, 1)
           x == r.v[1]
           v == IF x < 128 THEN x ELSE 0
           t == [r.s EXCEPT !.byteval = v]
           q == Ok(t, <<>>)
<1>0. readKind(st) =
        IF r.err # "" THEN Found(r.s, 0, 0, TagErr(st, r.err))
        ELSE IF x < 128 THEN Found(q.s, 0, 0, "")
        ELSE IF x < 184 THEN Found(q.s, 1, x - 128, "")
        ELSE IF x < 192 THEN Long(1, readUint(q.s, x - 183))
        ELSE IF x < 248 THEN Found(q.s, 2, x - 192, "")
        ELSE Long(2, readUint(q.s, x - 247))
  BY DEF readKind, Tagged, Byte, String, List, Ok
<1>1. Kept(st, b, r) /\ r.s.kind = -1 /\ (r.err = "" => r.v \in Seq(Octet) /\ Len(r.v) = 1)
  <2>1. 1 \in Nat
    OBVIOUS
  <2> QED BY <2>1, ReadFullOK, Zenon
<1>2. r.err \in Errors /\ (st.limited /\ InList(st) => r.err # "ValueTooLarge")
  BY <1>1, Zenon DEF Kept
<1>3. /\ 0 \in {0, 1, 2} /\ 1 \in {0, 1, 2} /\ 2 \in {0, 1, 2} /\ 1 \in {1, 2} /\ 2 \in {1, 2} /\ 0 \in Nat
      /\ "" \in Errors /\ "" # "ValueTooLarge" /\ "EOF" \in Errors /\ "EOF" # "ValueTooLarge"
  BY DEF Errors
<1> HIDE DEF r
<1>4. CASE r.err # ""
  <2>1. TagErr(st, r.err) \in Errors /\ (st.limited /\ InList(st) => TagErr(st, r.err) # "ValueTooLarge")
    BY <1>2, <1>3, Zenon DEF TagErr
  <2>2. Looked(st, b, Found(r.s, 0, 0, TagErr(st, r.err)))
    BY <1>1, <1>3, <2>1, FoundOK, Zenon
  <2> QED BY <1>0, <1>4, <2>2, Zenon
<1>5. CASE r.err = ""
  <2>1. x \in Octet
    <3>1. Len(r.v) = 1
      BY <1>1, <1>5, Zenon
    <3>2. 1 \in 1..Len(r.v)
      BY <3>1, SMTT(30)
    <3> QED BY <1>1, <1>5, <3>2, SeqFacts, Zenon
  <2>2. v \in Octet
    BY <2>1 DEF Octet
  <2>3. Kept(st, b, q)
    <3> HIDE DEF v
    <3> QED BY <1>1, <2>2, BytevalOK, Zenon
  <2> HIDE DEF x, v, t, q
  <2> DEFINE f1 == Found(q.s, 0, 0, "")
             f2 == Found(q.s, 1, x - 128, "")
             f3 == Long(1, readUint(q.s, x - 183))
             f4 == Found(q.s, 2, x - 192, "")
             f5 == Long(2, readUint(q.s, x - 247))
  <2>4. Looked(st, b, f1)
    BY <1>3, <2>3, FoundOK, Zenon
  <2>5. ASSUME ~(x < 128) PROVE Looked(st, b, f2)
    <3> DEFINE m == x - 128
    <3>1. m \in Nat
      BY <2>1, <2>5 DEF Octet
    <3> HIDE DEF m
    <3>2. Looked(st, b, Found(q.s, 1, m, ""))
      BY <1>3, <2>3, <3>1, FoundOK, Zenon
    <3> QED BY <3>2, Zenon DEF m
  <2>6. ASSUME ~(x < 184) PROVE Looked(st, b, f3)
    <3> DEFINE m == x - 183
    <3>1. m \in Nat
      BY <2>1, <2>6 DEF Octet
    <3> HIDE DEF m
    <3>2. Looked(st, b, Long(1, readUint(q.s, m)))
      BY <1>3, <2>3, <3>1, LongOK, Zenon
    <3> QED BY <3>2, Zenon DEF m
  <2>7. ASSUME ~(x < 192) PROVE Looked(st, b, f4)
    <3> DEFINE m == x - 192
    <3>1. m \in Nat
      BY <2>1, <2>7 DEF Octet
    <3> HIDE DEF m
    <3>2. Looked(st, b, Found(q.s, 2, m, ""))
      BY <1>3, <2>3, <3>1, FoundOK, Zenon
    <3> QED BY <3>2, Zenon DEF m
  <2>8. ASSUME ~(x < 248) PROVE Looked(st, b, f5)
    <3> DEFINE m == x - 247
    <3>1. m \in Nat
      BY <2>1, <2>8 DEF Octet
    <3> HIDE DEF m
    <3>2. Looked(st, b, Long(2, readUint(q.s, m)))
      BY <1>3, <2>3, <3>1, LongOK, Zenon
    <3> QED BY <3>2, Zenon DEF m
  <2>9. readKind(st) = IF x < 128 THEN f1 ELSE IF x < 184 THEN f2 ELSE IF x < 192 THEN f3
                       ELSE IF x < 248 THEN f4 ELSE f5
    BY <1>0, <1>5, Zenon
  <2> HIDE DEF f1, f2, f3, f4, f5
  <2> QED BY <2>4, <2>5, <2>6, <2>7, <2>8, <2>9
<1> QED
  BY <1>4, <1>5, Zenon

\* What Kind finds ahead without an error fits.
LEMMA KindOK ==
    ASSUME NEW st, NEW b, StreamOK(st, b)
    PROVE  LET r == Kind(st)
           IN  Kept(st, b, r) /\ (r.err = "" => r.s.kind \in {0, 1, 2} /\ r.s.kinderr = "")
<1> DEFINE r == Kind(st)
           k == readKind(st)
           e == IF InList(st) THEN "ElemTooLarge" ELSE "ValueTooLarge"
           t == IF k.kinderr = "" /\ ~Fits(k) THEN [k EXCEPT !.kinderr = e] ELSE k
           z == [st EXCEPT !.kinderr = ""]
<1>0. r = IF st.kind >= 0 THEN [s |-> st, err |-> st.kinderr, v |-> <<>>]
          ELSE IF InList(st) /\ Left(st) = 0 THEN Fail(z, "EOL")
          ELSE [s |-> t, err |-> t.kinderr, v |-> <<>>]
  BY DEF Kind, Known, Fitted
<1>1. Looked(st, b, k)
  BY ReadKindOK
<1>2. st \in Stream /\ b \in Seq(Nat) /\ Len(b) = Len(st.stack) /\ Nesting(st, b) /\ Ahead(st)
  BY Zenon DEF StreamOK
<1> HIDE DEF r, k
<1>3. CASE st.kind >= 0
  <2>1. r.s = st /\ r.err = st.kinderr
    BY <1>0, <1>3, Zenon
  <2>2. st.kind \in {0, 1, 2} /\ st.kinderr \in Errors
    BY <1>2, <1>3 DEF Stream
  <2> QED BY <1>2, <1>3, <2>1, <2>2, Zenon DEF Kept, StreamOK, Ahead, r
<1>4. CASE ~(st.kind >= 0) /\ InList(st) /\ Left(st) = 0
  <2>1. r.s = z /\ r.err = "EOL" /\ r.err \in Errors /\ r.err # "ValueTooLarge" /\ r.err # ""
    BY <1>0, <1>4, Zenon DEF Fail, Errors
  <2>2. /\ z \in Stream /\ z.kind = st.kind /\ z.limited = st.limited
        /\ z.stack = st.stack /\ z.remaining = st.remaining
    BY <1>2, Zenon DEF Stream, Errors
  <2> HIDE DEF z
  <2>3. Nesting(z, b) /\ Len(b) = Len(z.stack)
    BY <1>2, <2>2 DEF Nesting
  <2>4. Ahead(z)
    BY <1>4, <2>2, Zenon DEF Ahead
  <2> QED BY <1>2, <2>1, <2>2, <2>3, <2>4, Zenon DEF Kept, StreamOK, r
<1>5. CASE ~(st.kind >= 0) /\ ~(InList(st) /\ Left(st) = 0)
  <2>1. r.s = t /\ r.err = t.kinderr
    BY <1>0, <1>5, Zenon
  <2>2. /\ k \in Stream /\ Len(b) = Len(k.stack) /\ Nesting(k, b) /\ k.limited = st.limited
        /\ k.kind \in {0, 1, 2} /\ (st.limited /\ InList(st) => k.kinderr # "ValueTooLarge")
    BY <1>1, Zenon DEF Looked
  <2>3. InList(k) = InList(st)
    BY <1>2, <2>2, OpenShows, Zenon
  <2>4. CASE k.kinderr = "" /\ ~Fits(k)
    <3> DEFINE u == [k EXCEPT !.kinderr = e]
    <3>1. t = u
      BY <2>4, Zenon
    <3>2. e \in Errors /\ e # "" /\ (InList(st) => e # "ValueTooLarge")
      BY DEF Errors
    <3> HIDE DEF t, e
    <3>3. /\ u \in Stream /\ u.kind = k.kind /\ u.limited = k.limited /\ u.kinderr = e
          /\ u.stack = k.stack /\ u.remaining = k.remaining
      BY <2>2, <3>2, Zenon DEF Stream
    <3> HIDE DEF u
    <3>4. Nesting(u, b) /\ Len(b) = Len(u.stack)
      BY <2>2, <3>3 DEF Nesting
    <3>5. InList(u) = InList(st)
      BY <1>2, <3>4, OpenShows, Zenon
    <3>6. Ahead(u)
      BY <3>2, <3>3, <3>5, Zenon DEF Ahead
    <3> QED BY <1>2, <2>1, <2>2, <3>1, <3>2, <3>3, <3>4, <3>6, Zenon DEF Kept, StreamOK, r
  <2>5. CASE ~(k.kinderr = "" /\ ~Fits(k))
    <3>1. t = k
      BY <2>5, Zenon
    <3> HIDE DEF t
    <3>2. Ahead(k)
      BY <2>2, <2>3, <2>5, Zenon DEF Ahead
    <3>3. k.kinderr \in Errors
      BY <2>2 DEF Stream
    <3> QED BY <1>2, <2>1, <2>2, <3>1, <3>2, <3>3, Zenon DEF Kept, StreamOK, r
  <2> QED BY <2>4, <2>5, Zenon
<1> QED
  BY <1>3, <1>4, <1>5, Zenon

----------------------------------------------------------------------------
\* The ways in which an operation ends.
LEMMA FailKept ==
    ASSUME NEW st, NEW b, NEW q, Kept(st, b, q), NEW err \in Errors, err # "ValueTooLarge"
    PROVE  Kept(st, b, Fail(q.s, err))
<1> DEFINE r == Fail(q.s, err)
<1>1. r.s = q.s /\ r.err = err
  BY DEF Fail
<1> HIDE DEF r
<1> QED
  BY <1>1, Zenon DEF Kept, r

\* A call that returns a value and keeps the stream in order keeps the nesting.
LEMMA OkKept ==
    ASSUME NEW st, NEW b, NEW q, Kept(st, b, q), NEW v
    PROVE  Kept(st, b, Ok(q.s, v))
<1> DEFINE r == Ok(q.s, v)
<1>1. r.s = q.s /\ r.err \in Errors /\ r.err # "ValueTooLarge"
  BY DEF Ok, Errors
<1> HIDE DEF r
<1> QED
  BY <1>1, Zenon DEF Kept, r

\* So does one that forgets the kind it had looked at (s.kind = -1).
LEMMA RearmedKept ==
    ASSUME NEW st, NEW b, NEW q, Kept(st, b, q), NEW v
    PROVE  Kept(st, b, Ok(Rearmed(q.s), v))
<1> DEFINE t == Rearmed(q.s)
           r == Ok(t, v)
<1>1. q.s \in Stream /\ b \in Seq(Nat) /\ Len(b) = Len(q.s.stack) /\ Nesting(q.s, b) /\ q.s.limited = st.limited
  BY Zenon DEF Kept, StreamOK
<1>2. /\ t \in Stream /\ t.kind = -1 /\ t.limited = q.s.limited
      /\ t.stack = q.s.stack /\ t.remaining = q.s.remaining
  BY <1>1, RearmedOK DEF Rearmed
<1>3. r.s = t /\ r.err \in Errors /\ r.err # "ValueTooLarge"
  BY SMTT(30) DEF Ok, Errors
<1> HIDE DEF t, r
<1>4. Nesting(t, b) /\ Len(b) = Len(t.stack)
  BY <1>1, <1>2 DEF Nesting
<1>5. Ahead(t)
  BY <1>2, NotAhead
<1> QED
  BY <1>1, <1>2, <1>3, <1>4, <1>5, Zenon DEF Kept, StreamOK, t, r

\* The value after the header that Kind has read.
LEMMA ContentOK ==
    ASSUME NEW st, NEW b, StreamOK(st, b)
    PROVE  LET k == Kind(st)
           IN  Kept(st, b, k) /\ Kept(st, b, readFull(k.s, k.s.size)) /\ Kept(st, b, readUint(k.s, k.s.size))
<1> DEFINE k == Kind(st)
<1>1. Kept(st, b, k)
  BY KindOK, Zenon
<1> HIDE DEF k
<1>2. StreamOK(k.s, b)
  BY <1>1, Zenon DEF Kept
<1>3. k.s.size \in Nat
  BY <1>2 DEF StreamOK, Stream
<1>4. Kept(k.s, b, readFull(k.s, k.s.size)) /\ Kept(k.s, b, readUint(k.s, k.s.size))
  BY <1>2, <1>3, ReadFullOK, ReadUintOK, Zenon
<1> QED
  BY <1>1, <1>4, KeptKept, Zenon DEF k

\* These errors are among those named, and none is ErrValueTooLarge.
LEMMA ErrorNames ==
    \A e \in {"CanonSize", "CanonInt", "ExpectedString", "ExpectedList", "UintOverflow", "InvalidBool",
              "NotInList", "NotAtEOL"} : e \in Errors /\ e # "ValueTooLarge"
BY Zenon DEF Errors

\* Stream.Bytes keeps the lists nested and the limit above them.
LEMMA BytesOK == ASSUME NEW st, NEW b, StreamOK(st, b) PROVE Kept(st, b, Bytes(st))
<1> DEFINE k == Kind(st)
           f == readFull(k.s, k.s.size)
<1>1. Kept(st, b, k) /\ Kept(st, b, f)
  BY ContentOK
<1>2. \/ Bytes(st) = k
      \/ Bytes(st) = Ok(Rearmed(k.s), <<k.s.byteval>>)
      \/ Bytes(st) = Fail(k.s, "ExpectedString")
      \/ Bytes(st) = Fail(f.s, "CanonSize")
      \/ Bytes(st) = f
  BY Zenon DEF Bytes, BytesAt
<1> HIDE DEF k, f
<1>3. Kept(st, b, Fail(k.s, "ExpectedString")) /\ Kept(st, b, Fail(f.s, "CanonSize"))
  BY <1>1, ErrorNames, FailKept
<1>4. Kept(st, b, Ok(Rearmed(k.s), <<k.s.byteval>>))
  BY <1>1, RearmedKept
<1> QED
  BY <1>1, <1>2, <1>3, <1>4, Zenon

\* Stream.Raw does, though it reads a whole list without opening it.
LEMMA RawOK == ASSUME NEW st, NEW b, StreamOK(st, b) PROVE Kept(st, b, Raw(st))
<1> DEFINE k == Kind(st)
           f == readFull(k.s, k.s.size)
<1>1. Kept(st, b, k) /\ Kept(st, b, f)
  BY ContentOK
<1>2. \/ Raw(st) = k
      \/ Raw(st) = Ok(Rearmed(k.s), <<k.s.byteval>>)
      \/ Raw(st) = f
      \/ \E v : Raw(st) = Ok(f.s, v)
  BY ZenonT(60) DEF Raw, RawAt
<1> HIDE DEF k, f
<1>3. \A v : Kept(st, b, Ok(f.s, v))
  BY <1>1, OkKept
<1>4. Kept(st, b, Ok(Rearmed(k.s), <<k.s.byteval>>))
  BY <1>1, RearmedKept
<1> QED
  BY <1>1, <1>2, <1>3, <1>4, Zenon

\* Stream.uint does, for every width.
LEMMA UintOK == ASSUME NEW st, NEW b, StreamOK(st, b), NEW bits PROVE Kept(st, b, uint(st, bits))
<1> DEFINE k == Kind(st)
           f == readUint(k.s, k.s.size)
           u == uint(st, bits)
<1>1. Kept(st, b, k) /\ Kept(st, b, f)
  BY ContentOK
<1>2. \/ u = k
      \/ u = Fail(k.s, "CanonInt")
      \/ u = Ok(Rearmed(k.s), k.s.byteval)
      \/ u = Fail(k.s, "ExpectedString")
      \/ u = Fail(k.s, "UintOverflow")
      \/ u = Fail(f.s, "CanonInt")
      \/ u = Fail(f.s, f.err)
      \/ u = Fail(f.s, "CanonSize")
      \/ u = f
  BY Zenon DEF uint, UintAt
<1> HIDE DEF k, f, u
<1>3. Kept(st, b, Fail(k.s, "ExpectedString")) /\ Kept(st, b, Fail(f.s, "CanonSize"))
      /\ Kept(st, b, Fail(k.s, "CanonInt")) /\ Kept(st, b, Fail(f.s, "CanonInt")) /\ Kept(st, b, Fail(k.s, "UintOverflow"))
  BY <1>1, ErrorNames, FailKept
<1>4. Kept(st, b, Ok(Rearmed(k.s), k.s.byteval))
  BY <1>1, RearmedKept
<1>5. Kept(st, b, Fail(f.s, f.err))
  <2> DEFINE r == Fail(f.s, f.err)
  <2>1. r.s = f.s /\ r.err = f.err
    BY DEF Fail
  <2> HIDE DEF r
  <2> QED BY <1>1, <2>1, Zenon DEF Kept, r
<1> QED
  BY <1>1, <1>2, <1>3, <1>4, <1>5, Zenon DEF u

\* Stream.Bool does: it is uint of 8 bits.
LEMMA BoolOK == ASSUME NEW st, NEW b, StreamOK(st, b) PROVE Kept(st, b, Bool(st))
<1> DEFINE u == uint(st, 8)
<1>1. Kept(st, b, u)
  BY UintOK
<1>2. \/ Bool(st) = u
      \/ Bool(st) = Fail(u.s, "InvalidBool")
      \/ \E v : Bool(st) = Ok(u.s, v)
  BY Zenon DEF Bool, BoolOf
<1> HIDE DEF u
<1>3. Kept(st, b, Fail(u.s, "InvalidBool")) /\ \A v : Kept(st, b, Ok(u.s, v))
  BY <1>1, ErrorNames, FailKept, OkKept, Zenon
<1> QED
  BY <1>1, <1>2, <1>3, Zenon

----------------------------------------------------------------------------
\* A list that is opened lies within the one around it, or else within the limit.
LEMMA OpenListOK ==
    ASSUME NEW st, NEW b, StreamOK(st, b)
    PROVE  LET r == OpenList(st)
           IN  IF r.err = "" THEN StreamOK(r.s, Append(b, r.s.remaining)) ELSE Kept(st, b, r)
<1> DEFINE r == OpenList(st)
           k == Kind(st)
           e == [pos |-> 0, size |-> k.s.size]
           t == [k.s EXCEPT !.stack = Append(@, e), !.kind = -1, !.size = 0]
<1>1. Kept(st, b, k) /\ (k.err = "" => k.s.kind \in {0, 1, 2} /\ k.s.kinderr = "")
  BY KindOK, Zenon
<1>2. r = IF k.err # "" THEN k
          ELSE IF k.s.kind # List THEN Fail(k.s, "ExpectedList")
          ELSE Ok(t, k.s.size)
  BY DEF OpenList, ListAt
<1> HIDE DEF r, k
<1>3. CASE k.err # ""
  <2>1. r = k
    BY <1>2, <1>3, Zenon
  <2> QED BY <1>1, <1>3, <2>1, Zenon DEF r
<1>4. CASE k.err = "" /\ k.s.kind # List
  <2>1. r = Fail(k.s, "ExpectedList")
    BY <1>2, <1>4, Zenon
  <2>2. r.err # ""
    BY <2>1 DEF Fail
  <2>3. Kept(st, b, Fail(k.s, "ExpectedList"))
    BY <1>1, ErrorNames, FailKept, Zenon
  <2> QED BY <2>1, <2>2, <2>3, Zenon DEF r
<1>5. CASE k.err = "" /\ k.s.kind = List
  <2> DEFINE u == k.s
             n == Len(u.stack)
             c == Append(b, u.remaining)
  <2>1. r.s = t /\ r.err = ""
    BY <1>2, <1>5, Zenon DEF Ok
  <2>2. u \in Stream /\ b \in Seq(Nat) /\ Len(b) = n /\ Nesting(u, b) /\ Ahead(u)
    BY <1>1, Zenon DEF Kept, StreamOK
  <2>3. u.kind >= 0 /\ u.kinderr = ""
    <3>1. u.kind = 2
      BY <1>5, Zenon DEF List
    <3>2. u.kinderr = ""
      BY <1>1, <1>5, Zenon
    <3>3. u.kind >= 0
      BY <3>1
    <3> QED BY <3>2, <3>3, Zenon
  <2>4. Fits(u)
    BY <2>2, <2>3, Zenon DEF Ahead
  <2> HIDE DEF u
  <2>5. u.stack \in Seq([pos : Nat, size : Nat]) /\ u.size \in Nat /\ u.remaining \in Nat
    BY <2>2, StreamParts
  <2>6. /\ n \in Nat
        /\ \A i \in 1..n : u.stack[i].pos \in Nat /\ u.stack[i].size \in Nat /\ b[i] \in Nat
    <3>1. n \in Nat /\ \A i \in 1..n : u.stack[i] \in [pos : Nat, size : Nat] /\ b[i] \in Nat
      BY <2>2, <2>5, SeqFacts, Zenon
    <3> QED BY <3>1
  <2>7. e \in [pos : Nat, size : Nat] /\ e.pos = 0 /\ e.size = u.size
    BY <2>5 DEF u
  <2> HIDE DEF e
  <2>8. /\ Append(u.stack, e) \in Seq([pos : Nat, size : Nat]) /\ Len(Append(u.stack, e)) = n + 1
        /\ \A i \in 1..n : Append(u.stack, e)[i] = u.stack[i]
        /\ Append(u.stack, e)[n + 1] = e
    BY <2>5, <2>7
  <2>9. /\ c \in Seq(Nat) /\ Len(c) = n + 1
        /\ \A i \in 1..n : c[i] = b[i]
        /\ c[n + 1] = u.remaining
    BY <2>2, <2>5
  <2>10. /\ t \in Stream /\ t.kind = -1 /\ t.limited = u.limited /\ t.remaining = u.remaining
         /\ t.stack = Append(u.stack, e)
    <3>1. Append(u.stack, e) \in Lists
      BY <2>8, Zenon DEF Lists
    <3> QED BY <2>2, <3>1, Zenon DEF Stream, u
  <2> HIDE DEF c, t
  <2>11. ASSUME n > 0
         PROVE  u.size <= u.stack[n].size - u.stack[n].pos /\ (u.limited => u.size <= u.remaining)
    <3>1. InList(u)
      BY <2>11 DEF InList
    <3>2. /\ Left(u) \in Nat /\ Left(u) = u.stack[n].size - u.stack[n].pos
          /\ u.limited => Left(u) <= u.remaining
      BY <2>2, <3>1, Innermost
    <3>3. u.size <= Left(u)
      BY <2>4, <3>1, Zenon DEF Fits
    <3> QED BY <2>5, <3>2, <3>3
  <2>12. u.limited => u.size <= u.remaining
    <3>1. CASE n > 0
      BY <2>11, <3>1
    <3>2. CASE ~(n > 0)
      BY <2>4, <3>2, Zenon DEF Fits, InList
    <3> QED BY <3>1, <3>2
  <2>13. Nesting(t, c)
    <3> DEFINE P(i, m) == /\ t.stack[i].pos <= t.stack[i].size
                          /\ i < m => t.stack[i + 1].size <= t.stack[i].size - t.stack[i].pos
                          /\ t.limited => /\ t.stack[i].size <= c[i]
                                          /\ i < m => c[i + 1] = c[i] - t.stack[i].pos
                                          /\ i = m => t.remaining = c[i] - t.stack[i].pos
    <3>0. Nesting(t, c) = \A i \in 1..Len(t.stack) : P(i, Len(t.stack))
      BY DEF Nesting
    <3> SUFFICES ASSUME NEW i \in 1..(n + 1)
                 PROVE  P(i, n + 1)
      <4>1. Len(t.stack) = n + 1
        BY <2>8, <2>10
      <4> HIDE DEF P
      <4> QED BY <3>0, <4>1
    <3>1. CASE i = n + 1
      <4>1. t.stack[i].pos = 0 /\ t.stack[i].size = u.size /\ c[i] = u.remaining /\ ~(i < n + 1)
        BY <2>6, <2>7, <2>8, <2>9, <2>10, <3>1, SMTT(30)
      <4> QED BY <2>5, <2>10, <2>12, <4>1, SMTT(30)
    <3>2. CASE i # n + 1
      <4>1. i \in 1..n /\ i + 1 \in 1..(n + 1) /\ i < n + 1
        BY <2>6, <3>2, SMTT(30)
      <4>2. t.stack[i] = u.stack[i] /\ c[i] = b[i]
        BY <2>8, <2>9, <2>10, <4>1, Zenon
      <4>3. /\ u.stack[i].pos <= u.stack[i].size
            /\ i < n => u.stack[i + 1].size <= u.stack[i].size - u.stack[i].pos
            /\ u.limited => /\ u.stack[i].size <= b[i]
                            /\ i < n => b[i + 1] = b[i] - u.stack[i].pos
                            /\ i = n => u.remaining = b[i] - u.stack[i].pos
        BY <2>2, <4>1, SMTT(30) DEF Nesting
      <4>4. CASE i < n
        <5>1. i + 1 \in 1..n
          BY <2>6, <4>1, <4>4
        <5>2. t.stack[i + 1] = u.stack[i + 1] /\ c[i + 1] = b[i + 1]
          BY <2>8, <2>9, <2>10, <5>1, SMTT(30)
        <5> QED BY <2>10, <3>2, <4>2, <4>3, <4>4, <5>2
      <4>5. CASE i = n
        <5>1. t.stack[i + 1].size = u.size /\ c[i + 1] = u.remaining
          BY <2>7, <2>8, <2>9, <2>10, <4>5
        <5>2. u.size <= u.stack[n].size - u.stack[n].pos
          BY <2>6, <2>11, <4>1, <4>5
        <5> QED BY <2>10, <3>2, <4>2, <4>3, <4>5, <5>1, <5>2
      <4> QED BY <2>6, <4>1, <4>4, <4>5
    <3> QED BY <3>1, <3>2
  <2>14. Ahead(t)
    BY <2>10, NotAhead
  <2>15. Len(c) = Len(t.stack)
    BY <2>8, <2>9, <2>10
  <2>16. StreamOK(t, c)
    BY <2>9, <2>10, <2>13, <2>14, <2>15, Zenon DEF StreamOK
  <2>17. c = Append(b, t.remaining)
    BY <2>10 DEF c
  <2> QED BY <2>1, <2>16, <2>17, Zenon DEF r
<1> QED
  BY <1>3, <1>4, <1>5, Zenon

\* A list that is left has been read to its end, and the one around it is charged.
LEMMA ListEndOK ==
    ASSUME NEW st, NEW b, StreamOK(st, b)
    PROVE  LET r == ListEnd(st)
           IN  IF r.err = "" THEN StreamOK(r.s, SubSeq(b, 1, Len(b) - 1)) ELSE Kept(st, b, r)
<1> DEFINE r == ListEnd(st)
           n == Len(st.stack)
           z == st.stack[n].size
           q == SubSeq(st.stack, 1, n - 1)
           p == [st EXCEPT !.stack = q, !.kind = -1, !.size = 0]
           t == Charge(p, z)
           c == SubSeq(b, 1, Len(b) - 1)
<1>1. r = IF ~InList(st) THEN Fail(st, "NotInList")
          ELSE IF Left(st) # 0 THEN Fail(st, "NotAtEOL")
          ELSE Ok(t, <<>>)
  BY DEF ListEnd, Popped, Tos
<1>2. st \in Stream /\ b \in Seq(Nat) /\ Len(b) = n /\ Nesting(st, b)
  BY Zenon DEF StreamOK
<1>3. CASE ~InList(st) \/ Left(st) # 0
  <2>1. Kept(st, b, Ok(st, <<>>)) /\ Ok(st, <<>>).s = st
    <3>1. Ok(st, <<>>).s = st /\ Ok(st, <<>>).err \in Errors /\ Ok(st, <<>>).err # "ValueTooLarge"
      BY DEF Ok, Errors
    <3> QED BY <3>1, Zenon DEF Kept
  <2>2. Kept(st, b, Fail(st, "NotInList")) /\ Kept(st, b, Fail(st, "NotAtEOL"))
    <3> HIDE DEF t
    <3> QED BY <2>1, ErrorNames, FailKept
  <2> HIDE DEF r, t
  <2>3. r = Fail(st, "NotInList") \/ r = Fail(st, "NotAtEOL")
    BY <1>1, <1>3, Zenon
  <2>4. r.err # ""
    <3>1. Fail(st, "NotInList").err # "" /\ Fail(st, "NotAtEOL").err # ""
      BY DEF Fail
    <3> QED BY <2>3, <3>1, Zenon
  <2> QED BY <2>2, <2>3, <2>4, Zenon DEF r
<1>4. CASE InList(st) /\ Left(st) = 0
  <2> HIDE DEF r
  <2>1. r.s = t /\ r.err = ""
    <3> HIDE DEF t
    <3> QED BY <1>1, <1>4, Zenon DEF Ok
  <2>2. st.stack \in Seq([pos : Nat, size : Nat]) /\ st.remaining \in Nat
    BY <1>2, StreamParts
  <2>3. /\ n \in Nat /\ n > 0 /\ n - 1 \in Nat /\ n - 1 <= n
        /\ \A i \in 1..n : st.stack[i].pos \in Nat /\ st.stack[i].size \in Nat /\ b[i] \in Nat
    <3>1. n \in Nat /\ \A i \in 1..n : st.stack[i] \in [pos : Nat, size : Nat] /\ b[i] \in Nat
      BY <1>2, <2>2, SeqFacts, Zenon
    <3>2. n > 0
      BY <1>4 DEF InList
    <3> QED BY <3>1, <3>2
  <2>4. z \in Nat /\ st.stack[n].pos = z
    <3>1. n \in 1..n
      BY <2>3
    <3>2. st.stack[n].size - st.stack[n].pos = 0
      BY <1>4 DEF Left, Tos
    <3> QED BY <2>3, <3>1, <3>2
  <2>5. /\ q \in Seq([pos : Nat, size : Nat]) /\ Len(q) = n - 1
        /\ \A i \in 1..(n - 1) : q[i] = st.stack[i]
    BY <2>2, <2>3, PrefixOK, Zenon
  <2>6. c \in Seq(Nat) /\ Len(c) = n - 1 /\ \A i \in 1..(n - 1) : c[i] = b[i]
    BY <1>2, <2>3, PrefixOK
  <2> HIDE DEF q, c
  <2>7. /\ p \in Stream /\ p.kind = -1 /\ p.limited = st.limited /\ p.remaining = st.remaining /\ p.stack = q
    <3>1. q \in Lists
      BY <2>5, Zenon DEF Lists
    <3> QED BY <1>2, <3>1, Zenon DEF Stream
  <2> HIDE DEF p, z
  <2>8. /\ t \in Stream /\ t.kind = -1 /\ t.limited = st.limited /\ t.remaining = st.remaining
        /\ Len(t.stack) = n - 1
        /\ \A i \in 1..(n - 1) : /\ t.stack[i].size = st.stack[i].size
                                /\ t.stack[i].pos = IF i = n - 1 THEN st.stack[i].pos + z ELSE st.stack[i].pos
    <3>1. /\ t \in Stream /\ t.kind = p.kind /\ t.limited = p.limited /\ t.remaining = p.remaining
          /\ Len(t.stack) = Len(p.stack)
          /\ \A i \in 1..Len(p.stack) :
                /\ t.stack[i].size = p.stack[i].size
                /\ t.stack[i].pos = IF i = Len(p.stack) THEN p.stack[i].pos + z ELSE p.stack[i].pos
      BY <2>4, <2>7, ChargeOK, SMTT(30)
    <3> HIDE DEF t
    <3>2. Len(p.stack) = n - 1
      BY <2>5, <2>7
    <3>3. \A i \in 1..(n - 1) : p.stack[i] = st.stack[i]
      BY <2>5, <2>7, SMTT(30)
    <3> QED BY <2>7, <3>1, <3>2, <3>3, SMTT(30)
  <2> HIDE DEF t
  <2>9. Nesting(t, c)
    <3> DEFINE P(i, m) == /\ t.stack[i].pos <= t.stack[i].size
                          /\ i < m => t.stack[i + 1].size <= t.stack[i].size - t.stack[i].pos
                          /\ t.limited => /\ t.stack[i].size <= c[i]
                                          /\ i < m => c[i + 1] = c[i] - t.stack[i].pos
                                          /\ i = m => t.remaining = c[i] - t.stack[i].pos
    <3>0. Nesting(t, c) = \A i \in 1..Len(t.stack) : P(i, Len(t.stack))
      BY DEF Nesting
    <3> SUFFICES ASSUME NEW i \in 1..(n - 1)
                 PROVE  P(i, n - 1)
      <4> HIDE DEF P
      <4> QED BY <2>8, <3>0
    <3>1. i \in 1..n /\ i < n
      BY <2>3, SMTT(30)
    <3>2. /\ st.stack[i].pos <= st.stack[i].size
          /\ st.stack[i + 1].size <= st.stack[i].size - st.stack[i].pos
          /\ st.limited => st.stack[i].size <= b[i] /\ b[i + 1] = b[i] - st.stack[i].pos
      BY <1>2, <3>1 DEF Nesting
    <3>3. st.limited => st.remaining = b[n] - st.stack[n].pos
      BY <1>2, <2>3, SMTT(30) DEF Nesting
    <3>4. st.stack[i].pos \in Nat /\ st.stack[i].size \in Nat /\ b[i] \in Nat
      BY <2>3, <3>1
    <3>5. t.stack[i].size = st.stack[i].size /\ c[i] = b[i]
      BY <2>6, <2>8, Zenon
    <3>6. CASE i = n - 1
      <4>1. t.stack[i].pos = st.stack[i].pos + z
        BY <2>8, <3>6
      <4>2. i + 1 = n /\ ~(i < n - 1)
        BY <2>3, <3>6
      <4>3. st.stack[n].size = z
        BY DEF z
      <4>4. z <= st.stack[i].size - st.stack[i].pos
        BY <3>2, <4>2, <4>3
      <4>5. t.stack[i].pos <= t.stack[i].size
        BY <2>4, <3>4, <3>5, <4>1, <4>4
      <4>6. ASSUME t.limited PROVE t.stack[i].size <= c[i] /\ t.remaining = c[i] - t.stack[i].pos
        <5>1. st.limited
          BY <2>8, <4>6
        <5>2. b[n] = b[i] - st.stack[i].pos
          BY <3>2, <4>2, <5>1
        <5>3. st.remaining = b[i] - st.stack[i].pos - z
          BY <2>4, <3>3, <5>1, <5>2, SMTT(30)
        <5>4. t.remaining = c[i] - t.stack[i].pos
          BY <2>4, <2>8, <3>4, <3>5, <4>1, <5>3, SMTT(30)
        <5> QED BY <3>2, <3>5, <5>1, <5>4
      <4> QED BY <4>2, <4>5, <4>6
    <3>7. CASE i # n - 1
      <4>1. i + 1 \in 1..(n - 1) /\ i < n - 1
        BY <2>3, <3>7
      <4>2. t.stack[i + 1].size = st.stack[i + 1].size /\ c[i + 1] = b[i + 1]
        BY <2>6, <2>8, <4>1, Zenon
      <4>3. t.stack[i].pos = st.stack[i].pos
        BY <2>8, <3>7
      <4> QED BY <2>8, <3>2, <3>5, <3>7, <4>1, <4>2, <4>3, SMTT(30)
    <3> QED BY <3>6, <3>7
  <2>10. Ahead(t)
    BY <2>8, NotAhead
  <2>11. Len(c) = Len(t.stack)
    BY <2>6, <2>8
  <2> QED BY <2>1, <2>6, <2>8, <2>9, <2>10, <2>11, Zenon DEF StreamOK, c, r
<1> QED
  BY <1>3, <1>4, Zenon

----------------------------------------------------------------------------
\* A stream that is reset: no list is open, and the limit is there or not.
LEMMA ResetOK ==
    ASSUME NEW st \in Stream, NEW i \in Input
    PROVE  LET t == Reset(st, Reader(i.data, i.sized), i.limit)
           IN  /\ t \in Stream /\ t.kind = -1 /\ t.kinderr = "" /\ t.stack = <<>>
               /\ t.limited = (i.limit > 0 \/ i.sized)
               /\ i.limit > 0 => t.remaining = i.limit
               /\ i.limit \in Nat
<1> DEFINE rem == IF i.limit > 0 THEN i.limit ELSE IF i.sized THEN Len(i.data) ELSE st.remaining
           lim == i.limit > 0 \/ i.sized
           nil == <<>>
           none == ""
           t == [st EXCEPT !.in = i.data, !.remaining = rem, !.limited = lim,
                           !.stack = nil, !.size = 0, !.kind = -1, !.kinderr = none]
<1>1. i.data \in Seq(Octet) /\ i.sized \in BOOLEAN /\ i.limit \in Nat
  BY InputAssumption DEF Octet
<1>2. Len(i.data) \in Nat /\ st.remaining \in Nat
  <2>1. Len(i.data) \in Nat
    BY <1>1, SeqFacts
  <2>2. st.remaining \in Nat
    BY DEF Stream
  <2> QED BY <2>1, <2>2
<1>3. rem \in Nat /\ lim \in BOOLEAN /\ (i.limit > 0 => rem = i.limit) /\ lim = (i.limit > 0 \/ i.sized)
  BY <1>1, <1>2
<1>4. Reset(st, Reader(i.data, i.sized), i.limit) = t
  BY DEF Reset, Reader
<1> HIDE DEF rem, lim
<1>5. none \in Errors /\ nil \in Lists
  BY DEF Errors, Lists
<1> HIDE DEF nil, none
<1>6. t \in Stream /\ t.kind = -1 /\ t.kinderr = none /\ t.stack = nil /\ t.limited = lim /\ t.remaining = rem
  <2>1. i.data \in Octets /\ rem \in Nat /\ lim \in BOOLEAN
    BY <1>1, <1>3, Zenon DEF Octets
  <2> DEFINE t1 == [st EXCEPT !.in = i.data, !.remaining = rem, !.limited = lim]
             t2 == [t1 EXCEPT !.stack = nil, !.size = 0, !.kind = -1, !.kinderr = none]
  <2>2. t1 \in Stream /\ t1.limited = lim /\ t1.remaining = rem
    BY <2>1, Zenon DEF Stream
  <2>3. t = t2
    OBVIOUS
  <2> HIDE DEF t, t1
  <2>4. /\ t2 \in Stream /\ t2.kind = -1 /\ t2.kinderr = none /\ t2.stack = nil
        /\ t2.limited = t1.limited /\ t2.remaining = t1.remaining
    BY <1>5, <2>2, Zenon DEF Stream
  <2> HIDE DEF t2
  <2> QED BY <2>2, <2>3, <2>4, Zenon
<1> HIDE DEF t
<1> QED
  BY <1>1, <1>3, <1>4, <1>6, Zenon DEF nil, none

\* A stream with no list open is in order if what it has looked ahead at is.
LEMMA EmptyOK ==
    ASSUME NEW t \in Stream, t.stack = <<>>, Ahead(t)
    PROVE  StreamOK(t, <<>>) /\ ~InList(t)
<1>1. Len(<<>>) = 0 /\ <<>> \in Seq(Nat) /\ Len(t.stack) = 0 /\ Len(<<>>) = Len(t.stack)
  OBVIOUS
<1>2. Nesting(t, <<>>)
  BY <1>1 DEF Nesting
<1>3. ~InList(t)
  BY <1>1 DEF InList
<1> QED
  BY <1>1, <1>2, <1>3, Zenon DEF StreamOK

\* A stream as NewStream or NewListStream makes it is in order.
LEMMA StartedOK ==
    ASSUME NEW i \in Input
    PROVE  StreamOK(Started(i), <<>>) /\ ~InList(Started(i))
<1> DEFINE zero == [in |-> <<>>, remaining |-> 0, limited |-> FALSE, kind |-> 0, size |-> 0,
                    byteval |-> 0, kinderr |-> "", stack |-> <<>>]
           n == Reset(zero, Reader(i.data, i.sized), i.limit)
           l == [n EXCEPT !.kind = 2, !.size = i.limit]
<1>1. zero \in Stream
  <2>1. <<>> \in Octets /\ <<>> \in Lists /\ "" \in Errors /\ 0 \in Octet
    BY DEF Octets, Octet, Lists, Errors
  <2> QED BY <2>1, Zenon DEF Stream
<1> HIDE DEF zero
<1>2. /\ n \in Stream /\ n.kind = -1 /\ n.kinderr = "" /\ n.stack = <<>>
      /\ n.limited = (i.limit > 0 \/ i.sized) /\ (i.limit > 0 => n.remaining = i.limit)
      /\ i.limit \in Nat
  BY <1>1, ResetOK, Zenon
<1>3. Started(i) = IF i.list THEN l ELSE n
  BY DEF Started, NewListStream, NewStream, List, zero
<1> HIDE DEF n
<1>4. StreamOK(n, <<>>) /\ ~InList(n)
  BY <1>2, NotAhead, EmptyOK, Zenon
<1>5. /\ l \in Stream /\ l.kind = 2 /\ l.kinderr = "" /\ l.stack = <<>> /\ l.size = i.limit
      /\ l.remaining = n.remaining /\ l.limited = n.limited
  BY <1>2, Zenon DEF Stream
<1> HIDE DEF l
<1>6. ~InList(l)
  <2>1. Len(l.stack) = 0
    <3>1. Len(<<>>) = 0
      OBVIOUS
    <3> QED BY <1>5, <3>1, Zenon
  <2> QED BY <2>1 DEF InList
<1>7. l.size <= l.remaining
  <2>1. l.remaining \in Nat
    BY <1>5, Zenon DEF Stream
  <2>2. /\ l.size = i.limit /\ l.remaining = n.remaining /\ i.limit \in Nat
        /\ i.limit > 0 => n.remaining = i.limit
    BY <1>2, <1>5, Zenon
  <2> QED BY <2>1, <2>2
<1>8. Ahead(l)
  BY <1>6, <1>7, Zenon DEF Ahead, Fits
<1>9. StreamOK(l, <<>>)
  BY <1>5, <1>8, EmptyOK, Zenon
<1> QED
  BY <1>3, <1>4, <1>6, <1>9, Zenon

----------------------------------------------------------------------------
\* The inductive invariant.
IInv ==
    /\ input \in Input
    /\ StreamOK(s, base)
    /\ s.limited /\ InList(s) => last.err # "ValueTooLarge"

\* The inductive invariant holds of a new stream.
LEMMA InitIInv == StreamInit => IInv
<1> SUFFICES ASSUME StreamInit PROVE IInv
  OBVIOUS
<1>1. input \in Input /\ s = Started(input) /\ base = <<>>
  BY DEF StreamInit
<1>2. StreamOK(s, base) /\ ~InList(s)
  BY <1>1, StartedOK, Zenon
<1> QED
  BY <1>1, <1>2, Zenon DEF IInv

\* An operation that leaves the lists open.
LEMMA KeptStep ==
    ASSUME IInv, NEW op, NEW r, Step(op, r), Kept(s, base, r), base' = base
    PROVE  IInv'
<1>1. s' = r.s /\ last'.err = r.err /\ input' = input
  BY Zenon DEF Step
<1>2. StreamOK(s', base') /\ s'.limited = s.limited
  BY <1>1, Zenon DEF Kept
<1>3. InList(s') = InList(s)
  <2>1. Len(base) = Len(s.stack) /\ Len(base) = Len(s'.stack)
    BY <1>2, Zenon DEF IInv, StreamOK
  <2> QED BY <2>1, OpenShows, Zenon
<1>4. s'.limited /\ InList(s') => last'.err # "ValueTooLarge"
  BY <1>1, <1>2, <1>3, Zenon DEF Kept
<1> QED
  BY <1>1, <1>2, <1>4, Zenon DEF IInv

\* One that opens or ends a list.
LEMMA ListStep ==
    ASSUME IInv, NEW op, NEW r, Step(op, r), r.err = "", StreamOK(r.s, base')
    PROVE  IInv'
<1>1. s' = r.s /\ last'.err = r.err /\ input' = input
  BY Zenon DEF Step
<1>2. "" # "ValueTooLarge"
  BY Zenon
<1> QED
  BY <1>1, <1>2, Zenon DEF IInv

\* Every operation on the stream keeps the inductive invariant.
LEMMA NextIInv == IInv /\ [StreamNext]_streamVars => IInv'
<1> SUFFICES ASSUME IInv, [StreamNext]_streamVars PROVE IInv'
  OBVIOUS
<1>0. StreamOK(s, base)
  BY Zenon DEF IInv
<1>1. CASE Kind_
  BY <1>0, <1>1, KindOK, KeptStep, Zenon DEF Kind_
<1>2. CASE Bytes_
  BY <1>0, <1>2, BytesOK, KeptStep DEF Bytes_
<1>3. CASE Raw_
  BY <1>0, <1>3, RawOK, KeptStep DEF Raw_
<1>4. CASE Uint_
  BY <1>0, <1>4, UintOK, KeptStep DEF Uint_
<1>5. CASE Bool_
  BY <1>0, <1>5, BoolOK, KeptStep DEF Bool_
<1>6. CASE List_
  <2> DEFINE r == OpenList(s)
  <2>1. Step("List", r) /\ base' = IF r.err = "" THEN Append(base, r.s.remaining) ELSE base
    BY <1>6, Zenon DEF List_
  <2>2. IF r.err = "" THEN StreamOK(r.s, Append(base, r.s.remaining)) ELSE Kept(s, base, r)
    BY <1>0, OpenListOK, Zenon
  <2> HIDE DEF r
  <2>3. CASE r.err = ""
    BY <2>1, <2>2, <2>3, ListStep, Zenon
  <2>4. CASE r.err # ""
    BY <2>1, <2>2, <2>4, KeptStep, Zenon
  <2> QED BY <2>3, <2>4, Zenon
<1>7. CASE ListEnd_
  <2> DEFINE r == ListEnd(s)
  <2>1. Step("ListEnd", r) /\ base' = IF r.err = "" THEN SubSeq(base, 1, Len(base) - 1) ELSE base
    BY <1>7, Zenon DEF ListEnd_
  <2>2. IF r.err = "" THEN StreamOK(r.s, SubSeq(base, 1, Len(base) - 1)) ELSE Kept(s, base, r)
    BY <1>0, ListEndOK, Zenon
  <2> HIDE DEF r
  <2>3. CASE r.err = ""
    BY <2>1, <2>2, <2>3, ListStep, Zenon
  <2>4. CASE r.err # ""
    BY <2>1, <2>2, <2>4, KeptStep, Zenon
  <2> QED BY <2>3, <2>4, Zenon
<1>8. CASE Reset_
  <2>1. s' = Reset(s, Reader(input.data, input.sized), input.limit) /\ base' = <<>> /\ input' = input
    BY <1>8 DEF Reset_
  <2>2. s \in Stream /\ input \in Input
    BY <1>0, Zenon DEF IInv, StreamOK
  <2>3. s' \in Stream /\ s'.kind = -1 /\ s'.stack = <<>>
    BY <2>1, <2>2, ResetOK, Zenon
  <2>4. StreamOK(s', base') /\ ~InList(s')
    BY <2>1, <2>3, NotAhead, EmptyOK
  <2> QED BY <2>1, <2>2, <2>4, Zenon DEF IInv
<1>9. CASE UNCHANGED streamVars
  BY <1>9, Zenon DEF streamVars, IInv, StreamOK, Nesting, Ahead, Fits, InList, Left, Tos
<1> QED
  BY <1>1, <1>2, <1>3, <1>4, <1>5, <1>6, <1>7, <1>8, <1>9, Zenon DEF StreamNext

\* For every input, limit and sequence of calls, the lists that a Stream has open lie
\* within each other and none is read beyond its end (Kind, willRead, List, ListEnd).
THEOREM StreamNests == StreamSpec => []ListsNested
<1>1. IInv => ListsNested
  <2> SUFFICES ASSUME IInv PROVE ListsNested
    OBVIOUS
  <2>1. s.stack \in Seq([pos : Nat, size : Nat]) /\ Nesting(s, base)
    BY StreamParts, Zenon DEF IInv, StreamOK
  <2>2. Len(s.stack) \in Nat /\ DOMAIN s.stack = 1..Len(s.stack)
    BY <2>1, SeqFacts
  <2> QED BY <2>1, <2>2 DEF Nesting, ListsNested
<1> QED
  BY <1>1, InitIInv, NextIInv, PTL DEF StreamSpec

\* For every input, limit and sequence of calls, what remains of the input limit covers
\* what is left of the innermost list, and no operation within a list fails for the limit.
THEOREM StreamLimited == StreamSpec => []LimitCoversList
<1>1. IInv => LimitCoversList
  <2> SUFFICES ASSUME IInv, s.limited, InList(s) PROVE s.remaining >= Left(s) /\ last.err # "ValueTooLarge"
    BY Zenon DEF LimitCoversList
  <2>1. s \in Stream /\ base \in Seq(Nat) /\ Len(base) = Len(s.stack) /\ Nesting(s, base)
    BY Zenon DEF IInv, StreamOK
  <2>2. Left(s) \in Nat /\ Left(s) <= s.remaining /\ s.remaining \in Nat
    BY <2>1, Innermost, SMTT(30) DEF Stream
  <2>3. last.err # "ValueTooLarge"
    BY Zenon DEF IInv
  <2> QED BY <2>2, <2>3
<1> QED
  BY <1>1, InitIInv, NextIInv, PTL DEF StreamSpec

----------------------------------------------------------------------------
(* Where the values of an input begin.                                      *)

\* Induction, for a set of numbers instead of a predicate.
LEMMA NatSet ==
    ASSUME NEW S, 0 \in S, \A n \in Nat : n \in S => n + 1 \in S
    PROVE  Nat \subseteq S
<1> DEFINE T == {n \in Nat : n \notin S}
           R == {ij \in Nat \X Nat : ij[1] < ij[2]}
<1> SUFFICES ASSUME T # {} PROVE FALSE
  OBVIOUS
<1>1. IsWellFoundedOn(R, Nat)
  BY NatLessThanWellFounded, Zenon DEF OpToRel
<1>2. T \subseteq Nat
  OBVIOUS
<1> HIDE DEF R, T
<1>3. PICK x \in T : \A y \in T : <<y, x>> \notin R
  BY <1>1, <1>2, WFMin, Zenon
<1> USE DEF R, T
<1>4. x # 0 /\ x - 1 \in Nat
  OBVIOUS
<1>5. <<x - 1, x>> \in R
  BY <1>4
<1>6. x - 1 \in S
  BY <1>3, <1>4, <1>5
<1> QED
  BY <1>4, <1>6

\* A header that is there has a size, and the value ends after its tag.
LEMMA HeaderOK ==
    ASSUME NEW d \in Seq(Octet), NEW p \in Nat, HasHeader(d, p)
    PROVE  /\ d[p + 1] \in Octet /\ SizeLen(d, p) \in Nat /\ ValueSize(d, p) \in Nat
           /\ ValueEnd(d, p) \in Nat /\ ValueEnd(d, p) >= p + 1
<1>1. Len(d) \in Nat /\ \A i \in 1..Len(d) : d[i] \in Octet
  BY SeqFacts
<1>2. d[p + 1] \in Octet
  BY <1>1 DEF HasHeader
<1> DEFINE x == d[p + 1]
           m == SizeLen(d, p)
           z == Number(SubSeq(d, p + 2, p + 1 + m))
<1>3. x \in Nat /\ x <= 255
  <2>1. \A y \in Octet : y \in Nat /\ y <= 255
    BY DEF Octet
  <2> QED BY <1>2, <2>1, Zenon
<1>4. m = IF x >= 248 THEN x - 247 ELSE IF x \in 184..191 THEN x - 183 ELSE 0
  BY Zenon DEF SizeLen
<1>5. ValueSize(d, p) = IF x < 128 THEN 0 ELSE IF m > 0 THEN z ELSE IF x < 192 THEN x - 128 ELSE x - 192
  BY Zenon DEF ValueSize
<1>6. p + m < Len(d)
  BY DEF HasHeader
<1> HIDE DEF x, m
<1>7. m \in Nat
  BY <1>3, <1>4
<1>8. m > 0 => z \in Nat
  <2> HAVE m > 0
  <2>1. p + 2 \in Nat /\ p + 1 + m \in Nat /\ 1 <= p + 2 /\ p + 1 + m <= Len(d) /\ p + 2 <= p + 1 + m + 1
    BY <1>1, <1>6, <1>7
  <2>2. SubSeq(d, p + 2, p + 1 + m) \in Seq(Octet)
    BY <2>1, PartOK
  <2> QED BY <2>2, NumberOK, Zenon
<1> HIDE DEF z
<1>9. ValueSize(d, p) \in Nat
  BY <1>3, <1>4, <1>5, <1>7, <1>8
<1>10. ValueEnd(d, p) = p + 1 + m + ValueSize(d, p)
  BY Zenon DEF ValueEnd, m
<1>11. ValueEnd(d, p) \in Nat /\ ValueEnd(d, p) >= p + 1
  BY <1>7, <1>9, <1>10
<1> QED
  BY <1>2, <1>7, <1>9, <1>11, Zenon DEF m

\* The beginnings that N values have, one after the other: the recursion has a solution.
Begins(f, N, d) == f = [n \in 0..N |-> IF n = 0 THEN {0} ELSE OneMore(d, f[n - 1])]

\* There are such for every number of values.
LEMMA BeginsExist == ASSUME NEW d PROVE \A N \in Nat : \E f : Begins(f, N, d)
<1> DEFINE F(S) == OneMore(d, S)
           Has(N) == \E f : f = [n \in 0..N |-> IF n = 0 THEN {0} ELSE F(f[n - 1])]
           Good == {N \in Nat : Has(N)}
<1> HIDE DEF F
<1>1. 0 \in Good
  <2> DEFINE g == [n \in 0..0 |-> {0}]
  <2>1. g = [n \in 0..0 |-> IF n = 0 THEN {0} ELSE F(g[n - 1])]
    OBVIOUS
  <2>2. Has(0)
    BY <2>1, Zenon
  <2> QED BY <2>2
<1>2. ASSUME NEW N \in Nat, N \in Good PROVE N + 1 \in Good
  <2>1. PICK f : f = [n \in 0..N |-> IF n = 0 THEN {0} ELSE F(f[n - 1])]
    BY <1>2
  <2> DEFINE g == [n \in 0..(N + 1) |-> IF n = N + 1 THEN F(f[N]) ELSE f[n]]
  <2>2. \A n \in 0..N : f[n] = IF n = 0 THEN {0} ELSE F(f[n - 1])
    BY <2>1, Zenon
  <2>3. ASSUME NEW n \in 0..(N + 1) PROVE g[n] = IF n = 0 THEN {0} ELSE F(g[n - 1])
    <3>1. n # 0 => g[n - 1] = f[n - 1]
      OBVIOUS
    <3>2. CASE n = N + 1
      <4>1. g[n] = F(f[N]) /\ g[n - 1] = f[N] /\ n # 0
        BY <3>1, <3>2
      <4> QED BY <4>1, Zenon
    <3>3. CASE n \in 0..N
      <4>1. g[n] = f[n]
        BY <3>3
      <4>2. f[n] = IF n = 0 THEN {0} ELSE F(f[n - 1])
        BY <2>2, <3>3
      <4> QED BY <3>1, <4>1, <4>2, Zenon
    <3> QED BY <3>2, <3>3
  <2>4. g = [n \in 0..(N + 1) |-> g[n]]
    OBVIOUS
  <2> HIDE DEF g
  <2>5. g = [n \in 0..(N + 1) |-> IF n = 0 THEN {0} ELSE F(g[n - 1])]
    BY <2>3, <2>4, Zenon
  <2>6. Has(N + 1)
    BY <2>5
  <2> QED BY <2>6
<1> HIDE DEF Has
<1>3. Nat \subseteq Good
  BY <1>1, <1>2, NatSet, Zenon
<1> QED
  BY <1>3, Zenon DEF Has, F, Begins

\* Boundaries is the last of them.
BeginsOf(f, d) ==
    /\ Boundaries(d) = f[Len(d)]
    /\ f[0] = {0} /\ \A n \in 0..(Len(d) - 1) : f[n + 1] = OneMore(d, f[n])

\* So there are steps by which Boundaries is made.
LEMMA BoundarySteps == ASSUME NEW d, Len(d) \in Nat PROVE \E f : BeginsOf(f, d)
<1> DEFINE N == Len(d)
           f == CHOOSE f : Begins(f, N, d)
           F(S) == OneMore(d, S)
<1>1. Begins(f, N, d)
  BY BeginsExist
<1>2. Boundaries(d) = f[N]
  BY Zenon DEF Boundaries, Begins
<1> HIDE DEF f, F, N
<1>3. f = [n \in 0..N |-> IF n = 0 THEN {0} ELSE F(f[n - 1])]
  BY <1>1, Zenon DEF Begins, F
<1>4. N \in Nat
  BY DEF N
<1>5. f[0] = {0}
  BY <1>3, <1>4
<1>6. ASSUME NEW n \in 0..(N - 1) PROVE f[n + 1] = F(f[n])
  <2>1. n + 1 \in 0..N /\ n + 1 # 0 /\ (n + 1) - 1 = n
    BY <1>4
  <2> QED BY <1>3, <2>1, Zenon
<1> QED
  BY <1>2, <1>5, <1>6, Zenon DEF F, BeginsOf, N

\* The first value begins where the input does, and after a value that begins within
\* the input, and whose header is there, the next one begins.
LEMMA BoundaryNext ==
    ASSUME NEW d \in Seq(Octet)
    PROVE  /\ 0 \in Boundaries(d) /\ Boundaries(d) \subseteq Nat
           /\ \A p \in Boundaries(d) : HasHeader(d, p) => ValueEnd(d, p) \in Boundaries(d)
<1> DEFINE L == Len(d)
<1>0. L \in Nat
  BY SeqFacts
<1>1. PICK f : BeginsOf(f, d)
  BY <1>0, BoundarySteps, Zenon
<1>2. /\ Boundaries(d) = f[L] /\ f[0] = {0}
      /\ \A n \in 0..(L - 1) : f[n + 1] = OneMore(d, f[n])
  BY <1>1, Zenon DEF BeginsOf
<1>3. \A p \in Nat : HasHeader(d, p) => p < L /\ ValueEnd(d, p) \in Nat /\ ValueEnd(d, p) >= p + 1
  <2> TAKE p \in Nat
  <2> HAVE HasHeader(d, p)
  <2>1. p < L
    BY DEF HasHeader
  <2> QED BY <2>1, HeaderOK
<1> HIDE DEF L
<1> DEFINE V(p) == ValueEnd(d, p)
           H(p) == HasHeader(d, p)
<1>4. \A n \in 0..(L - 1) : f[n + 1] = f[n] \cup {V(p) : p \in {q \in f[n] : H(q)}}
  BY <1>2, Zenon DEF OneMore
<1>5. \A p \in Nat : H(p) => p < L /\ V(p) \in Nat /\ V(p) >= p + 1
  BY <1>3, Zenon
<1> HIDE DEF V, H
<1> DEFINE Grows == {n \in Nat : n <= L => f[n] \subseteq Nat /\ 0 \in f[n] /\ \A m \in 0..n : f[m] \subseteq f[n]}
<1>6. 0 \in Grows
  BY <1>2
<1>7. ASSUME NEW n \in Nat, n \in Grows PROVE n + 1 \in Grows
  <2> SUFFICES ASSUME n + 1 <= L
               PROVE  f[n + 1] \subseteq Nat /\ 0 \in f[n + 1] /\ \A m \in 0..(n + 1) : f[m] \subseteq f[n + 1]
    OBVIOUS
  <2>1. f[n] \subseteq Nat /\ 0 \in f[n] /\ (\A m \in 0..n : f[m] \subseteq f[n])
    BY <1>0, <1>7
  <2>2. n \in 0..(L - 1)
    BY <1>0
  <2>3. f[n + 1] = f[n] \cup {V(p) : p \in {q \in f[n] : H(q)}}
    BY <1>4, <2>2
  <2>4. \A p \in {q \in f[n] : H(q)} : V(p) \in Nat
    BY <1>5, <2>1
  <2>5. f[n + 1] \subseteq Nat /\ f[n] \subseteq f[n + 1]
    BY <2>1, <2>3, <2>4
  <2>6. ASSUME NEW m \in 0..(n + 1) PROVE f[m] \subseteq f[n + 1]
    <3>1. CASE m \in 0..n
      BY <2>1, <2>5, <3>1, Zenon
    <3>2. CASE m = n + 1
      BY <3>2, Zenon
    <3> QED BY <3>1, <3>2
  <2> QED BY <2>1, <2>5, <2>6, Zenon
<1>8. Nat \subseteq Grows
  BY <1>6, <1>7, NatSet, Zenon
<1>9. \A n \in 0..L : f[n] \subseteq Nat /\ 0 \in f[n] /\ \A m \in 0..n : f[m] \subseteq f[n]
  BY <1>0, <1>8
<1> HIDE DEF Grows
\* A value is not further on in the input than it is from the first one.
<1> DEFINE Early == {n \in Nat : n <= L => \A p \in f[n] : p <= L => p \in f[p]}
<1>10. 0 \in Early
  BY <1>2
<1>11. ASSUME NEW n \in Nat, n \in Early PROVE n + 1 \in Early
  <2> SUFFICES ASSUME n + 1 <= L, NEW p \in f[n + 1], p <= L PROVE p \in f[p]
    OBVIOUS
  <2>1. n \in 0..(L - 1) /\ n \in 0..L /\ n + 1 \in 0..L
    BY <1>0
  <2>2. \A q \in f[n] : q <= L => q \in f[q]
    BY <1>11, <2>1
  <2>3. p \in f[n] \/ \E q \in f[n] : H(q) /\ p = V(q)
    BY <1>4, <2>1
  <2>4. CASE p \in f[n]
    BY <2>2, <2>4
  <2>5. ASSUME NEW q \in f[n], H(q), p = V(q) PROVE p \in f[p]
    <3>1. q \in Nat /\ p \in Nat /\ q < L /\ q + 1 <= p
      <4>1. q \in Nat
        BY <1>9, <2>1
      <4> QED BY <1>5, <2>5, <4>1
    <3>2. q \in f[q]
      BY <1>0, <2>2, <3>1
    <3>3. q \in 0..(L - 1) /\ q + 1 \in 0..p /\ p \in 0..L
      BY <1>0, <3>1
    <3>4. p \in f[q + 1]
      BY <1>4, <2>5, <3>2, <3>3
    <3> QED BY <1>9, <3>3, <3>4
  <2> QED BY <2>3, <2>4, <2>5
<1>12. Nat \subseteq Early
  BY <1>10, <1>11, NatSet, Zenon
<1>13. ASSUME NEW p \in Boundaries(d), H(p) PROVE V(p) \in Boundaries(d)
  <2>1. p \in f[L] /\ L \in 0..L
    BY <1>0, <1>2
  <2>2. p \in Nat /\ p < L
    BY <1>5, <1>9, <1>13, <2>1
  <2>3. p \in f[p]
    BY <1>0, <1>12, <2>1, <2>2
  <2>4. p \in 0..(L - 1) /\ p + 1 \in 0..L
    BY <1>0, <2>2
  <2>5. V(p) \in f[p + 1]
    BY <1>4, <1>13, <2>3, <2>4
  <2> QED BY <1>2, <1>9, <2>1, <2>4, <2>5
<1>14. 0 \in Boundaries(d) /\ Boundaries(d) \subseteq Nat
  <2>1. L \in 0..L
    BY <1>0
  <2> QED BY <1>2, <1>9, <2>1
<1> QED
  BY <1>13, <1>14, Zenon DEF V, H

----------------------------------------------------------------------------
(* Where the reader stands.                                                 *)

\* t is st after n more bytes were read, and charged to the innermost list.
Moved(st, t, n) ==
    /\ Len(st.in) = Len(t.in) + n /\ \A i \in 1..Len(t.in) : t.in[i] = st.in[n + i]
    /\ Len(t.stack) = Len(st.stack)
    /\ \A i \in 1..Len(st.stack) :
          /\ t.stack[i].size = st.stack[i].size
          /\ t.stack[i].pos = IF i = Len(st.stack) THEN st.stack[i].pos + n ELSE st.stack[i].pos

\* What is ahead of the reader is the last part of the input, d.
Behind(st, d) ==
    Len(st.in) <= Len(d) /\ \A i \in 1..Len(st.in) : st.in[i] = d[Len(d) - Len(st.in) + i]

\* The contents of the open lists begin at o: the outermost one ends where a value
\* begins, each one begins where reading of the one around it was left, and the reader
\* is in the innermost one.
Begun(st, d, o) ==
    /\ o \in Seq(Nat) /\ Len(o) = Len(st.stack)
    /\ o[1] + st.stack[1].size \in Boundaries(d)
    /\ \A i \in 1..(Len(o) - 1) : o[i + 1] = o[i] + st.stack[i].pos
    /\ Len(d) - Len(st.in) = o[Len(o)] + st.stack[Len(o)].pos

\* Outside of lists, the next value begins after n more bytes.
Placed(st, d, n) ==
    /\ Behind(st, d)
    /\ ~InList(st) => Len(d) - Len(st.in) + n \in Boundaries(d)
    /\ InList(st) => \E o : Begun(st, d, o)

\* So it does after the value that Kind has found ahead.
Stands(st, d) ==
    /\ Placed(st, d, IF st.kind >= 0 THEN st.size ELSE 0)
    /\ st.kind = Byte => st.size = 0

\* Reading within the lists that are open leaves them where they are; outside of lists,
\* the next value begins n bytes after those that were read.
LEMMA MovedPlaced ==
    ASSUME NEW st \in Stream, NEW t \in Stream, NEW d \in Seq(Octet), NEW k, Placed(st, d, k),
           NEW m \in Nat, Moved(st, t, m), NEW n \in Nat,
           ~InList(st) => Len(d) - Len(st.in) + m + n \in Boundaries(d)
    PROVE  Placed(t, d, n)
<1> DEFINE a == Len(st.in)
           b == Len(t.in)
           L == Len(d)
           c == Len(st.stack)
<1>1. a \in Nat /\ b \in Nat /\ L \in Nat /\ c \in Nat /\ \A i \in 1..c : st.stack[i].pos \in Nat
  <2>1. /\ st.in \in Seq(Octet) /\ t.in \in Seq(Octet) /\ st.stack \in Seq([pos : Nat, size : Nat])
    BY StreamParts
  <2>2. c \in Nat /\ \A i \in 1..c : st.stack[i] \in [pos : Nat, size : Nat]
    BY <2>1, SeqFacts, Zenon
  <2>3. a \in Nat /\ b \in Nat /\ L \in Nat
    BY <2>1, SeqFacts, Zenon
  <2> QED BY <2>2, <2>3
<1>2. /\ a = b + m /\ (\A i \in 1..b : t.in[i] = st.in[m + i])
      /\ Len(t.stack) = c
      /\ \A i \in 1..c : /\ t.stack[i].size = st.stack[i].size
                         /\ t.stack[i].pos = IF i = c THEN st.stack[i].pos + m ELSE st.stack[i].pos
  BY DEF Moved
<1>3. a <= L /\ \A i \in 1..a : st.in[i] = d[L - a + i]
  BY Zenon DEF Placed, Behind
<1>4. InList(t) = InList(st)
  BY <1>2, SMTT(30) DEF InList
<1> HIDE DEF a, b, L, c
<1>5. b <= L /\ \A i \in 1..b : t.in[i] = d[L - b + i]
  <2>1. b <= L
    BY <1>1, <1>2, <1>3, SMTT(30)
  <2>2. ASSUME NEW i \in 1..b PROVE t.in[i] = d[L - b + i]
    <3>1. m + i \in 1..a /\ L - a + (m + i) = L - b + i
      BY <1>1, <1>2
    <3>2. t.in[i] = st.in[m + i]
      BY <1>2
    <3>3. st.in[m + i] = d[L - a + (m + i)]
      BY <1>3, <3>1
    <3> QED BY <3>1, <3>2, <3>3, Zenon
  <2> QED BY <2>1, <2>2
<1>6. ASSUME ~InList(t) PROVE L - b + n \in Boundaries(d)
  <2>1. L - a + m + n \in Boundaries(d)
    BY <1>4, <1>6, Zenon DEF a, L
  <2>2. L - a + m + n = L - b + n
    BY <1>1, <1>2
  <2> QED BY <2>1, <2>2, Zenon
<1>7. ASSUME InList(t) PROVE \E o : Begun(t, d, o)
  <2>1. PICK o : Begun(st, d, o)
    BY <1>4, <1>7, Zenon DEF Placed
  <2>2. /\ o \in Seq(Nat) /\ Len(o) = c
        /\ o[1] + st.stack[1].size \in Boundaries(d)
        /\ \A i \in 1..(c - 1) : o[i + 1] = o[i] + st.stack[i].pos
        /\ L - a = o[c] + st.stack[c].pos
    BY <2>1 DEF Begun, a, L, c
  <2>3. c > 0
    BY <1>4, <1>7 DEF InList, c
  <2>4. 1 \in 1..c /\ c \in 1..c
    BY <1>1, <2>3
  <2>5. o[1] + t.stack[1].size \in Boundaries(d)
    <3>1. t.stack[1].size = st.stack[1].size
      BY <1>2, <2>4, Zenon
    <3> QED BY <2>2, <3>1, Zenon
  <2>6. ASSUME NEW i \in 1..(c - 1) PROVE o[i + 1] = o[i] + t.stack[i].pos
    <3>1. i \in 1..c /\ i # c
      BY <1>1
    <3>2. t.stack[i].pos = st.stack[i].pos
      BY <1>2, <3>1, Zenon
    <3> QED BY <2>2, <3>2, Zenon
  <2>7. L - b = o[c] + t.stack[c].pos
    <3>1. t.stack[c].pos = st.stack[c].pos + m
      BY <1>2, <2>4, Zenon
    <3>2. o[c] \in Nat /\ st.stack[c].pos \in Nat
      BY <1>1, <2>2, <2>4, SeqFacts
    <3>3. PICK x \in Nat : x = o[c]
      BY <3>2
    <3>4. PICK y \in Nat : y = st.stack[c].pos
      BY <3>2
    <3>5. L - a = x + y
      BY <2>2, <3>3, <3>4, Zenon
    <3>6. L - b = x + (y + m)
      BY <1>1, <1>2, <3>5
    <3> QED BY <3>1, <3>3, <3>4, <3>6, Zenon
  <2>8. Begun(t, d, o)
    BY <1>2, <2>2, <2>5, <2>6, <2>7, Zenon DEF Begun, b, L
  <2> QED BY <2>8
<1>8. Behind(t, d)
  BY <1>5, Zenon DEF Behind, b, L
<1> QED
  BY <1>6, <1>7, <1>8, Zenon DEF Placed, b, L

\* One read after another.
LEMMA MovedMoved ==
    ASSUME NEW st \in Stream, NEW t \in Stream, NEW u \in Stream, NEW m \in Nat, NEW n \in Nat,
           Moved(st, t, m), Moved(t, u, n)
    PROVE  Moved(st, u, m + n)
<1> DEFINE c == Len(st.stack)
           x == Len(st.in)
           y == Len(t.in)
           z == Len(u.in)
<1>1. x \in Nat /\ y \in Nat /\ z \in Nat /\ c \in Nat /\ \A i \in 1..c : st.stack[i].pos \in Nat
  <2>1. /\ st.in \in Seq(Octet) /\ t.in \in Seq(Octet) /\ u.in \in Seq(Octet)
        /\ st.stack \in Seq([pos : Nat, size : Nat])
    BY StreamParts
  <2>2. c \in Nat /\ \A i \in 1..c : st.stack[i] \in [pos : Nat, size : Nat]
    BY <2>1, SeqFacts, Zenon
  <2>3. x \in Nat /\ y \in Nat /\ z \in Nat
    BY <2>1, SeqFacts, Zenon
  <2> QED BY <2>2, <2>3
<1>2. /\ x = y + m /\ (\A i \in 1..y : t.in[i] = st.in[m + i])
      /\ Len(t.stack) = c
      /\ \A i \in 1..c : /\ t.stack[i].size = st.stack[i].size
                         /\ t.stack[i].pos = IF i = c THEN st.stack[i].pos + m ELSE st.stack[i].pos
  BY SMTT(30) DEF Moved
<1>3. /\ y = z + n /\ (\A i \in 1..z : u.in[i] = t.in[n + i])
      /\ Len(u.stack) = c
      /\ \A i \in 1..c : /\ u.stack[i].size = t.stack[i].size
                         /\ u.stack[i].pos = IF i = c THEN t.stack[i].pos + n ELSE t.stack[i].pos
  BY <1>2, SMTT(30) DEF Moved
<1> HIDE DEF c, x, y, z
<1>4. x = z + (m + n)
  BY <1>1, <1>2, <1>3
<1>5. ASSUME NEW i \in 1..z PROVE u.in[i] = st.in[(m + n) + i]
  <2>1. n + i \in 1..y /\ m + (n + i) = (m + n) + i
    BY <1>1, <1>3, SMTT(30)
  <2>2. u.in[i] = t.in[n + i]
    BY <1>3, SMTT(30)
  <2>3. t.in[n + i] = st.in[m + (n + i)]
    BY <1>2, <2>1
  <2> QED BY <2>1, <2>2, <2>3, Zenon
<1>6. ASSUME NEW i \in 1..c
      PROVE  /\ u.stack[i].size = st.stack[i].size
             /\ u.stack[i].pos = IF i = c THEN st.stack[i].pos + (m + n) ELSE st.stack[i].pos
  <2>1. u.stack[i].size = st.stack[i].size
    BY <1>2, <1>3, Zenon
  <2>2. CASE i = c
    <3>1. PICK p \in Nat : p = st.stack[i].pos
      BY <1>1
    <3>2. t.stack[i].pos = p + m
      BY <1>2, <2>2, <3>1, Zenon
    <3>3. u.stack[i].pos = (p + m) + n
      BY <1>3, <2>2, <3>2, Zenon
    <3>4. (p + m) + n = p + (m + n)
      OBVIOUS
    <3> QED BY <2>1, <2>2, <3>1, <3>3, <3>4, Zenon
  <2>3. CASE i # c
    BY <1>2, <1>3, <2>1, <2>3, Zenon
  <2> QED BY <2>2, <2>3, Zenon
<1> QED
  BY <1>3, <1>4, <1>5, <1>6, Zenon DEF Moved, c, x, z

\* An operation that has no error.
Clean(r) == r.err = ""

\* The last of a sequence.
LEMMA SuffixOK ==
    ASSUME NEW S, NEW q \in Seq(S), NEW n \in Nat, n <= Len(q)
    PROVE  LET x == SubSeq(q, n + 1, Len(q))
           IN  Len(q) = Len(x) + n /\ \A i \in 1..Len(x) : x[i] = q[n + i]
<1> DEFINE L == Len(q)
           x == SubSeq(q, n + 1, L)
<1>1. L \in Nat /\ n <= L
  BY SMTT(30)
<1>2. Len(x) = L - n /\ \A i \in 1..(L - n) : x[i] = q[n + i]
  BY <1>1, SMTT(30)
<1> HIDE DEF x, L
<1>3. Len(q) = Len(x) + n /\ \A i \in 1..Len(x) : x[i] = q[n + i]
  BY <1>1, <1>2, SMTT(30) DEF L
<1> QED BY <1>3 DEF x, L

\* willRead charges the innermost list with what it lets through.
LEMMA WillReadMoves ==
    ASSUME NEW st \in Stream, NEW n \in Nat, Clean(willRead(st, n))
    PROVE  LET t == willRead(st, n).s
           IN  /\ t.in = st.in /\ Len(t.stack) = Len(st.stack)
               /\ \A i \in 1..Len(st.stack) :
                     /\ t.stack[i].size = st.stack[i].size
                     /\ t.stack[i].pos = IF i = Len(st.stack) THEN st.stack[i].pos + n ELSE st.stack[i].pos
<1> DEFINE t == [st EXCEPT !.kind = -1]
           c == Charge(t, n)
           d == [c EXCEPT !.remaining = IF st.limited THEN @ - n ELSE @]
           r == willRead(st, n)
<1>1. t \in Stream /\ t.in = st.in /\ t.stack = st.stack
  BY RearmedOK
<1>2. /\ c \in Stream /\ c.in = st.in /\ Len(c.stack) = Len(st.stack)
      /\ \A i \in 1..Len(st.stack) :
            /\ c.stack[i].size = st.stack[i].size
            /\ c.stack[i].pos = IF i = Len(st.stack) THEN st.stack[i].pos + n ELSE st.stack[i].pos
  <2> HIDE DEF t
  <2> QED BY <1>1, ChargeOK, SMTT(30)
<1>3. r = IF InList(st) /\ n > Left(st) THEN Fail(t, "ElemTooLarge")
          ELSE IF st.limited /\ n > st.remaining THEN Fail(c, "ValueTooLarge")
          ELSE Ok(d, <<>>)
  BY DEF willRead
<1>4. Fail(t, "ElemTooLarge").err # "" /\ Fail(c, "ValueTooLarge").err # ""
  BY DEF Fail
<1>5. d.in = c.in /\ d.stack = c.stack
  <2> HIDE DEF c
  <2> QED BY <1>2 DEF Stream
<1> HIDE DEF t, c, d, r
<1>6. r.err = ""
  BY Zenon DEF r, Clean
<1>7. r = Ok(d, <<>>)
  BY <1>3, <1>4, <1>6, Zenon
<1>8. r.s = d
  BY <1>7, Zenon DEF Ok
<1> QED
  BY <1>2, <1>5, <1>8, Zenon DEF r

\* readFull reads what it was asked for.
LEMMA ReadFullMoves ==
    ASSUME NEW st, NEW b, StreamOK(st, b), NEW n \in Nat, Clean(readFull(st, n))
    PROVE  LET r == readFull(st, n)
           IN  n <= Len(st.in) /\ Moved(st, r.s, n) /\ r.v = SubSeq(st.in, 1, n)
<1> DEFINE r == readFull(st, n)
           w == willRead(st, n)
           got == IF n > Len(st.in) THEN Len(st.in) ELSE n
           x == SubSeq(w.s.in, got + 1, Len(w.s.in))
           t == [w.s EXCEPT !.in = x]
<1>1. st \in Stream /\ StreamOK(w.s, b)
  <2>1. Kept(st, b, w)
    BY WillReadOK
  <2> HIDE DEF w
  <2> QED BY <2>1, Zenon DEF StreamOK, Kept
<1>2. w.s \in Stream /\ st.in \in Seq(Octet) /\ Len(st.in) \in Nat
  <2>1. w.s \in Stream /\ st.in \in Seq(Octet)
    BY <1>1, StreamParts, Zenon DEF StreamOK
  <2> QED BY <2>1, SeqFacts, Zenon
<1>3. r = IF w.err # "" THEN w
          ELSE IF got < n THEN Fail(t, "UnexpectedEOF")
          ELSE Ok(t, SubSeq(st.in, 1, n))
  BY Zenon DEF readFull, Taken
<1>4. Fail(t, "UnexpectedEOF").err # ""
  BY DEF Fail
<1>5. t.in = x /\ t.stack = w.s.stack
  <2> HIDE DEF w, x
  <2> QED BY <1>2, Zenon DEF Stream
<1>6. w.err = "" => /\ w.s.in = st.in /\ Len(w.s.stack) = Len(st.stack)
                    /\ \A i \in 1..Len(st.stack) :
                          /\ w.s.stack[i].size = st.stack[i].size
                          /\ w.s.stack[i].pos = IF i = Len(st.stack) THEN st.stack[i].pos + n
                                                ELSE st.stack[i].pos
  BY <1>1, WillReadMoves, Zenon DEF Clean
<1>7. r.err = ""
  BY Zenon DEF Clean
<1> HIDE DEF w, r, t
<1>8. w.err = "" /\ ~(got < n) /\ r = Ok(t, SubSeq(st.in, 1, n))
  <2> HIDE DEF got
  <2> QED BY <1>3, <1>4, <1>7, Zenon
<1>9. r.s = t /\ r.v = SubSeq(st.in, 1, n)
  BY <1>8, Zenon DEF Ok
<1>10. got = n /\ n <= Len(st.in)
  <2> HIDE DEF x
  <2>1. ~(got < n)
    BY <1>8, Zenon
  <2> QED BY <1>2, <2>1
<1>11. x = SubSeq(st.in, n + 1, Len(st.in))
  BY <1>6, <1>8, <1>10, Zenon
<1> HIDE DEF x, got
<1>12. Len(st.in) = Len(x) + n /\ \A i \in 1..Len(x) : x[i] = st.in[n + i]
  BY <1>2, <1>10, <1>11, SuffixOK, Zenon
<1>13. Moved(st, t, n)
  BY <1>5, <1>6, <1>8, <1>12, Zenon DEF Moved
<1> QED
  BY <1>9, <1>10, <1>13, Zenon DEF r

\* A read of nothing.
LEMMA MovedNot ==
    ASSUME NEW st \in Stream, NEW t, t.in = st.in, t.stack = st.stack
    PROVE  Moved(st, t, 0)
<1>1. st.in \in Seq(Octet) /\ st.stack \in Seq([pos : Nat, size : Nat])
  BY StreamParts
<1>2. Len(st.in) \in Nat /\ Len(st.stack) \in Nat
      /\ \A i \in 1..Len(st.stack) : st.stack[i] \in [pos : Nat, size : Nat]
  BY <1>1, SeqFacts, Zenon
<1>3. Len(st.in) = Len(st.in) + 0 /\ \A i \in 1..Len(st.in) : st.in[i] = st.in[0 + i]
  BY <1>2
<1>4. \A i \in 1..Len(st.stack) : st.stack[i].pos \in Nat
  BY <1>2
<1>5. \A x \in Nat : x + 0 = x
  OBVIOUS
<1> QED
  BY <1>3, <1>4, <1>5, Zenon DEF Moved

\* So does readUint.
LEMMA ReadUintMoves ==
    ASSUME NEW st, NEW b, StreamOK(st, b), NEW n \in Nat, Clean(readUint(st, n))
    PROVE  LET r == readUint(st, n)
           IN  n <= Len(st.in) /\ Moved(st, r.s, n) /\ (n > 0 => r.v = Number(SubSeq(st.in, 1, n)))
<1> DEFINE r == readUint(st, n)
           f == readFull(st, n)
           t == [st EXCEPT !.kind = -1]
<1>1. f.err = "" => n <= Len(st.in) /\ Moved(st, f.s, n) /\ f.v = SubSeq(st.in, 1, n)
  BY ReadFullMoves, Zenon DEF Clean
<1>2. r = IF n = 0 THEN Ok(t, 0)
          ELSE IF f.err # "" THEN f
          ELSE IF n > 1 /\ f.v[1] = 0 THEN Fail(f.s, "CanonSize")
          ELSE Ok(f.s, Number(f.v))
  BY Zenon DEF readUint, UintOf
<1>3. r.err = "" /\ Fail(f.s, "CanonSize").err # ""
  <2>1. Fail(f.s, "CanonSize").err # ""
    BY DEF Fail
  <2> QED BY <2>1, Zenon DEF Clean
<1>4. st \in Stream
  BY DEF StreamOK
<1>5. t.in = st.in /\ t.stack = st.stack
  BY <1>4, RearmedOK
<1> HIDE DEF r, f, t
<1>6. CASE n = 0
  <2>1. r.s = t
    BY <1>2, <1>6, Zenon DEF Ok
  <2>2. Moved(st, t, n)
    BY <1>4, <1>5, <1>6, MovedNot, Zenon
  <2>3. Len(st.in) \in Nat
    BY <1>4, StreamParts, SeqFacts
  <2>4. n <= Len(st.in) /\ ~(n > 0)
    BY <1>6, <2>3
  <2> QED BY <2>1, <2>2, <2>4, Zenon DEF r
<1>7. CASE n # 0
  <2>1. f.err = "" /\ r = Ok(f.s, Number(f.v))
    BY <1>2, <1>3, <1>7, Zenon
  <2>2. r.s = f.s /\ r.v = Number(f.v)
    BY <2>1, Zenon DEF Ok
  <2> QED BY <1>1, <2>1, <2>2, Zenon DEF r
<1> QED
  BY <1>6, <1>7, Zenon

----------------------------------------------------------------------------
(* What Kind finds.                                                         *)

\* The kind is known, without an error.
Sure(k) == k.kinderr = ""

\* What Found leaves alone, and what it sets.
Noted(k, st, kind, n, err) ==
    k.in = st.in /\ k.stack = st.stack /\ k.kind = kind /\ k.size = n /\ k.kinderr = err

\* That is what Found does.
LEMMA FoundParts ==
    ASSUME NEW st \in Stream, NEW kind, NEW n, NEW err
    PROVE  Noted(Found(st, kind, n, err), st, kind, n, err)
BY Zenon DEF Found, Stream, Noted

\* How far the reader has come shows in what is ahead of it and in its lists.
LEMMA SameMoved ==
    ASSUME NEW st, NEW t, NEW u, NEW n, Moved(st, t, n), u.in = t.in, u.stack = t.stack
    PROVE  Moved(st, u, n)
BY Zenon DEF Moved

\* The same bytes, from where the reader stood and from where it stands.
LEMMA SameBytes ==
    ASSUME NEW q \in Seq(Octet), NEW p \in Seq(Octet), NEW k \in Nat, NEW m \in Nat, NEW n \in Nat,
           Len(q) = Len(p) + k, \A i \in 1..Len(p) : p[i] = q[k + i], 1 <= m, n <= Len(p), m <= n + 1
    PROVE  SubSeq(p, m, n) = SubSeq(q, k + m, k + n)
<1> DEFINE a == SubSeq(p, m, n)
           b == SubSeq(q, k + m, k + n)
<1>1. Len(p) \in Nat /\ Len(q) \in Nat
  BY SeqFacts
<1>2. a \in Seq(Octet) /\ Len(a) = n - m + 1 /\ \A i \in 1..(n - m + 1) : a[i] = p[m + i - 1]
  BY <1>1
<1>3. b \in Seq(Octet) /\ Len(b) = n - m + 1 /\ \A i \in 1..(n - m + 1) : b[i] = q[k + m + i - 1]
  BY <1>1
<1> HIDE DEF a, b
<1>4. ASSUME NEW i \in 1..(n - m + 1) PROVE a[i] = b[i]
  <2>1. m + i - 1 \in 1..Len(p) /\ k + (m + i - 1) = k + m + i - 1
    BY <1>1
  <2>2. p[m + i - 1] = q[k + (m + i - 1)]
    BY <2>1
  <2> QED BY <1>2, <1>3, <2>1, <2>2, Zenon
<1>5. a = b
  BY <1>2, <1>3, <1>4, SMTT(30)
<1> QED
  BY <1>5 DEF a, b

\* readKind: the size that follows a tag.
LEMMA LongMoves ==
    ASSUME NEW st, NEW b, NEW t, StreamOK(st, b), StreamOK(t, b), Moved(st, t, 1),
           NEW kind \in {1, 2}, NEW m \in Nat, m > 0, Sure(Long(kind, readUint(t, m)))
    PROVE  LET k == Long(kind, readUint(t, m))
           IN  /\ m < Len(st.in) /\ Moved(st, k, 1 + m) /\ k.kind = kind
               /\ k.size = Number(SubSeq(st.in, 2, 1 + m))
<1> DEFINE r == readUint(t, m)
           k == Long(kind, r)
           err == IF r.v < 56 THEN "CanonSize" ELSE ""
<1>1. st \in Stream /\ t \in Stream
  BY DEF StreamOK
<1>2. st.in \in Seq(Octet) /\ t.in \in Seq(Octet) /\ Len(st.in) \in Nat /\ Len(t.in) \in Nat
  <2>1. st.in \in Seq(Octet) /\ t.in \in Seq(Octet)
    BY <1>1, StreamParts
  <2> QED BY <2>1, SeqFacts
<1>3. r.s \in Stream
  <2>1. Kept(t, b, r)
    BY ReadUintOK, Zenon
  <2> HIDE DEF r
  <2> QED BY <2>1, Zenon DEF Kept, StreamOK
<1>4. k = IF r.err # "" THEN Found(r.s, kind, 0, r.err) ELSE Found(r.s, kind, r.v, err)
  BY Zenon DEF Long
<1>5. r.err = "" => m <= Len(t.in) /\ Moved(t, r.s, m) /\ (m > 0 => r.v = Number(SubSeq(t.in, 1, m)))
  BY ReadUintMoves, Zenon DEF Clean
<1>6. k.kinderr = ""
  BY Zenon DEF Sure
<1> HIDE DEF r, k, err
<1>7. r.err = ""
  <2> SUFFICES ASSUME r.err # "" PROVE FALSE
    BY Zenon
  <2>1. k = Found(r.s, kind, 0, r.err)
    BY <1>4, Zenon
  <2>2. Noted(k, r.s, kind, 0, r.err)
    BY <1>3, <2>1, FoundParts, Zenon
  <2>3. k.kinderr = r.err
    BY <2>2, Zenon DEF Noted
  <2> QED BY <1>6, <2>3, Zenon
<1>8. k.in = r.s.in /\ k.stack = r.s.stack /\ k.kind = kind /\ k.size = r.v
  <2>1. k = Found(r.s, kind, r.v, err)
    BY <1>4, <1>7, Zenon
  <2>2. Noted(k, r.s, kind, r.v, err)
    BY <1>3, <2>1, FoundParts
  <2> QED BY <2>2, Zenon DEF Noted
<1>9. m <= Len(t.in) /\ Moved(t, r.s, m) /\ r.v = Number(SubSeq(t.in, 1, m))
  BY <1>5, <1>7, Zenon
<1>10. Len(st.in) = Len(t.in) + 1 /\ \A i \in 1..Len(t.in) : t.in[i] = st.in[1 + i]
  BY DEF Moved
<1>11. SubSeq(t.in, 1, m) = SubSeq(st.in, 2, 1 + m)
  <2>1. 1 \in Nat /\ 1 <= 1 /\ 1 <= m + 1 /\ 1 + 1 = 2
    BY SMTT(30)
  <2>2. SubSeq(t.in, 1, m) = SubSeq(st.in, 1 + 1, 1 + m)
    BY <1>2, <1>9, <1>10, <2>1, SameBytes
  <2> QED BY <2>1, <2>2, Zenon
<1>12. Moved(st, r.s, 1 + m)
  <2>1. 1 \in Nat
    OBVIOUS
  <2> QED BY <1>1, <1>3, <1>9, <2>1, MovedMoved, Zenon
<1>13. Moved(st, k, 1 + m)
  BY <1>8, <1>12, SameMoved, Zenon
<1>14. m < Len(st.in)
  BY <1>2, <1>9, <1>10
<1> QED
  BY <1>8, <1>9, <1>11, <1>13, <1>14, Zenon DEF k, r

\* k is st with the header that is ahead of it read.
HeadRead(st, k) ==
    /\ HasHeader(st.in, 0) /\ Moved(st, k, 1 + SizeLen(st.in, 0))
    /\ k.size = ValueSize(st.in, 0)
    /\ k.kind = Byte => k.size = 0

\* readKind reads just the header.
LEMMA ReadKindMoves ==
    ASSUME NEW st, NEW b, StreamOK(st, b), Sure(readKind(st))
    PROVE  HeadRead(st, readKind(st))
<1> DEFINE r == readFull(st, 1)
           x == r.v[1]
           v == IF x < 128 THEN x ELSE 0
           t == [r.s EXCEPT !.byteval = v]
           q == Ok(t, <<>>)
           k == readKind(st)
           d == st.in
<1>0. k = IF r.err # "" THEN Found(r.s, 0, 0, TagErr(st, r.err))
          ELSE IF x < 128 THEN Found(t, 0, 0, "")
          ELSE IF x < 184 THEN Found(t, 1, x - 128, "")
          ELSE IF x < 192 THEN Long(1, readUint(t, x - 183))
          ELSE IF x < 248 THEN Found(t, 2, x - 192, "")
          ELSE Long(2, readUint(t, x - 247))
  BY Zenon DEF readKind, Tagged, Byte, String, List
<1>1. Kept(st, b, r) /\ r.s.kind = -1 /\ (r.err = "" => r.v \in Seq(Octet) /\ Len(r.v) = 1)
  <2>1. 1 \in Nat
    OBVIOUS
  <2> QED BY <2>1, ReadFullOK, Zenon
<1>2. r.err = "" => 1 <= Len(d) /\ Moved(st, r.s, 1) /\ r.v = SubSeq(d, 1, 1)
  <2>1. 1 \in Nat
    OBVIOUS
  <2> QED BY <2>1, ReadFullMoves, Zenon DEF Clean
<1>3. st \in Stream /\ d \in Seq(Octet) /\ Len(d) \in Nat
  <2>1. st \in Stream
    BY DEF StreamOK
  <2> QED BY <2>1, StreamParts, SeqFacts
<1>4. k.kinderr = ""
  BY Zenon DEF Sure
<1> HIDE DEF r, k
<1>5. r.s \in Stream
  BY <1>1, Zenon DEF Kept, StreamOK
<1>6. r.err = ""
  <2> SUFFICES ASSUME r.err # "" PROVE FALSE
    BY Zenon
  <2> HIDE DEF x, t
  <2>1. k = Found(r.s, 0, 0, TagErr(st, r.err))
    BY <1>0, Zenon
  <2>2. Noted(k, r.s, 0, 0, TagErr(st, r.err))
    BY <1>5, <2>1, FoundParts, Zenon
  <2>3. "EOF" # ""
    BY Zenon
  <2>4. TagErr(st, r.err) # ""
    BY <2>3, Zenon DEF TagErr
  <2> QED BY <1>4, <2>2, <2>4, Zenon DEF Noted
<1>7. r.v \in Seq(Octet) /\ Len(r.v) = 1 /\ 1 <= Len(d) /\ Moved(st, r.s, 1) /\ r.v = SubSeq(d, 1, 1)
  BY <1>1, <1>2, <1>6, Zenon
<1>8. x \in Octet /\ x = d[0 + 1]
  <2>1. 1 \in 1..Len(r.v) /\ 1 \in 1..1 /\ 1 \in Nat /\ 0 + 1 = 1
    BY <1>7
  <2>2. x \in Octet
    BY <1>7, <2>1, SeqFacts, Zenon
  <2>3. x = d[1]
    <3> HIDE DEF d
    <3>1. \A i \in 1..1 : SubSeq(d, 1, 1)[i] = d[i]
      BY <1>3, <1>7, <2>1, PrefixOK
    <3>2. SubSeq(d, 1, 1)[1] = d[1]
      BY <2>1, <3>1, Zenon
    <3>3. r.v = SubSeq(d, 1, 1)
      BY <1>7, Zenon
    <3> QED BY <3>2, <3>3, Zenon
  <2> QED BY <2>1, <2>2, <2>3, Zenon
<1>9. x \in Nat /\ x <= 255
  <2>1. \A y \in Octet : y \in Nat /\ y <= 255
    BY DEF Octet
  <2> QED BY <1>8, <2>1, Zenon
<1>10. v \in Octet
  <2> HIDE DEF x
  <2> QED BY <1>9 DEF Octet
<1>11. StreamOK(t, b) /\ t \in Stream
  <2> HIDE DEF v
  <2>1. Kept(st, b, q)
    BY <1>1, <1>10, BytevalOK, Zenon
  <2>2. q.s = t
    BY DEF Ok
  <2> HIDE DEF q, t
  <2> QED BY <2>1, <2>2, Zenon DEF Kept, StreamOK
<1>12. t.in = r.s.in /\ t.stack = r.s.stack
  <2> HIDE DEF v
  <2> QED BY <1>5 DEF Stream
<1> HIDE DEF x, v, t, q, d
<1>13. Moved(st, t, 1)
  BY <1>7, <1>12, SameMoved, Zenon
<1> DEFINE m == SizeLen(d, 0)
           z == Number(SubSeq(d, 0 + 2, 0 + 1 + m))
<1>14. m = IF x >= 248 THEN x - 247 ELSE IF x \in 184..191 THEN x - 183 ELSE 0
  BY <1>8, ZenonT(60) DEF SizeLen
<1>15. ValueSize(d, 0) = IF x < 128 THEN 0 ELSE IF m > 0 THEN z ELSE IF x < 192 THEN x - 128 ELSE x - 192
  <2>1. ValueSize(d, 0) = IF d[0 + 1] < 128 THEN 0 ELSE IF m > 0 THEN z
                          ELSE IF d[0 + 1] < 192 THEN d[0 + 1] - 128 ELSE d[0 + 1] - 192
    BY Zenon DEF ValueSize
  <2> HIDE DEF m, z
  <2> QED BY <1>8, <2>1, SMTT(30)
<1>16. HasHeader(d, 0) = (0 < Len(d) /\ 0 + m < Len(d))
  BY Zenon DEF HasHeader
<1> HIDE DEF m
<1>17. 0 + m = m /\ 0 + 2 = 2 /\ 0 + 1 + m = 1 + m /\ m \in Nat
  BY <1>9, <1>14
<1>18. z = Number(SubSeq(d, 2, 1 + m))
  BY <1>17, Zenon
<1> HIDE DEF z
\* A tag that is the header.
<1>19. ASSUME m = 0, NEW kind \in {0, 1, 2}, NEW n, n = ValueSize(d, 0), kind = 0 => n = 0,
              k = Found(t, kind, n, "")
       PROVE  HeadRead(st, k)
  <2>1. Noted(k, t, kind, n, "")
    BY <1>11, <1>19, FoundParts, Zenon
  <2>2. k.in = t.in /\ k.stack = t.stack /\ k.kind = kind /\ k.size = n
    BY <2>1, Zenon DEF Noted
  <2>3. Moved(st, k, 1)
    BY <1>13, <2>2, SameMoved, Zenon
  <2>4. 0 < Len(d) /\ 0 + m < Len(d) /\ 1 + m = 1
    <3>1. 1 <= Len(d) /\ Len(d) \in Nat /\ m = 0
      BY <1>3, <1>7, <1>19, Zenon
    <3> QED BY <3>1
  <2> QED BY <1>16, <1>19, <2>2, <2>3, <2>4, Zenon DEF HeadRead, Byte, d, m
\* A tag that the size follows.
<1>20. ASSUME m > 0, ValueSize(d, 0) = z, NEW kind \in {1, 2}, k = Long(kind, readUint(t, m))
       PROVE  HeadRead(st, k)
  <2>1. Sure(Long(kind, readUint(t, m)))
    BY <1>4, <1>20, Zenon DEF Sure
  <2>2. /\ m < Len(d) /\ Moved(st, k, 1 + m) /\ k.kind = kind
        /\ k.size = Number(SubSeq(d, 2, 1 + m))
    <3>1. /\ m < Len(st.in) /\ Moved(st, Long(kind, readUint(t, m)), 1 + m)
          /\ Long(kind, readUint(t, m)).kind = kind
          /\ Long(kind, readUint(t, m)).size = Number(SubSeq(st.in, 2, 1 + m))
      BY <1>11, <1>13, <1>17, <1>20, <2>1, LongMoves
    <3> QED BY <1>20, <3>1, Zenon DEF d
  <2>3. kind # 0
    BY <1>20
  <2>4. 0 < Len(d) /\ 0 + m < Len(d)
    BY <1>3, <1>17, <1>20, <2>2 DEF d
  <2> QED BY <1>16, <1>18, <1>20, <2>2, <2>3, <2>4, Zenon DEF HeadRead, Byte, d, m
<1> SUFFICES HeadRead(st, k)
  BY Zenon DEF k
<1>21. CASE x < 128
  <2>1. k = Found(t, 0, 0, "")
    BY <1>0, <1>6, <1>21, Zenon
  <2>2. m = 0 /\ 0 = ValueSize(d, 0) /\ 0 \in {0, 1, 2}
    BY <1>9, <1>14, <1>15, <1>21
  <2> QED BY <1>19, <2>1, <2>2, Zenon
<1>22. CASE ~(x < 128) /\ x < 184
  <2>1. k = Found(t, 1, x - 128, "")
    BY <1>0, <1>6, <1>22, Zenon
  <2>2. m = 0 /\ x - 128 = ValueSize(d, 0) /\ 1 \in {0, 1, 2} /\ 1 # 0
    BY <1>9, <1>14, <1>15, <1>22
  <2> QED BY <1>19, <2>1, <2>2, Zenon
<1>23. CASE ~(x < 128) /\ ~(x < 184) /\ x < 192
  <2>1. k = Long(1, readUint(t, x - 183))
    BY <1>0, <1>6, <1>23, Zenon
  <2>2. m = x - 183 /\ m > 0 /\ z = ValueSize(d, 0) /\ 1 \in {1, 2}
    BY <1>9, <1>14, <1>15, <1>23
  <2> QED BY <1>20, <2>1, <2>2, Zenon
<1>24. CASE ~(x < 128) /\ ~(x < 184) /\ ~(x < 192) /\ x < 248
  <2>1. k = Found(t, 2, x - 192, "")
    BY <1>0, <1>6, <1>24, Zenon
  <2>2. m = 0 /\ x - 192 = ValueSize(d, 0) /\ 2 \in {0, 1, 2} /\ 2 # 0
    BY <1>9, <1>14, <1>15, <1>24
  <2> QED BY <1>19, <2>1, <2>2, Zenon
<1>25. CASE ~(x < 128) /\ ~(x < 184) /\ ~(x < 192) /\ ~(x < 248)
  <2>1. k = Long(2, readUint(t, x - 247))
    BY <1>0, <1>6, <1>25, Zenon
  <2>2. m = x - 247 /\ m > 0 /\ z = ValueSize(d, 0) /\ 2 \in {1, 2}
    BY <1>9, <1>14, <1>15, <1>25
  <2> QED BY <1>20, <2>1, <2>2, Zenon
<1> QED
  BY <1>21, <1>22, <1>23, <1>24, <1>25, Zenon

\* The header ahead of the reader is the one at its place in the input.
LEMMA HeaderThere ==
    ASSUME NEW q \in Seq(Octet), NEW d \in Seq(Octet), NEW p \in Nat, Len(d) = Len(q) + p,
           \A i \in 1..Len(q) : q[i] = d[p + i], HasHeader(q, 0)
    PROVE  HasHeader(d, p) /\ SizeLen(d, p) = SizeLen(q, 0) /\ ValueSize(d, p) = ValueSize(q, 0)
<1> DEFINE x == q[0 + 1]
           m == SizeLen(q, 0)
           z == SubSeq(q, 0 + 2, 0 + 1 + m)
           y == SubSeq(d, p + 2, p + 1 + m)
<1>1. Len(q) \in Nat /\ Len(d) \in Nat /\ 0 \in Nat
  BY SeqFacts
<1>2. m \in Nat
  BY <1>1, HeaderOK, Zenon
<1>3. 0 < Len(q) /\ 0 + m < Len(q)
  BY DEF HasHeader
<1>4. d[p + 1] = x
  <2>1. 0 + 1 = 1 /\ 1 \in 1..Len(q)
    BY <1>1, <1>3
  <2>2. q[1] = d[p + 1]
    BY <2>1
  <2> QED BY <2>1, <2>2, Zenon
<1>5. SizeLen(d, p) = m
  BY <1>4, ZenonT(60) DEF SizeLen
<1>6. HasHeader(d, p) = (p < Len(d) /\ p + m < Len(d))
  BY <1>5, Zenon DEF HasHeader
<1> DEFINE V(c, l, w) == IF c < 128 THEN 0 ELSE IF l > 0 THEN Number(w)
                         ELSE IF c < 192 THEN c - 128 ELSE c - 192
<1>7. /\ ValueSize(d, p) = V(d[p + 1], SizeLen(d, p), SubSeq(d, p + 2, p + 1 + SizeLen(d, p)))
      /\ ValueSize(q, 0) = V(x, m, z)
  BY Zenon DEF ValueSize
<1> HIDE DEF m, V
<1>8. ValueSize(d, p) = V(x, m, y)
  BY <1>4, <1>5, <1>7, Zenon
<1>9. z = y
  <2>1. 0 + 2 = 2 /\ 2 \in Nat /\ 1 <= 2
    OBVIOUS
  <2>2. PICK n \in Nat : n = 0 + 1 + m /\ n <= Len(q) /\ 2 <= n + 1 /\ p + 1 + m = p + n
    BY <1>1, <1>2, <1>3
  <2>3. SubSeq(q, 2, n) = SubSeq(d, p + 2, p + n)
    BY <2>1, <2>2, SameBytes, SMTT(30)
  <2> QED BY <2>1, <2>2, <2>3, Zenon
<1> HIDE DEF x, y, z
<1>10. p < Len(d) /\ p + m < Len(d)
  BY <1>1, <1>2, <1>3
<1>11. ValueSize(d, p) = ValueSize(q, 0)
  BY <1>7, <1>8, <1>9, Zenon
<1> QED
  BY <1>5, <1>6, <1>10, <1>11, Zenon DEF m

\* After a header that is read outside of lists, the value begins that ends where the
\* next one begins.
LEMMA HeadPlaced ==
    ASSUME NEW st \in Stream, NEW k \in Stream, NEW d \in Seq(Octet), Placed(st, d, 0), HeadRead(st, k)
    PROVE  Placed(k, d, k.size)
<1> DEFINE q == st.in
           p == Len(d) - Len(q)
           m == 1 + SizeLen(q, 0)
           n == k.size
<1>1. q \in Seq(Octet) /\ Len(q) \in Nat /\ Len(d) \in Nat /\ n \in Nat
  <2>1. q \in Seq(Octet) /\ n \in Nat
    BY StreamParts
  <2> QED BY <2>1, SeqFacts
<1>2. Len(q) <= Len(d) /\ \A i \in 1..Len(q) : q[i] = d[p + i]
  BY Zenon DEF Placed, Behind
<1>3. HasHeader(q, 0) /\ Moved(st, k, m) /\ n = ValueSize(q, 0)
  BY Zenon DEF HeadRead
<1> HIDE DEF q, n
<1>4. p \in Nat /\ Len(d) = Len(q) + p
  BY <1>1, <1>2
<1>5. ~InList(st) => p + 0 \in Boundaries(d)
  BY Zenon DEF Placed, q
<1> HIDE DEF p
<1>6. HasHeader(d, p) /\ SizeLen(d, p) = SizeLen(q, 0) /\ ValueSize(d, p) = n
  BY <1>1, <1>2, <1>3, <1>4, HeaderThere, SMTT(30)
<1>7. SizeLen(q, 0) \in Nat
  <2>1. 0 \in Nat
    OBVIOUS
  <2> QED BY <1>1, <1>3, <2>1, HeaderOK, SMTT(30)
<1>8. m \in Nat
  BY <1>7
<1>9. ~InList(st) => p + m + n \in Boundaries(d)
  <2> HAVE ~InList(st)
  <2>1. p + 0 = p
    BY <1>4
  <2>2. p \in Boundaries(d)
    BY <1>5, <2>1, Zenon
  <2>3. ValueEnd(d, p) \in Boundaries(d)
    BY <1>6, <2>2, BoundaryNext, Zenon
  <2>4. ValueEnd(d, p) = p + 1 + SizeLen(q, 0) + n
    BY <1>6, Zenon DEF ValueEnd
  <2>5. p + 1 + SizeLen(q, 0) + n = p + m + n
    BY <1>1, <1>4, <1>7
  <2> QED BY <2>3, <2>4, <2>5, Zenon
<1> HIDE DEF m
<1>10. ~InList(st) => Len(d) - Len(st.in) + m + n \in Boundaries(d)
  BY <1>9, Zenon DEF p, q
<1>11. Placed(k, d, n)
  BY <1>1, <1>3, <1>8, <1>10, MovedPlaced, Zenon
<1> QED
  BY <1>11 DEF n

\* Kind leaves the reader before the contents of the value it has found.
LEMMA KindStands ==
    ASSUME NEW st, NEW b, StreamOK(st, b), NEW d \in Seq(Octet), Stands(st, d), Clean(Kind(st))
    PROVE  Stands(Kind(st).s, d) /\ Kind(st).s.kind \in {0, 1, 2}
<1> DEFINE r == Kind(st)
           k == readKind(st)
           e == IF InList(st) THEN "ElemTooLarge" ELSE "ValueTooLarge"
           u == [k EXCEPT !.kinderr = e]
           t == IF k.kinderr = "" /\ ~Fits(k) THEN u ELSE k
           z == [st EXCEPT !.kinderr = ""]
<1>0. r = IF st.kind >= 0 THEN [s |-> st, err |-> st.kinderr, v |-> <<>>]
          ELSE IF InList(st) /\ Left(st) = 0 THEN Fail(z, "EOL")
          ELSE [s |-> t, err |-> t.kinderr, v |-> <<>>]
  BY Zenon DEF Kind, Known, Fitted
<1>1. Looked(st, b, k)
  BY ReadKindOK
<1>2. r.s.kind \in {0, 1, 2}
  BY KindOK, Zenon DEF Clean
<1>3. st \in Stream
  BY DEF StreamOK
<1>4. r.err = ""
  BY Zenon DEF Clean
<1>5. Sure(k) => HeadRead(st, k)
  BY ReadKindMoves
<1> HIDE DEF r, k
<1>6. k \in Stream /\ k.kind \in {0, 1, 2}
  BY <1>1, Zenon DEF Looked
<1>7. CASE st.kind >= 0
  <2>1. r.s = st
    BY <1>0, <1>7, Zenon
  <2> QED BY <1>2, <2>1, Zenon DEF r
<1>8. CASE ~(st.kind >= 0) /\ InList(st) /\ Left(st) = 0
  <2> HIDE DEF z
  <2>1. r = Fail(z, "EOL")
    BY <1>0, <1>8, Zenon
  <2>2. Fail(z, "EOL").err # ""
    BY DEF Fail
  <2> QED BY <1>4, <2>1, <2>2, Zenon
<1>9. CASE ~(st.kind >= 0) /\ ~(InList(st) /\ Left(st) = 0)
  <2>1. r.s = t /\ r.err = t.kinderr
    <3> HIDE DEF t
    <3> QED BY <1>0, <1>9, Zenon
  <2>2. t = k /\ k.kinderr = ""
    <3>1. u.kinderr = e
      <4> HIDE DEF e
      <4> QED BY <1>6, Zenon DEF Stream
    <3>2. e # ""
      BY Zenon
    <3> HIDE DEF u, e
    <3> QED BY <1>4, <2>1, <3>1, <3>2, Zenon
  <2> HIDE DEF t
  <2>3. HeadRead(st, k)
    BY <1>5, <2>2, Zenon DEF Sure
  <2>4. Placed(st, d, 0)
    BY <1>9, Zenon DEF Stands
  <2>5. Placed(k, d, k.size)
    BY <1>3, <1>6, <2>3, <2>4, HeadPlaced, Zenon
  <2>6. k.kind >= 0
    BY <1>6
  <2>7. Stands(k, d)
    BY <2>3, <2>5, <2>6, Zenon DEF Stands, HeadRead
  <2> QED BY <1>2, <2>1, <2>2, <2>7, Zenon DEF r
<1> QED
  BY <1>7, <1>8, <1>9, Zenon

----------------------------------------------------------------------------
(* What the operations leave behind.                                        *)

\* After the contents of a value the next one begins.
LEMMA ReadStands ==
    ASSUME NEW k \in Stream, NEW t \in Stream, NEW d \in Seq(Octet), Stands(k, d), k.kind \in {0, 1, 2},
           Moved(k, t, k.size), t.kind = -1
    PROVE  Stands(t, d)
<1> DEFINE n == k.size
<1>1. n \in Nat /\ 0 \in Nat
  BY StreamParts
<1>2. k.kind >= 0
  OBVIOUS
<1>3. Placed(k, d, n)
  BY <1>2, Zenon DEF Stands
<1>4. Len(k.in) \in Nat /\ Len(d) \in Nat
  BY StreamParts, SeqFacts
<1> HIDE DEF n
<1>5. ~InList(k) => Len(d) - Len(k.in) + n + 0 \in Boundaries(d)
  <2>1. Len(d) - Len(k.in) + n + 0 = Len(d) - Len(k.in) + n
    BY <1>1, <1>4
  <2> QED BY <1>3, <2>1, Zenon DEF Placed
<1>6. Moved(k, t, n)
  BY DEF n
<1>7. Placed(t, d, 0)
  BY <1>1, <1>3, <1>5, <1>6, MovedPlaced, Zenon
<1>8. ~(t.kind >= 0) /\ t.kind # 0
  OBVIOUS
<1> QED
  BY <1>7, <1>8, Zenon DEF Stands, Byte

\* The contents after the header that Kind has read.
LEMMA ContentStands ==
    ASSUME NEW st, NEW b, StreamOK(st, b), NEW d \in Seq(Octet), Stands(st, d), Clean(Kind(st)),
           NEW k, k = Kind(st).s
    PROVE  /\ Clean(readFull(k, k.size)) => Stands(readFull(k, k.size).s, d)
           /\ Clean(readUint(k, k.size)) => Stands(readUint(k, k.size).s, d)
           /\ k.kind = Byte => Stands(Rearmed(k), d)
<1>1. StreamOK(k, b)
  <2> DEFINE q == Kind(st)
  <2>1. Kept(st, b, q) /\ k = q.s
    BY KindOK, Zenon
  <2> HIDE DEF q
  <2> QED BY <2>1, Zenon DEF Kept
<1>2. Stands(k, d) /\ k.kind \in {0, 1, 2}
  BY KindStands, SMTT(30)
<1>3. k \in Stream
  BY <1>1 DEF StreamOK
<1> DEFINE n == k.size
           f == readFull(k, n)
           g == readUint(k, n)
           t == Rearmed(k)
<1>4. n \in Nat
  BY <1>3, StreamParts, SMTT(30)
<1>5. Kept(k, b, f) /\ f.s.kind = -1 /\ Kept(k, b, g) /\ g.s.kind = -1
  <2> HIDE DEF n
  <2> QED BY <1>1, <1>4, ReadFullOK, ReadUintOK, Zenon
<1>6. (Clean(f) => Moved(k, f.s, n)) /\ (Clean(g) => Moved(k, g.s, n))
  <2> HIDE DEF n
  <2> QED BY <1>1, <1>4, ReadFullMoves, ReadUintMoves, Zenon
<1> HIDE DEF f, g
<1>7. f.s \in Stream /\ g.s \in Stream
  BY <1>5, Zenon DEF Kept, StreamOK
<1>8. (Clean(f) => Stands(f.s, d)) /\ (Clean(g) => Stands(g.s, d))
  BY <1>2, <1>3, <1>5, <1>6, <1>7, ReadStands, Zenon
<1>9. ASSUME k.kind = Byte PROVE Stands(t, d)
  <2>1. t \in Stream /\ t.kind = -1 /\ t.in = k.in /\ t.stack = k.stack
    BY <1>3, RearmedOK DEF Rearmed
  <2>2. k.size = 0
    BY <1>2, <1>9, Zenon DEF Stands
  <2> HIDE DEF t
  <2>3. Moved(k, t, k.size)
    BY <1>3, <2>1, <2>2, MovedNot, Zenon
  <2> QED BY <1>2, <1>3, <2>1, <2>3, ReadStands, Zenon
<1> QED
  BY <1>8, <1>9, Zenon DEF f, g

\* A call that has failed is not clean.
LEMMA FailUnclean ==
    \A e \in {"CanonSize", "CanonInt", "ExpectedString", "ExpectedList", "UintOverflow", "InvalidBool",
              "NotInList", "NotAtEOL"} : \A st : ~Clean(Fail(st, e))
<1> SUFFICES ASSUME NEW e \in {"CanonSize", "CanonInt", "ExpectedString", "ExpectedList", "UintOverflow",
                               "InvalidBool", "NotInList", "NotAtEOL"}, NEW st
             PROVE  ~Clean(Fail(st, e))
  OBVIOUS
<1>1. e # ""
  BY Zenon
<1>2. Fail(st, e).err = e
  BY DEF Fail
<1> QED
  BY <1>1, <1>2, Zenon DEF Clean

\* Stream.Bytes leaves nothing of a value behind.
LEMMA BytesStands ==
    ASSUME NEW st, NEW b, StreamOK(st, b), NEW d \in Seq(Octet), Stands(st, d), Clean(Bytes(st))
    PROVE  Stands(Bytes(st).s, d)
<1> DEFINE k == Kind(st)
           f == readFull(k.s, k.s.size)
           o == Ok(Rearmed(k.s), <<k.s.byteval>>)
           u == Bytes(st)
<1>1. Clean(k) => /\ Clean(f) => Stands(f.s, d)
                  /\ k.s.kind = Byte => Stands(Rearmed(k.s), d)
  BY ContentStands, Zenon
<1>2. \/ u = k /\ ~Clean(k)
      \/ u = o /\ k.s.kind = Byte /\ Clean(k)
      \/ u = Fail(k.s, "ExpectedString")
      \/ u = Fail(f.s, "CanonSize")
      \/ u = f /\ Clean(k)
  BY Zenon DEF Bytes, BytesAt, Clean
<1>3. o.s = Rearmed(k.s)
  BY DEF Ok
<1> HIDE DEF k, f, o, u
<1>4. Clean(u)
  BY Zenon DEF u
<1>5. ~Clean(Fail(k.s, "ExpectedString")) /\ ~Clean(Fail(f.s, "CanonSize"))
  BY FailUnclean
<1>6. Stands(u.s, d)
  BY <1>1, <1>2, <1>3, <1>4, <1>5, Zenon
<1> QED
  BY <1>6, Zenon DEF u

\* Nor does Stream.Raw.
LEMMA RawStands ==
    ASSUME NEW st, NEW b, StreamOK(st, b), NEW d \in Seq(Octet), Stands(st, d), Clean(Raw(st))
    PROVE  Stands(Raw(st).s, d)
<1> DEFINE k == Kind(st)
           f == readFull(k.s, k.s.size)
           o == Ok(Rearmed(k.s), <<k.s.byteval>>)
           u == Raw(st)
<1>1. Clean(k) => /\ Clean(f) => Stands(f.s, d)
                  /\ k.s.kind = Byte => Stands(Rearmed(k.s), d)
  BY ContentStands, Zenon
<1>2. \/ u = k /\ ~Clean(k)
      \/ u = o /\ k.s.kind = Byte /\ Clean(k)
      \/ u = f /\ ~Clean(f)
      \/ Clean(k) /\ Clean(f) /\ \E v : u = Ok(f.s, v)
  BY ZenonT(60) DEF Raw, RawAt, Clean
<1>3. o.s = Rearmed(k.s)
  BY DEF Ok
<1> HIDE DEF k, f, o, u
<1>4. Clean(u)
  BY Zenon DEF u
<1>5. \A v : Ok(f.s, v).s = f.s
  BY SMTT(30) DEF Ok
<1>6. Stands(u.s, d)
  BY <1>1, <1>2, <1>3, <1>4, <1>5, Zenon
<1> QED
  BY <1>6, Zenon DEF u

\* Nor does Stream.uint.
LEMMA UintStands ==
    ASSUME NEW st, NEW b, StreamOK(st, b), NEW d \in Seq(Octet), Stands(st, d), NEW bits, Clean(uint(st, bits))
    PROVE  Stands(uint(st, bits).s, d)
<1> DEFINE k == Kind(st)
           f == readUint(k.s, k.s.size)
           o == Ok(Rearmed(k.s), k.s.byteval)
           u == uint(st, bits)
           e == IF f.err = "CanonSize" THEN "CanonInt" ELSE f.err
<1>1. Clean(k) => /\ Clean(f) => Stands(f.s, d)
                  /\ k.s.kind = Byte => Stands(Rearmed(k.s), d)
  BY ContentStands, Zenon
<1>2. \/ u = k /\ ~Clean(k)
      \/ u = Fail(k.s, "CanonInt")
      \/ u = o /\ k.s.kind = Byte /\ Clean(k)
      \/ u = Fail(k.s, "ExpectedString")
      \/ u = Fail(k.s, "UintOverflow")
      \/ u = Fail(f.s, e) /\ f.err # ""
      \/ u = Fail(f.s, "CanonSize")
      \/ u = f /\ Clean(k)
  BY Zenon DEF uint, UintAt, Clean
<1>3. o.s = Rearmed(k.s)
  BY SMTT(30) DEF Ok
<1> HIDE DEF k, f, o, u
<1>4. Clean(u)
  BY Zenon DEF u
<1>5. f.err # "" => ~Clean(Fail(f.s, e))
  <2> HAVE f.err # ""
  <2>1. e # ""
    BY Zenon
  <2> HIDE DEF e
  <2>2. Fail(f.s, e).err = e
    BY Zenon DEF Fail
  <2> QED BY <2>1, <2>2, Zenon DEF Clean
<1>6. /\ ~Clean(Fail(k.s, "ExpectedString")) /\ ~Clean(Fail(f.s, "CanonSize"))
      /\ ~Clean(Fail(k.s, "CanonInt")) /\ ~Clean(Fail(k.s, "UintOverflow"))
  BY FailUnclean
<1> HIDE DEF e
<1>7. Stands(u.s, d)
  BY <1>1, <1>2, <1>3, <1>4, <1>5, <1>6, Zenon
<1> QED
  BY <1>7, Zenon DEF u

\* Nor does Stream.Bool.
LEMMA BoolStands ==
    ASSUME NEW st, NEW b, StreamOK(st, b), NEW d \in Seq(Octet), Stands(st, d), Clean(Bool(st))
    PROVE  Stands(Bool(st).s, d)
<1> DEFINE u == uint(st, 8)
           r == Bool(st)
<1>1. Clean(u) => Stands(u.s, d)
  BY UintStands
<1>2. \/ r = u /\ ~Clean(u)
      \/ r = Fail(u.s, "InvalidBool")
      \/ Clean(u) /\ \E v : r = Ok(u.s, v)
  BY Zenon DEF Bool, BoolOf, Clean
<1> HIDE DEF u, r
<1>3. Clean(r)
  BY Zenon DEF r
<1>4. ~Clean(Fail(u.s, "InvalidBool")) /\ \A v : Ok(u.s, v).s = u.s
  <2>1. \A v : Ok(u.s, v).s = u.s
    BY DEF Ok
  <2> QED BY <2>1, FailUnclean
<1>5. Stands(r.s, d)
  BY <1>1, <1>2, <1>3, <1>4, Zenon
<1> QED
  BY <1>5, Zenon DEF r

\* A list that is opened begins where the reader is, and ends where the value does.
LEMMA OpenListStands ==
    ASSUME NEW st, NEW b, StreamOK(st, b), NEW d \in Seq(Octet), Stands(st, d), Clean(OpenList(st))
    PROVE  Stands(OpenList(st).s, d)
<1> DEFINE r == OpenList(st)
           q == Kind(st)
           e == [pos |-> 0, size |-> q.s.size]
           t == [q.s EXCEPT !.stack = Append(@, e), !.kind = -1, !.size = 0]
<1>1. r = IF q.err # "" THEN q
          ELSE IF q.s.kind # List THEN Fail(q.s, "ExpectedList")
          ELSE Ok(t, q.s.size)
  BY Zenon DEF OpenList, ListAt
<1>2. Kept(st, b, q)
  BY KindOK, Zenon
<1>3. Clean(q) => Stands(q.s, d)
  BY KindStands, Zenon
<1> HIDE DEF r, q
<1>4. Clean(r)
  BY Zenon DEF r
<1>5. r.s = t /\ Clean(q) /\ q.s.kind = List
  <2> HIDE DEF t
  <2>1. ~Clean(Fail(q.s, "ExpectedList"))
    BY FailUnclean
  <2>2. q.err = "" /\ q.s.kind = List /\ r = Ok(t, q.s.size)
    BY <1>1, <1>4, <2>1, Zenon DEF Clean
  <2> QED BY <2>2, Zenon DEF Clean, Ok
<1>6. PICK u : u = q.s
  OBVIOUS
<1>7. u \in Stream /\ Stands(u, d) /\ u.kind = List
  BY <1>2, <1>3, <1>5, <1>6, Zenon DEF Kept, StreamOK
<1> DEFINE n == Len(u.stack)
           p == Len(d) - Len(u.in)
<1>8. Placed(u, d, u.size)
  <2>1. u.kind >= 0
    <3>1. u.kind = 2
      BY <1>7, Zenon DEF List
    <3> QED BY <3>1
  <2> QED BY <1>7, <2>1, Zenon DEF Stands
<1>9. /\ u.stack \in Seq([pos : Nat, size : Nat]) /\ u.size \in Nat /\ n \in Nat
      /\ Len(u.in) \in Nat /\ Len(d) \in Nat
  <2>1. u.stack \in Seq([pos : Nat, size : Nat]) /\ u.size \in Nat /\ u.in \in Seq(Octet)
    BY <1>7, StreamParts
  <2> QED BY <2>1, SeqFacts, Zenon
<1>10. p \in Nat
  <2>1. Len(u.in) <= Len(d)
    BY <1>8, Zenon DEF Placed, Behind
  <2> QED BY <1>9, <2>1
<1>11. e \in [pos : Nat, size : Nat] /\ e.pos = 0 /\ e.size = u.size
  BY <1>6, <1>9
<1> HIDE DEF e
<1>12. t.in = u.in /\ t.stack = Append(u.stack, e) /\ t.kind = -1
  BY <1>6, <1>7, Zenon DEF Stream
<1> HIDE DEF t
<1>13. /\ Len(t.stack) = n + 1 /\ t.stack[n + 1] = e
       /\ \A i \in 1..n : t.stack[i] = u.stack[i]
  <2>1. /\ Len(Append(u.stack, e)) = n + 1 /\ Append(u.stack, e)[n + 1] = e
        /\ \A i \in 1..n : Append(u.stack, e)[i] = u.stack[i]
    BY <1>9, <1>11
  <2> QED BY <1>12, <2>1, Zenon
<1>14. InList(t)
  <2>1. Len(t.stack) = n + 1
    BY <1>13, Zenon
  <2> QED BY <1>9, <2>1 DEF InList
<1>15. PICK o : /\ o \in Seq(Nat) /\ Len(o) = n
                /\ n > 0 => Begun(u, d, o)
  <2>1. CASE n > 0
    <3>1. InList(u)
      BY <2>1 DEF InList
    <3>2. PICK o : Begun(u, d, o)
      BY <1>8, <3>1, Zenon DEF Placed
    <3> QED BY <3>2, Zenon DEF Begun
  <2>2. CASE ~(n > 0)
    <3>1. <<>> \in Seq(Nat) /\ Len(<<>>) = 0 /\ n = 0
      BY <1>9, <2>2
    <3> QED BY <2>2, <3>1, Zenon
  <2> QED BY <2>1, <2>2, Zenon
<1> DEFINE a == Append(o, p)
<1> HIDE DEF p
<1>16. /\ a \in Seq(Nat) /\ Len(a) = n + 1 /\ a[n + 1] = p
       /\ \A i \in 1..n : a[i] = o[i]
  <2>1. o \in Seq(Nat) /\ Len(o) = n
    BY <1>15, Zenon
  <2> HIDE DEF n
  <2> QED BY <1>9, <1>10, <2>1
<1>17. \A i \in 1..n : o[i] \in Nat
  BY <1>15, SeqFacts, Zenon
<1> HIDE DEF a, n
<1>18. a[1] + t.stack[1].size \in Boundaries(d)
  <2>1. CASE n > 0
    <3>1. 1 \in 1..n
      BY <1>9, <2>1
    <3>2. o[1] + u.stack[1].size \in Boundaries(d)
      BY <1>15, <2>1, Zenon DEF Begun
    <3> QED BY <1>13, <1>16, <3>1, <3>2, Zenon
  <2>2. CASE ~(n > 0)
    <3>1. n = 0 /\ n + 1 = 1
      BY <1>9, <2>2
    <3>2. ~InList(u)
      BY <2>2 DEF InList, n
    <3>3. p + u.size \in Boundaries(d)
      BY <1>8, <3>2, Zenon DEF Placed, p
    <3>4. a[1] = p /\ t.stack[1] = e
      BY <1>13, <1>16, <3>1, Zenon
    <3> QED BY <1>11, <3>3, <3>4, Zenon
  <2> QED BY <2>1, <2>2, Zenon
<1>19. ASSUME NEW i \in 1..n PROVE a[i + 1] = a[i] + t.stack[i].pos
  <2>1. n > 0
    BY <1>9
  <2>2. /\ \A j \in 1..(n - 1) : o[j + 1] = o[j] + u.stack[j].pos
        /\ p = o[n] + u.stack[n].pos
    <3>1. Begun(u, d, o) /\ Len(o) = n
      BY <1>15, <2>1, Zenon
    <3> QED BY <3>1, Zenon DEF Begun, p
  <2>3. CASE i = n
    BY <1>13, <1>16, <2>2, <2>3, Zenon
  <2>4. CASE i # n
    <3>1. i \in 1..(n - 1) /\ i + 1 \in 1..n
      BY <1>9, <2>4
    <3> QED BY <1>13, <1>16, <2>2, <3>1, Zenon
  <2> QED BY <2>3, <2>4, Zenon
<1>20. p = a[n + 1] + t.stack[n + 1].pos
  <2>1. t.stack[n + 1].pos = 0 /\ a[n + 1] = p
    BY <1>11, <1>13, <1>16, Zenon
  <2>2. p + 0 = p
    BY <1>10
  <2> QED BY <2>1, <2>2, Zenon
<1>21. Begun(t, d, a)
  <2>1. (n + 1) - 1 = n
    BY <1>9
  <2>2. Len(d) - Len(t.in) = p
    BY <1>12, Zenon DEF p
  <2> QED BY <1>13, <1>16, <1>18, <1>19, <1>20, <2>1, <2>2, Zenon DEF Begun
<1>22. Behind(t, d)
  BY <1>8, <1>12, Zenon DEF Placed, Behind
<1>23. ~(t.kind >= 0) /\ t.kind # 0
  BY <1>12
<1>24. Stands(t, d)
  BY <1>14, <1>21, <1>22, <1>23, Zenon DEF Stands, Placed, Byte
<1> QED
  BY <1>5, <1>24, Zenon DEF r

\* A list that is left has been read, and the reader is where it ends.
LEMMA ListEndStands ==
    ASSUME NEW st, NEW b, StreamOK(st, b), NEW d \in Seq(Octet), Stands(st, d), Clean(ListEnd(st))
    PROVE  Stands(ListEnd(st).s, d)
<1> DEFINE r == ListEnd(st)
           n == Len(st.stack)
           z == st.stack[n].size
           q == SubSeq(st.stack, 1, n - 1)
           c == [st EXCEPT !.stack = q, !.kind = -1, !.size = 0]
           t == Charge(c, z)
<1>1. r = IF ~InList(st) THEN Fail(st, "NotInList")
          ELSE IF Left(st) # 0 THEN Fail(st, "NotAtEOL")
          ELSE Ok(t, <<>>)
  BY DEF ListEnd, Popped, Tos
<1>2. st \in Stream
  BY DEF StreamOK
<1>3. ~Clean(Fail(st, "NotInList")) /\ ~Clean(Fail(st, "NotAtEOL"))
  BY FailUnclean
<1> HIDE DEF r
<1>4. Clean(r)
  BY Zenon DEF r
<1>5. InList(st) /\ Left(st) = 0 /\ r.s = t
  <2> HIDE DEF t
  <2>1. InList(st) /\ Left(st) = 0 /\ r = Ok(t, <<>>)
    BY <1>1, <1>3, <1>4, Zenon
  <2> QED BY <2>1, Zenon DEF Ok
<1>6. st.stack \in Seq([pos : Nat, size : Nat]) /\ Len(st.in) \in Nat /\ Len(d) \in Nat
  <2>1. st.stack \in Seq([pos : Nat, size : Nat]) /\ st.in \in Seq(Octet)
    BY <1>2, StreamParts
  <2> QED BY <2>1, SeqFacts, Zenon
<1>7. /\ n \in Nat /\ n > 0 /\ n - 1 \in Nat /\ n - 1 <= n
      /\ \A i \in 1..n : st.stack[i].pos \in Nat /\ st.stack[i].size \in Nat
  <2>1. n \in Nat /\ \A i \in 1..n : st.stack[i] \in [pos : Nat, size : Nat]
    BY <1>6, SeqFacts, Zenon
  <2>2. n > 0
    BY <1>5, Zenon DEF InList
  <2> QED BY <2>1, <2>2
<1>8. z \in Nat /\ st.stack[n].pos = z
  <2>1. n \in 1..n
    BY <1>7, SMTT(30)
  <2>2. st.stack[n].size - st.stack[n].pos = 0
    BY <1>5, Zenon DEF Left, Tos
  <2> QED BY <1>7, <2>1, <2>2
<1>9. /\ q \in Seq([pos : Nat, size : Nat]) /\ Len(q) = n - 1
      /\ \A i \in 1..(n - 1) : q[i] = st.stack[i]
  BY <1>6, <1>7, PrefixOK, Zenon
<1> HIDE DEF q
<1>10. c \in Stream /\ c.kind = -1 /\ c.stack = q /\ c.in = st.in
  <2>1. q \in Lists
    BY <1>9, Zenon DEF Lists
  <2> QED BY <1>2, <2>1, Zenon DEF Stream
<1> HIDE DEF c, z
<1>11. /\ t.kind = -1 /\ t.in = st.in /\ Len(t.stack) = n - 1
       /\ \A i \in 1..(n - 1) : /\ t.stack[i].size = st.stack[i].size
                               /\ t.stack[i].pos = IF i = n - 1 THEN st.stack[i].pos + z ELSE st.stack[i].pos
  <2>1. /\ t.kind = c.kind /\ t.in = c.in /\ Len(t.stack) = Len(c.stack)
        /\ \A i \in 1..Len(c.stack) :
              /\ t.stack[i].size = c.stack[i].size
              /\ t.stack[i].pos = IF i = Len(c.stack) THEN c.stack[i].pos + z ELSE c.stack[i].pos
    BY <1>8, <1>10, ChargeOK
  <2> HIDE DEF t
  <2>2. Len(c.stack) = n - 1
    BY <1>9, <1>10, Zenon
  <2>3. \A i \in 1..(n - 1) : c.stack[i] = st.stack[i]
    BY <1>9, <1>10, Zenon
  <2> QED BY <1>10, <2>1, <2>2, <2>3, Zenon
<1> HIDE DEF t
<1>12. PICK o : Begun(st, d, o)
  BY <1>5, Zenon DEF Stands, Placed
<1> DEFINE p == Len(d) - Len(st.in)
<1>13. /\ o \in Seq(Nat) /\ Len(o) = n
       /\ o[1] + st.stack[1].size \in Boundaries(d)
       /\ \A i \in 1..(n - 1) : o[i + 1] = o[i] + st.stack[i].pos
       /\ p = o[n] + z
  BY <1>8, <1>12, Zenon DEF Begun
<1>14. \A i \in 1..n : o[i] \in Nat
  BY <1>13, SeqFacts, Zenon
<1>15. Behind(t, d)
  <2>1. Behind(st, d)
    BY Zenon DEF Stands, Placed
  <2> QED BY <1>11, <2>1, Zenon DEF Behind
<1>16. Len(d) - Len(t.in) = p
  BY <1>11, Zenon
<1>17. p \in Int
  BY <1>6
<1> HIDE DEF n, p
<1>18. ASSUME ~InList(t) PROVE Len(d) - Len(t.in) + 0 \in Boundaries(d)
  <2>1. n = 1
    <3>1. ~(n - 1 > 0)
      BY <1>11, <1>18, Zenon DEF InList
    <3> QED BY <1>7, <3>1
  <2>2. o[1] + z \in Boundaries(d)
    <3>1. z = st.stack[1].size
      BY <2>1, Zenon DEF z, n
    <3> QED BY <1>13, <3>1, Zenon
  <2>3. p + 0 = p
    BY <1>17
  <2> QED BY <1>13, <1>16, <2>1, <2>2, <2>3, Zenon
<1>19. ASSUME InList(t) PROVE \E a : Begun(t, d, a)
  <2> DEFINE a == SubSeq(o, 1, n - 1)
             m == n - 1
  <2>1. n - 1 > 0
    BY <1>11, <1>19, Zenon DEF InList
  <2>2. m \in Nat /\ 1 \in 1..m /\ m \in 1..m /\ m \in 1..n /\ m + 1 = n
    BY <1>7, <2>1, SMTT(30)
  <2>3. a \in Seq(Nat) /\ Len(a) = m /\ \A i \in 1..m : a[i] = o[i]
    <3>1. o \in Seq(Nat) /\ Len(o) = n
      BY <1>13, Zenon
    <3> QED BY <1>7, <3>1, PrefixOK
  <2>4. \A i \in 1..m : /\ t.stack[i].size = st.stack[i].size
                        /\ t.stack[i].pos = IF i = m THEN st.stack[i].pos + z ELSE st.stack[i].pos
    BY <1>11, Zenon
  <2>5. Len(t.stack) = m /\ \A i \in 1..m : o[i + 1] = o[i] + st.stack[i].pos
    BY <1>11, <1>13, Zenon
  <2> HIDE DEF a, m
  <2>6. a[1] + t.stack[1].size \in Boundaries(d)
    BY <1>13, <2>2, <2>3, <2>4, Zenon
  <2>7. ASSUME NEW i \in 1..(m - 1) PROVE a[i + 1] = a[i] + t.stack[i].pos
    <3>1. i \in 1..m /\ i + 1 \in 1..m /\ i # m
      BY <2>2
    <3> QED BY <2>3, <2>4, <2>5, <3>1, Zenon
  <2>8. p = a[m] + t.stack[m].pos
    <3>1. o[n] = o[m] + st.stack[m].pos
      BY <2>2, <2>5, Zenon
    <3>2. a[m] = o[m] /\ t.stack[m].pos = st.stack[m].pos + z
      BY <2>2, <2>3, <2>4, Zenon
    <3>3. PICK x \in Nat : x = o[m]
      BY <1>14, <2>2, SMTT(30)
    <3>4. PICK y \in Nat : y = st.stack[m].pos
      BY <1>7, <2>2 DEF n
    <3>5. p = (x + y) + z
      BY <1>13, <3>1, <3>3, <3>4, Zenon
    <3>6. p = x + (y + z)
      BY <1>8, <3>5
    <3> QED BY <3>2, <3>3, <3>4, <3>6, Zenon
  <2>9. Begun(t, d, a)
    BY <1>16, <2>3, <2>5, <2>6, <2>7, <2>8, Zenon DEF Begun
  <2> QED BY <2>9
<1>20. ~(t.kind >= 0) /\ t.kind # 0
  BY <1>11
<1>21. Stands(t, d)
  BY <1>15, <1>18, <1>19, <1>20, Zenon DEF Stands, Placed, Byte
<1> QED
  BY <1>5, <1>21, Zenon DEF r

\* A stream that is made, or reset, stands at the beginning of its input.
LEMMA ResetStands ==
    ASSUME NEW st \in Stream, NEW i \in Input
    PROVE  Stands(Reset(st, Reader(i.data, i.sized), i.limit), i.data)
<1> DEFINE t == Reset(st, Reader(i.data, i.sized), i.limit)
           d == i.data
<1>1. d \in Seq(Octet)
  BY InputAssumption DEF Octet
<1>2. t.kind = -1 /\ t.stack = <<>>
  BY ResetOK, Zenon
<1>3. t.in = d
  BY DEF Reset, Reader, Stream
<1> HIDE DEF t, d
<1>4. Len(d) \in Nat
  BY <1>1, SeqFacts
<1>5. Len(d) - Len(d) + 0 = 0 /\ Len(d) <= Len(d) /\ \A j \in 1..Len(d) : Len(d) - Len(d) + j = j
  BY <1>4
<1>6. Behind(t, d)
  BY <1>3, <1>5, Zenon DEF Behind
<1>7. ~InList(t)
  <2>1. Len(<<>>) = 0
    OBVIOUS
  <2>2. Len(t.stack) = 0
    BY <1>2, <2>1, Zenon
  <2> QED BY <2>2 DEF InList
<1>8. Len(d) - Len(t.in) + 0 \in Boundaries(d)
  BY <1>1, <1>3, <1>5, BoundaryNext, Zenon
<1>9. ~(t.kind >= 0) /\ t.kind # 0
  BY <1>2
<1>10. Stands(t, d)
  BY <1>6, <1>7, <1>8, <1>9, Zenon DEF Stands, Placed, Byte
<1> QED
  BY <1>10, Zenon DEF t, d

----------------------------------------------------------------------------
\* The inductive invariant: as long as nothing has failed, the reader stands where the
\* values of the input, and the lists that are open, say.
BInv == IInv /\ (~last.failed /\ ~input.list => Stands(s, input.data))

\* It holds of a new stream.
LEMMA InitBInv == StreamInit => BInv
<1> SUFFICES ASSUME StreamInit PROVE BInv
  OBVIOUS
<1>1. IInv
  BY InitIInv
<1>2. input \in Input /\ s = Started(input)
  BY DEF StreamInit
<1> DEFINE zero == [in |-> <<>>, remaining |-> 0, limited |-> FALSE, kind |-> 0, size |-> 0,
                    byteval |-> 0, kinderr |-> "", stack |-> <<>>]
<1>3. zero \in Stream
  <2>1. <<>> \in Octets /\ <<>> \in Lists /\ "" \in Errors /\ 0 \in Octet
    BY DEF Octets, Octet, Lists, Errors
  <2> QED BY <2>1, Zenon DEF Stream
<1>4. ~input.list => s = Reset(zero, Reader(input.data, input.sized), input.limit)
  BY <1>2, Zenon DEF Started, NewStream
<1> HIDE DEF zero
<1>5. Stands(Reset(zero, Reader(input.data, input.sized), input.limit), input.data)
  BY <1>2, <1>3, ResetStands, Zenon
<1> QED
  BY <1>1, <1>4, <1>5, Zenon DEF BInv

\* An operation that ends clean keeps it if it stands, and one that does not ends the claim.
LEMMA CleanStep ==
    ASSUME BInv, IInv', NEW op, NEW r, Step(op, r), Clean(r) /\ Stands(s, input.data) => Stands(r.s, input.data)
    PROVE  BInv'
<1>1. s' = r.s /\ input' = input
  BY Zenon DEF Step
<1>2. last'.failed = (last.failed \/ r.err # "")
  BY Zenon DEF Step
<1> SUFFICES ASSUME ~last'.failed, ~input'.list PROVE Stands(s', input'.data)
  BY Zenon DEF BInv
<1>3. ~last.failed /\ Clean(r)
  BY <1>2, Zenon DEF Clean
<1>4. Stands(s, input.data)
  BY <1>1, <1>3, Zenon DEF BInv
<1> QED
  BY <1>1, <1>3, <1>4, Zenon

\* Every operation on the stream keeps it.
LEMMA NextBInv == BInv /\ [StreamNext]_streamVars => BInv'
<1> SUFFICES ASSUME BInv, [StreamNext]_streamVars PROVE BInv'
  OBVIOUS
<1> DEFINE d == input.data
<1>0. IInv /\ IInv' /\ StreamOK(s, base) /\ input \in Input
  BY NextIInv, Zenon DEF BInv, IInv
<1>1. d \in Seq(Octet)
  <2>1. input \in Input
    BY <1>0
  <2> QED BY <2>1, InputAssumption DEF Octet
<1> HIDE DEF d
<1>2. CASE Kind_
  <2>1. Step("Kind", Kind(s))
    BY <1>2, Zenon DEF Kind_
  <2>2. Clean(Kind(s)) /\ Stands(s, d) => Stands(Kind(s).s, d)
    BY <1>0, <1>1, KindStands, Zenon
  <2> QED BY <1>0, <2>1, <2>2, CleanStep, Zenon DEF d
<1>3. CASE Bytes_
  <2>1. Step("Bytes", Bytes(s))
    BY <1>3, Zenon DEF Bytes_
  <2>2. Clean(Bytes(s)) /\ Stands(s, d) => Stands(Bytes(s).s, d)
    BY <1>0, <1>1, BytesStands, Zenon
  <2> QED BY <1>0, <2>1, <2>2, CleanStep, Zenon DEF d
<1>4. CASE Raw_
  <2>1. Step("Raw", Raw(s))
    BY <1>4, Zenon DEF Raw_
  <2>2. Clean(Raw(s)) /\ Stands(s, d) => Stands(Raw(s).s, d)
    BY <1>0, <1>1, RawStands, Zenon
  <2> QED BY <1>0, <2>1, <2>2, CleanStep, Zenon DEF d
<1>5. CASE Uint_
  <2>1. PICK bits \in {8, 64} : Step("Uint", uint(s, bits))
    BY <1>5, Zenon DEF Uint_
  <2>2. Clean(uint(s, bits)) /\ Stands(s, d) => Stands(uint(s, bits).s, d)
    BY <1>0, <1>1, UintStands, Zenon
  <2> QED BY <1>0, <2>1, <2>2, CleanStep, Zenon DEF d
<1>6. CASE Bool_
  <2>1. Step("Bool", Bool(s))
    BY <1>6, Zenon DEF Bool_
  <2>2. Clean(Bool(s)) /\ Stands(s, d) => Stands(Bool(s).s, d)
    BY <1>0, <1>1, BoolStands, Zenon
  <2> QED BY <1>0, <2>1, <2>2, CleanStep, Zenon DEF d
<1>7. CASE List_
  <2>1. Step("List", OpenList(s))
    BY <1>7, Zenon DEF List_
  <2>2. Clean(OpenList(s)) /\ Stands(s, d) => Stands(OpenList(s).s, d)
    BY <1>0, <1>1, OpenListStands, Zenon
  <2> QED BY <1>0, <2>1, <2>2, CleanStep, Zenon DEF d
<1>8. CASE ListEnd_
  <2>1. Step("ListEnd", ListEnd(s))
    BY <1>8, Zenon DEF ListEnd_
  <2>2. Clean(ListEnd(s)) /\ Stands(s, d) => Stands(ListEnd(s).s, d)
    BY <1>0, <1>1, ListEndStands, Zenon
  <2> QED BY <1>0, <2>1, <2>2, CleanStep, Zenon DEF d
<1>9. CASE Reset_
  <2>1. s' = Reset(s, Reader(input.data, input.sized), input.limit) /\ input' = input
    BY <1>9, Zenon DEF Reset_
  <2>2. s \in Stream
    BY <1>0, Zenon DEF StreamOK
  <2>3. Stands(s', input'.data)
    BY <1>0, <2>1, <2>2, ResetStands, Zenon
  <2> QED BY <1>0, <2>3, Zenon DEF BInv
<1>10. CASE UNCHANGED streamVars
  <2>1. s' = s /\ input' = input /\ last' = last
    BY <1>10, Zenon DEF streamVars
  <2>2. ~last'.failed /\ ~input'.list => Stands(s', input'.data)
    BY <2>1, Zenon DEF BInv
  <2> QED BY <1>0, <2>2, Zenon DEF BInv
<1> QED
  BY <1>2, <1>3, <1>4, <1>5, <1>6, <1>7, <1>8, <1>9, <1>10, Zenon DEF StreamNext

\* For every input, limit and sequence of calls: as long as none has failed, a Stream that
\* is in no list and has looked at nothing is just before a value (or the end) of the
\* input, so Kind, Bytes, Raw, uint, Bool, List and ListEnd leave no part of one behind.
THEOREM StreamBetweenValues == StreamSpec => []AtBoundary
<1>1. BInv => AtBoundary
  <2> SUFFICES ASSUME BInv, ~last.failed, ~InList(s), s.kind = -1, ~input.list
               PROVE  Len(input.data) - Len(s.in) \in Boundaries(input.data)
    BY Zenon DEF AtBoundary
  <2>1. s \in Stream /\ input \in Input
    BY Zenon DEF BInv, IInv, StreamOK
  <2>2. Len(s.in) \in Nat /\ Len(input.data) \in Nat
    <3>1. s.in \in Seq(Octet) /\ input.data \in Seq(Octet)
      BY <2>1, StreamParts, InputAssumption DEF Octet
    <3> QED BY <3>1, SeqFacts
  <2>3. ~(s.kind >= 0)
    OBVIOUS
  <2>4. Stands(s, input.data)
    BY Zenon DEF BInv
  <2>5. Len(input.data) - Len(s.in) + 0 \in Boundaries(input.data)
    BY <2>3, <2>4, Zenon DEF Stands, Placed
  <2>6. Len(input.data) - Len(s.in) + 0 = Len(input.data) - Len(s.in)
    BY <2>2
  <2> QED BY <2>5, <2>6, Zenon
<1> QED
  BY <1>1, InitBInv, NextBInv, PTL DEF StreamSpec
=============================================================================
