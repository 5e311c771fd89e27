----------------------------- MODULE WireProofs -----------------------------
(***************************************************************************)
(* Proofs about the framing of messages of module Wire, for any number of  *)
(* writers and messages, and any sizes below 2^16, the bound that a header *)
(* can carry as putInt32 is written.                                       *)
(***************************************************************************)
EXTENDS Wire, Integers, SequenceTheorems, TLAPS

Number == 0..(2^16 - 1)
Message == [Type : Number, Size : Number, from : Writer]
Called == [Type : Number, Size : Nat, from : Writer \cup {0}]
Delivered == [Type : Nat, Size : Nat, Payload : Seq(Nat)]

TypeOK ==
    /\ msg \in [Writer -> Called] /\ \A w \in Writer : msg[w] # NoMsg => msg[w].from = w
    /\ log \in Seq(Message)
    /\ wire \in Seq(Nat) /\ buf \in Seq(Nat) /\ headbuf \in Seq(Nat)
    /\ closed \in BOOLEAN /\ (closed => wire = <<>>)
    /\ Len(headbuf) \in {0, HeadLen}
    /\ got \in Seq(Delivered)

\* The bytes that were written, arrived or not, and that no message has been made
\* of yet.
Stream == headbuf \o (buf \o wire)

\* The j-th byte of message m as WriteMsg writes it.
Sent(m, j) == IF j <= HeadLen THEN Header(m)[j] ELSE m.from

\* The stream S is the messages of l after the first k, one after the other, message
\* i + 1 after byte off[i]; all of them, or when cut a beginning.
Framed(off, l, k, S, cut) ==
    LET n == Len(l) IN
    /\ off \in [k..n -> Nat] /\ off[k] = 0
    /\ \A i, j \in k..n : i <= j => off[i] <= off[j]
    /\ \A i \in k..(n - 1) : off[i + 1] = off[i] + HeadLen + l[i + 1].Size
    /\ \A i \in k..(n - 1) : \A j \in 1..(HeadLen + l[i + 1].Size) :
          off[i] + j <= Len(S) => S[off[i] + j] = Sent(l[i + 1], j)
    /\ Len(S) <= off[n] /\ (cut \/ Len(S) = off[n])

\* The messages still to be read are the ones written after those that were read; the
\* end of the connection cuts them.
StreamOK == Len(got) <= Len(log) /\ \E off : Framed(off, log, Len(got), Stream, closed)

IInv == TypeOK /\ StreamOK /\ DeliveredIntact

----------------------------------------------------------------------------
(* Headers.                                                                 *)

\* The numbers that a header carries are natural numbers.
LEMMA Numbers == \A v \in Number : v \in Nat
  BY SMTT(30) DEF Number

\* What the constants are assumed to be, without the bounds written out.
LEMMA Constants ==
    /\ Writer \subseteq Nat /\ 0 \notin Writer
    /\ MsgType \subseteq Number /\ 0 \in Number
    /\ Size \subseteq Nat /\ \A n \in Nat : n <= MaxPayload => n \in Number
  <1>1. Writer \subseteq 1..255  BY WireAssumption, Zenon
  <1>2. MsgType \subseteq Number  BY WireAssumption, Zenon DEF Number
  <1>3. Size \subseteq 0..(2^24 - 1)  BY WireAssumption, Zenon
  <1>4. MaxPayload \in 0..(2^16 - 1)  BY WireAssumption, Zenon
  <1>5. \A n \in Size : n \in Nat
    <2>1. \A n \in 0..(2^24 - 1) : n \in Nat  OBVIOUS
    <2> QED  BY <1>3, <2>1, Zenon
  <1>6. \A n \in Nat : n <= MaxPayload => n \in 0..(2^16 - 1)  BY <1>4
  <1>7. 0 \in Number  BY DEF Number
  <1>8. \A n \in Nat : n <= MaxPayload => n \in Number  BY <1>6 DEF Number
  <1>9. Writer \subseteq Nat /\ 0 \notin Writer  BY <1>1
  <1> QED  BY <1>2, <1>5, <1>7, <1>8, <1>9, Zenon

\* c is s, of length n, followed by t, of length k.
Joins(c, s, t, n, k) ==
    /\ c \in Seq(Nat) /\ Len(c) = n + k
    /\ \A i \in 1..n : c[i] = s[i]
    /\ \A i \in 1..k : c[n + i] = t[i]

\* A sequence followed by another.
LEMMA Concat ==
    ASSUME NEW s \in Seq(Nat), NEW t \in Seq(Nat)
    PROVE  Joins(s \o t, s, t, Len(s), Len(t))
  BY DEF Joins

\* What putInt32 writes, readInt32 reads, below 2^16.
LEMMA ReadBack ==
    ASSUME NEW v \in Number, NEW b, \A i \in 1..4 : b[i] = putInt32(v)[i]
    PROVE  readInt32(b) = v
  <1>1. v \div 2^24 = 0 /\ (v \div 2^26) % 2^8 = 0  BY DEF Number
  <1>2. 0 % 2^8 = 0  OBVIOUS
  <1>3. b[1] = 0 /\ b[2] = 0 /\ b[3] = (v \div 2^8) % 2^8 /\ b[4] = v % 2^8
    <2>1. b[1] = putInt32(v)[1] /\ b[2] = putInt32(v)[2] /\ b[3] = putInt32(v)[3] /\ b[4] = putInt32(v)[4]
      OBVIOUS
    <2> QED  BY <1>1, <1>2, <2>1 DEF putInt32
  <1>4. (v % 2^8) + ((v \div 2^8) % 2^8) * 2^8 = v  BY DEF Number
  <1>5. readInt32(b) = (v % 2^8) + ((v \div 2^8) % 2^8) * 2^8 + 0 * 2^16 + 0 * 2^24  BY <1>3, Zenon DEF readInt32
  <1>6. 0 * 2^16 = 0 /\ 0 * 2^24 = 0  OBVIOUS
  <1>7. v \in Nat /\ v + 0 + 0 = v  BY Numbers
  <1> QED  BY <1>4, <1>5, <1>6, <1>7, Zenon

\* A number is written as four bytes.
LEMMA PutBytes ==
    ASSUME NEW v \in Number
    PROVE  putInt32(v) \in Seq(Nat) /\ Len(putInt32(v)) = 4
  <1>1. /\ (v \div 2^24) % 2^8 \in Nat /\ (v \div 2^26) % 2^8 \in Nat
        /\ (v \div 2^8) % 2^8 \in Nat /\ v % 2^8 \in Nat
    BY DEF Number
  <1> QED  BY <1>1 DEF putInt32

\* A header is nine bytes: the type is in bytes 2 to 5, the size in bytes 6 to 9.
LEMMA HeaderBytes ==
    ASSUME NEW m, m.Type \in Number, m.Size \in Number
    PROVE  /\ Header(m) \in Seq(Nat) /\ Len(Header(m)) = HeadLen
           /\ \A i \in 1..4 : Header(m)[i + 1] = putInt32(m.Type)[i] /\ Header(m)[i + 5] = putInt32(m.Size)[i]
  <1> DEFINE t == putInt32(m.Type)
             s == putInt32(m.Size)
             e == <<eventMsg>>
             a == e \o t
             b == a \o s
  <1>1. t \in Seq(Nat) /\ Len(t) = 4 /\ s \in Seq(Nat) /\ Len(s) = 4  BY PutBytes
  <1>2. e \in Seq(Nat) /\ Len(e) = 1  BY DEF eventMsg
  <1>3. Header(m) = b  BY DEF Header
  <1> HIDE DEF t, s, e
  <1>4. a \in Seq(Nat) /\ Len(a) = 5 /\ \A i \in 1..4 : a[1 + i] = t[i]
    <2>1. Joins(a, e, t, 1, 4)  BY <1>1, <1>2, Concat, Zenon
    <2> HIDE DEF a
    <2> QED  BY <2>1 DEF Joins
  <1> HIDE DEF a
  <1>5. /\ b \in Seq(Nat) /\ Len(b) = 9
        /\ \A i \in 1..5 : b[i] = a[i]
        /\ \A i \in 1..4 : b[5 + i] = s[i]
    <2>1. Joins(b, a, s, 5, 4)  BY <1>1, <1>4, Concat, Zenon
    <2> HIDE DEF b
    <2> QED  BY <2>1 DEF Joins
  <1> HIDE DEF b
  <1>6. \A i \in 1..4 : b[i + 1] = t[i] /\ b[i + 5] = s[i]
    <2> TAKE i \in 1..4
    <2>1. i + 1 \in 1..5 /\ i + 1 = 1 + i /\ i + 5 = 5 + i  OBVIOUS
    <2> QED  BY <1>4, <1>5, <2>1, ZenonT(60)
  <1> QED  BY <1>3, <1>5, <1>6 DEF t, s, HeadLen

\* The parts of a message, and of a message that WriteMsg is called for.
LEMMA Parts ==
    /\ \A m \in Message : m.Type \in Number /\ m.Size \in Number /\ m.Size \in Nat /\ m.from \in Writer /\ m.from \in Nat
    /\ \A m \in Called : m.Type \in Number /\ m.Size \in Nat /\ m.from \in Writer \cup {0}
  <1>1. \A m \in Message : m.Type \in Number /\ m.Size \in Number /\ m.from \in Writer  BY DEF Message
  <1>2. \A m \in Called : m.Type \in Number /\ m.Size \in Nat /\ m.from \in Writer \cup {0}  BY DEF Called
  <1> QED  BY <1>1, <1>2, Numbers, Constants, Zenon

\* The bytes of a message.
LEMMA FrameBytes ==
    ASSUME NEW m \in Message
    PROVE  LET f == Header(m) \o Payload(m.from, m.Size) IN
           /\ f \in Seq(Nat) /\ Len(f) = HeadLen + m.Size
           /\ \A j \in 1..(HeadLen + m.Size) : f[j] = Sent(m, j)
  <1> DEFINE h == Header(m)
             y == Payload(m.from, m.Size)
             f == h \o y
  <1>1. m.Type \in Number /\ m.Size \in Number /\ m.Size \in Nat /\ m.from \in Nat  BY Parts, Zenon
  <1>2. h \in Seq(Nat) /\ Len(h) = HeadLen  BY <1>1, HeaderBytes, Zenon
  <1>3. y \in Seq(Nat) /\ Len(y) = m.Size /\ \A i \in 1..m.Size : y[i] = m.from  BY <1>1 DEF Payload
  <1>4. HeadLen = 9  BY DEF HeadLen
  <1> HIDE DEF h, y, HeadLen
  <1>5. /\ f \in Seq(Nat) /\ Len(f) = HeadLen + m.Size
        /\ \A i \in 1..HeadLen : f[i] = h[i]
        /\ \A i \in 1..m.Size : f[HeadLen + i] = y[i]
    <2>1. Joins(f, h, y, HeadLen, m.Size)  BY <1>2, <1>3, Concat
    <2> HIDE DEF f
    <2> QED  BY <2>1 DEF Joins
  <1> HIDE DEF f
  <1>6. \A j \in 1..(HeadLen + m.Size) : f[j] = Sent(m, j)
    <2> TAKE j \in 1..(HeadLen + m.Size)
    <2>1. CASE j <= HeadLen
      <3>1. j \in 1..HeadLen  BY <1>1, <1>4, <2>1
      <3> QED  BY <1>5, <2>1, <3>1, Zenon DEF Sent, h
    <2>2. CASE ~(j <= HeadLen)
      <3>1. j - HeadLen \in 1..m.Size /\ HeadLen + (j - HeadLen) = j  BY <1>1, <1>4, <2>2
      <3>2. f[j] = y[j - HeadLen] /\ y[j - HeadLen] = m.from  BY <1>3, <1>5, <3>1, Zenon
      <3> QED  BY <2>2, <3>2 DEF Sent
    <2> QED  BY <2>1, <2>2
  <1> QED  BY <1>5, <1>6 DEF h, y, f

----------------------------------------------------------------------------
(* Streams of messages.                                                     *)

\* Arithmetic of the places in a stream.
LEMMA Within ==
    ASSUME NEW a \in Nat, NEW b \in Nat, NEW x \in Nat, NEW y \in Nat, NEW h \in Nat,
           b = a + h + x, b <= y, NEW j \in 1..(h + x)
    PROVE  a + j <= y /\ a + j \in 1..y
  OBVIOUS

\* Sums of positions.
LEMMA Cancel ==
    /\ \A a, b, c \in Nat : a + c <= b + c => a <= b
    /\ \A a, b, c \in Nat : c + a <= b + c => a <= b
    /\ \A a, b, c \in Nat : a <= b => c + a <= c + b
  OBVIOUS

\* Arithmetic of places again.
LEMMA InRange ==
    ASSUME NEW a \in Nat, NEW j \in Nat, j >= 1, NEW y \in Nat, a + j <= y
    PROVE  a + j \in 1..y
  OBVIOUS

\* WriteMsg appends a message: to the stream, unless the connection has ended.
LEMMA FramedMore ==
    ASSUME NEW l \in Seq(Message), NEW k \in 0..Len(l), NEW S \in Seq(Nat), NEW cut \in BOOLEAN, NEW off,
           Framed(off, l, k, S, cut), NEW m \in Message, NEW T,
           \/ cut /\ T = S
           \/ ~cut /\ T = S \o (Header(m) \o Payload(m.from, m.Size))
    PROVE  \E o : Framed(o, Append(l, m), k, T, cut)
  <1> DEFINE n == Len(l)
             f == Header(m) \o Payload(m.from, m.Size)
             L == HeadLen + m.Size
             p == Append(l, m)
             o == [i \in k..(n + 1) |-> IF i = n + 1 THEN off[n] + L ELSE off[i]]
  <1>1. m.Size \in Nat /\ L \in Nat  BY Parts DEF HeadLen
  <1>2. f \in Seq(Nat) /\ Len(f) = L /\ \A j \in 1..L : f[j] = Sent(m, j)  BY FrameBytes, Zenon
  <1>3. n \in Nat /\ k \in Nat /\ k <= n /\ Len(p) = n + 1 /\ p[n + 1] = m /\ \A i \in 1..n : p[i] = l[i]
    OBVIOUS
  <1>4. /\ off \in [k..n -> Nat] /\ off[k] = 0
        /\ \A i, j \in k..n : i <= j => off[i] <= off[j]
        /\ \A i \in k..(n - 1) : off[i + 1] = off[i] + HeadLen + l[i + 1].Size
        /\ \A i \in k..(n - 1) : \A j \in 1..(HeadLen + l[i + 1].Size) :
              off[i] + j <= Len(S) => S[off[i] + j] = Sent(l[i + 1], j)
        /\ Len(S) <= off[n] /\ (cut \/ Len(S) = off[n])
    BY DEF Framed
  <1>5. \A i \in 1..n : l[i].Size \in Nat
    <2>1. \A i \in 1..n : l[i] \in Message  OBVIOUS
    <2> QED  BY <2>1, Parts, Zenon
  <1>6. HeadLen \in Nat  BY DEF HeadLen
  <1>7. \/ cut /\ T = S
        \/ ~cut /\ Joins(T, S, f, Len(S), L)
    BY <1>2, Concat, Zenon
  <1> HIDE DEF f, L, p, HeadLen
  <1>8. o \in [k..(n + 1) -> Nat] /\ o[k] = 0 /\ o[n + 1] = off[n] + L /\ \A i \in k..n : o[i] = off[i]
    BY <1>1, <1>3, <1>4
  <1> HIDE DEF o, n
  <1>9. \A i, j \in k..(n + 1) : i <= j => o[i] <= o[j]
    <2> TAKE i, j \in k..(n + 1)
    <2>1. CASE j = n + 1 /\ i # n + 1
      <3>1. i \in k..n /\ n \in k..n /\ i <= n  BY <1>3, <2>1
      <3>2. off[i] <= off[n] /\ off[i] \in Nat /\ off[n] \in Nat  BY <1>4, <3>1, Zenon
      <3> QED  BY <1>1, <1>8, <2>1, <3>1, <3>2
    <2>2. CASE j # n + 1 /\ i \in k..n
      <3>1. j \in k..n  BY <1>3, <2>2
      <3> QED  BY <1>4, <1>8, <2>2, <3>1
    <2>3. CASE i = n + 1 /\ j = n + 1  BY <1>8, <1>3, <2>3
    <2>4. CASE i = n + 1 /\ j # n + 1  BY <1>3, <2>4
    <2> QED  BY <1>3, <2>1, <2>2, <2>3, <2>4
  <1>10. ASSUME NEW i \in k..n
         PROVE  /\ o[i + 1] = o[i] + HeadLen + p[i + 1].Size
                /\ \A j \in 1..(HeadLen + p[i + 1].Size) :
                      o[i] + j <= Len(T) => T[o[i] + j] = Sent(p[i + 1], j)
    <2>1. CASE i = n
      <3>1. p[i + 1] = m /\ o[i] = off[n] /\ o[i + 1] = off[n] + L /\ off[n] \in Nat
        BY <1>3, <1>4, <1>8, <2>1
      <3>2. ASSUME NEW j \in 1..L, off[n] + j <= Len(T)
            PROVE  T[off[n] + j] = Sent(m, j)
        <4>1. CASE cut /\ T = S  BY <1>4, <1>1, <3>1, <3>2, <4>1
        <4>2. CASE ~cut /\ Joins(T, S, f, Len(S), L)
          <5>1. Len(S) = off[n]  BY <1>4, <4>2
          <5>2. T[Len(S) + j] = f[j]  BY <4>2 DEF Joins
          <5>3. f[j] = Sent(m, j)  BY <1>2
          <5> QED  BY <5>1, <5>2, <5>3, Zenon
        <4> QED  BY <1>7, <4>1, <4>2
      <3>3. off[n] + L = off[n] + HeadLen + m.Size
        <4>1. off[n] \in Nat /\ HeadLen \in Nat /\ m.Size \in Nat  BY <1>1, <1>6, <3>1, Zenon
        <4>2. \A a, b, c \in Nat : a + (b + c) = a + b + c  OBVIOUS
        <4> QED  BY <4>1, <4>2, Zenon DEF L
      <3> QED  BY <3>1, <3>2, <3>3, Zenon DEF L
    <2>2. CASE i # n
      <3>1. i \in k..(n - 1) /\ i \in k..n /\ i + 1 \in k..n /\ i + 1 \in 1..n  BY <1>3, <2>2
      <3>2. p[i + 1] = l[i + 1] /\ o[i] = off[i] /\ o[i + 1] = off[i + 1] /\ off[i + 1] <= off[n]
        BY <1>3, <1>4, <1>8, <3>1, SMTT(30)
      <3>3. ASSUME NEW j \in 1..(HeadLen + l[i + 1].Size), off[i] + j <= Len(T)
            PROVE  T[off[i] + j] = Sent(l[i + 1], j)
        <4>1. CASE cut /\ T = S  BY <1>4, <3>1, <3>3, <4>1, Zenon
        <4>2. CASE ~cut /\ Joins(T, S, f, Len(S), L)
          <5>1. off[i + 1] = off[i] + HeadLen + l[i + 1].Size /\ Len(S) = off[n]  BY <1>4, <3>1, <4>2
          <5>2. off[i] \in Nat /\ off[i + 1] \in Nat /\ off[n] \in Nat /\ l[i + 1].Size \in Nat
            BY <1>3, <1>4, <1>5, <3>1
          <5>3. off[i] + j <= Len(S) /\ off[i] + j \in 1..Len(S)
            <6>1. j \in 1..(HeadLen + l[i + 1].Size)  OBVIOUS
            <6>2. off[i + 1] <= Len(S) /\ Len(S) \in Nat  BY <3>2, <5>1, <5>2, Zenon
            <6>3. off[i] \in Nat /\ off[i + 1] \in Nat /\ l[i + 1].Size \in Nat  BY <5>2, Zenon
            <6>4. off[i + 1] = off[i] + HeadLen + l[i + 1].Size  BY <5>1, Zenon
            <6> HIDE DEF HeadLen
            <6> QED  BY <1>6, <6>1, <6>2, <6>3, <6>4, Within, Zenon
          <5>4. S[off[i] + j] = Sent(l[i + 1], j)  BY <1>4, <3>1, <5>3, SMTT(30)
          <5> QED  BY <4>2, <5>3, <5>4, Zenon DEF Joins
        <4> QED  BY <1>7, <4>1, <4>2
      <3> QED  BY <1>4, <3>1, <3>2, <3>3, ZenonT(60)
    <2> QED  BY <2>1, <2>2
  <1>11. Len(T) <= o[n + 1] /\ (cut \/ Len(T) = o[n + 1])
    <2>1. CASE cut /\ T = S
      <3>1. off[n] \in Nat /\ Len(S) \in Nat  BY <1>3, <1>4, SMTT(30)
      <3> QED  BY <1>1, <1>4, <1>8, <2>1, <3>1, SMTT(30)
    <2>2. CASE ~cut /\ Joins(T, S, f, Len(S), L)
      <3>1. off[n] \in Nat /\ Len(S) = off[n] /\ Len(T) = Len(S) + L  BY <1>3, <1>4, <2>2 DEF Joins
      <3> QED  BY <1>1, <1>8, <3>1, SMTT(30)
    <2> QED  BY <1>7, <2>1, <2>2
  <1>12. Len(p) - 1 = n  BY <1>3
  <1>13. Framed(o, p, k, T, cut)
    BY <1>3, <1>8, <1>9, <1>10, <1>11, <1>12, Zenon DEF Framed
  <1> QED  BY <1>13 DEF p

\* The end of the connection leaves a beginning of the stream.
LEMMA FramedCut ==
    ASSUME NEW l \in Seq(Message), NEW k \in 0..Len(l), NEW S \in Seq(Nat), NEW cut \in BOOLEAN, NEW off,
           Framed(off, l, k, S, cut), NEW T \in Seq(Nat), Len(T) <= Len(S), \A i \in 1..Len(T) : T[i] = S[i]
    PROVE  Framed(off, l, k, T, TRUE)
  <1> DEFINE n == Len(l)
  <1>1. /\ off \in [k..n -> Nat] /\ off[k] = 0
        /\ \A i, j \in k..n : i <= j => off[i] <= off[j]
        /\ \A i \in k..(n - 1) : off[i + 1] = off[i] + HeadLen + l[i + 1].Size
        /\ \A i \in k..(n - 1) : \A j \in 1..(HeadLen + l[i + 1].Size) :
              off[i] + j <= Len(S) => S[off[i] + j] = Sent(l[i + 1], j)
        /\ Len(S) <= off[n]
    BY DEF Framed
  <1>2. n \in Nat /\ k \in Nat /\ k <= n /\ Len(S) \in Nat /\ Len(T) \in Nat  OBVIOUS
  <1> HIDE DEF n
  <1>3. ASSUME NEW i \in k..(n - 1), NEW j \in 1..(HeadLen + l[i + 1].Size), off[i] + j <= Len(T)
        PROVE  T[off[i] + j] = Sent(l[i + 1], j)
    <2>1. off[i] \in Nat /\ j \in Nat /\ j >= 1
      <3>1. off \in [k..n -> Nat]  BY <1>1, Zenon
      <3>2. i \in k..n  BY <1>2
      <3>3. off[i] \in Nat  BY <3>1, <3>2, Zenon
      <3>4. j \in Nat /\ j >= 1  OBVIOUS
      <3> QED  BY <3>3, <3>4, Zenon
    <2>2. off[i] + j <= Len(S) /\ off[i] + j \in 1..Len(T)
      <3>1. off[i] + j <= Len(T)  BY <1>3
      <3>2. Len(T) <= Len(S)  OBVIOUS
      <3>3. off[i] + j >= 1  BY <2>1, SMTT(30)
      <3>4. off[i] + j <= Len(S)  BY <1>2, <2>1, <3>1, <3>2, SMTT(30)
      <3>5. off[i] + j \in 1..Len(T)  BY <1>2, <2>1, <3>1, <3>3, SMTT(30)
      <3> QED  BY <3>4, <3>5, SMTT(30)
    <2> QED  BY <1>1, <2>2, Zenon
  <1>4. Len(T) <= off[n]
    <2>1. off[n] \in Nat  BY <1>1, <1>2
    <2> QED  BY <1>1, <1>2, <2>1
  <1> QED  BY <1>1, <1>3, <1>4, Zenon DEF Framed, n

\* ReadMsg takes a message from the beginning of the stream.
LEMMA FramedRead ==
    ASSUME NEW l \in Seq(Message), NEW k \in 0..(Len(l) - 1), NEW S \in Seq(Nat), NEW cut \in BOOLEAN, NEW off,
           Framed(off, l, k, S, cut), NEW T \in Seq(Nat), NEW L, L = HeadLen + l[k + 1].Size,
           Len(S) = L + Len(T), \A i \in 1..Len(T) : T[i] = S[L + i]
    PROVE  \E o : Framed(o, l, k + 1, T, cut)
  <1> DEFINE n == Len(l)
             o == [i \in (k + 1)..n |-> off[i] - L]
  <1>1. /\ off \in [k..n -> Nat] /\ off[k] = 0
        /\ \A i, j \in k..n : i <= j => off[i] <= off[j]
        /\ \A i \in k..(n - 1) : off[i + 1] = off[i] + HeadLen + l[i + 1].Size
        /\ \A i \in k..(n - 1) : \A j \in 1..(HeadLen + l[i + 1].Size) :
              off[i] + j <= Len(S) => S[off[i] + j] = Sent(l[i + 1], j)
        /\ Len(S) <= off[n] /\ (cut \/ Len(S) = off[n])
    BY DEF Framed
  <1>2. n \in Nat /\ k \in Nat /\ k < n /\ Len(S) \in Nat /\ Len(T) \in Nat  BY SMTT(30)
  <1>3. \A i \in 1..n : l[i].Size \in Nat
    <2>1. \A i \in 1..n : l[i] \in Message  OBVIOUS
    <2> QED  BY <2>1, Parts, Zenon
  <1>4. HeadLen \in Nat  BY DEF HeadLen
  <1> HIDE DEF n, HeadLen
  <1>5. L \in Nat /\ off[k + 1] = L
    <2>1. k \in k..(n - 1) /\ k + 1 \in 1..n  BY <1>2, SMTT(30)
    <2>2. l[k + 1].Size \in Nat /\ off[k + 1] = off[k] + HeadLen + l[k + 1].Size  BY <1>1, <1>3, <2>1, SMTT(30)
    <2> QED  BY <1>1, <1>4, <2>2, SMTT(30)
  <1>6. \A i \in (k + 1)..n : off[i] \in Nat /\ off[i] >= L /\ o[i] \in Nat /\ off[i] = o[i] + L
    <2> TAKE i \in (k + 1)..n
    <2>1. k + 1 \in k..n /\ i \in k..n /\ k + 1 <= i  BY <1>2
    <2>2. off[i] \in Nat /\ off[k + 1] <= off[i]  BY <1>1, <2>1, Zenon
    <2> QED  BY <1>5, <2>2, SMTT(30)
  <1>7. o \in [(k + 1)..n -> Nat] /\ o[k + 1] = 0
    <2>1. k + 1 \in (k + 1)..n  BY <1>2
    <2>2. off[k + 1] - L = 0  BY <1>5
    <2> QED  BY <1>6, <2>1, <2>2, Zenon
  <1> HIDE DEF o
  <1>8. \A i, j \in (k + 1)..n : i <= j => o[i] <= o[j]
    <2> TAKE i, j \in (k + 1)..n
    <2>1. i \in k..n /\ j \in k..n  BY <1>2
    <2>2. i <= j => off[i] <= off[j]  BY <1>1, <2>1, SMTT(30)
    <2>3. /\ o[i] \in Nat /\ off[i] = o[i] + L
          /\ o[j] \in Nat /\ off[j] = o[j] + L
      BY <1>6, Zenon
    <2>4. o[i] + L <= o[j] + L => o[i] <= o[j]  BY <1>5, <2>3, Cancel, Zenon
    <2> QED  BY <2>2, <2>3, <2>4, Zenon
  <1>9. ASSUME NEW i \in (k + 1)..(n - 1)
        PROVE  /\ o[i + 1] = o[i] + HeadLen + l[i + 1].Size
               /\ \A j \in 1..(HeadLen + l[i + 1].Size) :
                     o[i] + j <= Len(T) => T[o[i] + j] = Sent(l[i + 1], j)
    <2>1. /\ i \in k..(n - 1) /\ i \in (k + 1)..n /\ i + 1 \in (k + 1)..n /\ i + 1 \in 1..n
      BY <1>2, SMTT(30)
    <2>2. off[i + 1] = off[i] + HeadLen + l[i + 1].Size /\ l[i + 1].Size \in Nat  BY <1>1, <1>3, <2>1
    <2>3. o[i + 1] = o[i] + HeadLen + l[i + 1].Size
      <3>1. /\ o[i] \in Nat /\ off[i] = o[i] + L
            /\ o[i + 1] \in Nat /\ off[i + 1] = o[i + 1] + L
        BY <1>6, <2>1, Zenon
      <3>2. o[i + 1] + L = (o[i] + L) + HeadLen + l[i + 1].Size  BY <2>2, <3>1, Zenon
      <3>3. o[i] \in Nat /\ o[i + 1] \in Nat /\ L \in Nat /\ l[i + 1].Size \in Nat  BY <1>5, <2>2, <3>1, Zenon
      <3>4. PICK a \in Nat, b \in Nat, x \in Nat : a = o[i] /\ b = o[i + 1] /\ x = l[i + 1].Size
        BY <3>3, Zenon
      <3>5. b + L = (a + L) + HeadLen + x  BY <3>2, <3>4, Zenon
      <3>6. PICK h \in Nat : h = HeadLen  BY <1>4
      <3>7. PICK z \in Nat : z = L  BY <3>3
      <3>8. b + z = (a + z) + h + x  BY <3>5, <3>6, <3>7, Zenon
      <3>9. b = a + h + x  BY <3>8
      <3> QED  BY <3>4, <3>6, <3>9, Zenon
    <2>4. ASSUME NEW j \in 1..(HeadLen + l[i + 1].Size), o[i] + j <= Len(T)
          PROVE  T[o[i] + j] = Sent(l[i + 1], j)
      <3>1. o[i] \in Nat /\ j \in Nat /\ j >= 1 /\ off[i] = o[i] + L  BY <1>4, <1>6, <2>1, <2>2
      <3>2. o[i] + j \in 1..Len(T) /\ L + (o[i] + j) = off[i] + j /\ off[i] + j <= Len(S)
        <4>1. o[i] + j <= Len(T)  BY <2>4
        <4>2. o[i] + j \in 1..Len(T)  BY <1>2, <3>1, <4>1, InRange, Zenon
        <4>3. L + (o[i] + j) = (o[i] + L) + j
          <5>1. PICK x \in Nat, y \in Nat, z \in Nat : x = o[i] /\ y = j /\ z = L  BY <1>5, <3>1, Zenon
          <5>2. z + (x + y) = (x + z) + y  OBVIOUS
          <5> QED  BY <5>1, <5>2, Zenon
        <4>4. L + (o[i] + j) = off[i] + j  BY <3>1, <4>3, Zenon
        <4>5. Len(S) = L + Len(T)  OBVIOUS
        <4>6. L + (o[i] + j) <= L + Len(T)
          <5>1. o[i] + j \in Nat  BY <3>1
          <5> QED  BY <1>2, <1>5, <4>1, <5>1, Cancel, Zenon
        <4>7. off[i] + j <= Len(S)  BY <4>4, <4>5, <4>6, Zenon
        <4> QED  BY <4>2, <4>4, <4>7, Zenon
      <3>3. T[o[i] + j] = S[off[i] + j]  BY <3>2, Zenon
      <3>4. S[off[i] + j] = Sent(l[i + 1], j)  BY <1>1, <2>1, <3>2, Zenon
      <3> QED  BY <3>3, <3>4
    <2> QED  BY <2>3, <2>4
  <1>10. Len(T) <= o[n] /\ (cut \/ Len(T) = o[n])
    <2>1. n \in (k + 1)..n  BY <1>2
    <2>2. o[n] \in Nat /\ off[n] = o[n] + L  BY <1>6, <2>1, Zenon
    <2>3. Len(S) = L + Len(T)  OBVIOUS
    <2>4. L + Len(T) <= o[n] + L /\ (cut \/ L + Len(T) = o[n] + L)  BY <1>1, <2>2, <2>3, Zenon
    <2>5. Len(T) <= o[n]  BY <1>2, <1>5, <2>2, <2>4, Cancel, Zenon
    <2>6. CASE cut  BY <2>5, <2>6
    <2>7. CASE L + Len(T) = o[n] + L
      <3>1. PICK x \in Nat, y \in Nat, z \in Nat : x = Len(T) /\ y = o[n] /\ z = L  BY <1>2, <1>5, <2>2, Zenon
      <3>2. z + x = y + z  BY <2>7, <3>1, Zenon
      <3>3. x = y  BY <3>2
      <3> QED  BY <2>5, <3>1, <3>3, Zenon
    <2> QED  BY <2>4, <2>6, <2>7
  <1>11. Framed(o, l, k + 1, T, cut)
    BY <1>7, <1>8, <1>9, <1>10, Zenon DEF Framed, n
  <1> QED  BY <1>11

----------------------------------------------------------------------------
(* The bytes of the stream.                                                 *)

\* Where the bytes of three sequences are once they are joined.
Joins3(s, a, b, c) ==
    /\ s \in Seq(Nat) /\ Len(s) = Len(a) + Len(b) + Len(c)
    /\ \A i \in 1..Len(a) : s[i] = a[i]
    /\ \A i \in 1..Len(b) : s[Len(a) + i] = b[i]
    /\ \A i \in 1..Len(c) : s[Len(a) + Len(b) + i] = c[i]

\* That is where they are.
LEMMA Concat3 ==
    ASSUME NEW a \in Seq(Nat), NEW b \in Seq(Nat), NEW c \in Seq(Nat)
    PROVE  Joins3(a \o (b \o c), a, b, c)
  <1> DEFINE d == b \o c
             s == a \o d
  <1>1. Joins(d, b, c, Len(b), Len(c))  BY Concat
  <1> HIDE DEF d
  <1>2. d \in Seq(Nat) /\ Len(d) = Len(b) + Len(c)  BY <1>1 DEF Joins
  <1>3. Joins(s, a, d, Len(a), Len(d))  BY <1>2, Concat, Zenon
  <1> HIDE DEF s
  <1>4. Len(a) \in Nat /\ Len(b) \in Nat /\ Len(c) \in Nat  OBVIOUS
  <1>5. s \in Seq(Nat) /\ Len(s) = Len(a) + Len(b) + Len(c)  BY <1>2, <1>3, <1>4 DEF Joins
  <1>6. \A i \in 1..Len(a) : s[i] = a[i]  BY <1>3 DEF Joins
  <1>7. ASSUME NEW i \in 1..Len(b) PROVE s[Len(a) + i] = b[i]
    <2>1. i \in 1..Len(d)  BY <1>2, <1>4
    <2> QED  BY <1>1, <1>3, <2>1, Zenon DEF Joins
  <1>8. ASSUME NEW i \in 1..Len(c) PROVE s[Len(a) + Len(b) + i] = c[i]
    <2>1. Len(b) + i \in 1..Len(d) /\ Len(a) + (Len(b) + i) = Len(a) + Len(b) + i  BY <1>2, <1>4
    <2>2. s[Len(a) + (Len(b) + i)] = d[Len(b) + i]  BY <1>3, <2>1, Zenon DEF Joins
    <2>3. d[Len(b) + i] = c[i]  BY <1>1, Zenon DEF Joins
    <2> QED  BY <2>1, <2>2, <2>3, Zenon
  <1> QED  BY <1>5, <1>6, <1>7, <1>8, Zenon DEF Joins3, s, d

\* The part of a sequence up to byte n, and the rest.
LEMMA Parted ==
    ASSUME NEW b \in Seq(Nat), NEW n \in 0..Len(b)
    PROVE  /\ SubSeq(b, 1, n) \in Seq(Nat) /\ SubSeq(b, n + 1, Len(b)) \in Seq(Nat)
           /\ Len(SubSeq(b, 1, n)) = n /\ Len(SubSeq(b, n + 1, Len(b))) = Len(b) - n
           /\ \A i \in 1..n : SubSeq(b, 1, n)[i] = b[i]
           /\ \A i \in 1..(Len(b) - n) : SubSeq(b, n + 1, Len(b))[i] = b[n + i]
           /\ SubSeq(b, 1, n) \o SubSeq(b, n + 1, Len(b)) = b
  <1>1. Len(b) \in Nat /\ 1 \in 1..(Len(b) + 1) /\ n \in (1 - 1)..Len(b) /\ Len(b) \in n..Len(b)  OBVIOUS
  <1>2. SubSeq(b, 1, n) \o SubSeq(b, n + 1, Len(b)) = SubSeq(b, 1, Len(b))
    BY <1>1, ConcatAdjacentSubSeq, Zenon
  <1>3. SubSeq(b, 1, Len(b)) = b  BY SubSeqFull, Zenon
  <1>4. SubSeq(b, 1, n) \in Seq(Nat) /\ SubSeq(b, n + 1, Len(b)) \in Seq(Nat)  OBVIOUS
  <1>5. Len(SubSeq(b, 1, n)) = n /\ Len(SubSeq(b, n + 1, Len(b))) = Len(b) - n  OBVIOUS
  <1>6. \A i \in 1..n : SubSeq(b, 1, n)[i] = b[i]  OBVIOUS
  <1>7. \A i \in 1..(Len(b) - n) : SubSeq(b, n + 1, Len(b))[i] = b[n + i]  OBVIOUS
  <1> QED  BY <1>2, <1>3, <1>4, <1>5, <1>6, <1>7, Zenon

\* Concatenation is associative.
LEMMA Assoc ==
    ASSUME NEW a \in Seq(Nat), NEW b \in Seq(Nat), NEW c \in Seq(Nat)
    PROVE  (a \o b) \o c = a \o (b \o c)
  BY ConcatAssociative, SMTT(30)

\* The types of the state, one by one.
LEMMA Types ==
    ASSUME TypeOK
    PROVE  /\ log \in Seq(Message) /\ got \in Seq(Delivered)
           /\ wire \in Seq(Nat) /\ buf \in Seq(Nat) /\ headbuf \in Seq(Nat)
           /\ closed \in BOOLEAN /\ (closed => wire = <<>>) /\ Len(headbuf) \in {0, HeadLen}
           /\ \A w \in Writer : msg[w] \in Called /\ (msg[w] # NoMsg => msg[w].from = w)
           /\ msg \in [Writer -> Called]
           /\ Stream \in Seq(Nat)
  <1>1. Stream \in Seq(Nat)  BY Concat3 DEF TypeOK, Stream, Joins3
  <1>2. \A w \in Writer : msg[w] \in Called  BY Zenon DEF TypeOK
  <1> QED  BY <1>1, <1>2, Zenon DEF TypeOK

\* A step that leaves the messages and the stream alone.
LEMMA SameStream ==
    ASSUME StreamOK, DeliveredIntact, Stream' = Stream, UNCHANGED <<log, got, closed>>
    PROVE  StreamOK' /\ DeliveredIntact'
  <1>1. log' = log /\ got' = got /\ closed' = closed  OBVIOUS
  <1>2. StreamOK'  BY <1>1, Zenon DEF StreamOK
  <1>3. DeliveredIntact'  BY <1>1, Zenon DEF DeliveredIntact
  <1> QED  BY <1>2, <1>3

\* Nothing has been written.
LEMMA InitIInv == Init => IInv
  <1> SUFFICES ASSUME Init PROVE IInv  OBVIOUS
  <1>1. TypeOK
    <2>1. NoMsg \in Called  BY Constants DEF NoMsg, Called
    <2> HIDE DEF NoMsg, Called
    <2>2. msg \in [Writer -> Called] /\ \A w \in Writer : msg[w] = NoMsg  BY <2>1 DEF Init
    <2>3. Len(headbuf) = 0  BY DEF Init
    <2>4. <<>> \in Seq(Message) /\ <<>> \in Seq(Delivered) /\ <<>> \in Seq(Nat)  OBVIOUS
    <2> QED  BY <2>2, <2>3, <2>4, Zenon DEF Init, TypeOK
  <1>2. StreamOK
    <2> DEFINE o == [i \in 0..0 |-> 0]
    <2>1. Len(got) = 0 /\ Len(log) = 0 /\ Len(Stream) = 0  BY DEF Init, Stream
    <2>2. Framed(o, log, 0, Stream, closed)
      <3>1. o \in [0..0 -> Nat] /\ o[0] = 0 /\ \A i, j \in 0..0 : o[i] <= o[j]  OBVIOUS
      <3>2. 0..(0 - 1) = {}  OBVIOUS
      <3>3. Len(Stream) <= o[0] /\ Len(Stream) = o[0]  BY <2>1
      <3> HIDE DEF o
      <3> QED  BY <2>1, <3>1, <3>2, <3>3, Zenon DEF Framed
    <2>3. 0 <= 0  OBVIOUS
    <2> QED  BY <2>1, <2>2, <2>3, Zenon DEF StreamOK
  <1>3. DeliveredIntact  BY DEF Init, DeliveredIntact
  <1> QED  BY <1>1, <1>2, <1>3 DEF IInv

----------------------------------------------------------------------------
(* One lemma per action.                                                    *)

\* Send touches no byte.
LEMMA StepSend ==
    ASSUME IInv, NEW w \in Writer, NEW t \in MsgType, NEW n \in Size, Send(w, t, n)
    PROVE  IInv'
  <1> DEFINE r == [Type |-> t, Size |-> n, from |-> w]
  <1>1. TypeOK  BY DEF IInv
  <1>2. t \in Number /\ n \in Nat  BY Constants, Zenon
  <1>3. r \in Called /\ r.from = w  BY <1>2 DEF Called
  <1>4. msg' = [msg EXCEPT ![w] = r] /\ UNCHANGED <<log, wire, buf, closed, headbuf, got, err>>  BY DEF Send
  <1> HIDE DEF r
  <1>5. msg' \in [Writer -> Called] /\ \A v \in Writer : msg'[v] = IF v = w THEN r ELSE msg[v]
    BY <1>1, <1>3, <1>4, Types
  <1>6. TypeOK'
    <2>1. \A v \in Writer : msg'[v] # NoMsg => msg'[v].from = v  BY <1>1, <1>3, <1>5, Types, Zenon
    <2> QED  BY <1>1, <1>4, <1>5, <2>1, Zenon DEF TypeOK
  <1>7. Stream' = Stream  BY <1>4 DEF Stream
  <1> QED  BY <1>4, <1>6, <1>7, SameStream DEF IInv

\* WriteMsg puts the whole message at the end of the stream, or drops all of it.
LEMMA StepWriteMsg ==
    ASSUME IInv, NEW w \in Writer, WriteMsg(w)
    PROVE  IInv'
  <1> DEFINE m == msg[w]
             f == Header(m) \o Payload(m.from, m.Size)
  <1>1. TypeOK /\ StreamOK /\ DeliveredIntact  BY DEF IInv
  <1>2. /\ log \in Seq(Message) /\ got \in Seq(Delivered) /\ wire \in Seq(Nat) /\ buf \in Seq(Nat)
        /\ headbuf \in Seq(Nat) /\ closed \in BOOLEAN /\ (closed => wire = <<>>) /\ Stream \in Seq(Nat)
    BY <1>1, Types, Zenon
  <1>3. m \in Called /\ m # NoMsg /\ m.from = w /\ m.Size <= MaxPayload
    BY <1>1, Types, Zenon DEF WriteMsg
  <1>4. m \in Message
    <2>1. m.Size \in Number  BY <1>3, Constants, Parts, Zenon
    <2> HIDE DEF m
    <2> QED  BY <1>3, <2>1 DEF Called, Message
  <1>5. /\ log' = Append(log, m) /\ msg' = [msg EXCEPT ![w] = NoMsg]
        /\ wire' = IF closed THEN wire ELSE (wire \o Header(m)) \o Payload(m.from, m.Size)
        /\ buf' = buf /\ closed' = closed /\ headbuf' = headbuf /\ got' = got
    BY <1>3 DEF WriteMsg
  <1>6. f \in Seq(Nat)  BY <1>4, FrameBytes, Zenon
  <1>7. ~closed => wire' = wire \o f
    <2>1. m.Type \in Number /\ m.Size \in Number /\ m.Size \in Nat /\ m.from \in Nat  BY <1>4, Parts, Zenon
    <2>2. Header(m) \in Seq(Nat)  BY <2>1, HeaderBytes, Zenon
    <2>3. Payload(m.from, m.Size) \in Seq(Nat)  BY <2>1 DEF Payload
    <2>4. (wire \o Header(m)) \o Payload(m.from, m.Size) = wire \o f
      <3>1. wire \in Seq(Nat)  BY <1>2
      <3> HIDE DEF m
      <3> QED  BY <2>2, <2>3, <3>1, Assoc, Zenon
    <2> QED  BY <1>5, <2>4, Zenon
  <1>8. wire' \in Seq(Nat)
    <2> HIDE DEF f
    <2> QED  BY <1>2, <1>5, <1>6, <1>7, Concat, Zenon DEF Joins
  <1>9. TypeOK'
    <2>1. NoMsg \in Called  BY Constants DEF NoMsg, Called
    <2> HIDE DEF NoMsg, Called
    <2>2. msg' \in [Writer -> Called] /\ \A v \in Writer : msg'[v] = IF v = w THEN NoMsg ELSE msg[v]
      BY <1>1, <1>5, <2>1, Types
    <2>3. \A v \in Writer : msg'[v] # NoMsg => msg'[v].from = v  BY <1>1, <2>2, Types, Zenon
    <2>4. log' \in Seq(Message)  BY <1>2, <1>4, <1>5
    <2> QED  BY <1>1, <1>2, <1>5, <1>8, <2>2, <2>3, <2>4, Zenon DEF TypeOK
  <1> HIDE DEF m, f
  <1>10. \/ closed /\ Stream' = Stream
         \/ ~closed /\ Stream' = Stream \o f
    <2>1. CASE closed  BY <1>5, <2>1 DEF Stream
    <2>2. CASE ~closed
      <3>1. Stream' = headbuf \o (buf \o (wire \o f))  BY <1>5, <1>7, <2>2, Zenon DEF Stream
      <3>2. buf \o (wire \o f) = (buf \o wire) \o f  BY <1>2, <1>6, Assoc, ZenonT(60)
      <3>3. buf \o wire \in Seq(Nat)  BY <1>2
      <3>4. headbuf \o ((buf \o wire) \o f) = (headbuf \o (buf \o wire)) \o f
        <4> DEFINE c == buf \o wire
        <4>1. headbuf \in Seq(Nat) /\ c \in Seq(Nat) /\ f \in Seq(Nat)  BY <1>2, <1>6, <3>3, Zenon
        <4> HIDE DEF c
        <4>2. headbuf \o (c \o f) = (headbuf \o c) \o f  BY <4>1, Assoc, Zenon
        <4> QED  BY <4>2 DEF c
      <3> QED  BY <2>2, <3>1, <3>2, <3>4, Zenon DEF Stream
    <2> QED  BY <2>1, <2>2
  <1>11. Len(log') = Len(log) + 1 /\ \A i \in 1..Len(log) : log'[i] = log[i]  BY <1>2, <1>5
  <1>12. Len(got) \in Nat /\ Len(log) \in Nat /\ Len(got) <= Len(log) /\ Len(got) \in 0..Len(log) /\ DOMAIN got = 1..Len(got)
    BY <1>1, <1>2 DEF StreamOK
  <1>13. StreamOK'
    <2>1. PICK off : Framed(off, log, Len(got), Stream, closed)  BY <1>1 DEF StreamOK
    <2>2. \E o : Framed(o, Append(log, m), Len(got), Stream', closed)
      BY <1>2, <1>4, <1>10, <1>12, <2>1, FramedMore, Zenon DEF f
    <2>3. Len(got) <= Len(log')  BY <1>11, <1>12
    <2> QED  BY <1>5, <2>2, <2>3, Zenon DEF StreamOK
  <1>14. DeliveredIntact'
    <2>1. \A i \in 1..Len(got) : i \in 1..Len(log)  BY <1>12
    <2>2. \A i \in DOMAIN got : log'[i] = log[i]  BY <1>11, <1>12, <2>1, Zenon
    <2>3. Len(got) <= Len(log')  BY <1>11, <1>12
    <2> QED  BY <1>1, <1>5, <2>2, <2>3, Zenon DEF DeliveredIntact
  <1> QED  BY <1>9, <1>13, <1>14 DEF IInv

\* Bytes that arrive stay in the stream.
LEMMA StepArrive ==
    ASSUME IInv, NEW n \in 1..Len(wire), Arrive(n)
    PROVE  IInv'
  <1> DEFINE a == SubSeq(wire, 1, n)
             b == SubSeq(wire, n + 1, Len(wire))
  <1>1. TypeOK /\ StreamOK /\ DeliveredIntact  BY DEF IInv
  <1>2. wire \in Seq(Nat) /\ buf \in Seq(Nat) /\ headbuf \in Seq(Nat) /\ (closed => wire = <<>>)  BY <1>1, Types, Zenon
  <1>3. n \in 0..Len(wire) /\ ~closed  BY <1>2
  <1>4. a \in Seq(Nat) /\ b \in Seq(Nat) /\ a \o b = wire  BY <1>2, <1>3, Parted, Zenon
  <1>5. /\ buf' = buf \o a /\ wire' = b
        /\ msg' = msg /\ log' = log /\ closed' = closed /\ headbuf' = headbuf /\ got' = got
    BY DEF Arrive
  <1> HIDE DEF a, b
  <1>6. TypeOK'
    <2>1. buf' \in Seq(Nat)  BY <1>2, <1>4, <1>5
    <2> QED  BY <1>1, <1>3, <1>4, <1>5, <2>1, Zenon DEF TypeOK
  <1>7. Stream' = Stream
    <2>1. (buf \o a) \o b = buf \o (a \o b)  BY <1>2, <1>4, Assoc, ZenonT(60)
    <2> QED  BY <1>4, <1>5, <2>1, Zenon DEF Stream
  <1> QED  BY <1>1, <1>5, <1>6, <1>7, SameStream DEF IInv

\* The end of the connection leaves the bytes that have arrived.
LEMMA StepClose ==
    ASSUME IInv, Close
    PROVE  IInv'
  <1> DEFINE T == headbuf \o (buf \o <<>>)
  <1>1. TypeOK /\ StreamOK /\ DeliveredIntact  BY DEF IInv
  <1>2. /\ wire \in Seq(Nat) /\ buf \in Seq(Nat) /\ headbuf \in Seq(Nat) /\ Stream \in Seq(Nat)
        /\ log \in Seq(Message) /\ got \in Seq(Delivered) /\ closed \in BOOLEAN
    BY <1>1, Types, Zenon
  <1>3. /\ closed' = TRUE /\ wire' = <<>>
        /\ msg' = msg /\ log' = log /\ buf' = buf /\ headbuf' = headbuf /\ got' = got
    BY DEF Close
  <1>4. <<>> \in Seq(Nat) /\ Len(<<>>) = 0  OBVIOUS
  <1>5. TypeOK'  BY <1>1, <1>3, <1>4, Zenon DEF TypeOK
  <1>6. Joins3(T, headbuf, buf, <<>>) /\ Joins3(Stream, headbuf, buf, wire)
    BY <1>2, <1>4, Concat3, Zenon DEF Stream
  <1>7. Stream' = T  BY <1>3 DEF Stream
  <1> HIDE DEF T
  <1>8. Len(headbuf) \in Nat /\ Len(buf) \in Nat /\ Len(wire) \in Nat  BY <1>2
  <1>9. T \in Seq(Nat) /\ Len(T) = Len(headbuf) + Len(buf) /\ Len(T) <= Len(Stream)
    <2>1. T \in Seq(Nat) /\ Len(T) = Len(headbuf) + Len(buf) + Len(<<>>)  BY <1>6, Zenon DEF Joins3
    <2>2. Len(Stream) = Len(headbuf) + Len(buf) + Len(wire)  BY <1>6, Zenon DEF Joins3
    <2> QED  BY <1>4, <1>8, <2>1, <2>2
  <1>10. ASSUME NEW i \in 1..Len(T)
         PROVE  T[i] = Stream[i]
    <2>1. CASE i \in 1..Len(headbuf)  BY <1>6, <2>1, Zenon DEF Joins3
    <2>2. CASE i \notin 1..Len(headbuf)
      <3>1. PICK j \in 1..Len(buf) : i = Len(headbuf) + j
        <4>1. i - Len(headbuf) \in 1..Len(buf) /\ i = Len(headbuf) + (i - Len(headbuf))  BY <1>8, <1>9, <2>2
        <4> QED  BY <4>1, Zenon
      <3> QED  BY <1>6, <3>1, Zenon DEF Joins3
    <2> QED  BY <2>1, <2>2, SMTT(30)
  <1>11. Len(got) <= Len(log) /\ Len(got) \in 0..Len(log)  BY <1>1, <1>2 DEF StreamOK
  <1>12. StreamOK'
    <2>1. PICK off : Framed(off, log, Len(got), Stream, closed)  BY <1>1 DEF StreamOK
    <2>2. Framed(off, log, Len(got), T, TRUE)  BY <1>2, <1>9, <1>10, <1>11, <2>1, FramedCut, Zenon
    <2> QED  BY <1>3, <1>7, <1>11, <2>2, Zenon DEF StreamOK
  <1>13. DeliveredIntact'  BY <1>1, <1>3, Zenon DEF DeliveredIntact
  <1> QED  BY <1>5, <1>12, <1>13 DEF IInv

\* The header leaves the buffer and not the stream.
LEMMA StepReadHeader ==
    ASSUME IInv, ReadHeader
    PROVE  IInv'
  <1> DEFINE a == SubSeq(buf, 1, HeadLen)
             b == SubSeq(buf, HeadLen + 1, Len(buf))
  <1>1. TypeOK /\ StreamOK /\ DeliveredIntact  BY DEF IInv
  <1>2. wire \in Seq(Nat) /\ buf \in Seq(Nat) /\ headbuf \in Seq(Nat)  BY <1>1, Types, Zenon
  <1>3. HeadLen \in 0..Len(buf)  BY <1>2 DEF ReadHeader, CanReadFull, HeadLen
  <1>4. a \in Seq(Nat) /\ b \in Seq(Nat) /\ a \o b = buf /\ Len(a) = HeadLen  BY <1>2, <1>3, Parted, Zenon
  <1>5. /\ headbuf = <<>> /\ headbuf' = a /\ buf' = b
        /\ msg' = msg /\ log' = log /\ wire' = wire /\ closed' = closed /\ got' = got
    BY DEF ReadHeader
  <1> HIDE DEF a, b
  <1>6. TypeOK'  BY <1>1, <1>4, <1>5, Zenon DEF TypeOK
  <1>7. Stream' = Stream
    <2>1. (a \o b) \o wire = a \o (b \o wire)
      <3>1. a \in Seq(Nat) /\ b \in Seq(Nat) /\ wire \in Seq(Nat)  BY <1>2, <1>4, Zenon
      <3> QED  BY <3>1, Assoc, Zenon
    <2>2. Stream = buf \o wire
      <3>1. buf \o wire \in Seq(Nat)  BY <1>2
      <3> QED  BY <1>5, <3>1, ConcatEmptySeq DEF Stream
    <2> QED  BY <1>4, <1>5, <2>1, <2>2, Zenon DEF Stream
  <1> QED  BY <1>1, <1>5, <1>6, <1>7, SameStream DEF IInv

\* The end of readLoop changes nothing else.
LEMMA StepReadError ==
    ASSUME IInv, UNCHANGED <<msg, log, wire, buf, closed, headbuf, got>>
    PROVE  IInv'
  <1>1. TypeOK'  BY Zenon DEF IInv, TypeOK
  <1>2. Stream' = Stream  BY DEF Stream
  <1> QED  BY <1>1, <1>2, SameStream DEF IInv

\* When ReadMsg has a header, it is the one of the message after those that were read.
LEMMA HeaderRight ==
    ASSUME TypeOK, StreamOK, headbuf # <<>>
    PROVE  /\ Len(got) \in 0..(Len(log) - 1) /\ log[Len(got) + 1] \in Message
           /\ HeadType = log[Len(got) + 1].Type /\ HeadSize = log[Len(got) + 1].Size
           /\ \A i \in 1..Len(buf) : i <= HeadSize => buf[i] = log[Len(got) + 1].from
  <1> DEFINE k == Len(got)
             n == Len(log)
             m == log[k + 1]
  <1>1. /\ log \in Seq(Message) /\ got \in Seq(Delivered) /\ wire \in Seq(Nat) /\ buf \in Seq(Nat)
        /\ headbuf \in Seq(Nat) /\ Len(headbuf) \in {0, HeadLen}
    BY Types, Zenon
  <1>2. HeadLen = 9  BY DEF HeadLen
  <1>3. Len(headbuf) = HeadLen  BY <1>1
  <1>4. Joins3(Stream, headbuf, buf, wire)  BY <1>1, Concat3 DEF Stream
  <1>5. PICK off : Framed(off, log, k, Stream, closed)  BY DEF StreamOK
  <1>6. k \in Nat /\ n \in Nat /\ k <= n  BY <1>1 DEF StreamOK
  <1>7. Len(buf) \in Nat /\ Len(wire) \in Nat  BY <1>1
  <1>8. Len(Stream) = HeadLen + Len(buf) + Len(wire)  BY <1>3, <1>4, Zenon DEF Joins3
  <1>9. k < n
    <2>1. off[k] = 0 /\ Len(Stream) <= off[n]  BY <1>5, Zenon DEF Framed
    <2>2. Len(Stream) >= 9  BY <1>2, <1>7, <1>8
    <2>3. k # n  BY <1>2, <1>7, <2>1, <2>2, <1>8
    <2> QED  BY <1>6, <2>3
  <1>10. m \in Message  BY <1>1, <1>6, <1>9
  <1>11. m.Type \in Number /\ m.Size \in Number /\ m.Size \in Nat  BY <1>10, Parts, Zenon
  <1>12. \A j \in 1..(HeadLen + m.Size) : j <= Len(Stream) => Stream[j] = Sent(m, j)
    <2>1. off[k] = 0  BY <1>5, Zenon DEF Framed
    <2>2. k \in k..(n - 1)  BY <1>6, <1>9
    <2>3. \A j \in 1..(HeadLen + m.Size) : off[k] + j <= Len(Stream) => Stream[off[k] + j] = Sent(m, j)
      BY <1>5, <2>2, Zenon DEF Framed
    <2> TAKE j \in 1..(HeadLen + m.Size)
    <2>4. 0 + j = j  BY <1>2, <1>11
    <2> QED  BY <2>1, <2>3, <2>4, Zenon
  <1>13. ASSUME NEW i \in 1..9
         PROVE  headbuf[i] = Header(m)[i]
    <2>1. i \in 1..(HeadLen + m.Size) /\ i <= Len(Stream) /\ i <= HeadLen /\ i \in 1..Len(headbuf)
      <3>1. i \in 1..(HeadLen + m.Size)  BY <1>2, <1>11
      <3>2. i <= HeadLen + Len(buf) + Len(wire)  BY <1>2, <1>7
      <3>3. i <= Len(Stream)  BY <1>8, <3>2, Zenon
      <3>4. i <= HeadLen /\ i \in 1..Len(headbuf)  BY <1>2, <1>3
      <3> QED  BY <3>1, <3>3, <3>4, Zenon
    <2>2. Stream[i] = headbuf[i]  BY <1>4, <2>1, Zenon DEF Joins3
    <2>3. Stream[i] = Header(m)[i]  BY <1>12, <2>1, Zenon DEF Sent
    <2> QED  BY <2>2, <2>3, Zenon
  <1>14. HeadType = m.Type
    <2> DEFINE b == SubSeq(headbuf, 2, 5)
    <2>1. \A i \in 1..4 : b[i] = putInt32(m.Type)[i]
      <3> TAKE i \in 1..4
      <3>1. b[i] = headbuf[i + 1] /\ i + 1 \in 1..9  BY <1>1, <1>2, <1>3
      <3>2. Header(m)[i + 1] = putInt32(m.Type)[i]  BY <1>11, HeaderBytes, Zenon
      <3> QED  BY <1>13, <3>1, <3>2, Zenon
    <2> HIDE DEF m
    <2>2. readInt32(b) = m.Type
      <3> HIDE DEF b
      <3> QED  BY <1>11, <2>1, ReadBack, Zenon
    <2> QED  BY <2>2, Zenon DEF HeadType
  <1>15. HeadSize = m.Size
    <2> DEFINE b == SubSeq(headbuf, 6, 9)
    <2>1. \A i \in 1..4 : b[i] = putInt32(m.Size)[i]
      <3> TAKE i \in 1..4
      <3>1. b[i] = headbuf[i + 5] /\ i + 5 \in 1..9  BY <1>1, <1>2, <1>3
      <3>2. Header(m)[i + 5] = putInt32(m.Size)[i]  BY <1>11, HeaderBytes, Zenon
      <3> QED  BY <1>13, <3>1, <3>2, Zenon
    <2> HIDE DEF m
    <2>2. readInt32(b) = m.Size
      <3> HIDE DEF b
      <3> QED  BY <1>11, <2>1, ReadBack, Zenon
    <2> QED  BY <2>2, Zenon DEF HeadSize
  <1>16. ASSUME NEW i \in 1..Len(buf), i <= HeadSize
         PROVE  buf[i] = m.from
    <2>1. i <= m.Size  BY <1>15, <1>16, Zenon
    <2>2. HeadLen + i \in 1..(HeadLen + m.Size)  BY <1>2, <1>7, <1>11, <2>1
    <2>3. ~(HeadLen + i <= HeadLen)  BY <1>2, <1>7
    <2>4. HeadLen + i <= HeadLen + Len(buf) + Len(wire)  BY <1>2, <1>7
    <2>5. HeadLen + i <= Len(Stream)  BY <1>8, <2>4, Zenon
    <2>6. Stream[HeadLen + i] = buf[i]  BY <1>3, <1>4, Zenon DEF Joins3
    <2>7. Stream[HeadLen + i] = m.from  BY <1>12, <2>2, <2>3, <2>5, Zenon DEF Sent
    <2> QED  BY <2>6, <2>7, Zenon
  <1>17. k \in 0..(n - 1)  BY <1>6, <1>9
  <1> QED  BY <1>10, <1>14, <1>15, <1>16, <1>17, Zenon

\* ReadMsg returns the next message, and the stream goes on with the one after it.
LEMMA StepReadPayload ==
    ASSUME IInv, ReadPayload
    PROVE  IInv'
  <1> DEFINE k == Len(got)
             n == Len(log)
             m == log[k + 1]
             a == SubSeq(buf, 1, HeadSize)
             b == SubSeq(buf, HeadSize + 1, Len(buf))
             r == [Type |-> m.Type, Size |-> m.Size, Payload |-> Payload(m.from, m.Size)]
  <1>1. TypeOK /\ StreamOK /\ DeliveredIntact  BY DEF IInv
  <1>2. /\ log \in Seq(Message) /\ got \in Seq(Delivered) /\ wire \in Seq(Nat) /\ buf \in Seq(Nat)
        /\ headbuf \in Seq(Nat) /\ closed \in BOOLEAN /\ Len(headbuf) \in {0, HeadLen} /\ Stream \in Seq(Nat)
    BY <1>1, Types, Zenon
  <1>3. /\ headbuf # <<>> /\ Len(buf) >= HeadSize
        /\ got' = Append(got, [Type |-> HeadType, Size |-> HeadSize, Payload |-> a])
        /\ buf' = b /\ headbuf' = <<>>
        /\ msg' = msg /\ log' = log /\ wire' = wire /\ closed' = closed
    BY DEF ReadPayload, CanReadFull
  <1>4. /\ k \in 0..(n - 1) /\ m \in Message /\ HeadType = m.Type /\ HeadSize = m.Size
        /\ \A i \in 1..Len(buf) : i <= HeadSize => buf[i] = m.from
    BY <1>1, <1>3, HeaderRight, Zenon
  <1>5. m.Type \in Number /\ m.Type \in Nat /\ m.Size \in Nat /\ m.from \in Nat  BY <1>4, Parts, Numbers, Zenon
  <1>6. k \in Nat /\ n \in Nat /\ k < n /\ Len(buf) \in Nat /\ Len(wire) \in Nat  BY <1>2, <1>4
  <1>7. HeadSize \in 0..Len(buf)
    <2>1. Len(buf) >= m.Size  BY <1>3, <1>4, Zenon
    <2>2. m.Size \in 0..Len(buf)  BY <1>5, <1>6, <2>1
    <2> QED  BY <1>4, <2>2, Zenon
  <1> HIDE DEF HeadSize, HeadType
  <1>8. /\ a \in Seq(Nat) /\ b \in Seq(Nat) /\ Len(a) = HeadSize /\ Len(b) = Len(buf) - HeadSize
        /\ \A i \in 1..HeadSize : a[i] = buf[i]
        /\ \A i \in 1..(Len(buf) - HeadSize) : b[i] = buf[HeadSize + i]
    BY <1>2, <1>7, Parted, Zenon
  <1> HIDE DEF a, b, m
  <1>9. a = Payload(m.from, m.Size)
    <2> DEFINE y == Payload(m.from, m.Size)
    <2>1. y \in Seq(Nat) /\ Len(y) = m.Size /\ \A i \in 1..m.Size : y[i] = m.from  BY <1>5 DEF Payload
    <2> HIDE DEF y
    <2>2. \A i \in 1..HeadSize : i \in 1..Len(buf) /\ i <= HeadSize  BY <1>6, <1>7
    <2>3. \A i \in 1..Len(a) : a[i] = y[i]  BY <1>4, <1>8, <2>1, <2>2, Zenon
    <2>4. Len(a) = Len(y)  BY <1>4, <1>8, <2>1, Zenon
    <2>5. a = y  BY <1>8, <2>1, <2>3, <2>4, SeqEqual, Zenon
    <2> QED  BY <2>5 DEF y
  <1>10. got' = Append(got, r)  BY <1>3, <1>4, <1>9, Zenon
  <1>11. r \in Delivered
    <2>1. Payload(m.from, m.Size) \in Seq(Nat)  BY <1>8, <1>9, Zenon
    <2> QED  BY <1>5, <2>1 DEF Delivered
  <1> HIDE DEF r, Delivered
  <1>12. got' \in Seq(Delivered) /\ Len(got') = k + 1 /\ DOMAIN got' = 1..(k + 1) /\ got'[k + 1] = r
         /\ \A i \in 1..k : got'[i] = got[i]
    BY <1>2, <1>10, <1>11
  <1>13. TypeOK'
    <2>1. <<>> \in Seq(Nat) /\ Len(<<>>) = 0  OBVIOUS
    <2> QED  BY <1>1, <1>3, <1>8, <1>12, <2>1, Zenon DEF TypeOK
  <1>14. StreamOK'
    <2> DEFINE T == <<>> \o (b \o wire)
               L == HeadLen + m.Size
    <2>1. Stream' = T  BY <1>3 DEF Stream
    <2>2. <<>> \in Seq(Nat) /\ Len(<<>>) = 0  OBVIOUS
    <2>3. Joins3(T, <<>>, b, wire) /\ Joins3(Stream, headbuf, buf, wire)
      BY <1>2, <1>8, <2>2, Concat3, Zenon DEF Stream
    <2> HIDE DEF T, L
    <2>4. HeadLen = 9 /\ Len(headbuf) = HeadLen  BY <1>2, <1>3 DEF HeadLen
    <2>5. T \in Seq(Nat) /\ Len(T) = 0 + Len(b) + Len(wire)  BY <2>2, <2>3, Zenon DEF Joins3
    <2>6. Len(Stream) = HeadLen + Len(buf) + Len(wire)  BY <2>3, <2>4, Zenon DEF Joins3
    <2>7. Len(b) = Len(buf) - m.Size /\ Len(b) \in Nat  BY <1>4, <1>6, <1>7, <1>8
    <2>8. Len(T) = Len(b) + Len(wire) /\ Len(Stream) = L + Len(T)
      BY <1>5, <1>6, <2>4, <2>5, <2>6, <2>7, SMTT(30) DEF L
    <2>9. ASSUME NEW i \in 1..Len(T)
          PROVE  T[i] = Stream[L + i]
      <3>1. CASE i \in 1..Len(b)
        <4>1. T[0 + i] = b[i]  BY <2>2, <2>3, <3>1, Zenon DEF Joins3
        <4>2. b[i] = buf[m.Size + i]  BY <1>4, <1>8, <3>1, Zenon
        <4>3. m.Size + i \in 1..Len(buf)  BY <1>5, <1>6, <2>7, <3>1, SMTT(30)
        <4>4. Stream[HeadLen + (m.Size + i)] = buf[m.Size + i]  BY <2>3, <2>4, <4>3, Zenon DEF Joins3
        <4>5. HeadLen + (m.Size + i) = L + i /\ 0 + i = i  BY <1>5, <2>4, <2>7, <3>1, SMTT(30) DEF L
        <4> QED  BY <4>1, <4>2, <4>4, <4>5, Zenon
      <3>2. CASE i \notin 1..Len(b)
        <4>1. PICK j \in 1..Len(wire) : i = Len(b) + j
          <5>1. i - Len(b) \in 1..Len(wire) /\ i = Len(b) + (i - Len(b))  BY <1>6, <2>7, <2>8, <3>2, SMTT(30)
          <5> QED  BY <5>1, Zenon
        <4>2. T[0 + Len(b) + j] = wire[j]  BY <2>2, <2>3, Zenon DEF Joins3
        <4>3. Stream[HeadLen + Len(buf) + j] = wire[j]  BY <2>3, <2>4, Zenon DEF Joins3
        <4>4. HeadLen + Len(buf) + j = L + (Len(b) + j) /\ 0 + Len(b) + j = Len(b) + j
          BY <1>5, <1>6, <2>4, <2>7, SMTT(30) DEF L
        <4> QED  BY <4>1, <4>2, <4>3, <4>4, Zenon
      <3> QED  BY <3>1, <3>2
    <2>10. PICK off : Framed(off, log, k, Stream, closed)  BY <1>1, Zenon DEF StreamOK
    <2>11. L = HeadLen + log[k + 1].Size  BY DEF L, m
    <2>12. \E o : Framed(o, log, k + 1, T, closed)
      <3>1. log \in Seq(Message) /\ k \in 0..(Len(log) - 1) /\ Stream \in Seq(Nat) /\ closed \in BOOLEAN
        BY <1>2, <1>4, Zenon
      <3>2. T \in Seq(Nat) /\ Len(Stream) = L + Len(T)  BY <2>5, <2>8, Zenon
      <3> HIDE DEF k, n
      <3> QED  BY <2>9, <2>10, <2>11, <3>1, <3>2, FramedRead, Zenon
    <2>13. k + 1 <= n  BY <1>6
    <2> QED  BY <1>3, <1>12, <2>1, <2>12, <2>13, Zenon DEF StreamOK
  <1>15. DeliveredIntact'
    <2>1. k + 1 <= n  BY <1>6
    <2>2. ASSUME NEW i \in 1..(k + 1)
          PROVE  got'[i] = [Type |-> log[i].Type, Size |-> log[i].Size, Payload |-> Payload(log[i].from, log[i].Size)]
      <3>1. CASE i = k + 1  BY <1>12, <3>1, Zenon DEF r, m
      <3>2. CASE i # k + 1
        <4>1. i \in 1..k /\ DOMAIN got = 1..k  BY <1>2, <1>6, <3>2
        <4> QED  BY <1>1, <1>12, <4>1, Zenon DEF DeliveredIntact
      <3> QED  BY <3>1, <3>2
    <2> QED  BY <1>3, <1>12, <2>1, <2>2, Zenon DEF DeliveredIntact
  <1> QED  BY <1>13, <1>14, <1>15 DEF IInv

\* The invariant of the framing, for any step.
LEMMA StepIInv == IInv /\ [Next]_vars => IInv'
  <1> SUFFICES ASSUME IInv, [Next]_vars PROVE IInv'  OBVIOUS
  <1>1. CASE \E w \in Writer, t \in MsgType, n \in Size : Send(w, t, n)  BY <1>1, StepSend, Zenon
  <1>2. CASE \E w \in Writer : WriteMsg(w)  BY <1>2, StepWriteMsg, Zenon
  <1>3. CASE \E n \in 1..Len(wire) : Arrive(n)  BY <1>3, StepArrive, Zenon
  <1>4. CASE Close  BY <1>4, StepClose
  <1>5. CASE ReadHeader  BY <1>5, StepReadHeader
  <1>6. CASE ReadPayload  BY <1>6, StepReadPayload
  <1>7. CASE ReadError  BY <1>7, StepReadError, Zenon DEF ReadError
  <1>8. CASE UNCHANGED vars  BY <1>8, StepReadError DEF vars
  <1> QED  BY <1>1, <1>2, <1>3, <1>4, <1>5, <1>6, <1>7, <1>8, Zenon DEF Next, Read

----------------------------------------------------------------------------
(* The theorems.                                                            *)

\* The bytes on their way are at any time the messages that are still to be read, in
\* the order WriteMsg wrote them and with nothing between them.
THEOREM WireInv == Spec => []IInv
  BY InitIInv, StepIInv, PTL DEF Spec

\* However many goroutines call WriteMsg, and in whatever portions the bytes arrive or
\* wherever the connection ends, ReadMsg returns the messages written, whole and in order.
THEOREM ReadsWhatWasWritten == Spec => []DeliveredIntact
  <1>1. IInv => DeliveredIntact  BY DEF IInv
  <1> QED  BY <1>1, WireInv, PTL
=============================================================================
