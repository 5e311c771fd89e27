------------------------------ MODULE RlpStream ------------------------------
(***************************************************************************)
(* The Stream of rlp/decode.go: piecemeal decoding of RLP.                  *)
(*                                                                         *)
(* A stream is a record: in, what its reader has still to give; remaining  *)
(* and limited, the input limit; kind, size, byteval and kinderr, what Kind*)
(* has found ahead (kind is -1 before it looked); stack, the lists that    *)
(* are open, each with the position in it and its size.  An operation      *)
(* takes a stream and gives the stream it leaves, the error and the value. *)
(***************************************************************************)
EXTENDS RlpHead

Byte == 0
String == 1
List == 2

Ok(s, v) == [s |-> s, err |-> "", v |-> v]
Fail(s, err) == [s |-> s, err |-> err, v |-> <<>>]

\* A reader: the bytes it has, and whether it is a bytes.Reader, which knows how many.
Reader(b, sized) == [data |-> b, sized |-> sized]

Reset(s, r, inputLimit) ==
    [s EXCEPT !.in = r.data,
              !.remaining = IF inputLimit > 0 THEN inputLimit ELSE IF r.sized THEN Len(r.data) ELSE @,
              !.limited = inputLimit > 0 \/ r.sized,
              !.stack = <<>>, !.size = 0, !.kind = -1, !.kinderr = ""]

NewStream(r, inputLimit) ==
    Reset([in |-> <<>>, remaining |-> 0, limited |-> FALSE, kind |-> 0, size |-> 0,
           byteval |-> 0, kinderr |-> "", stack |-> <<>>], r, inputLimit)

NewListStream(r, len) == [NewStream(r, len) EXCEPT !.kind = List, !.size = len]

----------------------------------------------------------------------------
(* Reading bytes.                                                           *)

InList(s) == Len(s.stack) > 0
Tos(s) == s.stack[Len(s.stack)]

\* What the innermost list has left.
Left(s) == Tos(s).size - Tos(s).pos

\* The list is charged before the limit is looked at.
Charge(s, n) == IF InList(s) THEN [s EXCEPT !.stack[Len(s.stack)].pos = @ + n] ELSE s

willRead(s, n) ==
    LET t == [s EXCEPT !.kind = -1]
    IN  IF InList(s) /\ n > Left(s) THEN Fail(t, "ElemTooLarge")
        ELSE IF s.limited /\ n > s.remaining THEN Fail(Charge(t, n), "ValueTooLarge")
        ELSE Ok([Charge(t, n) EXCEPT !.remaining = IF s.limited THEN @ - n ELSE @], <<>>)

\* The bytes that are there are taken, if willRead has let them, with w.
Taken(s, n, w) ==
    LET got == IF n > Len(s.in) THEN Len(s.in) ELSE n
        t == [w.s EXCEPT !.in = SubSeq(@, got + 1, Len(@))]
    IN  IF w.err # "" THEN w
        ELSE IF got < n THEN Fail(t, "UnexpectedEOF")
        ELSE Ok(t, SubSeq(s.in, 1, n))

\* readFull into a buffer of n bytes; readByte is the same for one.
readFull(s, n) == Taken(s, n, willRead(s, n))

\* A number, of the n bytes that are read.
UintOf(n, r) ==
    IF r.err # "" THEN r
    ELSE IF n > 1 /\ r.v[1] = 0 THEN Fail(r.s, "CanonSize")
    ELSE Ok(r.s, Number(r.v))

readUint(s, n) == IF n = 0 THEN Ok([s EXCEPT !.kind = -1], 0) ELSE UintOf(n, readFull(s, n))

----------------------------------------------------------------------------
(* The type tag of the value ahead.                                         *)

Found(s, kind, size, err) == [s EXCEPT !.kind = kind, !.size = size, !.kinderr = err]

\* A value whose size, r, follows the tag.
Long_Loose(kind, r) == Found(r.s, kind, IF r.err # "" THEN 0 ELSE r.v, r.err)
Long(kind, r) ==
    IF r.err # "" THEN Found(r.s, kind, 0, r.err)
    ELSE Found(r.s, kind, r.v, IF r.v < 56 THEN "CanonSize" ELSE "")

\* At toplevel the end of the input is EOF.
TagErr(s, err) == IF ~InList(s) /\ err \in {"UnexpectedEOF", "ValueTooLarge"} THEN "EOF" ELSE err

\* The tag is r.
Tagged(s, r) ==
    LET b == r.v[1]
        t == [r.s EXCEPT !.byteval = IF b < 128 THEN b ELSE 0]
    IN  IF r.err # "" THEN Found(r.s, Byte, 0, TagErr(s, r.err))
        ELSE IF b < 128 THEN Found(t, Byte, 0, "")
        ELSE IF b < 184 THEN Found(t, String, b - 128, "")
        ELSE IF b < 192 THEN Long(String, readUint(t, b - 183))
        ELSE IF b < 248 THEN Found(t, List, b - 192, "")
        ELSE Long(List, readUint(t, b - 247))

readKind(s) == Tagged(s, readFull(s, 1))

\* The value ahead must fit into the list it is in, or else into the limit.
Fits_Toplevel(s) == ~s.limited \/ s.size <= s.remaining
Fits(s) == IF InList(s) THEN s.size <= Left(s) ELSE ~s.limited \/ s.size <= s.remaining

Fitted(s, k) ==
    IF k.kinderr = "" /\ ~Fits(k)
    THEN [k EXCEPT !.kinderr = IF InList(s) THEN "ElemTooLarge" ELSE "ValueTooLarge"] ELSE k

\* The kind is known, or why it is not.
Known(s) == [s |-> s, err |-> s.kinderr, v |-> <<>>]

Kind(s) ==
    IF s.kind >= 0 THEN Known(s)
    ELSE IF InList(s) /\ Left(s) = 0 THEN Fail([s EXCEPT !.kinderr = ""], "EOL")
    ELSE Known(Fitted(s, readKind(s)))

----------------------------------------------------------------------------
(* Reading values.                                                          *)

Rearmed(s) == [s EXCEPT !.kind = -1]

\* In each case k is what Kind has given.
BytesAt(k) ==
    LET r == readFull(k.s, k.s.size)
    IN  IF k.err # "" THEN k
        ELSE IF k.s.kind = Byte THEN Ok(Rearmed(k.s), <<k.s.byteval>>)
        ELSE IF k.s.kind = List THEN Fail(k.s, "ExpectedString")
        ELSE IF r.err = "" /\ k.s.size = 1 /\ r.v[1] < 128 THEN Fail(r.s, "CanonSize")
        ELSE r

Bytes(s) == BytesAt(Kind(s))

\* The header has been read: Raw makes it again.
RawAt(k) ==
    LET r == readFull(k.s, k.s.size)
        tag == IF k.s.kind = String THEN puthead(128, 183, k.s.size) ELSE puthead(192, 247, k.s.size)
    IN  IF k.err # "" THEN k
        ELSE IF k.s.kind = Byte THEN Ok(Rearmed(k.s), <<k.s.byteval>>)
        ELSE IF r.err # "" THEN r
        ELSE Ok(r.s, tag \o r.v)

Raw(s) == RawAt(Kind(s))

UintAt(k, maxbits) ==
    LET r == readUint(k.s, k.s.size)
    IN  IF k.err # "" THEN k
        ELSE IF k.s.kind = Byte
             THEN IF k.s.byteval = 0 THEN Fail(k.s, "CanonInt") ELSE Ok(Rearmed(k.s), k.s.byteval)
        ELSE IF k.s.kind = List THEN Fail(k.s, "ExpectedString")
        ELSE IF k.s.size > maxbits \div 8 THEN Fail(k.s, "UintOverflow")
        ELSE IF r.err # "" THEN Fail(r.s, IF r.err = "CanonSize" THEN "CanonInt" ELSE r.err)
        ELSE IF k.s.size > 0 /\ r.v < 128 THEN Fail(r.s, "CanonSize")
        ELSE r

uint(s, maxbits) == UintAt(Kind(s), maxbits)

BoolOf(u) ==
    IF u.err # "" THEN u
    ELSE IF u.v > 1 THEN Fail(u.s, "InvalidBool")
    ELSE Ok(u.s, u.v = 1)

Bool(s) == BoolOf(uint(s, 8))

ListAt(k) ==
    IF k.err # "" THEN k
    ELSE IF k.s.kind # List THEN Fail(k.s, "ExpectedList")
    ELSE Ok([k.s EXCEPT !.stack = Append(@, [pos |-> 0, size |-> k.s.size]), !.kind = -1, !.size = 0], k.s.size)

OpenList(s) == ListAt(Kind(s))

\* The enclosing list is charged with the list only now.
Popped_Uncharged(s) == [s EXCEPT !.stack = SubSeq(@, 1, Len(@) - 1), !.kind = -1, !.size = 0]
Popped(s) == Charge([s EXCEPT !.stack = SubSeq(@, 1, Len(@) - 1), !.kind = -1, !.size = 0], Tos(s).size)

ListEnd_Early(s) == IF ~InList(s) THEN Fail(s, "NotInList") ELSE Ok(Popped(s), <<>>)
ListEnd(s) ==
    IF ~InList(s) THEN Fail(s, "NotInList")
    ELSE IF Left(s) # 0 THEN Fail(s, "NotAtEOL")
    ELSE Ok(Popped(s), <<>>)
=============================================================================
