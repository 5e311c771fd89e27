------------------------------- MODULE RlpRaw -------------------------------
(***************************************************************************)
(* rlp/raw.go: taking encoded values apart in a byte slice, without a      *)
(* Stream.  Errors are named as in RlpStream.                              *)
(***************************************************************************)
EXTENDS RlpStream

RawErr(err) == [k |-> Byte, tagsize |-> 0, contentsize |-> 0, err |-> err]

readSize_Loose(b, slen) ==
    IF slen > Len(b) THEN [v |-> 0, err |-> "UnexpectedEOF"] ELSE [v |-> Number(SubSeq(b, 1, slen)), err |-> ""]
readSize(b, slen) ==
    IF slen > Len(b) THEN [v |-> 0, err |-> "UnexpectedEOF"]
    ELSE IF Number(SubSeq(b, 1, slen)) < 56 \/ b[1] = 0 THEN [v |-> 0, err |-> "CanonSize"]
    ELSE [v |-> Number(SubSeq(b, 1, slen)), err |-> ""]

\* The tag, with slen bytes of size behind its first byte, must leave room for the content.
Sized(buf, kind, slen) ==
    LET z == readSize(Tail(buf), slen)
    IN  IF z.err # "" THEN RawErr(z.err)
        ELSE [k |-> kind, tagsize |-> slen + 1, contentsize |-> z.v, err |-> ""]

Fitting(buf, r) == IF r.err = "" /\ r.contentsize > Len(buf) - r.tagsize THEN RawErr("ValueTooLarge") ELSE r

readKindOf(buf) ==
    LET b == buf[1]
        short(kind, n) == [k |-> kind, tagsize |-> 1, contentsize |-> n, err |-> ""]
    IN  IF buf = <<>> THEN RawErr("UnexpectedEOF")
        ELSE IF b < 128 THEN [k |-> Byte, tagsize |-> 0, contentsize |-> 1, err |-> ""]
        ELSE IF b = 129 /\ Len(buf) > 1 /\ buf[2] < 128 THEN RawErr("CanonSize")
        ELSE Fitting(buf, IF b < 184 THEN short(String, b - 128)
                          ELSE IF b < 192 THEN Sized(buf, String, b - 183)
                          ELSE IF b < 248 THEN short(List, b - 192)
                          ELSE Sized(buf, List, b - 247))

\* The first value's content and what comes after it.
Split(b) ==
    LET r == readKindOf(b)
        n == r.tagsize + r.contentsize
    IN  IF r.err # "" THEN [k |-> Byte, content |-> <<>>, rest |-> b, err |-> r.err]
        ELSE [k |-> r.k, content |-> SubSeq(b, r.tagsize + 1, n), rest |-> SubSeq(b, n + 1, Len(b)), err |-> ""]

SplitString(b) ==
    LET r == Split(b)
    IN  IF r.err = "" /\ r.k = List THEN [r EXCEPT !.content = <<>>, !.rest = b, !.err = "ExpectedString"] ELSE r

SplitList(b) ==
    LET r == Split(b)
    IN  IF r.err = "" /\ r.k # List THEN [r EXCEPT !.content = <<>>, !.rest = b, !.err = "ExpectedList"] ELSE r

\* The number of values in b, or -1 for an error.
RECURSIVE CountFrom(_, _)
CountFrom(b, i) ==
    LET r == readKindOf(b)
    IN  IF b = <<>> THEN i
        ELSE IF r.err # "" THEN -1
        ELSE CountFrom(SubSeq(b, r.tagsize + r.contentsize + 1, Len(b)), i + 1)

CountValues(b) == CountFrom(b, 0)

ListSize(contentSize) == headsize(contentSize) + contentSize
=============================================================================
