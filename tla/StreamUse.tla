------------------------------ MODULE StreamUse ------------------------------
(***************************************************************************)
(* Piecemeal use of a Stream: a decoder, the caller's or one of decode.go, *)
(* calls its operations in any order, also after one of them has failed.   *)
(***************************************************************************)
EXTENDS RlpStream

CONSTANT
    Input       \* what there is to decode, and how the stream is made for it

\* Any bytes, from any reader, with any limit (0 is none), also as a stream within a list.
ASSUME InputAssumption ==
    Input \subseteq [data : Seq(0..255), sized : BOOLEAN, limit : Nat, list : BOOLEAN]

VARIABLES
    input,      \* what is decoded
    s,          \* the stream
    base,       \* for each open list, what remained when it was opened (for the properties)
    last        \* the last operation, its error, and whether one has failed since Reset

streamVars == <<input, s, base, last>>

Started(i) == IF i.list THEN NewListStream(Reader(i.data, i.sized), i.limit)
              ELSE NewStream(Reader(i.data, i.sized), i.limit)

NoOp == [op |-> "", err |-> "", failed |-> FALSE]

StreamInit ==
    /\ input \in Input /\ s = Started(input)
    /\ base = <<>> /\ last = NoOp

----------------------------------------------------------------------------
Step(op, r) ==
    /\ s' = r.s
    /\ last' = [op |-> op, err |-> r.err, failed |-> last.failed \/ r.err # ""]
    /\ UNCHANGED input

Kind_ == Step("Kind", Kind(s)) /\ UNCHANGED base
Bytes_ == Step("Bytes", Bytes(s)) /\ UNCHANGED base
Raw_ == Step("Raw", Raw(s)) /\ UNCHANGED base
Uint_ == \E bits \in {8, 64} : Step("Uint", uint(s, bits)) /\ UNCHANGED base
Bool_ == Step("Bool", Bool(s)) /\ UNCHANGED base

List_ ==
    LET r == OpenList(s)
    IN  Step("List", r) /\ base' = IF r.err = "" THEN Append(base, r.s.remaining) ELSE base

ListEnd_ ==
    LET r == ListEnd(s)
    IN  Step("ListEnd", r) /\ base' = IF r.err = "" THEN SubSeq(base, 1, Len(base) - 1) ELSE base

\* The stream is used again, for the same bytes.
Reset_ ==
    /\ s' = Reset(s, Reader(input.data, input.sized), input.limit)
    /\ base' = <<>> /\ last' = NoOp /\ UNCHANGED input

StreamNext == Kind_ \/ Bytes_ \/ Raw_ \/ Uint_ \/ Bool_ \/ List_ \/ ListEnd_ \/ Reset_

StreamSpec == StreamInit /\ [][StreamNext]_streamVars

----------------------------------------------------------------------------
(* Properties.                                                              *)

\* No list is read beyond its end, and every list lies within the one around it:
\* the unsigned size - pos in Kind and willRead is never negative.
ListsNested ==
    \A i \in DOMAIN s.stack :
        /\ s.stack[i].pos <= s.stack[i].size
        /\ i + 1 \in DOMAIN s.stack => s.stack[i + 1].size <= s.stack[i].size - s.stack[i].pos

\* Within a list the input limit is never met: what remains of the limit always
\* covers what is left of the list, since the outermost list was checked against
\* it.  So willRead, which charges the list before it looks at the limit, never
\* charges bytes that are not read.
LimitCoversList ==
    s.limited /\ InList(s) => s.remaining >= Left(s) /\ last.err # "ValueTooLarge"

\* The value whose type tag follows p bytes of b: how many bytes its size has, its
\* size, whether b has all of its header, and where it ends.
SizeLen(b, p) ==
    IF b[p + 1] >= 248 THEN b[p + 1] - 247 ELSE IF b[p + 1] \in 184..191 THEN b[p + 1] - 183 ELSE 0
ValueSize(b, p) ==
    IF b[p + 1] < 128 THEN 0
    ELSE IF SizeLen(b, p) > 0 THEN Number(SubSeq(b, p + 2, p + 1 + SizeLen(b, p)))
    ELSE IF b[p + 1] < 192 THEN b[p + 1] - 128 ELSE b[p + 1] - 192
HasHeader(b, p) == p < Len(b) /\ p + SizeLen(b, p) < Len(b)
ValueEnd(b, p) == p + 1 + SizeLen(b, p) + ValueSize(b, p)

\* Where the values of b, one after the other, begin.
OneMore(b, begin) == begin \cup {ValueEnd(b, p) : p \in {q \in begin : HasHeader(b, q)}}
Boundaries(b) ==
    LET at[n \in 0..Len(b)] == IF n = 0 THEN {0} ELSE OneMore(b, at[n - 1])
    IN  at[Len(b)]

\* As long as nothing has failed, and outside of lists, the reader is just before
\* the type tag of a value: no operation leaves part of a value behind, in any
\* order of List, ListEnd and the others.
AtBoundary ==
    ~last.failed /\ ~InList(s) /\ s.kind = -1 /\ ~input.list =>
        Len(input.data) - Len(s.in) \in Boundaries(input.data)
=============================================================================
