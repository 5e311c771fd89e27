------------------------------ MODULE RlpTypes ------------------------------
(***************************************************************************)
(* Encoding and decoding by type: the writers of rlp/encode.go and the     *)
(* decoders of rlp/decode.go that makeWriter and makeDecoder choose.       *)
(*                                                                         *)
(* Type gives every type its kind k, its element or fields, and its size.  *)
(* A field has a type and a tag: "", "nil", "tail" or "-".  Values: numbers *)
(* and Booleans; sequences of bytes for strings and byte arrays, and of    *)
(* values for slices, arrays and structs; a pointer is a sequence of at    *)
(* most one value, <<>> being nil; an interface has its dynamic type t and *)
(* value v.  Kind "list" is an array of other things than bytes, "coder" a *)
(* type with EncodeRLP and DecodeRLP like those of core/types/log.go.       *)
(***************************************************************************)
EXTENDS RlpStream, RlpEncode

CONSTANT Type

NilIface == [t |-> "nil", v |-> <<>>]

\* reflect.Zero
RECURSIVE Zero(_)
Zero(t) ==
    LET d == Type[t]
    IN  IF d.k = "uint" THEN 0
        ELSE IF d.k = "bool" THEN FALSE
        ELSE IF d.k = "iface" THEN NilIface
        ELSE IF d.k = "array" THEN [i \in 1..d.n |-> 0]
        ELSE IF d.k = "list" THEN [i \in 1..d.n |-> Zero(d.elem)]
        ELSE IF d.k = "struct" THEN [i \in DOMAIN d.fields |-> Zero(d.fields[i].t)]
        ELSE <<>>

----------------------------------------------------------------------------
(* Writers.                                                                 *)

Written(w) == [w |-> w, err |-> ""]

writeUint(n, w) ==
    Write(w, IF n = 0 THEN <<128>> ELSE IF n < 128 THEN <<n>> ELSE <<128 + Len(putint(n))>> \o putint(n))

writeBigInt(v, w) ==
    IF v # <<>> /\ v[1] < 0 THEN [w |-> w, err |-> "Negative"]
    ELSE Written(IF v = <<>> \/ v = <<0>> THEN Write(w, <<128>>) ELSE encodeString(w, putint(v[1])))

\* The header that list has just added, finished by listEnd: for a slice also after an
\* error, for a struct not.
Ended(r, i) == [r EXCEPT !.w = listEnd(@, i)]
EndedUnlessFailed(r, i) == IF r.err # "" THEN r ELSE Ended(r, i)

RECURSIVE write(_, _, _, _), writeAll(_, _, _), writePtr(_, _, _), EncodeRLP(_, _, _)

\* The elements or fields x, each [t, tag, v], one after the other up to an error.
writeAll(x, i, r) ==
    IF r.err # "" \/ i > Len(x) THEN r
    ELSE writeAll(x, i + 1, IF x[i].tag = "-" THEN r ELSE write(x[i].t, x[i].tag, x[i].v, r.w))

\* What a pointer to type t points to, or for nil what its zero value would be.
writePtr(t, v, w) ==
    IF v # <<>> THEN write(t, "", v[1], w)
    ELSE IF Type[t].k = "array" THEN Written(Write(w, <<128>>))
    ELSE IF Type[t].k \in {"struct", "list"} THEN Ended(Written(list(w)), Len(w.lheads) + 1)
    ELSE write(t, "", Zero(t), w)

\* A Log is encoded as a struct of those of its fields that are consensus data.
EncodeRLP(d, v, w) == write(d.inner, "", v, w)

write(t, tag, v, w) ==
    LET d == Type[t]
        i == Len(w.lheads) + 1
        elems == [j \in DOMAIN v |-> [t |-> d.elem, tag |-> "", v |-> v[j]]]
        fields == [j \in DOMAIN v |-> [t |-> d.fields[j].t, tag |-> d.fields[j].tag, v |-> v[j]]]
    IN  CASE d.k = "raw" -> Written(Write(w, v))
          [] d.k = "coder" -> EncodeRLP(d, v, w)
          [] d.k = "iface" -> IF v = NilIface THEN Written(Write(w, <<192>>)) ELSE write(v.t, "", v.v, w)
          [] d.k = "bigint" -> writeBigInt(v, w)
          [] d.k = "uint" -> Written(writeUint(v, w))
          [] d.k = "bool" -> Written(Write(w, IF v THEN <<1>> ELSE <<128>>))
          [] d.k \in {"string", "bytes", "array"} -> Written(encodeString(w, v))
          [] d.k = "slice" /\ tag = "tail" -> writeAll(elems, 1, Written(w))
          [] d.k \in {"slice", "list"} /\ tag # "tail" -> Ended(writeAll(elems, 1, Written(list(w))), i)
          [] d.k = "struct" -> EndedUnlessFailed(writeAll(fields, 1, Written(list(w))), i)
          [] d.k = "ptr" -> writePtr(d.elem, v, w)

----------------------------------------------------------------------------
(* Decoders.                                                                *)

BigIntOf(b) ==
    IF b.err # "" THEN b
    ELSE IF b.v # <<>> /\ b.v[1] = 0 THEN Fail(b.s, "CanonInt")
    ELSE Ok(b.s, <<Number(b.v)>>)

decodeBigInt(st) == BigIntOf(Bytes(st))

\* The error of Uint is dropped: a zero byte does not advance the stream.
ByteArrayAt(k, vlen) ==
    LET r == readFull(k.s, vlen)
    IN  IF k.err # "" THEN k
        ELSE IF k.s.kind = List THEN Fail(k.s, "ExpectedString")
        ELSE IF k.s.kind = Byte
             THEN IF vlen # 1 THEN Fail(k.s, "Length") ELSE Ok(uint(k.s, 64).s, <<k.s.byteval>>)
        ELSE IF k.s.size # vlen THEN Fail(k.s, "Length")
        ELSE IF r.err = "" /\ vlen = 1 /\ r.v[1] < 128 THEN Fail(r.s, "CanonSize")
        ELSE r

decodeByteArray(st, vlen) == ByteArrayAt(Kind(st), vlen)

\* The value v instead of what was read, unless that has failed.
Mapped(r, v) == IF r.err # "" THEN r ELSE Ok(r.s, v)

\* ListEnd, with the value v of the list that has ended.
Closed(st, v) == Mapped(ListEnd(st), v)
ClosedAfter(e) == IF e.err # "" THEN e ELSE Closed(e.s, e.v)

RECURSIVE decode(_, _, _), ElemsAfter(_, _, _), decodeSliceElems(_, _, _), ListSliceAt(_, _), decodeListSlice(_, _)
RECURSIVE FieldsAfter(_, _, _), decodeFields(_, _, _), FieldsAt(_, _), PtrAt(_, _, _, _), decodePtr(_, _, _)
RECURSIVE InterfaceAt(_, _), decodeInterface(_, _), DecodeRLP(_, _)

\* Up to the end of the list, of which the elements v are decoded, and e is the next.
ElemsAfter(t, v, e) ==
    IF e.err = "EOL" THEN Ok(e.s, v)
    ELSE IF e.err # "" THEN e
    ELSE decodeSliceElems(t, Append(v, e.v), e.s)

decodeSliceElems(t, v, st) == ElemsAfter(t, v, decode(t, "", st))

ListSliceAt(t, l) ==
    IF l.err # "" THEN l
    ELSE IF l.v = 0 THEN Closed(l.s, <<>>)
    ELSE ClosedAfter(decodeSliceElems(t, <<>>, l.s))

decodeListSlice(t, st) == ListSliceAt(t, OpenList(st))

\* The fields of a struct, or the elements of an array, after those in v; e is the next.
FieldsAfter(x, v, e) ==
    IF e.err = "EOL" THEN Fail(e.s, "TooFew")
    ELSE IF e.err # "" THEN e
    ELSE decodeFields(x, Append(v, e.v), e.s)

decodeFields(x, v, st) ==
    LET f == x[Len(v) + 1]
    IN  IF Len(v) = Len(x) THEN Closed(st, v)
        ELSE FieldsAfter(x, v, IF f.tag = "-" THEN Ok(st, Zero(f.t)) ELSE decode(f.t, f.tag, st))

\* A list l that has been opened, of the things x.
FieldsAt(x, l) == IF l.err # "" THEN l ELSE decodeFields(x, <<>>, l.s)

decodeListArray(t, n, st) == FieldsAt([i \in 1..n |-> [t |-> t, tag |-> ""]], OpenList(st))

PtrTo(e) == Mapped(e, <<e.v>>)

\* A pointer to t, which with the tag "nil" is nil for an empty value.
PtrAt(t, tag, st, k) ==
    IF tag = "nil" /\ (k.err # "" \/ (k.s.size = 0 /\ k.s.kind # Byte))
    THEN [s |-> Rearmed(k.s), err |-> k.err, v |-> <<>>]
    ELSE PtrTo(decode(t, "", st))

decodePtr(t, tag, st) == PtrAt(t, tag, st, Kind(st))

Dynamic(r, t) == Mapped(r, [t |-> t, v |-> r.v])

InterfaceAt(t, k) ==
    IF k.err # "" THEN k
    ELSE IF k.s.kind = List THEN Dynamic(decodeListSlice(t, k.s), "ifaces")
    ELSE Dynamic(Bytes(k.s), "bytes")

decodeInterface(t, st) == InterfaceAt(t, Kind(st))

DecodeRLP(d, st) == decode(d.inner, "", st)

decode(t, tag, st) ==
    LET d == Type[t]
    IN  CASE d.k = "raw" -> Raw(st)
          [] d.k = "coder" -> DecodeRLP(d, st)
          [] d.k = "bigint" -> decodeBigInt(st)
          [] d.k = "uint" -> uint(st, d.bits)
          [] d.k = "bool" -> Bool(st)
          [] d.k \in {"string", "bytes"} -> Bytes(st)
          [] d.k = "array" -> decodeByteArray(st, d.n)
          [] d.k = "slice" /\ tag = "tail" -> decodeSliceElems(d.elem, <<>>, st)
          [] d.k = "slice" /\ tag # "tail" -> decodeListSlice(d.elem, st)
          [] d.k = "list" -> decodeListArray(d.elem, d.n, st)
          [] d.k = "struct" -> FieldsAt(d.fields, OpenList(st))
          [] d.k = "ptr" -> decodePtr(d.elem, tag, st)
          [] d.k = "iface" -> decodeInterface(t, st)

\* One value and nothing after it.
OnlyValue(r) == IF r.err = "" /\ r.s.in # <<>> THEN Fail(r.s, "MoreThanOneValue") ELSE r

DecodeBytes(t, b) == OnlyValue(decode(t, "", NewStream(Reader(b, TRUE), Len(b))))
=============================================================================
