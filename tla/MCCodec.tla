------------------------------ MODULE MCCodec ------------------------------
(* Types of every kind, with values at the boundaries of the format; inputs *)
(* of all sequences of up to three telling bytes, and some longer ones.     *)
EXTENDS Codec, TLC

CONSTANTS p1, p2

F(t, tag) == [t |-> t, tag |-> tag]
Struct(fields) == [k |-> "struct", fields |-> fields]
Ptr(t) == [k |-> "ptr", elem |-> t]
Slice(t) == [k |-> "slice", elem |-> t]

MCType ==
    "u8" :> [k |-> "uint", bits |-> 8] @@ "u16" :> [k |-> "uint", bits |-> 16]
    @@ "bool" :> [k |-> "bool"] @@ "string" :> [k |-> "string"] @@ "bytes" :> [k |-> "bytes"]
    @@ "big" :> [k |-> "bigint"] @@ "raw" :> [k |-> "raw"] @@ "chan" :> [k |-> "chan"]
    @@ "iface" :> [k |-> "iface"] @@ "ifaces" :> Slice("iface")
    @@ "hash" :> [k |-> "array", n |-> 2] @@ "octet" :> [k |-> "array", n |-> 1] @@ "hashes" :> Slice("hash")
    @@ "u16s" :> Slice("u16") @@ "pair" :> [k |-> "list", elem |-> "u8", n |-> 2] @@ "pu16" :> Ptr("u16")
    @@ "pack" :> Struct(<<F("u8", ""), F("bytes", "")>>)
    @@ "tail" :> Struct(<<F("u8", ""), F("u16s", "tail")>>)
    @@ "opt" :> Struct(<<F("pu16", "nil"), F("u8", "")>>)
    @@ "skip" :> Struct(<<F("u8", ""), F("chan", "-"), F("bool", "")>>)
    \* a type within itself
    @@ "node" :> Struct(<<F("u8", ""), F("pnode", "nil")>>) @@ "pnode" :> Ptr("node")
    \* types that cannot be encoded, and one that has one within
    @@ "bad" :> Struct(<<F("pin", ""), F("chan", "")>>) @@ "pbad" :> Ptr("bad")
    @@ "in" :> Struct(<<F("u8", ""), F("pbad", "")>>) @@ "pin" :> Ptr("in")
    @@ "badtail" :> Struct(<<F("u16s", "tail"), F("u8", "")>>)
    \* core/types.Log; core.Event as it is hashed
    @@ "log" :> [k |-> "coder", inner |-> "rlpLog"] @@ "rlpLog" :> Struct(<<F("hash", ""), F("hashes", ""), F("bytes", "")>>)
    @@ "trans" :> Struct(<<>>) @@ "ptrans" :> Ptr("trans") @@ "ptranss" :> Slice("ptrans") @@ "sig" :> Struct(<<F("hash", "")>>)

Data(n) == [i \in 1..n |-> i % 7]
As(t, v) == [t |-> t, v |-> v]
Str(n) == As("bytes", Data(n))

Event(stamp) == <<As("big", <<stamp>>), As("ptranss", <<<<<<>>>>>>), As("hash", <<0, 9>>), As("sig", <<<<1, 200>>>>), As("hash", <<7, 7>>)>>

TwoNodes == LET two == <<2, <<>>>> IN <<1, <<two>>>>
ALog == <<<<1, 2>>, <<<<3, 4>>>>, <<5>>>>

\* Values that come back the same.
Values ==
    ({"u16"} \X {0, 1, 127, 128, 255, 256, 65535}) \cup ({"bool"} \X BOOLEAN)
    \cup ({"string", "bytes"} \X {<<>>, <<0>>, <<127>>, <<128>>, Data(55), Data(56)})
    \cup ({"big"} \X {<<0>>, <<1>>, <<300>>, <<70000>>}) \cup {<<"raw", <<193, 5>>>>, <<"octet", <<0>>>>, <<"octet", <<200>>>>}
    \cup ({"ifaces"} \X {<<>>, <<Str(54)>>, <<Str(55)>>, <<Str(1), As("ifaces", <<Str(52)>>), As("ifaces", <<>>)>>,
                         <<As("ifaces", <<Str(53)>>)>>})
    \cup ({"hashes"} \X {<<>>, <<<<0, 1>>>>, <<<<0, 0>>, <<200, 0>>>>}) \cup ({"u16s"} \X {<<>>, <<0, 300>>})
    \cup {<<"pair", <<0, 129>>>>, <<"pu16", <<5>>>>, <<"pack", <<7, <<1, 2>>>>>>, <<"skip", <<1, <<>>, TRUE>>>>}
    \cup ({"tail"} \X {<<1, <<>>>>, <<1, <<2, 300>>>>}) \cup ({"opt"} \X {<<<<>>, 3>>, <<<<4>>, 3>>})
    \cup {<<"node", <<0, <<>>>>>>, <<"node", TwoNodes>>, <<"log", ALog>>}

\* Values that others come back for, or that fail.
Others == {<<"ifaces", Event(300)>>, <<"ifaces", Event(-1)>>, <<"iface", NilIface>>, <<"big", <<>>>>, <<"pu16", <<>>>>,
           <<"pnode", <<>>>>, <<"bad", <<<<>>, <<>>>>>>, <<"in", <<1, <<>>>>>>, <<"badtail", <<<<>>, 1>>>>}

Enc(k, x, room) == [k |-> k, t |-> x[1], v |-> x[2], room |-> room]
Dec(t, b) == [k |-> "decode", t |-> t, data |-> b]

\* Sizes of two bytes.
Large == {<<"string", Data(256)>>, <<"ifaces", <<As("ifaces", <<Str(54), Str(0)>>), Str(255)>>>>}

Alone == {Enc("bytes", x, 0) : x \in Values \cup Large} \cup {Enc("hash", x, 0) : x \in Values \cup Others}
    \cup {Enc("reader", x, r) : x \in Values \cup Others, r \in {1, 4, 100}}
    \cup {Enc("reader", x, 100) : x \in Large}

\* Jobs that run at the same time.
Concurrent == {Enc(k, x, 6) : k \in Encoding, x \in {<<"log", ALog>>, <<"node", TwoNodes>>, <<"bad", <<<<>>, <<>>>>>>}}
    \cup {Enc(k, <<"ifaces", Event(300)>>, 9) : k \in {"reader", "hash"}}
    \cup {Dec("node", <<194, 5, 192>>)}

Telling == {0, 127, 128, 129, 130, 184, 192, 193, 194, 248}
Short == UNION {[1..n -> Telling] : n \in 0..3}
Longer == {<<h>> \o x : h \in {131, 195}, x \in [1..3 -> {0, 1, 128, 129, 193}]}
\* Sizes in long form, needed or not, before one value of just that size, more or less.
LongForm == UNION {{<<184, n>> \o x, <<248, n>> \o x, <<185, 0, n>> \o x} :
                      n \in {55, 56}, x \in {<<127 + m>> \o Data(m - 1) : m \in {55, 56}} \cup {<<183>> \o Data(55) \o <<5>>}}
    \cup {<<249, 1, 0>> \o Data(2), <<185, 1, 0>> \o Data(2)}

Decoded == {Dec(t, b) : t \in {"iface", "u16", "bool", "string", "big", "raw", "hash", "octet", "u16s", "hashes", "pair", "pack", "tail", "skip"},
                        b \in Short \cup Longer}
    \cup {Dec(t, b) : t \in {"iface", "string", "u16s", "raw"}, b \in LongForm}

MCJobs == {(p1 :> j) @@ (p2 :> Idle) : j \in Alone \cup Decoded} 
    \cup {(p1 :> i) @@ (p2 :> j) : i \in {x \in Concurrent : x.k # "hash"}, j \in {x \in Concurrent : x.k # "bytes"}}

In(d, sized, limit, l) == [data |-> d, sized |-> sized, limit |-> limit, list |-> l]
MCNoInput == In(<<>>, TRUE, 0, FALSE)

\* A bytes.Reader; other readers, without a limit or with one, smaller and larger
\* than what they have; a stream within a list.
Nested == {<<h>> \o x : h \in {194, 195}, x \in [1..3 -> {0, 5, 129, 130, 192, 193}]} \cup LongForm
MCInput == {In(d, TRUE, 0, FALSE) : d \in Nested \cup Short} 
    \cup UNION {{In(d, FALSE, 0, FALSE), In(d, FALSE, 6, FALSE), In(d, FALSE, 2, TRUE)} : d \in Nested}
=============================================================================
