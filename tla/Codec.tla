-------------------------------- MODULE Codec --------------------------------
(***************************************************************************)
(* Goroutines that encode, hash and decode: EncodeToBytes, EncodeToReader  *)
(* and its encReader (p2p.Send), Encode into a hash (rlpHash of            *)
(* core/types.go), DecodeBytes.  They share the type cache and the pool of *)
(* encode buffers.  Or else, one caller uses a Stream piecemeal (module    *)
(* StreamUse).                                                             *)
(*                                                                         *)
(* Every goroutine has a job: a kind k, a type t, and a value v to encode  *)
(* (read with room bytes at a time) or data to decode.                     *)
(***************************************************************************)
EXTENDS RlpTypes, RlpRaw, StreamUse, Sponge, FiniteSets

CONSTANTS
    Goroutine,
    Jobs,           \* what the goroutines do: a set of functions from Goroutine to jobs
    NoInput         \* the input of the unused stream, when there are jobs

TC == INSTANCE TypeCache

VARIABLES
    job, g,         \* each goroutine's job, and where it is with it
    typeCache,      \* the cache and its cells
    typeCacheMutex, \* who holds it for writing, or {}
    encbufs,        \* the buffers there are
    encbufPool      \* those that are free

codecVars == <<job, g, typeCache, typeCacheMutex, encbufs, encbufPool>>
vars == <<codecVars, streamVars>>

Idle == [k |-> "none"]
AllIdle == [p \in Goroutine |-> Idle]
Encoding == {"bytes", "reader", "hash"}

\* The types that are looked up when a value is encoded: its own, and where the
\* writer comes to an interface or an EncodeRLP, the type in there.
RECURSIVE Lookups(_, _), Flat(_)
Flat(x) == IF x = <<>> THEN <<>> ELSE Head(x) \o Flat(Tail(x))
Lookups(t, v) ==
    LET d == Type[t]
    IN  IF d.k = "iface" THEN IF v = NilIface THEN <<>> ELSE <<<<v.t, "">>>> \o Lookups(v.t, v.v)
        ELSE IF d.k = "coder" THEN <<<<d.inner, "">>>> \o Lookups(d.inner, v)
        ELSE IF d.k \in {"slice", "list", "ptr"} THEN Flat([i \in DOMAIN v |-> Lookups(d.elem, v[i])])
        ELSE IF d.k = "struct" THEN Flat([i \in DOMAIN v |-> Lookups(d.fields[i].t, v[i])])
        ELSE <<>>

Start(j) ==
    [pc |-> IF j.k \in Encoding THEN "get" ELSE IF j.k = "decode" THEN "rlock" ELSE "done",
     todo |-> IF j.k \in Encoding THEN <<<<j.t, "">>>> \o Lookups(j.t, j.v)
              ELSE IF j.k = "decode" THEN <<<<j.t, "">>>> \o (IF Type[j.t].k = "coder" THEN <<<<Type[j.t].inner, "">>>> ELSE <<>>)
              ELSE <<>>,
     info |-> <<>>, buf |-> 0, r |-> NewReader, room |-> 0, size |-> 0,
     out |-> <<>>, d |-> Fresh, sum |-> <<>>, res |-> <<>>, err |-> ""]

Init ==
    /\ \/ job \in Jobs /\ input = NoInput /\ s = Started(NoInput) /\ base = <<>> /\ last = NoOp
       \/ job = AllIdle /\ StreamInit
    /\ g = [p \in Goroutine |-> Start(job[p])]
    /\ typeCache = TC!EmptyCache /\ typeCacheMutex = {}
    /\ encbufs = <<>> /\ encbufPool = {}

----------------------------------------------------------------------------
(* cachedTypeInfo.                                                          *)

\* The lock that a reader of the cache needs.
RLocked_Never == TRUE
RLocked == typeCacheMutex = {}

HasInfo(p, id) == [g EXCEPT ![p].pc = "rlock", ![p].todo = Tail(@), ![p].info = Append(@, [key |-> Head(g[p].todo), id |-> id])]

\* The lookup under the read lock.
Lookup(p) ==
    /\ g[p].pc = "rlock" /\ g[p].todo # <<>> /\ RLocked
    /\ LET key == Head(g[p].todo)
       IN  g' = IF key \in DOMAIN typeCache.cache THEN HasInfo(p, typeCache.cache[key]) ELSE [g EXCEPT ![p].pc = "lock"]
    /\ UNCHANGED <<job, typeCache, typeCacheMutex, encbufs, encbufPool, streamVars>>

\* The write lock, and the lookup again.  The dummy goes into the cache.
Lock(p) ==
    /\ g[p].pc = "lock" /\ typeCacheMutex = {}
    /\ LET key == Head(g[p].todo)
       IN  IF key \in DOMAIN typeCache.cache
           THEN g' = HasInfo(p, typeCache.cache[key]) /\ UNCHANGED <<typeCache, typeCacheMutex>>
           ELSE /\ g' = [g EXCEPT ![p].pc = "gen"]
                /\ typeCache' = TC!WithDummy(typeCache, key) /\ typeCacheMutex' = {p}
    /\ UNCHANGED <<job, encbufs, encbufPool, streamVars>>

\* The buffer goes back, if there is one.
Put(p) == encbufPool' = encbufPool \cup ({g[p].buf} \ {0})

\* The digest of what Encode has written into the hash, all or, after an error, none.
rlpHash(p) == Sum(g[p].d)

\* A job has failed.  EncodeToReader keeps the buffer, the others give it back.
Failed(p, err) ==
    /\ g' = [g EXCEPT ![p].pc = "done", ![p].err = err, ![p].buf = 0,
                      ![p].sum = IF job[p].k = "hash" THEN rlpHash(p) ELSE @]
    /\ IF job[p].k = "reader" THEN UNCHANGED encbufPool ELSE Put(p)

\* The typeinfo is generated, and the lock released.
Generate(p) ==
    /\ g[p].pc = "gen"
    /\ LET c == TC!genTypeInfo(typeCache, Head(g[p].todo))
       IN  /\ typeCache' = [c EXCEPT !.refs = <<>>, !.id = 0, !.err = ""]
           /\ IF c.err # "" THEN Failed(p, c.err) ELSE g' = HasInfo(p, c.id) /\ UNCHANGED encbufPool
    /\ typeCacheMutex' = {}
    /\ UNCHANGED <<job, encbufs, streamVars>>

----------------------------------------------------------------------------
(* Encoding.                                                                *)

\* The pool gives a free buffer or a new one, and it is reset.
Get(p) ==
    /\ g[p].pc = "get"
    /\ \E b \in encbufPool \cup {Len(encbufs) + 1} :
          /\ g' = [g EXCEPT ![p].pc = "rlock", ![p].buf = b]
          /\ encbufs' = IF b > Len(encbufs) THEN Append(encbufs, NewBuf) ELSE [encbufs EXCEPT ![b] = reset(@)]
          /\ encbufPool' = encbufPool \ {b}
    /\ UNCHANGED <<job, typeCache, typeCacheMutex, streamVars>>

\* What EncodeToReader does with its buffer: it stays with the reader.
Keep(p) == UNCHANGED encbufPool

\* All types are known: the value is written into the buffer.
Encode(p) ==
    /\ g[p].pc = "rlock" /\ g[p].todo = <<>> /\ job[p].k \in Encoding
    /\ LET b == g[p].buf
           e == write(job[p].t, "", job[p].v, encbufs[b])
       IN  /\ encbufs' = [encbufs EXCEPT ![b] = e.w]
           /\ \/ e.err # "" /\ Failed(p, e.err)
              \/ /\ e.err = "" /\ job[p].k = "bytes"
                 /\ g' = [g EXCEPT ![p].pc = "done", ![p].out = toBytes(e.w), ![p].buf = 0] /\ Put(p)
              \/ /\ e.err = "" /\ job[p].k = "reader"
                 /\ g' = [g EXCEPT ![p].pc = "read", ![p].size = size(e.w)] /\ Keep(p)
              \/ /\ e.err = "" /\ job[p].k = "hash"
                 /\ g' = [g EXCEPT ![p].pc = "towriter"] /\ UNCHANGED encbufPool
    /\ UNCHANGED <<job, typeCache, typeCacheMutex, streamVars>>

\* The caller calls Read.
ReadCall(p) ==
    /\ g[p].pc = "read" /\ g' = [g EXCEPT ![p].pc = "reading", ![p].room = job[p].room]
    /\ UNCHANGED <<job, typeCache, typeCacheMutex, encbufs, encbufPool, streamVars>>

\* One turn of its loop.  At EOF the buffer goes back to the pool; the caller reads
\* once more and gets EOF again, without a buffer.
ReadTurn(p) ==
    /\ g[p].pc = "reading"
    /\ LET t == Turn(encbufs[g[p].buf], g[p].r, g[p].room)
       IN  \/ /\ t.end = "EOF"
              /\ g' = [g EXCEPT ![p].pc = "eof", ![p].buf = 0] /\ Put(p)
           \/ /\ t.end # "EOF"
              /\ g' = [g EXCEPT ![p].out = @ \o t.got, ![p].r = t.r, ![p].room = @ - Len(t.got),
                                ![p].pc = IF t.end = "full" THEN "read" ELSE "reading"]
              /\ UNCHANGED encbufPool
    /\ UNCHANGED <<job, typeCache, typeCacheMutex, encbufs, streamVars>>

ReadAtEOF(p) ==
    /\ g[p].pc = "eof" /\ g' = [g EXCEPT ![p].pc = "done"] /\ Put(p)
    /\ UNCHANGED <<job, typeCache, typeCacheMutex, encbufs, streamVars>>

\* One Write of toWriter into the hash; after the last, the buffer goes back and the
\* digest is taken.
ToWriter(p) ==
    /\ g[p].pc = "towriter"
    /\ LET t == next(encbufs[g[p].buf], g[p].r.c)
       IN  \/ /\ t.piece = <<>>
              /\ g' = [g EXCEPT ![p].pc = "done", ![p].buf = 0, ![p].sum = rlpHash(p)] /\ Put(p)
           \/ /\ t.piece # <<>>
              /\ g' = [g EXCEPT ![p].r.c = t.c, ![p].out = @ \o t.piece, ![p].d = SpongeWrite(@, t.piece)]
              /\ UNCHANGED encbufPool
    /\ UNCHANGED <<job, typeCache, typeCacheMutex, encbufs, streamVars>>

----------------------------------------------------------------------------
Decode(p) ==
    /\ g[p].pc = "rlock" /\ g[p].todo = <<>> /\ job[p].k = "decode"
    /\ LET r == DecodeBytes(job[p].t, job[p].data)
       IN  g' = [g EXCEPT ![p].pc = "done", ![p].err = r.err, ![p].res = IF r.err = "" THEN <<r.v>> ELSE <<>>]
    /\ UNCHANGED <<job, typeCache, typeCacheMutex, encbufs, encbufPool, streamVars>>

Run(p) ==
    \/ Get(p) \/ Lookup(p) \/ Lock(p) \/ Generate(p) \/ Encode(p)
    \/ ReadCall(p) \/ ReadTurn(p) \/ ReadAtEOF(p) \/ ToWriter(p) \/ Decode(p)

UseStream == job = AllIdle /\ StreamNext /\ UNCHANGED codecVars

\* All jobs are done: no deadlock.
AllDone == (\A p \in Goroutine : g[p].pc = "done") /\ job # AllIdle /\ UNCHANGED vars

Next == (\E p \in Goroutine : Run(p)) \/ UseStream \/ AllDone

Spec == Init /\ [][Next]_vars
----------------------------------------------------------------------------
(* The encoding and the digest that there should be.                        *)

Header(tag, n) == IF n < 56 THEN <<tag + n>> ELSE <<tag + 55 + intsize(n)>> \o putint(n)
RefString(b) == IF Len(b) = 1 /\ b[1] < 128 THEN b ELSE Header(128, Len(b)) \o b
RefList(b) == Header(192, Len(b)) \o b

\* RLP of a value: a string, or the list of what is within.
RECURSIVE RLP(_, _, _)
RLP(t, tag, v) ==
    LET d == Type[t]
        inner == IF d.k = "struct"
                 THEN Flat([i \in DOMAIN v |-> IF d.fields[i].tag = "-" THEN <<>> ELSE RLP(d.fields[i].t, d.fields[i].tag, v[i])])
                 ELSE Flat([i \in DOMAIN v |-> RLP(d.elem, "", v[i])])
    IN  CASE d.k = "raw" -> v
          [] d.k = "coder" -> RLP(d.inner, "", v)
          [] d.k = "iface" -> IF v = NilIface THEN RefList(<<>>) ELSE RLP(v.t, "", v.v)
          [] d.k = "bigint" -> RefString(IF v \in {<<>>, <<0>>} THEN <<>> ELSE putint(v[1]))
          [] d.k = "uint" -> RefString(IF v = 0 THEN <<>> ELSE putint(v))
          [] d.k = "bool" -> RefString(IF v THEN <<1>> ELSE <<>>)
          [] d.k \in {"string", "bytes", "array"} -> RefString(v)
          [] d.k \in {"slice", "list", "struct"} -> IF tag = "tail" THEN inner ELSE RefList(inner)
          [] d.k = "ptr" -> IF v # <<>> THEN RLP(d.elem, "", v[1])
                            ELSE IF Type[d.elem].k = "array" THEN RefString(<<>>)
                            ELSE IF Type[d.elem].k \in {"struct", "list"} THEN RefList(<<>>)
                            ELSE RLP(d.elem, "", Zero(d.elem))

\* The message padded to whole blocks, and the first bytes that come of them.
Digest(m) ==
    LET n == (Len(m) \div rate + 1) * rate
        padded == [i \in 1..n |-> (IF i <= Len(m) THEN m[i] ELSE IF i = Len(m) + 1 THEN dsbyte ELSE 0) + (IF i = n THEN 128 ELSE 0)]
        blocks == [b \in 1..(n \div rate) |-> SubSeq(padded, (b - 1) * rate + 1, b * rate)]
    IN  [i \in 1..outputLen |-> <<blocks, 0, i>>]

\* b is a sequence of values, and so is what is within them: taken apart by
\* SplitString and SplitList, a list being as long as ListSize says.
RECURSIVE SplitsAll(_)
SplitsAll(b) ==
    LET str == SplitString(b)
        lst == SplitList(b)
    IN  \/ b = <<>>
        \/ str.err = "" /\ SplitsAll(str.rest)
        \/ /\ lst.err = "" /\ SplitsAll(lst.content) /\ SplitsAll(lst.rest)
           /\ ListSize(Len(lst.content)) = Len(b) - Len(lst.rest)

----------------------------------------------------------------------------
(* Properties.                                                              *)

Done(p) == g[p].pc = "done" /\ g[p].err = ""

\* Whichever way a value is encoded, and whoever uses the buffers meanwhile, what
\* comes out is its RLP: at once from EncodeToBytes; from the reader of
\* EncodeToReader, always the next bytes of it, in all as many as announced; and
\* into the hash.
EncodingExact ==
    \A p \in Goroutine : g[p].pc \in {"read", "reading", "eof", "towriter", "done"} /\ job[p].k \in Encoding /\ g[p].err = "" =>
        LET ref == RLP(job[p].t, "", job[p].v)
        IN  /\ g[p].out = SubSeq(ref, 1, Len(g[p].out))
            /\ g[p].pc \in {"eof", "done"} => g[p].out = ref
            /\ job[p].k = "reader" => g[p].size = Len(ref)

\* However toWriter cuts the encoding into pieces, the digest is that of the whole,
\* at the end and after every Write.
DigestExact ==
    \A p \in Goroutine : job[p].k = "hash" =>
        Sum(g[p].d) = Digest(g[p].out) /\ (g[p].pc = "done" => g[p].sum = Digest(g[p].out))

\* What EncodeToBytes makes of a value, DecodeBytes makes the value of again.
RoundTrip ==
    \A p \in Goroutine : job[p].k = "bytes" /\ Done(p) =>
        LET r == DecodeBytes(job[p].t, g[p].out) IN r.err = "" /\ r.v = job[p].v

\* The decoders take only the one encoding that the writers make of a value.
DecodesCanonical ==
    \A p \in Goroutine : job[p].k = "decode" /\ Done(p) => RLP(job[p].t, "", g[p].res[1]) = job[p].data

\* Two readers of the format agree: DecodeBytes into an interface takes just what
\* raw.go can take apart, at every depth, and counts as one value.
SplitAgrees ==
    \A p \in Goroutine : job[p].k = "decode" /\ g[p].pc = "done" /\ Type[job[p].t].k = "iface" =>
        (g[p].err = "") = (CountValues(job[p].data) = 1 /\ SplitsAll(job[p].data))

SoundTypes == {t \in DOMAIN Type : TC!Sound(t, Cardinality(DOMAIN Type))}

\* A typeinfo that a goroutine gets is complete: it leads to no cell that is still
\* a dummy, though types refer to themselves and generators fail.
InfoComplete ==
    \A p \in Goroutine : \A i \in DOMAIN g[p].info :
        g[p].info[i].key[1] \in SoundTypes =>
            \A c \in TC!Reach(typeCache.heap, g[p].info[i].id) : typeCache.heap[c].full

=============================================================================
