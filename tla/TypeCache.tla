------------------------------ MODULE TypeCache ------------------------------
(***************************************************************************)
(* rlp/typecache.go: the typeinfo of every type, generated when first      *)
(* asked for.  A typeinfo is a cell of heap: full once it has its decoder  *)
(* and writer, which refer to the cells of the types within (refs).  The   *)
(* cache names the cell of a key: a type and the tag it has as a field.    *)
(***************************************************************************)
EXTENDS Integers, Sequences

CONSTANT Type       \* as in RlpTypes

EmptyCache == [cache |-> <<>>, heap |-> <<>>, refs |-> <<>>, id |-> 0, err |-> ""]

\* The error of parseStructTag for the i-th field of a struct.
parseStructTag(fields, i) ==
    IF fields[i].tag = "tail" /\ (i # Len(fields) \/ Type[fields[i].t].k # "slice") THEN "InvalidTag"
    ELSE IF fields[i].tag \notin {"", "-", "nil", "tail"} THEN "UnknownTag"
    ELSE ""

\* The keys that the decoder and the writer of a type ask for, in order.
Within(t) ==
    LET d == Type[t]
        fields == IF d.k = "struct" THEN d.fields ELSE <<>>
        used == SelectSeq([i \in DOMAIN fields |-> [i |-> i, tag |-> fields[i].tag]], LAMBDA f : f.tag # "-")
    IN  IF d.k \in {"slice", "list", "ptr"} THEN <<[key |-> <<d.elem, "">>, err |-> ""]>>
        ELSE [j \in DOMAIN used |->
                [key |-> <<fields[used[j].i].t, fields[used[j].i].tag>>, err |-> parseStructTag(fields, used[j].i)]]

\* The dummy that a generator gets which asks for its own type.
WithDummy(c, key) ==
    [c EXCEPT !.heap = Append(@, [full |-> FALSE, refs |-> <<>>]),
              !.cache = [k \in DOMAIN @ \cup {key} |-> IF k = key THEN Len(c.heap) + 1 ELSE @[k]]]

RECURSIVE cachedTypeInfo1(_, _), genTypeInfo(_, _), genAll(_, _, _)

\* Generates what x asks for, from its i-th key on, and collects the cells in refs.
genAll(c, x, i) ==
    LET f == cachedTypeInfo1([c EXCEPT !.err = x[i].err], x[i].key)
    IN  IF i > Len(x) \/ c.err # "" THEN c
        ELSE IF x[i].err # "" THEN [c EXCEPT !.err = x[i].err]
        ELSE genAll([f EXCEPT !.refs = Append(c.refs, f.id)], x, i + 1)

\* makeDecoder and makeWriter, which ask for the same, with the dummy in the cache.
\* Then the cell that the cache has is filled; on an error it leaves the cache.
genTypeInfo(c, key) ==
    LET id == c.cache[key]
        g == IF Type[key[1]].k = "chan" THEN [c EXCEPT !.err = "NotSerializable"]
             ELSE genAll([c EXCEPT !.refs = <<>>], Within(key[1]), 1)
    IN  IF g.err # ""
        THEN [g EXCEPT !.cache = [k \in DOMAIN @ \ {key} |-> @[k]], !.id = 0]
        ELSE [g EXCEPT !.heap[id] = [full |-> TRUE, refs |-> g.refs], !.id = id]

cachedTypeInfo1(c, key) ==
    IF key \in DOMAIN c.cache THEN [c EXCEPT !.id = c.cache[key]] ELSE genTypeInfo(WithDummy(c, key), key)

----------------------------------------------------------------------------
(* What a typeinfo should be.                                               *)

\* The cells that id leads to.
Reach(heap, id) ==
    LET cells[n \in 0..Len(heap)] ==
          IF n = 0 THEN {id}
          ELSE LET prev == cells[n - 1] IN prev \cup UNION {{heap[i].refs[j] : j \in DOMAIN heap[i].refs} : i \in prev}
    IN  cells[Len(heap)]

\* The types within t, at any depth.
Parts(t, depth) ==
    LET types[n \in 0..depth] ==
          IF n = 0 THEN {t}
          ELSE LET prev == types[n - 1] IN prev \cup UNION {{Within(u)[j].key[1] : j \in DOMAIN Within(u)} : u \in prev}
    IN  types[depth]

\* No type within t is one that cannot be encoded, or has an invalid tag.
Sound(t, depth) ==
    \A u \in Parts(t, depth) : Type[u].k # "chan" /\ \A j \in DOMAIN Within(u) : Within(u)[j].err = ""
=============================================================================
