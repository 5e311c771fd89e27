------------------------------- MODULE Sponge -------------------------------
(***************************************************************************)
(* The sponge of crypto/sha3: buffering, padding, absorbing and squeezing. *)
(* The permutation is symbolic: the state a is the sequence of the blocks  *)
(* absorbed, and the bytes squeezed are named by a, by how often it has    *)
(* been permuted since, and by their place in the block.                   *)
(***************************************************************************)
EXTENDS Integers, Sequences

CONSTANTS
    rate,           \* bytes of a block
    dsbyte,         \* domain separation and the first bit of the padding
    outputLen       \* bytes of a digest

Absorbing == "absorbing"
Squeezing == "squeezing"

Fresh == [a |-> <<>>, perms |-> 0, buf |-> <<>>, state |-> Absorbing]

\* xorIn and keccakF1600.
Absorb(d, block) == [d EXCEPT !.a = Append(@, block)]

\* The block that copyOut gives.
copyOut(d) == [i \in 1..rate |-> <<d.a, d.perms, i>>]

permute(d) ==
    IF d.state = Absorbing THEN [Absorb(d, d.buf) EXCEPT !.buf = <<>>]
    ELSE [d EXCEPT !.perms = @ + 1, !.buf = copyOut([d EXCEPT !.perms = @ + 1])]

\* The last byte of the block gets its top bit.
Padded(buf, ds) ==
    LET b == Append(buf, ds)
    IN  [i \in 1..rate |-> (IF i <= Len(b) THEN b[i] ELSE 0) + (IF i = rate THEN 128 ELSE 0)]

padAndPermute(d, ds) ==
    LET p == permute([d EXCEPT !.buf = Padded(@, ds)])
    IN  [p EXCEPT !.state = Squeezing, !.buf = copyOut(p)]

\* One turn of Write's loop, with p still to be written: a whole block at once where
\* none is begun, or else what fits into the block, which is absorbed when full.
Turned_WholeFirst(t) ==
    LET filled == [t.d EXCEPT !.buf = @ \o t.p]
    IN  IF t.p = <<>> THEN t
        ELSE IF Len(t.p) >= rate
        THEN [d |-> Absorb(t.d, SubSeq(t.p, 1, rate)), p |-> SubSeq(t.p, rate + 1, Len(t.p))]
        ELSE [d |-> IF Len(filled.buf) = rate THEN permute(filled) ELSE filled, p |-> <<>>]
Turned(t) ==
    LET todo == IF rate - Len(t.d.buf) > Len(t.p) THEN Len(t.p) ELSE rate - Len(t.d.buf)
        filled == [t.d EXCEPT !.buf = @ \o SubSeq(t.p, 1, todo)]
    IN  IF t.p = <<>> THEN t
        ELSE IF t.d.buf = <<>> /\ Len(t.p) >= rate
        THEN [d |-> Absorb(t.d, SubSeq(t.p, 1, rate)), p |-> SubSeq(t.p, rate + 1, Len(t.p))]
        ELSE [d |-> IF Len(filled.buf) = rate THEN permute(filled) ELSE filled, p |-> SubSeq(t.p, todo + 1, Len(t.p))]

\* Write panics once something was read; no caller here writes then.
SpongeWrite(d, p) ==
    LET turns == Len(p) \div rate + 2
        turn[n \in 0..turns] == IF n = 0 THEN [d |-> d, p |-> p] ELSE Turned(turn[n - 1])
    IN  turn[turns].d

\* Read n bytes: the sponge after it, and the bytes.
SpongeRead(d, n) ==
    LET start == IF d.state = Absorbing THEN padAndPermute(d, dsbyte) ELSE d
        turn[k \in 0..n] ==
            IF k = 0 THEN [d |-> start, out |-> <<>>]
            ELSE LET t == turn[k - 1]
                     nn == IF n - Len(t.out) < Len(t.d.buf) THEN n - Len(t.out) ELSE Len(t.d.buf)
                     rest == [t.d EXCEPT !.buf = SubSeq(@, nn + 1, Len(@))]
                 IN  IF Len(t.out) = n THEN t
                     ELSE [d |-> IF rest.buf = <<>> THEN permute(rest) ELSE rest, out |-> t.out \o SubSeq(t.d.buf, 1, nn)]
    IN  turn[n]

\* A digest of what is written so far, from a copy of the sponge.
Sum(d) == SpongeRead(d, outputLen).out
=============================================================================
