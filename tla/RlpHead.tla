------------------------------- MODULE RlpHead -------------------------------
(***************************************************************************)
(* Type tags and sizes of RLP: putint, intsize, headsize and puthead of    *)
(* rlp/encode.go, and the big-endian number that decode.go and raw.go read.*)
(***************************************************************************)
EXTENDS Integers, Sequences

\* Sizes are uint64 in the code.  Here a number of more than three bytes is just
\* Huge: larger than every input, as in the code.
Huge == 256 * 256 * 256

Number(b) ==
    CASE Len(b) = 0 -> 0
      [] Len(b) = 1 -> b[1]
      [] Len(b) = 2 -> 256 * b[1] + b[2]
      [] Len(b) = 3 -> 256 * (256 * b[1] + b[2]) + b[3]
      [] OTHER -> Huge

\* The least number of bytes that hold i: putint writes them, intsize counts them.
putint(i) ==
    IF i < 256 THEN <<i>>
    ELSE IF i < 256^2 THEN <<i \div 256, i % 256>>
    ELSE <<i \div 256^2, (i \div 256) % 256, i % 256>>

intsize(i) == CHOOSE n \in 1..8 : i \div 256^n = 0 /\ (n = 1 \/ i \div 256^(n - 1) # 0)

headsize(size) == IF size < 56 THEN 1 ELSE 1 + intsize(size)

puthead(smalltag, largetag, size) ==
    IF size < 56 THEN <<smalltag + size>>
    ELSE <<largetag + Len(putint(size))>> \o putint(size)
=============================================================================
