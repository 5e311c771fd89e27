------------------------------ MODULE RlpEncode ------------------------------
(***************************************************************************)
(* The encbuf of rlp/encode.go, in which a value is encoded: str is all the *)
(* data but the headers of lists; lheads has the header of every list, with *)
(* its offset in str and the size of the list; lhsize is the size of the   *)
(* headers.  The sizes of lists are known only after their data, so the    *)
(* headers are put between the data at the end, by toBytes, toWriter or an *)
(* encReader.  A listhead is named by its index in lheads.                 *)
(***************************************************************************)
EXTENDS RlpHead

reset(w) == [w EXCEPT !.str = <<>>, !.lheads = <<>>, !.lhsize = 0]

NewBuf == [str |-> <<>>, lheads |-> <<>>, lhsize |-> 0]

Write(w, b) == [w EXCEPT !.str = @ \o b]

encodeStringHeader(w, size) == Write(w, puthead(128, 183, size))

encodeString(w, b) ==
    IF Len(b) = 1 /\ b[1] <= 127 THEN Write(w, b) ELSE Write(encodeStringHeader(w, Len(b)), b)

size(w) == Len(w.str) + w.lhsize

\* Until listEnd the header's size is the size of the headers before it.
list(w) == [w EXCEPT !.lheads = Append(@, [offset |-> Len(w.str), size |-> w.lhsize])]

listEnd_Flat(w, i) ==
    LET n == Len(w.str) - w.lheads[i].offset
    IN  [w EXCEPT !.lheads[i].size = n, !.lhsize = @ + headsize(n)]
listEnd(w, i) ==
    LET n == size(w) - w.lheads[i].offset - w.lheads[i].size
    IN  [w EXCEPT !.lheads[i].size = n, !.lhsize = @ + (IF n < 56 THEN 1 ELSE 1 + intsize(n))]

encodeHead(h) == puthead(192, 247, h.size)

----------------------------------------------------------------------------
(* The whole encoding, at once, written in pieces, or read in pieces.       *)

toBytes(w) ==
    LET offset(k) == IF k = 0 THEN 0 ELSE w.lheads[k].offset
        out[k \in 0..Len(w.lheads)] ==
            IF k = 0 THEN <<>>
            ELSE out[k - 1] \o SubSeq(w.str, offset(k - 1) + 1, offset(k)) \o encodeHead(w.lheads[k])
        n == Len(w.lheads)
    IN  out[n] \o SubSeq(w.str, offset(n) + 1, Len(w.str))

\* toWriter and encReader go over the buffer with the index of the next header and
\* the position in str.  What is next: data before the header, the header, data
\* after the last header; nothing at the end.
Cursor == [lhpos |-> 0, strpos |-> 0]

Piece(w, c, to) == [piece |-> SubSeq(w.str, c.strpos + 1, to), c |-> [c EXCEPT !.strpos = to]]

next_NoTail(w, c) ==
    LET h == w.lheads[c.lhpos + 1]
    IN  IF c.lhpos < Len(w.lheads)
        THEN IF h.offset > c.strpos THEN Piece(w, c, h.offset)
             ELSE [piece |-> encodeHead(h), c |-> [c EXCEPT !.lhpos = @ + 1]]
        ELSE [piece |-> <<>>, c |-> c]
next(w, c) ==
    LET h == w.lheads[c.lhpos + 1]
    IN  IF c.lhpos < Len(w.lheads)
        THEN IF h.offset > c.strpos THEN Piece(w, c, h.offset)
             ELSE [piece |-> encodeHead(h), c |-> [c EXCEPT !.lhpos = @ + 1]]
        ELSE IF c.strpos < Len(w.str) THEN Piece(w, c, Len(w.str))
        ELSE [piece |-> <<>>, c |-> c]

----------------------------------------------------------------------------
(* encReader: the cursor, and what is left of a piece that did not fit.     *)

NewReader == [c |-> Cursor, piece |-> <<>>]

\* One turn of the loop of Read, with room for n bytes in the caller's buffer: it
\* copies what fits of the next piece.  Nothing next: EOF.
Copied(p, n) ==
    LET nn == IF n < Len(p.piece) THEN n ELSE Len(p.piece)
    IN  [got |-> SubSeq(p.piece, 1, nn), r |-> [c |-> p.c, piece |-> SubSeq(p.piece, nn + 1, Len(p.piece))],
         end |-> IF p.piece = <<>> THEN "EOF" ELSE IF nn < Len(p.piece) THEN "full" ELSE ""]

Turn(w, r, n) == Copied(IF r.piece # <<>> THEN [piece |-> r.piece, c |-> r.c] ELSE next(w, r.c), n)
=============================================================================
