--------------------------- MODULE MCGraphSearch ---------------------------
(* Two nodes.  Every node's first event comes first; of the other events,   *)
(* made by either node, each has the newest event of its node as self       *)
(* parent, or the one before (two events composed at once), and any earlier *)
(* event of the other node, or none, as other parent.                       *)
EXTENDS GraphSearch

CONSTANT MaxEvent

First(c) == [seqNum |-> c, SelfPart |-> Nil, OtherPart |-> Nil, RoundID |-> 0]

\* The events that can follow those of history h.
Following(h) ==
    UNION {LET mine == {e \in DOMAIN h : h[e].seqNum = c}
               last == Max(mine)
           IN  [seqNum : {c}, SelfPart : {last, h[last].SelfPart} \ {Nil},
                OtherPart : (DOMAIN h \ mine) \cup {Nil}, RoundID : h[last].RoundID..1] : c \in Slot}

\* Five events, of which the third is known late: then its selfPt is the fifth,
\* which leads back to it by the fourth.
Circle == <<First(0), First(1),
    [seqNum |-> 1, SelfPart |-> 2, OtherPart |-> 1, RoundID |-> 0],
    [seqNum |-> 0, SelfPart |-> 1, OtherPart |-> 3, RoundID |-> 0],
    [seqNum |-> 1, SelfPart |-> 3, OtherPart |-> 4, RoundID |-> 0]>>

Histories ==
    LET all[n \in broadness..MaxEvent] ==
          IF n = broadness THEN {[e \in 1..broadness |-> First(e - 1)]}
          ELSE UNION {{Append(h, e) : e \in Following(h)} : h \in all[n - 1]}
    IN  all[MaxEvent] \cup {Circle}
=============================================================================
