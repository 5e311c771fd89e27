----------------------------- MODULE MCJPGraph -----------------------------
(* Two nodes, a (this one) and b, and four events: b1 has no other parent,  *)
(* a1 and a2 have b1, b2 has a1.                                            *)
EXTENDS JPGraph, TLC

CONSTANTS a, b, a1, a2, b1, b2

MCSelfSig == (a1 :> a) @@ (a2 :> a) @@ (b1 :> b) @@ (b2 :> b)
MCOtherPartH == (a1 :> b1) @@ (a2 :> b1) @@ (b1 :> ZeroHash) @@ (b2 :> a1)

OtherA(h) == IF MCOtherPartH[h] = ZeroHash THEN ZeroAddr ELSE MCSelfSig[MCOtherPartH[h]]

Sound(h, r) == [SelfHash |-> h, digest |-> h, OtherPartA |-> OtherA(h), RoundID |-> r]

\* While b has no column yet: one round, one copy of every event.
Booting == {a}
Copy0 == {Sound(h, 0) : h \in {a1, b1, b2}}

\* Once both nodes have one: two rounds.
Running == {a, b}
Copy1 == {Sound(a1, 0), Sound(b1, 0), Sound(b2, 1)}

SafeStart == {Booting, Running}
SafeCopy == (Booting :> Copy0) @@ (Running :> Copy1)
SafeType == (Booting :> {Normal}) @@ (Running :> {Normal, Witness})
SafeRound == (Booting :> 0) @@ (Running :> 1)

BootStart == {Booting}

\* Two own events, and a copy of one with a wrong hash.
CopyLive == {Sound(a1, 0), Sound(a2, 0), [Sound(a1, 0) EXCEPT !.digest = b1]}

LiveStart == {Running}
LiveCopy == Running :> CopyLive
LiveType == Running :> {Normal, Witness}
LiveRound == Running :> 0

\* The goroutines are interchangeable: used in runs without liveness properties.
Symmetry == Permutations(Worker)
============================================================================
