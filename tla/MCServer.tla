------------------------------ MODULE MCServer ------------------------------
(* Two servers that dial each other; or, as in the sample configuration, A  *)
(* dials itself too.                                                        *)
EXTENDS Server, TLC

CONSTANTS A, B

CrossDial == (A :> <<B>>) @@ (B :> <<A>>)
SelfDial == (A :> <<A, B>>) @@ (B :> <<A>>)
Symmetry == Permutations(Conn)
=============================================================================
