------------------------------- MODULE MCNode -------------------------------
(* Two nodes.  The peer sends an event of round 0 and, later, the same event *)
(* as a witness of round 1.                                                  *)
EXTENDS Node

Sent(r, t) == [id |-> MaxOwn + 1, seqNum |-> 1, RoundID |-> r, ty |-> t]
MCCopy == {Sent(0, Normal), Sent(1, Witness)}
=============================================================================
