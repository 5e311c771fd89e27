------------------------------- MODULE MCWire -------------------------------
(* Two goroutines that write messages of two payload bytes, or none.  The   *)
(* larger sizes are used in headers only.                                   *)
EXTENDS Wire

StreamSize == {0, 2}
WideSize == {65535, 65536}
=============================================================================
