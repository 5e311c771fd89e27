----------------------------- MODULE PeerTable -----------------------------
(***************************************************************************)
(* What the peer management of a server promises, without connections,     *)
(* handshakes or goroutines: for every other node there is at most one     *)
(* connection that serves it.  An entry is taken only when it is free, is  *)
(* given up before it is taken again, and is never another server's.       *)
(***************************************************************************)
CONSTANTS Srv, End, Nil
VARIABLE holder     \* holder[s][t]: the connection that serves node t at server s

Init == holder = [s \in Srv |-> [t \in Srv |-> Nil]]

Held(x) == \E s, t \in Srv : holder[s][t] = x

\* A connection that holds no entry takes a free one.
Take(s, t, x) ==
    /\ s # t /\ holder[s][t] = Nil /\ ~Held(x)
    /\ holder' = [holder EXCEPT ![s][t] = x]

GiveUp(s, t) ==
    /\ holder[s][t] # Nil
    /\ holder' = [holder EXCEPT ![s][t] = Nil]

\* The server starts again with an empty table.
Clear(s) == holder' = [holder EXCEPT ![s] = [t \in Srv |-> Nil]]

Next ==
    \/ \E s, t \in Srv, x \in End : Take(s, t, x)
    \/ \E s, t \in Srv : GiveUp(s, t)
    \/ \E s \in Srv : Clear(s)

Spec == Init /\ [][Next]_holder
============================================================================
