------------------------------- MODULE MCRpc -------------------------------
(* Two servers that share one of the two names they export, two clients;   *)
(* each client calls the shared name, one of them a name of a single       *)
(* server as well.  No server exports f3: only MCLostProgram looks it up.   *)
EXTENDS RpcSystem, TLC

CONSTANTS s1, s2, c1, c2, f1, f2, f3

MCServers == {s1, s2}
MCClients == {c1, c2}
MCNames == {f1, f2, f3}
MCExports == s1 :> {f1} @@ s2 :> {f1, f2}
MCProgram == c1 :> <<f1>> @@ c2 :> <<f1, f2>>

(* As shipped, started in any order, with crashes; and the calm way.       *)
MCCalm == {[et |-> FALSE, orderly |-> TRUE, crashes |-> FALSE]}
MCModes == MCCalm \cup {[et |-> TRUE, orderly |-> FALSE, crashes |-> TRUE]}

MCLostProgram == c1 :> <<f1>> @@ c2 :> <<f1, f3>>
=============================================================================
