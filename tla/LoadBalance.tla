----------------------------- MODULE LoadBalance -----------------------------
(***************************************************************************)
(* The registry's tables on their own, under every order of registrations  *)
(* and lookups: is the load really balanced, and is a lookup always        *)
(* answered with a server that registered the name?                        *)
(***************************************************************************)
EXTENDS Registry, FiniteSets

CONSTANT MaxLookups   \* bound on the number of lookups, for TLC

VARIABLES exports,    \* history: the names each server registered
          picks,      \* history: how often each server was handed out for a
                      \* name since its list last changed or its counter jumped
          lookups     \* history: the lookups made so far

vars == <<tables, exports, picks, lookups>>

NoPicks == [s \in Servers |-> 0]

Init ==
    /\ TablesInit
    /\ exports = [s \in Servers |-> {}]
    /\ picks = [f \in Names |-> NoPicks]
    /\ lookups = 0

(* A server registers once, with the names load_func gave it; with none,   *)
(* register_ returns false.                                                *)
ServerRegisters(s, names) ==
    /\ s \notin server_map
    /\ Register(s, names)
    /\ exports' = [exports EXCEPT ![s] = names]
    /\ picks' = [f \in Names |-> IF f \in names THEN NoPicks ELSE picks[f]]
    /\ UNCHANGED lookups

(* The rotation jumps where the size_t value of the counter does: when the *)
(* int wraps to its least value, and when it comes back to 0 from -1       *)
(* (2^w - 1 as a size_t).  The count of picks starts over there.           *)
Jumps(n) == n \in {IntMax, -1}

ClientLooksUp(f) ==
    /\ lookups < MaxLookups
    /\ Discover(f)
    /\ lookups' = lookups + 1
    /\ LET before == IF Jumps(count_map[f]) THEN NoPicks ELSE picks[f]
       IN  picks' = IF Known(f)
                    THEN [picks EXCEPT ![f] = [before EXCEPT ![Pick(f)] = @ + 1]]
                    ELSE picks
    /\ UNCHANGED exports

Next ==
    \/ \E s \in Servers, names \in SUBSET Names : ServerRegisters(s, names)
    \/ \E f \in Names : ClientLooksUp(f)

Spec == Init /\ [][Next]_vars

-----------------------------------------------------------------------------
TypeOK ==
    /\ TablesTypeOK
    /\ exports \in [Servers -> SUBSET Names]
    /\ picks \in [Names -> [Servers -> Nat]]
    /\ lookups \in Nat

Listed(f) == {addr_map[f][i] : i \in DOMAIN addr_map[f]}

(* Round robin: between two changes of a name's list, no server on the     *)
(* list is handed out twice more often than another ("负载均衡",           *)
(* registry.cpp:133), wherever the shared counter of the name stood when   *)
(* the list changed.                                                       *)
Balanced ==
    \A f \in Names : \A s, t \in Listed(f) : picks[f][s] <= picks[f][t] + 1

(* discover_server never indexes outside the list of the name, even after  *)
(* the int counter has wrapped to its most negative value                  *)
(* (registry.cpp:136-138).                                                 *)
PickInRange ==
    \A f \in Names : Known(f) => Index(f) + 1 \in DOMAIN addr_map[f]

(* The list of a name holds exactly the servers that registered it, each   *)
(* once, and each has a ServerItem: the reply of FINDSERVER never reads an *)
(* address that operator[] of _server_map has just made up                 *)
(* (registry.cpp:70-71).                                                   *)
ListsMatchServers ==
    \A f \in Names :
        /\ Listed(f) = {s \in Servers : f \in exports[s]}
        /\ Len(addr_map[f]) = Cardinality(Listed(f))
        /\ Listed(f) \subseteq server_map
=============================================================================
