------------------------------ MODULE Registry ------------------------------
(***************************************************************************)
(* The tables of the registration centre (include/service/registry.h) and  *)
(* the two operations on them, register_ and discover_server               *)
(* (src/service/registry.cpp).  The registry is one thread running the     *)
(* loop of Server::epoll_wait, so each operation is one step.              *)
(*                                                                         *)
(* The code knows a server by the descriptor of the connection on which it *)
(* registered.  The registry never closes that descriptor and an RPC       *)
(* server registers once per process, so descriptors and servers           *)
(* correspond one to one and the model uses the server.                    *)
(***************************************************************************)
EXTENDS Integers, Sequences

CONSTANTS Servers,    \* the RPC server processes
          Names,      \* the function names they may export
          IntMax,     \* the largest int, the type of a _count_map entry
          SizeMod     \* 2^w for the width w of size_t

ASSUME RegistryAssumption ==
    /\ IntMax \in Nat
    /\ SizeMod \in Nat
    /\ SizeMod > IntMax + 1

VARIABLES addr_map,    \* _addr_map: name -> descriptors in order of arrival
          server_map,  \* _server_map: the descriptors with a ServerItem
          count_map    \* _count_map: name -> number of lookups, an int

tables == <<addr_map, server_map, count_map>>

TablesTypeOK ==
    /\ addr_map \in [Names -> Seq(Servers)]
    /\ server_map \subseteq Servers
    /\ count_map \in [Names -> -(IntMax + 1) .. IntMax]

TablesInit ==
    /\ addr_map = [f \in Names |-> <<>>]
    /\ server_map = {}
    /\ count_map = [f \in Names |-> 0]

(***************************************************************************)
(* register_: the connection is appended to the list of every name in the  *)
(* message, and the ServerItem is stored only when there was a name.  Its  *)
(* result is names # {}.                                                   *)
(***************************************************************************)
(* Mutants: the loop over the names stops after the first; the connection  *)
(* goes under every name; the ServerItem is not stored.                    *)
RegisterFirst(s, names) ==
    /\ addr_map' = [f \in Names |-> IF f \in names /\ f = (CHOOSE g \in names : TRUE)
                                    THEN Append(addr_map[f], s) ELSE addr_map[f]]
    /\ server_map' = server_map \cup {t \in {s} : names # {}}
    /\ UNCHANGED count_map

RegisterUnderAll(s, names) ==
    /\ addr_map' = [f \in Names |-> Append(addr_map[f], s)]
    /\ server_map' = server_map \cup {s}
    /\ UNCHANGED count_map

RegisterNoItem(s, names) ==
    /\ addr_map' = [f \in Names |-> IF f \in names THEN Append(addr_map[f], s)
                                                   ELSE addr_map[f]]
    /\ UNCHANGED <<server_map, count_map>>

Register(s, names) ==
    /\ addr_map' = [f \in Names |-> IF f \in names THEN Append(addr_map[f], s)
                                                   ELSE addr_map[f]]
    /\ server_map' = server_map \cup {t \in {s} : names # {}}
    /\ UNCHANGED count_map

(***************************************************************************)
(* discover_server: ++ on an int, which wraps in the Debug build the       *)
(* project makes, then % with a size_t, to which the int is converted.     *)
(* A name is a key of _addr_map exactly when its list is not empty.        *)
(***************************************************************************)

Bump(n) == IF n = IntMax THEN -(IntMax + 1) ELSE n + 1

ToSizeT(n) == IF n < 0 THEN SizeMod + n ELSE n

Known(f) == addr_map[f] # <<>>

(* Mutants: the size is an int, so that the remainder takes the sign of    *)
(* the counter; the counter is not stored.                                 *)
IndexSigned(f) ==
    LET n == Bump(count_map[f])
    IN  IF n < 0 THEN -((-n) % Len(addr_map[f])) ELSE n % Len(addr_map[f])

Index(f) == ToSizeT(Bump(count_map[f])) % Len(addr_map[f])

Pick(f) == addr_map[f][Index(f) + 1]

DiscoverStuck(f) == UNCHANGED tables

Discover(f) ==
    /\ count_map' = IF Known(f) THEN [count_map EXCEPT ![f] = Bump(@)]
                                ELSE count_map
    /\ UNCHANGED <<addr_map, server_map>>
=============================================================================
