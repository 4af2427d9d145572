----------------------------- MODULE RemoteCall -----------------------------
(***************************************************************************)
(* What the RPC service promises a client, without registry, connections   *)
(* or events: a call is executed at most once, by a server that has the    *)
(* function; it returns the value of that very execution, or fails; and a  *)
(* client may be lost, in which case it never calls again.                 *)
(***************************************************************************)
EXTENDS Naturals, Sequences

CONSTANTS Clients, Servers, Exports, Program

VARIABLES phase,     \* "idle", "pending" or "lost", per client
          callNo,    \* number of calls begun
          ran,       \* the server that executed the current call, if any
          results    \* results of the calls that came back

vars == <<phase, callNo, ran, results>>

Success(c) == [code |-> "success", name |-> Program[c][callNo[c]],
               arg |-> <<c, callNo[c]>>]
Failure == [code |-> "failed"]

Init ==
    /\ phase = [c \in Clients |-> "idle"]
    /\ callNo = [c \in Clients |-> 0]
    /\ ran = [c \in Clients |-> FALSE]
    /\ results = [c \in Clients |-> <<>>]

Begin(c) ==
    /\ phase[c] = "idle"
    /\ callNo[c] < Len(Program[c])
    /\ phase' = [phase EXCEPT ![c] = "pending"]
    /\ callNo' = [callNo EXCEPT ![c] = @ + 1]
    /\ ran' = [ran EXCEPT ![c] = FALSE]
    /\ UNCHANGED results

Execute(c) ==
    /\ phase[c] = "pending"
    /\ ~ran[c]
    /\ \E s \in Servers : Program[c][callNo[c]] \in Exports[s]
    /\ ran' = [ran EXCEPT ![c] = TRUE]
    /\ UNCHANGED <<phase, callNo, results>>

Return(c) ==
    /\ phase[c] = "pending"
    /\ ran[c]
    /\ phase' = [phase EXCEPT ![c] = "idle"]
    /\ results' = [results EXCEPT ![c] = Append(@, Success(c))]
    /\ UNCHANGED <<callNo, ran>>

Fail(c) ==
    /\ phase[c] = "pending"
    /\ phase' = [phase EXCEPT ![c] = "idle"]
    /\ results' = [results EXCEPT ![c] = Append(@, Failure)]
    /\ UNCHANGED <<callNo, ran>>

Lose(c) ==
    /\ phase[c] # "lost"
    /\ phase' = [phase EXCEPT ![c] = "lost"]
    /\ UNCHANGED <<callNo, ran, results>>

Next == \E c \in Clients :
    Begin(c) \/ Execute(c) \/ Return(c) \/ Fail(c) \/ Lose(c)

Spec == Init /\ [][Next]_vars
=============================================================================
