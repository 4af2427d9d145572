----------------------------- MODULE MCStartup -----------------------------
(* The graphs of the runs: MyTask of a client, of an RPC server, whose     *)
(* chain E -> G -> F never returns from F; and one in which a task         *)
(* releases three others, which needs the queues of the workers.           *)
EXTENDS Executor, TLC

CONSTANTS A, B, C, D, E, F, G

Client(n) ==
    [order |-> <<A, B, C, D, E, F>>, endless |-> {}, workers |-> n, tries |-> 1,
     next |-> (A :> <<B>> @@ B :> <<E>> @@ C :> <<D>> @@ D :> <<E>> @@ E :> <<F>> @@ F :> <<>>)]

Server(n) ==
    [order |-> <<A, B, C, D, E, F, G>>, endless |-> {F}, workers |-> n, tries |-> 1,
     next |-> (A :> <<B>> @@ B :> <<E>> @@ C :> <<D>> @@ D :> <<E>> @@ E :> <<G>>
                 @@ G :> <<F>> @@ F :> <<>>)]

Fan(n, tries) ==
    [order |-> <<A, B, C, D>>, endless |-> {D}, workers |-> n, tries |-> tries,
     next |-> (A :> <<B, C, D>> @@ B :> <<>> @@ C :> <<>> @@ D :> <<>>)]

(* The first two tasks of MyTask; fewer than there are workers. *)
Pair(n) ==
    [order |-> <<A, C>>, endless |-> {A}, workers |-> n, tries |-> 0,
     next |-> (A :> <<>> @@ C :> <<>>)]

FewWorkers == {Client(1), Client(2), Server(1), Server(2), Pair(3), Fan(2, 1), Fan(3, 0)}
=============================================================================
