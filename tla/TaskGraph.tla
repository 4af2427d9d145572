----------------------------- MODULE TaskGraph -----------------------------
(***************************************************************************)
(* What MyTask::run() (src/include/common/task.h:42-62) relies on when it  *)
(* hands its tasks to the executor: every task is run at most once, after  *)
(* all that precede it, and wait() returns when all of them have ended.    *)
(***************************************************************************)
EXTENDS Naturals

VARIABLES
    tasks,     \* the tasks of the run
    edges,     \* <<a, b>>: a.precede(b)
    begun,     \* the tasks whose function has been called
    ended,     \* those whose function has returned
    returned   \* has wait() returned?

vars == <<tasks, edges, begun, ended, returned>>

Before(t) == {a \in tasks : <<a, t>> \in edges}

Init ==
    /\ edges \subseteq tasks \X tasks
    /\ begun = {} /\ ended = {} /\ returned = FALSE

Begin ==
    /\ \E t \in tasks \ begun : Before(t) \subseteq ended /\ begun' = begun \cup {t}
    /\ UNCHANGED <<tasks, edges, ended, returned>>

End ==
    /\ \E t \in begun \ ended : ended' = ended \cup {t}
    /\ UNCHANGED <<tasks, edges, begun, returned>>

Return ==
    /\ ended = tasks
    /\ returned' = TRUE
    /\ UNCHANGED <<tasks, edges, begun, ended>>

Next == Begin \/ End \/ Return

Spec == Init /\ [][Next]_vars
=============================================================================
