----------------------------- MODULE ThreadPool -----------------------------
(***************************************************************************)
(* The thread pool of include/common/thread_pool.h: a queue of tasks, one  *)
(* mutex, one condition variable, and detached workers.  What a thread     *)
(* does between taking the mutex and giving it up, by unlock or wait, is   *)
(* one step.  add_task and the destructor notify after they have released  *)
(* the mutex, so the notification is a step of its own.                    *)
(*                                                                         *)
(* The destructor is not called while an add_task is running: that is the  *)
(* lifetime rule of every C++ object.  A task returns; one that throws     *)
(* ends the process.                                                       *)
(***************************************************************************)
EXTENDS Naturals, Sequences, FiniteSets

CONSTANTS Workers,   \* the threads the constructor starts
          Tasks      \* the tasks handed to add_task, each at most once

ASSUME ThreadPoolAssumption ==
    /\ IsFiniteSet(Workers) /\ Workers # {}     \* assert(threadCount > 0)
    /\ IsFiniteSet(Tasks)

VARIABLES tasks,       \* _tasks
          is_closed,   \* _is_closed; make_shared<Pool>() makes it false
          wpc,         \* where each worker is
          running,     \* the tasks being executed, per worker
          notifying,   \* the tasks whose add_task has yet to call notify_one
          closer,      \* the destructor: "open", "notify" or "closed"
          submitted,   \* history: the tasks in the order of their push
          started      \* history: the tasks in the order of their pop

vars == <<tasks, is_closed, wpc, running, notifying, closer, submitted, started>>

Elements(s) == {s[i] : i \in DOMAIN s}

Init ==
    /\ tasks = <<>>
    /\ is_closed = FALSE
    /\ wpc = [w \in Workers |-> "ready"]
    /\ running = [w \in Workers |-> {}]
    /\ notifying = {}
    /\ closer = "open"
    /\ submitted = <<>>
    /\ started = <<>>

-----------------------------------------------------------------------------
(* add_task *)

(* The push; notes holds the notification that is to follow.               *)
Pushing(t, notes) ==
    /\ closer = "open"
    /\ t \notin Elements(submitted)
    /\ tasks' = Append(tasks, t)
    /\ notifying' = notifying \cup notes
    /\ submitted' = Append(submitted, t)
    /\ UNCHANGED <<is_closed, wpc, running, closer, started>>

(* Mutants: notify_one only when the queue was empty, or not at all.       *)
AddTaskIfEmpty(t) == Pushing(t, {u \in {t} : tasks = <<>>})

AddTaskQuietly(t) == Pushing(t, {})

AddTask(t) == Pushing(t, {t})

Waiting == {w \in Workers : wpc[w] = "waiting"}

(* notify_one wakes one of the waiting threads, if there is any. *)
NotifyOne(t) ==
    /\ t \in notifying
    /\ notifying' = notifying \ {t}
    /\ \/ \E w \in Waiting : wpc' = [wpc EXCEPT ![w] = "ready"]
       \/ Waiting = {} /\ UNCHANGED wpc
    /\ UNCHANGED <<tasks, is_closed, running, closer, submitted, started>>

(* ~ThreadPool *)
Close ==
    /\ closer = "open"
    /\ notifying = {}
    /\ is_closed' = TRUE
    /\ closer' = "notify"
    /\ UNCHANGED <<tasks, wpc, running, notifying, submitted, started>>

(* Mutant: notify_one instead of notify_all. *)
NotifyOneOfAll ==
    /\ closer = "notify"
    /\ closer' = "closed"
    /\ \/ \E w \in Waiting : wpc' = [wpc EXCEPT ![w] = "ready"]
       \/ Waiting = {} /\ UNCHANGED wpc
    /\ UNCHANGED <<tasks, is_closed, running, notifying, submitted, started>>

NotifyAll ==
    /\ closer = "notify"
    /\ closer' = "closed"
    /\ wpc' = [w \in Workers |-> IF wpc[w] = "waiting" THEN "ready" ELSE wpc[w]]
    /\ UNCHANGED <<tasks, is_closed, running, notifying, submitted, started>>

-----------------------------------------------------------------------------
(* The loop of a worker, from the moment it holds the mutex *)

(* Mutants: the task is copied and not removed; a worker leaves a closed    *)
(* pool whatever is queued.                                                *)
TakeNoPop(w) ==
    /\ wpc[w] = "ready"
    /\ tasks # <<>>
    /\ wpc' = [wpc EXCEPT ![w] = "task"]
    /\ running' = [running EXCEPT ![w] = {Head(tasks)}]
    /\ started' = Append(started, Head(tasks))
    /\ UNCHANGED <<tasks, is_closed, notifying, closer, submitted>>

ExitAtOnce(w) ==
    /\ wpc[w] = "ready"
    /\ is_closed
    /\ wpc' = [wpc EXCEPT ![w] = "exited"]
    /\ UNCHANGED <<tasks, is_closed, running, notifying, closer, submitted,
                   started>>

Take(w) ==
    /\ wpc[w] = "ready"
    /\ tasks # <<>>
    /\ tasks' = Tail(tasks)
    /\ wpc' = [wpc EXCEPT ![w] = "task"]
    /\ running' = [running EXCEPT ![w] = {Head(tasks)}]
    /\ started' = Append(started, Head(tasks))
    /\ UNCHANGED <<is_closed, notifying, closer, submitted>>

Finish(w) ==
    /\ wpc[w] = "task"
    /\ wpc' = [wpc EXCEPT ![w] = "ready"]
    /\ running' = [running EXCEPT ![w] = {}]
    /\ UNCHANGED <<tasks, is_closed, notifying, closer, submitted, started>>

Exit(w) ==
    /\ wpc[w] = "ready"
    /\ tasks = <<>>
    /\ is_closed
    /\ wpc' = [wpc EXCEPT ![w] = "exited"]
    /\ UNCHANGED <<tasks, is_closed, running, notifying, closer, submitted,
                   started>>

Wait(w) ==
    /\ wpc[w] = "ready"
    /\ tasks = <<>>
    /\ ~is_closed
    /\ wpc' = [wpc EXCEPT ![w] = "waiting"]
    /\ UNCHANGED <<tasks, is_closed, running, notifying, closer, submitted,
                   started>>

(* _cond.wait may return without a notification. *)
WakeUp(w) ==
    /\ wpc[w] = "waiting"
    /\ wpc' = [wpc EXCEPT ![w] = "ready"]
    /\ UNCHANGED <<tasks, is_closed, running, notifying, closer, submitted,
                   started>>

WorkerStep(w) == Take(w) \/ Finish(w) \/ Exit(w) \/ Wait(w)

Next ==
    \/ \E t \in Tasks : AddTask(t) \/ NotifyOne(t)
    \/ Close \/ NotifyAll
    \/ \E w \in Workers : WorkerStep(w) \/ WakeUp(w)

Spec == Init /\ [][Next]_vars

(* Every thread that can run does: a caller of add_task gets to its        *)
(* notify_one, the destructor to its notify_all, a worker that is awake to *)
(* the mutex.  Nobody has to call add_task or the destructor, and no       *)
(* wait returns by itself.                                                 *)
Fairness ==
    /\ \A t \in Tasks : WF_vars(NotifyOne(t))
    /\ WF_vars(NotifyAll)
    /\ \A w \in Workers : WF_vars(WorkerStep(w))

FairSpec == Spec /\ Fairness
-----------------------------------------------------------------------------
TypeOK ==
    /\ tasks \in Seq(Tasks)
    /\ is_closed \in BOOLEAN
    /\ wpc \in [Workers -> {"ready", "task", "waiting", "exited"}]
    /\ running \in [Workers -> SUBSET Tasks]
    /\ notifying \subseteq Tasks
    /\ closer \in {"open", "notify", "closed"}
    /\ submitted \in Seq(Tasks)
    /\ started \in Seq(Tasks)

(* However the callers of add_task and the workers interleave, tasks start *)
(* in the order in which they were pushed; none is lost and none is        *)
(* started twice (thread_pool.h:19-21, 49-52).                             *)
StartedInOrder == submitted = started \o tasks

(* No wake-up is lost although notify_one comes after the unlock           *)
(* (thread_pool.h:52-53): while a worker sleeps, every queued task has a   *)
(* worker on its way to the mutex or a notification still to come.         *)
Awake == {w \in Workers : wpc[w] = "ready"}

WorkConserving ==
    Waiting # {} => Len(tasks) <= Cardinality(Awake) + Cardinality(notifying)

(* The destructor abandons no task: a worker leaves only when the queue is *)
(* empty, for ever, and once it has notified nobody sleeps                 *)
(* (thread_pool.h:26, 41-43).                                              *)
CloseDrains ==
    /\ \A w \in Workers : wpc[w] = "exited" => closer # "open" /\ tasks = <<>>
    /\ closer = "closed" => Waiting = {}

(* Every task handed to the pool is executed to its end.                   *)
EveryTaskRuns ==
    \A t \in Tasks :
        t \in Elements(submitted) ~>
            t \in Elements(started) /\ \A w \in Workers : t \notin running[w]

(* After the destructor every worker ends.                                 *)
EveryWorkerEnds == closer = "notify" ~> \A w \in Workers : wpc[w] = "exited"
=============================================================================
