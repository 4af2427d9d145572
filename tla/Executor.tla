------------------------------ MODULE Executor ------------------------------
(***************************************************************************)
(* How the tasks of MyTask (src/include/common/task.h) are run by the      *)
(* executor of taskflow (src/include/taskflow/core/executor.hpp): the      *)
(* queues of the workers and the shared one, stealing, the two-phase       *)
(* waiting on the notifier, the join counters that release a task when its *)
(* predecessors have ended, and the end of a run and of the executor.      *)
(*                                                                         *)
(* The operations of a queue (tsq.hpp) and of the notifier (notifier.hpp)  *)
(* are atomic steps, memory is sequentially consistent.  Only what static  *)
(* tasks use is modelled: no conditions, subflows, semaphores, priorities, *)
(* observers, and no cancelled run.                                        *)
(***************************************************************************)
EXTENDS Integers, Sequences, FiniteSets

CONSTANTS Modes,    \* the graphs and numbers of workers, see Mode
          NoTask    \* a null pointer to a node

(* A mode is a record of the tasks in the order in which they were         *)
(* emplaced, the successors of each in the order of precede(), the tasks   *)
(* whose function does not return, the number of workers, and how often    *)
(* _explore_task draws another victim (_MAX_STEALS and 100 in the code).   *)
(* Each emplace() makes a node of its own, there is one at least, and      *)
(* precede() closes no cycle: in every set of tasks there is one that no   *)
(* other of the set precedes.                                              *)
Tasks(m) == {m.order[i] : i \in 1 .. Len(m.order)}

Acyclic(m) ==
    \A S \in SUBSET Tasks(m) : S # {} =>
        \E t \in S : \A a \in S : \A i \in 1 .. Len(m.next[a]) : m.next[a][i] # t

Mode(m) ==
    /\ m.order # <<>> /\ m.order \in Seq(Tasks(m))
    /\ \A i, j \in 1 .. Len(m.order) : m.order[i] = m.order[j] => i = j
    /\ m.next \in [Tasks(m) -> Seq(Tasks(m))]
    /\ Acyclic(m)
    /\ m.endless \subseteq Tasks(m)
    /\ m.workers \in Nat \ {0} /\ m.tries \in Nat

ASSUME ExecutorAssumption == \A m \in Modes : Mode(m) /\ NoTask \notin Tasks(m)

VARIABLES
    mode,        \* one of Modes
    main,        \* where the thread is that calls run() and the destructor
    notices,     \* what notify_n of the main thread has left to do
    shared,      \* Executor::_wsq
    wsq,         \* Worker::_wsq
    join,        \* Node::_join_counter
    left,        \* Topology::_join_counter
    topologies,  \* _num_topologies
    promise,     \* Topology::_promise has its value
    done,        \* _done
    prewait,     \* the notifier: waiters between prepare_wait and their decision
    parked,      \* the notifier: the stack of waiters that have committed
    pc,          \* where each worker is
    node,        \* the task a worker is at
    cache,       \* Worker::_cache
    index,       \* the index of the loop a worker is in
    vtm,         \* Worker::_vtm
    begun,       \* history: the tasks whose function was called
    ended        \* history: the tasks whose function returned

queues == <<shared, wsq>>
counters == <<join, left, topologies, promise>>
notifier == <<prewait, parked>>
local == <<node, cache, index, vtm>>
history == <<begun, ended>>
vars == <<mode, main, notices, queues, counters, done, notifier, pc, local, history>>

Workers == 1 .. mode.workers

(* An edge is a task and the index of one of its successors. *)
Edges == UNION {{a} \X (1 .. Len(mode.next[a])) : a \in Tasks(mode)}
Target(e) == mode.next[e[1]][e[2]]

(* Node::num_dependents *)
Into(t) == {e \in Edges : Target(e) = t}
Dependents(t) == Cardinality(Into(t))

Sources == {t \in Tasks(mode) : Dependents(t) = 0}

(* t was emplaced before u. *)
Emplaced(t, u) ==
    \E i, j \in 1 .. Len(mode.order) :
        i < j /\ mode.order[i] = t /\ mode.order[j] = u

(* The tasks of S in the order in which they were emplaced. *)
InOrder(S) ==
    {s \in [1 .. Cardinality(S) -> S] :
        \A i, j \in 1 .. Cardinality(S) : i < j => Emplaced(s[i], s[j])}

Init ==
    /\ mode \in Modes
    /\ main = "run" /\ notices = 0
    /\ shared = <<>> /\ wsq = [w \in Workers |-> <<>>]
    /\ join = [t \in Tasks(mode) |-> 0] /\ left = 0 /\ topologies = 0
    /\ promise = FALSE /\ done = FALSE
    /\ prewait = <<>> /\ parked = <<>>
    /\ pc = [w \in Workers |-> "explore"]
    /\ node = [w \in Workers |-> NoTask] /\ cache = [w \in Workers |-> NoTask]
    /\ index = [w \in Workers |-> 0]
    /\ vtm = [w \in Workers |-> w]
    /\ begun = {} /\ ended = {}

-----------------------------------------------------------------------------
(* A queue of tasks: its owner works at one end, thieves at the other.     *)
Push(q, t) == Append(q, t)
Popped(q) == q[Len(q)]
AfterPop(q) == SubSeq(q, 1, Len(q) - 1)
Stolen(q) == Head(q)
AfterSteal(q) == Tail(q)

-----------------------------------------------------------------------------
(* The notifier.  prepare_wait draws a ticket, the waiters decide in the   *)
(* order of their tickets, and a waiter that is not in prewait any more    *)
(* has been notified.                                                      *)

(* Mutant: a waiter that has not committed yet is not notified. *)
NotifyOneParked(next) ==
    IF parked # <<>>
    THEN /\ parked' = Tail(parked) /\ UNCHANGED prewait
         /\ pc' = [next EXCEPT ![Head(parked)] = "explore"]
    ELSE pc' = next /\ UNCHANGED notifier

(* notify(false), by a thread after which the workers are at next. *)
NotifyOne(next) ==
    CASE prewait # <<>> ->
           /\ prewait' = Tail(prewait) /\ pc' = next /\ UNCHANGED parked
      [] prewait = <<>> /\ parked # <<>> ->
           /\ parked' = Tail(parked) /\ UNCHANGED prewait
           /\ pc' = [next EXCEPT ![Head(parked)] = "explore"]
      [] OTHER -> pc' = next /\ UNCHANGED notifier

(* notify(true) *)
NotifyAll(next) ==
    /\ prewait' = <<>> /\ parked' = <<>>
    /\ pc' = [w \in Workers |-> IF \E i \in 1 .. Len(parked) : parked[i] = w
                                THEN "explore" ELSE next[w]]

At(w, label) == [pc EXCEPT ![w] = label]

Notified(w) == \A i \in 1 .. Len(prewait) : prewait[i] # w

(* It is w's turn to decide; its ticket is handed in. *)
Decide(w) == prewait # <<>> /\ Head(prewait) = w /\ prewait' = Tail(prewait)

-----------------------------------------------------------------------------
(* The thread that owns the executor *)

(* _schedule, by a thread that is no worker *)
Schedule(nodes) ==
    /\ shared' = shared \o nodes
    /\ notices' = Len(nodes)

SetUpTopology ==
    /\ join' = [t \in Tasks(mode) |-> Dependents(t)]
    /\ left' = Cardinality(Sources)
    /\ \E nodes \in InOrder(Sources) : Schedule(nodes)

(* run_until *)
Run ==
    /\ main = "run"
    /\ topologies' = topologies + 1
    /\ SetUpTopology
    /\ main' = "notify"
    /\ UNCHANGED <<mode, wsq, promise, done, notifier, pc, local, history>>

(* notify_n *)
MainNotify ==
    /\ main = "notify"
    /\ IF notices >= mode.workers
       THEN NotifyAll(pc) /\ notices' = 0
       ELSE NotifyOne(pc) /\ notices' = notices - 1
    /\ main' = IF notices' = 0 THEN "wait" ELSE "notify"
    /\ UNCHANGED <<mode, queues, counters, done, local, history>>

(* wait() of the future *)
Return ==
    /\ main = "wait" /\ promise
    /\ main' = "returned"
    /\ UNCHANGED <<mode, notices, queues, counters, done, notifier, pc, local, history>>

(* The destructor: wait_for_all, then the workers are told to leave. *)
Shutdown ==
    /\ main = "returned" /\ topologies = 0
    /\ done' = TRUE /\ main' = "shutdown"
    /\ UNCHANGED <<mode, notices, queues, counters, notifier, pc, local, history>>

NotifyShutdown ==
    /\ main = "shutdown"
    /\ NotifyAll(pc) /\ main' = "join"
    /\ UNCHANGED <<mode, notices, queues, counters, done, local, history>>

Joined ==
    /\ main = "join" /\ \A w \in Workers : pc[w] = "gone"
    /\ main' = "end"
    /\ UNCHANGED <<mode, notices, queues, counters, done, notifier, pc, local, history>>

-----------------------------------------------------------------------------
(* _wait_for_task *)

(* _explore_task: the victim whose number is the worker's own stands for   *)
(* the shared queue.  After a failure another victim is drawn, until there *)
(* were too many or the executor is done.                                  *)
Victim(w) == IF vtm[w] = w THEN shared ELSE wsq[vtm[w]]

Steal(w) ==
    /\ pc[w] = "explore" /\ Victim(w) # <<>>
    /\ node' = [node EXCEPT ![w] = Stolen(Victim(w))]
    /\ IF vtm[w] = w THEN shared' = AfterSteal(shared) /\ UNCHANGED wsq
       ELSE wsq' = [wsq EXCEPT ![vtm[w]] = AfterSteal(@)] /\ UNCHANGED shared
    /\ pc' = At(w, "stolen")
    /\ index' = [index EXCEPT ![w] = 0]
    /\ UNCHANGED <<mode, main, notices, counters, done, notifier, cache, vtm, history>>

StealFails(w) ==
    /\ pc[w] = "explore" /\ Victim(w) = <<>>
    /\ \/ index[w] = mode.tries /\ UNCHANGED vtm
       \/ index[w] < mode.tries /\ \E v \in Workers : vtm' = [vtm EXCEPT ![w] = v]
    /\ IF done \/ index[w] = mode.tries
       THEN pc' = At(w, "prepare") /\ index' = [index EXCEPT ![w] = 0]
       ELSE index' = [index EXCEPT ![w] = @ + 1] /\ UNCHANGED pc
    /\ UNCHANGED <<mode, main, notices, queues, counters, done, notifier,
                   node, cache, history>>

(* The thief wakes another one before it runs what it has stolen. *)
NotifyThief(w) ==
    /\ pc[w] = "stolen"
    /\ NotifyOne(At(w, "begin"))
    /\ UNCHANGED <<mode, main, notices, queues, counters, done, local, history>>

PrepareWait(w) ==
    /\ pc[w] = "prepare"
    /\ prewait' = Append(prewait, w)
    /\ pc' = At(w, "check shared")
    /\ UNCHANGED <<mode, main, notices, queues, counters, done, parked, local, history>>

CheckShared(w) ==
    /\ pc[w] = "check shared"
    /\ IF shared # <<>>
       THEN pc' = At(w, "cancel") /\ vtm' = [vtm EXCEPT ![w] = w]
       ELSE pc' = At(w, "check done") /\ UNCHANGED vtm
    /\ UNCHANGED <<mode, main, notices, queues, counters, done, notifier,
                   node, cache, index, history>>

CheckDone(w) ==
    /\ pc[w] = "check done"
    /\ IF done THEN pc' = At(w, "cancel and leave") /\ UNCHANGED index
       ELSE pc' = At(w, "scan") /\ index' = [index EXCEPT ![w] = 1]
    /\ UNCHANGED <<mode, main, notices, queues, counters, done, notifier,
                   node, cache, vtm, history>>

(* Mutant: the last queue is not looked at. *)
ScanToLast(w) == index[w] >= mode.workers

ScanEnds(w) == index[w] > mode.workers

Scan(w) ==
    /\ pc[w] = "scan"
    /\ CASE ScanEnds(w) ->
              /\ pc' = At(w, "commit") /\ index' = [index EXCEPT ![w] = 0]
              /\ UNCHANGED vtm
         [] ~ScanEnds(w) /\ wsq[index[w]] # <<>> ->
              /\ pc' = At(w, "cancel") /\ index' = [index EXCEPT ![w] = 0]
              /\ vtm' = [vtm EXCEPT ![w] = index[w]]
         [] OTHER ->
              index' = [index EXCEPT ![w] = @ + 1] /\ UNCHANGED <<pc, vtm>>
    /\ UNCHANGED <<mode, main, notices, queues, counters, done, notifier,
                   node, cache, history>>

(* cancel_wait: a ticket that was called already needs no handing in. *)
CancelWait(w) ==
    /\ pc[w] \in {"cancel", "cancel and leave"}
    /\ \/ Decide(w)
       \/ Notified(w) /\ UNCHANGED prewait
    /\ pc' = At(w, IF pc[w] = "cancel" THEN "explore" ELSE "leave")
    /\ UNCHANGED <<mode, main, notices, queues, counters, done, parked, local, history>>

CommitWait(w) ==
    /\ pc[w] = "commit"
    /\ \/ Decide(w) /\ parked' = <<w>> \o parked /\ pc' = At(w, "parked")
       \/ Notified(w) /\ pc' = At(w, "explore") /\ UNCHANGED notifier
    /\ UNCHANGED <<mode, main, notices, queues, counters, done, local, history>>

Leave(w) ==
    /\ pc[w] = "leave"
    /\ NotifyAll(At(w, "gone"))
    /\ UNCHANGED <<mode, main, notices, queues, counters, done, local, history>>

-----------------------------------------------------------------------------
(* _exploit_task and _invoke *)

Begin(w) ==
    /\ pc[w] = "begin"
    /\ begun' = begun \cup {node[w]}
    /\ pc' = At(w, "body")
    /\ UNCHANGED <<mode, main, notices, queues, counters, done, notifier, local, ended>>

(* The function returns, and the counter of the task is set for another    *)
(* run.                                                                    *)
Finish(w) ==
    /\ pc[w] = "body" /\ node[w] \notin mode.endless
    /\ ended' = ended \cup {node[w]}
    /\ join' = [join EXCEPT ![node[w]] = @ + Dependents(node[w])]
    /\ cache' = [cache EXCEPT ![w] = NoTask]
    /\ index' = [index EXCEPT ![w] = 1]
    /\ pc' = At(w, "successors")
    /\ UNCHANGED <<mode, main, notices, queues, left, topologies, promise, done,
                   notifier, node, vtm, begun>>

(* Mutant: a successor is released by the first of its predecessors. *)
ReleasesFirst(s) == join[s] = Dependents(s)

Releases(s) == join[s] = 1

(* The loop over the successors: the last one that is released stays in    *)
(* the cache, the one before it goes into the worker's queue.              *)
Successor(w) ==
    LET after == mode.next[node[w]]
        s == after[index[w]]
    IN  /\ pc[w] = "successors" /\ index[w] <= Len(after)
        /\ index' = [index EXCEPT ![w] = @ + 1]
        /\ join' = [join EXCEPT ![s] = @ - 1]
        /\ IF Releases(s)
           THEN /\ left' = left + 1
                /\ cache' = [cache EXCEPT ![w] = s]
                /\ IF cache[w] = NoTask THEN UNCHANGED <<wsq, pc>>
                   ELSE /\ wsq' = [wsq EXCEPT ![w] = Push(@, cache[w])]
                        /\ pc' = At(w, "pushed")
           ELSE UNCHANGED <<left, cache, wsq, pc>>
        /\ UNCHANGED <<mode, main, notices, shared, topologies, promise, done,
                       notifier, node, vtm, history>>

NotifyPushed(w) ==
    /\ pc[w] = "pushed"
    /\ NotifyOne(At(w, "successors"))
    /\ UNCHANGED <<mode, main, notices, queues, counters, done, local, history>>

(* Mutant: the run ends when no task is running. *)
LastOfOthers == left <= 2

Last == left = 1

(* _tear_down_invoke *)
TearDown(w) ==
    /\ pc[w] = "successors" /\ index[w] > Len(mode.next[node[w]])
    /\ left' = left - 1
    /\ pc' = At(w, IF Last THEN "settle" ELSE "next")
    /\ UNCHANGED <<mode, main, notices, queues, join, topologies, promise, done,
                   notifier, local, history>>

(* _tear_down_topology; the thread that called run() holds the mutex of    *)
(* the taskflow until it has notified.                                     *)
Settle(w) ==
    /\ pc[w] = "settle" /\ main # "notify"
    /\ promise' = TRUE
    /\ pc' = At(w, "decrement")
    /\ UNCHANGED <<mode, main, notices, queues, join, left, topologies, done,
                   notifier, local, history>>

Decrement(w) ==
    /\ pc[w] = "decrement"
    /\ topologies' = topologies - 1
    /\ pc' = At(w, "next")
    /\ UNCHANGED <<mode, main, notices, queues, join, left, promise, done,
                   notifier, local, history>>

(* The cached task first, then the worker's own queue, from its end. *)
NextTask(w) ==
    /\ pc[w] = "next"
    /\ LET own == wsq[w]
       IN  CASE cache[w] # NoTask ->
                  /\ node' = [node EXCEPT ![w] = cache[w]]
                  /\ pc' = At(w, "begin") /\ UNCHANGED wsq
             [] cache[w] = NoTask /\ own # <<>> ->
                  /\ node' = [node EXCEPT ![w] = Popped(own)]
                  /\ wsq' = [wsq EXCEPT ![w] = AfterPop(own)]
                  /\ pc' = At(w, "begin")
             [] OTHER ->
                  /\ node' = [node EXCEPT ![w] = NoTask]
                  /\ pc' = At(w, "explore") /\ UNCHANGED wsq
    /\ index' = [index EXCEPT ![w] = 0]
    /\ UNCHANGED <<mode, main, notices, shared, counters, done, notifier,
                   cache, vtm, history>>

-----------------------------------------------------------------------------
MainStep == Run \/ MainNotify \/ Return \/ Shutdown \/ NotifyShutdown \/ Joined

WorkerStep(w) ==
    \/ Steal(w) \/ StealFails(w) \/ NotifyThief(w)
    \/ PrepareWait(w) \/ CheckShared(w) \/ CheckDone(w) \/ Scan(w)
    \/ CancelWait(w) \/ CommitWait(w) \/ Leave(w)
    \/ Begin(w) \/ Finish(w) \/ Successor(w) \/ NotifyPushed(w) \/ TearDown(w)
    \/ Settle(w) \/ Decrement(w) \/ NextTask(w)

Next == MainStep \/ \E w \in Workers : WorkerStep(w)

AllWorkers == UNION {1 .. m.workers : m \in Modes}

(* The operating system runs every thread, and a task's function returns   *)
(* unless it is one of mode.endless.                                       *)
Spec == /\ Init /\ [][Next]_vars
        /\ WF_vars(MainStep)
        /\ \A w \in AllWorkers : WF_vars(w \in Workers /\ WorkerStep(w))

-----------------------------------------------------------------------------
(* Properties *)

Labels ==
    {"explore", "stolen", "prepare", "check shared", "check done", "scan",
     "cancel", "cancel and leave", "commit", "parked", "leave", "gone",
     "begin", "body", "successors", "pushed", "settle", "decrement", "next"}

TypeOK ==
    /\ mode \in Modes
    /\ main \in {"run", "notify", "wait", "returned", "shutdown", "join", "end"}
    /\ notices \in Nat
    /\ shared \in Seq(Tasks(mode)) /\ wsq \in [Workers -> Seq(Tasks(mode))]
    /\ join \in [Tasks(mode) -> Int] /\ left \in Int /\ topologies \in Int
    /\ promise \in BOOLEAN /\ done \in BOOLEAN
    /\ prewait \in Seq(Workers) /\ parked \in Seq(Workers)
    /\ pc \in [Workers -> Labels]
    /\ node \in [Workers -> Tasks(mode) \cup {NoTask}]
    /\ cache \in [Workers -> Tasks(mode) \cup {NoTask}]
    /\ index \in [Workers -> Nat] /\ vtm \in [Workers -> Workers]
    /\ begun \subseteq Tasks(mode) /\ ended \subseteq Tasks(mode)

(* A worker that uses the graph of the run. *)
Touches(w) ==
    \/ pc[w] \in {"stolen", "begin", "body", "successors", "pushed", "settle"}
    \/ pc[w] = "next" /\ cache[w] # NoTask

(* When wait() has returned, the taskflow may be destroyed: no queue holds *)
(* a task and no worker is at one (_tear_down_topology, executor.hpp:2135, *)
(* "in case taskflow leaves the scope").                                   *)
GraphAtRest ==
    promise => /\ shared = <<>>
               /\ \A w \in Workers : wsq[w] = <<>> /\ ~Touches(w)

(* A task is never left in a queue while a worker sleeps and nobody is on  *)
(* the way to it: the two-phase check between prepare_wait and commit_wait *)
(* (executor.hpp:1342-1367) loses no wake-up.                              *)
NoLostWakeup ==
    (shared # <<>> \/ \E w \in Workers : wsq[w] # <<>>) /\ (\E w \in Workers : pc[w] = "parked")
        => \/ main = "notify"
           \/ \E w \in Workers : pc[w] \notin {"parked", "gone", "body"}

(* Every task is run after all that precede it, at most once, and wait()   *)
(* returns after the last one.                                             *)
Graph == INSTANCE TaskGraph WITH
    tasks <- Tasks(mode),
    edges <- {<<e[1], Target(e)>> : e \in Edges},
    returned <- main \notin {"run", "notify", "wait"}

TaskGraphSpec == Graph!Spec

(* Every task is run, also when another one never returns, and when all do *)
(* the run and the executor come to their end.                             *)
RunsToTheEnd ==
    <>(begun = Tasks(mode) /\ (mode.endless = {} => main = "end"))
=============================================================================
