# cppnetwork in TLA+

cppnetwork is a small C++17 framework: an epoll event loop, an RPC service made
of a registration centre, RPC servers and RPC clients, an HTTP server, an
asynchronous log, a thread pool and a blocking queue.  This directory models
its core in TLA+, checks the models with TLC and proves theorems about them
with TLAPS.

## 1. Inventory

Paths are relative to the repository.

| Component | State it keeps | Operations | Talks to |
|---|---|---|---|
| Registration centre: `src/service/registry.cpp` | `_addr_map` name -> descriptors, `_server_map` descriptor -> address, `_count_map` name -> lookups, `_task_map` buffers per connection | `receive`, `deal_read` (REG, FINDSERVER), `deal_write`, `register_`, `discover_server` | servers and clients over TCP; derives from `Server` |
| RPC server: `src/service/rpc_server.cpp` | `_func_map`, `_task_map`, connection to the registry | `load_func`, `connect_registry`, `register_`, `receive`, `deal_read`, `deal`, `deal_write` | registry (as its client), RPC clients |
| RPC client: `include/service/rpc_client.h`, `src/common/client.cpp` | connection to the registry, the server last found, connection to it | `run`, `call`, `get_server`, `net_call`, `close` | registry, RPC servers |
| Event loop: `src/common/server.cpp`, `src/common/epoll.cpp` | listening socket, epoll registrations, `_events` | `run`, `epoll_wait`, `accept`, `stop`; virtual `receive`, `deal_read`, `deal_write` | kernel; the three services derive from it |
| Thread pool: `include/common/thread_pool.h` | `_tasks`, `_is_closed` | constructor, `add_task`, worker loop, destructor | created by `Server::init`; its uses are commented out |
| Blocking queue: `include/common/block_queue.h` | `_deq`, `_is_close`, two condition variables | `push_back`, `push_front`, `pop`, `pop` with a timeout, `clear`, `close`, `flush` | `Log` |
| Log: `src/common/log.cpp` | `_fp`, `_count`, `_today`, `_log_queue` | `init`, `write_log`, `async_write_log`, `flush` | everybody; a writer thread |
| HTTP server: `src/service/http_server.cpp` | `EveryTask` per connection: receive buffer, parser position and state, send buffer, `_iv` with two counts, mapped file | `receive`, `deal_read` (`process_read`, `deal_request`, `process_write`), `deal_write`, `init_data` | browsers; registry (connects, never registers) |
| Serializer: `include/common/serializer.h`, `include/service/rpc_utils.h` | a byte buffer and a position | `<<`, `>>`, `reset`, `clear`, `write_raw_data` | the RPC components |
| Start-up: `include/common/task.h`, `include/common/dag_init.h` | the graph of tasks A to G | `add_task`, `run`, `close` | taskflow; task F is the life of a server or client |
| Configuration: `include/common/conf.h`, `net_data.h` | key/value map, flags | `get`, `init` | everybody |
| taskflow: `include/taskflow` (vendored) | queues of the workers, the notifier, join counters of the tasks, the topology of a run | `run`, the loop of a worker, `wait`, the destructor, and much that the program does not call | `MyTask` |

What is hard here:

* **Events.** Edge-triggered and one-shot registrations must be re-armed on
  every path, after the right amount has been read; the accept queue, the ready
  list and the batch of events change independently.
* **Processes.** Registry, servers and clients start in any order; a server
  registers before it listens; servers die and stay listed.
* **Threads.** Wake-ups of condition variables, notifications made after the
  unlock, close racing with use; a worker of the executor that falls asleep
  while a task is pushed.
* **Partial results.** A request in pieces, an answer that `writev` sends in
  pieces, state of one request that the next one finds.
* **Numbers.** An `int` counter that wraps and is reduced modulo a `size_t`;
  the result of `writev` in a `size_t`.

What makes each component correct:

* *Registration centre*: answers with a server that has the function; spreads
  lookups evenly; its three tables agree; every request is answered.
* *RPC*: a call is executed at most once, its result is its own, it ends.
* *Event loop*: every connection is accepted, everything sent is read, no
  descriptor stays disabled, no busy loop.
* *Thread pool*: tasks start once and in order, no lost wake-up, the destructor
  drains the queue and ends the workers.
* *Blocking queue*: bounded, items conserved and in order, no lost wake-up,
  close releases the waiters.
* *Log*: a line is written once, in the order of the calls, to the file of its
  day, at most `_split_lines` lines in a file.
* *HTTP*: a request is recognised as what it is whatever came before it on the
  connection; exactly the answer is sent, and all of it.
* *Start-up*: tasks run once and in the order of the graph; the run ends, and
  is over when `wait()` returns.
* *Serializer*: reading gives back what was written.

`PROJECT.json` lists the hazards line by line with the properties that cover them.

## 2. Plan

In the order of importance; each point was modelled, checked and then proved as
far as the prover goes.

| | Modules | Proofs |
|---|---|---|
| 1. the RPC service | `Registry`, `LoadBalance`, `RemoteCall`, `RpcSystem` | `LoadBalanceProofs`, `RpcProofs` |
| 2. the event loop and epoll | `Reactor` | `ReactorProofs` |
| 3. the thread pool | `ThreadPool` | `ThreadPoolProofs` |
| 4. the blocking queue | `BlockDeque` | `BlockDequeProofs` |
| 5. the log | `Log` | `LogProofs` |
| 6. a connection of the HTTP server | `Http` | `HttpProofs` |
| 7. the start-up tasks and their executor | `TaskGraph`, `Executor` | `ExecutorProofs` |

Every safety property that a run checks is proved; what is open is the bytes of
the serializer (section 8).

How the modules fit together:

    Registry <--EXTENDS-- LoadBalance <-- MCLoadBalance, LoadBalanceProofs
        ^---EXTENDS-- RpcSystem <-- MCRpc, RpcProofs
                          |--INSTANCE--> RemoteCall   (refinement)
    Reactor <-- MCReactor, ReactorProofs
    ThreadPool <-- ThreadPoolProofs
    BlockDeque <-- BlockDequeProofs
    Log <-- LogProofs        (uses the queue's operations as single steps)
    Http <-- MCHttp, HttpProofs
    Executor <-- MCStartup, ExecutorProofs
        |--INSTANCE--> TaskGraph   (refinement)

## 3. The modules and the code

**Registry** (`registry.cpp:107-142`, `registry.h:69-82`).  The three tables
and the two operations on them.  `Register` is `register_`: the descriptor is
appended under every name of the message.  `Index` is lines 136-137: `++` on an
`int` that wraps, conversion to `size_t`, remainder.  A server stands for the
descriptor of its registration, since the registry never closes one.

**LoadBalance** puts the tables under every order of registrations and lookups
(`registry.cpp:43-85`) and adds the history that "load balancing" is about: how
often each server was handed out.

**RpcSystem** is the whole service.  `receive` + `deal_read` is one step, since
the loop is one thread, and `deal_write` is another, since it waits for its
own event.

| State | Code |
|---|---|
| `rconn[p]`, `sconn[c]` | a connection as the accepting process sees it: registration with epoll (`arm`), received bytes (`in`), `EveryTask` buffer (`buf`), bytes sent (`out`) |
| `lis[l]` | an accept queue, and whether the listening socket has an event |
| `spc[s]` | `task.h:122-139`: `connect_registry`, `register_`, `run` |
| `cpc[c]`, `callNo`, `target` | `rpc_client_main.cpp`, `RpcClient::call`, `_server_ip`/`_server_port` |

`RegistryReadReg`, `RegistryReadFind`, `RegistryWrite`, `ServerRead`,
`ServerWrite` are the handlers with their re-arming; `ServerConnect`,
`ServerRegistered`, `ServerListen` the start of a server; `ClientStart`,
`ClientFind`, `ClientCall`, `ClientReturn`, `ClientServerGone`, `ClientDone` a
client.  A process that calls `abort()` or is killed by `SIGPIPE` stops in
`"aborted"` or `"killed"`.  A message is one record and arrives whole.

**RemoteCall** is the promise to a client, without registry, connections or
events: a call runs at most once, by a server that has the function, and
returns the value of that run, or fails; a client may be lost.

**Reactor** (`server.cpp`, `epoll.cpp`) is the loop below the three services,
with as much of epoll as it depends on: `ready` is the ready list, `batch` what
is left of `_events`.  `Wait` is `epoll_wait(2)`, which goes through the ready
list entry by entry (`StartScan`, `Scan`).  Peers go on meanwhile; what happens
to them is noted in `ovflist`, for a descriptor that is still to be looked at as
well, and `Collect` and `EndScan` put it into the ready list afterwards.  `Accept`, `ReadNothing`,
`Read`, `Write` and `HangUp` are the branches of the loop; the virtual handlers
appear as what they do to the descriptor (`Outcomes`).  `Read` takes `receive`
and the re-arming that ends `deal_read` as one step: what a peer sends between
the two is seen by `mod_fd`, which polls the socket again, as if it had come
after it.  The list as a whole
could be taken in one step; the steps are what the kernel does, and they keep
the proofs to one element of a sequence at a time.

**ThreadPool** (`thread_pool.h`) and **BlockDeque** (`block_queue.h`): what a
thread does between taking the mutex and giving it up, by unlock or by `wait`,
is a step; a notification that comes after the unlock is a step of its own; a
wait may end by itself.  `used` remembers which of the operations beyond those
of `Log` have been called (`Uses` says which may be): `ConsumersWoken`,
`ProducersWoken` and `FifoOrder` are about a queue on which the ones that break
them have not been.

**Log** (`log.cpp`): `Gettimeofday`, `CountAndSwitch`, `Route`, `PushBack` or
`WriteDirectly`, and `Flush` are the pieces of `LOG_INFO` between which other
threads run; `Pop` and `WriteQueued` are the writer thread.  A wait inside the
queue is a guard, which `ConsumersWoken` and `ProducersWoken` of `BlockDeque`
justify.

**Http** (`http_server.cpp`) is one connection.  A symbol stands for a word of
the request or for a character the parser looks for, so that positions in
`recv_buf` are positions the parser computes with: `task` holds `_checked_idx`,
`_start_line`, `_check_state`, `_url` and the rest of the parser's part of
`EveryTask`.  The target of a request is two words: a slash or a scheme, and
what follows it, with a slash in it or not; `UrlAt` is where `_url` points once
a scheme is taken off, if there is a path.  `map` says of `_mmap_file` whether
it was ever set, is null or maps a page, and of `_file_stat` whether `stat` ever
filled it in.

| Step | Code |
|---|---|
| `Receive` | `receive` (26-51): the buffer is emptied and filled from its beginning |
| `NextLine`, `TakeLine` | one turn of `process_read`: `parse_line`; then the request line, a header or the body |
| `Respond`, `DealRequest` | `deal_request`, `process_write`, and `deal_read`'s re-arming |
| `StartWriting`, `Writev`, `WouldBlock`, `Finished`, `Linger` | `deal_write` (84-140), one `writev` a step |
| `RequestLine`, `TargetLine` | `parse_request_line` (245-297), with the scheme of the target (279-291) |
| `Dies` | a null pointer is read through: `_url` (285) or what `strrchr` returns (360) |
| `WildUnmap` | `munmap` of what nothing has set (123); the process may die of it |
| `ResetParser` | `init_data` |
| `GoesAstray` | the loop when the counts and `_iv` have come apart |

**Executor** (`taskflow/core/executor.hpp`) runs the graph that `MyTask::run`
builds (`task.h:42-62`).  `main` is the thread that calls `run().wait()` and
then destroys the executor; a worker goes through `_explore_task`,
`_exploit_task`, `_invoke` and `_wait_for_task`, one access to a queue, a
counter or the notifier at a time.  `wsq` and `shared` are the queues, `join`
and `left` the counters, `prewait` and `parked` the two halves of the
notifier's state word.  The random victim is a choice; how often another is
drawn is `tries`, since it changes what is tried and not what can be found.

**TaskGraph** is what `MyTask` relies on: a task begins once, after all that
precede it, and `wait()` returns when all have ended.

Operators whose comment begins with *Mutant* are not part of a model.  Each is
a definition of the model as a plausible bug would leave it; `PROJECT.json`
says which property it breaks.

## 4. The runs

| Run | Shows | Bounds |
|---|---|---|
| `load_balance` | Between two changes of a list nobody is handed out twice more than another; the index is always in range; the tables agree | 3 servers, 2 names, `IntMax` 3, `SizeMod` 64, 10 lookups |
| `rpc` | Results are a call's own; calls run at most once; a client is sent to a server that has the function; who serves is listed; the service implements `RemoteCall`; an accepted call ends though servers die; and every client gets through its program where the sockets are level-triggered, processes start in order and none dies | 2 servers, 2 clients, 3 calls; edge-triggered, any start order, deaths; and the calm mode |
| `rpc_unknown_name` | *Violation*: a lookup of an unknown name is never answered | a client that asks for such a name, calm mode |
| `reactor` | No event and no input is lost, no descriptor stays disabled, the edge-triggered loop is silent when its peers are, the level-triggered one accepts everybody | 2 connections, the 4 modes, 2 events a wait, buffer 1, 2 segments a peer |
| `reactor_burst` | *Violation*: edge-triggered, one of two connections that arrive together is never accepted | as shipped |
| `pool` | Tasks start once, in order; no lost wake-up; the destructor drains; every task runs, every worker ends | 3 workers, 3 tasks |
| `deque` | All operations together: bounded, nothing lost or doubled, `close` releases everybody; and while only what `Log` uses is called, first in, first out, no lost wake-up, all items come out | 2 + 2 threads, 3 items, capacity 2 |
| `log` | No line lost or doubled; order per thread; file name and count agree; how far a file outgrows its limit; all lines written | 2 callers of 2 lines, queue of 2, files of 2 lines, 1 midnight, both modes |
| `log_flush` | *Violation*: the last line stays in the buffer of stdio | 2 callers of 1 line, asynchronous |
| `http` | Every request is recognised as what it is, whatever came before it; what the peer reads is what was composed, however `writev` cuts it; an answer that was composed is sent in full unless the peer's side is full; the process dies of two kinds of request only | 3 requests out of 7 kinds, 5 outcomes of `stat`, send buffers of 2, 4 and 6 for answers of 3 or 3 + 2 |
| `http_pieces` | *Violation*: a request in two pieces is never recognised | 1 request |
| `startup` | The executor implements `TaskGraph`; `wait()` returns when nobody touches the graph; no worker sleeps through a task nobody else will take; every task runs although one never returns, and the workers are joined | the graphs of a client and of a server with 1 and 2 workers, a fan with 2 and 3, a pair with 3 |

Why the bounds are enough.  `IntMax` 3 makes the counter of a name wrap and
come back to its start within ten lookups; `SizeMod` 64 is not a multiple of
three, so the rotation jumps where a real `size_t` makes it jump.  In `rpc` two
servers share a name, so that the registry has a choice, and each client uses
its registry connection again for its second call; `IntMax` 1 makes the counter
wrap within three calls.  In `reactor` a peer can send more than the receive
buffer holds and both connections and the listening socket can be ready at
once, with room for two in a batch, so one is always left over.  Three workers
are needed for a notification to reach the wrong one while another waits.  The
queue of `deque` has room for two, so that two threads sleep for the same
reason, and the third item finds it full.  In `log`, two callers are enough for
a line to be counted for one file and written to the next, and for a late
thread to turn the day back.  In `http` three requests are needed for one to
find what its predecessor left and to leave something itself; a send buffer of
2 cuts a head of 3 and the file behind it, one of 4 cuts in the file, one of 6
takes the whole answer of 5.  In `startup` the two graphs of `MyTask` never have
more than two tasks ready; `Fan` makes one task release three, so that the
queue of a worker holds what another must steal, and `Pair` has more workers
than tasks.

`FileBounded` is stated for the mode without a queue.  With it the lines in the
queue and with the writer come on top, and seeing the larger bound exceeded
would need more lines than can be checked.

The properties of `Http` say when they stop.  `faults` records the events after
which the code goes wrong without noticing:

* a request in pieces, after which the parser is lost (`http_pieces`);
* an answer that announces the end of the connection and is followed by nothing
  that ends it, so that a further request finds the old parser;
* a send buffer without any room (`WouldBlock`): -1 in a `size_t` is not less
  than 0, the counts of `deal_write` are wrong, and the loop around `writev`
  does not end (`GoesAstray`);
* a head that is cut twice (`CutTwice`): `iov_len` is reduced by all that was
  sent before, the rest of the head is not sent, and the loop does not end
  either.

`StreamIsExact` holds until one of them; `AnsweredInFull` says that nothing but
these keeps an answer from its peer, the last two only when the answer is longer
than the room on the peer's side.  The death of the process is no such excuse:
`Survives` names the requests it can follow from while requests come whole and
the connection is kept.  They are a target `http://` without a path (section 7),
and an answer that is finished before any page was mapped, since `munmap` is
then called with what nothing has set.  Every other whole request leaves the
process alive; a `https://` target without a path, which differs from the first
by the order of two tests, is refused.  Of the full send buffer, the second cut,
the end of a connection and `munmap` no document, test or assertion speaks: they
are in the model, in these exceptions and among the hazards, and not listed as
disagreements.

## 5. Fairness

* A thread that is not blocked runs (`WF` on its steps): the loop of a server,
  a worker, a caller that is inside an operation, the writer of the log.
* In `RpcSystem` a loop serves every connection that stays ready: `epoll_wait`
  reports descriptors in the order in which they became ready, and no handler
  blocks, so each turn of the loop ends.
* In `Http` the network delivers what was sent and the peer reads what it is
  sent; in `Executor` the function of a task returns, unless the task is one of
  those that run for ever.
* Nobody is made to do what the code leaves to the outside: to call `add_task`,
  `push_back` or `LOG_INFO`, to destroy the pool, to close the queue, to
  connect or to send.  No wait ends by itself, no process must die, it need not
  become midnight.
* A consumer comes back to `pop`, as the loop of `Log::async_write_log` does.
* A mutex and a condition variable promise no order among threads.  The
  liveness properties do not need one because the numbers of tasks, items and
  lines are bounded: with producers that never stop, a thread woken from
  `push_back` could lose its place again and again.

## 6. What is proved

`ThreadPoolProofs` proves for any finite set of workers and of tasks:
`TypeCorrect`, `PoolIsFifo` (`StartedInOrder`), `PoolConservesWork`
(`WorkConserving`) and `PoolDrains` (`CloseDrains`).  The assumption is
`ThreadPoolAssumption`: the sets are finite and there is a worker, which the
constructor asserts.

The inductive invariant `IInv` is the four properties and `Lifetime`: who still
has to notify has pushed its task, and the pool is closed only when nobody is
inside `add_task`.  Without it a push could reuse a pending notification and a
push could follow the destructor.  The central lemma is `ConserveStep`: a push
adds one task and one notification; a notification that finds a sleeper turns
into an awake worker, and one that finds none leaves nobody asleep; a worker
that takes a task takes one from both sides; and a worker falls asleep only
when the queue is empty.

`BlockDequeProofs` proves, for any finite sets of producers and consumers, any
items and any capacity: `TypeCorrect`, `QueueIsBounded` (`CapacityKept`),
`QueueIsFifo` (`FifoOrder`), `QueueWakesConsumers` (`ConsumersWoken`),
`QueueWakesProducers` (`ProducersWoken`) and `QueueConserves` (`Conserved`),
from `BlockDequeAssumption`.  The conjunction of the properties is inductive but
for `Conserved`, which needs `Apart`: what is queued, what was taken, what was
thrown away and what a producer still holds do not overlap.  `ConsumersStep`
counts items against the consumers that will look at the queue: a push adds an
item and, if anybody sleeps, such a consumer; a pop takes one of each; a
consumer falls asleep only beside an empty queue.  `ProducersStep` is the same
count for free places and producers.

`LoadBalanceProofs` proves, for any servers and names and any `int` with a
wider `size_t` (`RegistryAssumption`): `TypeCorrect`, `TablesAgree`
(`ListsMatchServers`), `LookupsInRange` (`PickInRange`) and `LoadIsBalanced`
(`Balanced`).  `ItemsMatchExports` says that a server has a `ServerItem` exactly
when it registered a name; a server that registers is therefore on no list yet.
For `Balanced` the counts of a list form a *staircase* on a circle: the servers
from the place where the rotation began up to the place that comes next are one
lookup ahead of the others.  A lookup moves the second place one further
(`OneFurther`), and when it has come round the stairs are level again; where
the counter wraps or the list changes, the counts start afresh, as `Balanced`
is stated.

`RpcProofs` proves, for any servers, clients, names, exports and programs and
any of the modes, deaths of servers included (`RpcAssumption`,
`RegistryAssumption`): `TypeCorrect`, `CallsGoToExporters`,
`ResultsBelongToTheirCalls`, `CallsRunAtMostOnce`, `ServersAreListed` and
`Implements`, that is `Spec => RemoteCallSpec`.  The invariant is that a
connection carries one message, which is in one of four places: not there
(`Quiet`), on its way (`Asked`), answered but not sent (`Composed`), or answered
(`Answered`).  `Registration`, `Lookup` and `Call` tie that place to where the
process at the other end is, and `Call` ties it to the number of executions, so
that a reply that is found on a connection can only be the one to the call that
waits.  `History` ties results to executions.  The refinement maps `ClientFind`
to `Begin`, `ServerRead` to `Execute`, `ClientReturn` to `Return`, the end of a
call with a dead server to `Fail`, a client that is killed to `Lose`, and every
other step to a stutter.

`ReactorProofs` proves, for any connections, sizes and modes of the sockets
(`ReactorAssumption`) and any service that re-arms what it reads (`"none"` is
not among its outcomes, which is so for `RpcServer` and `HttpServer`):
`TypeCorrect`, `NoneDisarmed` (`NoneLeftDisarmed`) and `NoEdgeIsLost`
(`NoEdgeLost`).  The invariant adds that a descriptor is in the ready list at
most once and in the batch at most once, never in both what is scanned and what
waits, that events wait in `ovflist` only during a scan, and `Watched`: as long
as an event is in the batch the registration is the one it was reported in, and
what EPOLLIN said is still true.  Without the first, handling one entry could
leave another one to re-arm nothing.
`Bystander` says that a step about one connection does not disturb another;
what is left of each step is the connection it is about.

`LogProofs` proves, for any finite set of callers, any capacity, any number of
lines in a file and of midnights (`LogAssumption`): `TypeCorrect`,
`LogNamesItsFile` (`FileMatchesCount`), `LogKeepsOrder` (`OrderKept`) and
`LogLosesNoLine` (`NoLineLost`) and `LogBoundsItsFiles` (`FileBounded`).  The
order invariant says that of one thread's lines, those written by the writer
come before the one it holds, that one before those in the queue, and those
before the one the thread is at; the accounting invariant that every line is in
one place.  `FileBounded` alone is not inductive, since it does not see the
lines that are counted and not yet written.  `OpenFileBounded` counts them with
the lines of the open file: together they are no more than the lines counted
since the file was opened and one for every thread.  Just before the count
reaches a multiple of the limit that is the bound of `ClosedFilesBounded`, which
the closed file keeps, since a late line goes to the open one; `FilesOpened`
says that the new file is empty.

`ExecutorProofs` proves, for any graph without a cycle, any number of workers
and of attempts to steal, and any tasks that never return
(`ExecutorAssumption`): `TypeCorrect`, `NoTaskIsTwice` (`OnePlace`),
`CountersAreExact` (`Counters`), `GraphIsAtRest` (`GraphAtRest`),
`NoWakeupIsLost` (`NoLostWakeup`) and `RunsTheGraph`, that is
`Spec => TaskGraphSpec`.  The invariant has two halves.

* `GraphInv` is about the tasks.  `Active` are those in a queue, with a worker
  or in a worker's cache; `OnePlace` says that each of them is in one such place
  only, without which two workers could come to the same task.  An edge is
  *consumed* when its first task has ended and the worker that ended it has
  passed it in its loop.  `Counters` says that the join counter of a task is the
  number of edges into it that are not consumed (and its number of predecessors
  more once it has ended, for another run), that a task is active or ended
  exactly when there are none, and that the counter of the run is the number of
  active tasks: so the worker that counts a successor down to 0 is the only one
  to release it, and the one that counts the run down to 0 leaves no task
  active.  That then every task has ended is where the graph must have no
  cycle: among the tasks that have not ended there would be one that no other of
  them precedes (`Minimal`), and it would be active (`AllEnded`).  `Progress` ties the
  history to the places, `NotBegun` and `Over` say what holds before the run
  starts and after its promise is set.
* `WakeInv` is about the workers.  `Watched` says of every queue that holds a
  task while somebody waits that somebody *watches* it: a worker that will look
  into it before it sleeps, or that will notify another one, or the main thread
  that still has notifications to make.  A waiter watches until its last look at
  that queue, and again as soon as it has been taken out of `prewait`.
  `NoLostWakeup` looks only at workers that are parked and does not say which
  queue a worker in its scan has passed already; a thief that takes the last
  notification for itself could then leave a task behind.  `Waiters` says that
  the notifier's two lists hold who is at the corresponding place, each once.

The refinement maps `Begin` to `Begin`, `Finish` to `End`, `Return` to `Return`,
and every other step to a stutter.

`HttpProofs` proves, for any set of requests, any lengths of bodies, heads and
pages, any outcome of `stat` and any room in the kernel's buffer
(`HttpAssumption`): `TypeCorrect`, `StreamStaysExact` (`StreamIsExact`),
`RequestsAreUnderstood` (`ParsedAsSent`) and `ProcessSurvives` (`Survives`).
The invariant comes in layers, each with the faults up to which it holds.

* `Types` holds always: the sequences that `TypeOK` leaves out, and that what
  is received fits the buffer, whose last byte is a NUL.
* `Stages` holds until a request is read behind an answer that ended the
  connection: outside of an answer nothing is left to send and the send buffer
  is empty (`Idle`), and while one is sent the entries of `_iv` lie inside what
  they point to (`InRange`), whatever `writev` returned.
* `Sender` holds while nothing has gone wrong.  `Vectors` gives the entries as a
  function of `_bytes_have_send`: the first is the rest of the head, or empty,
  and the second the rest of the page.  `GatheredExact` concludes that what
  `writev` is given is the answer from `_bytes_have_send` on, and `SentVectors`
  that a call which does not stop inside a head a second time leaves the
  entries so.  `StreamIsExact` alone is not inductive, since it does not see
  from where the next call goes on.
* `Parser` holds while no request comes in pieces or after the end.
  `InLine` ties the parser to the text of the request: it stands at the
  beginning of one of its lines, the buffer holds the text from there on, and
  the headers passed are those in `_linger` and `_content_length`; behind a line
  that is cut off stand two NULs.  The lines are in `IsText` and `LineAfter`;
  `ParseLineExact` says that `parse_line` finds the end of the line and no other
  place, `RequestLineExact`, `HeaderExact` and `ContentExact` that each branch of
  `process_read` leads to the next line or to `Ready`, and `DealRequestExact`
  that a request which is ready is taken for what it is, with the slash at
  `_url` that `strrchr` needs (`TargetString`).  `Places` says what holds between
  the requests: the parser is fresh when one is expected.  A part of a request
  can only be left over (`Stuck`); it is not read, since what comes then is in
  pieces.  It says of a process that is dead that it is `Excused`, by the target
  of a request or by an answer finished too early.
* `Mapped` holds always: once a page was found, `_mmap_file` and `_file_stat` are
  set.  Without it the death in `munmap` could follow any answer, and
  `ProcessSurvives` would not go through.

The type invariant of each of these modules is proved and therefore not among
the properties of its run.

Only model-checked: all liveness properties, which are beyond the prover
(`CloseReleases`, `InputIsRead`, `RunsToTheEnd`, `AnsweredInFull` and the
like).

## 7. Where code and documentation disagree

* `registry.cpp:80-84` composes the answer for an unknown name and returns
  without re-arming the descriptor for writing; `get_server` has a branch for
  that answer (`rpc_client.h:96-98`) but waits for ever.  The answer of a failed
  registration (line 58) is lost in the same way.
* `server.cpp:38` accepts one connection an event; in the mode that
  `conf/net_data.conf:4` calls the only supported one, the second of two
  connections that arrive together waits until a third one comes.
* `log.cpp:172`: the writer's `fputs` comes after the caller's `flush`;
  `log.h:17` notes the effect as a TODO.
* `http_server.cpp:61` logs of an incomplete request that it goes on reading;
  `receive` (line 33) clears the buffer and writes the rest at its beginning,
  while the parser keeps its position, so the request is never recognised.

The four are shown by runs that end in a violation.  Two more are part of the
models without a run of their own, since properties that hold already state
how far each goes:

* `log.h:47` calls `_split_lines` the maximum number of lines of a file.  The
  count and the write are two critical sections (`log.cpp:128`, `157`), so a file
  may get a line more for each other thread that logs: `FileBounded` shows that
  without a queue and a midnight it is never more than that.
* `http_server.cpp:277-291` means to take a scheme off the target, and to refuse
  a target without a path.  For `https://` it does; for `http://` line 285 passes
  the null pointer of line 282 on before line 290 tests it.  `Survives` lists the
  death that follows.

## 8. What is not modelled

* The serializer: a conversion between values and bytes without a control of
  its own.  The models carry the values, and a module of its own would spell
  the bytes out once more.
* Configuration: read once; what it sets are constants of the models.
* Of taskflow, everything the program does not call: conditions, subflows,
  semaphores, priorities, observers, pipelines, algorithms, data pools and GPU
  graphs.  They are by far the larger part of its lines, and no behaviour of
  this program depends on them.  Of what it does call, a queue operation and a
  notifier operation are steps: their memory orders, and the arrays behind
  them, are left out.
* Requests longer than the 100-byte buffers or in several pieces (`RpcSystem`);
  the message `DEREG`, which nobody sends; `stop()`, which nobody calls while
  the loop runs; system calls that fail, resets of connections by peers.
* In `Http`: requests and answers that fill their buffers, a descriptor that is
  used for a second peer, system calls that fail other than by a full send
  buffer, and the connection to the registry, which is made and never used.
* In `Log`: the contents of a line, the length of a file name, a failing
  `fopen`, the static buffer of `localtime`, the destructor at exit.
* `ThreadPool`: a task that throws.  `BlockDeque`: two threads that close at
  the same time.
* `MyTask`: `add_task`, which has to be called before `run()`.
