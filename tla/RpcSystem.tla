----------------------------- MODULE RpcSystem -----------------------------
(***************************************************************************)
(* Registration centre, RPC servers and RPC clients, and the TCP           *)
(* connections between them: a server registers its functions with the     *)
(* registry and starts to listen; a client asks the registry for a server  *)
(* that has the function, connects to it, sends the call and waits.        *)
(*                                                                         *)
(* Registry and servers run the loop of Server::epoll_wait, one thread     *)
(* that handles one event at a time, so receive + deal_read is one step    *)
(* and deal_write is one step.  The state of a descriptor in epoll is      *)
(*   "none"    no connection        "queued"  in the accept queue          *)
(*   "idle"    EPOLLIN, as accept() added it, without EPOLLONESHOT         *)
(*   "in"      EPOLLIN|EPOLLONESHOT      "out"  EPOLLOUT|EPOLLONESHOT      *)
(*   "off"     a one-shot event was delivered and nothing re-armed it      *)
(* A request is one segment and fits the receive buffer of 100 bytes.      *)
(***************************************************************************)
EXTENDS Registry, FiniteSets

CONSTANTS Clients,        \* the RPC client processes
          Centre,         \* the registration centre, as a listener
          Exports,        \* the names each server has loaded with load_func
          Program,        \* the names each client calls, in order
          Modes           \* the ways to run the system that are considered:
                          \*   et        _is_et_lis: is the listening socket
                          \*             EPOLLET?
                          \*   orderly   is every process started after what
                          \*             it needs?
                          \*   crashes   may a server process die?

Listeners == Servers \cup {Centre}
Peers == Servers \cup Clients      \* the processes connected to the registry

ASSUME RpcAssumption ==
    /\ Servers \cap Clients = {}
    /\ Centre \notin Peers
    /\ Exports \in [Servers -> SUBSET Names]
    /\ Program \in [Clients -> Seq(Names)]
    /\ Modes \subseteq [et : BOOLEAN, orderly : BOOLEAN, crashes : BOOLEAN]

VARIABLES
    mode,      \* how the system is run
    up,        \* is the registry listening?
    spc,       \* where the main thread of each server is
    cpc,       \* where the main thread of each client is
    callNo,    \* number of calls each client has begun
    target,    \* _server_ip and _server_port: the server last looked up
    lis,       \* per listener: its accept queue, and whether an event for
               \* the listening socket is pending
    rconn,     \* per peer: its connection to the registry
    sconn,     \* per client: the connection of its current call
    execs,     \* history: how often each call of each client was executed
    results    \* what each client's calls returned, in order

vars == <<mode, tables, up, spc, cpc, callNo, target, lis, rconn, sconn, execs,
          results>>

-----------------------------------------------------------------------------
(* Messages.  The argument of a call names the call, so that a reply can   *)
(* be told from the reply to another call of the same function.            *)
RegMsg(s) == [type |-> "reg", names |-> Exports[s]]
FindMsg(f) == [type |-> "find", name |-> f]
CallMsg(c, i) == [name |-> Program[c][i], arg |-> <<c, i>>]

RegReply(ok) == [type |-> "reg", ok |-> ok]
Found(s) == [type |-> "addr", server |-> s]
NotFound == [type |-> "none"]

Value(msg) == [code |-> "success", name |-> msg.name, arg |-> msg.arg]
Unbound(msg) == [code |-> "not bound", name |-> msg.name, arg |-> msg.arg]
Failed == [code |-> "failed"]

Current(c) == Program[c][callNo[c]]

(* A connection as the accepting process sees it: its state in epoll, the  *)
(* bytes not yet received, the send buffer of its EveryTask, and what was  *)
(* sent but not yet read by the peer.                                      *)
Conn(arm, in, buf, out) == [arm |-> arm, in |-> in, buf |-> buf, out |-> out]
NoConn == Conn("none", <<>>, <<>>, <<>>)
NewConn(msgs) == Conn("queued", msgs, <<>>, <<>>)

(* receive takes everything that has arrived.  Mutant: it only looks.      *)
Peeked(msgs) == msgs
Drained(msgs) == <<>>

(* What accept, receive with deal_read, and deal_write do to a connection, *)
(* and what its peer does when it sends, or receives one answer or all.     *)
Accepted(q) == Conn("idle", q.in, q.buf, q.out)
Dealt(q, answer, next) == Conn(next, Drained(q.in), <<answer>>, q.out)
Written(q) == Conn("in", q.in, <<>>, q.out \o q.buf)
Sent(q, msg) == Conn(q.arm, Append(q.in, msg), q.buf, q.out)
HeadRead(q) == Conn(q.arm, q.in, q.buf, Tail(q.out))
AllRead(q) == Conn(q.arm, q.in, q.buf, <<>>)

(* A one-shot event is delivered once. *)
Fired(arm) == IF arm = "idle" THEN "idle" ELSE "off"

Arrive(l, p) ==
    lis' = [lis EXCEPT ![l] = [queue |-> Append(@.queue, p), event |-> TRUE]]

(* Mutant: the event is gone even when the socket is level-triggered. *)
AcceptOneEdge(l) ==
    /\ lis[l].event
    /\ lis[l].queue # <<>>
    /\ lis' = [lis EXCEPT ![l] = [queue |-> Tail(@.queue), event |-> FALSE]]

(* Server::accept is called once for an event, whatever the queue holds:   *)
(* with EPOLLET the event is then gone, without it epoll_wait reports the  *)
(* listening socket again while the queue is not empty.                    *)
AcceptOne(l) ==
    /\ lis[l].event
    /\ lis[l].queue # <<>>
    /\ lis' = [lis EXCEPT ![l] = [queue |-> Tail(@.queue),
                                  event |-> ~mode.et /\ Len(@.queue) > 1]]

-----------------------------------------------------------------------------
Init ==
    /\ mode \in Modes
    /\ TablesInit
    /\ up = FALSE
    /\ spc = [s \in Servers |-> "loaded"]
    /\ cpc = [c \in Clients |-> "start"]
    /\ callNo = [c \in Clients |-> 0]
    /\ target = [c \in Clients |-> Centre]
    /\ lis = [l \in Listeners |-> [queue |-> <<>>, event |-> FALSE]]
    /\ rconn = [p \in Peers |-> NoConn]
    /\ sconn = [c \in Clients |-> NoConn]
    /\ execs = [c \in Clients |-> [i \in DOMAIN Program[c] |-> 0]]
    /\ results = [c \in Clients |-> <<>>]

-----------------------------------------------------------------------------
(* The registry *)

RegistryStart ==
    /\ ~up
    /\ up' = TRUE
    /\ UNCHANGED <<mode, tables, spc, cpc, callNo, target, lis, rconn, sconn, execs,
                   results>>

RegistryAccept ==
    /\ AcceptOne(Centre)
    /\ rconn' = [rconn EXCEPT ![Head(lis[Centre].queue)] = Accepted(@)]
    /\ UNCHANGED <<mode, tables, up, spc, cpc, callNo, target, sconn, execs, results>>

RegistryEvent(p) ==
    /\ rconn[p].arm \in {"idle", "in"}
    /\ rconn[p].in # <<>>
    /\ UNCHANGED <<mode, up, spc, cpc, callNo, target, lis, sconn, execs, results>>

(* deal_read, case REG: re-armed only when a name was registered *)
RegistryReadReg(p) ==
    /\ RegistryEvent(p)
    /\ LET msg == Head(rconn[p].in)
           ok == msg.names # {}
       IN  /\ msg.type = "reg"
           /\ Register(p, msg.names)
           /\ rconn' = [rconn EXCEPT ![p] =
                 Dealt(@, RegReply(ok), IF ok THEN "out" ELSE Fired(@.arm))]

(* deal_read, case FINDSERVER: the answer "1" is put into a buffer but the *)
(* descriptor is not re-armed for writing                                  *)
RegistryReadFind(p) ==
    /\ RegistryEvent(p)
    /\ LET msg == Head(rconn[p].in)
           f == msg.name
       IN  /\ msg.type = "find"
           /\ Discover(f)
           /\ rconn' = [rconn EXCEPT ![p] =
                 IF Known(f) THEN Dealt(@, Found(Pick(f)), "out")
                             ELSE Dealt(@, NotFound, Fired(@.arm))]

RegistryWrite(p) ==
    /\ rconn[p].arm = "out"
    /\ rconn' = [rconn EXCEPT ![p] = Written(@)]
    /\ UNCHANGED <<mode, tables, up, spc, cpc, callNo, target, lis, sconn, execs,
                   results>>

-----------------------------------------------------------------------------
(* An RPC server: task F runs connect_registry, then run *)

(* connect and register_'s send; abort() when the registry is not there *)
ServerConnect(s) ==
    /\ spc[s] = "loaded"
    /\ mode.orderly => up
    /\ IF up
       THEN /\ spc' = [spc EXCEPT ![s] = "registering"]
            /\ rconn' = [rconn EXCEPT ![s] = NewConn(<<RegMsg(s)>>)]
            /\ Arrive(Centre, s)
       ELSE /\ spc' = [spc EXCEPT ![s] = "aborted"]
            /\ UNCHANGED <<rconn, lis>>
    /\ UNCHANGED <<mode, tables, up, cpc, callNo, target, sconn, execs, results>>

(* register_'s blocking receive returns "register:0" *)
ServerRegistered(s) ==
    /\ spc[s] = "registering"
    /\ rconn[s].out # <<>>
    /\ spc' = [spc EXCEPT ![s] = IF Head(rconn[s].out).ok THEN "registered"
                                                          ELSE "aborted"]
    /\ rconn' = [rconn EXCEPT ![s] = AllRead(@)]
    /\ UNCHANGED <<mode, tables, up, cpc, callNo, target, lis, sconn, execs, results>>

(* Server::run: bind, listen, add_fd *)
ServerListen(s) ==
    /\ spc[s] = "registered"
    /\ spc' = [spc EXCEPT ![s] = "serving"]
    /\ UNCHANGED <<mode, tables, up, cpc, callNo, target, lis, rconn, sconn, execs,
                   results>>

ServerAccept(s) ==
    /\ spc[s] = "serving"
    /\ AcceptOne(s)
    /\ sconn' = [sconn EXCEPT ![Head(lis[s].queue)] = Accepted(@)]
    /\ UNCHANGED <<mode, tables, up, spc, cpc, callNo, target, rconn, execs, results>>

(* RpcServer::receive, deal_read and deal; next is what the descriptor is  *)
(* armed for.                                                              *)
ReadCall(s, c, next) ==
    /\ spc[s] = "serving"
    /\ target[c] = s
    /\ sconn[c].arm \in {"idle", "in"}
    /\ sconn[c].in # <<>>
    /\ LET msg == Head(sconn[c].in)
           bound == msg.name \in Exports[s]
           who == msg.arg[1]
           nth == msg.arg[2]
       IN  /\ execs' = IF bound THEN [execs EXCEPT ![who][nth] = @ + 1] ELSE execs
           /\ sconn' = [sconn EXCEPT ![c] =
                 Dealt(@, IF bound THEN Value(msg) ELSE Unbound(msg), next)]
    /\ UNCHANGED <<mode, tables, up, spc, cpc, callNo, target, lis, rconn, results>>

(* Mutant: no re-arming. *)
ServerReadUnarmed(s, c) == ReadCall(s, c, Fired(sconn[c].arm))

(* The answer of an unbound function is not empty either, so the           *)
(* descriptor is always re-armed.                                          *)
ServerRead(s, c) == ReadCall(s, c, "out")

(* Mutant: the answer of any connection is sent, as if they shared one     *)
(* buffer.                                                                 *)
ServerWriteShared(s, c) ==
    /\ spc[s] = "serving"
    /\ target[c] = s
    /\ sconn[c].arm = "out"
    /\ \E d \in Clients :
        /\ sconn[d].buf # <<>>
        /\ sconn' = [sconn EXCEPT ![c] = Written([@ EXCEPT !.buf = sconn[d].buf])]
    /\ UNCHANGED <<mode, tables, up, spc, cpc, callNo, target, lis, rconn, execs,
                   results>>

ServerWrite(s, c) ==
    /\ spc[s] = "serving"
    /\ target[c] = s
    /\ sconn[c].arm = "out"
    /\ sconn' = [sconn EXCEPT ![c] = Written(@)]
    /\ UNCHANGED <<mode, tables, up, spc, cpc, callNo, target, lis, rconn, execs,
                   results>>

(* The process dies; the kernel closes its sockets. *)
ServerCrash(s) ==
    /\ mode.crashes
    /\ spc[s] \in {"registering", "registered", "serving"}
    /\ spc' = [spc EXCEPT ![s] = "crashed"]
    /\ UNCHANGED <<mode, tables, up, cpc, callNo, target, lis, rconn, sconn, execs,
                   results>>

-----------------------------------------------------------------------------
(* An RPC client: Client::run, then one RpcClient::call after another *)

(* The result of connect is ignored: the first send on the unconnected     *)
(* socket raises SIGPIPE.                                                  *)
ClientStart(c) ==
    /\ cpc[c] = "start"
    /\ mode.orderly => \A s \in Servers : spc[s] \in {"serving", "crashed"}
    /\ IF up
       THEN /\ cpc' = [cpc EXCEPT ![c] = "ready"]
            /\ rconn' = [rconn EXCEPT ![c] = NewConn(<<>>)]
            /\ Arrive(Centre, c)
       ELSE /\ cpc' = [cpc EXCEPT ![c] = "killed"]
            /\ UNCHANGED <<rconn, lis>>
    /\ UNCHANGED <<mode, tables, up, spc, callNo, target, sconn, execs, results>>

(* get_server: send and block in receive *)
ClientFind(c) ==
    /\ cpc[c] = "ready"
    /\ callNo[c] < Len(Program[c])
    /\ cpc' = [cpc EXCEPT ![c] = "finding"]
    /\ callNo' = [callNo EXCEPT ![c] = @ + 1]
    /\ rconn' = [rconn EXCEPT ![c] = Sent(@, FindMsg(Program[c][callNo[c] + 1]))]
    /\ UNCHANGED <<mode, tables, up, spc, target, lis, sconn, execs, results>>

(* get_server takes the server from the answer.  Mutant: it keeps the      *)
(* server of an earlier call.                                              *)
ChosenOnce(c) == IF target[c] = Centre THEN Head(rconn[c].out).server
                                       ELSE target[c]
Chosen(c) == Head(rconn[c].out).server

(* get_server after the answer, and net_call's send.  A refused connect is *)
(* ignored too, and the send kills the client.                             *)
ClientCall(c) ==
    /\ cpc[c] = "finding"
    /\ rconn[c].out # <<>>
    /\ LET s == Chosen(c)
       IN  /\ target' = [target EXCEPT ![c] = s]
           /\ IF spc[s] = "serving"
              THEN /\ cpc' = [cpc EXCEPT ![c] = "calling"]
                   /\ sconn' = [sconn EXCEPT ![c] = NewConn(<<CallMsg(c, callNo[c])>>)]
                   /\ Arrive(s, c)
              ELSE /\ cpc' = [cpc EXCEPT ![c] = "killed"]
                   /\ UNCHANGED <<sconn, lis>>
    /\ rconn' = [rconn EXCEPT ![c] = HeadRead(@)]
    /\ UNCHANGED <<mode, tables, up, spc, callNo, execs, results>>

(* net_call's receive returns the answer *)
ClientReturn(c) ==
    /\ cpc[c] = "calling"
    /\ sconn[c].out # <<>>
    /\ cpc' = [cpc EXCEPT ![c] = "ready"]
    /\ results' = [results EXCEPT ![c] = Append(@, Head(sconn[c].out))]
    /\ sconn' = [sconn EXCEPT ![c] = AllRead(@)]
    /\ UNCHANGED <<mode, tables, up, spc, callNo, target, lis, rconn, execs>>

(* The server died first.  It left unread data behind: the connection is   *)
(* reset, receive returns -1, and write_raw_data throws on that length.    *)
(* Otherwise receive returns 0 and the call fails.                         *)
ClientServerGone(c) ==
    /\ cpc[c] = "calling"
    /\ sconn[c].out = <<>>
    /\ spc[target[c]] = "crashed"
    /\ IF sconn[c].in # <<>>
       THEN /\ cpc' = [cpc EXCEPT ![c] = "aborted"]
            /\ UNCHANGED results
       ELSE /\ cpc' = [cpc EXCEPT ![c] = "ready"]
            /\ results' = [results EXCEPT ![c] = Append(@, Failed)]
    /\ UNCHANGED <<mode, tables, up, spc, callNo, target, lis, rconn, sconn, execs>>

ClientDone(c) ==
    /\ cpc[c] = "ready"
    /\ callNo[c] = Len(Program[c])
    /\ cpc' = [cpc EXCEPT ![c] = "done"]
    /\ UNCHANGED <<mode, tables, up, spc, callNo, target, lis, rconn, sconn, execs,
                   results>>

-----------------------------------------------------------------------------
RegistryStep ==
    \/ RegistryAccept
    \/ \E p \in Peers : RegistryReadReg(p) \/ RegistryReadFind(p) \/ RegistryWrite(p)

ServerStep(s) ==
    \/ ServerConnect(s) \/ ServerRegistered(s) \/ ServerListen(s)
    \/ ServerAccept(s)
    \/ \E c \in Clients : ServerRead(s, c) \/ ServerWrite(s, c)

ClientStep(c) ==
    \/ ClientStart(c) \/ ClientFind(c) \/ ClientCall(c)
    \/ ClientReturn(c) \/ ClientServerGone(c) \/ ClientDone(c)

Next ==
    \/ RegistryStart
    \/ RegistryStep
    \/ \E s \in Servers : ServerStep(s) \/ ServerCrash(s)
    \/ \E c \in Clients : ClientStep(c)

Spec == Init /\ [][Next]_vars

(* Each process runs.  Within a reactor every ready descriptor is served:  *)
(* epoll reports ready descriptors in the order in which they became       *)
(* ready, and no handler blocks.                                           *)
Fairness ==
    /\ WF_vars(RegistryStart)
    /\ WF_vars(RegistryAccept)
    /\ \A p \in Peers :
        WF_vars(RegistryReadReg(p) \/ RegistryReadFind(p) \/ RegistryWrite(p))
    /\ \A s \in Servers :
        /\ WF_vars(ServerConnect(s) \/ ServerRegistered(s) \/ ServerListen(s))
        /\ WF_vars(ServerAccept(s))
        /\ \A c \in Clients : WF_vars(ServerRead(s, c) \/ ServerWrite(s, c))
    /\ \A c \in Clients : WF_vars(ClientStep(c))

FairSpec == Spec /\ Fairness
-----------------------------------------------------------------------------
ServerStates == {"loaded", "registering", "registered", "serving", "aborted",
                 "crashed"}
ClientStates == {"start", "ready", "finding", "calling", "done", "killed",
                 "aborted"}
ArmStates == {"none", "queued", "idle", "in", "out", "off"}

RegRequests == {RegMsg(s) : s \in Servers} \cup {FindMsg(f) : f \in Names}
RegReplies == {RegReply(b) : b \in BOOLEAN} \cup {Found(s) : s \in Servers}
                 \cup {NotFound}
Calls == {call \in Clients \X Nat : call[2] \in DOMAIN Program[call[1]]}
CallRequests == [name : Names, arg : Calls]
CallReplies == [code : {"success", "not bound"}, name : Names, arg : Calls]

Conns(In, Out) == [arm : ArmStates, in : Seq(In), buf : Seq(Out), out : Seq(Out)]

TypeOK ==
    /\ mode \in Modes
    /\ TablesTypeOK
    /\ up \in BOOLEAN
    /\ spc \in [Servers -> ServerStates]
    /\ cpc \in [Clients -> ClientStates]
    /\ callNo \in [Clients -> Nat]
    /\ \A c \in Clients : callNo[c] <= Len(Program[c])
    /\ target \in [Clients -> Listeners]
    /\ lis \in [Listeners -> [queue : Seq(Peers), event : BOOLEAN]]
    /\ rconn \in [Peers -> Conns(RegRequests, RegReplies)]
    /\ sconn \in [Clients -> Conns(CallRequests, CallReplies)]
    /\ DOMAIN execs = Clients
    /\ \A c \in Clients : execs[c] \in [DOMAIN Program[c] -> Nat]
    /\ results \in [Clients -> Seq(CallReplies \cup {Failed})]

(* The registry serves its clients from one table of EveryTask buffers,    *)
(* keyed by descriptor: whatever lookups interleave, the server a client   *)
(* connects to has the function this client asked for.                     *)
CallGoesToExporter ==
    \A c \in Clients : cpc[c] = "calling" => Current(c) \in Exports[target[c]]

(* A client gets the value of its own call, the calls in order and none    *)
(* skipped, or the failure net_call reports; never another client's value  *)
(* and never "function not bind" (rpc_server.cpp:71-75).                   *)
ResultsAreOwn ==
    \A c \in Clients :
        /\ Len(results[c]) <= callNo[c]
        /\ \A i \in DOMAIN results[c] :
                results[c][i] \in {Value(CallMsg(c, i)), Failed}

(* No call runs twice, and a call that returned a value ran: one-shot      *)
(* events, re-arming and crashes neither repeat nor lose an execution.     *)
ExecutedAtMostOnce ==
    \A c \in Clients :
        /\ \A i \in DOMAIN Program[c] : execs[c][i] <= 1
        /\ \A i \in DOMAIN results[c] :
                results[c][i] # Failed => execs[c][i] = 1

(* The assertion on register_ (rpc_server.cpp:103) means something: once a *)
(* server has passed it, the registry lists it under all of its names.     *)
ServingIsListed ==
    \A s \in Servers : spc[s] \in {"registered", "serving"} =>
        \A f \in Exports[s] : \E i \in DOMAIN addr_map[f] : addr_map[f][i] = s

(* The system implements the promise of RemoteCall: a client waits from    *)
(* its lookup to its answer, and its call has run when a server counted it. *)
PhaseOf(state) == CASE state \in {"finding", "calling"} -> "pending"
                    [] state \in {"killed", "aborted"} -> "lost"
                    [] OTHER -> "idle"
Phase == [c \in Clients |-> PhaseOf(cpc[c])]
Ran == [c \in Clients |-> callNo[c] > 0 /\ execs[c][callNo[c]] > 0]

Abstract == INSTANCE RemoteCall WITH phase <- Phase, ran <- Ran

RemoteCallSpec == Abstract!Spec

(* A connected call ends, by a value or by a failure, even if its server   *)
(* dies: nobody waits for a re-arming that never comes.                    *)
AcceptedCallEnds ==
    \A c \in Clients :
        cpc[c] = "calling" /\ sconn[c].arm # "queued" ~> cpc[c] # "calling"

(* When the listening sockets are level-triggered, processes start in      *)
(* order and no server dies, every client gets through its program.        *)
Calm == ~mode.et /\ mode.orderly /\ ~mode.crashes

EveryClientFinishes == \A c \in Clients : Calm ~> cpc[c] = "done"

(* A client that asks for a server is told something: get_server has a     *)
(* branch for "no have func" (rpc_client.h:96-98), and the registry        *)
(* composes that answer (registry.cpp:81-83).                              *)
LookupIsAnswered ==
    \A c \in Clients : cpc[c] = "finding" ~> cpc[c] # "finding"
=============================================================================
