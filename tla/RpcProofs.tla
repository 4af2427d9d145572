----------------------------- MODULE RpcProofs -----------------------------
(***************************************************************************)
(* The RPC service for any servers, clients, functions and programs, with  *)
(* any of its modes, deaths of servers included: calls run at most once,   *)
(* results are a call's own, a client is sent to a server that has the     *)
(* function, and the service implements RemoteCall.                        *)
(***************************************************************************)
EXTENDS RpcSystem, TLAPS

(* Where the one message of a connection is: not there, on its way to the  *)
(* accepting process, answered but not sent, or answered.                  *)
Quiet(q) == q.in = <<>> /\ q.buf = <<>> /\ q.out = <<>>
Asked(q, msg) == q.in = <<msg>> /\ q.buf = <<>> /\ q.out = <<>>
Composed(q, answer) == q.in = <<>> /\ q.buf = <<answer>> /\ q.out = <<>>
Answered(q, answer) == q.in = <<>> /\ q.buf = <<>> /\ q.out = <<answer>>

Exchange(q, msg, answers) ==
    \/ Asked(q, msg)
    \/ \E a \in answers : Composed(q, a) \/ Answered(q, a)

(* The lists of the registry hold servers that have the function.          *)
ListsAreTrue ==
    \A f \in Names : \A i \in DOMAIN addr_map[f] : f \in Exports[addr_map[f][i]]

(* A server registers once.  It is listed when its message has been read.  *)
Listed(s) == \A f \in Exports[s] : \E i \in DOMAIN addr_map[f] : addr_map[f][i] = s

Registration(s) ==
    /\ spc[s] = "loaded" => Quiet(rconn[s])
    /\ Quiet(rconn[s]) \/ Exchange(rconn[s], RegMsg(s), {RegReply(b) : b \in BOOLEAN})
    /\ spc[s] = "registering" /\ rconn[s].in = <<>> => Listed(s)
    /\ spc[s] \in {"registered", "serving"} => Listed(s)

(* A client has one message on its way to the registry and back, and only  *)
(* while it looks a name up.  A lookup of an unknown name stays where it   *)
(* is.                                                                     *)
FoundFor(c) == {Found(s) : s \in {t \in Servers : Current(c) \in Exports[t]}}

Stuck(q) == Composed(q, NotFound) /\ q.arm # "out"

Lookup(c) ==
    /\ cpc[c] # "finding" => Quiet(rconn[c])
    /\ cpc[c] = "finding" =>
          Exchange(rconn[c], FindMsg(Current(c)), FoundFor(c)) \/ Stuck(rconn[c])

(* The same for the server, with the execution that goes with the answer.  *)
(* What a dead server has left behind is never read.                       *)
Calling(c) ==
    LET msg == CallMsg(c, callNo[c])
    IN  /\ target[c] \in Servers /\ Current(c) \in Exports[target[c]]
        /\ \/ Asked(sconn[c], msg) /\ execs[c][callNo[c]] = 0
           \/ /\ Composed(sconn[c], Value(msg)) \/ Answered(sconn[c], Value(msg))
              /\ execs[c][callNo[c]] = 1

Call(c) ==
    /\ cpc[c] = "calling" => Calling(c)
    /\ cpc[c] # "calling" /\ sconn[c].in # <<>> =>
          cpc[c] = "aborted" /\ target[c] \in Servers /\ spc[target[c]] = "crashed"

(* The calls of a client so far. *)
History(c) ==
    /\ cpc[c] \in {"finding", "calling"} => callNo[c] \in DOMAIN Program[c]
    /\ cpc[c] \in {"start", "ready", "done"} => Len(results[c]) = callNo[c]
    /\ cpc[c] \in {"finding", "calling"} => Len(results[c]) + 1 = callNo[c]
    /\ Len(results[c]) <= callNo[c]
    /\ cpc[c] = "finding" => execs[c][callNo[c]] = 0
    /\ \A i \in DOMAIN Program[c] :
          execs[c][i] \in {0, 1} /\ (callNo[c] < i => execs[c][i] = 0)
    /\ \A i \in DOMAIN results[c] :
          \/ results[c][i] = Value(CallMsg(c, i)) /\ execs[c][i] = 1
          \/ results[c][i] = Failed

Orderly ==
    /\ ListsAreTrue
    /\ \A s \in Servers : Registration(s)
    /\ \A c \in Clients : Lookup(c) /\ Call(c) /\ History(c)

IInv == TypeOK /\ Orderly
-----------------------------------------------------------------------------
(* The counter stays an int. *)
LEMMA BumpIsInt ==
    ASSUME NEW n \in -(IntMax + 1) .. IntMax
    PROVE  Bump(n) \in -(IntMax + 1) .. IntMax
BY RegistryAssumption DEF Bump

(* A conversion to size_t is never negative.                               *)
LEMMA ToSizeTIsNat ==
    ASSUME NEW n \in -(IntMax + 1) .. IntMax
    PROVE  ToSizeT(n) \in Nat
BY RegistryAssumption DEF ToSizeT

(* The remainder is an index of the list, whatever the counter.            *)
LEMMA IndexInRange ==
    ASSUME TablesTypeOK, NEW f \in Names, Known(f)
    PROVE  Index(f) + 1 \in DOMAIN addr_map[f]
<1>1. addr_map[f] \in Seq(Servers) /\ Len(addr_map[f]) \in Nat \ {0}
    BY DEF TablesTypeOK, Known
<1>2. ToSizeT(Bump(count_map[f])) \in Nat
    BY BumpIsInt, ToSizeTIsNat DEF TablesTypeOK
<1>3. Index(f) \in 0 .. Len(addr_map[f]) - 1
    BY <1>1, <1>2 DEF Index
<1>4. QED
    BY <1>1, <1>3

-----------------------------------------------------------------------------
(* Connections *)

(* The messages of a connection and how it is registered.                  *)
LEMMA ConnFields ==
    ASSUME NEW a, NEW i, NEW b, NEW o
    PROVE  LET q == Conn(a, i, b, o)
           IN  q.arm = a /\ q.in = i /\ q.buf = b /\ q.out = o
BY DEF Conn

LEMMA ConnType ==
    ASSUME NEW In, NEW Out, NEW a \in ArmStates,
           NEW i \in Seq(In), NEW b \in Seq(Out), NEW o \in Seq(Out)
    PROVE  Conn(a, i, b, o) \in Conns(In, Out)
BY DEF Conn, Conns

LEMMA TypeOfFields ==
    ASSUME NEW In, NEW Out, NEW q \in Conns(In, Out)
    PROVE  q.arm \in ArmStates /\ q.in \in Seq(In) /\ q.buf \in Seq(Out) /\ q.out \in Seq(Out)
BY DEF Conns

(* What the handlers do to a connection keeps its type.                    *)
LEMMA ConnOperations ==
    ASSUME NEW In, NEW Out, NEW q \in Conns(In, Out)
    PROVE  /\ Accepted(q) \in Conns(In, Out)
           /\ Written(q) \in Conns(In, Out)
           /\ AllRead(q) \in Conns(In, Out)
           /\ q.out # <<>> => HeadRead(q) \in Conns(In, Out)
           /\ \A m \in In : Sent(q, m) \in Conns(In, Out)
           /\ \A x \in Out, a \in ArmStates : Dealt(q, x, a) \in Conns(In, Out)
<1>1. q.arm \in ArmStates /\ q.in \in Seq(In) /\ q.buf \in Seq(Out) /\ q.out \in Seq(Out)
    BY TypeOfFields
<1>2. <<>> \in Seq(In) /\ <<>> \in Seq(Out) /\ "idle" \in ArmStates /\ "in" \in ArmStates
    BY DEF ArmStates
<1>3. q.out \o q.buf \in Seq(Out) /\ (q.out # <<>> => Tail(q.out) \in Seq(Out))
    BY <1>1
<1>4. \A m \in In : Append(q.in, m) \in Seq(In)
    BY <1>1
<1>5. \A x \in Out : <<x>> \in Seq(Out)
    OBVIOUS
<1>6. Accepted(q) \in Conns(In, Out) /\ Written(q) \in Conns(In, Out)
    BY <1>1, <1>2, <1>3, ConnType DEF Accepted, Written
<1>7. AllRead(q) \in Conns(In, Out) /\ (q.out # <<>> => HeadRead(q) \in Conns(In, Out))
    BY <1>1, <1>2, <1>3, ConnType DEF AllRead, HeadRead
<1>8. \A m \in In : Sent(q, m) \in Conns(In, Out)
    BY <1>1, <1>4, ConnType DEF Sent
<1>9. \A x \in Out, a \in ArmStates : Dealt(q, x, a) \in Conns(In, Out)
    BY <1>1, <1>2, <1>5, ConnType DEF Dealt, Drained
<1>10. QED
    BY <1>6, <1>7, <1>8, <1>9

LEMMA NewConnType ==
    ASSUME NEW In, NEW Out
    PROVE  /\ NoConn \in Conns(In, Out) /\ NewConn(<<>>) \in Conns(In, Out)
           /\ \A m \in In : NewConn(<<m>>) \in Conns(In, Out)
<1>1. /\ <<>> \in Seq(In) /\ <<>> \in Seq(Out)
      /\ "none" \in ArmStates /\ "queued" \in ArmStates
    BY DEF ArmStates
<1>2. \A m \in In : <<m>> \in Seq(In)
    OBVIOUS
<1>3. QED
    BY <1>1, <1>2, ConnType DEF NoConn, NewConn

-----------------------------------------------------------------------------
(* What a step leaves alone keeps its part of the invariant. *)

SameMessages(q, r) == q.in = r.in /\ q.buf = r.buf /\ q.out = r.out

LEMMA RegistrationKept ==
    ASSUME NEW s \in Servers, Registration(s),
           spc'[s] = spc[s], SameMessages(rconn[s], rconn'[s]), Listed(s) => Listed(s)'
    PROVE  Registration(s)'
BY DEF Registration, SameMessages, Quiet, Exchange, Asked, Composed, Answered

LEMMA LookupKept ==
    ASSUME NEW c \in Clients, Lookup(c), cpc'[c] = cpc[c], callNo'[c] = callNo[c],
           SameMessages(rconn[c], rconn'[c]),
           rconn'[c].arm = "out" => rconn[c].arm = "out"
    PROVE  Lookup(c)'
BY DEF Lookup, SameMessages, Quiet, Exchange, Asked, Composed, Answered, Stuck,
       FoundFor, Current

LEMMA CallKept ==
    ASSUME NEW c \in Clients, Call(c), cpc'[c] = cpc[c], callNo'[c] = callNo[c],
           target'[c] = target[c], execs'[c] = execs[c],
           SameMessages(sconn[c], sconn'[c]),
           \A s \in Servers : spc[s] = "crashed" => spc'[s] = "crashed"
    PROVE  Call(c)'
BY DEF Call, Calling, SameMessages, Asked, Composed, Answered, Current

LEMMA HistoryKept ==
    ASSUME NEW c \in Clients, History(c), cpc'[c] = cpc[c], callNo'[c] = callNo[c],
           execs'[c] = execs[c], results'[c] = results[c]
    PROVE  History(c)'
BY DEF History

LEMMA InitIInv == Init => IInv
<1> SUFFICES ASSUME Init PROVE IInv
    OBVIOUS
<1>1. <<>> \in Seq(Servers) /\ 0 \in -(IntMax + 1) .. IntMax
    BY RegistryAssumption
<1>2. TablesTypeOK
    BY <1>1 DEF Init, TablesInit, TablesTypeOK
<1>3. /\ rconn \in [Peers -> Conns(RegRequests, RegReplies)]
      /\ sconn \in [Clients -> Conns(CallRequests, CallReplies)]
    BY NewConnType DEF Init
<1>4. lis \in [Listeners -> [queue : Seq(Peers), event : BOOLEAN]]
    <2>1. <<>> \in Seq(Peers)
        OBVIOUS
    <2>2. QED
        BY <2>1 DEF Init
<1>5. \A c \in Clients : Program[c] \in Seq(Names) /\ Len(Program[c]) \in Nat
    BY RpcAssumption
<1>6. results \in [Clients -> Seq(CallReplies \cup {Failed})]
    <2>1. <<>> \in Seq(CallReplies \cup {Failed})
        OBVIOUS
    <2>2. QED
        BY <2>1 DEF Init
<1>7. TypeOK
    <2>1. /\ mode \in Modes /\ up \in BOOLEAN
          /\ spc \in [Servers -> ServerStates] /\ cpc \in [Clients -> ClientStates]
          /\ callNo \in [Clients -> Nat] /\ target \in [Clients -> Listeners]
        BY DEF Init, ServerStates, ClientStates, Listeners
    <2>2. \A c \in Clients : callNo[c] <= Len(Program[c])
        BY <1>5 DEF Init
    <2>3. DOMAIN execs = Clients /\ \A c \in Clients : execs[c] \in [DOMAIN Program[c] -> Nat]
        BY DEF Init
    <2>4. QED
        BY <1>2, <1>3, <1>4, <1>6, <2>1, <2>2, <2>3 DEF TypeOK
<1>8. ListsAreTrue
    BY DEF ListsAreTrue, Init, TablesInit
<1>9. \A p \in Peers : Quiet(rconn[p])
    BY DEF Init, NoConn, Conn, Quiet
<1>10. \A s \in Servers : Registration(s)
    BY <1>9 DEF Init, Registration, Peers
<1>11. \A c \in Clients : Lookup(c) /\ Call(c)
    BY <1>9 DEF Init, Lookup, Call, Peers, NoConn, Conn
<1>12. ASSUME NEW c \in Clients PROVE History(c)
    <2>1. /\ cpc[c] = "start" /\ callNo[c] = 0 /\ results[c] = <<>>
          /\ \A i \in DOMAIN Program[c] : execs[c][i] = 0
        BY DEF Init
    <2>2. QED
        BY <2>1 DEF History
<1>13. QED
    BY <1>7, <1>8, <1>10, <1>11, <1>12 DEF IInv, Orderly

-----------------------------------------------------------------------------
(* Accepting a connection *)

LEMMA AcceptedSame == \A q : SameMessages(q, Accepted(q)) /\ Accepted(q).arm # "out"
BY DEF SameMessages, Accepted, Conn

LEMMA AcceptType ==
    ASSUME TypeOK, NEW l \in Listeners, AcceptOne(l)
    PROVE  /\ Head(lis[l].queue) \in Peers
           /\ lis' \in [Listeners -> [queue : Seq(Peers), event : BOOLEAN]]
<1>1. lis[l] \in [queue : Seq(Peers), event : BOOLEAN] /\ lis[l].queue # <<>>
    BY DEF TypeOK, AcceptOne
<1>2. lis[l].queue \in Seq(Peers)
    BY <1>1
<1>3. Head(lis[l].queue) \in Peers /\ Tail(lis[l].queue) \in Seq(Peers)
    BY <1>1, <1>2
<1>4. lis' = [lis EXCEPT ![l] = [queue |-> Tail(lis[l].queue),
                                 event |-> ~mode.et /\ Len(lis[l].queue) > 1]]
    BY DEF AcceptOne
<1>5. [queue |-> Tail(lis[l].queue), event |-> ~mode.et /\ Len(lis[l].queue) > 1]
          \in [queue : Seq(Peers), event : BOOLEAN]
    BY <1>3
<1>6. QED
    BY <1>3, <1>4, <1>5 DEF TypeOK

(* connect() puts the peer into the queue of the listener.                 *)
LEMMA ArriveType ==
    ASSUME TypeOK, NEW l \in Listeners, NEW p \in Peers, Arrive(l, p)
    PROVE  lis' \in [Listeners -> [queue : Seq(Peers), event : BOOLEAN]]
<1>1. lis[l].queue \in Seq(Peers)
    BY DEF TypeOK
<1>2. Append(lis[l].queue, p) \in Seq(Peers)
    BY <1>1
<1>3. [queue |-> Append(lis[l].queue, p), event |-> TRUE]
          \in [queue : Seq(Peers), event : BOOLEAN]
    BY <1>2
<1>4. QED
    BY <1>3 DEF Arrive, TypeOK

LEMMA RegistryAcceptStep == ASSUME IInv, RegistryAccept PROVE IInv'
<1> DEFINE p == Head(lis[Centre].queue)
<1>1. p \in Peers /\ lis' \in [Listeners -> [queue : Seq(Peers), event : BOOLEAN]]
    BY AcceptType DEF RegistryAccept, Listeners, IInv
<1>2. rconn' = [rconn EXCEPT ![p] = Accepted(rconn[p])]
    BY DEF RegistryAccept
<1>3. rconn \in [Peers -> Conns(RegRequests, RegReplies)]
    BY DEF IInv, TypeOK
<1> HIDE DEF p
<1>4. rconn' \in [Peers -> Conns(RegRequests, RegReplies)]
    BY <1>1, <1>2, <1>3, ConnOperations
<1>5. TypeOK'
    BY <1>1, <1>4 DEF RegistryAccept, IInv, TypeOK, tables, TablesTypeOK
<1>6. \A q \in Peers : /\ SameMessages(rconn[q], rconn'[q])
                       /\ rconn'[q].arm = "out" => rconn[q].arm = "out"
    BY <1>1, <1>2, <1>3, AcceptedSame DEF SameMessages
<1>7. ListsAreTrue' /\ \A s \in Servers : Listed(s)' = Listed(s)
    BY DEF RegistryAccept, IInv, Orderly, ListsAreTrue, Listed, tables
<1>8. \A s \in Servers : Registration(s)'
    BY <1>6, <1>7, RegistrationKept DEF RegistryAccept, IInv, Orderly, Peers
<1>9. \A c \in Clients : Lookup(c)' /\ Call(c)' /\ History(c)'
    BY <1>6, LookupKept, CallKept, HistoryKept
    DEF RegistryAccept, IInv, Orderly, Peers, SameMessages
<1>10. QED
    BY <1>5, <1>7, <1>8, <1>9 DEF IInv, Orderly

LEMMA ServerAcceptStep ==
    ASSUME IInv, NEW s \in Servers, ServerAccept(s) PROVE IInv'
<1> DEFINE c == Head(lis[s].queue)
<1>1. lis' \in [Listeners -> [queue : Seq(Peers), event : BOOLEAN]]
    BY AcceptType DEF ServerAccept, Listeners, IInv
<1>2. sconn' = [sconn EXCEPT ![c] = Accepted(sconn[c])]
    BY DEF ServerAccept
<1>3. sconn \in [Clients -> Conns(CallRequests, CallReplies)]
    BY DEF IInv, TypeOK
<1> HIDE DEF c
<1>4. sconn' \in [Clients -> Conns(CallRequests, CallReplies)]
    <2>1. CASE c \in Clients
        BY <2>1, <1>2, <1>3, ConnOperations
    <2>2. CASE c \notin Clients
        BY <2>2, <1>2, <1>3
    <2>3. QED
        BY <2>1, <2>2
<1>5. TypeOK'
    BY <1>1, <1>4 DEF ServerAccept, IInv, TypeOK, tables, TablesTypeOK
<1>6. \A d \in Clients : SameMessages(sconn[d], sconn'[d])
    BY <1>2, <1>3, AcceptedSame DEF SameMessages
<1>7. ListsAreTrue' /\ \A t \in Servers : Listed(t)' = Listed(t)
    BY DEF ServerAccept, IInv, Orderly, ListsAreTrue, Listed, tables
<1>8. \A t \in Servers : Registration(t)'
    BY <1>7, RegistrationKept DEF ServerAccept, IInv, Orderly, SameMessages
<1>9. \A d \in Clients : Lookup(d)' /\ Call(d)' /\ History(d)'
    BY <1>6, LookupKept, CallKept, HistoryKept
    DEF ServerAccept, IInv, Orderly, SameMessages
<1>10. QED
    BY <1>5, <1>7, <1>8, <1>9 DEF IInv, Orderly

-----------------------------------------------------------------------------
(* The registry *)

(* What the registry reads is what the peer sent.                          *)
LEMMA RegistryReads ==
    ASSUME IInv, NEW p \in Peers, rconn[p].in # <<>>
    PROVE  /\ p \in Servers => Head(rconn[p].in) = RegMsg(p) /\ Asked(rconn[p], RegMsg(p))
           /\ p \in Clients => /\ cpc[p] = "finding"
                               /\ Head(rconn[p].in) = FindMsg(Current(p))
                               /\ Asked(rconn[p], FindMsg(Current(p)))
<1>1. CASE p \in Servers
    <2>1. Asked(rconn[p], RegMsg(p))
        BY <1>1 DEF IInv, Orderly, Registration, Quiet, Exchange, Composed, Answered
    <2>2. QED
        BY <1>1, <2>1, RpcAssumption DEF Asked
<1>2. CASE p \in Clients
    <2>1. cpc[p] = "finding" /\ Asked(rconn[p], FindMsg(Current(p)))
        BY <1>2 DEF IInv, Orderly, Lookup, Quiet, Exchange, Composed, Answered, Stuck
    <2>2. QED
        BY <1>2, <2>1, RpcAssumption DEF Asked
<1>3. QED
    BY <1>1, <1>2 DEF Peers

LEMMA MessageTypes ==
    /\ \A s : RegMsg(s).type = "reg" /\ RegMsg(s).names = Exports[s]
    /\ \A f : FindMsg(f).type = "find" /\ FindMsg(f).name = f
BY DEF RegMsg, FindMsg

(* register_ puts a server on the lists of its names and takes nobody off. *)
LEMMA RegisterLists ==
    ASSUME TablesTypeOK, NEW s \in Servers, NEW names \in SUBSET Names,
           Register(s, names)
    PROVE  /\ TablesTypeOK'
           /\ \A f \in Names : \A i \in DOMAIN addr_map[f] :
                 i \in DOMAIN addr_map'[f] /\ addr_map'[f][i] = addr_map[f][i]
           /\ \A f \in Names : \A i \in DOMAIN addr_map'[f] :
                 \/ i \in DOMAIN addr_map[f] /\ addr_map'[f][i] = addr_map[f][i]
                 \/ f \in names /\ addr_map'[f][i] = s
           /\ \A f \in names : \E i \in DOMAIN addr_map'[f] : addr_map'[f][i] = s
<1>1. \A f \in Names :
          addr_map'[f] = IF f \in names THEN Append(addr_map[f], s) ELSE addr_map[f]
    BY DEF Register
<1>2. ASSUME NEW f \in Names
      PROVE  /\ addr_map[f] \in Seq(Servers) /\ Append(addr_map[f], s) \in Seq(Servers)
             /\ DOMAIN addr_map[f] = 1 .. Len(addr_map[f]) /\ Len(addr_map[f]) \in Nat
             /\ DOMAIN Append(addr_map[f], s) = 1 .. Len(addr_map[f]) + 1
             /\ Append(addr_map[f], s)[Len(addr_map[f]) + 1] = s
             /\ \A i \in 1 .. Len(addr_map[f]) : Append(addr_map[f], s)[i] = addr_map[f][i]
    <2>1. addr_map[f] \in Seq(Servers)
        BY DEF TablesTypeOK
    <2>2. QED
        BY <2>1
<1>3. TablesTypeOK'
    <2>1. addr_map' \in [Names -> Seq(Servers)]
        BY <1>1, <1>2 DEF Register
    <2>2. QED
        BY <2>1 DEF Register, TablesTypeOK
<1>4. ASSUME NEW f \in Names
      PROVE  /\ \A i \in DOMAIN addr_map[f] :
                   i \in DOMAIN addr_map'[f] /\ addr_map'[f][i] = addr_map[f][i]
             /\ \A i \in DOMAIN addr_map'[f] :
                   \/ i \in DOMAIN addr_map[f] /\ addr_map'[f][i] = addr_map[f][i]
                   \/ f \in names /\ addr_map'[f][i] = s
             /\ f \in names => \E i \in DOMAIN addr_map'[f] : addr_map'[f][i] = s
    <2>1. CASE f \in names
        <3>1. addr_map'[f] = Append(addr_map[f], s)
            BY <1>1, <2>1
        <3>2. Len(addr_map[f]) + 1 \in DOMAIN addr_map'[f]
            BY <1>2, <3>1
        <3>3. \A i \in DOMAIN addr_map'[f] :
                  i \in DOMAIN addr_map[f] \/ i = Len(addr_map[f]) + 1
            BY <1>2, <3>1
        <3>4. QED
            BY <1>2, <2>1, <3>1, <3>2, <3>3
    <2>2. CASE f \notin names
        BY <1>1, <2>2
    <2>3. QED
        BY <2>1, <2>2
<1>5. QED
    BY <1>3, <1>4

LEMMA ReadRegStep ==
    ASSUME IInv, NEW p \in Peers, RegistryReadReg(p) PROVE IInv'
<1>1. p \in Servers /\ Head(rconn[p].in) = RegMsg(p) /\ Asked(rconn[p], RegMsg(p))
    BY RegistryReads, MessageTypes DEF RegistryReadReg, RegistryEvent, Peers
<1> DEFINE ok == Exports[p] # {}
           next == IF ok THEN "out" ELSE Fired(rconn[p].arm)
           q == Dealt(rconn[p], RegReply(ok), next)
<1>2. Register(p, Exports[p]) /\ rconn' = [rconn EXCEPT ![p] = q]
    BY <1>1, MessageTypes DEF RegistryReadReg
<1>3. rconn \in [Peers -> Conns(RegRequests, RegReplies)]
    BY DEF IInv, TypeOK
<1>4. ok \in BOOLEAN /\ RegReply(ok) \in RegReplies /\ next \in ArmStates
    BY DEF RegReplies, ArmStates, Fired
<1>5. Composed(q, RegReply(ok))
    BY <1>1 DEF Dealt, Conn, Drained, Composed, Asked
<1>6. q \in Conns(RegRequests, RegReplies)
    <2>1. rconn[p] \in Conns(RegRequests, RegReplies)
        BY <1>3
    <2> HIDE DEF next, ok
    <2>2. QED
        BY <1>4, <2>1, ConnOperations
<1> HIDE DEF ok, next, q
<1>7. rconn'[p] = q /\ \A r \in Peers : r # p => rconn'[r] = rconn[r]
    BY <1>2, <1>3
<1>8. rconn' \in [Peers -> Conns(RegRequests, RegReplies)]
    BY <1>2, <1>3, <1>6
<1>9. Exports[p] \in SUBSET Names
    BY <1>1, RpcAssumption
<1>10. /\ TablesTypeOK'
       /\ \A f \in Names : \A i \in DOMAIN addr_map[f] :
             i \in DOMAIN addr_map'[f] /\ addr_map'[f][i] = addr_map[f][i]
       /\ \A f \in Names : \A i \in DOMAIN addr_map'[f] :
             \/ i \in DOMAIN addr_map[f] /\ addr_map'[f][i] = addr_map[f][i]
             \/ f \in Exports[p] /\ addr_map'[f][i] = p
       /\ \A f \in Exports[p] : \E i \in DOMAIN addr_map'[f] : addr_map'[f][i] = p
    BY <1>1, <1>2, <1>9, RegisterLists DEF IInv, TypeOK
<1>11. TypeOK'
    BY <1>8, <1>10 DEF RegistryReadReg, RegistryEvent, IInv, TypeOK
<1>12. ListsAreTrue'
    BY <1>10 DEF IInv, Orderly, ListsAreTrue
<1>13. Listed(p)' /\ \A s \in Servers : Listed(s) => Listed(s)'
    <2>1. Listed(p)'
        BY <1>10 DEF Listed
    <2>2. ASSUME NEW s \in Servers, Listed(s), NEW f \in Exports[s]
          PROVE  \E i \in DOMAIN addr_map'[f] : addr_map'[f][i] = s
        <3>1. f \in Names
            BY RpcAssumption
        <3>2. PICK i \in DOMAIN addr_map[f] : addr_map[f][i] = s
            BY <2>2 DEF Listed
        <3>3. QED
            BY <1>10, <3>1, <3>2
    <2>3. QED
        BY <2>1, <2>2 DEF Listed
<1>14. ASSUME NEW s \in Servers PROVE Registration(s)'
    <2>1. CASE s = p
        <3>1. spc[p] # "loaded" /\ spc'[p] = spc[p]
            BY <1>1 DEF IInv, Orderly, Registration, Quiet, Asked, RegistryReadReg,
                        RegistryEvent
        <3>2. Composed(rconn'[p], RegReply(ok)) /\ ok \in BOOLEAN
            BY <1>4, <1>5, <1>7
        <3>3. QED
            BY <2>1, <3>1, <3>2, <1>13 DEF Registration, Exchange
    <2>2. CASE s # p
        BY <2>2, <1>7, <1>13, RegistrationKept
        DEF IInv, Orderly, SameMessages, Peers, RegistryReadReg, RegistryEvent
    <2>3. QED
        BY <2>1, <2>2
<1>15. \A c \in Clients : SameMessages(rconn[c], rconn'[c]) /\ rconn'[c].arm = rconn[c].arm
    BY <1>1, <1>7, RpcAssumption DEF SameMessages, Peers
<1>16. \A c \in Clients : Lookup(c)' /\ Call(c)' /\ History(c)'
    BY <1>15, LookupKept, CallKept, HistoryKept
    DEF IInv, Orderly, SameMessages, RegistryReadReg, RegistryEvent
<1>17. QED
    BY <1>11, <1>12, <1>14, <1>16 DEF IInv, Orderly

LEMMA ReadFindStep ==
    ASSUME IInv, NEW p \in Peers, RegistryReadFind(p) PROVE IInv'
<1>1. /\ p \in Clients /\ cpc[p] = "finding"
      /\ Head(rconn[p].in) = FindMsg(Current(p)) /\ Asked(rconn[p], FindMsg(Current(p)))
    BY RegistryReads, MessageTypes DEF RegistryReadFind, RegistryEvent, Peers
<1> DEFINE f == Current(p)
           next == IF Known(f) THEN "out" ELSE Fired(rconn[p].arm)
           answer == IF Known(f) THEN Found(Pick(f)) ELSE NotFound
           q == Dealt(rconn[p], answer, next)
<1>2. Discover(f) /\ rconn' = [rconn EXCEPT ![p] = q]
    <2>1. Head(rconn[p].in).name = f
        BY <1>1, MessageTypes
    <2>2. /\ Discover(f)
          /\ rconn' = [rconn EXCEPT ![p] =
                 IF Known(f) THEN Dealt(rconn[p], Found(Pick(f)), "out")
                             ELSE Dealt(rconn[p], NotFound, Fired(rconn[p].arm))]
        BY <2>1 DEF RegistryReadFind
    <2>3. CASE Known(f)
        BY <2>2, <2>3
    <2>4. CASE ~Known(f)
        BY <2>2, <2>4
    <2>5. QED
        BY <2>3, <2>4
<1>3. rconn \in [Peers -> Conns(RegRequests, RegReplies)] /\ TablesTypeOK
    BY DEF IInv, TypeOK
<1>4. f \in Names
    <2>1. callNo[p] \in DOMAIN Program[p] /\ Program[p] \in Seq(Names)
        BY <1>1, RpcAssumption DEF IInv, Orderly, History
    <2>2. QED
        BY <2>1 DEF Current
<1>5. Known(f) => Pick(f) \in Servers /\ f \in Exports[Pick(f)]
    <2>1. SUFFICES ASSUME Known(f)
                   PROVE  Pick(f) \in Servers /\ f \in Exports[Pick(f)]
        OBVIOUS
    <2> HIDE DEF f
    <2>2. Index(f) + 1 \in DOMAIN addr_map[f]
        BY <1>3, <1>4, <2>1, IndexInRange
    <2>3. addr_map[f] \in Seq(Servers)
        BY <1>3, <1>4 DEF TablesTypeOK
    <2>4. QED
        BY <1>4, <2>2, <2>3 DEF Pick, IInv, Orderly, ListsAreTrue
<1>6. answer \in RegReplies /\ next \in ArmStates
    BY <1>5 DEF RegReplies, ArmStates, Fired
<1>7. /\ Composed(q, answer)
      /\ Known(f) => answer \in FoundFor(p)
      /\ ~Known(f) => answer = NotFound /\ q.arm # "out"
    <2>1. Composed(q, answer) /\ q.arm = next
        BY <1>1 DEF Dealt, Conn, Drained, Composed, Asked
    <2>2. next = "out" => Known(f)
        BY DEF Fired
    <2>3. QED
        BY <1>5, <2>1, <2>2 DEF FoundFor
<1>8. q \in Conns(RegRequests, RegReplies)
    <2>1. rconn[p] \in Conns(RegRequests, RegReplies)
        BY <1>3
    <2> HIDE DEF next, answer
    <2>2. QED
        BY <1>6, <2>1, ConnOperations
<1> HIDE DEF next, answer, q
<1>9. rconn'[p] = q /\ \A r \in Peers : r # p => rconn'[r] = rconn[r]
    BY <1>2, <1>3
<1>10. rconn' \in [Peers -> Conns(RegRequests, RegReplies)]
    BY <1>2, <1>3, <1>8
<1>11. TablesTypeOK' /\ addr_map' = addr_map
    <2>1. count_map' \in [Names -> -(IntMax + 1) .. IntMax]
        <3>1. count_map \in [Names -> -(IntMax + 1) .. IntMax]
            BY <1>3 DEF TablesTypeOK
        <3> HIDE DEF f
        <3>2. Bump(count_map[f]) \in -(IntMax + 1) .. IntMax
            BY <1>4, <3>1, BumpIsInt
        <3>3. QED
            BY <1>2, <3>1, <3>2 DEF Discover
    <2>2. QED
        BY <1>2, <1>3, <2>1 DEF Discover, TablesTypeOK
<1>12. TypeOK'
    BY <1>10, <1>11 DEF RegistryReadFind, RegistryEvent, IInv, TypeOK
<1>13. ListsAreTrue' /\ \A s \in Servers : Listed(s)' = Listed(s)
    BY <1>11 DEF IInv, Orderly, ListsAreTrue, Listed
<1>14. \A s \in Servers : Registration(s)'
    <2>1. \A s \in Servers : s # p /\ s \in Peers
        BY <1>1, RpcAssumption DEF Peers
    <2>2. QED
        BY <2>1, <1>9, <1>13, RegistrationKept
        DEF IInv, Orderly, SameMessages, RegistryReadFind, RegistryEvent
<1>15. ASSUME NEW c \in Clients PROVE Lookup(c)'
    <2>1. CASE c = p
        <3>1. /\ Composed(rconn'[p], answer)
              /\ Known(f) => answer \in FoundFor(p)
              /\ ~Known(f) => answer = NotFound /\ rconn'[p].arm # "out"
            BY <1>7, <1>9
        <3>2. cpc'[p] = "finding" /\ FoundFor(p)' = FoundFor(p)
            BY <1>1 DEF FoundFor, Current, RegistryReadFind, RegistryEvent
        <3>3. QED
            BY <2>1, <3>1, <3>2 DEF Lookup, Exchange, Stuck
    <2>2. CASE c # p
        BY <2>2, <1>9, LookupKept
        DEF IInv, Orderly, SameMessages, Peers, RegistryReadFind, RegistryEvent
    <2>3. QED
        BY <2>1, <2>2
<1>16. \A c \in Clients : Call(c)' /\ History(c)'
    BY CallKept, HistoryKept
    DEF IInv, Orderly, SameMessages, RegistryReadFind, RegistryEvent
<1>17. QED
    BY <1>12, <1>13, <1>14, <1>15, <1>16 DEF IInv, Orderly

(* deal_write moves an answer on, or sends nothing.                        *)
LEMMA WrittenConn ==
    ASSUME NEW In, NEW Out, NEW q \in Conns(In, Out), NEW msg, NEW answer
    PROVE  /\ Quiet(q) => Quiet(Written(q))
           /\ Asked(q, msg) => Asked(Written(q), msg)
           /\ Composed(q, answer) => Answered(Written(q), answer)
           /\ Answered(q, answer) => Answered(Written(q), answer)
<1>1. /\ Written(q).in = q.in /\ Written(q).buf = <<>>
      /\ Written(q).out = q.out \o q.buf
    BY DEF Written, Conn
<1>2. <<>> \o <<>> = <<>> /\ <<>> \o <<answer>> = <<answer>> /\ <<answer>> \o <<>> = <<answer>>
    OBVIOUS
<1>3. QED
    BY <1>1, <1>2 DEF Quiet, Asked, Composed, Answered

LEMMA RegistryWriteStep ==
    ASSUME IInv, NEW p \in Peers, RegistryWrite(p) PROVE IInv'
<1> DEFINE q == Written(rconn[p])
<1>1. rconn[p].arm = "out" /\ rconn' = [rconn EXCEPT ![p] = q]
    BY DEF RegistryWrite
<1>2. rconn \in [Peers -> Conns(RegRequests, RegReplies)]
    BY DEF IInv, TypeOK
<1>3. rconn[p] \in Conns(RegRequests, RegReplies) /\ q \in Conns(RegRequests, RegReplies)
    BY <1>2, ConnOperations
<1> HIDE DEF q
<1>4. rconn'[p] = q /\ \A r \in Peers : r # p => rconn'[r] = rconn[r]
    BY <1>1, <1>2
<1>5. TypeOK'
    <2>1. rconn' \in [Peers -> Conns(RegRequests, RegReplies)]
        BY <1>1, <1>2, <1>3
    <2>2. QED
        BY <2>1 DEF RegistryWrite, IInv, TypeOK, tables, TablesTypeOK
<1>6. ListsAreTrue' /\ \A s \in Servers : Listed(s)' = Listed(s)
    BY DEF RegistryWrite, IInv, Orderly, ListsAreTrue, Listed, tables
<1>7. /\ Quiet(rconn[p]) => Quiet(q)
      /\ \A msg : Asked(rconn[p], msg) => Asked(q, msg)
      /\ \A a : Composed(rconn[p], a) \/ Answered(rconn[p], a) => Answered(q, a)
    BY <1>3, WrittenConn DEF q
<1>8. ASSUME NEW s \in Servers PROVE Registration(s)'
    <2>1. CASE s = p
        <3>1. /\ Registration(p) /\ spc' = spc /\ q.in = rconn[p].in
              /\ Listed(p)' = Listed(p)
            BY <1>6, <2>1 DEF IInv, Orderly, RegistryWrite, q, Written, Conn
        <3>2. /\ Quiet(rconn'[p]) \/ Exchange(rconn'[p], RegMsg(p), {RegReply(b) : b \in BOOLEAN})
              /\ spc[p] = "loaded" => Quiet(rconn'[p])
            BY <1>4, <1>7, <3>1 DEF Registration, Exchange
        <3>3. QED
            BY <2>1, <3>1, <3>2, <1>4 DEF Registration
    <2>2. CASE s # p
        BY <2>2, <1>4, <1>6, RegistrationKept
        DEF IInv, Orderly, SameMessages, Peers, RegistryWrite
    <2>3. QED
        BY <2>1, <2>2
<1>9. ASSUME NEW c \in Clients PROVE Lookup(c)'
    <2>1. CASE c = p
        <3>1. Lookup(p) /\ cpc' = cpc /\ callNo' = callNo /\ FoundFor(p)' = FoundFor(p)
              /\ Current(p)' = Current(p)
            BY <2>1 DEF IInv, Orderly, RegistryWrite, FoundFor, Current
        <3>2. ~Stuck(rconn[p])
            BY <1>1 DEF Stuck
        <3>3. /\ cpc[p] # "finding" => Quiet(rconn'[p])
              /\ cpc[p] = "finding" =>
                    Exchange(rconn'[p], FindMsg(Current(p)), FoundFor(p))
            BY <1>4, <1>7, <3>1, <3>2 DEF Lookup, Exchange
        <3>4. QED
            BY <2>1, <3>1, <3>3 DEF Lookup
    <2>2. CASE c # p
        BY <2>2, <1>4, LookupKept
        DEF IInv, Orderly, SameMessages, Peers, RegistryWrite
    <2>3. QED
        BY <2>1, <2>2
<1>10. \A c \in Clients : Call(c)' /\ History(c)'
    BY CallKept, HistoryKept DEF IInv, Orderly, SameMessages, RegistryWrite
<1>11. QED
    BY <1>5, <1>6, <1>8, <1>9, <1>10 DEF IInv, Orderly

-----------------------------------------------------------------------------
(* The start and the death of a server *)

LEMMA RegistryStartStep == ASSUME IInv, RegistryStart PROVE IInv'
<1>1. TypeOK'
    BY DEF RegistryStart, IInv, TypeOK, tables, TablesTypeOK
<1>2. ListsAreTrue' /\ \A s \in Servers : Listed(s)' = Listed(s)
    BY DEF RegistryStart, IInv, Orderly, ListsAreTrue, Listed, tables
<1>3. \A s \in Servers : Registration(s)'
    BY <1>2, RegistrationKept DEF RegistryStart, IInv, Orderly, SameMessages
<1>4. \A c \in Clients : Lookup(c)' /\ Call(c)' /\ History(c)'
    BY LookupKept, CallKept, HistoryKept
    DEF RegistryStart, IInv, Orderly, SameMessages
<1>5. QED
    BY <1>1, <1>2, <1>3, <1>4 DEF IInv, Orderly

LEMMA ServerConnectStep ==
    ASSUME IInv, NEW s \in Servers, ServerConnect(s) PROVE IInv'
<1> DEFINE q == IF up THEN NewConn(<<RegMsg(s)>>) ELSE rconn[s]
           st == IF up THEN "registering" ELSE "aborted"
<1>1. /\ spc[s] = "loaded" /\ spc' = [spc EXCEPT ![s] = st]
      /\ rconn' = [rconn EXCEPT ![s] = q]
    BY DEF ServerConnect, IInv, TypeOK
<1>2. /\ rconn \in [Peers -> Conns(RegRequests, RegReplies)]
      /\ spc \in [Servers -> ServerStates]
      /\ s \in Peers /\ Centre \in Listeners
    BY DEF IInv, TypeOK, Peers, Listeners
<1>3. /\ q \in Conns(RegRequests, RegReplies) /\ st \in ServerStates
      /\ st \in {"registering", "aborted"}
      /\ IF up THEN Asked(q, RegMsg(s)) ELSE Quiet(q)
    <2>1. CASE up
        <3>1. RegMsg(s) \in RegRequests
            BY DEF RegRequests
        <3>2. NewConn(<<RegMsg(s)>>) \in Conns(RegRequests, RegReplies)
            BY <3>1, NewConnType
        <3>3. Asked(NewConn(<<RegMsg(s)>>), RegMsg(s))
            BY DEF NewConn, Conn, Asked
        <3>4. QED
            BY <2>1, <3>2, <3>3 DEF ServerStates
    <2>2. CASE ~up
        BY <2>2, <1>1, <1>2 DEF IInv, Orderly, Registration, ServerStates
    <2>3. QED
        BY <2>1, <2>2
<1>4. up => st = "registering"
    OBVIOUS
<1> HIDE DEF q, st
<1>5. /\ rconn'[s] = q /\ \A r \in Peers : r # s => rconn'[r] = rconn[r]
      /\ spc'[s] = st /\ \A t \in Servers : t # s => spc'[t] = spc[t]
    BY <1>1, <1>2
<1>6. TypeOK'
    <2>1. /\ rconn' \in [Peers -> Conns(RegRequests, RegReplies)]
          /\ spc' \in [Servers -> ServerStates]
        BY <1>1, <1>2, <1>3
    <2>2. lis' \in [Listeners -> [queue : Seq(Peers), event : BOOLEAN]]
        <3>1. CASE up
            BY <3>1, <1>2, ArriveType DEF ServerConnect, IInv
        <3>2. CASE ~up
            BY <3>2 DEF ServerConnect, IInv, TypeOK
        <3>3. QED
            BY <3>1, <3>2
    <2>3. QED
        BY <2>1, <2>2 DEF ServerConnect, IInv, TypeOK, tables, TablesTypeOK
<1>7. ListsAreTrue' /\ \A t \in Servers : Listed(t)' = Listed(t)
    BY DEF ServerConnect, IInv, Orderly, ListsAreTrue, Listed, tables
<1>8. ASSUME NEW t \in Servers PROVE Registration(t)'
    <2>1. CASE t = s
        <3>1. CASE up
            <4>1. /\ spc'[s] = "registering" /\ Asked(rconn'[s], RegMsg(s))
                BY <1>3, <1>4, <1>5, <3>1
            <4>2. rconn'[s].in # <<>>
                BY <4>1 DEF Asked
            <4>3. QED
                BY <2>1, <4>1, <4>2 DEF Registration, Exchange
        <3>2. CASE ~up
            <4>1. spc'[s] = "aborted" /\ Quiet(rconn'[s])
                BY <1>3, <1>5, <3>2 DEF st
            <4>2. QED
                BY <2>1, <4>1 DEF Registration
        <3>3. QED
            BY <3>1, <3>2
    <2>2. CASE t # s
        BY <2>2, <1>5, <1>7, RegistrationKept DEF IInv, Orderly, SameMessages, Peers
    <2>3. QED
        BY <2>1, <2>2
<1>9. \A t \in Servers : spc[t] = "crashed" => spc'[t] = "crashed"
    BY <1>1, <1>5
<1>10. \A c \in Clients : c \in Peers /\ c # s
    BY RpcAssumption DEF Peers
<1>11. \A c \in Clients : Lookup(c)' /\ Call(c)' /\ History(c)'
    BY <1>5, <1>9, <1>10, LookupKept, CallKept, HistoryKept
    DEF ServerConnect, IInv, Orderly, SameMessages
<1>12. QED
    BY <1>6, <1>7, <1>8, <1>11 DEF IInv, Orderly

LEMMA ServerRegisteredStep ==
    ASSUME IInv, NEW s \in Servers, ServerRegistered(s) PROVE IInv'
<1> DEFINE st == IF Head(rconn[s].out).ok THEN "registered" ELSE "aborted"
           q == AllRead(rconn[s])
<1>1. /\ spc[s] = "registering" /\ spc' = [spc EXCEPT ![s] = st]
      /\ rconn' = [rconn EXCEPT ![s] = q] /\ rconn[s].out # <<>>
    BY DEF ServerRegistered
<1>2. /\ rconn \in [Peers -> Conns(RegRequests, RegReplies)]
      /\ spc \in [Servers -> ServerStates] /\ s \in Peers
    BY DEF IInv, TypeOK, Peers
<1>3. Listed(s) /\ Quiet(q)
    <2>1. PICK a : Answered(rconn[s], a)
        BY <1>1 DEF IInv, Orderly, Registration, Quiet, Exchange, Asked, Composed
    <2>2. Listed(s)
        BY <1>1, <2>1 DEF IInv, Orderly, Registration, Answered
    <2>3. QED
        BY <2>1, <2>2 DEF Answered, Quiet, AllRead, Conn
<1>4. st \in ServerStates /\ st \in {"registered", "aborted"}
    BY DEF ServerStates
<1>5. q \in Conns(RegRequests, RegReplies)
    BY <1>2, ConnOperations
<1> HIDE DEF st, q
<1>6. /\ rconn'[s] = q /\ \A r \in Peers : r # s => rconn'[r] = rconn[r]
      /\ spc'[s] = st /\ \A t \in Servers : t # s => spc'[t] = spc[t]
    BY <1>1, <1>2
<1>7. TypeOK'
    <2>1. /\ rconn' \in [Peers -> Conns(RegRequests, RegReplies)]
          /\ spc' \in [Servers -> ServerStates]
        BY <1>1, <1>2, <1>4, <1>5
    <2>2. QED
        BY <2>1 DEF ServerRegistered, IInv, TypeOK, tables, TablesTypeOK
<1>8. ListsAreTrue' /\ \A t \in Servers : Listed(t)' = Listed(t)
    BY DEF ServerRegistered, IInv, Orderly, ListsAreTrue, Listed, tables
<1>9. ASSUME NEW t \in Servers PROVE Registration(t)'
    <2>1. CASE t = s
        BY <2>1, <1>3, <1>4, <1>6, <1>8 DEF Registration
    <2>2. CASE t # s
        BY <2>2, <1>6, <1>8, RegistrationKept DEF IInv, Orderly, SameMessages, Peers
    <2>3. QED
        BY <2>1, <2>2
<1>10. \A t \in Servers : spc[t] = "crashed" => spc'[t] = "crashed"
    BY <1>1, <1>6
<1>11. \A c \in Clients : c \in Peers /\ c # s
    BY RpcAssumption DEF Peers
<1>12. \A c \in Clients : Lookup(c)' /\ Call(c)' /\ History(c)'
    BY <1>6, <1>10, <1>11, LookupKept, CallKept, HistoryKept
    DEF ServerRegistered, IInv, Orderly, SameMessages
<1>13. QED
    BY <1>7, <1>8, <1>9, <1>12 DEF IInv, Orderly

(* Listening, and dying.                                                   *)
LEMMA ServerGoesOnStep ==
    ASSUME IInv, NEW s \in Servers, ServerListen(s) \/ ServerCrash(s) PROVE IInv'
<1>1. PICK st \in {"serving", "crashed"} :
          /\ spc' = [spc EXCEPT ![s] = st]
          /\ st = "serving" => spc[s] = "registered"
          /\ spc[s] \in {"registering", "registered", "serving"}
    BY DEF ServerListen, ServerCrash
<1>2. UNCHANGED <<mode, tables, up, cpc, callNo, target, lis, rconn, sconn, execs, results>>
    BY DEF ServerListen, ServerCrash
<1>3. /\ spc \in [Servers -> ServerStates]
      /\ spc'[s] = st /\ \A t \in Servers : t # s => spc'[t] = spc[t]
    BY <1>1 DEF IInv, TypeOK
<1>4. TypeOK'
    <2>1. spc' \in [Servers -> ServerStates]
        BY <1>1, <1>3 DEF ServerStates
    <2>2. QED
        BY <2>1, <1>2 DEF IInv, TypeOK, tables, TablesTypeOK
<1>5. ListsAreTrue' /\ \A t \in Servers : Listed(t)' = Listed(t)
    BY <1>2 DEF IInv, Orderly, ListsAreTrue, Listed, tables
<1>6. ASSUME NEW t \in Servers PROVE Registration(t)'
    <2>1. CASE t = s
        BY <2>1, <1>1, <1>2, <1>3, <1>5
        DEF IInv, Orderly, Registration, Quiet, Exchange, Asked, Composed, Answered
    <2>2. CASE t # s
        BY <2>2, <1>2, <1>3, <1>5, RegistrationKept DEF IInv, Orderly, SameMessages
    <2>3. QED
        BY <2>1, <2>2
<1>7. \A t \in Servers : spc[t] = "crashed" => spc'[t] = "crashed"
    BY <1>1, <1>3
<1>8. \A c \in Clients : Lookup(c)' /\ Call(c)' /\ History(c)'
    BY <1>2, <1>7, LookupKept, CallKept, HistoryKept
    DEF IInv, Orderly, SameMessages
<1>9. QED
    BY <1>4, <1>5, <1>6, <1>8 DEF IInv, Orderly

-----------------------------------------------------------------------------
(* A server at work *)

LEMMA CallTypes ==
    ASSUME NEW c \in Clients, NEW i \in DOMAIN Program[c]
    PROVE  /\ <<c, i>> \in Calls /\ Program[c][i] \in Names /\ i \in Nat
           /\ CallMsg(c, i) \in CallRequests
           /\ CallMsg(c, i).name = Program[c][i] /\ CallMsg(c, i).arg = <<c, i>>
           /\ Value(CallMsg(c, i)) \in CallReplies
<1>1. Program[c] \in Seq(Names)
    BY RpcAssumption
<1>2. i \in Nat /\ Program[c][i] \in Names
    BY <1>1
<1>3. <<c, i>> \in Calls
    BY <1>2 DEF Calls
<1>4. CallMsg(c, i).name = Program[c][i] /\ CallMsg(c, i).arg = <<c, i>>
    BY DEF CallMsg
<1>5. CallMsg(c, i) \in CallRequests
    BY <1>2, <1>3 DEF CallMsg, CallRequests
<1>6. Value(CallMsg(c, i)) \in CallReplies
    BY <1>2, <1>3, <1>4 DEF Value, CallReplies
<1>7. QED
    BY <1>2, <1>3, <1>4, <1>5, <1>6

(* What a server reads is the current call of a client that waits for it,  *)
(* of a function it has, and not executed yet.                             *)
LEMMA ServerReads ==
    ASSUME IInv, NEW s \in Servers, NEW c \in Clients,
           spc[s] = "serving", target[c] = s, sconn[c].in # <<>>
    PROVE  /\ cpc[c] = "calling" /\ callNo[c] \in DOMAIN Program[c]
           /\ Current(c) \in Exports[s] /\ execs[c][callNo[c]] = 0
           /\ Asked(sconn[c], CallMsg(c, callNo[c]))
           /\ Head(sconn[c].in) = CallMsg(c, callNo[c])
<1>1. cpc[c] = "calling"
    BY DEF IInv, Orderly, Call
<1>2. Calling(c) /\ callNo[c] \in DOMAIN Program[c]
    BY <1>1 DEF IInv, Orderly, Call, History
<1>3. Asked(sconn[c], CallMsg(c, callNo[c])) /\ execs[c][callNo[c]] = 0
    BY <1>2 DEF Calling, Composed, Answered
<1>4. QED
    BY <1>1, <1>2, <1>3 DEF Asked, Calling

(* The function is run once and its value composed.                        *)
LEMMA ServerReadEffect ==
    ASSUME IInv, NEW s \in Servers, NEW c \in Clients, ServerRead(s, c)
    PROVE  LET n == callNo[c]
               q == Dealt(sconn[c], Value(CallMsg(c, n)), "out")
           IN  /\ cpc[c] = "calling" /\ n \in DOMAIN Program[c]
               /\ Current(c) \in Exports[s] /\ execs[c][n] = 0
               /\ execs' = [execs EXCEPT ![c][n] = @ + 1]
               /\ sconn' = [sconn EXCEPT ![c] = q]
               /\ Composed(q, Value(CallMsg(c, n)))
<1> DEFINE n == callNo[c]
           q == Dealt(sconn[c], Value(CallMsg(c, n)), "out")
<1>1. spc[s] = "serving" /\ target[c] = s /\ sconn[c].in # <<>>
    BY DEF ServerRead, ReadCall
<1>2. /\ cpc[c] = "calling" /\ n \in DOMAIN Program[c]
      /\ Current(c) \in Exports[s] /\ execs[c][n] = 0
      /\ Asked(sconn[c], CallMsg(c, n)) /\ Head(sconn[c].in) = CallMsg(c, n)
    BY <1>1, ServerReads
<1>3. CallMsg(c, n).name = Current(c) /\ CallMsg(c, n).arg = <<c, n>>
    BY <1>2, CallTypes DEF Current
<1>4. CallMsg(c, n).name \in Exports[s] /\ CallMsg(c, n).arg[1] = c /\ CallMsg(c, n).arg[2] = n
    BY <1>2, <1>3
<1> HIDE DEF n
<1>5. execs' = [execs EXCEPT ![c][n] = @ + 1] /\ sconn' = [sconn EXCEPT ![c] = q]
    <2> DEFINE msg == Head(sconn[c].in)
    <2>1. /\ execs' = IF msg.name \in Exports[s]
                      THEN [execs EXCEPT ![msg.arg[1]][msg.arg[2]] = @ + 1] ELSE execs
          /\ sconn' = [sconn EXCEPT ![c] =
                 Dealt(@, IF msg.name \in Exports[s] THEN Value(msg) ELSE Unbound(msg), "out")]
        BY DEF ServerRead, ReadCall
    <2>2. msg = CallMsg(c, n)
        BY <1>2
    <2>3. msg.name \in Exports[s] /\ msg.arg[1] = c /\ msg.arg[2] = n
        BY <1>4, <2>2
    <2> HIDE DEF msg
    <2>4. execs' = [execs EXCEPT ![c][n] = @ + 1]
        BY <2>1, <2>3
    <2>5. sconn' = [sconn EXCEPT ![c] = q]
        <3>1. (IF msg.name \in Exports[s] THEN Value(msg) ELSE Unbound(msg)) = Value(msg)
            BY <2>3
        <3>2. QED
            BY <2>1, <2>2, <3>1
    <2>6. QED
        BY <2>4, <2>5
<1>6. Composed(q, Value(CallMsg(c, n)))
    BY <1>2 DEF Dealt, Conn, Drained, Composed, Asked
<1>7. QED
    BY <1>2, <1>5, <1>6 DEF n

LEMMA ServerReadStep ==
    ASSUME IInv, NEW s \in Servers, NEW c \in Clients, ServerRead(s, c) PROVE IInv'
<1> DEFINE n == callNo[c]
           q == Dealt(sconn[c], Value(CallMsg(c, n)), "out")
<1>1. /\ cpc[c] = "calling" /\ n \in DOMAIN Program[c]
      /\ Current(c) \in Exports[s] /\ execs[c][n] = 0
      /\ execs' = [execs EXCEPT ![c][n] = @ + 1]
      /\ sconn' = [sconn EXCEPT ![c] = q]
      /\ Composed(q, Value(CallMsg(c, n)))
    BY ServerReadEffect
<1>2. UNCHANGED <<mode, tables, up, spc, cpc, callNo, target, lis, rconn, results>>
      /\ target[c] = s
    BY DEF ServerRead, ReadCall
<1>3. /\ sconn \in [Clients -> Conns(CallRequests, CallReplies)]
      /\ \A d \in Clients : execs[d] \in [DOMAIN Program[d] -> Nat]
    BY DEF IInv, TypeOK
<1>4. q \in Conns(CallRequests, CallReplies)
    <2>1. sconn[c] \in Conns(CallRequests, CallReplies)
        BY <1>3
    <2>2. Value(CallMsg(c, n)) \in CallReplies /\ "out" \in ArmStates
        BY <1>1, CallTypes DEF ArmStates
    <2>3. QED
        BY <2>1, <2>2, ConnOperations
<1> HIDE DEF q
<1>5. /\ sconn'[c] = q /\ \A d \in Clients : d # c => sconn'[d] = sconn[d]
      /\ sconn' \in [Clients -> Conns(CallRequests, CallReplies)]
    BY <1>1, <1>3, <1>4
<1>6. /\ DOMAIN execs' = Clients
      /\ execs'[c] = [execs[c] EXCEPT ![n] = execs[c][n] + 1]
      /\ \A d \in Clients : d # c => execs'[d] = execs[d]
    <2>1. DOMAIN execs = Clients
        BY DEF IInv, TypeOK
    <2>2. execs' = [execs EXCEPT ![c] = [execs[c] EXCEPT ![n] = execs[c][n] + 1]]
        BY <1>1
    <2>3. QED
        BY <2>1, <2>2
<1>7. /\ execs'[c] \in [DOMAIN Program[c] -> Nat] /\ execs'[c][n] = 1
      /\ \A i \in DOMAIN Program[c] : i # n => execs'[c][i] = execs[c][i]
    <2>1. execs[c] \in [DOMAIN Program[c] -> Nat] /\ execs[c][n] + 1 = 1
        BY <1>1, <1>3
    <2>2. execs'[c] = [execs[c] EXCEPT ![n] = 1]
        BY <1>6, <2>1
    <2>3. QED
        BY <1>1, <2>1, <2>2
<1>8. TypeOK'
    <2>1. \A d \in Clients : execs'[d] \in [DOMAIN Program[d] -> Nat]
        BY <1>3, <1>6, <1>7
    <2>2. QED
        BY <2>1, <1>2, <1>5, <1>6 DEF IInv, TypeOK, tables, TablesTypeOK
<1>9. ListsAreTrue' /\ \A t \in Servers : Listed(t)' = Listed(t)
    BY <1>2 DEF IInv, Orderly, ListsAreTrue, Listed, tables
<1>10. \A t \in Servers : Registration(t)'
    BY <1>2, <1>9, RegistrationKept DEF IInv, Orderly, SameMessages
<1>11. \A d \in Clients : Lookup(d)'
    BY <1>2, LookupKept DEF IInv, Orderly, SameMessages
<1>12. ASSUME NEW d \in Clients PROVE Call(d)'
    <2>1. CASE d = c
        <3>1. Calling(c)'
            <4>1. target'[c] \in Servers /\ Current(c)' = Current(c) /\ target'[c] = s
                BY <1>2 DEF Current
            <4>2. Composed(sconn'[c], Value(CallMsg(c, callNo'[c]))) /\ execs'[c][callNo'[c]] = 1
                BY <1>1, <1>2, <1>5, <1>7
            <4>3. QED
                BY <1>1, <4>1, <4>2 DEF Calling
        <3>2. QED
            BY <2>1, <3>1, <1>1, <1>2 DEF Call
    <2>2. CASE d # c
        BY <2>2, <1>2, <1>5, <1>6, CallKept DEF IInv, Orderly, SameMessages
    <2>3. QED
        BY <2>1, <2>2
<1>13. ASSUME NEW d \in Clients PROVE History(d)'
    <2>1. CASE d = c
        <3>1. /\ History(c) /\ cpc'[c] = "calling" /\ callNo' = callNo /\ results' = results
            BY <1>1, <1>2 DEF IInv, Orderly
        <3>2. \A i \in DOMAIN Program[c] :
                  execs'[c][i] \in {0, 1} /\ (callNo[c] < i => execs'[c][i] = 0)
            <4>1. n \in Nat
                BY <1>1, CallTypes
            <4>2. ~(n < n)
                BY <4>1
            <4>3. QED
                BY <3>1, <1>7, <4>2 DEF History
        <3>3. ASSUME NEW i \in DOMAIN results[c]
              PROVE  \/ results[c][i] = Value(CallMsg(c, i)) /\ execs'[c][i] = 1
                     \/ results[c][i] = Failed
            <4>1. results[c] \in Seq(CallReplies \cup {Failed}) /\ Len(results[c]) + 1 = n
                BY <1>1 DEF IInv, Orderly, History, TypeOK
            <4>2. i \in 1 .. Len(results[c]) /\ i < n
                BY <4>1
            <4>3. Program[c] \in Seq(Names)
                BY RpcAssumption
            <4>4. i \in DOMAIN Program[c] /\ i # n
                BY <1>1, <4>1, <4>2, <4>3
            <4>5. QED
                BY <3>1, <1>7, <4>4 DEF History
        <3>4. QED
            BY <2>1, <3>1, <3>2, <3>3, <1>1 DEF History
    <2>2. CASE d # c
        BY <2>2, <1>2, <1>6, HistoryKept DEF IInv, Orderly
    <2>3. QED
        BY <2>1, <2>2
<1>14. QED
    BY <1>8, <1>9, <1>10, <1>11, <1>12, <1>13 DEF IInv, Orderly

LEMMA ServerWriteStep ==
    ASSUME IInv, NEW s \in Servers, NEW c \in Clients, ServerWrite(s, c) PROVE IInv'
<1> DEFINE q == Written(sconn[c])
<1>1. /\ sconn' = [sconn EXCEPT ![c] = q] /\ spc[s] = "serving" /\ target[c] = s
      /\ UNCHANGED <<mode, tables, up, spc, cpc, callNo, target, lis, rconn, execs, results>>
    BY DEF ServerWrite
<1>2. sconn \in [Clients -> Conns(CallRequests, CallReplies)]
    BY DEF IInv, TypeOK
<1>3. sconn[c] \in Conns(CallRequests, CallReplies) /\ q \in Conns(CallRequests, CallReplies)
    BY <1>2, ConnOperations
<1>4. /\ \A msg : Asked(sconn[c], msg) => Asked(q, msg)
      /\ \A a : Composed(sconn[c], a) \/ Answered(sconn[c], a) => Answered(q, a)
      /\ q.in = sconn[c].in
    <2>1. q.in = sconn[c].in
        BY DEF Written, Conn
    <2> HIDE DEF q
    <2>2. QED
        BY <1>3, <2>1, WrittenConn DEF q
<1> HIDE DEF q
<1>5. /\ sconn'[c] = q /\ \A d \in Clients : d # c => sconn'[d] = sconn[d]
      /\ sconn' \in [Clients -> Conns(CallRequests, CallReplies)]
    BY <1>1, <1>2, <1>3
<1>6. TypeOK'
    BY <1>1, <1>5 DEF IInv, TypeOK, tables, TablesTypeOK
<1>7. ListsAreTrue' /\ \A t \in Servers : Listed(t)' = Listed(t)
    BY <1>1 DEF IInv, Orderly, ListsAreTrue, Listed, tables
<1>8. \A t \in Servers : Registration(t)'
    BY <1>1, <1>7, RegistrationKept DEF IInv, Orderly, SameMessages
<1>9. \A d \in Clients : Lookup(d)' /\ History(d)'
    BY <1>1, LookupKept, HistoryKept DEF IInv, Orderly, SameMessages
<1>10. ASSUME NEW d \in Clients PROVE Call(d)'
    <2>1. CASE d = c
        <3>1. Calling(c) => Calling(c)'
            BY <1>1, <1>4, <1>5 DEF Calling, Current
        <3>2. Call(c)
            BY DEF IInv, Orderly
        <3>3. QED
            BY <2>1, <3>1, <3>2, <1>1, <1>4, <1>5 DEF Call
    <2>2. CASE d # c
        BY <2>2, <1>1, <1>5, CallKept DEF IInv, Orderly, SameMessages
    <2>3. QED
        BY <2>1, <2>2
<1>11. QED
    BY <1>6, <1>7, <1>8, <1>9, <1>10 DEF IInv, Orderly

-----------------------------------------------------------------------------
(* A client *)

LEMMA ClientTypes ==
    ASSUME TypeOK
    PROVE  /\ rconn \in [Peers -> Conns(RegRequests, RegReplies)]
           /\ sconn \in [Clients -> Conns(CallRequests, CallReplies)]
           /\ cpc \in [Clients -> ClientStates] /\ callNo \in [Clients -> Nat]
           /\ target \in [Clients -> Listeners]
           /\ results \in [Clients -> Seq(CallReplies \cup {Failed})]
           /\ \A c \in Clients : c \in Peers /\ c \notin Servers
           /\ \A c \in Clients : callNo[c] <= Len(Program[c]) /\ Len(Program[c]) \in Nat
                                 /\ DOMAIN Program[c] = 1 .. Len(Program[c])
           /\ \A s \in Servers : s \in Peers
<1>1. \A c \in Clients : Program[c] \in Seq(Names)
    BY RpcAssumption
<1>2. \A c \in Clients : Len(Program[c]) \in Nat /\ DOMAIN Program[c] = 1 .. Len(Program[c])
    BY <1>1
<1>3. QED
    BY <1>2, RpcAssumption DEF TypeOK, Peers

LEMMA ClientStartStep ==
    ASSUME IInv, NEW c \in Clients, ClientStart(c) PROVE IInv'
<1> DEFINE st == IF up THEN "ready" ELSE "killed"
           q == IF up THEN NewConn(<<>>) ELSE rconn[c]
<1>1. /\ cpc[c] = "start" /\ cpc' = [cpc EXCEPT ![c] = st]
      /\ rconn' = [rconn EXCEPT ![c] = q]
      /\ UNCHANGED <<mode, tables, up, spc, callNo, target, sconn, execs, results>>
    BY DEF ClientStart, IInv, TypeOK
<1>2. Quiet(q) /\ q \in Conns(RegRequests, RegReplies)
    <2>1. CASE up
        BY <2>1, NewConnType DEF NewConn, Conn, Quiet
    <2>2. CASE ~up
        BY <2>2, <1>1, ClientTypes DEF IInv, Orderly, Lookup
    <2>3. QED
        BY <2>1, <2>2
<1>3. st \in {"ready", "killed"} /\ st \in ClientStates
    BY DEF ClientStates
<1> HIDE DEF st, q
<1>4. /\ cpc'[c] = st /\ \A d \in Clients : d # c => cpc'[d] = cpc[d]
      /\ rconn'[c] = q /\ \A p \in Peers : p # c => rconn'[p] = rconn[p]
    BY <1>1, ClientTypes DEF IInv
<1>5. TypeOK'
    <2>1. /\ cpc' \in [Clients -> ClientStates]
          /\ rconn' \in [Peers -> Conns(RegRequests, RegReplies)]
        BY <1>1, <1>2, <1>3, ClientTypes DEF IInv
    <2>2. lis' \in [Listeners -> [queue : Seq(Peers), event : BOOLEAN]]
        <3>1. CASE up
            <4>1. Arrive(Centre, c) /\ Centre \in Listeners /\ c \in Peers
                BY <3>1 DEF ClientStart, Listeners, Peers
            <4>2. QED
                BY <4>1, ArriveType DEF IInv
        <3>2. CASE ~up
            BY <3>2 DEF ClientStart, IInv, TypeOK
        <3>3. QED
            BY <3>1, <3>2
    <2>3. QED
        BY <2>1, <2>2, <1>1 DEF IInv, TypeOK, tables, TablesTypeOK
<1>6. ListsAreTrue' /\ \A t \in Servers : Listed(t)' = Listed(t)
    BY <1>1 DEF IInv, Orderly, ListsAreTrue, Listed, tables
<1>7. \A t \in Servers : Registration(t)'
    BY <1>1, <1>4, <1>6, RegistrationKept, ClientTypes DEF IInv, Orderly, SameMessages
<1>8. ASSUME NEW d \in Clients PROVE Lookup(d)' /\ Call(d)' /\ History(d)'
    <2>1. CASE d = c
        <3>1. Lookup(c)'
            BY <1>2, <1>3, <1>4 DEF Lookup
        <3>2. Call(c)'
            BY <1>1, <1>3, <1>4 DEF IInv, Orderly, Call
        <3>3. History(c)'
            BY <1>1, <1>3, <1>4 DEF IInv, Orderly, History
        <3>4. QED
            BY <2>1, <3>1, <3>2, <3>3
    <2>2. CASE d # c
        BY <2>2, <1>1, <1>4, ClientTypes, LookupKept, CallKept, HistoryKept
        DEF IInv, Orderly, SameMessages
    <2>3. QED
        BY <2>1, <2>2
<1>9. QED
    BY <1>5, <1>6, <1>7, <1>8 DEF IInv, Orderly

LEMMA ClientFindStep ==
    ASSUME IInv, NEW c \in Clients, ClientFind(c) PROVE IInv'
<1> DEFINE n == callNo[c] + 1
           q == Sent(rconn[c], FindMsg(Program[c][n]))
<1>1. /\ cpc[c] = "ready" /\ callNo[c] < Len(Program[c])
      /\ cpc' = [cpc EXCEPT ![c] = "finding"]
      /\ callNo' = [callNo EXCEPT ![c] = n]
      /\ rconn' = [rconn EXCEPT ![c] = q]
      /\ UNCHANGED <<mode, tables, up, spc, target, lis, sconn, execs, results>>
    BY DEF ClientFind
<1>2. n \in DOMAIN Program[c] /\ n \in Nat /\ callNo[c] \in Nat /\ callNo[c] < n
    BY <1>1, ClientTypes DEF IInv
<1>3. FindMsg(Program[c][n]) \in RegRequests
    BY <1>2, CallTypes DEF RegRequests
<1>4. Asked(q, FindMsg(Program[c][n]))
    <2>1. Quiet(rconn[c])
        BY <1>1 DEF IInv, Orderly, Lookup
    <2> DEFINE m == FindMsg(Program[c][n])
    <2> HIDE DEF m
    <2>2. Append(<<>>, m) = <<m>>
        OBVIOUS
    <2>3. QED
        BY <2>1, <2>2 DEF Sent, Conn, Quiet, Asked, m
<1>5. q \in Conns(RegRequests, RegReplies)
    <2>1. rconn[c] \in Conns(RegRequests, RegReplies)
        BY ClientTypes DEF IInv
    <2>2. QED
        BY <1>3, <2>1, ConnOperations
<1> HIDE DEF n, q
<1>6. /\ cpc'[c] = "finding" /\ \A d \in Clients : d # c => cpc'[d] = cpc[d]
      /\ callNo'[c] = n /\ \A d \in Clients : d # c => callNo'[d] = callNo[d]
      /\ rconn'[c] = q /\ \A p \in Peers : p # c => rconn'[p] = rconn[p]
    BY <1>1, ClientTypes DEF IInv
<1>7. TypeOK'
    <2>1. /\ cpc' \in [Clients -> ClientStates] /\ callNo' \in [Clients -> Nat]
          /\ rconn' \in [Peers -> Conns(RegRequests, RegReplies)]
        BY <1>1, <1>2, <1>5, ClientTypes DEF IInv, ClientStates
    <2>2. \A d \in Clients : callNo'[d] <= Len(Program[d])
        <3>1. n <= Len(Program[c])
            BY <1>2, ClientTypes DEF IInv
        <3>2. QED
            BY <1>6, <3>1, ClientTypes DEF IInv
    <2>3. QED
        BY <2>1, <2>2, <1>1 DEF IInv, TypeOK, tables, TablesTypeOK
<1>8. ListsAreTrue' /\ \A t \in Servers : Listed(t)' = Listed(t)
    BY <1>1 DEF IInv, Orderly, ListsAreTrue, Listed, tables
<1>9. \A t \in Servers : Registration(t)'
    BY <1>1, <1>6, <1>8, RegistrationKept, ClientTypes DEF IInv, Orderly, SameMessages
<1>10. ASSUME NEW d \in Clients PROVE Lookup(d)' /\ Call(d)' /\ History(d)'
    <2>1. CASE d = c
        <3>1. Lookup(c)'
            BY <1>4, <1>6 DEF Lookup, Exchange, Current
        <3>2. Call(c)'
            BY <1>1, <1>6 DEF IInv, Orderly, Call
        <3>3. History(c)'
            <4>1. /\ Len(results[c]) = callNo[c]
                  /\ \A i \in DOMAIN Program[c] :
                        execs[c][i] \in {0, 1} /\ (callNo[c] < i => execs[c][i] = 0)
                  /\ \A i \in DOMAIN results[c] :
                        \/ results[c][i] = Value(CallMsg(c, i)) /\ execs[c][i] = 1
                        \/ results[c][i] = Failed
                BY <1>1 DEF IInv, Orderly, History
            <4>2. n = callNo[c] + 1
                BY DEF n
            <4>3. /\ Len(results[c]) + 1 = n /\ Len(results[c]) <= n
                BY <1>2, <4>1, <4>2
            <4>4. execs[c][n] = 0
                BY <1>2, <4>1
            <4>5. \A i \in DOMAIN Program[c] : n < i => callNo[c] < i
                BY <1>2, ClientTypes DEF IInv
            <4>6. QED
                BY <1>1, <1>2, <1>6, <4>1, <4>3, <4>4, <4>5 DEF History
        <3>4. QED
            BY <2>1, <3>1, <3>2, <3>3
    <2>2. CASE d # c
        BY <2>2, <1>1, <1>6, ClientTypes, LookupKept, CallKept, HistoryKept
        DEF IInv, Orderly, SameMessages
    <2>3. QED
        BY <2>1, <2>2
<1>11. QED
    BY <1>7, <1>8, <1>9, <1>10 DEF IInv, Orderly

(* The answer to a lookup is a server that has the function.               *)
LEMMA ClientFinds ==
    ASSUME IInv, NEW c \in Clients, cpc[c] = "finding", rconn[c].out # <<>>
    PROVE  /\ Chosen(c) \in Servers /\ Current(c) \in Exports[Chosen(c)]
           /\ Quiet(HeadRead(rconn[c]))
<1>1. PICK a \in FoundFor(c) : Answered(rconn[c], a)
    BY DEF IInv, Orderly, Lookup, Exchange, Asked, Composed, Stuck
<1>2. PICK s \in Servers : Current(c) \in Exports[s] /\ a = Found(s)
    BY DEF FoundFor
<1>3. Chosen(c) = s
    BY <1>1, <1>2 DEF Chosen, Answered, Found
<1>4. Tail(<<a>>) = <<>>
    OBVIOUS
<1>5. Quiet(HeadRead(rconn[c]))
    BY <1>1, <1>4 DEF HeadRead, Conn, Answered, Quiet
<1>6. QED
    BY <1>2, <1>3, <1>5

LEMMA ClientCallStep ==
    ASSUME IInv, NEW c \in Clients, ClientCall(c) PROVE IInv'
<1> DEFINE s == Chosen(c)
           msg == CallMsg(c, callNo[c])
           st == IF spc[s] = "serving" THEN "calling" ELSE "killed"
           q == IF spc[s] = "serving" THEN NewConn(<<msg>>) ELSE sconn[c]
           r == HeadRead(rconn[c])
<1>1. /\ cpc[c] = "finding" /\ rconn[c].out # <<>>
      /\ cpc' = [cpc EXCEPT ![c] = st] /\ target' = [target EXCEPT ![c] = s]
      /\ sconn' = [sconn EXCEPT ![c] = q] /\ rconn' = [rconn EXCEPT ![c] = r]
      /\ UNCHANGED <<mode, tables, up, spc, callNo, execs, results>>
    BY DEF ClientCall, IInv, TypeOK
<1>2. s \in Servers /\ Current(c) \in Exports[s] /\ Quiet(r)
    BY <1>1, ClientFinds
<1>3. callNo[c] \in DOMAIN Program[c] /\ execs[c][callNo[c]] = 0
    BY <1>1 DEF IInv, Orderly, History
<1>4. /\ st = "calling" => Asked(q, msg)
      /\ st # "calling" => q = sconn[c]
      /\ st \in {"calling", "killed"} /\ st \in ClientStates
    BY DEF NewConn, Conn, Asked, ClientStates
<1>5. q \in Conns(CallRequests, CallReplies) /\ r \in Conns(RegRequests, RegReplies)
    <2>1. msg \in CallRequests
        BY <1>3, CallTypes
    <2>2. sconn[c] \in Conns(CallRequests, CallReplies)
        BY ClientTypes DEF IInv
    <2> HIDE DEF msg
    <2>3. q \in Conns(CallRequests, CallReplies)
        <3>1. NewConn(<<msg>>) \in Conns(CallRequests, CallReplies)
            BY <2>1, NewConnType
        <3>2. QED
            BY <2>2, <3>1
    <2>4. rconn[c] \in Conns(RegRequests, RegReplies)
        BY ClientTypes DEF IInv
    <2>5. r \in Conns(RegRequests, RegReplies)
        BY <1>1, <2>4, ConnOperations
    <2>6. QED
        BY <2>3, <2>5
<1>6. lis' \in [Listeners -> [queue : Seq(Peers), event : BOOLEAN]]
    <2>1. CASE spc[s] = "serving"
        <3>1. Arrive(s, c)
            BY <2>1 DEF ClientCall
        <3>2. s \in Listeners /\ c \in Peers
            BY <1>2, ClientTypes DEF Listeners, IInv
        <3>3. QED
            BY <3>1, <3>2, ArriveType DEF IInv
    <2>2. CASE spc[s] # "serving"
        BY <2>2 DEF ClientCall, IInv, TypeOK
    <2>3. QED
        BY <2>1, <2>2
<1> HIDE DEF s, msg, st, q, r
<1>7. /\ cpc'[c] = st /\ target'[c] = s /\ sconn'[c] = q /\ rconn'[c] = r
      /\ \A d \in Clients : d # c =>
            cpc'[d] = cpc[d] /\ target'[d] = target[d] /\ sconn'[d] = sconn[d]
      /\ \A p \in Peers : p # c => rconn'[p] = rconn[p]
    BY <1>1, ClientTypes DEF IInv
<1>8. TypeOK'
    <2>1. /\ cpc' \in [Clients -> ClientStates] /\ target' \in [Clients -> Listeners]
          /\ rconn' \in [Peers -> Conns(RegRequests, RegReplies)]
          /\ sconn' \in [Clients -> Conns(CallRequests, CallReplies)]
        BY <1>1, <1>2, <1>4, <1>5, ClientTypes DEF IInv, Listeners
    <2>2. QED
        BY <2>1, <1>1, <1>6 DEF IInv, TypeOK, tables, TablesTypeOK
<1>9. ListsAreTrue' /\ \A t \in Servers : Listed(t)' = Listed(t)
    BY <1>1 DEF IInv, Orderly, ListsAreTrue, Listed, tables
<1>10. \A t \in Servers : Registration(t)'
    BY <1>1, <1>7, <1>9, RegistrationKept, ClientTypes DEF IInv, Orderly, SameMessages
<1>11. ASSUME NEW d \in Clients PROVE Lookup(d)' /\ Call(d)' /\ History(d)'
    <2>1. CASE d = c
        <3>1. Lookup(c)'
            BY <1>2, <1>4, <1>7 DEF Lookup
        <3>2. Call(c)'
            <4>1. CASE st = "calling"
                <5>1. Calling(c)'
                    BY <1>1, <1>2, <1>3, <1>4, <1>7, <4>1 DEF Calling, Current, msg
                <5>2. QED
                    BY <5>1, <1>7, <4>1 DEF Call
            <4>2. CASE st # "calling"
                <5>1. sconn[c].in = <<>>
                    BY <1>1 DEF IInv, Orderly, Call
                <5>2. QED
                    BY <5>1, <1>4, <1>7, <4>2 DEF Call
            <4>3. QED
                BY <4>1, <4>2
        <3>3. History(c)'
            BY <1>1, <1>4, <1>7 DEF IInv, Orderly, History
        <3>4. QED
            BY <2>1, <3>1, <3>2, <3>3
    <2>2. CASE d # c
        BY <2>2, <1>1, <1>7, ClientTypes, LookupKept, CallKept, HistoryKept
        DEF IInv, Orderly, SameMessages
    <2>3. QED
        BY <2>1, <2>2
<1>12. QED
    BY <1>8, <1>9, <1>10, <1>11 DEF IInv, Orderly

(* The answer a client receives is the value of its own call, which ran.   *)
LEMMA ClientReceives ==
    ASSUME IInv, NEW c \in Clients, cpc[c] = "calling", sconn[c].out # <<>>
    PROVE  /\ Head(sconn[c].out) = Value(CallMsg(c, callNo[c]))
           /\ execs[c][callNo[c]] = 1
           /\ sconn[c].in = <<>>
<1>1. Calling(c)
    BY DEF IInv, Orderly, Call
<1>2. Answered(sconn[c], Value(CallMsg(c, callNo[c]))) /\ execs[c][callNo[c]] = 1
    BY <1>1 DEF Calling, Asked, Composed
<1>3. QED
    BY <1>2 DEF Answered

(* A result is appended in the place of the call it belongs to.            *)
LEMMA ResultAppended ==
    ASSUME NEW S, NEW h \in Seq(S), NEW r \in S, NEW n \in Nat, Len(h) + 1 = n
    PROVE  /\ Append(h, r) \in Seq(S) /\ Len(Append(h, r)) = n
           /\ Append(h, r)[n] = r
           /\ \A i \in DOMAIN Append(h, r) :
                 i # n => i \in DOMAIN h /\ Append(h, r)[i] = h[i]
OBVIOUS

(* What a result does to the history of its client.                        *)
LEMMA HistoryGrows ==
    ASSUME IInv, NEW c \in Clients, NEW r, cpc[c] = "calling",
           \/ r = Value(CallMsg(c, callNo[c])) /\ execs[c][callNo[c]] = 1
           \/ r = Failed,
           cpc'[c] = "ready", callNo'[c] = callNo[c], execs'[c] = execs[c],
           results' = [results EXCEPT ![c] = Append(results[c], r)]
    PROVE  /\ results' \in [Clients -> Seq(CallReplies \cup {Failed})]
           /\ History(c)'
<1> DEFINE n == callNo[c]
           h == results[c]
<1>1. n \in DOMAIN Program[c] /\ n \in Nat /\ Len(h) + 1 = n
    BY ClientTypes DEF IInv, Orderly, History
<1>2. r \in CallReplies \cup {Failed}
    BY <1>1, CallTypes
<1>3. results \in [Clients -> Seq(CallReplies \cup {Failed})]
    BY ClientTypes DEF IInv
<1>4. /\ Append(h, r) \in Seq(CallReplies \cup {Failed}) /\ Len(Append(h, r)) = n
      /\ Append(h, r)[n] = r
      /\ \A i \in DOMAIN Append(h, r) :
            i # n => i \in DOMAIN h /\ Append(h, r)[i] = h[i]
    BY <1>1, <1>2, <1>3, ResultAppended
<1> DEFINE g == Append(h, r)
<1>5. results' = [results EXCEPT ![c] = g]
    OBVIOUS
<1> HIDE DEF g
<1>6. g \in Seq(CallReplies \cup {Failed}) /\ Len(g) = n /\ g[n] = r
    BY <1>4 DEF g
<1>7. \A i \in DOMAIN g : i # n => i \in DOMAIN h /\ g[i] = h[i]
    BY <1>4 DEF g
<1>8. results'[c] = g /\ results' \in [Clients -> Seq(CallReplies \cup {Failed})]
    BY <1>3, <1>5, <1>6
<1>9. /\ \A i \in DOMAIN Program[c] :
            execs[c][i] \in {0, 1} /\ (n < i => execs[c][i] = 0)
      /\ \A i \in DOMAIN h :
            \/ h[i] = Value(CallMsg(c, i)) /\ execs[c][i] = 1
            \/ h[i] = Failed
    BY DEF IInv, Orderly, History
<1>10. ASSUME NEW i \in DOMAIN g
       PROVE  \/ g[i] = Value(CallMsg(c, i)) /\ execs[c][i] = 1
              \/ g[i] = Failed
    <2>1. CASE i = n
        BY <2>1, <1>6
    <2>2. CASE i # n
        BY <2>2, <1>7, <1>9
    <2>3. QED
        BY <2>1, <2>2
<1>11. n <= n
    BY <1>1
<1> HIDE DEF n
<1>12. History(c)'
    BY <1>6, <1>8, <1>9, <1>10, <1>11 DEF History, n
<1>13. QED
    BY <1>8, <1>12

LEMMA ClientReturnStep ==
    ASSUME IInv, NEW c \in Clients, ClientReturn(c) PROVE IInv'
<1> DEFINE q == AllRead(sconn[c])
           r == Head(sconn[c].out)
<1>1. /\ cpc[c] = "calling" /\ sconn[c].out # <<>>
      /\ cpc' = [cpc EXCEPT ![c] = "ready"]
      /\ results' = [results EXCEPT ![c] = Append(results[c], r)]
      /\ sconn' = [sconn EXCEPT ![c] = q]
      /\ UNCHANGED <<mode, tables, up, spc, callNo, target, lis, rconn, execs>>
    BY DEF ClientReturn
<1>2. r = Value(CallMsg(c, callNo[c])) /\ execs[c][callNo[c]] = 1 /\ sconn[c].in = <<>>
    BY <1>1, ClientReceives
<1>3. q \in Conns(CallRequests, CallReplies) /\ q.in = sconn[c].in
    <2>1. sconn[c] \in Conns(CallRequests, CallReplies)
        BY ClientTypes DEF IInv
    <2>2. QED
        BY <2>1, ConnOperations DEF AllRead, Conn
<1> HIDE DEF q, r
<1>4. /\ cpc'[c] = "ready" /\ sconn'[c] = q
      /\ \A d \in Clients : d # c =>
            cpc'[d] = cpc[d] /\ sconn'[d] = sconn[d] /\ results'[d] = results[d]
    BY <1>1, ClientTypes DEF IInv
<1>5. results' \in [Clients -> Seq(CallReplies \cup {Failed})] /\ History(c)'
    BY <1>1, <1>2, <1>4, HistoryGrows
<1>6. TypeOK'
    <2>1. /\ cpc' \in [Clients -> ClientStates]
          /\ sconn' \in [Clients -> Conns(CallRequests, CallReplies)]
        BY <1>1, <1>3, ClientTypes DEF IInv, ClientStates
    <2>2. QED
        BY <2>1, <1>1, <1>5 DEF IInv, TypeOK, tables, TablesTypeOK
<1>7. ListsAreTrue' /\ \A t \in Servers : Listed(t)' = Listed(t)
    BY <1>1 DEF IInv, Orderly, ListsAreTrue, Listed, tables
<1>8. \A t \in Servers : Registration(t)'
    BY <1>1, <1>7, RegistrationKept DEF IInv, Orderly, SameMessages
<1>9. ASSUME NEW d \in Clients PROVE Lookup(d)' /\ Call(d)' /\ History(d)'
    <2>1. CASE d = c
        <3>1. Lookup(c)'
            BY <1>1, <1>4 DEF IInv, Orderly, Lookup
        <3>2. Call(c)'
            BY <1>2, <1>3, <1>4 DEF Call
        <3>3. QED
            BY <2>1, <3>1, <3>2, <1>5
    <2>2. CASE d # c
        BY <2>2, <1>1, <1>4, LookupKept, CallKept, HistoryKept
        DEF IInv, Orderly, SameMessages
    <2>3. QED
        BY <2>1, <2>2
<1>10. QED
    BY <1>6, <1>7, <1>8, <1>9 DEF IInv, Orderly

LEMMA ClientServerGoneStep ==
    ASSUME IInv, NEW c \in Clients, ClientServerGone(c) PROVE IInv'
<1> DEFINE st == IF sconn[c].in # <<>> THEN "aborted" ELSE "ready"
<1>1. /\ cpc[c] = "calling" /\ spc[target[c]] = "crashed"
      /\ cpc' = [cpc EXCEPT ![c] = st]
      /\ st = "aborted" => results' = results
      /\ st = "ready" => /\ results' = [results EXCEPT ![c] = Append(results[c], Failed)]
                         /\ sconn[c].in = <<>>
      /\ st \in {"aborted", "ready"}
      /\ UNCHANGED <<mode, tables, up, spc, callNo, target, lis, rconn, sconn, execs>>
    BY DEF ClientServerGone
<1> HIDE DEF st
<1>2. /\ cpc'[c] = st /\ \A d \in Clients : d # c => cpc'[d] = cpc[d] /\ results'[d] = results[d]
    BY <1>1, ClientTypes DEF IInv
<1>3. target[c] \in Servers
    BY <1>1 DEF IInv, Orderly, Call, Calling
<1>4. results' \in [Clients -> Seq(CallReplies \cup {Failed})] /\ History(c)'
    <2>1. CASE st = "aborted"
        BY <2>1, <1>1, <1>2, ClientTypes DEF IInv, Orderly, History
    <2>2. CASE st = "ready"
        BY <2>2, <1>1, <1>2, HistoryGrows
    <2>3. QED
        BY <1>1, <2>1, <2>2
<1>5. TypeOK'
    <2>1. cpc' \in [Clients -> ClientStates]
        BY <1>1, ClientTypes DEF IInv, ClientStates
    <2>2. QED
        BY <2>1, <1>1, <1>4 DEF IInv, TypeOK, tables, TablesTypeOK
<1>6. ListsAreTrue' /\ \A t \in Servers : Listed(t)' = Listed(t)
    BY <1>1 DEF IInv, Orderly, ListsAreTrue, Listed, tables
<1>7. \A t \in Servers : Registration(t)'
    BY <1>1, <1>6, RegistrationKept DEF IInv, Orderly, SameMessages
<1>8. ASSUME NEW d \in Clients PROVE Lookup(d)' /\ Call(d)' /\ History(d)'
    <2>1. CASE d = c
        <3>1. Lookup(c)'
            BY <1>1, <1>2 DEF IInv, Orderly, Lookup
        <3>2. Call(c)'
            BY <1>1, <1>2, <1>3 DEF Call
        <3>3. QED
            BY <2>1, <3>1, <3>2, <1>4
    <2>2. CASE d # c
        BY <2>2, <1>1, <1>2, LookupKept, CallKept, HistoryKept
        DEF IInv, Orderly, SameMessages
    <2>3. QED
        BY <2>1, <2>2
<1>9. QED
    BY <1>5, <1>6, <1>7, <1>8 DEF IInv, Orderly

LEMMA ClientDoneStep ==
    ASSUME IInv, NEW c \in Clients, ClientDone(c) PROVE IInv'
<1>1. /\ cpc[c] = "ready" /\ cpc' = [cpc EXCEPT ![c] = "done"]
      /\ UNCHANGED <<mode, tables, up, spc, callNo, target, lis, rconn, sconn, execs, results>>
    BY DEF ClientDone
<1>2. cpc'[c] = "done" /\ \A d \in Clients : d # c => cpc'[d] = cpc[d]
    BY <1>1, ClientTypes DEF IInv
<1>3. TypeOK'
    <2>1. cpc' \in [Clients -> ClientStates]
        BY <1>1, ClientTypes DEF IInv, ClientStates
    <2>2. QED
        BY <2>1, <1>1 DEF IInv, TypeOK, tables, TablesTypeOK
<1>4. ListsAreTrue' /\ \A t \in Servers : Listed(t)' = Listed(t)
    BY <1>1 DEF IInv, Orderly, ListsAreTrue, Listed, tables
<1>5. \A t \in Servers : Registration(t)'
    BY <1>1, <1>4, RegistrationKept DEF IInv, Orderly, SameMessages
<1>6. ASSUME NEW d \in Clients PROVE Lookup(d)' /\ Call(d)' /\ History(d)'
    <2>1. CASE d = c
        BY <2>1, <1>1, <1>2 DEF IInv, Orderly, Lookup, Call, History
    <2>2. CASE d # c
        BY <2>2, <1>1, <1>2, LookupKept, CallKept, HistoryKept
        DEF IInv, Orderly, SameMessages
    <2>3. QED
        BY <2>1, <2>2
<1>7. QED
    BY <1>3, <1>4, <1>5, <1>6 DEF IInv, Orderly

-----------------------------------------------------------------------------
(* Every step keeps the invariant, and so does a step of nobody.           *)
LEMMA StutterStep == ASSUME IInv, UNCHANGED vars PROVE IInv'
<1>1. TypeOK'
    BY DEF vars, IInv, TypeOK, tables, TablesTypeOK
<1>2. ListsAreTrue' /\ \A t \in Servers : Listed(t)' = Listed(t)
    BY DEF vars, IInv, Orderly, ListsAreTrue, Listed, tables
<1>3. \A t \in Servers : Registration(t)'
    BY <1>2, RegistrationKept DEF vars, IInv, Orderly, SameMessages
<1>4. \A c \in Clients : Lookup(c)' /\ Call(c)' /\ History(c)'
    BY LookupKept, CallKept, HistoryKept DEF vars, IInv, Orderly, SameMessages
<1>5. QED
    BY <1>1, <1>2, <1>3, <1>4 DEF IInv, Orderly

LEMMA NextIInv == ASSUME IInv, [Next]_vars PROVE IInv'
<1>1. CASE RegistryStart
    BY <1>1, RegistryStartStep
<1>2. CASE RegistryStep
    BY <1>2, RegistryAcceptStep, ReadRegStep, ReadFindStep, RegistryWriteStep
    DEF RegistryStep
<1>3. ASSUME NEW s \in Servers, ServerStep(s) PROVE IInv'
    BY <1>3, ServerConnectStep, ServerRegisteredStep, ServerGoesOnStep,
       ServerAcceptStep, ServerReadStep, ServerWriteStep DEF ServerStep
<1>4. ASSUME NEW s \in Servers, ServerCrash(s) PROVE IInv'
    BY <1>4, ServerGoesOnStep
<1>5. ASSUME NEW c \in Clients, ClientStep(c) PROVE IInv'
    BY <1>5, ClientStartStep, ClientFindStep, ClientCallStep, ClientReturnStep,
       ClientServerGoneStep, ClientDoneStep DEF ClientStep
<1>6. CASE UNCHANGED vars
    BY <1>6, StutterStep
<1>7. QED
    BY <1>1, <1>2, <1>3, <1>4, <1>5, <1>6 DEF Next

(* The messages of every connection stay in order, and every process where *)
(* they say it is.                                                         *)
THEOREM Invariance == Spec => []IInv
<1>1. Init => IInv
    BY InitIInv
<1>2. IInv /\ [Next]_vars => IInv'
    BY NextIInv
<1>3. QED
    BY <1>1, <1>2, PTL DEF Spec

(* TypeOK: every process in one of its states, every connection with       *)
(* messages of its own protocol.                                           *)
THEOREM TypeCorrect == Spec => []TypeOK
<1>1. IInv => TypeOK
    BY DEF IInv
<1>2. QED
    BY <1>1, Invariance, PTL

(* CallGoesToExporter: the server the registry names for a function has    *)
(* it (registry.cpp:54-95, rpc_client.h:80-100).                           *)
THEOREM CallsGoToExporters == Spec => []CallGoesToExporter
<1>1. IInv => CallGoesToExporter
    BY DEF IInv, Orderly, Call, Calling, CallGoesToExporter
<1>2. QED
    BY <1>1, Invariance, PTL

(* ResultsAreOwn: what call() returns is the value of that very call, or a *)
(* failure (rpc_client.h:103-165).                                         *)
THEOREM ResultsBelongToTheirCalls == Spec => []ResultsAreOwn
<1>1. IInv => ResultsAreOwn
    BY DEF IInv, Orderly, History, ResultsAreOwn
<1>2. QED
    BY <1>1, Invariance, PTL

(* ExecutedAtMostOnce: no re-arming, no crash and no repeated event runs a *)
(* call twice (server.cpp:22-55, rpc_server.cpp:22-75).                    *)
THEOREM CallsRunAtMostOnce == Spec => []ExecutedAtMostOnce
<1>1. IInv => ExecutedAtMostOnce
    <2> SUFFICES ASSUME IInv, NEW c \in Clients
        PROVE  /\ \A i \in DOMAIN Program[c] : execs[c][i] <= 1
               /\ \A i \in DOMAIN results[c] :
                     results[c][i] # Failed => execs[c][i] = 1
        BY DEF ExecutedAtMostOnce
    <2>1. \A n \in {0, 1} : n <= 1
        OBVIOUS
    <2>2. QED
        BY <2>1 DEF IInv, Orderly, History
<1>2. QED
    BY <1>1, Invariance, PTL

(* ServingIsListed: a server that goes on to listen is on the registry's   *)
(* list of every function it has (rpc_server.cpp:96-104).                  *)
THEOREM ServersAreListed == Spec => []ServingIsListed
<1>1. IInv => ServingIsListed
    BY DEF IInv, Orderly, Registration, Listed, ServingIsListed
<1>2. QED
    BY <1>1, Invariance, PTL

-----------------------------------------------------------------------------
(* The service implements RemoteCall *)

(* The phase of a client follows its program counter.                      *)
LEMMA PhaseMoves ==
    ASSUME NEW c \in Clients, \A d \in Clients : d # c => cpc'[d] = cpc[d]
    PROVE  /\ Phase[c] = PhaseOf(cpc[c]) /\ Phase'[c] = PhaseOf(cpc'[c])
           /\ \A d \in Clients : d # c => Phase'[d] = Phase[d]
           /\ Phase = [d \in Clients |-> Phase[d]] /\ Phase' = [d \in Clients |-> Phase'[d]]
           /\ PhaseOf(cpc'[c]) = PhaseOf(cpc[c]) => Phase' = Phase
<1>1. \A d \in Clients : Phase[d] = PhaseOf(cpc[d]) /\ Phase'[d] = PhaseOf(cpc'[d])
    BY DEF Phase, PhaseOf
<1>2. Phase = [d \in Clients |-> Phase[d]] /\ Phase' = [d \in Clients |-> Phase'[d]]
    BY DEF Phase
<1>3. \A d \in Clients : d # c => Phase'[d] = Phase[d]
    BY <1>1
<1>4. PhaseOf(cpc'[c]) = PhaseOf(cpc[c]) => Phase' = Phase
    BY <1>1, <1>2, <1>3
<1>5. QED
    BY <1>1, <1>2, <1>3, <1>4

LEMMA Phases ==
    /\ PhaseOf("start") = "idle" /\ PhaseOf("ready") = "idle" /\ PhaseOf("done") = "idle"
    /\ PhaseOf("finding") = "pending" /\ PhaseOf("calling") = "pending"
    /\ PhaseOf("killed") = "lost" /\ PhaseOf("aborted") = "lost"
BY DEF PhaseOf

LEMMA SamePhase == ASSUME cpc' = cpc PROVE Phase' = Phase
BY DEF Phase

LEMMA SameRan == ASSUME callNo' = callNo, execs' = execs PROVE Ran' = Ran
BY DEF Ran

(* The mapped state of one client.                                         *)
LEMMA MappedClient ==
    ASSUME IInv, NEW c \in Clients
    PROVE  /\ Phase[c] = PhaseOf(cpc[c])
           /\ Ran[c] <=> callNo[c] > 0 /\ execs[c][callNo[c]] > 0
           /\ cpc[c] \in {"finding", "calling"} =>
                 callNo[c] \in DOMAIN Program[c] /\ callNo[c] > 0
<1>1. cpc[c] \in {"finding", "calling"} => callNo[c] \in 1 .. Len(Program[c])
    BY ClientTypes DEF IInv, Orderly, History
<1>2. callNo[c] \in 1 .. Len(Program[c]) =>
          callNo[c] \in DOMAIN Program[c] /\ callNo[c] > 0
    BY ClientTypes DEF IInv
<1>3. Phase[c] = PhaseOf(cpc[c])
    BY DEF Phase
<1>4. Ran[c] <=> callNo[c] > 0 /\ execs[c][callNo[c]] > 0
    BY Zenon DEF Ran
<1>5. QED
    BY <1>1, <1>2, <1>3, <1>4

LEMMA AbstractInit == Init => Abstract!Init
<1> SUFFICES ASSUME Init PROVE Abstract!Init
    OBVIOUS
<1>1. Phase = [c \in Clients |-> "idle"]
    <2>1. \A c \in Clients : PhaseOf(cpc[c]) = "idle"
        BY Phases DEF Init
    <2>2. QED
        BY <2>1 DEF Phase
<1>2. Ran = [c \in Clients |-> FALSE]
    <2>1. \A c \in Clients : (callNo[c] > 0 /\ execs[c][callNo[c]] > 0) = FALSE
        BY DEF Init
    <2>2. QED
        BY <2>1 DEF Ran
<1>3. QED
    BY <1>1, <1>2 DEF Init, Abstract!Init

(* A lookup begins the call.                                               *)
LEMMA FindBegins ==
    ASSUME IInv, IInv', NEW c \in Clients, ClientFind(c) PROVE Abstract!Begin(c)
<1>1. /\ cpc[c] = "ready" /\ callNo[c] < Len(Program[c])
      /\ cpc' = [cpc EXCEPT ![c] = "finding"]
      /\ callNo' = [callNo EXCEPT ![c] = callNo[c] + 1]
      /\ execs' = execs /\ results' = results
    BY DEF ClientFind
<1>2. /\ callNo'[c] = callNo[c] + 1 /\ \A d \in Clients : d # c => callNo'[d] = callNo[d]
      /\ cpc'[c] = "finding" /\ \A d \in Clients : d # c => cpc'[d] = cpc[d]
    BY <1>1, ClientTypes DEF IInv
<1>3. Phase[c] = "idle" /\ Phase' = [Phase EXCEPT ![c] = "pending"]
    BY <1>1, <1>2, PhaseMoves, Phases
<1>4. execs'[c][callNo'[c]] = 0
    BY <1>2 DEF IInv, Orderly, History
<1>5. Ran' = [Ran EXCEPT ![c] = FALSE]
    <2>1. Ran'[c] = FALSE
        <3>1. ~(callNo'[c] > 0 /\ execs'[c][callNo'[c]] > 0)
            BY <1>4
        <3>2. QED
            BY <3>1 DEF Ran
    <2>2. \A d \in Clients : d # c => Ran'[d] = Ran[d]
        BY <1>1, <1>2 DEF Ran
    <2>3. Ran' = [d \in Clients |-> Ran'[d]] /\ Ran = [d \in Clients |-> Ran[d]]
        BY DEF Ran
    <2>4. QED
        BY <2>1, <2>2, <2>3
<1>6. QED
    BY <1>1, <1>3, <1>5 DEF Abstract!Begin

(* The server's read executes it.                                          *)
LEMMA ReadExecutes ==
    ASSUME IInv, NEW s \in Servers, NEW c \in Clients, ServerRead(s, c)
    PROVE  Abstract!Execute(c)
<1> DEFINE n == callNo[c]
<1>1. /\ cpc[c] = "calling" /\ n \in DOMAIN Program[c]
      /\ Current(c) \in Exports[s] /\ execs[c][n] = 0
      /\ execs' = [execs EXCEPT ![c][n] = @ + 1]
    BY ServerReadEffect
<1>2. UNCHANGED <<cpc, callNo, results>>
    BY DEF ServerRead, ReadCall
<1>3. Phase' = Phase /\ Phase[c] = "pending" /\ n > 0
    BY <1>1, <1>2, SamePhase, MappedClient, Phases
<1>4. ~Ran[c]
    BY <1>1, MappedClient
<1>5. /\ execs'[c][n] = 1 /\ \A d \in Clients : d # c => execs'[d] = execs[d]
    BY <1>1 DEF IInv, TypeOK
<1>6. Ran' = [Ran EXCEPT ![c] = TRUE]
    <2>1. Ran'[c] = TRUE
        <3>1. callNo'[c] > 0 /\ execs'[c][callNo'[c]] > 0
            BY <1>2, <1>3, <1>5
        <3>2. QED
            BY <3>1 DEF Ran
    <2>2. \A d \in Clients : d # c => Ran'[d] = Ran[d]
        BY <1>2, <1>5 DEF Ran
    <2>3. Ran' = [d \in Clients |-> Ran'[d]] /\ Ran = [d \in Clients |-> Ran[d]]
        BY DEF Ran
    <2>4. QED
        BY <2>1, <2>2, <2>3
<1>7. QED
    BY <1>1, <1>2, <1>3, <1>4, <1>6 DEF Abstract!Execute, Current

(* The answer returns the value of that execution.                         *)
LEMMA ReturnReturns ==
    ASSUME IInv, NEW c \in Clients, ClientReturn(c) PROVE Abstract!Return(c)
<1>1. /\ cpc[c] = "calling" /\ sconn[c].out # <<>>
      /\ cpc' = [cpc EXCEPT ![c] = "ready"]
      /\ results' = [results EXCEPT ![c] = Append(results[c], Head(sconn[c].out))]
      /\ UNCHANGED <<callNo, execs>>
    BY DEF ClientReturn
<1>2. Head(sconn[c].out) = Abstract!Success(c) /\ execs[c][callNo[c]] = 1
    BY <1>1, ClientReceives DEF Value, CallMsg, Abstract!Success
<1>3. Phase[c] = "pending" /\ Phase' = [Phase EXCEPT ![c] = "idle"]
    <2>1. cpc'[c] = "ready" /\ \A d \in Clients : d # c => cpc'[d] = cpc[d]
        BY <1>1, ClientTypes DEF IInv
    <2>2. QED
        BY <1>1, <2>1, PhaseMoves, Phases
<1>4. Ran[c] /\ Ran' = Ran
    BY <1>1, <1>2, SameRan, MappedClient
<1>5. QED
    BY <1>1, <1>2, <1>3, <1>4 DEF Abstract!Return

(* A client that is killed, or aborts, is lost.                            *)
LEMMA KilledIsLost ==
    ASSUME IInv, NEW c \in Clients, cpc[c] \in {"start", "finding", "calling"},
           NEW st \in {"killed", "aborted"}, cpc' = [cpc EXCEPT ![c] = st],
           UNCHANGED <<callNo, execs, results>>
    PROVE  Abstract!Lose(c)
<1>1. Phase[c] # "lost" /\ Phase' = [Phase EXCEPT ![c] = "lost"]
    <2>1. cpc'[c] = st /\ \A d \in Clients : d # c => cpc'[d] = cpc[d]
        BY ClientTypes DEF IInv
    <2>2. QED
        BY <2>1, PhaseMoves, Phases
<1>2. Ran' = Ran
    BY SameRan
<1>3. QED
    BY <1>1, <1>2 DEF Abstract!Lose

(* When the server is gone the call fails, or the client aborts.           *)
LEMMA GoneFails ==
    ASSUME IInv, NEW c \in Clients, ClientServerGone(c)
    PROVE  Abstract!Fail(c) \/ Abstract!Lose(c)
<1>1. cpc[c] = "calling" /\ UNCHANGED <<callNo, execs>>
    BY DEF ClientServerGone
<1>2. CASE sconn[c].in # <<>>
    BY <1>1, <1>2, KilledIsLost DEF ClientServerGone
<1>3. CASE sconn[c].in = <<>>
    <2>1. /\ cpc' = [cpc EXCEPT ![c] = "ready"]
          /\ results' = [results EXCEPT ![c] = Append(results[c], Failed)]
        BY <1>3 DEF ClientServerGone
    <2>2. Phase[c] = "pending" /\ Phase' = [Phase EXCEPT ![c] = "idle"]
        <3>1. cpc'[c] = "ready" /\ \A d \in Clients : d # c => cpc'[d] = cpc[d]
            BY <2>1, ClientTypes DEF IInv
        <3>2. QED
            BY <1>1, <3>1, PhaseMoves, Phases
    <2>3. Ran' = Ran
        BY <1>1, SameRan
    <2>4. Failed = Abstract!Failure
        BY DEF Failed, Abstract!Failure
    <2>5. QED
        BY <1>1, <2>1, <2>2, <2>3, <2>4 DEF Abstract!Fail
<1>4. QED
    BY <1>2, <1>3

(* Everything else the system does is a stutter, or loses a client.        *)
LEMMA ClientRefines ==
    ASSUME IInv, IInv', NEW c \in Clients, ClientStep(c)
    PROVE  Abstract!Next \/ UNCHANGED <<Phase, callNo, Ran, results>>
<1>1. CASE ClientStart(c)
    <2>1. cpc[c] = "start" /\ UNCHANGED <<callNo, execs, results>>
        BY <1>1 DEF ClientStart
    <2>2. CASE up
        <3>1. cpc' = [cpc EXCEPT ![c] = "ready"]
            BY <1>1, <2>2 DEF ClientStart
        <3>2. cpc'[c] = "ready" /\ \A d \in Clients : d # c => cpc'[d] = cpc[d]
            BY <3>1, ClientTypes DEF IInv
        <3>3. QED
            BY <2>1, <3>2, PhaseMoves, Phases, SameRan
    <2>3. CASE ~up
        BY <1>1, <2>1, <2>3, KilledIsLost DEF ClientStart, Abstract!Next
    <2>4. QED
        BY <2>2, <2>3
<1>2. CASE ClientFind(c)
    BY <1>2, FindBegins DEF Abstract!Next
<1>3. CASE ClientCall(c)
    <2>1. cpc[c] = "finding" /\ UNCHANGED <<callNo, execs, results>>
        BY <1>3 DEF ClientCall
    <2>2. CASE spc[Chosen(c)] = "serving"
        <3>1. cpc' = [cpc EXCEPT ![c] = "calling"]
            BY <1>3, <2>2 DEF ClientCall
        <3>2. cpc'[c] = "calling" /\ \A d \in Clients : d # c => cpc'[d] = cpc[d]
            BY <3>1, ClientTypes DEF IInv
        <3>3. QED
            BY <2>1, <3>2, PhaseMoves, Phases, SameRan
    <2>3. CASE spc[Chosen(c)] # "serving"
        BY <1>3, <2>1, <2>3, KilledIsLost DEF ClientCall, Abstract!Next
    <2>4. QED
        BY <2>2, <2>3
<1>4. CASE ClientReturn(c)
    BY <1>4, ReturnReturns DEF Abstract!Next
<1>5. CASE ClientServerGone(c)
    BY <1>5, GoneFails DEF Abstract!Next
<1>6. CASE ClientDone(c)
    <2>1. /\ cpc[c] = "ready" /\ cpc' = [cpc EXCEPT ![c] = "done"]
          /\ UNCHANGED <<callNo, execs, results>>
        BY <1>6 DEF ClientDone
    <2>2. cpc'[c] = "done" /\ \A d \in Clients : d # c => cpc'[d] = cpc[d]
        BY <2>1, ClientTypes DEF IInv
    <2>3. QED
        BY <2>1, <2>2, PhaseMoves, Phases, SameRan
<1>7. QED
    BY <1>1, <1>2, <1>3, <1>4, <1>5, <1>6 DEF ClientStep

LEMMA StepRefines ==
    ASSUME IInv, IInv', [Next]_vars
    PROVE  [Abstract!Next]_<<Phase, callNo, Ran, results>>
<1> DEFINE same == UNCHANGED <<Phase, callNo, Ran, results>>
<1>1. ASSUME UNCHANGED <<cpc, callNo, execs, results>> PROVE same
    BY <1>1, SamePhase, SameRan
<1>2. CASE RegistryStart \/ RegistryStep
    <2>1. UNCHANGED <<cpc, callNo, execs, results>>
        BY <1>2 DEF RegistryStart, RegistryStep, RegistryAccept, RegistryReadReg,
                    RegistryReadFind, RegistryEvent, RegistryWrite
    <2>2. QED
        BY <1>1, <2>1
<1>3. ASSUME NEW s \in Servers, ServerStep(s) \/ ServerCrash(s)
      PROVE  Abstract!Next \/ same
    <2>1. ASSUME NEW c \in Clients, ServerRead(s, c) PROVE Abstract!Next
        BY <2>1, ReadExecutes DEF Abstract!Next
    <2>2. CASE \A c \in Clients : ~ServerRead(s, c)
        <3>1. UNCHANGED <<cpc, callNo, execs, results>>
            BY <1>3, <2>2 DEF ServerStep, ServerConnect, ServerRegistered,
               ServerListen, ServerAccept, ServerWrite, ServerCrash
        <3>2. QED
            BY <1>1, <3>1
    <2>3. QED
        BY <2>1, <2>2
<1>4. ASSUME NEW c \in Clients, ClientStep(c) PROVE Abstract!Next \/ same
    BY <1>4, ClientRefines
<1>5. CASE UNCHANGED vars
    <2>1. UNCHANGED <<cpc, callNo, execs, results>>
        BY <1>5 DEF vars
    <2>2. QED
        BY <1>1, <2>1
<1>6. QED
    BY <1>2, <1>3, <1>4, <1>5 DEF Next

(* RemoteCallSpec: seen from the clients, registry, servers, connections   *)
(* and deaths are nothing but RemoteCall (rpc_client.h:80-165).            *)
THEOREM Implements == Spec => RemoteCallSpec
<1>1. Init => Abstract!Init
    BY AbstractInit
<1>2. IInv /\ IInv' /\ [Next]_vars => [Abstract!Next]_(Abstract!vars)
    BY StepRefines DEF Abstract!vars
<1>3. QED
    BY <1>1, <1>2, Invariance, PTL DEF Spec, Abstract!Spec, RemoteCallSpec
=============================================================================
