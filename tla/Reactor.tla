------------------------------ MODULE Reactor ------------------------------
(***************************************************************************)
(* The loop that registry, RPC server and HTTP server inherit from Server  *)
(* (src/common/server.cpp), with the part of epoll it depends on: the      *)
(* ready list, level- and edge-triggered entries, EPOLLONESHOT and the     *)
(* events of a descriptor that is modified while data is waiting.          *)
(*                                                                         *)
(* receive, deal_read and deal_write are virtual.  The receive of the      *)
(* three services is the same loop.  What deal_read does to the descriptor *)
(* is one of Outcomes:                                                     *)
(*   "out"    it is re-armed for writing, an answer is ready               *)
(*   "in"     it is re-armed for reading, the request is not complete      *)
(*   "none"   it is not re-armed                                           *)
(* RpcServer always does the first, HttpServer one of the first two,       *)
(* Registry the first or the last.                                         *)
(*                                                                         *)
(* epoll_wait goes through the ready list entry by entry; events that      *)
(* happen meanwhile are kept in a list of their own and moved to the ready *)
(* list at the end.                                                        *)
(*                                                                         *)
(* A peer connects, sends, reads what it was sent, and shuts down its      *)
(* side; resets are left out.                                              *)
(***************************************************************************)
EXTENDS Naturals, Sequences, FiniteSets, SequencesExt

CONSTANTS Conns,      \* the connections, each with a descriptor of its own
          Listener,   \* the listening socket
          Modes,      \* the settings of <<_is_et_lis, _is_et_conn>>
          Outcomes,   \* what deal_read may do
          MaxEvent,   \* _max_event, the most events one epoll_wait returns
          BufCap,     \* size of _recv_buf
          MaxSend     \* bound on what one peer sends, for TLC

ASSUME ReactorAssumption ==
    /\ Listener \notin Conns
    /\ Modes \subseteq BOOLEAN \X BOOLEAN
    /\ Outcomes \subseteq {"out", "in", "none"}
    /\ MaxEvent \in Nat \ {0} /\ BufCap \in Nat \ {0} /\ MaxSend \in Nat

VARIABLES
    is_et_lis,    \* is the listening socket edge-triggered?
    is_et_conn,   \* are the connections?
    backlog,   \* connections not accepted yet, in order of arrival
    arm,       \* per connection: how it is registered with epoll
    unread,    \* per connection: received by the kernel, not by the program
    eof,       \* per connection: the peer has shut down its side
    full,      \* per connection: its send buffer has no room
    ready,     \* epoll's ready list
    ovflist,   \* events during a scan that are not yet in it, newest first
    scanning,  \* is epoll_wait going through the ready list?
    txlist,    \* the part of the list it has not looked at
    batch,     \* _events: what epoll_wait has found, or what is left of it
    sent       \* per connection: what the peer has sent so far

mode == <<is_et_lis, is_et_conn>>
epoll == <<ready, ovflist, scanning, txlist, batch>>
vars == <<mode, backlog, arm, unread, eof, full, epoll, sent>>

(* "idle" is the registration made by accept(), the only one without       *)
(* EPOLLONESHOT; "off" is a one-shot registration whose event was          *)
(* delivered.                                                              *)
OneShot == {"in", "out"}
Registered == {"idle", "in", "out", "off"}

Init ==
    /\ \E m \in Modes : is_et_lis = m[1] /\ is_et_conn = m[2]
    /\ backlog = <<>>
    /\ arm = [c \in Conns |-> "none"]
    /\ unread = [c \in Conns |-> 0]
    /\ eof = [c \in Conns |-> FALSE]
    /\ full = [c \in Conns |-> FALSE]
    /\ ready = <<>> /\ ovflist = <<>> /\ scanning = FALSE /\ txlist = <<>>
    /\ batch = <<>>
    /\ sent = [c \in Conns |-> 0]

-----------------------------------------------------------------------------
(* epoll *)

(* The events a registration asks for; EPOLLERR needs a reset. *)
Mask(a) ==
    CASE a \in {"idle", "in"} -> {"IN", "RDHUP"}
      [] a = "out" -> {"OUT", "RDHUP"}
      [] OTHER -> {}

Polled(n, end, noroom) ==
    {e \in {"IN", "OUT", "RDHUP"} :
        \/ e = "IN" /\ (n > 0 \/ end)
        \/ e = "OUT" /\ ~noroom
        \/ e = "RDHUP" /\ end}

Events(fd) == IF fd = Listener THEN {e \in {"IN"} : backlog # <<>>}
              ELSE Mask(arm[fd]) \cap Polled(unread[fd], eof[fd], full[fd])

Linked(fd) == fd \in ToSet(ready) \cup ToSet(txlist)
Listed(fd) == Linked(fd) \/ fd \in ToSet(ovflist)

(* During a scan an event is noted even when its entry is still to be      *)
(* looked at.                                                              *)
Enlist(fd) ==
    IF scanning
    THEN /\ ovflist' = IF fd \in ToSet(ovflist) THEN ovflist ELSE <<fd>> \o ovflist
         /\ UNCHANGED ready
    ELSE /\ ready' = IF fd \in ToSet(ready) THEN ready ELSE Append(ready, fd)
         /\ UNCHANGED ovflist

(* What epoll does when something happened to a registered connection, and *)
(* when it is added or modified: it is enlisted if it has an event.        *)
Poll(c) ==
    IF Mask(arm'[c]) \cap Polled(unread'[c], eof'[c], full'[c]) # {}
    THEN Enlist(c) ELSE UNCHANGED <<ready, ovflist>>

(* Mutants: the flag EPOLLET is not set on connections; it is always set    *)
(* on the listening socket.                                                *)
ConnsAreLevel(fd) == IF fd = Listener THEN ~is_et_lis ELSE arm[fd] = "idle"

ListenerIsEdge(fd) == fd # Listener /\ arm[fd] = "idle" /\ ~is_et_conn

LevelTriggered(fd) == IF fd = Listener THEN ~is_et_lis
                      ELSE arm[fd] = "idle" /\ ~is_et_conn

(* epoll_wait finds the list not empty and goes through it.                *)
StartScan ==
    /\ ~scanning /\ batch = <<>> /\ ready # <<>>
    /\ scanning' = TRUE /\ txlist' = ready /\ ready' = <<>>
    /\ UNCHANGED <<mode, backlog, arm, unread, eof, full, ovflist, batch, sent>>

(* An entry that still has an event is handed out.  A one-shot entry is    *)
(* then disabled, a level-triggered one goes to the back of the list, an   *)
(* edge-triggered one is forgotten until its next event.                   *)
Report(fd) ==
    /\ Events(fd) # {}
    /\ batch' = Append(batch, [fd |-> fd, events |-> Events(fd)])
    /\ arm' = [c \in Conns |-> IF c = fd /\ arm[c] \in OneShot THEN "off" ELSE arm[c]]
    /\ ready' = IF LevelTriggered(fd) THEN Append(ready, fd) ELSE ready

Scanned == txlist = <<>> \/ Len(batch) = MaxEvent

Scan ==
    /\ scanning /\ ~Scanned
    /\ LET fd == Head(txlist)
       IN  \/ Report(fd)
           \/ Events(fd) = {} /\ UNCHANGED <<batch, arm, ready>>
    /\ txlist' = Tail(txlist)
    /\ UNCHANGED <<mode, backlog, unread, eof, full, ovflist, scanning, sent>>

(* The events of the meantime join the list, ahead of what was put back,   *)
(* unless their entry is in it already.                                    *)
Collect ==
    /\ scanning /\ Scanned /\ ovflist # <<>>
    /\ LET fd == Head(ovflist)
       IN  ready' = IF Linked(fd) THEN ready ELSE <<fd>> \o ready
    /\ ovflist' = Tail(ovflist)
    /\ UNCHANGED <<mode, backlog, arm, unread, eof, full, scanning, txlist, batch, sent>>

(* What was not looked at stays at the head of the list. *)
EndScan ==
    /\ scanning /\ Scanned /\ ovflist = <<>>
    /\ scanning' = FALSE /\ txlist' = <<>> /\ ready' = txlist \o ready
    /\ UNCHANGED <<mode, backlog, arm, unread, eof, full, ovflist, batch, sent>>

Wait == StartScan \/ Scan \/ Collect \/ EndScan

-----------------------------------------------------------------------------
(* The loop over the events, one event a step *)

Current == Head(batch).fd
Fired == Head(batch).events
Handle ==
    /\ ~scanning /\ batch # <<>>
    /\ batch' = Tail(batch)
    /\ UNCHANGED <<scanning, txlist>>

(* accept() takes one connection, however many there are. *)
Accept ==
    /\ Handle
    /\ Current = Listener
    /\ backlog # <<>>
    /\ LET c == Head(backlog)
       IN  /\ backlog' = Tail(backlog)
           /\ arm' = [arm EXCEPT ![c] = "idle"]
           /\ UNCHANGED <<mode, unread, eof, full, sent>>
           /\ Poll(c)

(* receive reads until there is nothing more or the buffer is full; when   *)
(* it returns 0, which it does only at the end of the stream or when all   *)
(* was read before, nothing else is done.                                  *)
ReadNothing ==
    /\ Handle
    /\ Current # Listener
    /\ "IN" \in Fired
    /\ unread[Current] = 0
    /\ UNCHANGED <<mode, backlog, arm, unread, eof, full, ready, ovflist, sent>>

(* Mutants: an incomplete request is not re-armed; neither is a descriptor *)
(* after a write.                                                          *)
RearmedForAnswer(a, outcome) == IF outcome = "out" THEN "out" ELSE a

WriteForgets(a) == a

Drained(n) == IF n > BufCap THEN n - BufCap ELSE 0

Rearmed(a, outcome) == IF outcome = "none" THEN a ELSE outcome

Read ==
    /\ Handle
    /\ Current # Listener
    /\ "IN" \in Fired
    /\ unread[Current] > 0
    /\ LET c == Current
       IN  /\ unread' = [unread EXCEPT ![c] = Drained(@)]
           /\ \E outcome \in Outcomes :
                /\ arm' = [arm EXCEPT ![c] = Rearmed(@, outcome)]
                /\ UNCHANGED <<mode, backlog, eof, full, sent>>
                /\ IF arm'[c] = arm[c] THEN UNCHANGED <<ready, ovflist>> ELSE Poll(c)

AfterWrite(a) == "in"

(* deal_write sends the answer, which may use up the room in the send      *)
(* buffer, and re-arms the descriptor for reading.                         *)
Write ==
    /\ Handle
    /\ Current # Listener
    /\ "IN" \notin Fired
    /\ "OUT" \in Fired
    /\ LET c == Current
       IN  /\ \E noroom \in BOOLEAN : full' = [full EXCEPT ![c] = noroom]
           /\ arm' = [arm EXCEPT ![c] = AfterWrite(@)]
           /\ UNCHANGED <<mode, backlog, unread, eof, sent>>
           /\ IF arm'[c] = arm[c] THEN UNCHANGED <<ready, ovflist>> ELSE Poll(c)

(* The branch for EPOLLRDHUP is reached when neither EPOLLIN nor EPOLLOUT  *)
(* was reported: the peer went away while an answer waited for room.  If   *)
(* the entry is in the list once more, the next scan drops it, which is as *)
(* good as the unlinking that epoll_ctl does here.                         *)
HangUp ==
    /\ Handle
    /\ Current # Listener
    /\ Fired \cap {"IN", "OUT"} = {}
    /\ arm' = [arm EXCEPT ![Current] = "closed"]
    /\ UNCHANGED <<mode, backlog, unread, eof, full, ready, ovflist, sent>>

-----------------------------------------------------------------------------
(* The peers *)

PeerConnects(c) ==
    /\ arm[c] = "none"
    /\ arm' = [arm EXCEPT ![c] = "queued"]
    /\ backlog' = Append(backlog, c)
    /\ Enlist(Listener)
    /\ UNCHANGED <<mode, unread, eof, full, scanning, txlist, batch, sent>>

PeerSends(c) ==
    /\ arm[c] \in Registered \cup {"queued"}
    /\ ~eof[c]
    /\ sent[c] < MaxSend
    /\ unread' = [unread EXCEPT ![c] = @ + 1]
    /\ sent' = [sent EXCEPT ![c] = @ + 1]
    /\ UNCHANGED <<mode, backlog, arm, eof, full, scanning, txlist, batch>>
    /\ IF "IN" \in Mask(arm[c]) THEN Poll(c) ELSE UNCHANGED <<ready, ovflist>>

PeerReads(c) ==
    /\ full[c]
    /\ full' = [full EXCEPT ![c] = FALSE]
    /\ UNCHANGED <<mode, backlog, arm, unread, eof, scanning, txlist, batch, sent>>
    /\ IF "OUT" \in Mask(arm[c]) THEN Poll(c) ELSE UNCHANGED <<ready, ovflist>>

PeerShutsDown(c) ==
    /\ arm[c] \in Registered \cup {"queued"}
    /\ ~eof[c]
    /\ eof' = [eof EXCEPT ![c] = TRUE]
    /\ UNCHANGED <<mode, backlog, arm, unread, full, scanning, txlist, batch, sent>>
    /\ Poll(c)

-----------------------------------------------------------------------------
ServerStep == Wait \/ Accept \/ ReadNothing \/ Read \/ Write \/ HangUp

PeerStep(c) ==
    PeerConnects(c) \/ PeerSends(c) \/ PeerReads(c) \/ PeerShutsDown(c)

Next == ServerStep \/ \E c \in Conns : PeerStep(c)

(* The thread of the loop runs; a peer does what it likes. *)
Spec == Init /\ [][Next]_vars /\ WF_vars(ServerStep)
-----------------------------------------------------------------------------
TypeOK ==
    /\ mode \in Modes
    /\ backlog \in Seq(Conns)
    /\ arm \in [Conns -> Registered \cup {"none", "queued", "closed"}]
    /\ unread \in [Conns -> Nat]
    /\ eof \in [Conns -> BOOLEAN]
    /\ full \in [Conns -> BOOLEAN]
    /\ ready \in Seq(Conns \cup {Listener})
    /\ ovflist \in Seq(Conns \cup {Listener})
    /\ scanning \in BOOLEAN
    /\ txlist \in Seq(Conns \cup {Listener})
    /\ batch \in Seq([fd : Conns \cup {Listener},
                      events : SUBSET {"IN", "OUT", "RDHUP"}])
    /\ sent \in [Conns -> Nat]

InBatch(c) == \E i \in DOMAIN batch : batch[i].fd = c

(* A service that answers or asks for more re-arms every descriptor whose  *)
(* one-shot event it consumed: one that is left disabled belongs to a peer *)
(* that has shut down, and nothing it sent is left behind                  *)
(* (server.cpp:41-50, 70-80).                                              *)
NoneLeftDisarmed ==
    \A c \in Conns : arm[c] = "off" /\ ~InBatch(c) => eof[c] /\ unread[c] = 0

(* An armed descriptor with something to report is on its way to the       *)
(* program: in one of the lists of epoll, or in the batch being worked     *)
(* through; no edge is lost, whatever arrives during a scan or before the  *)
(* handler re-arms, and however small the receive buffer (server.cpp:41).  *)
NoEdgeLost ==
    \A c \in Conns :
        (IF arm[c] \in OneShot THEN Events(c) # {} ELSE arm[c] = "idle" /\ unread[c] > 0)
            => Listed(c) \/ InBatch(c)

(* Everything a peer sends is handed to deal_read, unless the connection   *)
(* waits for the peer to read its answer.                                  *)
InputIsRead ==
    \A c \in Conns :
        unread[c] > 0 /\ arm[c] \in Registered
            ~> unread[c] = 0 \/ full[c] \/ arm[c] = "closed"

(* Every connection is accepted in the end, in either mode: conf/net_data  *)
(* offers both for the same service, and accept() serves one connection an *)
(* event.                                                                  *)
EveryoneIsAccepted == \A c \in Conns : arm[c] = "queued" ~> arm[c] # "queued"

(* Every connection is accepted in the end when the listening socket is    *)
(* level-triggered, although accept() is called once for each event.       *)
LevelAcceptsEveryone ==
    \A c \in Conns : ~is_et_lis /\ arm[c] = "queued" ~> arm[c] # "queued"

(* When the peers of edge-triggered connections fall silent, so does the   *)
(* loop: a peer that shut down is not reported over and over, although     *)
(* nothing ever closes its descriptor.                                     *)
FallsSilent == is_et_conn => <>[](ready = <<>> /\ ~scanning /\ batch = <<>>)
=============================================================================
