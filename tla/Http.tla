-------------------------------- MODULE Http --------------------------------
(***************************************************************************)
(* One connection of HttpServer (src/service/http_server.cpp): the buffer  *)
(* of a request, the parser that works through it line by line, the answer *)
(* that is composed, and the loop around writev that sends it.             *)
(*                                                                         *)
(* A symbol stands for a word of the request (a method, a scheme, a header *)
(* with its value, a unit of the body) or for a character the parser looks *)
(* for: CR, LF, the blank and the slash.  A target is two words: what it   *)
(* begins with, and "page", a rest without a slash, or "/", one with a     *)
(* slash (a host's name before it is left out).  A byte of an answer is    *)
(* <<n, part, i>>: the i-th unit of the head or of the file of the n-th    *)
(* answer.  The handlers run on one thread; they are cut into steps so     *)
(* that the peer acts between two calls of writev.                         *)
(*                                                                         *)
(* Left out: a request that fills the receive buffer, answers that fill    *)
(* the send buffer, and the wording of a request line or a header but for  *)
(* the method and the scheme.                                              *)
(***************************************************************************)
EXTENDS Integers, Sequences

CONSTANTS Requests,    \* what the peer may ask, see RequestType
          Modes,       \* the surroundings of the connection, see ModeType
          BodyLen,     \* Content-length of a request with a body
          HeadLen,     \* length of the status line and headers of an answer
          FileLen,     \* st_size of a page
          MaxRequests  \* bound on the requests of the peer, for TLC

Targets == {"/", "http://", "https://"} \X {"page", "/"}

RequestType == [method : {"GET", "POST", "BREW"}, target : Targets,
                keep : BOOLEAN, body : BOOLEAN]

(* What stat and open find at the target, the size of the kernel's send    *)
(* buffer, and whether a request arrives in pieces.                        *)
ModeType == [site : {"page", "empty", "missing", "forbidden", "directory"},
             room : Nat \ {0}, pieces : BOOLEAN]

ASSUME HttpAssumption ==
    /\ Requests \subseteq RequestType
    /\ \A m \in Modes : m \in ModeType
    /\ BodyLen \in Nat \ {0} /\ HeadLen \in Nat \ {0} /\ FileLen \in Nat \ {0}
    /\ MaxRequests \in Nat

VARIABLES
    mode,      \* one of Modes
    wire,      \* sent by the peer, on its way
    inbox,     \* received by the kernel, not by the program
    recv_buf,  \* EveryTask::_recv_buf
    task,      \* the parser's part of EveryTask
    send_buf,  \* EveryTask::_send_buf up to _write_idx
    iov,       \* EveryTask::_iv, _iv_count, _bytes_to_send, _bytes_have_send
    map,       \* EveryTask::_mmap_file; was _file_stat ever filled in?
    armed,     \* what the descriptor is registered for
    stage,     \* where the program is
    outbox,    \* written, not read by the peer
    asked,     \* history: the requests
    results,   \* history: what process_read made of them
    promised,  \* history: the bytes of the answers that were composed
    got,       \* history: the bytes the peer has read
    faults     \* history: what happened that the code does not cope with

parser == <<recv_buf, task>>
sender == <<send_buf, iov, map>>
history == <<asked, results, promised, got, faults>>
vars == <<mode, wire, inbox, parser, sender, armed, stage, outbox, history>>

-----------------------------------------------------------------------------
(* The bytes of a request *)

Nul == "NUL"
CR == "CR"
LF == "LF"
SP == "SP"
Line(words) == words \o <<CR, LF>>

Body == [i \in 1 .. BodyLen |-> "x"]

Text(r) ==
    Line(<<r.method, SP, r.target[1], r.target[2], SP, "HTTP/1.1">>)
        \o (IF r.keep THEN Line(<<"keep">>) ELSE <<>>)
        \o (IF r.body THEN Line(<<"length">>) ELSE <<>>)
        \o Line(<<>>)
        \o (IF r.body THEN Body ELSE <<>>)

BufSize == 17 + BodyLen

Empty == [i \in 0 .. BufSize |-> Nul]

(* The C string at a position of the buffer: what stands before a NUL. *)
StringAt(buf, at) ==
    LET before == {n \in 1 .. BufSize + 1 - at :
                       \A i \in 1 .. n : buf[at + i - 1] # Nul}
    IN  [i \in before |-> buf[at + i - 1]]

-----------------------------------------------------------------------------
(* init_data *)

NoUrl == -1

Fresh == [check_state |-> "REQUESTLINE", start_line |-> 0, checked_idx |-> 0,
          read_idx |-> 0, line_status |-> "OK", method |-> "GET", url |-> NoUrl,
          content_length |-> 0, linger |-> FALSE]

NoVec == [base |-> "send", at |-> 0, len |-> 0]
NothingToSend == [vec |-> <<NoVec, NoVec>>, count |-> 0, to_send |-> 0, have_sent |-> 0]

(* Mutant: the position of the parser is not reset. *)
ResetParserKeepsPosition(t) == [Fresh EXCEPT !.checked_idx = t.checked_idx,
                                             !.start_line = t.start_line]

ResetParser(t) == Fresh

InitData ==
    /\ task' = ResetParser(task)
    /\ recv_buf' = Empty
    /\ send_buf' = <<>>
    /\ iov' = [iov EXCEPT !.to_send = 0, !.have_sent = 0]

Init ==
    /\ mode \in Modes
    /\ wire = <<>> /\ inbox = <<>> /\ outbox = <<>>
    /\ task = Fresh /\ recv_buf = Empty
    /\ send_buf = <<>> /\ iov = NothingToSend
    /\ map = [base |-> "unset", sized |-> FALSE]
    /\ armed = "in" /\ stage = "wait"
    /\ asked = <<>> /\ results = <<>> /\ promised = <<>> /\ got = <<>>
    /\ faults = {}

-----------------------------------------------------------------------------
(* The peer: it asks again when it has the whole answer, or when there is  *)
(* none to come, and nothing it sent is unread; and it reads what it is    *)
(* sent.  A request comes in two pieces at most.                           *)

Ask ==
    /\ Len(asked) < MaxRequests /\ faults = {} /\ stage # "dead"
    /\ wire = <<>> /\ inbox = <<>>
    /\ Len(results) = Len(asked) /\ got = promised
    /\ \E r \in Requests :
          /\ asked' = Append(asked, r)
          /\ wire' = Text(r)
    /\ UNCHANGED <<mode, inbox, parser, sender, armed, stage, outbox,
                   results, promised, got, faults>>

Deliver ==
    /\ wire # <<>>
    /\ \E n \in 1 .. Len(wire) :
          /\ \/ n = Len(wire)
             \/ mode.pieces /\ wire = Text(asked[Len(asked)])
          /\ inbox' = inbox \o SubSeq(wire, 1, n)
          /\ wire' = SubSeq(wire, n + 1, Len(wire))
    /\ UNCHANGED <<mode, parser, sender, armed, stage, outbox, history>>

PeerReads ==
    /\ outbox # <<>>
    /\ got' = got \o outbox
    /\ outbox' = <<>>
    /\ UNCHANGED <<mode, wire, inbox, parser, sender, armed, stage,
                   asked, results, promised, faults>>

-----------------------------------------------------------------------------
(* receive and deal_read *)

Answered == {"BAD_REQUEST", "FORBIDDEN_REQUEST", "FILE_REQUEST"}

(* The last answer announced the end of the connection; nothing ends it.   *)
Closed ==
    /\ results # <<>>
    /\ LET last == results[Len(results)]
       IN  last.code \in Answered /\ ~last.linger

(* receive clears the buffer and fills it from its beginning, wherever the *)
(* parser is.                                                              *)
Receive ==
    /\ stage = "wait" /\ armed = "in" /\ inbox # <<>>
    /\ recv_buf' = [i \in 0 .. BufSize |-> IF i < Len(inbox) THEN inbox[i + 1] ELSE Nul]
    /\ task' = [task EXCEPT !.read_idx = Len(inbox), !.line_status = "OK"]
    /\ inbox' = <<>>
    /\ armed' = "off" /\ stage' = "parse"
    /\ faults' = faults \cup {f \in {"piece", "closed"} :
                     \/ f = "piece" /\ inbox \o wire # Text(asked[Len(asked)])
                     \/ f = "closed" /\ Closed}
    /\ UNCHANGED <<mode, wire, sender, outbox, asked, results, promised, got>>

(* parse_line: the end of a line becomes two NULs. *)
FoundLine(next, first) ==
    /\ recv_buf' = [recv_buf EXCEPT ![first] = Nul, ![first + 1] = Nul]
    /\ task' = [task EXCEPT !.checked_idx = next, !.line_status = "OK"]
    /\ stage' = "line"
    /\ UNCHANGED armed

(* process_read returns NO_REQUEST, and deal_read waits for more. *)
NoRequest(checked, status) ==
    /\ task' = [task EXCEPT !.checked_idx = checked, !.line_status = status]
    /\ armed' = "in" /\ stage' = "wait"
    /\ UNCHANGED recv_buf

ParseLine ==
    LET ends == {i \in task.checked_idx .. task.read_idx - 1 : recv_buf[i] \in {CR, LF}}
    IN  \/ /\ ends = {}
           /\ NoRequest(IF task.checked_idx < task.read_idx THEN task.read_idx
                        ELSE task.checked_idx, "OPEN")
        \/ \E at \in ends :
              /\ \A i \in ends : at <= i
              /\ CASE recv_buf[at] = CR /\ at + 1 = task.read_idx ->
                        NoRequest(at, "OPEN")
                   [] recv_buf[at] = CR /\ at + 1 # task.read_idx
                                        /\ recv_buf[at + 1] = LF ->
                        FoundLine(at + 2, at)
                   [] recv_buf[at] = LF /\ at > 1 /\ recv_buf[at - 1] = CR ->
                        FoundLine(at + 1, at - 1)
                   [] OTHER -> NoRequest(at, "BAD")

(* The head of the loop of process_read: the body of a request is not      *)
(* split into lines.                                                       *)
NextLine ==
    /\ stage = "parse"
    /\ IF task.check_state = "CONTENT" /\ task.line_status = "OK"
       THEN stage' = "line" /\ UNCHANGED <<parser, armed>>
       ELSE ParseLine
    /\ UNCHANGED <<mode, wire, inbox, sender, outbox, history>>

-----------------------------------------------------------------------------
(* deal_request and process_write *)

(* What strrchr finds: the last word of the string with a slash. *)
LastSlash(text) ==
    LET found == {i \in DOMAIN text :
                      text[i] \in {"/", "http://", "https://", "HTTP/1.1"}}
    IN  IF found = {} THEN "null"
        ELSE text[CHOOSE i \in found : \A j \in found : j <= i]

CodeOf(target) ==
    CASE target # "/" \/ mode.site = "missing" -> "NO_RESOURCE"
      [] target = "/" /\ mode.site = "forbidden" -> "FORBIDDEN_REQUEST"
      [] target = "/" /\ mode.site = "directory" -> "BAD_REQUEST"
      [] OTHER -> "FILE_REQUEST"

FileBytes(n) == [i \in 1 .. FileLen |-> <<n, "file", i>>]

(* A page is sent from where it is mapped; every other answer is appended  *)
(* to the send buffer as a whole.                                          *)
Composed(n, code) ==
    IF code = "FILE_REQUEST" /\ mode.site = "page"
    THEN [i \in 1 .. HeadLen |-> <<n, "head", i>>]
    ELSE [i \in 1 .. HeadLen + 1 |-> <<n, "head", i>>]

(* Mutant: the length of the file is not counted. *)
ToSendHeadOnly(buf, page) == Len(buf)

ToSend(buf, page) == Len(buf) + (IF page THEN FileLen ELSE 0)

(* deal_request came past stat: something was found at the target. *)
StatSucceeded(code, t) ==
    \/ code \in {"FORBIDDEN_REQUEST", "FILE_REQUEST"}
    \/ code = "BAD_REQUEST" /\ t.check_state # "REQUESTLINE"

(* The rest of deal_read once a request is complete, with the parser left  *)
(* as t: the descriptor is armed for writing whether there is an answer or *)
(* not.                                                                    *)
Respond(code, t) ==
    LET n == Len(results) + 1
        page == code = "FILE_REQUEST" /\ mode.site = "page"
        buf == send_buf \o Composed(n, code)
    IN  /\ results' = Append(results, [code |-> code, linger |-> t.linger])
        /\ task' = t
        /\ IF code \in Answered
           THEN /\ send_buf' = buf
                /\ iov' = [iov EXCEPT
                     !.vec = <<[base |-> "send", at |-> 0, len |-> Len(buf)],
                               IF page THEN [base |-> "file", at |-> 0, len |-> FileLen]
                               ELSE @[2]>>,
                     !.count = IF page THEN 2 ELSE 1,
                     !.to_send = ToSend(buf, page)]
                /\ promised' = promised \o Composed(n, code)
                                 \o (IF page THEN FileBytes(n) ELSE <<>>)
           ELSE UNCHANGED <<send_buf, iov, promised>>
        /\ map' = [base |-> IF code = "FILE_REQUEST" THEN "file" ELSE map.base,
                   sized |-> map.sized \/ StatSucceeded(code, t)]
        /\ armed' = "out" /\ stage' = "wait"
        /\ UNCHANGED faults

(* A null pointer is read through. *)
Dies(t) ==
    /\ task' = t /\ stage' = "dead"
    /\ UNCHANGED <<sender, armed, results, promised, faults>>

(* strcat of what strrchr returned: without a slash it is a null pointer,  *)
(* and the process dies.                                                   *)
DealRequest(t, buf) ==
    LET target == LastSlash(StringAt(buf, t.url))
    IN  CASE t.method = "POST" -> Respond("GET_REQUEST", t)
          [] t.method # "POST" /\ (t.url = NoUrl \/ target = "null") -> Dies(t)
          [] OTHER -> Respond(CodeOf(target), t)

-----------------------------------------------------------------------------
(* process_read: one line *)

Continue(t) ==
    /\ task' = t /\ stage' = "parse"
    /\ UNCHANGED <<sender, armed, results, promised, faults>>

Blanked(buf, at) == [i \in 0 .. BufSize |-> IF i \in at THEN Nul ELSE buf[i]]

(* The request lines that come as far as their target.                     *)
WellFormed == {<<method, SP, target[1], target[2], SP, "HTTP/1.1">> :
                   method \in {"GET", "POST"}, target \in Targets}

(* Where the path begins: after a scheme it is the next slash, if any.     *)
UrlAt(at, text) ==
    CASE text[3] = "/" -> at + 2
      [] text[3] # "/" /\ text[4] = "/" -> at + 3
      [] OTHER -> NoUrl

(* Mutant: a target without a path is not refused. *)
NothingRefused(url) == FALSE

(* The test after both schemes were looked for. *)
Refused(url) == url = NoUrl

(* What is left when http:// was taken off is compared with https:// before *)
(* that test: without a path it is a null pointer.                          *)
TargetLine(url, scheme, t) ==
    CASE url = NoUrl /\ scheme = "http://" -> Dies(t)
      [] ~(url = NoUrl /\ scheme = "http://") /\ Refused(url) -> Respond("BAD_REQUEST", t)
      [] OTHER -> Continue([t EXCEPT !.check_state = "HEADER"])

(* parse_request_line writes a NUL over each blank it finds and keeps a    *)
(* pointer behind it, or a null pointer.                                   *)
FirstBlank(text) ==
    {i \in DOMAIN text : text[i] = SP /\ \A j \in 1 .. i - 1 : text[j] # SP}

AfterBlank(at, text) ==
    IF FirstBlank(text) = {} THEN NoUrl ELSE at + CHOOSE i \in FirstBlank(text) : TRUE

(* No other line of the model begins with GET or POST and a blank.         *)
RequestLine(at, t) ==
    LET text == StringAt(recv_buf, at)
        url == UrlAt(at, text)
    IN  IF text \in WellFormed
        THEN /\ recv_buf' = Blanked(recv_buf, {at + 1, at + 4})
             /\ TargetLine(url, text[3], [t EXCEPT !.method = text[1], !.url = url])
        ELSE /\ recv_buf' = Blanked(recv_buf, {at + i - 1 : i \in FirstBlank(text)})
             /\ Respond("BAD_REQUEST", [t EXCEPT !.url = AfterBlank(at, text)])

Header(at, t) ==
    LET text == StringAt(recv_buf, at)
    IN  /\ recv_buf' = recv_buf
        /\ CASE text = <<>> /\ t.content_length # 0 ->
                  Continue([t EXCEPT !.check_state = "CONTENT"])
             [] text = <<>> /\ t.content_length = 0 -> DealRequest(t, recv_buf)
             [] OTHER ->
                  Continue([t EXCEPT !.linger = @ \/ text = <<"keep">>,
                                     !.content_length = IF text = <<"length">>
                                                        THEN BodyLen ELSE @])

(* parse_content; a body that is not complete makes the loop go on with    *)
(* parse_line.                                                             *)
Content(at, t) ==
    IF t.read_idx >= t.content_length + t.checked_idx
    THEN LET buf == Blanked(recv_buf, {at + t.content_length})
         IN  recv_buf' = buf /\ DealRequest(t, buf)
    ELSE recv_buf' = recv_buf /\ Continue([t EXCEPT !.line_status = "OPEN"])

TakeLine ==
    /\ stage = "line"
    /\ LET at == task.start_line
           t == [task EXCEPT !.start_line = task.checked_idx]
       IN  CASE task.check_state = "REQUESTLINE" -> RequestLine(at, t)
             [] task.check_state = "HEADER" -> Header(at, t)
             [] task.check_state = "CONTENT" -> Content(at, t)
    /\ UNCHANGED <<mode, wire, inbox, outbox, asked, got>>

-----------------------------------------------------------------------------
(* deal_write *)

NothingToWrite ==
    /\ stage = "wait" /\ armed = "out" /\ Len(outbox) < mode.room
    /\ iov.to_send = 0
    /\ InitData
    /\ armed' = "in"
    /\ UNCHANGED <<mode, wire, inbox, map, stage, outbox, history>>

StartWriting ==
    /\ stage = "wait" /\ armed = "out" /\ Len(outbox) < mode.room
    /\ iov.to_send # 0
    /\ armed' = "off" /\ stage' = "write"
    /\ UNCHANGED <<mode, wire, inbox, parser, sender, outbox, history>>

Slice(v) ==
    LET bytes == IF v.base = "send" THEN send_buf ELSE FileBytes(Len(results))
    IN  SubSeq(bytes, v.at + 1, v.at + v.len)

(* What writev is asked to send. *)
Gathered == Slice(iov.vec[1]) \o (IF iov.count = 2 THEN Slice(iov.vec[2]) ELSE <<>>)

(* A length that wrapped, or an address before the file. *)
Astray == \/ iov.vec[1].len < 0
          \/ iov.count = 2 /\ iov.vec[2].len > 0 /\ iov.vec[2].at < 0

(* The counts are size_t: what is less than 0 here is a huge number there. *)
AtLeast(a, b) == a < 0 \/ a >= b

(* Mutant: the rest of the head is counted, but sent from its beginning. *)
RestFromStart(n) ==
    LET have == iov.have_sent + n
        head == iov.vec[1]
    IN  IF AtLeast(have, head.len)
        THEN <<[head EXCEPT !.len = 0],
               [base |-> "file", at |-> have - Len(send_buf), len |-> iov.to_send - n]>>
        ELSE <<[head EXCEPT !.len = head.len - have], iov.vec[2]>>

(* The entries of _iv after writev has returned n. *)
Rest(n) ==
    LET have == iov.have_sent + n
        head == iov.vec[1]
    IN  IF AtLeast(have, head.len)
        THEN <<[head EXCEPT !.len = 0],
               [base |-> "file", at |-> have - Len(send_buf), len |-> iov.to_send - n]>>
        ELSE <<[head EXCEPT !.at = have, !.len = head.len - have], iov.vec[2]>>

Sent(n) == [iov EXCEPT !.vec = Rest(n), !.to_send = @ - n, !.have_sent = @ + n]

(* munmap is given _mmap_file, which nothing has set before the first page, *)
(* and the size that stat found, if it ever did: together they may unmap    *)
(* what the process needs.  A null pointer with the size of a file is       *)
(* harmless.                                                                *)
WildUnmap == map.base = "unset" \/ (map.base = "null" /\ ~map.sized)

Linger(n) ==
    IF task.linger
    THEN /\ task' = ResetParser(task) /\ recv_buf' = Empty /\ send_buf' = <<>>
         /\ iov' = [Sent(n) EXCEPT !.to_send = 0, !.have_sent = 0]
    ELSE iov' = Sent(n) /\ UNCHANGED <<parser, send_buf>>

(* The answer is out.                                                      *)
Finished(n) ==
    \/ /\ map' = [map EXCEPT !.base = "null"] /\ armed' = "in" /\ stage' = "wait"
       /\ Linger(n)
    \/ /\ WildUnmap /\ stage' = "dead"
       /\ iov' = Sent(n) /\ UNCHANGED <<parser, send_buf, map, armed>>

CutTwice(n) == iov.have_sent > 0 /\ iov.have_sent + n < Len(send_buf)

Writev ==
    /\ stage = "write" /\ ~Astray /\ Gathered # <<>> /\ Len(outbox) < mode.room
    /\ LET free == mode.room - Len(outbox)
           n == IF Len(Gathered) < free THEN Len(Gathered) ELSE free
       IN  /\ outbox' = outbox \o SubSeq(Gathered, 1, n)
           /\ IF iov.to_send = n
              THEN Finished(n) /\ UNCHANGED faults
              ELSE /\ iov' = Sent(n)
                   /\ faults' = IF CutTwice(n) THEN faults \cup {"cut_twice"} ELSE faults
                   /\ UNCHANGED <<parser, send_buf, map, armed, stage>>
    /\ UNCHANGED <<mode, wire, inbox, asked, results, promised, got>>

(* writev returns -1; as a size_t it is not less than 0, and is counted.   *)
WouldBlock ==
    /\ stage = "write" /\ ~Astray /\ Gathered # <<>> /\ Len(outbox) = mode.room
    /\ iov' = Sent(-1)
    /\ faults' = faults \cup {"would_block"}
    /\ UNCHANGED <<mode, wire, inbox, parser, send_buf, map, armed, stage, outbox,
                   asked, results, promised, got>>

(* Nothing is left in the entries although the count says so: writev       *)
(* returns 0, for ever, and the loop does not end.  With entries that are  *)
(* astray nobody can say what is sent; the model stops there.              *)
GoesAstray ==
    /\ stage = "write" /\ IF Astray THEN TRUE ELSE Gathered = <<>>
    /\ stage' = "astray"
    /\ UNCHANGED <<mode, wire, inbox, parser, sender, armed, outbox, history>>

-----------------------------------------------------------------------------
ServerStep == Receive \/ NextLine \/ TakeLine \/ NothingToWrite \/ StartWriting
              \/ Writev \/ WouldBlock \/ GoesAstray

Next == Ask \/ Deliver \/ PeerReads \/ ServerStep

(* The program goes on, the network delivers and the peer reads; it need   *)
(* not ask.                                                                *)
Spec == /\ Init /\ [][Next]_vars
        /\ WF_vars(ServerStep) /\ WF_vars(Deliver) /\ WF_vars(PeerReads)

-----------------------------------------------------------------------------
(* Properties *)

Symbols == {"GET", "POST", "BREW", SP, "/", "http://", "https://", "page", "HTTP/1.1",
            "keep", "length", "x", CR, LF, Nul}

TypeOK ==
    /\ task \in [check_state : {"REQUESTLINE", "HEADER", "CONTENT"},
                 start_line : 0 .. BufSize, checked_idx : 0 .. BufSize,
                 read_idx : 0 .. BufSize, line_status : {"OK", "OPEN", "BAD"},
                 method : {"GET", "POST"}, url : NoUrl .. BufSize,
                 content_length : {0, BodyLen}, linger : BOOLEAN]
    /\ recv_buf \in [0 .. BufSize -> Symbols]
    /\ armed \in {"in", "out", "off"}
    /\ stage \in {"wait", "parse", "line", "write", "dead", "astray"}
    /\ map \in [base : {"unset", "null", "file"}, sized : BOOLEAN]
    /\ faults \subseteq {"piece", "closed", "would_block", "cut_twice"}

(* What a request is, whatever the parser does; one with http:// and no    *)
(* path is the end of the process.                                         *)
NoPath(r, scheme) == r.method # "BREW" /\ r.target = <<scheme, "page">>

Meaning(r) ==
    [code |-> CASE r.method = "BREW" \/ NoPath(r, "https://") -> "BAD_REQUEST"
                [] NoPath(r, "http://") -> "NO_RESULT"
                [] r.method = "POST" /\ ~NoPath(r, "http://") /\ ~NoPath(r, "https://") ->
                       "GET_REQUEST"
                [] OTHER -> CodeOf("/"),
     linger |-> r.keep /\ r.method # "BREW" /\ ~NoPath(r, "https://")]

(* Every request is recognised as what it is, once and in order, with its  *)
(* method, its "Connection:" and its body told from the next request,      *)
(* unless a request comes in pieces or after an answer that ends the       *)
(* connection (receive, http_server.cpp:33): the state that init_data      *)
(* leaves is the one the next request needs.                               *)
ParsedAsSent ==
    faults \cap {"piece", "closed"} = {} =>
        /\ Len(results) <= Len(asked)
        /\ \A i \in 1 .. Len(results) : results[i] = Meaning(asked[i])

(* What the peer has read, what is on the way and what _iv describes are   *)
(* together the answers that were composed, every byte once and in order,  *)
(* wherever writev stopped, unless it stopped twice inside one head or     *)
(* found no room at all (deal_write, http_server.cpp:97-120).              *)
StreamIsExact ==
    faults = {} =>
        got \o outbox \o (IF iov.to_send = 0 THEN <<>> ELSE Gathered) = promised

(* The process dies in three ways at most: a target http:// without a path *)
(* makes a null pointer that is compared before it is tested               *)
(* (http_server.cpp:279-290); an answer that is not a page is finished     *)
(* before any page was mapped, and munmap is given what nothing has set    *)
(* (http_server.cpp:123); or a request comes in pieces or after an answer  *)
(* that ends the connection.  No other whole request of a connection kept  *)
(* alive kills it (the null pointer of strrchr, http_server.cpp:360).      *)
Survives ==
    stage = "dead" =>
        \/ \E i \in 1 .. Len(asked) : NoPath(asked[i], "http://")
        \/ /\ \E i \in 1 .. Len(results) : results[i].code \in Answered
           /\ \A i \in 1 .. Len(results) : results[i].code # "FILE_REQUEST"
        \/ faults \cap {"piece", "closed"} # {}

(* A request that has an answer gets it in full, and the server neither    *)
(* waits for more of it nor keeps the answer, if it comes whole and before *)
(* an answer that ends the connection; an answer longer than the peer's    *)
(* side has room for may never end: when writev finds no room at all, or   *)
(* stops twice inside the head, the loop around it goes on for ever        *)
(* (http_server.cpp:97, 119).  The process may die when the answer is out. *)
(* A POST is never answered, a missing page is not either, and a target    *)
(* http:// without a path kills the process before.                        *)
AnsweredInFull ==
    \A i \in 1 .. MaxRequests :
        Len(asked) = i /\ Meaning(asked[i]).code \in Answered
            ~> \/ Len(results) >= i /\ got = promised
               \/ faults \cap {"piece", "closed"} # {}
               \/ /\ mode.room < HeadLen + FileLen
                  /\ faults \cap {"would_block", "cut_twice"} # {}

(* http_server.cpp:61 says of a request that is not complete: "request     *)
(* incomplete, go on reading".  What it reads then makes it complete: the  *)
(* request is recognised and answered.                                     *)
ReadOnUntilComplete ==
    \A i \in 1 .. MaxRequests : Len(asked) = i ~> Len(results) >= i
=============================================================================
