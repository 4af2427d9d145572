-------------------------------- MODULE Log --------------------------------
(***************************************************************************)
(* The log of src/common/log.cpp: LOG_INFO and LOG_ERROR call write_log    *)
(* and then flush; in asynchronous mode a writer thread takes the lines    *)
(* from a queue.  What a thread does under _mutex, and each operation of   *)
(* the queue, is one step.  The queue is the one of BlockDeque, where it   *)
(* is shown that a thread that could go on is woken: waiting is a guard    *)
(* here.                                                                   *)
(*                                                                         *)
(* A line is who wrote it, its number among that thread's lines, and the   *)
(* day of its time stamp.  stdio is taken to write its buffer out only on  *)
(* fflush and fclose; that it may do so before, when the buffer is full,   *)
(* makes lines appear earlier.                                             *)
(***************************************************************************)
EXTENDS Naturals, Sequences, FiniteSets

CONSTANTS Callers,      \* the threads that log
          Modes,        \* the settings of _is_async
          SplitLines,   \* _split_lines
          Capacity,     \* log.max_queue_size, the capacity of _log_queue
          MaxLines,     \* bound on the lines of one thread, for TLC
          MaxDay        \* bound on the days that pass, for TLC

ASSUME LogAssumption ==
    /\ IsFiniteSet(Callers)
    /\ Modes \subseteq BOOLEAN
    /\ SplitLines \in Nat \ {0} /\ Capacity \in Nat \ {0}
    /\ MaxLines \in Nat /\ MaxDay \in Nat \ {0}

VARIABLES
    is_async,    \* _is_async
    today,       \* _today
    count,       \* _count
    fp,          \* _fp: the day and the number in the name of the open file
    log_queue,   \* _log_queue
    pc,          \* where each caller is
    line,        \* the line each caller is writing, or has written last
    single_log,  \* the line the writer thread has taken from the queue
    unflushed,   \* the lines in the buffer of the open file
    written,     \* history: every line put into a file, in that order
    now          \* the day it is

vars == <<is_async, today, count, fp, log_queue, pc, line, single_log,
          unflushed, written, now>>

Line(c, n, d) == [by |-> c, no |-> n, day |-> d]

Init ==
    /\ is_async \in Modes
    /\ now = 1
    /\ today = 1
    /\ count = 0
    /\ fp = <<1, 0>>
    /\ log_queue = <<>>
    /\ pc = [c \in Callers |-> "idle"]
    /\ line = [c \in Callers |-> Line(c, 0, 1)]
    /\ single_log = {}
    /\ unflushed = {}
    /\ written = <<>>

Go(c, label) == pc' = [pc EXCEPT ![c] = label]

(* fputs; via says who made the call *)
Fputs(l, via) ==
    /\ written' = Append(written, [line |-> l, file |-> fp, via |-> via])
    /\ unflushed' = unflushed \cup {l}

-----------------------------------------------------------------------------
(* write_log *)

(* The time is read before the mutex is taken. *)
Gettimeofday(c) ==
    /\ pc[c] = "idle"
    /\ line[c].no < MaxLines
    /\ line' = [line EXCEPT ![c] = Line(c, @.no + 1, now)]
    /\ Go(c, "count")
    /\ UNCHANGED <<is_async, today, count, fp, log_queue, single_log, unflushed,
                   written, now>>

(* Mutants: the count goes on at midnight; a file is never split.          *)
SwitchesKeepingCount(d) ==
    /\ today' = d
    /\ count' = count + 1
    /\ fp' = IF today # d THEN <<d, 0>>
             ELSE IF count' % SplitLines = 0 THEN <<d, count' \div SplitLines>> ELSE fp

SwitchesByDay(d) ==
    /\ today' = d
    /\ count' = IF today # d THEN 0 ELSE count + 1
    /\ fp' = IF today # d THEN <<d, 0>> ELSE fp

(* The count, and the file that follows from it and from the day d. *)
Switches(d) ==
    /\ today' = d
    /\ count' = IF today # d THEN 0 ELSE count + 1
    /\ fp' = IF today # d \/ count' % SplitLines = 0
             THEN <<d, count' \div SplitLines>> ELSE fp

(* fclose writes out the buffer of the old file. *)
CountAndSwitch(c) ==
    /\ pc[c] = "count"
    /\ Switches(line[c].day)
    /\ unflushed' = IF fp' # fp THEN {} ELSE unflushed
    /\ Go(c, "route")
    /\ UNCHANGED <<is_async, log_queue, line, single_log, written, now>>

HasRoom == Len(log_queue) < Capacity

(* Mutant: with a full queue the line is given up. *)
RouteOrDrop(c) ==
    /\ pc[c] = "route"
    /\ Go(c, IF ~is_async THEN "write" ELSE IF HasRoom THEN "push" ELSE "flush")
    /\ UNCHANGED <<is_async, today, count, fp, log_queue, line, single_log,
                   unflushed, written, now>>

(* The line is put together, and the queue is asked whether it is full. *)
Route(c) ==
    /\ pc[c] = "route"
    /\ Go(c, IF is_async /\ HasRoom THEN "push" ELSE "write")
    /\ UNCHANGED <<is_async, today, count, fp, log_queue, line, single_log,
                   unflushed, written, now>>

PushBack(c) ==
    /\ pc[c] = "push"
    /\ HasRoom
    /\ log_queue' = Append(log_queue, line[c])
    /\ Go(c, "flush")
    /\ UNCHANGED <<is_async, today, count, fp, line, single_log, unflushed,
                   written, now>>

WriteDirectly(c) ==
    /\ pc[c] = "write"
    /\ Fputs(line[c], "caller")
    /\ Go(c, "flush")
    /\ UNCHANGED <<is_async, today, count, fp, log_queue, line, single_log, now>>

(* flush, the second call of LOG_INFO *)
Flush(c) ==
    /\ pc[c] = "flush"
    /\ unflushed' = {}
    /\ Go(c, "idle")
    /\ UNCHANGED <<is_async, today, count, fp, log_queue, line, single_log,
                   written, now>>

-----------------------------------------------------------------------------
(* async_write_log, and the clock *)

(* Mutants: the newest line is taken; the writer waits for a full queue.   *)
PopNewest ==
    /\ single_log = {}
    /\ log_queue # <<>>
    /\ single_log' = {log_queue[Len(log_queue)]}
    /\ log_queue' = SubSeq(log_queue, 1, Len(log_queue) - 1)
    /\ UNCHANGED <<is_async, today, count, fp, pc, line, unflushed, written, now>>

PopWhenFull ==
    /\ single_log = {}
    /\ ~HasRoom
    /\ single_log' = {Head(log_queue)}
    /\ log_queue' = Tail(log_queue)
    /\ UNCHANGED <<is_async, today, count, fp, pc, line, unflushed, written, now>>

Pop ==
    /\ single_log = {}
    /\ log_queue # <<>>
    /\ single_log' = {Head(log_queue)}
    /\ log_queue' = Tail(log_queue)
    /\ UNCHANGED <<is_async, today, count, fp, pc, line, unflushed, written, now>>

WriteQueued ==
    /\ \E l \in single_log : Fputs(l, "writer")
    /\ single_log' = {}
    /\ UNCHANGED <<is_async, today, count, fp, log_queue, pc, line, now>>

Midnight ==
    /\ now < MaxDay
    /\ now' = now + 1
    /\ UNCHANGED <<is_async, today, count, fp, log_queue, pc, line, single_log,
                   unflushed, written>>

-----------------------------------------------------------------------------
(* What a caller does once it has begun. *)
CallerStep(c) ==
    CountAndSwitch(c) \/ Route(c) \/ PushBack(c) \/ WriteDirectly(c) \/ Flush(c)

WriterStep == Pop \/ WriteQueued

Next ==
    \/ \E c \in Callers : Gettimeofday(c) \/ CallerStep(c)
    \/ WriterStep
    \/ Midnight

(* The threads run; nobody has to log, and it need not become midnight. *)
Fairness == WF_vars(WriterStep) /\ \A c \in Callers : WF_vars(CallerStep(c))

Spec == Init /\ [][Next]_vars /\ Fairness
-----------------------------------------------------------------------------
Lines == [by : Callers, no : Nat, day : Nat]
Files == Nat \X Nat

TypeOK ==
    /\ is_async \in Modes
    /\ today \in Nat /\ count \in Nat /\ now \in Nat
    /\ fp \in Files
    /\ log_queue \in Seq(Lines) /\ Len(log_queue) <= Capacity
    /\ pc \in [Callers -> {"idle", "count", "route", "push", "write", "flush"}]
    /\ line \in [Callers -> Lines]
    /\ single_log \subseteq Lines /\ Cardinality(single_log) <= 1
    /\ unflushed \subseteq Lines
    /\ written \in Seq([line : Lines, file : Files, via : {"caller", "writer"}])

(* The name of the open file follows from the day and the count, however   *)
(* often a late thread turns the day back (log.cpp:104-125).               *)
FileMatchesCount == fp = <<today, count \div SplitLines>>

(* The lines of one thread stay in order, but for one case: a line that    *)
(* found the queue full and was written by its caller overtakes lines      *)
(* that the thread queued before (log.cpp:149-160).                        *)
Overtaken(i, j) ==
    /\ i < j
    /\ written[i].line.by = written[j].line.by
    /\ written[i].line.no > written[j].line.no

OrderKept ==
    \A i, j \in DOMAIN written :
        Overtaken(i, j) => written[i].via = "caller" /\ written[j].via = "writer"

(* Every line of a thread is written once, or still is on its way: with    *)
(* the thread, in the queue or with the writer, in one place only.         *)
Pending(c) ==
    {n \in 1 .. line[c].no :
        \/ n = line[c].no /\ pc[c] \notin {"idle", "flush"}
        \/ \E i \in DOMAIN log_queue : log_queue[i].by = c /\ log_queue[i].no = n
        \/ \E l \in single_log : l.by = c /\ l.no = n}

WrittenBy(c) == {i \in DOMAIN written : written[i].line.by = c}

NoLineLost ==
    \A c \in Callers :
        /\ {written[i].line.no : i \in WrittenBy(c)} = (1 .. line[c].no) \ Pending(c)
        /\ Cardinality(WrittenBy(c)) + Cardinality(Pending(c)) = line[c].no

(* How far a file may outgrow _split_lines without a queue: a line is      *)
(* counted in one critical section and written in another, so that those   *)
(* the other threads had counted when the file was opened still go into it *)
(* (log.cpp:101-125, 155-157).  After midnight a late thread may open an   *)
(* old file again.                                                         *)
FileBounded ==
    ~is_async /\ now = 1 =>
        \A f \in {written[i].file : i \in DOMAIN written} :
            Cardinality({i \in DOMAIN written : written[i].file = f})
                <= SplitLines + Cardinality(Callers) - 1

(* Every call returns, and its line is written in the end: a thread whose  *)
(* place in the queue was taken between full() and push_back waits, but    *)
(* not for ever.                                                           *)
IsWritten(c, n) ==
    \E i \in DOMAIN written : written[i].line.by = c /\ written[i].line.no = n

EveryLineIsWritten ==
    \A c \in Callers, n \in 1 .. MaxLines :
        line[c].no = n ~> IsWritten(c, n) /\ (line[c].no = n => pc[c] = "idle")

(* Every line appears in the file in the end, since LOG_INFO calls flush   *)
(* after each one.                                                         *)
EveryLineAppears ==
    \A c \in Callers, n \in 1 .. MaxLines :
        line[c].no = n ~> IsWritten(c, n) /\ (\A l \in unflushed : <<l.by, l.no>> # <<c, n>>)
=============================================================================
