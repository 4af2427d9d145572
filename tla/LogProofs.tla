----------------------------- MODULE LogProofs -----------------------------
(***************************************************************************)
(* The log writes every line once, keeps the order of a thread's lines but *)
(* for those that found the queue full, and always has the file open that  *)
(* its day and count call for: for any number of threads, any capacity of  *)
(* the queue and any number of lines in a file.                            *)
(***************************************************************************)
EXTENDS Log, FiniteSetTheorems, TLAPS

-----------------------------------------------------------------------------
(* The lines of the log are divided by the number of lines in a file.      *)

(* What the two operators are. *)
LEMMA DivMod ==
    ASSUME NEW n \in Nat, NEW s \in Nat \ {0}
    PROVE  /\ n = s * (n \div s) + (n % s)
           /\ n % s \in 0 .. s - 1
           /\ n \div s \in Int
OBVIOUS

(* A multiple of s below another is below it by at least s.                *)
LEMMA NextMultiple ==
    ASSUME NEW s \in Nat \ {0}, NEW q \in Int, NEW p \in Int, q < p
    PROVE  s * q + s <= s * p
<1>1. p - q - 1 \in Nat
    OBVIOUS
<1>2. PICK k \in Nat : p = q + 1 + k
    BY <1>1
<1>3. s * p = s * q + s + s * k
    BY <1>2
<1>4. s * k >= 0
    BY <1>2
<1>5. QED
    BY <1>3, <1>4

(* Quotient and remainder are unique. *)
LEMMA DivModUnique ==
    ASSUME NEW n \in Nat, NEW s \in Nat \ {0}, NEW q \in Int, NEW r \in 0 .. s - 1,
           n = s * q + r
    PROVE  n \div s = q /\ n % s = r
<1> DEFINE p == n \div s
           t == n % s
<1>1. p \in Int /\ t \in 0 .. s - 1 /\ n = s * p + t
    BY DivMod
<1>2. (n \div s = q /\ n % s = r) <=> (p = q /\ t = r)
    OBVIOUS
<1> HIDE DEF p, t
<1>3. s * p \in Int /\ s * q \in Int
    BY <1>1
<1>4. ~(p < q)
    <2>1. p < q => s * p + s <= s * q
        BY <1>1, NextMultiple
    <2>2. QED
        BY <2>1, <1>1, <1>3
<1>5. ~(q < p)
    <2>1. q < p => s * q + s <= s * p
        BY <1>1, NextMultiple
    <2>2. QED
        BY <2>1, <1>1, <1>3
<1>6. QED
    BY <1>1, <1>2, <1>4, <1>5

LEMMA DivIsNat ==
    ASSUME NEW n \in Nat, NEW s \in Nat \ {0}
    PROVE  n \div s \in Nat
<1> DEFINE q == n \div s
           r == n % s
<1>1. q \in Int /\ r \in 0 .. s - 1 /\ n = s * q + r
    BY DivMod
<1> HIDE DEF q, r
<1>2. q < 0 => s * q <= -s
    BY <1>1
<1>3. q \in Nat
    BY <1>1, <1>2
<1>4. QED
    BY <1>3 DEF q

(* The quotient changes only where the remainder is zero.                  *)
LEMMA DivOfNext ==
    ASSUME NEW n \in Nat, NEW s \in Nat \ {0}, (n + 1) % s # 0
    PROVE  (n + 1) \div s = n \div s
<1> DEFINE q == n \div s
           r == n % s
<1>1. q \in Int /\ r \in 0 .. s - 1 /\ n = s * q + r
    BY DivMod
<1> HIDE DEF q, r
<1>2. r + 1 # s
    <2>1. SUFFICES ASSUME r + 1 = s PROVE FALSE
        OBVIOUS
    <2>2. n + 1 = s * (q + 1) + 0
        BY <1>1, <2>1
    <2>3. q + 1 \in Int /\ 0 \in 0 .. s - 1 /\ n + 1 \in Nat
        BY <1>1
    <2>4. (n + 1) % s = 0
        BY <2>2, <2>3, DivModUnique
    <2>5. QED
        BY <2>4
<1>3. r + 1 \in 0 .. s - 1 /\ n + 1 = s * q + (r + 1) /\ n + 1 \in Nat
    BY <1>1, <1>2
<1>4. (n + 1) \div s = q
    BY <1>1, <1>3, DivModUnique
<1>5. QED
    BY <1>4 DEF q

(* Where the remainder is zero the quotient has gone up by one.            *)
LEMMA DivOfMultiple ==
    ASSUME NEW n \in Nat, NEW s \in Nat \ {0}, (n + 1) % s = 0
    PROVE  (n + 1) \div s = (n \div s) + 1
<1> DEFINE q == n \div s
           r == n % s
<1>1. q \in Int /\ r \in 0 .. s - 1 /\ n = s * q + r
    BY DivMod
<1> HIDE DEF q, r
<1>2. r + 1 = s
    <2>1. SUFFICES ASSUME r + 1 # s PROVE FALSE
        OBVIOUS
    <2>2. r + 1 \in 0 .. s - 1 /\ n + 1 = s * q + (r + 1) /\ n + 1 \in Nat
        BY <1>1, <2>1
    <2>3. (n + 1) % s = r + 1
        BY <1>1, <2>2, DivModUnique
    <2>4. QED
        BY <1>1, <2>3
<1>3. n + 1 = s * (q + 1) + 0
    BY <1>1, <1>2
<1>4. q + 1 \in Int /\ 0 \in 0 .. s - 1 /\ n + 1 \in Nat
    BY <1>1
<1>5. (n + 1) \div s = q + 1
    BY <1>3, <1>4, DivModUnique
<1>6. QED
    BY <1>5 DEF q

(* The remainder goes up by one, and from the last one back to zero.       *)
LEMMA ModOfNext ==
    ASSUME NEW n \in Nat, NEW s \in Nat \ {0}
    PROVE  (n + 1) % s = IF (n % s) + 1 = s THEN 0 ELSE (n % s) + 1
<1> DEFINE q == n \div s
           r == n % s
<1>1. q \in Int /\ r \in 0 .. s - 1 /\ n = s * q + r
    BY DivMod
<1> HIDE DEF q, r
<1>2. CASE r + 1 = s
    <2>1. n + 1 = s * (q + 1) + 0
        BY <1>1, <1>2
    <2>2. q + 1 \in Int /\ 0 \in 0 .. s - 1 /\ n + 1 \in Nat
        BY <1>1
    <2>3. (n + 1) % s = 0
        BY <2>1, <2>2, DivModUnique
    <2>4. QED
        BY <1>2, <2>3 DEF r
<1>3. CASE r + 1 # s
    <2>1. r + 1 \in 0 .. s - 1 /\ n + 1 = s * q + (r + 1) /\ n + 1 \in Nat
        BY <1>1, <1>3
    <2>2. (n + 1) % s = r + 1
        BY <1>1, <2>1, DivModUnique
    <2>3. QED
        BY <1>3, <2>2 DEF r
<1>4. QED
    BY <1>2, <1>3

LEMMA DivOfZero == ASSUME NEW s \in Nat \ {0} PROVE 0 \div s = 0
<1>1. 0 = s * 0 + 0 /\ 0 \in 0 .. s - 1
    OBVIOUS
<1>2. QED
    BY <1>1, DivModUnique

-----------------------------------------------------------------------------
Writing == {"count", "route", "push", "write"}

(* A line that has left its thread c is not ahead of the one c is at.      *)
NotAhead(c, l) ==
    l.by = c => /\ l.no \in 1 .. line[c].no
                /\ pc[c] \in Writing => l.no < line[c].no

(* l was logged before m, if the two are of one thread.                    *)
Earlier(l, m) == l.by = m.by => l.no < m.no

LinesOwned ==
    \A c \in Callers : line[c].by = c /\ (pc[c] \in Writing => line[c].no >= 1)

NoneAhead ==
    \A c \in Callers :
        /\ \A i \in DOMAIN log_queue : NotAhead(c, log_queue[i])
        /\ \A l \in single_log : NotAhead(c, l)
        /\ \A i \in DOMAIN written : NotAhead(c, written[i].line)

QueueInOrder ==
    \A i, j \in DOMAIN log_queue : i < j => Earlier(log_queue[i], log_queue[j])

(* The line the writer has taken comes before those in the queue.          *)
TakenFirst ==
    /\ \A l, m \in single_log : l = m
    /\ \A l \in single_log, i \in DOMAIN log_queue : Earlier(l, log_queue[i])

(* What the writer has written comes before what it will write.            *)
WrittenFirst ==
    \A k \in DOMAIN written : written[k].via = "writer" =>
        /\ \A i \in DOMAIN log_queue : Earlier(written[k].line, log_queue[i])
        /\ \A l \in single_log : Earlier(written[k].line, l)

Order == LinesOwned /\ NoneAhead /\ QueueInOrder /\ TakenFirst /\ WrittenFirst

-----------------------------------------------------------------------------
LEMMA TypeInit == Init => TypeOK
<1> SUFFICES ASSUME Init PROVE TypeOK
    OBVIOUS
<1>1. <<>> \in Seq(Lines) /\ Len(<<>>) = 0
    OBVIOUS
<1>2. <<>> \in Seq([line : Lines, file : Files, via : {"caller", "writer"}])
    OBVIOUS
<1>3. \A c \in Callers : Line(c, 0, 1) \in Lines
    BY DEF Line, Lines
<1>4. Cardinality({}) <= 1 /\ Capacity \in Nat
    BY FS_EmptySet, LogAssumption
<1>5. fp \in Files
    BY DEF Init, Files
<1>6. line \in [Callers -> Lines]
    BY <1>3 DEF Init
<1>7. QED
    BY <1>1, <1>2, <1>4, <1>5, <1>6 DEF Init, TypeOK

(* A new day's file, or the next one of the day, has a name. *)
LEMMA SwitchTypes ==
    ASSUME TypeOK, NEW d \in Nat, Switches(d)
    PROVE  today' \in Nat /\ count' \in Nat /\ fp' \in Files
<1>1. count' \in Nat /\ today' \in Nat
    BY DEF TypeOK, Switches
<1>2. SplitLines \in Nat \ {0}
    BY LogAssumption
<1>3. count' \div SplitLines \in Nat
    BY <1>1, <1>2, DivIsNat
<1>4. <<d, count' \div SplitLines>> \in Files /\ fp \in Files
    BY <1>3 DEF TypeOK, Files
<1>5. fp' = <<d, count' \div SplitLines>> \/ fp' = fp
    BY DEF Switches
<1>6. QED
    BY <1>1, <1>4, <1>5

(* A line that is put into the file. *)
LEMMA FputsTypes ==
    ASSUME TypeOK, NEW l \in Lines, NEW via \in {"caller", "writer"}, Fputs(l, via)
    PROVE  /\ written' \in Seq([line : Lines, file : Files, via : {"caller", "writer"}])
           /\ written' = Append(written, [line |-> l, file |-> fp, via |-> via])
           /\ Len(written') = Len(written) + 1
           /\ unflushed' \subseteq Lines
<1> DEFINE R == [line : Lines, file : Files, via : {"caller", "writer"}]
           r == [line |-> l, file |-> fp, via |-> via]
<1>1. r \in R /\ written \in Seq(R)
    BY DEF TypeOK
<1>2. Append(written, r) \in Seq(R) /\ Len(Append(written, r)) = Len(written) + 1
    <2> HIDE DEF R, r
    <2>1. QED
        BY <1>1
<1>3. QED
    BY <1>2 DEF Fputs, TypeOK

LEMMA TypeStep == TypeOK /\ [Next]_vars => TypeOK'
<1> SUFFICES ASSUME TypeOK, [Next]_vars
             PROVE  TypeOK'
    OBVIOUS
<1> USE DEF Go
<1>1. ASSUME NEW c \in Callers, Gettimeofday(c)
      PROVE  TypeOK'
    <2>1. Line(c, line[c].no + 1, now) \in Lines
        BY DEF TypeOK, Line, Lines
    <2>2. line' \in [Callers -> Lines]
        BY <1>1, <2>1 DEF Gettimeofday, TypeOK
    <2>3. QED
        BY <1>1, <2>2 DEF Gettimeofday, TypeOK
<1>2. ASSUME NEW c \in Callers, CountAndSwitch(c)
      PROVE  TypeOK'
    <2>1. line[c].day \in Nat
        BY DEF TypeOK, Lines
    <2>2. today' \in Nat /\ count' \in Nat /\ fp' \in Files
        BY <1>2, <2>1, SwitchTypes DEF CountAndSwitch
    <2>3. QED
        BY <1>2, <2>2 DEF CountAndSwitch, TypeOK
<1>3. ASSUME NEW c \in Callers, Route(c)
      PROVE  TypeOK'
    BY <1>3 DEF Route, TypeOK
<1>4. ASSUME NEW c \in Callers, PushBack(c)
      PROVE  TypeOK'
    <2>1. line[c] \in Lines /\ log_queue \in Seq(Lines) /\ Capacity \in Nat
        BY LogAssumption DEF TypeOK
    <2>2. /\ Append(log_queue, line[c]) \in Seq(Lines)
          /\ Len(Append(log_queue, line[c])) = Len(log_queue) + 1
        BY <2>1
    <2>3. QED
        BY <1>4, <2>1, <2>2 DEF PushBack, HasRoom, TypeOK
<1>5. ASSUME NEW c \in Callers, WriteDirectly(c)
      PROVE  TypeOK'
    <2>1. line[c] \in Lines
        BY DEF TypeOK
    <2>2. QED
        BY <1>5, <2>1, FputsTypes DEF WriteDirectly, TypeOK
<1>6. ASSUME NEW c \in Callers, Flush(c)
      PROVE  TypeOK'
    BY <1>6 DEF Flush, TypeOK
<1>7. ASSUME Pop
      PROVE  TypeOK'
    <2>1. log_queue \in Seq(Lines) /\ log_queue # <<>> /\ Capacity \in Nat
        BY <1>7, LogAssumption DEF Pop, TypeOK
    <2>2. /\ Head(log_queue) \in Lines /\ Tail(log_queue) \in Seq(Lines)
          /\ Len(Tail(log_queue)) = Len(log_queue) - 1
        BY <2>1
    <2>3. Cardinality({Head(log_queue)}) = 1
        BY FS_Singleton
    <2>4. QED
        BY <1>7, <2>1, <2>2, <2>3 DEF Pop, TypeOK
<1>8. ASSUME WriteQueued
      PROVE  TypeOK'
    <2>1. PICK l \in single_log : Fputs(l, "writer")
        BY <1>8 DEF WriteQueued
    <2>2. l \in Lines
        BY DEF TypeOK
    <2>3. Cardinality({}) <= 1
        BY FS_EmptySet
    <2>4. QED
        BY <1>8, <2>1, <2>2, <2>3, FputsTypes DEF WriteQueued, TypeOK
<1>9. ASSUME Midnight
      PROVE  TypeOK'
    BY <1>9 DEF Midnight, TypeOK
<1>10. ASSUME UNCHANGED vars
       PROVE  TypeOK'
    BY <1>10 DEF vars, TypeOK
<1>11. QED
    BY <1>1, <1>2, <1>3, <1>4, <1>5, <1>6, <1>7, <1>8, <1>9, <1>10
       DEF Next, CallerStep, WriterStep

(* The variables of the log keep their types. *)
THEOREM TypeCorrect == Spec => []TypeOK
<1>1. QED
    BY TypeInit, TypeStep, PTL DEF Spec

-----------------------------------------------------------------------------
LEMMA FileInit == Init => FileMatchesCount
BY DivOfZero, LogAssumption DEF Init, FileMatchesCount

LEMMA FileStep == TypeOK /\ FileMatchesCount /\ [Next]_vars => FileMatchesCount'
<1> SUFFICES ASSUME TypeOK, FileMatchesCount, [Next]_vars
             PROVE  FileMatchesCount'
    OBVIOUS
<1>1. ASSUME NEW c \in Callers, CountAndSwitch(c)
      PROVE  FileMatchesCount'
    <2> DEFINE d == line[c].day
    <2>1. Switches(d)
        BY <1>1 DEF CountAndSwitch
    <2>2. count \in Nat /\ SplitLines \in Nat \ {0}
        BY LogAssumption DEF TypeOK
    <2>3. CASE today # d \/ count' % SplitLines = 0
        BY <2>1, <2>3 DEF Switches, FileMatchesCount
    <2>4. CASE ~(today # d \/ count' % SplitLines = 0)
        <3>1. count' = count + 1 /\ today' = today /\ fp' = fp
            BY <2>1, <2>4 DEF Switches
        <3>2. count' \div SplitLines = count \div SplitLines
            BY <2>2, <2>4, <3>1, DivOfNext
        <3>3. QED
            BY <3>1, <3>2 DEF FileMatchesCount
    <2>5. QED
        BY <2>3, <2>4
<1>2. ASSUME ~(\E c \in Callers : CountAndSwitch(c))
      PROVE  FileMatchesCount'
    <2>1. UNCHANGED <<fp, today, count>>
        BY <1>2 DEF Next, CallerStep, WriterStep, Gettimeofday, Route, PushBack,
           WriteDirectly, Flush, Pop, WriteQueued, Midnight, vars
    <2>2. QED
        BY <2>1 DEF FileMatchesCount
<1>3. QED
    BY <1>1, <1>2

(* The name of the open file follows from the day and the count, for every *)
(* limit on the lines of a file and however often a late thread turns the  *)
(* day back (log.cpp:104-125).                                             *)
THEOREM LogNamesItsFile == Spec => []FileMatchesCount
<1>1. Init => TypeOK /\ FileMatchesCount
    BY TypeInit, FileInit
<1>2. TypeOK /\ FileMatchesCount /\ [Next]_vars => (TypeOK /\ FileMatchesCount)'
    BY TypeStep, FileStep
<1>3. QED
    BY <1>1, <1>2, PTL DEF Spec

-----------------------------------------------------------------------------
LEMMA OrderInit == Init => Order
<1> SUFFICES ASSUME Init PROVE Order
    OBVIOUS
<1>1. LinesOwned
    BY DEF Init, LinesOwned, Writing, Line
<1>2. DOMAIN log_queue = {} /\ single_log = {} /\ DOMAIN written = {}
    BY DEF Init
<1>3. QED
    BY <1>1, <1>2 DEF Order, NoneAhead, QueueInOrder, TakenFirst, WrittenFirst

(* What the numbers are made of. *)
LEMMA Numbers ==
    ASSUME TypeOK
    PROVE  /\ \A c \in Callers : line[c].no \in Nat /\ line[c] \in Lines
           /\ \A i \in DOMAIN log_queue :
                  log_queue[i].no \in Nat /\ log_queue[i].by \in Callers
           /\ \A l \in single_log : l.no \in Nat /\ l.by \in Callers
           /\ \A i \in DOMAIN written :
                  /\ written[i].line.no \in Nat /\ written[i].line.by \in Callers
                  /\ written[i].via \in {"caller", "writer"}
           /\ DOMAIN log_queue = 1 .. Len(log_queue) /\ Len(log_queue) \in Nat
           /\ DOMAIN written = 1 .. Len(written) /\ Len(written) \in Nat
<1> DEFINE R == [line : Lines, file : Files, via : {"caller", "writer"}]
<1>1. \A l \in Lines : l.no \in Nat /\ l.by \in Callers
    BY DEF Lines
<1>2. /\ line \in [Callers -> Lines] /\ log_queue \in Seq(Lines)
      /\ single_log \subseteq Lines /\ written \in Seq(R)
    BY DEF TypeOK
<1>3. \A r \in R : r.line \in Lines /\ r.via \in {"caller", "writer"}
    OBVIOUS
<1> HIDE DEF R
<1>4. \A i \in DOMAIN written : written[i] \in R
    BY <1>2
<1>5. \A i \in DOMAIN log_queue : log_queue[i] \in Lines
    BY <1>2
<1>6. QED
    BY <1>1, <1>2, <1>3, <1>4, <1>5

(* A thread steps on without a line being put anywhere: the order is kept  *)
(* when it does not turn from waiting to writing, and a new line is a      *)
(* greater one.                                                            *)
LEMMA OrderMoved ==
    ASSUME TypeOK, Order, NEW c \in Callers, NEW label,
           pc' = [pc EXCEPT ![c] = label],
           UNCHANGED <<log_queue, single_log, written>>,
           \/ UNCHANGED line /\ (label \in Writing => pc[c] \in Writing)
           \/ /\ line' = [line EXCEPT ![c] = Line(c, line[c].no + 1, now)]
              /\ pc[c] \notin Writing
    PROVE  Order'
<1>0. c \in DOMAIN pc /\ c \in DOMAIN line
    BY DEF TypeOK
<1>1. \A k \in Callers : k # c => line'[k] = line[k] /\ pc'[k] = pc[k]
    BY DEF TypeOK
<1>2. pc'[c] = label
    BY <1>0
<1>3. \/ line'[c] = line[c] /\ (label \in Writing => pc[c] \in Writing)
      \/ line'[c] = Line(c, line[c].no + 1, now) /\ pc[c] \notin Writing
    BY <1>0
<1>4. line[c].no \in Nat
    BY Numbers
<1>5. \/ line'[c] = line[c] /\ (label \in Writing => pc[c] \in Writing)
      \/ /\ line'[c].by = c /\ line'[c].no = line[c].no + 1
         /\ pc[c] \notin Writing
    BY <1>3 DEF Line
<1>6. LinesOwned'
    BY <1>1, <1>2, <1>4, <1>5 DEF Order, LinesOwned
<1>7. ASSUME NEW k \in Callers, NEW l, NotAhead(k, l)
      PROVE  NotAhead(k, l)'
    <2>1. CASE k # c
        BY <1>1, <1>7, <2>1 DEF NotAhead
    <2>2. CASE k = c /\ line'[c] = line[c] /\ (label \in Writing => pc[c] \in Writing)
        BY <1>2, <1>7, <2>2 DEF NotAhead
    <2>3. CASE k = c /\ line'[c].no = line[c].no + 1
        BY <1>4, <1>7, <2>3 DEF NotAhead
    <2>4. QED
        BY <1>5, <2>1, <2>2, <2>3
<1>8. NoneAhead'
    BY <1>7 DEF Order, NoneAhead
<1>9. QED
    BY <1>6, <1>8 DEF Order, QueueInOrder, TakenFirst, WrittenFirst, Earlier

(* One more element at the end of a sequence, one less at its beginning.   *)
LEMMA Appended ==
    ASSUME NEW S, NEW s \in Seq(S), NEW e \in S, NEW t, t = Append(s, e)
    PROVE  /\ DOMAIN s = 1 .. Len(s) /\ Len(s) \in Nat
           /\ DOMAIN t = 1 .. Len(s) + 1 /\ t[Len(s) + 1] = e
           /\ \A i \in DOMAIN s : t[i] = s[i]
OBVIOUS

LEMMA Shortened ==
    ASSUME NEW S, NEW s \in Seq(S), s # <<>>, NEW t, t = Tail(s)
    PROVE  /\ DOMAIN s = 1 .. Len(s) /\ Len(s) \in Nat \ {0}
           /\ DOMAIN t = 1 .. Len(s) - 1
           /\ \A i \in DOMAIN t : t[i] = s[i + 1]
           /\ Head(s) = s[1]
OBVIOUS

(* c has handed its line over: it stands behind all others of c.           *)
LEMMA HandedOver ==
    ASSUME TypeOK, Order, NEW c \in Callers, pc[c] \in Writing,
           pc' = [pc EXCEPT ![c] = "flush"], UNCHANGED line
    PROVE  /\ LinesOwned'
           /\ \A k \in Callers : NotAhead(k, line[c])'
           /\ \A l : \A k \in Callers : NotAhead(k, l) => NotAhead(k, l)'
           /\ \A l : NotAhead(c, l) => Earlier(l, line[c])
<1>1. /\ \A k \in Callers : k # c => pc'[k] = pc[k]
      /\ pc'[c] = "flush" /\ "flush" \notin Writing
    BY DEF TypeOK, Writing
<1>2. LinesOwned /\ line[c].by = c /\ line[c].no >= 1 /\ line[c].no \in Nat
    BY Numbers DEF Order, LinesOwned
<1>3. LinesOwned'
    BY <1>1, <1>2 DEF LinesOwned
<1>4. \A k \in Callers : NotAhead(k, line[c])'
    BY <1>1, <1>2 DEF NotAhead
<1>5. \A l : \A k \in Callers : NotAhead(k, l) => NotAhead(k, l)'
    BY <1>1 DEF NotAhead
<1>6. \A l : NotAhead(c, l) => Earlier(l, line[c])
    BY <1>2 DEF NotAhead, Earlier
<1>7. QED
    BY <1>3, <1>4, <1>5, <1>6

LEMMA OrderPushed ==
    ASSUME TypeOK, Order, NEW c \in Callers, PushBack(c)
    PROVE  Order'
<1> DEFINE n == Len(log_queue) + 1
<1>1. line[c] \in Lines /\ log_queue \in Seq(Lines)
    BY DEF TypeOK
<1>2. /\ DOMAIN log_queue = 1 .. Len(log_queue) /\ Len(log_queue) \in Nat
      /\ DOMAIN log_queue' = 1 .. n /\ log_queue'[n] = line[c]
      /\ \A i \in DOMAIN log_queue : log_queue'[i] = log_queue[i]
    BY <1>1, Appended DEF PushBack
<1>3. \A i \in DOMAIN log_queue' : i \in DOMAIN log_queue \/ i = n
    BY <1>2
<1>4. /\ pc[c] \in Writing /\ pc' = [pc EXCEPT ![c] = "flush"]
      /\ UNCHANGED <<line, single_log, written>>
    BY DEF PushBack, Go, Writing
<1>5. /\ LinesOwned'
      /\ \A k \in Callers : NotAhead(k, line[c])'
      /\ \A l : \A k \in Callers : NotAhead(k, l) => NotAhead(k, l)'
      /\ \A l : NotAhead(c, l) => Earlier(l, line[c])
    BY <1>4, HandedOver
<1>6. NoneAhead'
    BY <1>2, <1>3, <1>4, <1>5 DEF Order, NoneAhead
<1>7. QueueInOrder'
    <2>1. \A i \in DOMAIN log_queue : Earlier(log_queue[i], line[c])
        BY <1>5 DEF Order, NoneAhead
    <2>2. \A i, j \in DOMAIN log_queue' :
              i < j => i \in DOMAIN log_queue /\ (j \in DOMAIN log_queue \/ j = n)
        BY <1>2
    <2>3. QED
        BY <1>2, <2>1, <2>2 DEF Order, QueueInOrder, Earlier
<1>8. TakenFirst'
    <2>1. \A l \in single_log : Earlier(l, line[c])
        BY <1>5 DEF Order, NoneAhead
    <2>2. QED
        BY <1>2, <1>3, <1>4, <2>1 DEF Order, TakenFirst, Earlier
<1>9. WrittenFirst'
    <2>1. \A k \in DOMAIN written : Earlier(written[k].line, line[c])
        BY <1>5 DEF Order, NoneAhead
    <2>2. QED
        BY <1>2, <1>3, <1>4, <2>1 DEF Order, WrittenFirst, Earlier
<1>10. QED
    BY <1>5, <1>6, <1>7, <1>8, <1>9 DEF Order

LEMMA OrderTaken ==
    ASSUME TypeOK, Order, Pop
    PROVE  Order'
<1>1. /\ DOMAIN log_queue = 1 .. Len(log_queue) /\ Len(log_queue) \in Nat \ {0}
      /\ DOMAIN log_queue' = 1 .. Len(log_queue) - 1
      /\ \A i \in DOMAIN log_queue' : log_queue'[i] = log_queue[i + 1]
      /\ Head(log_queue) = log_queue[1]
    BY Shortened DEF Pop, TypeOK
<1>2. single_log' = {log_queue[1]} /\ UNCHANGED <<line, pc, written>>
    BY <1>1 DEF Pop
<1>3. /\ 1 \in DOMAIN log_queue
      /\ \A i \in DOMAIN log_queue' : i + 1 \in DOMAIN log_queue /\ 1 < i + 1
      /\ \A i, j \in DOMAIN log_queue' : i < j => i + 1 < j + 1
    BY <1>1
<1>4. LinesOwned' /\ NoneAhead'
    BY <1>1, <1>2, <1>3 DEF Order, LinesOwned, NoneAhead, NotAhead
<1>5. QueueInOrder' /\ TakenFirst'
    BY <1>1, <1>2, <1>3 DEF Order, QueueInOrder, TakenFirst, Earlier
<1>6. WrittenFirst'
    BY <1>1, <1>2, <1>3 DEF Order, WrittenFirst, Earlier
<1>7. QED
    BY <1>4, <1>5, <1>6 DEF Order

(* Another record in the file. *)
LEMMA FileGrows ==
    ASSUME TypeOK, NEW l \in Lines, NEW via \in {"caller", "writer"}, Fputs(l, via)
    PROVE  /\ DOMAIN written = 1 .. Len(written) /\ Len(written) \in Nat
           /\ DOMAIN written' = 1 .. Len(written) + 1
           /\ written'[Len(written) + 1].line = l
           /\ written'[Len(written) + 1].via = via
           /\ written'[Len(written) + 1].file = fp
           /\ \A i \in DOMAIN written : written'[i] = written[i]
<1> DEFINE R == [line : Lines, file : Files, via : {"caller", "writer"}]
           r == [line |-> l, file |-> fp, via |-> via]
<1>1. r \in R /\ written \in Seq(R) /\ written' = Append(written, r)
    BY DEF TypeOK, Fputs
<1> HIDE DEF R
<1>2. /\ DOMAIN written = 1 .. Len(written) /\ Len(written) \in Nat
      /\ DOMAIN written' = 1 .. Len(written) + 1
      /\ written'[Len(written) + 1] = r
      /\ \A i \in DOMAIN written : written'[i] = written[i]
    BY <1>1, Appended
<1>3. r.line = l /\ r.via = via
    OBVIOUS
<1>4. QED
    BY <1>2, <1>3

LEMMA OrderWritten ==
    ASSUME TypeOK, Order, NEW c \in Callers, WriteDirectly(c)
    PROVE  Order'
<1> DEFINE n == Len(written) + 1
<1>1. line[c] \in Lines /\ Fputs(line[c], "caller")
    BY Numbers DEF WriteDirectly
<1>2. /\ DOMAIN written = 1 .. Len(written) /\ Len(written) \in Nat
      /\ DOMAIN written' = 1 .. n
      /\ written'[n].line = line[c] /\ written'[n].via = "caller"
      /\ \A i \in DOMAIN written : written'[i] = written[i]
    BY <1>1, FileGrows
<1>3. \A i \in DOMAIN written' : i \in DOMAIN written \/ i = n
    BY <1>2
<1>4. /\ pc[c] \in Writing /\ pc' = [pc EXCEPT ![c] = "flush"]
      /\ UNCHANGED <<line, single_log, log_queue>>
    BY DEF WriteDirectly, Go, Writing
<1>5. /\ LinesOwned'
      /\ \A k \in Callers : NotAhead(k, line[c])'
      /\ \A l : \A k \in Callers : NotAhead(k, l) => NotAhead(k, l)'
    BY <1>4, HandedOver
<1>6. NoneAhead'
    BY <1>2, <1>3, <1>4, <1>5 DEF Order, NoneAhead
<1>7. QueueInOrder' /\ TakenFirst'
    BY <1>4 DEF Order, QueueInOrder, TakenFirst, Earlier
<1>8. WrittenFirst'
    BY <1>2, <1>3, <1>4 DEF Order, WrittenFirst, Earlier
<1>9. QED
    BY <1>5, <1>6, <1>7, <1>8 DEF Order

LEMMA OrderDone ==
    ASSUME TypeOK, Order, WriteQueued
    PROVE  Order'
<1> DEFINE n == Len(written) + 1
<1>1. PICK l \in single_log : Fputs(l, "writer")
    BY DEF WriteQueued
<1>2. l \in Lines
    BY DEF TypeOK
<1>3. /\ DOMAIN written = 1 .. Len(written) /\ Len(written) \in Nat
      /\ DOMAIN written' = 1 .. n
      /\ written'[n].line = l
      /\ \A i \in DOMAIN written : written'[i] = written[i]
    BY <1>1, <1>2, FileGrows
<1>4. \A i \in DOMAIN written' : i \in DOMAIN written \/ i = n
    BY <1>3
<1>5. single_log' = {} /\ UNCHANGED <<line, pc, log_queue>>
    BY DEF WriteQueued
<1>6. LinesOwned' /\ NoneAhead'
    BY <1>3, <1>4, <1>5 DEF Order, LinesOwned, NoneAhead, NotAhead
<1>7. QueueInOrder' /\ TakenFirst'
    BY <1>5 DEF Order, QueueInOrder, TakenFirst, Earlier
<1>8. \A i \in DOMAIN log_queue : Earlier(l, log_queue[i])
    BY DEF Order, TakenFirst
<1>9. WrittenFirst'
    BY <1>3, <1>4, <1>5, <1>8 DEF Order, WrittenFirst, Earlier
<1>10. QED
    BY <1>6, <1>7, <1>9 DEF Order

LEMMA OrderStep == TypeOK /\ Order /\ [Next]_vars => Order'
<1> SUFFICES ASSUME TypeOK, Order, [Next]_vars
             PROVE  Order'
    OBVIOUS
<1>1. ASSUME NEW c \in Callers, Gettimeofday(c)
      PROVE  Order'
    BY <1>1, OrderMoved DEF Gettimeofday, Go, Writing
<1>2. ASSUME NEW c \in Callers, CountAndSwitch(c)
      PROVE  Order'
    BY <1>2, OrderMoved DEF CountAndSwitch, Go, Writing
<1>3. ASSUME NEW c \in Callers, Route(c)
      PROVE  Order'
    BY <1>3, OrderMoved DEF Route, Go, Writing
<1>4. ASSUME NEW c \in Callers, Flush(c)
      PROVE  Order'
    BY <1>4, OrderMoved DEF Flush, Go, Writing
<1>5. ASSUME Midnight \/ UNCHANGED vars
      PROVE  Order'
    <2>1. UNCHANGED <<pc, line, log_queue, single_log, written>>
        BY <1>5 DEF Midnight, vars
    <2>2. QED
        BY <2>1 DEF Order, LinesOwned, NoneAhead, NotAhead, QueueInOrder, TakenFirst,
           WrittenFirst, Earlier
<1>6. QED
    BY <1>1, <1>2, <1>3, <1>4, <1>5, OrderPushed, OrderWritten, OrderTaken, OrderDone
       DEF Next, CallerStep, WriterStep

-----------------------------------------------------------------------------
LEMMA KeptInit == Init => OrderKept
<1> SUFFICES ASSUME Init PROVE OrderKept
    OBVIOUS
<1>1. DOMAIN written = {}
    BY DEF Init
<1>2. QED
    BY <1>1 DEF OrderKept

(* A line is put into the file that no line of its thread has overtaken,   *)
(* unless the other one was written by its caller and this one was not.    *)
LEMMA KeptWhenWritten ==
    ASSUME TypeOK, OrderKept, NEW l \in Lines, NEW via \in {"caller", "writer"},
           Fputs(l, via),
           \A i \in DOMAIN written :
               \/ Earlier(written[i].line, l)
               \/ written[i].via = "caller" /\ via = "writer"
    PROVE  OrderKept'
<1> DEFINE n == Len(written) + 1
<1>1. /\ DOMAIN written = 1 .. Len(written) /\ Len(written) \in Nat
      /\ DOMAIN written' = 1 .. n
      /\ written'[n].line = l /\ written'[n].via = via
      /\ \A i \in DOMAIN written : written'[i] = written[i]
    BY FileGrows
<1>2. \A i, j \in DOMAIN written' :
          i < j => i \in DOMAIN written /\ (j \in DOMAIN written \/ j = n)
    BY <1>1
<1>3. l.no \in Nat /\ \A i \in DOMAIN written : written[i].line.no \in Nat
    BY Numbers DEF Lines
<1>4. ASSUME NEW i \in DOMAIN written,
             written'[i].line.by = written'[n].line.by,
             written'[i].line.no > written'[n].line.no
      PROVE  written'[i].via = "caller" /\ written'[n].via = "writer"
    <2>1. written'[i] = written[i] /\ written'[n].line = l /\ written'[n].via = via
        BY <1>1
    <2>2. ~Earlier(written[i].line, l)
        BY <1>3, <1>4, <2>1 DEF Earlier
    <2>3. QED
        BY <2>1, <2>2
<1>5. ASSUME NEW i \in DOMAIN written, NEW j \in DOMAIN written, i < j,
             written'[i].line.by = written'[j].line.by,
             written'[i].line.no > written'[j].line.no
      PROVE  written'[i].via = "caller" /\ written'[j].via = "writer"
    <2>1. written'[i] = written[i] /\ written'[j] = written[j]
        BY <1>1
    <2>2. QED
        BY <1>5, <2>1 DEF OrderKept, Overtaken
<1> HIDE DEF n
<1>6. QED
    BY <1>2, <1>4, <1>5 DEF OrderKept, Overtaken

LEMMA KeptStep == TypeOK /\ Order /\ OrderKept /\ [Next]_vars => OrderKept'
<1> SUFFICES ASSUME TypeOK, Order, OrderKept, [Next]_vars
             PROVE  OrderKept'
    OBVIOUS
<1>1. ASSUME NEW c \in Callers, WriteDirectly(c)
      PROVE  OrderKept'
    <2>1. line[c] \in Lines /\ Fputs(line[c], "caller") /\ pc[c] \in Writing
        BY <1>1, Numbers DEF WriteDirectly, Writing
    <2>2. line[c].by = c
        BY DEF Order, LinesOwned
    <2>3. \A i \in DOMAIN written : Earlier(written[i].line, line[c])
        BY <2>1, <2>2 DEF Order, NoneAhead, NotAhead, Earlier
    <2>4. QED
        BY <2>1, <2>3, KeptWhenWritten
<1>2. ASSUME WriteQueued
      PROVE  OrderKept'
    <2>1. PICK l \in single_log : Fputs(l, "writer")
        BY <1>2 DEF WriteQueued
    <2>2. l \in Lines
        BY DEF TypeOK
    <2>3. \A i \in DOMAIN written : written[i].via \in {"caller", "writer"}
        BY Numbers
    <2>4. \A i \in DOMAIN written :
              Earlier(written[i].line, l) \/ written[i].via = "caller"
        BY <2>3 DEF Order, WrittenFirst
    <2>5. QED
        BY <2>1, <2>2, <2>4, KeptWhenWritten
<1>3. ASSUME ~WriteQueued, \A c \in Callers : ~WriteDirectly(c)
      PROVE  OrderKept'
    <2>1. UNCHANGED written
        BY <1>3 DEF Next, CallerStep, WriterStep, Gettimeofday, CountAndSwitch, Route,
           PushBack, Flush, Pop, Midnight, vars
    <2>2. QED
        BY <2>1 DEF OrderKept, Overtaken
<1>4. QED
    BY <1>1, <1>2, <1>3

(* The lines of a thread are written in the order of its calls, but for    *)
(* those that found the queue full and were written by their caller        *)
(* (log.cpp:149-160), for any number of threads and any capacity.          *)
THEOREM LogKeepsOrder == Spec => []OrderKept
<1>1. Init => TypeOK /\ Order /\ OrderKept
    BY TypeInit, OrderInit, KeptInit
<1>2. TypeOK /\ Order /\ OrderKept /\ [Next]_vars => (TypeOK /\ Order /\ OrderKept)'
    BY TypeStep, OrderStep, KeptStep
<1>3. QED
    BY <1>1, <1>2, PTL DEF Spec

-----------------------------------------------------------------------------
(* The lines of c: those in the file and those on their way make up all.   *)
WrittenNos(c) == {written[i].line.no : i \in WrittenBy(c)}

Accounted(c) ==
    /\ WrittenNos(c) = (1 .. line[c].no) \ Pending(c)
    /\ Cardinality(WrittenBy(c)) + Cardinality(Pending(c)) = line[c].no

LEMMA AccountsFinite ==
    ASSUME TypeOK, NEW c \in Callers
    PROVE  /\ IsFiniteSet(WrittenBy(c)) /\ Cardinality(WrittenBy(c)) \in Nat
           /\ IsFiniteSet(Pending(c)) /\ Cardinality(Pending(c)) \in Nat
           /\ Pending(c) \subseteq 1 .. line[c].no
<1>1. line[c].no \in Nat /\ Len(written) \in Nat /\ DOMAIN written = 1 .. Len(written)
    BY Numbers
<1>2. WrittenBy(c) \subseteq 1 .. Len(written) /\ Pending(c) \subseteq 1 .. line[c].no
    BY <1>1 DEF WrittenBy, Pending
<1>3. IsFiniteSet(1 .. Len(written)) /\ IsFiniteSet(1 .. line[c].no)
    BY <1>1, FS_Interval
<1>4. IsFiniteSet(WrittenBy(c)) /\ IsFiniteSet(Pending(c))
    BY <1>2, <1>3, FS_Subset
<1>5. QED
    BY <1>2, <1>4, FS_CardinalityType

(* A thread begins a line. *)
LEMMA AccountBegun ==
    ASSUME TypeOK, NEW c \in Callers, Accounted(c),
           line'[c].no = line[c].no + 1,
           Pending(c)' = Pending(c) \cup {line[c].no + 1}, UNCHANGED written
    PROVE  Accounted(c)'
<1>1. /\ IsFiniteSet(Pending(c)) /\ Cardinality(Pending(c)) \in Nat
      /\ Cardinality(WrittenBy(c)) \in Nat
      /\ Pending(c) \subseteq 1 .. line[c].no /\ line[c].no \in Nat
    BY AccountsFinite, Numbers
<1>2. line[c].no + 1 \notin Pending(c)
    BY <1>1
<1>3. Cardinality(Pending(c) \cup {line[c].no + 1}) = Cardinality(Pending(c)) + 1
    BY <1>1, <1>2, FS_AddElement
<1>4. WrittenBy(c)' = WrittenBy(c) /\ WrittenNos(c)' = WrittenNos(c)
    BY DEF WrittenBy, WrittenNos
<1>5. (1 .. line[c].no + 1) \ (Pending(c) \cup {line[c].no + 1})
          = (1 .. line[c].no) \ Pending(c)
    BY <1>1
<1>6. QED
    BY <1>1, <1>3, <1>4, <1>5 DEF Accounted

(* A line that was on its way is put into the file. *)
LEMMA AccountWritten ==
    ASSUME TypeOK, NEW c \in Callers, Accounted(c),
           NEW l \in Lines, NEW via \in {"caller", "writer"}, Fputs(l, via),
           l.by = c, l.no \in Pending(c), line'[c].no = line[c].no,
           Pending(c)' = Pending(c) \ {l.no}
    PROVE  Accounted(c)'
<1> DEFINE n == Len(written) + 1
<1>1. /\ DOMAIN written = 1 .. Len(written) /\ Len(written) \in Nat
      /\ DOMAIN written' = 1 .. n
      /\ written'[n].line = l
      /\ \A i \in DOMAIN written : written'[i] = written[i]
    BY FileGrows
<1>2. WrittenBy(c)' = WrittenBy(c) \cup {n} /\ n \notin WrittenBy(c)
    BY <1>1 DEF WrittenBy
<1>3. \A i \in WrittenBy(c) : written'[i] = written[i]
    BY <1>1 DEF WrittenBy
<1>4. WrittenNos(c)' = WrittenNos(c) \cup {l.no}
    BY <1>1, <1>2, <1>3 DEF WrittenNos
<1>5. /\ IsFiniteSet(Pending(c)) /\ Cardinality(Pending(c)) \in Nat
      /\ IsFiniteSet(WrittenBy(c)) /\ Cardinality(WrittenBy(c)) \in Nat
      /\ Pending(c) \subseteq 1 .. line[c].no /\ line[c].no \in Nat
    BY AccountsFinite, Numbers
<1>6. Cardinality(WrittenBy(c) \cup {n}) = Cardinality(WrittenBy(c)) + 1
    BY <1>2, <1>5, FS_AddElement
<1>7. Cardinality(Pending(c) \ {l.no}) = Cardinality(Pending(c)) - 1
    BY <1>5, FS_RemoveElement
<1>8. ((1 .. line[c].no) \ Pending(c)) \cup {l.no}
          = (1 .. line[c].no) \ (Pending(c) \ {l.no})
    BY <1>5
<1>9. QED
    BY <1>2, <1>4, <1>5, <1>6, <1>7, <1>8 DEF Accounted

(* A line of another thread is put into the file.                          *)
LEMMA AccountOther ==
    ASSUME TypeOK, NEW c \in Callers, Accounted(c),
           NEW l \in Lines, NEW via \in {"caller", "writer"}, Fputs(l, via),
           l.by # c, line'[c].no = line[c].no, Pending(c)' = Pending(c)
    PROVE  Accounted(c)'
<1> DEFINE n == Len(written) + 1
<1>1. /\ DOMAIN written = 1 .. Len(written) /\ Len(written) \in Nat
      /\ DOMAIN written' = 1 .. n
      /\ written'[n].line = l
      /\ \A i \in DOMAIN written : written'[i] = written[i]
    BY FileGrows
<1>2. WrittenBy(c)' = WrittenBy(c)
    BY <1>1 DEF WrittenBy
<1>3. \A i \in WrittenBy(c) : written'[i] = written[i]
    BY <1>1 DEF WrittenBy
<1>4. WrittenNos(c)' = WrittenNos(c)
    BY <1>2, <1>3 DEF WrittenNos
<1>5. QED
    BY <1>2, <1>4 DEF Accounted

LEMMA AccountSame ==
    ASSUME NEW c \in Callers, Accounted(c), UNCHANGED written,
           line'[c].no = line[c].no, Pending(c)' = Pending(c)
    PROVE  Accounted(c)'
BY DEF Accounted, WrittenNos, WrittenBy

(* A line of c that is on its way: with the thread, in the queue, or with  *)
(* the writer.                                                             *)
InHand(c, n) == n = line[c].no /\ pc[c] \in Writing
InQueue(c, n) == \E i \in DOMAIN log_queue : log_queue[i].by = c /\ log_queue[i].no = n
Taken(c, n) == \E l \in single_log : l.by = c /\ l.no = n

LEMMA PendingIs ==
    ASSUME TypeOK
    PROVE  \A c \in Callers : Pending(c) =
               {n \in 1 .. line[c].no : InHand(c, n) \/ InQueue(c, n) \/ Taken(c, n)}
<1>1. \A c \in Callers : pc[c] \notin {"idle", "flush"} <=> pc[c] \in Writing
    BY DEF TypeOK, Writing
<1>2. QED
    BY <1>1 DEF Pending, InHand, InQueue, Taken

(* What is on its way stays so, and where it is put is no line of c.       *)
LEMMA PendingSame ==
    ASSUME TypeOK, TypeOK', NEW c \in Callers, line'[c].no = line[c].no,
           \A n \in 1 .. line[c].no :
               (InHand(c, n) \/ InQueue(c, n) \/ Taken(c, n))'
                   <=> InHand(c, n) \/ InQueue(c, n) \/ Taken(c, n)
    PROVE  Pending(c)' = Pending(c)
<1>1. Pending(c) =
          {n \in 1 .. line[c].no : InHand(c, n) \/ InQueue(c, n) \/ Taken(c, n)}
    BY PendingIs
<1>2. Pending(c)' =
          {n \in 1 .. line'[c].no : (InHand(c, n) \/ InQueue(c, n) \/ Taken(c, n))'}
    <2>1. \A k \in Callers : pc'[k] \notin {"idle", "flush"} <=> pc'[k] \in Writing
        BY DEF TypeOK, Writing
    <2>2. QED
        BY <2>1 DEF Pending, InHand, InQueue, Taken
<1>3. QED
    BY <1>1, <1>2

(* The line numbered m arrives. *)
LEMMA PendingLess ==
    ASSUME TypeOK, TypeOK', NEW c \in Callers, line'[c].no = line[c].no,
           NEW m \in 1 .. line[c].no, InHand(c, m) \/ Taken(c, m),
           \A n \in 1 .. line[c].no :
               (InHand(c, n) \/ InQueue(c, n) \/ Taken(c, n))'
                   <=> n # m /\ (InHand(c, n) \/ InQueue(c, n) \/ Taken(c, n))
    PROVE  Pending(c)' = Pending(c) \ {m} /\ m \in Pending(c)
<1>1. Pending(c) =
          {n \in 1 .. line[c].no : InHand(c, n) \/ InQueue(c, n) \/ Taken(c, n)}
    BY PendingIs
<1>2. Pending(c)' =
          {n \in 1 .. line'[c].no : (InHand(c, n) \/ InQueue(c, n) \/ Taken(c, n))'}
    <2>1. \A k \in Callers : pc'[k] \notin {"idle", "flush"} <=> pc'[k] \in Writing
        BY DEF TypeOK, Writing
    <2>2. QED
        BY <2>1 DEF Pending, InHand, InQueue, Taken
<1>3. QED
    BY <1>1, <1>2

(* The steps *)
LEMMA AccountTime ==
    ASSUME TypeOK, TypeOK', NEW k \in Callers, Gettimeofday(k), NEW c \in Callers,
           Accounted(c)
    PROVE  Accounted(c)'
<1>1. /\ pc[k] = "idle" /\ pc' = [pc EXCEPT ![k] = "count"]
      /\ line' = [line EXCEPT ![k] = Line(k, line[k].no + 1, now)]
      /\ UNCHANGED <<log_queue, single_log, written>>
    BY DEF Gettimeofday, Go
<1>2. k \in DOMAIN line /\ k \in DOMAIN pc
    BY DEF TypeOK
<1>3. CASE c # k
    <2>1. line'[c] = line[c] /\ pc'[c] = pc[c]
        BY <1>1, <1>2, <1>3 DEF TypeOK
    <2>2. Pending(c)' = Pending(c)
        BY <1>1, <2>1, PendingSame DEF InHand, InQueue, Taken
    <2>3. QED
        BY <1>1, <2>1, <2>2, AccountSame
<1>4. CASE c = k
    <2>1. line'[c] = Line(c, line[c].no + 1, now) /\ pc'[c] = "count"
        BY <1>1, <1>2, <1>4
    <2>2. line'[c].no = line[c].no + 1 /\ line[c].no \in Nat
        BY <2>1, Numbers DEF Line
    <2>3. Pending(c) = {n \in 1 .. line[c].no : InQueue(c, n) \/ Taken(c, n)}
        BY <1>1, <1>4, PendingIs DEF InHand, Writing
    <2>4. Pending(c)' = {n \in 1 .. line[c].no + 1 :
              n = line[c].no + 1 \/ InQueue(c, n) \/ Taken(c, n)}
        BY <1>1, <2>1, <2>2 DEF Pending, InQueue, Taken
    <2>5. Pending(c)' = Pending(c) \cup {line[c].no + 1}
        BY <2>2, <2>3, <2>4
    <2>6. QED
        BY <1>1, <2>2, <2>5, AccountBegun
<1>5. QED
    BY <1>3, <1>4

(* A thread moves on without handing over its line. *)
LEMMA AccountMoved ==
    ASSUME TypeOK, TypeOK', NEW k \in Callers, NEW label,
           pc' = [pc EXCEPT ![k] = label], label \in Writing <=> pc[k] \in Writing,
           UNCHANGED <<line, log_queue, single_log, written>>,
           NEW c \in Callers, Accounted(c)
    PROVE  Accounted(c)'
<1>1. pc'[c] \in Writing <=> pc[c] \in Writing
    BY DEF TypeOK
<1>2. Pending(c)' = Pending(c)
    BY <1>1, PendingSame DEF InHand, InQueue, Taken
<1>3. QED
    BY <1>2, AccountSame

LEMMA AccountPushed ==
    ASSUME TypeOK, TypeOK', Order, NEW k \in Callers, PushBack(k),
           NEW c \in Callers, Accounted(c)
    PROVE  Accounted(c)'
<1> DEFINE m == Len(log_queue) + 1
<1>1. line[k] \in Lines /\ log_queue \in Seq(Lines) /\ line[k].by = k
    BY DEF TypeOK, Order, LinesOwned
<1>2. /\ DOMAIN log_queue = 1 .. Len(log_queue) /\ Len(log_queue) \in Nat
      /\ DOMAIN log_queue' = 1 .. m /\ log_queue'[m] = line[k]
      /\ \A i \in DOMAIN log_queue : log_queue'[i] = log_queue[i]
    BY <1>1, Appended DEF PushBack
<1>3. /\ pc[k] = "push" /\ pc' = [pc EXCEPT ![k] = "flush"]
      /\ UNCHANGED <<line, single_log, written>>
    BY DEF PushBack, Go
<1>4. \A n : InQueue(c, n)' <=> InQueue(c, n) \/ (c = k /\ n = line[k].no)
    BY <1>1, <1>2 DEF InQueue
<1>5. pc'[k] = "flush" /\ \A d \in Callers : d # k => pc'[d] = pc[d]
    BY <1>3 DEF TypeOK
<1>6. \A n : InHand(c, n)' <=> InHand(c, n) /\ c # k
    BY <1>3, <1>5 DEF InHand, Writing
<1>7. \A n : c = k => (InHand(c, n) <=> n = line[k].no)
    BY <1>3 DEF InHand, Writing
<1>8. Pending(c)' = Pending(c)
    BY <1>3, <1>4, <1>6, <1>7, PendingSame DEF Taken
<1>9. QED
    BY <1>3, <1>8, AccountSame

LEMMA AccountTaken ==
    ASSUME TypeOK, TypeOK', Pop, NEW c \in Callers, Accounted(c)
    PROVE  Accounted(c)'
<1>1. /\ DOMAIN log_queue = 1 .. Len(log_queue) /\ Len(log_queue) \in Nat \ {0}
      /\ DOMAIN log_queue' = 1 .. Len(log_queue) - 1
      /\ \A i \in DOMAIN log_queue' : log_queue'[i] = log_queue[i + 1]
      /\ Head(log_queue) = log_queue[1]
    BY Shortened DEF Pop, TypeOK
<1>2. /\ single_log = {} /\ single_log' = {log_queue[1]}
      /\ UNCHANGED <<line, pc, written>>
    BY <1>1 DEF Pop
<1>3. ASSUME NEW n
      PROVE  InQueue(c, n) <=> InQueue(c, n)' \/ Taken(c, n)'
    <2>1. ASSUME NEW i \in DOMAIN log_queue, i # 1
          PROVE  i - 1 \in DOMAIN log_queue' /\ log_queue'[i - 1] = log_queue[i]
        BY <1>1, <2>1
    <2>2. \A i \in DOMAIN log_queue' : i + 1 \in DOMAIN log_queue
        BY <1>1
    <2>3. 1 \in DOMAIN log_queue
        BY <1>1
    <2>4. InQueue(c, n) => InQueue(c, n)' \/ Taken(c, n)'
        BY <1>2, <2>1 DEF InQueue, Taken
    <2>5. InQueue(c, n)' \/ Taken(c, n)' => InQueue(c, n)
        BY <1>1, <1>2, <2>2, <2>3 DEF InQueue, Taken
    <2>6. QED
        BY <2>4, <2>5
<1>4. \A n : InQueue(c, n) <=> InQueue(c, n)' \/ Taken(c, n)'
    BY <1>3
<1>5. \A n : ~Taken(c, n) /\ (InHand(c, n)' <=> InHand(c, n))
    BY <1>2 DEF Taken, InHand
<1>6. Pending(c)' = Pending(c)
    BY <1>2, <1>4, <1>5, PendingSame
<1>7. QED
    BY <1>2, <1>6, AccountSame

LEMMA AccountDirect ==
    ASSUME TypeOK, TypeOK', Order, NEW k \in Callers, WriteDirectly(k),
           NEW c \in Callers, Accounted(c)
    PROVE  Accounted(c)'
<1>1. /\ pc[k] = "write" /\ pc' = [pc EXCEPT ![k] = "flush"]
      /\ UNCHANGED <<line, log_queue, single_log>>
      /\ Fputs(line[k], "caller") /\ line[k] \in Lines
    BY Numbers DEF WriteDirectly, Go
<1>2. line[k].by = k /\ line[k].no >= 1 /\ line[k].no \in Nat
    BY <1>1, Numbers DEF Order, LinesOwned, Writing
<1>3. pc'[k] = "flush" /\ \A d \in Callers : d # k => pc'[d] = pc[d]
    BY <1>1 DEF TypeOK
<1>4. CASE c # k
    <2>1. Pending(c)' = Pending(c)
        BY <1>1, <1>3, <1>4, PendingSame DEF InHand, InQueue, Taken
    <2>2. QED
        BY <1>1, <1>2, <1>4, <2>1, AccountOther
<1>5. CASE c = k
    <2>1. ~InQueue(c, line[c].no) /\ ~Taken(c, line[c].no)
        BY <1>1, <1>2, <1>5 DEF Order, NoneAhead, NotAhead, InQueue, Taken, Writing
    <2>2. \A n : (InHand(c, n) <=> n = line[c].no) /\ ~InHand(c, n)'
        BY <1>1, <1>3, <1>5 DEF InHand, Writing
    <2>3. \A n : (InQueue(c, n)' <=> InQueue(c, n)) /\ (Taken(c, n)' <=> Taken(c, n))
        BY <1>1 DEF InQueue, Taken
    <2>4. /\ Pending(c)' = Pending(c) \ {line[c].no} /\ line[c].no \in Pending(c)
        BY <1>1, <1>2, <1>5, <2>1, <2>2, <2>3, PendingLess
    <2>5. QED
        BY <1>1, <1>2, <1>5, <2>4, AccountWritten
<1>6. QED
    BY <1>4, <1>5

LEMMA AccountQueued ==
    ASSUME TypeOK, TypeOK', Order, WriteQueued, NEW c \in Callers, Accounted(c)
    PROVE  Accounted(c)'
<1>1. PICK l \in single_log : Fputs(l, "writer")
    BY DEF WriteQueued
<1>2. /\ l \in Lines /\ l.no \in Nat /\ single_log = {l} /\ single_log' = {}
      /\ UNCHANGED <<line, log_queue, pc>>
    BY Numbers DEF WriteQueued, TypeOK, Order, TakenFirst
<1>3. \A n : (InQueue(c, n)' <=> InQueue(c, n)) /\ (InHand(c, n)' <=> InHand(c, n))
    BY <1>2 DEF InQueue, InHand
<1>4. \A n : ~Taken(c, n)' /\ (Taken(c, n) <=> l.by = c /\ l.no = n)
    BY <1>2 DEF Taken
<1>5. CASE l.by # c
    <2>1. Pending(c)' = Pending(c)
        BY <1>2, <1>3, <1>4, <1>5, PendingSame
    <2>2. QED
        BY <1>1, <1>2, <1>5, <2>1, AccountOther
<1>6. CASE l.by = c
    <2>1. NotAhead(c, l) /\ \A i \in DOMAIN log_queue : Earlier(l, log_queue[i])
        BY DEF Order, NoneAhead, TakenFirst
    <2>2. l.no \in 1 .. line[c].no /\ ~InHand(c, l.no)
        BY <1>6, <2>1, Numbers DEF NotAhead, InHand
    <2>3. ~InQueue(c, l.no)
        BY <1>2, <1>6, <2>1, Numbers DEF Earlier, InQueue
    <2>4. Pending(c)' = Pending(c) \ {l.no} /\ l.no \in Pending(c)
        BY <1>2, <1>3, <1>4, <1>6, <2>2, <2>3, PendingLess
    <2>5. QED
        BY <1>1, <1>2, <1>6, <2>4, AccountWritten
<1>7. QED
    BY <1>5, <1>6

AllAccounted == \A c \in Callers : Accounted(c)

LEMMA AccountInit == Init => AllAccounted
<1> SUFFICES ASSUME Init, NEW c \in Callers PROVE Accounted(c)
    BY DEF AllAccounted
<1>1. line[c].no = 0
    BY DEF Init, Line
<1>2. WrittenBy(c) = {} /\ Pending(c) = {} /\ WrittenNos(c) = {}
    BY <1>1 DEF Init, WrittenBy, Pending, WrittenNos
<1>3. Cardinality({}) = 0
    BY FS_EmptySet
<1>4. QED
    BY <1>1, <1>2, <1>3 DEF Accounted

LEMMA AccountStep ==
    TypeOK /\ TypeOK' /\ Order /\ AllAccounted /\ [Next]_vars => AllAccounted'
<1> SUFFICES ASSUME TypeOK, TypeOK', Order, AllAccounted, [Next]_vars,
                    NEW c \in Callers
             PROVE  Accounted(c)'
    BY DEF AllAccounted
<1>0. Accounted(c)
    BY DEF AllAccounted
<1>1. ASSUME NEW k \in Callers, CountAndSwitch(k)
      PROVE  Accounted(c)'
    BY <1>0, <1>1, AccountMoved DEF CountAndSwitch, Go, Writing
<1>2. ASSUME NEW k \in Callers, Route(k)
      PROVE  Accounted(c)'
    BY <1>0, <1>2, AccountMoved DEF Route, Go, Writing
<1>3. ASSUME NEW k \in Callers, Flush(k)
      PROVE  Accounted(c)'
    BY <1>0, <1>3, AccountMoved DEF Flush, Go, Writing
<1>4. ASSUME Midnight \/ UNCHANGED vars
      PROVE  Accounted(c)'
    <2>1. UNCHANGED <<pc, line, log_queue, single_log, written>>
        BY <1>4 DEF Midnight, vars
    <2>2. Pending(c)' = Pending(c)
        BY <2>1 DEF Pending
    <2>3. QED
        BY <1>0, <2>1, <2>2, AccountSame
<1>5. QED
    BY <1>0, <1>1, <1>2, <1>3, <1>4, AccountTime, AccountPushed, AccountTaken,
       AccountDirect, AccountQueued DEF Next, CallerStep, WriterStep

(* Every line of a thread is written once, or is on its way in one place   *)
(* only: with the thread, in the queue or with the writer (log.cpp:129-176),*)
(* for any number of threads, with and without a queue.                    *)
THEOREM LogLosesNoLine == Spec => []NoLineLost
<1>1. Init => TypeOK /\ Order /\ AllAccounted
    BY TypeInit, OrderInit, AccountInit
<1>2. TypeOK /\ Order /\ AllAccounted /\ [Next]_vars => (TypeOK /\ Order /\ AllAccounted)'
    BY TypeStep, OrderStep, AccountStep
<1>3. AllAccounted => NoLineLost
    BY DEF AllAccounted, Accounted, WrittenNos, NoLineLost
<1>4. QED
    BY <1>1, <1>2, <1>3, PTL DEF Spec

-----------------------------------------------------------------------------
(* The lines of the file f, and the threads whose line is counted for a    *)
(* file and not yet written.                                               *)
InFile(f) == {i \in DOMAIN written : written[i].file = f}
Outstanding == {c \in Callers : pc[c] \in {"route", "write"}}

(* Without a queue no line waits anywhere but with its thread.             *)
NoQueue == log_queue = <<>> /\ single_log = {} /\ \A c \in Callers : pc[c] # "push"

(* It has not been midnight. *)
FirstDay == today = 1 /\ \A c \in Callers : line[c].day = 1

(* No line is in a file that is not opened yet.                            *)
FilesOpened == \A i \in DOMAIN written : written[i].file[2] <= fp[2]

(* The lines counted since the open file was opened, and at most one of    *)
(* every thread that were counted before.                                  *)
OpenFileBounded ==
    Cardinality(InFile(fp)) + Cardinality(Outstanding)
        <= (count % SplitLines) + Cardinality(Callers)

ClosedFilesBounded ==
    \A f \in Files : Cardinality(InFile(f)) <= SplitLines + Cardinality(Callers) - 1

Bounded ==
    /\ now >= 1
    /\ ~is_async => NoQueue
    /\ now = 1 => FirstDay
    /\ ~is_async /\ now = 1 => FilesOpened /\ OpenFileBounded /\ ClosedFilesBounded

LEMMA FilesFinite ==
    ASSUME TypeOK
    PROVE  /\ \A f : IsFiniteSet(InFile(f)) /\ Cardinality(InFile(f)) \in Nat
           /\ IsFiniteSet(Outstanding) /\ Cardinality(Outstanding) \in Nat
           /\ Cardinality(Outstanding) <= Cardinality(Callers)
           /\ Cardinality(Callers) \in Nat
<1>1. IsFiniteSet(DOMAIN written)
    BY Numbers, FS_Interval
<1>2. \A f : InFile(f) \in SUBSET DOMAIN written
    BY DEF InFile
<1>3. \A f : IsFiniteSet(InFile(f))
    BY <1>1, <1>2, FS_Subset
<1>4. IsFiniteSet(Callers) /\ Outstanding \in SUBSET Callers
    BY LogAssumption DEF Outstanding
<1>5. /\ IsFiniteSet(Outstanding)
      /\ Cardinality(Outstanding) <= Cardinality(Callers)
    BY <1>4, FS_Subset
<1>6. QED
    BY <1>3, <1>4, <1>5, FS_CardinalityType

LEMMA FileNumbers ==
    ASSUME TypeOK
    PROVE  \A i \in DOMAIN written : written[i].file \in Files /\ written[i].file[2] \in Nat
<1> DEFINE R == [line : Lines, file : Files, via : {"caller", "writer"}]
<1>1. \A r \in R : r.file \in Files
    OBVIOUS
<1>2. \A f \in Files : f[2] \in Nat
    BY DEF Files
<1>3. written \in Seq(R)
    BY DEF TypeOK
<1> HIDE DEF R
<1>4. \A i \in DOMAIN written : written[i] \in R
    BY <1>3
<1>5. QED
    BY <1>1, <1>2, <1>4

LEMMA BoundedInit == Init => Bounded
<1> SUFFICES ASSUME Init PROVE Bounded
    OBVIOUS
<1>1. TypeOK
    BY TypeInit
<1>2. DOMAIN written = {} /\ count = 0 /\ now = 1
    BY DEF Init
<1>3. /\ \A f : InFile(f) = {}
      /\ Outstanding = {}
    BY <1>2 DEF InFile, Outstanding, Init
<1>4. Cardinality({}) = 0
    BY FS_EmptySet
<1>5. NoQueue /\ FirstDay /\ FilesOpened
    BY <1>2 DEF Init, NoQueue, FirstDay, FilesOpened, Line
<1>6. count % SplitLines \in Nat /\ SplitLines \in Nat \ {0}
    BY <1>2, LogAssumption, DivMod
<1>7. Cardinality(Callers) \in Nat
    BY <1>1, FilesFinite
<1>8. OpenFileBounded
    <2> DEFINE r == count % SplitLines
    <2>1. r \in Nat /\ Cardinality(InFile(fp)) = 0 /\ Cardinality(Outstanding) = 0
        BY <1>3, <1>4, <1>6
    <2>2. OpenFileBounded <=>
              Cardinality(InFile(fp)) + Cardinality(Outstanding) <= r + Cardinality(Callers)
        BY DEF OpenFileBounded
    <2> HIDE DEF r
    <2>3. QED
        BY <2>1, <2>2, <1>7
<1>9. ClosedFilesBounded
    BY <1>3, <1>4, <1>6, <1>7 DEF ClosedFilesBounded
<1>10. QED
    BY <1>2, <1>5, <1>8, <1>9 DEF Bounded

(* A step that puts no line into a file and counts none.                   *)
LEMMA BoundedSame ==
    ASSUME Bounded, UNCHANGED <<is_async, today, count, fp, written>>,
           now' >= now, now \in Nat, now' \in Nat,
           ~is_async => NoQueue', now' = 1 => FirstDay', Outstanding' = Outstanding
    PROVE  Bounded'
<1>1. now = 1 \/ now' # 1
    BY DEF Bounded
<1>2. InFile(fp)' = InFile(fp) /\ \A f \in Files : InFile(f)' = InFile(f)
    BY DEF InFile
<1>3. FilesOpened => FilesOpened'
    BY DEF FilesOpened
<1>4. OpenFileBounded => OpenFileBounded'
    BY <1>2 DEF OpenFileBounded
<1>5. ClosedFilesBounded => ClosedFilesBounded'
    BY <1>2 DEF ClosedFilesBounded
<1>6. QED
    BY <1>1, <1>3, <1>4, <1>5 DEF Bounded

(* A thread's line is counted, and may open the next file.                 *)
LEMMA BoundedCount ==
    ASSUME TypeOK, TypeOK', FileMatchesCount, FileMatchesCount', Bounded,
           NEW c \in Callers, CountAndSwitch(c)
    PROVE  Bounded'
<1>1. /\ pc[c] = "count" /\ pc' = [pc EXCEPT ![c] = "route"]
      /\ UNCHANGED <<is_async, log_queue, line, single_log, written, now>>
      /\ Switches(line[c].day)
    BY DEF CountAndSwitch, Go
<1>2. pc'[c] = "route" /\ \A d \in Callers : d # c => pc'[d] = pc[d]
    BY <1>1 DEF TypeOK
<1>3. ~is_async => NoQueue'
    BY <1>1, <1>2 DEF Bounded, NoQueue
<1>4. now = 1 => FirstDay'
    BY <1>1 DEF Bounded, FirstDay, Switches
<1>5. ASSUME ~is_async, now = 1
      PROVE  FilesOpened' /\ OpenFileBounded' /\ ClosedFilesBounded'
    <2>1. /\ today = 1 /\ line[c].day = 1
          /\ FilesOpened /\ OpenFileBounded /\ ClosedFilesBounded
        BY <1>5 DEF Bounded, FirstDay
    <2>2. /\ count' = count + 1 /\ count \in Nat /\ SplitLines \in Nat \ {0}
          /\ fp' = IF count' % SplitLines = 0 THEN <<1, count' \div SplitLines>> ELSE fp
        BY <1>1, <2>1, LogAssumption DEF Switches, TypeOK
    <2>3. Outstanding' = Outstanding \cup {c} /\ c \notin Outstanding
        BY <1>1, <1>2 DEF Outstanding
    <2>4. /\ Cardinality(Outstanding') = Cardinality(Outstanding) + 1
          /\ Cardinality(Outstanding') <= Cardinality(Callers)
        <3>1. IsFiniteSet(Callers) /\ Outstanding' \in SUBSET Callers
            BY LogAssumption DEF Outstanding
        <3>2. QED
            BY <2>3, <3>1, FilesFinite, FS_AddElement, FS_Subset
    <2>5. \A f : InFile(f)' = InFile(f)
        BY <1>1 DEF InFile
    <2>6. ClosedFilesBounded'
        BY <2>1, <2>5 DEF ClosedFilesBounded
    <2>7. fp = <<1, count \div SplitLines>> /\ fp' = <<1, count' \div SplitLines>>
        BY <1>1, <2>1 DEF FileMatchesCount, Switches
    <2>8. /\ count % SplitLines \in Nat /\ count % SplitLines <= SplitLines - 1
          /\ count' % SplitLines
                 = IF (count % SplitLines) + 1 = SplitLines THEN 0 ELSE (count % SplitLines) + 1
        <3>1. (count + 1) % SplitLines
                  = IF (count % SplitLines) + 1 = SplitLines THEN 0 ELSE (count % SplitLines) + 1
            BY <2>2, ModOfNext
        <3>2. count % SplitLines \in 0 .. SplitLines - 1
            BY <2>2, DivMod
        <3> DEFINE r == count % SplitLines
        <3> HIDE DEF r
        <3>3. r \in 0 .. SplitLines - 1
            BY <3>2 DEF r
        <3>4. r \in Nat /\ r <= SplitLines - 1
            BY <2>2, <3>3
        <3>5. QED
            BY <2>2, <3>1, <3>4 DEF r
    <2>9. CASE count' % SplitLines # 0
        <3>1. fp' = fp /\ count' % SplitLines = (count % SplitLines) + 1
            BY <2>2, <2>8, <2>9
        <3>2. InFile(fp)' = InFile(fp)
            BY <1>1, <3>1 DEF InFile
        <3>3. OpenFileBounded'
            BY <2>1, <2>4, <2>8, <3>1, <3>2, FilesFinite DEF OpenFileBounded
        <3>4. FilesOpened'
            BY <1>1, <2>1, <3>1 DEF FilesOpened
        <3>5. QED
            BY <2>6, <3>3, <3>4
    <2>10. CASE count' % SplitLines = 0
        <3>1. count' \div SplitLines = (count \div SplitLines) + 1
            BY <2>2, <2>10, DivOfMultiple
        <3>2. fp'[2] = fp[2] + 1 /\ fp[2] \in Nat
            BY <2>7, <3>1 DEF TypeOK, Files
        <3>3. \A i \in DOMAIN written : written[i].file[2] \in Nat
            BY FileNumbers
        <3>4. FilesOpened'
            BY <1>1, <2>1, <3>2, <3>3 DEF FilesOpened
        <3>5. \A i \in DOMAIN written : written[i].file # fp'
            BY <2>1, <3>2, <3>3 DEF FilesOpened
        <3>6. InFile(fp)' = {}
            BY <1>1, <3>5 DEF InFile
        <3>7. OpenFileBounded'
            BY <2>4, <2>10, <3>6, FS_EmptySet, FilesFinite DEF OpenFileBounded
        <3>8. QED
            BY <2>6, <3>4, <3>7
    <2>11. QED
        BY <2>9, <2>10
<1>6. QED
    BY <1>1, <1>3, <1>4, <1>5 DEF Bounded

(* A thread writes its line into the open file.                            *)
LEMMA BoundedWrite ==
    ASSUME TypeOK, TypeOK', Bounded, NEW c \in Callers, WriteDirectly(c)
    PROVE  Bounded'
<1> DEFINE n == Len(written) + 1
<1>1. /\ pc[c] = "write" /\ pc' = [pc EXCEPT ![c] = "flush"]
      /\ UNCHANGED <<is_async, today, count, fp, log_queue, line, single_log, now>>
      /\ Fputs(line[c], "caller") /\ line[c] \in Lines
    BY Numbers DEF WriteDirectly, Go
<1>2. pc'[c] = "flush" /\ \A d \in Callers : d # c => pc'[d] = pc[d]
    BY <1>1 DEF TypeOK
<1>3. ~is_async => NoQueue'
    BY <1>1, <1>2 DEF Bounded, NoQueue
<1>4. now = 1 => FirstDay'
    BY <1>1 DEF Bounded, FirstDay
<1>5. /\ DOMAIN written = 1 .. Len(written) /\ Len(written) \in Nat
      /\ DOMAIN written' = 1 .. n
      /\ written'[n].file = fp
      /\ \A i \in DOMAIN written : written'[i] = written[i]
    BY <1>1, FileGrows
<1>6. ASSUME ~is_async, now = 1
      PROVE  FilesOpened' /\ OpenFileBounded' /\ ClosedFilesBounded'
    <2>1. FilesOpened /\ OpenFileBounded /\ ClosedFilesBounded
        BY <1>6 DEF Bounded
    <2>2. Outstanding' = Outstanding \ {c} /\ c \in Outstanding
        BY <1>1, <1>2 DEF Outstanding
    <2>3. Cardinality(Outstanding') = Cardinality(Outstanding) - 1
        BY <2>2, FilesFinite, FS_RemoveElement
    <2>4. \A f \in Files : f # fp => InFile(f)' = InFile(f)
        BY <1>5 DEF InFile
    <2>5. InFile(fp)' = InFile(fp) \cup {n} /\ n \notin InFile(fp)
        BY <1>1, <1>5 DEF InFile
    <2>6. Cardinality(InFile(fp)') = Cardinality(InFile(fp)) + 1
        BY <2>5, FilesFinite, FS_AddElement
    <2>7. OpenFileBounded'
        BY <1>1, <2>1, <2>3, <2>6, FilesFinite DEF OpenFileBounded
    <2>8. FilesOpened'
        <3>1. fp[2] \in Nat
            BY DEF TypeOK, Files
        <3>2. QED
            BY <1>1, <1>5, <2>1, <3>1 DEF FilesOpened
    <2>9. Cardinality(InFile(fp)') <= SplitLines + Cardinality(Callers) - 1
        <3> DEFINE r == count % SplitLines
                   k == Cardinality(InFile(fp)')
                   m == Cardinality(Outstanding')
        <3>1. count \in Nat /\ SplitLines \in Nat \ {0}
            BY LogAssumption DEF TypeOK
        <3>2. r \in 0 .. SplitLines - 1
            BY <3>1, DivMod
        <3>3. k + m <= r + Cardinality(Callers)
            BY <1>1, <2>7 DEF OpenFileBounded
        <3>4. k \in Nat /\ m \in Nat /\ Cardinality(Callers) \in Nat
            BY <2>2, <2>3, <2>6, FilesFinite, FS_EmptySet
        <3> HIDE DEF r, k, m
        <3>5. k <= SplitLines + Cardinality(Callers) - 1
            BY <3>1, <3>2, <3>3, <3>4
        <3>6. QED
            BY <3>5 DEF k
    <2>10. \A f \in Files : f = fp => InFile(f)' = InFile(fp)'
        BY <1>1 DEF InFile
    <2>11. ClosedFilesBounded'
        BY <2>1, <2>4, <2>9, <2>10 DEF ClosedFilesBounded
    <2>12. QED
        BY <2>7, <2>8, <2>11
<1>7. QED
    BY <1>1, <1>3, <1>4, <1>6 DEF Bounded

LEMMA BoundedStep ==
    TypeOK /\ TypeOK' /\ FileMatchesCount /\ FileMatchesCount' /\ Bounded /\ [Next]_vars
        => Bounded'
<1> SUFFICES ASSUME TypeOK, TypeOK', FileMatchesCount, FileMatchesCount', Bounded,
                    [Next]_vars
             PROVE  Bounded'
    OBVIOUS
<1>0. now \in Nat /\ now' \in Nat /\ (~is_async => NoQueue) /\ (now = 1 => FirstDay)
    BY DEF TypeOK, Bounded
<1>1. ASSUME NEW c \in Callers, Gettimeofday(c)
      PROVE  Bounded'
    <2>1. /\ pc[c] = "idle" /\ pc' = [pc EXCEPT ![c] = "count"]
          /\ line' = [line EXCEPT ![c] = Line(c, line[c].no + 1, now)]
          /\ UNCHANGED <<is_async, today, count, fp, log_queue, single_log, written, now>>
        BY <1>1 DEF Gettimeofday, Go
    <2>2. pc'[c] = "count" /\ \A d \in Callers : d # c => pc'[d] = pc[d]
        BY <2>1 DEF TypeOK
    <2>3. line'[c].day = now /\ \A d \in Callers : d # c => line'[d] = line[d]
        BY <2>1 DEF TypeOK, Line
    <2>4. ~is_async => NoQueue'
        BY <1>0, <2>1, <2>2 DEF NoQueue
    <2>5. now' = 1 => FirstDay'
        BY <1>0, <2>1, <2>3 DEF FirstDay
    <2>6. Outstanding' = Outstanding
        BY <2>1, <2>2 DEF Outstanding
    <2>7. QED
        BY <1>0, <2>1, <2>4, <2>5, <2>6, BoundedSame
<1>2. ASSUME NEW c \in Callers, Route(c)
      PROVE  Bounded'
    <2>1. /\ pc[c] = "route" /\ pc'[c] \in {"push", "write"}
          /\ \A d \in Callers : d # c => pc'[d] = pc[d]
          /\ pc'[c] = "push" => is_async
          /\ UNCHANGED <<is_async, today, count, fp, log_queue, line, single_log, written, now>>
        BY <1>2 DEF Route, Go, TypeOK
    <2>2. ~is_async => NoQueue'
        BY <1>0, <2>1 DEF NoQueue
    <2>3. now' = 1 => FirstDay'
        BY <1>0, <2>1 DEF FirstDay
    <2>4. CASE pc'[c] = "write"
        <3>1. Outstanding' = Outstanding
            BY <2>1, <2>4 DEF Outstanding
        <3>2. QED
            BY <1>0, <2>1, <2>2, <2>3, <3>1, BoundedSame
    <2>5. CASE is_async
        BY <1>0, <2>1, <2>3, <2>5 DEF Bounded
    <2>6. QED
        BY <2>1, <2>4, <2>5
<1>3. ASSUME NEW c \in Callers, PushBack(c)
      PROVE  Bounded'
    <2>1. is_async
        BY <1>0, <1>3 DEF PushBack, NoQueue
    <2>2. UNCHANGED <<is_async, today, line, now>>
        BY <1>3 DEF PushBack
    <2>3. QED
        BY <1>0, <2>1, <2>2 DEF Bounded, FirstDay
<1>4. ASSUME NEW c \in Callers, Flush(c)
      PROVE  Bounded'
    <2>1. /\ pc[c] = "flush" /\ pc'[c] = "idle"
          /\ \A d \in Callers : d # c => pc'[d] = pc[d]
          /\ UNCHANGED <<is_async, today, count, fp, log_queue, line, single_log, written, now>>
        BY <1>4 DEF Flush, Go, TypeOK
    <2>2. ~is_async => NoQueue'
        BY <1>0, <2>1 DEF NoQueue
    <2>3. now' = 1 => FirstDay'
        BY <1>0, <2>1 DEF FirstDay
    <2>4. Outstanding' = Outstanding
        BY <2>1 DEF Outstanding
    <2>5. QED
        BY <1>0, <2>1, <2>2, <2>3, <2>4, BoundedSame
<1>5. ASSUME Pop \/ WriteQueued
      PROVE  Bounded'
    <2>1. is_async
        BY <1>0, <1>5 DEF Pop, WriteQueued, NoQueue
    <2>2. UNCHANGED <<is_async, today, line, now>>
        BY <1>5 DEF Pop, WriteQueued
    <2>3. QED
        BY <1>0, <2>1, <2>2 DEF Bounded, FirstDay
<1>6. ASSUME Midnight
      PROVE  Bounded'
    <2>1. /\ now' = now + 1 /\ now >= 1
          /\ UNCHANGED <<is_async, pc, log_queue, single_log>>
        BY <1>6 DEF Midnight, Bounded
    <2>2. now' # 1 /\ now' >= 1
        BY <1>0, <2>1
    <2>3. QED
        BY <1>0, <2>1, <2>2 DEF Bounded, NoQueue
<1>7. ASSUME UNCHANGED vars
      PROVE  Bounded'
    <2>1. UNCHANGED <<is_async, today, count, fp, log_queue, pc, line, single_log, written, now>>
        BY <1>7 DEF vars
    <2>2. (~is_async => NoQueue') /\ (now' = 1 => FirstDay') /\ Outstanding' = Outstanding
        BY <1>0, <2>1 DEF NoQueue, FirstDay, Outstanding
    <2>3. QED
        BY <1>0, <2>1, <2>2, BoundedSame
<1>8. QED
    BY <1>1, <1>2, <1>3, <1>4, <1>5, <1>6, <1>7, BoundedCount, BoundedWrite
       DEF Next, CallerStep, WriterStep

(* Without a queue a file of the first day has at most _split_lines lines  *)
(* and one more of every thread but one: what the other threads had        *)
(* counted when it was opened (log.cpp:101-125, 155-157).                  *)
THEOREM LogBoundsItsFiles == Spec => []FileBounded
<1> DEFINE I == TypeOK /\ FileMatchesCount /\ Bounded
<1>1. Init => I
    BY TypeInit, FileInit, BoundedInit
<1>2. I /\ [Next]_vars => I'
    BY TypeStep, FileStep, BoundedStep
<1>3. I => FileBounded
    <2> SUFFICES ASSUME TypeOK, Bounded, ~is_async, now = 1,
                        NEW f \in {written[i].file : i \in DOMAIN written}
                 PROVE  Cardinality({i \in DOMAIN written : written[i].file = f})
                            <= SplitLines + Cardinality(Callers) - 1
        BY DEF FileBounded
    <2>1. f \in Files
        BY FileNumbers
    <2>2. QED
        BY <2>1 DEF Bounded, ClosedFilesBounded, InFile
<1>4. QED
    BY <1>1, <1>2, <1>3, PTL DEF Spec
=============================================================================
