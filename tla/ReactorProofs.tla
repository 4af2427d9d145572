--------------------------- MODULE ReactorProofs ---------------------------
(***************************************************************************)
(* A service that re-arms every descriptor it reads from (RpcServer and    *)
(* HttpServer do) leaves none disarmed and loses no edge: for any number   *)
(* of connections, in every mode of the sockets, whatever the size of the  *)
(* batch and of the receive buffer.                                        *)
(***************************************************************************)
EXTENDS Reactor, TLAPS

-----------------------------------------------------------------------------
(* What is in a sequence, and whether it is there once. *)
In(x, s) == \E i \in 1 .. Len(s) : s[i] = x
Once(s) == \A i, j \in 1 .. Len(s) : s[i] = s[j] => i = j

LEMMA AppendIn ==
    ASSUME NEW S, NEW s \in Seq(S), NEW x \in S, NEW y
    PROVE  /\ In(y, Append(s, x)) <=> In(y, s) \/ y = x
           /\ Append(s, x) \in Seq(S)
           /\ Len(Append(s, x)) = Len(s) + 1
           /\ \A i \in 1 .. Len(s) + 1 :
                  Append(s, x)[i] = IF i <= Len(s) THEN s[i] ELSE x
<1> DEFINE t == Append(s, x)
<1>1. /\ Len(t) = Len(s) + 1 /\ t \in Seq(S) /\ Len(s) \in Nat
      /\ \A i \in 1 .. Len(s) + 1 : t[i] = IF i <= Len(s) THEN s[i] ELSE x
    OBVIOUS
<1>2. In(y, t) <=> In(y, s) \/ y = x
    <2> HIDE DEF t
    <2>1. ASSUME In(y, t) PROVE In(y, s) \/ y = x
        BY <1>1, <2>1 DEF In
    <2>2. ASSUME In(y, s) PROVE In(y, t)
        BY <1>1, <2>2 DEF In
    <2>3. t[Len(s) + 1] = x /\ Len(s) + 1 \in 1 .. Len(t)
        BY <1>1
    <2>4. QED
        BY <2>1, <2>2, <2>3 DEF In
<1>3. QED
    BY <1>1, <1>2

LEMMA AppendOnce ==
    ASSUME NEW S, NEW s \in Seq(S), NEW x \in S, Once(s), ~In(x, s)
    PROVE  Once(Append(s, x))
<1> DEFINE t == Append(s, x)
<1>1. /\ Len(t) = Len(s) + 1 /\ Len(s) \in Nat
      /\ \A i \in 1 .. Len(s) + 1 : t[i] = IF i <= Len(s) THEN s[i] ELSE x
    BY AppendIn
<1> HIDE DEF t
<1>2. QED
    BY <1>1 DEF Once, In

LEMMA TailIn ==
    ASSUME NEW S, NEW s \in Seq(S), s # <<>>, NEW y
    PROVE  /\ In(y, s) <=> y = Head(s) \/ In(y, Tail(s))
           /\ Head(s) \in S /\ Tail(s) \in Seq(S)
           /\ Len(s) \in Nat \ {0} /\ Len(Tail(s)) = Len(s) - 1
           /\ Head(s) = s[1]
           /\ \A i \in 1 .. Len(s) - 1 : Tail(s)[i] = s[i + 1]
<1> DEFINE t == Tail(s)
<1>1. /\ Len(s) \in Nat \ {0} /\ Head(s) = s[1] /\ Head(s) \in S
      /\ Len(t) = Len(s) - 1 /\ t \in Seq(S)
      /\ \A i \in 1 .. Len(s) - 1 : t[i] = s[i + 1]
    OBVIOUS
<1>2. In(y, s) <=> y = Head(s) \/ In(y, t)
    <2> HIDE DEF t
    <2>1. ASSUME NEW i \in 1 .. Len(s), s[i] = y, i # 1 PROVE In(y, t)
        <3>1. i - 1 \in 1 .. Len(t) /\ t[i - 1] = y
            BY <1>1, <2>1
        <3>2. QED
            BY <3>1 DEF In
    <2>2. ASSUME In(y, t) PROVE In(y, s)
        <3>1. PICK i \in 1 .. Len(t) : t[i] = y
            BY <2>2 DEF In
        <3>2. i + 1 \in 1 .. Len(s) /\ s[i + 1] = y
            BY <1>1, <3>1
        <3>3. QED
            BY <3>2 DEF In
    <2>3. QED
        BY <1>1, <2>1, <2>2 DEF In
<1>3. QED
    BY <1>1, <1>2

LEMMA TailOnce ==
    ASSUME NEW S, NEW s \in Seq(S), s # <<>>, Once(s)
    PROVE  Once(Tail(s)) /\ ~In(Head(s), Tail(s))
<1> DEFINE t == Tail(s)
<1>1. /\ Len(t) = Len(s) - 1 /\ Len(s) \in Nat \ {0} /\ Head(s) = s[1]
      /\ \A i \in 1 .. Len(s) - 1 : t[i] = s[i + 1]
    BY TailIn
<1> HIDE DEF t
<1>2. \A i \in 1 .. Len(t) : i + 1 \in 1 .. Len(s) /\ i + 1 # 1 /\ t[i] = s[i + 1]
    BY <1>1
<1>3. ASSUME NEW i \in 1 .. Len(t), NEW j \in 1 .. Len(t), t[i] = t[j] PROVE i = j
    <2>1. i + 1 = j + 1
        BY <1>2, <1>3 DEF Once
    <2>2. QED
        BY <2>1, <1>1
<1>4. ~In(Head(s), t)
    <2>1. ASSUME NEW i \in 1 .. Len(t), t[i] = s[1] PROVE FALSE
        BY <1>1, <1>2, <2>1 DEF Once
    <2>2. QED
        BY <1>1, <2>1 DEF In
<1>5. QED
    BY <1>3, <1>4 DEF Once, t

LEMMA ConcatIn ==
    ASSUME NEW S, NEW s \in Seq(S), NEW t \in Seq(S), NEW y
    PROVE  In(y, s \o t) <=> In(y, s) \/ In(y, t)
<1> DEFINE u == s \o t
<1>1. /\ Len(u) = Len(s) + Len(t) /\ Len(s) \in Nat /\ Len(t) \in Nat
      /\ \A i \in 1 .. Len(s) + Len(t) :
            u[i] = IF i <= Len(s) THEN s[i] ELSE t[i - Len(s)]
    OBVIOUS
<1> HIDE DEF u
<1>2. ASSUME NEW i \in 1 .. Len(t) PROVE i + Len(s) \in 1 .. Len(u) /\ u[i + Len(s)] = t[i]
    BY <1>1
<1>3. ASSUME NEW i \in 1 .. Len(s) PROVE i \in 1 .. Len(u) /\ u[i] = s[i]
    BY <1>1
<1>4. ASSUME In(y, u) PROVE In(y, s) \/ In(y, t)
    BY <1>1, <1>4 DEF In
<1>5. ASSUME In(y, s) PROVE In(y, u)
    BY <1>3, <1>5 DEF In
<1>6. ASSUME In(y, t) PROVE In(y, u)
    BY <1>2, <1>6 DEF In
<1>7. QED
    BY <1>4, <1>5, <1>6 DEF u

LEMMA ConcatOnce ==
    ASSUME NEW S, NEW s \in Seq(S), NEW t \in Seq(S), Once(s), Once(t),
           \A y \in S : ~(In(y, s) /\ In(y, t))
    PROVE  Once(s \o t)
<1> DEFINE u == s \o t
<1>1. /\ Len(u) = Len(s) + Len(t) /\ Len(s) \in Nat /\ Len(t) \in Nat
      /\ \A i \in 1 .. Len(s) + Len(t) :
            u[i] = IF i <= Len(s) THEN s[i] ELSE t[i - Len(s)]
      /\ \A i \in 1 .. Len(s) : s[i] \in S
    OBVIOUS
<1> HIDE DEF u
<1>2. SUFFICES ASSUME NEW i \in 1 .. Len(u), NEW j \in 1 .. Len(u), u[i] = u[j]
               PROVE  i = j
    BY DEF Once, u
<1>3. \A p \in 1 .. Len(s), q \in 1 .. Len(t) : s[p] # t[q]
    BY <1>1 DEF In
<1>4. CASE i <= Len(s) /\ j <= Len(s)
    BY <1>1, <1>2, <1>4 DEF Once
<1>5. CASE i > Len(s) /\ j > Len(s)
    <2>1. i - Len(s) \in 1 .. Len(t) /\ j - Len(s) \in 1 .. Len(t)
        BY <1>1, <1>5
    <2>2. t[i - Len(s)] = t[j - Len(s)]
        BY <1>1, <1>2, <1>5
    <2>3. i - Len(s) = j - Len(s)
        BY <2>1, <2>2 DEF Once
    <2>4. QED
        BY <2>3, <1>1
<1>6. CASE i <= Len(s) /\ j > Len(s)
    <2>1. i \in 1 .. Len(s) /\ j - Len(s) \in 1 .. Len(t)
        BY <1>1, <1>6
    <2>2. s[i] = t[j - Len(s)]
        BY <1>1, <1>2, <1>6
    <2>3. QED
        BY <1>3, <2>1, <2>2
<1>7. CASE i > Len(s) /\ j <= Len(s)
    <2>1. j \in 1 .. Len(s) /\ i - Len(s) \in 1 .. Len(t)
        BY <1>1, <1>7
    <2>2. s[j] = t[i - Len(s)]
        BY <1>1, <1>2, <1>7
    <2>3. QED
        BY <1>3, <2>1, <2>2
<1>8. QED
    BY <1>1, <1>4, <1>5, <1>6, <1>7

LEMMA Prepended ==
    ASSUME NEW S, NEW s \in Seq(S), NEW x \in S
    PROVE  /\ <<x>> \o s \in Seq(S)
           /\ \A y : In(y, <<x>> \o s) <=> In(y, s) \/ y = x
           /\ Once(s) /\ ~In(x, s) => Once(<<x>> \o s)
<1>1. <<x>> \in Seq(S) /\ Len(<<x>>) = 1 /\ <<x>>[1] = x
    OBVIOUS
<1>2. Once(<<x>>) /\ \A y : In(y, <<x>>) <=> y = x
    BY <1>1 DEF Once, In
<1>3. <<x>> \o s \in Seq(S)
    BY <1>1
<1>4. \A y : In(y, <<x>> \o s) <=> In(y, s) \/ y = x
    BY <1>1, <1>2, ConcatIn
<1>5. ASSUME Once(s), ~In(x, s) PROVE Once(<<x>> \o s)
    BY <1>1, <1>2, <1>5, ConcatOnce
<1>6. QED
    BY <1>3, <1>4, <1>5

LEMMA InSet ==
    ASSUME NEW S, NEW s \in Seq(S), NEW x
    PROVE  x \in ToSet(s) <=> In(x, s)
<1>1. DOMAIN s = 1 .. Len(s)
    OBVIOUS
<1>2. QED
    BY <1>1 DEF ToSet, In

-----------------------------------------------------------------------------
Fds == Conns \cup {Listener}
Event == [fd : Fds, events : SUBSET {"IN", "OUT", "RDHUP"}]

(* A descriptor is once in the ready list, in the part that is gone        *)
(* through or in the part that is collected; no event waits for the end of *)
(* a scan when there is none.                                              *)
ListedOnce ==
    /\ Once(ready) /\ Once(txlist)
    /\ \A fd \in Fds : ~(In(fd, ready) /\ In(fd, txlist))
    /\ ~scanning => txlist = <<>> /\ ovflist = <<>>

(* The batch has at most one entry of a descriptor.                        *)
ReportedOnce ==
    /\ \A i, j \in 1 .. Len(batch) : batch[i].fd = batch[j].fd => i = j
    /\ \A i \in 1 .. Len(batch) : ~In(batch[i].fd, txlist)

Pending(c) == \E e \in Event : e.fd = c /\ In(e, batch)

HasEdge(c) ==
    IF arm[c] \in OneShot THEN Events(c) # {} ELSE arm[c] = "idle" /\ unread[c] > 0

(* What holds of one connection.  Its event is handled in the registration *)
(* it was reported in, and EPOLLIN says the truth for as long as it is in  *)
(* the batch: only the handler reads.                                      *)
Watched(c) ==
    /\ arm[c] = "off" /\ ~Pending(c) => eof[c] /\ unread[c] = 0
    /\ HasEdge(c) => Listed(c) \/ Pending(c)
    /\ Pending(c) => arm[c] \in {"idle", "off"}
    /\ \A e \in Event : e.fd = c /\ In(e, batch) /\ "IN" \in e.events
                            => unread[c] > 0 \/ eof[c]

IInv == TypeOK /\ ListedOnce /\ ReportedOnce /\ \A c \in Conns : Watched(c)

-----------------------------------------------------------------------------
LEMMA ListedIn ==
    ASSUME TypeOK, NEW fd
    PROVE  /\ Linked(fd) <=> In(fd, ready) \/ In(fd, txlist)
           /\ Listed(fd) <=> In(fd, ready) \/ In(fd, txlist) \/ In(fd, ovflist)
<1>1. ready \in Seq(Fds) /\ txlist \in Seq(Fds) /\ ovflist \in Seq(Fds)
    BY DEF TypeOK, Fds
<1>2. QED
    BY <1>1, InSet DEF Listed, Linked

LEMMA ListedInNext ==
    ASSUME TypeOK', NEW fd
    PROVE  Listed(fd)' <=> In(fd, ready') \/ In(fd, txlist') \/ In(fd, ovflist')
<1>1. ready' \in Seq(Fds) /\ txlist' \in Seq(Fds) /\ ovflist' \in Seq(Fds)
    BY DEF TypeOK, Fds
<1>2. /\ fd \in ToSet(ready') <=> In(fd, ready')
      /\ fd \in ToSet(txlist') <=> In(fd, txlist')
      /\ fd \in ToSet(ovflist') <=> In(fd, ovflist')
    BY <1>1, InSet
<1>3. QED
    BY <1>2 DEF Listed, Linked

(* A descriptor that is enlisted; the others stay where they are.          *)
LEMMA EnlistTypes ==
    ASSUME TypeOK, NEW fd \in Fds, Enlist(fd)
    PROVE  /\ ready' \in Seq(Fds) /\ ovflist' \in Seq(Fds)
           /\ In(fd, ready') \/ In(fd, ovflist')
           /\ \A g : g # fd => (In(g, ready') <=> In(g, ready))
           /\ \A g : g # fd => (In(g, ovflist') <=> In(g, ovflist))
           /\ \A g : In(g, ready) => In(g, ready')
           /\ \A g : In(g, ovflist) => In(g, ovflist')
<1>1. ready \in Seq(Fds) /\ ovflist \in Seq(Fds) /\ scanning \in BOOLEAN
    BY DEF TypeOK, Fds
<1>2. CASE scanning
    <2>1. ready' = ready
        BY <1>2 DEF Enlist
    <2>2. CASE fd \in ToSet(ovflist)
        <3>1. ovflist' = ovflist /\ In(fd, ovflist)
            BY <1>1, <1>2, <2>2, InSet DEF Enlist
        <3>2. QED
            BY <1>1, <2>1, <3>1
    <2>3. CASE fd \notin ToSet(ovflist)
        <3>1. ovflist' = <<fd>> \o ovflist
            BY <1>2, <2>3 DEF Enlist
        <3>2. /\ ovflist' \in Seq(Fds)
              /\ \A g : In(g, ovflist') <=> In(g, ovflist) \/ g = fd
            BY <1>1, <3>1, Prepended
        <3>3. QED
            BY <1>1, <2>1, <3>2
    <2>4. QED
        BY <2>2, <2>3
<1>3. CASE ~scanning
    <2>1. ovflist' = ovflist
        BY <1>3 DEF Enlist
    <2>2. CASE fd \in ToSet(ready)
        <3>1. ready' = ready /\ In(fd, ready)
            BY <1>1, <1>3, <2>2, InSet DEF Enlist
        <3>2. QED
            BY <1>1, <2>1, <3>1
    <2>3. CASE fd \notin ToSet(ready)
        <3>1. ready' = Append(ready, fd)
            BY <1>3, <2>3 DEF Enlist
        <3>2. /\ ready' \in Seq(Fds)
              /\ \A g : In(g, ready') <=> In(g, ready) \/ g = fd
            BY <1>1, <3>1, AppendIn
        <3>3. QED
            BY <1>1, <2>1, <3>2
    <2>4. QED
        BY <2>2, <2>3
<1>4. QED
    BY <1>1, <1>2, <1>3

LEMMA EnlistOnce ==
    ASSUME TypeOK, ListedOnce, NEW fd \in Fds, Enlist(fd),
           UNCHANGED <<txlist, scanning>>
    PROVE  ListedOnce'
<1>1. ready \in Seq(Fds) /\ scanning \in BOOLEAN
    BY DEF TypeOK, Fds
<1>2. CASE scanning
    BY <1>2 DEF Enlist, ListedOnce
<1>3. CASE ~scanning /\ fd \in ToSet(ready)
    BY <1>3 DEF Enlist, ListedOnce
<1>4. CASE ~scanning /\ fd \notin ToSet(ready)
    <2>1. ready' = Append(ready, fd) /\ ~In(fd, ready) /\ ovflist' = ovflist
        BY <1>1, <1>4, InSet DEF Enlist
    <2>2. Once(ready')
        BY <1>1, <2>1, AppendOnce DEF ListedOnce
    <2>3. txlist = <<>> /\ ~In(fd, txlist)
        BY <1>4 DEF ListedOnce, In
    <2>4. \A g : g # fd => (In(g, ready') <=> In(g, ready))
        BY EnlistTypes
    <2>5. QED
        BY <1>4, <2>1, <2>2, <2>3, <2>4 DEF ListedOnce
<1>5. QED
    BY <1>1, <1>2, <1>3, <1>4

(* Handling takes the first entry off, and it was the only one of its      *)
(* descriptor.                                                             *)
LEMMA HandleEntries ==
    ASSUME TypeOK, ReportedOnce, Handle
    PROVE  /\ Head(batch) \in Event /\ In(Head(batch), batch)
           /\ batch' = Tail(batch) /\ batch' \in Seq(Event)
           /\ \A e : e.fd # Current => (In(e, batch') <=> In(e, batch))
           /\ \A e : In(e, batch') => e.fd # Current /\ In(e, batch)
           /\ ReportedOnce'
<1>1. batch \in Seq(Event) /\ batch # <<>> /\ batch' = Tail(batch) /\ txlist' = txlist
    BY DEF Handle, TypeOK, Event, Fds
<1>2. /\ \A e : In(e, batch) <=> e = Head(batch) \/ In(e, batch')
      /\ Head(batch) \in Event /\ batch' \in Seq(Event)
      /\ Len(batch) \in Nat \ {0} /\ Len(batch') = Len(batch) - 1
      /\ Head(batch) = batch[1]
      /\ \A i \in 1 .. Len(batch) - 1 : batch'[i] = batch[i + 1]
    BY <1>1, TailIn
<1>3. \A i \in 1 .. Len(batch') :
          i + 1 \in 1 .. Len(batch) /\ batch'[i] = batch[i + 1] /\ i + 1 # 1
    BY <1>2
<1>4. \A i \in 1 .. Len(batch') : batch'[i].fd # Current
    BY <1>2, <1>3 DEF ReportedOnce, Current
<1>5. \A e : In(e, batch') => e.fd # Current
    BY <1>4 DEF In
<1>6. ReportedOnce'
    <2>1. ASSUME NEW i \in 1 .. Len(batch'), NEW j \in 1 .. Len(batch'),
                 batch'[i].fd = batch'[j].fd
          PROVE  i = j
        <3>1. i + 1 = j + 1
            BY <1>3, <2>1 DEF ReportedOnce
        <3>2. QED
            BY <3>1, <1>2
    <2>2. \A i \in 1 .. Len(batch') : ~In(batch'[i].fd, txlist')
        BY <1>1, <1>3 DEF ReportedOnce
    <2>3. QED
        BY <2>1, <2>2 DEF ReportedOnce
<1>7. QED
    BY <1>1, <1>2, <1>5, <1>6 DEF Current

(* A connection that nothing happened to.                                  *)
Untouched(d) ==
    /\ arm'[d] = arm[d] /\ unread'[d] = unread[d] /\ eof'[d] = eof[d]
    /\ full'[d] = full[d]
    /\ Listed(d)' <=> Listed(d)
    /\ \A e \in Event : e.fd = d => (In(e, batch') <=> In(e, batch))

LEMMA Bystander ==
    ASSUME NEW d \in Conns, Watched(d), Untouched(d)
    PROVE  Watched(d)'
<1>1. d # Listener
    BY ReactorAssumption
<1>2. HasEdge(d)' <=> HasEdge(d)
    BY <1>1 DEF HasEdge, Events, Untouched
<1>3. Pending(d)' <=> Pending(d)
    BY DEF Pending, Untouched
<1>4. QED
    BY <1>2, <1>3 DEF Watched, Untouched

(* The loop goes through the ready list.                                   *)
LEMMA StartScanStep == IInv /\ StartScan => IInv'
<1> SUFFICES ASSUME IInv, StartScan PROVE IInv'
    OBVIOUS
<1>1. <<>> \in Seq(Fds) /\ \A x : ~In(x, <<>>)
    BY DEF In
<1>2. TypeOK'
    BY <1>1 DEF IInv, TypeOK, StartScan, mode, Fds
<1>3. ListedOnce'
    BY <1>1 DEF IInv, ListedOnce, StartScan, Once
<1>4. ReportedOnce'
    BY DEF IInv, ReportedOnce, StartScan
<1>5. \A fd : Listed(fd)' <=> Listed(fd)
    <2>1. \A fd : Listed(fd)' <=> In(fd, ready') \/ In(fd, txlist') \/ In(fd, ovflist')
        BY <1>2, ListedInNext
    <2>2. \A fd : Listed(fd) <=> In(fd, ready) \/ In(fd, txlist) \/ In(fd, ovflist)
        BY ListedIn DEF IInv
    <2>3. \A fd : ~In(fd, txlist)
        BY <1>1 DEF IInv, ListedOnce, StartScan
    <2>4. QED
        BY <1>1, <2>1, <2>2, <2>3 DEF StartScan
<1>6. ASSUME NEW d \in Conns PROVE Watched(d)'
    BY <1>5, Bystander DEF IInv, Untouched, StartScan
<1>7. QED
    BY <1>2, <1>3, <1>4, <1>6 DEF IInv

LEMMA EndScanStep == IInv /\ EndScan => IInv'
<1> SUFFICES ASSUME IInv, EndScan PROVE IInv'
    OBVIOUS
<1>1. /\ ready \in Seq(Fds) /\ txlist \in Seq(Fds)
      /\ ready' = txlist \o ready /\ txlist' = <<>> /\ scanning' = FALSE
      /\ ovflist = <<>> /\ ovflist' = <<>>
    BY DEF IInv, TypeOK, EndScan, Fds
<1>2. <<>> \in Seq(Fds) /\ \A x : ~In(x, <<>>)
    BY DEF In
<1>3. TypeOK'
    <2>1. ready' \in Seq(Fds)
        BY <1>1
    <2>2. QED
        BY <1>2, <2>1 DEF IInv, TypeOK, EndScan, mode, Fds
<1>4. ListedOnce'
    <2>1. Once(ready')
        BY <1>1, ConcatOnce DEF IInv, ListedOnce
    <2>2. QED
        BY <1>1, <1>2, <2>1 DEF ListedOnce, Once
<1>5. ReportedOnce'
    BY <1>1, <1>2 DEF IInv, ReportedOnce, EndScan
<1>6. \A fd : Listed(fd)' <=> Listed(fd)
    <2>1. \A fd : Listed(fd)' <=> In(fd, ready') \/ In(fd, txlist') \/ In(fd, ovflist')
        BY <1>3, ListedInNext
    <2>2. \A fd : Listed(fd) <=> In(fd, ready) \/ In(fd, txlist) \/ In(fd, ovflist)
        BY ListedIn DEF IInv
    <2>3. \A fd : In(fd, ready') <=> In(fd, txlist) \/ In(fd, ready)
        BY <1>1, ConcatIn
    <2>4. QED
        BY <1>1, <1>2, <2>1, <2>2, <2>3
<1>7. ASSUME NEW d \in Conns PROVE Watched(d)'
    BY <1>6, Bystander DEF IInv, Untouched, EndScan
<1>8. QED
    BY <1>3, <1>4, <1>5, <1>7 DEF IInv

LEMMA CollectStep == IInv /\ Collect => IInv'
<1> SUFFICES ASSUME IInv, Collect PROVE IInv'
    OBVIOUS
<1> DEFINE h == Head(ovflist)
<1>1. /\ ready \in Seq(Fds) /\ ovflist \in Seq(Fds) /\ ovflist # <<>>
      /\ ovflist' = Tail(ovflist) /\ txlist' = txlist /\ scanning /\ scanning'
      /\ ready' = IF Linked(h) THEN ready ELSE <<h>> \o ready
    BY DEF IInv, TypeOK, Collect, Fds
<1>2. /\ h \in Fds /\ ovflist' \in Seq(Fds)
      /\ \A x : In(x, ovflist) <=> x = h \/ In(x, ovflist')
    BY <1>1, TailIn
<1> HIDE DEF h
<1>3. /\ ready' \in Seq(Fds) /\ Once(ready')
      /\ \A x \in Fds : ~(In(x, ready') /\ In(x, txlist))
      /\ \A x : In(x, ready') \/ In(x, txlist)
                    <=> In(x, ready) \/ In(x, txlist) \/ x = h
    <2>1. Linked(h) <=> In(h, ready) \/ In(h, txlist)
        BY ListedIn DEF IInv
    <2>2. CASE Linked(h)
        BY <1>1, <2>1, <2>2 DEF IInv, ListedOnce
    <2>3. CASE ~Linked(h)
        <3>1. /\ ready' \in Seq(Fds)
              /\ \A x : In(x, ready') <=> In(x, ready) \/ x = h
            BY <1>1, <1>2, <2>3, Prepended
        <3>2. Once(ready')
            BY <1>1, <1>2, <2>1, <2>3, Prepended DEF IInv, ListedOnce
        <3>3. QED
            BY <2>1, <2>3, <3>1, <3>2 DEF IInv, ListedOnce
    <2>4. QED
        BY <2>2, <2>3
<1>4. TypeOK'
    BY <1>2, <1>3 DEF IInv, TypeOK, Collect, mode, Fds
<1>5. ListedOnce'
    BY <1>1, <1>3 DEF IInv, ListedOnce
<1>6. ReportedOnce'
    BY DEF IInv, ReportedOnce, Collect
<1>7. \A fd : Listed(fd)' <=> Listed(fd)
    <2>1. \A fd : Listed(fd)' <=> In(fd, ready') \/ In(fd, txlist') \/ In(fd, ovflist')
        BY <1>4, ListedInNext
    <2>2. \A fd : Listed(fd) <=> In(fd, ready) \/ In(fd, txlist) \/ In(fd, ovflist)
        BY ListedIn DEF IInv
    <2>3. QED
        BY <1>1, <1>2, <1>3, <2>1, <2>2
<1>8. ASSUME NEW d \in Conns PROVE Watched(d)'
    BY <1>7, Bystander DEF IInv, Untouched, Collect
<1>9. QED
    BY <1>4, <1>5, <1>6, <1>8 DEF IInv

LEMMA ScanStep == IInv /\ Scan => IInv'
<1> SUFFICES ASSUME IInv, Scan PROVE IInv'
    OBVIOUS
<1> DEFINE h == Head(txlist)
           r == [fd |-> h, events |-> Events(h)]
<1>1. /\ ready \in Seq(Fds) /\ txlist \in Seq(Fds) /\ txlist # <<>>
      /\ batch \in Seq(Event) /\ txlist' = Tail(txlist) /\ scanning /\ scanning'
      /\ ovflist' = ovflist
    BY DEF IInv, TypeOK, Scan, Scanned, Fds, Event
<1>2. /\ h \in Fds /\ txlist' \in Seq(Fds)
      /\ \A x : In(x, txlist) <=> x = h \/ In(x, txlist')
      /\ Once(txlist') /\ ~In(h, txlist') /\ ~In(h, ready)
    <2>1. \A x : In(x, txlist) <=> x = h \/ In(x, txlist')
        BY <1>1, TailIn
    <2>2. h \in Fds /\ txlist' \in Seq(Fds)
        BY <1>1, TailIn
    <2>3. Once(txlist') /\ ~In(h, txlist')
        BY <1>1, TailOnce DEF IInv, ListedOnce
    <2>4. ~In(h, ready)
        BY <2>1, <2>2 DEF IInv, ListedOnce
    <2>5. QED
        BY <2>1, <2>2, <2>3, <2>4
<1>3. /\ r \in Event /\ r.fd = h /\ r.events = Events(h)
    <2>1. Events(h) \subseteq {"IN", "OUT", "RDHUP"}
        BY DEF Events, Mask, Polled
    <2>2. QED
        BY <1>2, <2>1 DEF Event
<1>4. \A i \in 1 .. Len(batch) : batch[i].fd # h
    BY <1>2 DEF IInv, ReportedOnce
<1>5. \A e : In(e, batch) => e.fd # h
    BY <1>4 DEF In
<1> HIDE DEF h, r
<1>6. CASE Events(h) = {} /\ UNCHANGED <<batch, arm, ready>>
    <2>1. TypeOK'
        BY <1>2, <1>6 DEF IInv, TypeOK, Scan, mode, Fds
    <2>2. ListedOnce'
        BY <1>1, <1>2, <1>6 DEF IInv, ListedOnce
    <2>3. ReportedOnce'
        BY <1>2, <1>6 DEF IInv, ReportedOnce
    <2>4. \A fd : Listed(fd) <=> In(fd, ready) \/ In(fd, txlist) \/ In(fd, ovflist)
        BY ListedIn DEF IInv
    <2>5. \A fd : Listed(fd)' <=> In(fd, ready') \/ In(fd, txlist') \/ In(fd, ovflist')
        BY <2>1, ListedInNext
    <2>6. ASSUME NEW d \in Conns, d # h PROVE Watched(d)'
        <3>1. Listed(d)' <=> Listed(d)
            BY <1>1, <1>2, <1>6, <2>4, <2>5, <2>6
        <3>2. QED
            BY <1>6, <3>1, Bystander DEF IInv, Untouched, Scan
    <2>7. ASSUME NEW d \in Conns, d = h PROVE Watched(d)'
        <3>1. arm'[d] = arm[d] /\ unread'[d] = unread[d] /\ eof'[d] = eof[d]
              /\ full'[d] = full[d] /\ batch' = batch
            BY <1>6 DEF Scan
        <3>2. d # Listener
            BY ReactorAssumption
        <3>3. ~HasEdge(d)
            <4>1. Events(d) = {}
                BY <1>6, <2>7
            <4>2. unread[d] \in Nat
                BY DEF IInv, TypeOK
            <4>3. arm[d] = "idle" => unread[d] = 0
                BY <3>2, <4>1, <4>2 DEF Events, Mask, Polled
            <4>4. QED
                BY <4>1, <4>2, <4>3 DEF HasEdge
        <3>4. HasEdge(d)' <=> HasEdge(d)
            BY <3>1, <3>2 DEF HasEdge, Events
        <3>5. Pending(d)' <=> Pending(d)
            BY <3>1 DEF Pending
        <3>6. QED
            BY <3>1, <3>3, <3>4, <3>5 DEF IInv, Watched
    <2>8. QED
        BY <2>1, <2>2, <2>3, <2>6, <2>7 DEF IInv
<1>7. CASE Report(h)
    <2> DEFINE lvl == ready' = Append(ready, h)
    <2>0. lvl \/ ready' = ready
        BY <1>7 DEF Report
    <2>1. /\ batch' = Append(batch, r) /\ Events(h) # {}
          /\ arm' = [c \in Conns |-> IF c = h /\ arm[c] \in OneShot THEN "off" ELSE arm[c]]
          /\ unread' = unread /\ eof' = eof /\ full' = full
        BY <1>7 DEF Report, Scan, r
    <2>2. /\ ready' \in Seq(Fds) /\ Once(ready')
          /\ \A x : In(x, ready') <=> In(x, ready) \/ (lvl /\ x = h)
        <3>1. CASE lvl
            BY <1>1, <1>2, <3>1, AppendIn, AppendOnce DEF IInv, ListedOnce
        <3>2. CASE ~lvl
            BY <1>1, <2>0, <3>2 DEF IInv, ListedOnce
        <3>3. QED
            BY <3>1, <3>2
    <2>3. /\ batch' \in Seq(Event) /\ Len(batch') = Len(batch) + 1 /\ Len(batch) \in Nat
          /\ \A e : In(e, batch') <=> In(e, batch) \/ e = r
          /\ \A i \in 1 .. Len(batch) + 1 :
                 batch'[i] = IF i <= Len(batch) THEN batch[i] ELSE r
        BY <1>1, <1>3, <2>1, AppendIn
    <2>4. TypeOK'
        <3>1. arm' \in [Conns -> Registered \cup {"none", "queued", "closed"}]
            BY <2>1 DEF IInv, TypeOK, Registered
        <3>2. QED
            BY <1>2, <2>2, <2>3, <3>1 DEF IInv, TypeOK, Scan, mode, Fds, Event
    <2>5. ListedOnce'
        BY <1>1, <1>2, <2>2 DEF IInv, ListedOnce
    <2>6. ReportedOnce'
        <3>1. ASSUME NEW i \in 1 .. Len(batch'), NEW j \in 1 .. Len(batch'),
                     batch'[i].fd = batch'[j].fd
              PROVE  i = j
            BY <1>3, <1>4, <2>3, <3>1 DEF IInv, ReportedOnce
        <3>2. \A i \in 1 .. Len(batch') : ~In(batch'[i].fd, txlist')
            BY <1>2, <1>3, <2>3 DEF IInv, ReportedOnce
        <3>3. QED
            BY <3>1, <3>2 DEF ReportedOnce
    <2>7. \A fd : Listed(fd) <=> In(fd, ready) \/ In(fd, txlist) \/ In(fd, ovflist)
        BY ListedIn DEF IInv
    <2>8. \A fd : Listed(fd)' <=> In(fd, ready') \/ In(fd, txlist') \/ In(fd, ovflist')
        BY <2>4, ListedInNext
    <2>9. ASSUME NEW d \in Conns, d # h PROVE Watched(d)'
        <3>1. Listed(d)' <=> Listed(d)
            BY <1>1, <1>2, <2>2, <2>7, <2>8, <2>9
        <3>2. \A e \in Event : e.fd = d => (In(e, batch') <=> In(e, batch))
            BY <1>3, <2>3, <2>9
        <3>3. arm'[d] = arm[d]
            BY <2>1, <2>9
        <3>4. QED
            BY <2>1, <3>1, <3>2, <3>3, Bystander DEF IInv, Untouched
    <2>10. ASSUME NEW d \in Conns, d = h PROVE Watched(d)'
        <3>1. d # Listener /\ unread[d] \in Nat
            BY ReactorAssumption DEF IInv, TypeOK
        <3>2. arm'[d] = IF arm[d] \in OneShot THEN "off" ELSE arm[d]
            BY <2>1, <2>10
        <3>3. arm[d] \in {"idle", "in", "out"}
            BY <2>1, <2>10, <3>1 DEF Events, Mask
        <3>4. Pending(d)'
            BY <1>3, <2>3, <2>10 DEF Pending
        <3>5. ASSUME NEW e \in Event, e.fd = d, In(e, batch'), "IN" \in e.events
              PROVE  unread'[d] > 0 \/ eof'[d]
            <4>1. e = r
                BY <1>5, <2>3, <2>10, <3>5
            <4>2. "IN" \in Events(d)
                BY <1>3, <2>10, <3>5, <4>1
            <4>3. unread[d] > 0 \/ eof[d]
                BY <3>1, <4>2 DEF Events, Polled
            <4>4. QED
                BY <2>1, <4>3
        <3>6. arm'[d] \in {"idle", "off"}
            BY <3>2, <3>3 DEF OneShot
        <3>7. QED
            BY <3>4, <3>5, <3>6 DEF Watched
    <2>11. QED
        BY <2>4, <2>5, <2>6, <2>9, <2>10 DEF IInv
<1>8. QED
    BY <1>6, <1>7 DEF Scan, h

(* The other actions put at most one descriptor into the ready list, or    *)
(* into that of the events of a scan.                                      *)
Kept == UNCHANGED <<ready, ovflist>>

LEMMA RequeuedTypes ==
    ASSUME IInv, NEW fd \in Fds, Kept \/ Enlist(fd)
    PROVE  ready' \in Seq(Fds) /\ ovflist' \in Seq(Fds)
BY EnlistTypes DEF IInv, TypeOK, Fds, Kept

LEMMA Requeued ==
    ASSUME IInv, TypeOK', NEW fd \in Fds, Kept \/ Enlist(fd),
           UNCHANGED <<scanning, txlist>>
    PROVE  /\ ListedOnce'
           /\ \A g : g # fd => (Listed(g)' <=> Listed(g))
           /\ \A g : Listed(g) => Listed(g)'
           /\ Enlist(fd) => Listed(fd)'
           /\ Kept => (Listed(fd)' <=> Listed(fd))
<1>1. \A g : Listed(g) <=> In(g, ready) \/ In(g, txlist) \/ In(g, ovflist)
    BY ListedIn DEF IInv
<1>2. \A g : Listed(g)' <=> In(g, ready') \/ In(g, txlist') \/ In(g, ovflist')
    BY ListedInNext
<1>3. CASE Kept
    <2>1. ListedOnce'
        BY <1>3 DEF IInv, ListedOnce, Kept
    <2>2. Enlist(fd) => Listed(fd)'
        BY <1>2, EnlistTypes DEF IInv
    <2>3. QED
        BY <1>1, <1>2, <1>3, <2>1, <2>2 DEF Kept
<1>4. CASE Enlist(fd)
    <2>1. ListedOnce'
        BY <1>4, EnlistOnce DEF IInv
    <2>2. /\ In(fd, ready') \/ In(fd, ovflist')
          /\ \A g : g # fd => (In(g, ready') <=> In(g, ready))
          /\ \A g : g # fd => (In(g, ovflist') <=> In(g, ovflist))
          /\ \A g : In(g, ready) => In(g, ready')
          /\ \A g : In(g, ovflist) => In(g, ovflist')
        BY <1>4, EnlistTypes DEF IInv
    <2>3. Kept => (Listed(fd)' <=> Listed(fd))
        BY <1>1, <1>2 DEF Kept
    <2>4. QED
        BY <1>1, <1>2, <2>1, <2>2, <2>3
<1>5. QED
    BY <1>3, <1>4

(* One event is handled: what remains is to look at its descriptor c.      *)
LEMMA HandledStep ==
    ASSUME IInv, TypeOK', Handle, NEW c \in Fds,
           Kept \/ Enlist(c),
           \A d \in Conns \ {c} : /\ arm'[d] = arm[d] /\ unread'[d] = unread[d]
                                  /\ eof'[d] = eof[d] /\ full'[d] = full[d],
           \A d \in Conns : d = c \/ d # Current,
           c \in Conns => Watched(c)'
    PROVE  IInv'
<1>1. UNCHANGED <<scanning, txlist>>
    BY DEF Handle
<1>2. ListedOnce' /\ \A g : g # c => (Listed(g)' <=> Listed(g))
    BY <1>1, Requeued
<1>3. ReportedOnce' /\ \A e : e.fd # Current => (In(e, batch') <=> In(e, batch))
    BY HandleEntries DEF IInv
<1>4. ASSUME NEW d \in Conns, d # c PROVE Watched(d)'
    <2>1. d # Current
        BY <1>4
    <2>2. Untouched(d)
        BY <1>2, <1>3, <1>4, <2>1 DEF Untouched
    <2>3. QED
        BY <2>2, Bystander DEF IInv
<1>5. QED
    BY <1>2, <1>3, <1>4 DEF IInv

(* Before its event is handled, a descriptor is idle or disabled; after    *)
(* it, it is not pending any more.                                         *)
LEMMA CurrentEvent ==
    ASSUME IInv, Handle, Current # Listener
    PROVE  /\ Current \in Conns
           /\ arm[Current] \in {"idle", "off"}
           /\ "IN" \in Fired => unread[Current] > 0 \/ eof[Current]
           /\ \A e : In(e, batch') => e.fd # Current
<1>1. /\ Head(batch) \in Event /\ In(Head(batch), batch)
      /\ \A e : In(e, batch') => e.fd # Current
    BY HandleEntries DEF IInv
<1>2. Current \in Conns
    BY <1>1 DEF Current, Event, Fds
<1>3. Pending(Current)
    BY <1>1 DEF Pending, Current
<1>4. QED
    BY <1>1, <1>2, <1>3 DEF IInv, Watched, Current, Fired

(* Polling a connection whose registration or state has changed.           *)
LEMMA Polls ==
    ASSUME NEW c \in Conns, Poll(c)
    PROVE  /\ Kept \/ Enlist(c)
           /\ Events(c)' # {} => Enlist(c)
<1>1. c # Listener
    BY ReactorAssumption
<1>2. QED
    BY <1>1 DEF Poll, Events, Kept

LEMMA EdgeHasEvent ==
    ASSUME TypeOK', NEW c \in Conns, HasEdge(c)'
    PROVE  Events(c)' # {}
<1>1. c # Listener /\ unread'[c] \in Nat
    BY ReactorAssumption DEF TypeOK
<1>2. CASE arm'[c] \in OneShot
    BY <1>2 DEF HasEdge
<1>3. CASE arm'[c] = "idle" /\ unread'[c] > 0
    <2>1. "IN" \in Events(c)'
        BY <1>1, <1>3 DEF Events, Mask, Polled
    <2>2. QED
        BY <2>1
<1>4. QED
    BY <1>2, <1>3 DEF HasEdge

LEMMA AcceptStep == IInv /\ Accept => IInv'
<1> SUFFICES ASSUME IInv, Accept PROVE IInv'
    OBVIOUS
<1>1. backlog \in Seq(Conns) /\ backlog # <<>>
    BY DEF IInv, TypeOK, Accept
<1>2. Head(backlog) \in Conns /\ backlog' \in Seq(Conns)
    BY <1>1 DEF Accept
<1> PICK c \in Conns : c = Head(backlog)
    BY <1>2
<1>3. Handle /\ Poll(c) /\ arm' = [arm EXCEPT ![c] = "idle"]
      /\ Current = Listener /\ UNCHANGED <<mode, unread, eof, full, sent>>
    BY DEF Accept
<1>4. Kept \/ Enlist(c)
    BY <1>2, <1>3, Polls
<1>5. TypeOK'
    <2>1. arm' \in [Conns -> Registered \cup {"none", "queued", "closed"}]
        BY <1>3 DEF IInv, TypeOK, Registered
    <2>2. ready' \in Seq(Fds) /\ ovflist' \in Seq(Fds)
        BY <1>2, <1>4, RequeuedTypes DEF Fds
    <2>3. batch' \in Seq(Event)
        BY <1>3, HandleEntries DEF IInv
    <2>4. QED
        BY <1>2, <1>3, <2>1, <2>2, <2>3 DEF IInv, TypeOK, mode, Handle, Fds, Event
<1>6. arm'[c] = "idle" /\ \A d \in Conns \ {c} : arm'[d] = arm[d]
    BY <1>2, <1>3 DEF IInv, TypeOK
<1>7. \A d \in Conns : d # Current
    BY <1>3, ReactorAssumption
<1>8. Watched(c)'
    <2>1. HasEdge(c)' => Listed(c)'
        <3>1. HasEdge(c)' => Enlist(c)
            BY <1>2, <1>3, <1>5, Polls, EdgeHasEvent
        <3>2. UNCHANGED <<scanning, txlist>>
            BY <1>3 DEF Handle
        <3>3. QED
            BY <1>2, <1>4, <1>5, <3>1, <3>2, Requeued DEF Fds
    <2>2. \A e : In(e, batch') => In(e, batch)
        BY <1>3, HandleEntries DEF IInv
    <2>3. \A e \in Event : e.fd = c /\ In(e, batch') /\ "IN" \in e.events
              => unread'[c] > 0 \/ eof'[c]
        BY <1>2, <1>3, <2>2 DEF IInv, Watched
    <2>4. QED
        BY <1>6, <2>1, <2>3 DEF Watched
<1>9. QED
    BY <1>2, <1>3, <1>4, <1>5, <1>6, <1>7, <1>8, HandledStep DEF Fds

LEMMA ReadNothingStep == IInv /\ ReadNothing => IInv'
<1> SUFFICES ASSUME IInv, ReadNothing PROVE IInv'
    OBVIOUS
<1> PICK c \in Conns : c = Current
    BY CurrentEvent DEF ReadNothing
<1>1. /\ arm[c] \in {"idle", "off"}
      /\ unread[c] > 0 \/ eof[c]
      /\ \A e : In(e, batch') => e.fd # c
    BY CurrentEvent DEF ReadNothing
<1>2. Handle /\ unread[c] = 0 /\ Kept
      /\ UNCHANGED <<mode, backlog, arm, unread, eof, full, sent>>
    BY DEF ReadNothing, Kept
<1>3. TypeOK'
    <2>1. batch' \in Seq(Event)
        BY <1>2, HandleEntries DEF IInv
    <2>2. QED
        BY <1>2, <2>1 DEF IInv, TypeOK, mode, Kept, Handle, Fds, Event
<1>4. Listed(c)' <=> Listed(c)
    <2>1. UNCHANGED <<scanning, txlist>>
        BY <1>2 DEF Handle
    <2>2. QED
        BY <1>1, <1>2, <1>3, <2>1, Requeued DEF Fds
<1>5. Watched(c)'
    BY <1>1, <1>2, <1>4 DEF Watched, HasEdge, OneShot
<1>6. QED
    BY <1>1, <1>2, <1>3, <1>5, HandledStep DEF Fds

LEMMA HangUpStep == IInv /\ HangUp => IInv'
<1> SUFFICES ASSUME IInv, HangUp PROVE IInv'
    OBVIOUS
<1> PICK c \in Conns : c = Current
    BY CurrentEvent DEF HangUp
<1>1. \A e : In(e, batch') => e.fd # c
    BY CurrentEvent DEF HangUp
<1>2. Handle /\ Kept /\ arm' = [arm EXCEPT ![c] = "closed"]
      /\ UNCHANGED <<mode, backlog, unread, eof, full, sent>>
    BY DEF HangUp, Kept
<1>3. arm'[c] = "closed" /\ \A d \in Conns \ {c} : arm'[d] = arm[d]
    BY <1>1, <1>2 DEF IInv, TypeOK
<1>4. TypeOK'
    <2>1. batch' \in Seq(Event)
        BY <1>2, HandleEntries DEF IInv
    <2>2. arm' \in [Conns -> Registered \cup {"none", "queued", "closed"}]
        BY <1>2 DEF IInv, TypeOK
    <2>3. QED
        BY <1>2, <2>1, <2>2 DEF IInv, TypeOK, mode, Kept, Handle, Fds, Event
<1>5. Watched(c)'
    BY <1>1, <1>3 DEF Watched, HasEdge, OneShot, Pending
<1>6. QED
    BY <1>1, <1>2, <1>3, <1>4, <1>5, HandledStep DEF Fds

LEMMA ReadStep == "none" \notin Outcomes /\ IInv /\ Read => IInv'
<1> SUFFICES ASSUME "none" \notin Outcomes, IInv, Read PROVE IInv'
    OBVIOUS
<1> PICK c \in Conns : c = Current
    BY CurrentEvent DEF Read
<1>1. PICK outcome \in Outcomes :
          /\ arm' = [arm EXCEPT ![c] = Rearmed(@, outcome)]
          /\ UNCHANGED <<mode, backlog, eof, full, sent>>
          /\ IF arm'[c] = arm[c] THEN UNCHANGED <<ready, ovflist>> ELSE Poll(c)
    BY DEF Read
<1>2. Handle /\ unread' = [unread EXCEPT ![c] = Drained(@)]
    BY DEF Read
<1>3. /\ arm[c] \in {"idle", "off"}
      /\ \A e : In(e, batch') => e.fd # c
    BY CurrentEvent DEF Read
<1>4. outcome \in OneShot
    BY ReactorAssumption DEF OneShot
<1>5. /\ arm'[c] = outcome
      /\ \A d \in Conns \ {c} : arm'[d] = arm[d] /\ unread'[d] = unread[d]
    BY <1>1, <1>2, <1>4 DEF IInv, TypeOK, Rearmed, OneShot
<1>6. Poll(c)
    BY <1>1, <1>3, <1>4, <1>5 DEF OneShot
<1>7. Kept \/ Enlist(c)
    BY <1>6, Polls
<1>8. TypeOK'
    <2>1. batch' \in Seq(Event)
        BY <1>2, HandleEntries DEF IInv
    <2>2. arm' \in [Conns -> Registered \cup {"none", "queued", "closed"}]
        BY <1>1, <1>4 DEF IInv, TypeOK, Registered, Rearmed, OneShot
    <2>3. unread' \in [Conns -> Nat]
        BY <1>2, ReactorAssumption DEF IInv, TypeOK, Drained
    <2>4. ready' \in Seq(Fds) /\ ovflist' \in Seq(Fds)
        BY <1>7, RequeuedTypes DEF Fds
    <2>5. QED
        BY <1>1, <1>2, <2>1, <2>2, <2>3, <2>4 DEF IInv, TypeOK, mode, Handle, Fds, Event
<1>9. Watched(c)'
    <2>1. HasEdge(c)' => Enlist(c)
        BY <1>6, <1>8, Polls, EdgeHasEvent
    <2>2. UNCHANGED <<scanning, txlist>>
        BY <1>2 DEF Handle
    <2>3. HasEdge(c)' => Listed(c)'
        BY <1>7, <1>8, <2>1, <2>2, Requeued DEF Fds
    <2>4. QED
        BY <1>3, <1>4, <1>5, <2>3 DEF Watched, Pending, OneShot
<1>10. QED
    BY <1>1, <1>2, <1>5, <1>7, <1>8, <1>9, HandledStep DEF Fds

LEMMA WriteStep == IInv /\ Write => IInv'
<1> SUFFICES ASSUME IInv, Write PROVE IInv'
    OBVIOUS
<1> PICK c \in Conns : c = Current
    BY CurrentEvent DEF Write
<1>1. PICK noroom \in BOOLEAN : full' = [full EXCEPT ![c] = noroom]
    BY DEF Write
<1>2. /\ Handle /\ arm' = [arm EXCEPT ![c] = AfterWrite(@)]
      /\ UNCHANGED <<mode, backlog, unread, eof, sent>>
      /\ IF arm'[c] = arm[c] THEN UNCHANGED <<ready, ovflist>> ELSE Poll(c)
    BY DEF Write
<1>3. /\ arm[c] \in {"idle", "off"}
      /\ \A e : In(e, batch') => e.fd # c
    BY CurrentEvent DEF Write
<1>4. /\ arm'[c] = "in"
      /\ \A d \in Conns \ {c} : arm'[d] = arm[d] /\ full'[d] = full[d]
    BY <1>1, <1>2 DEF IInv, TypeOK, AfterWrite
<1>5. Poll(c)
    BY <1>2, <1>3, <1>4
<1>6. Kept \/ Enlist(c)
    BY <1>5, Polls
<1>7. TypeOK'
    <2>1. batch' \in Seq(Event)
        BY <1>2, HandleEntries DEF IInv
    <2>2. arm' \in [Conns -> Registered \cup {"none", "queued", "closed"}]
        BY <1>2 DEF IInv, TypeOK, Registered, AfterWrite
    <2>3. full' \in [Conns -> BOOLEAN]
        BY <1>1 DEF IInv, TypeOK
    <2>4. ready' \in Seq(Fds) /\ ovflist' \in Seq(Fds)
        BY <1>6, RequeuedTypes DEF Fds
    <2>5. QED
        BY <1>2, <2>1, <2>2, <2>3, <2>4 DEF IInv, TypeOK, mode, Handle, Fds, Event
<1>8. Watched(c)'
    <2>1. HasEdge(c)' => Enlist(c)
        BY <1>5, <1>7, Polls, EdgeHasEvent
    <2>2. UNCHANGED <<scanning, txlist>>
        BY <1>2 DEF Handle
    <2>3. HasEdge(c)' => Listed(c)'
        BY <1>6, <1>7, <2>1, <2>2, Requeued DEF Fds
    <2>4. QED
        BY <1>3, <1>4, <2>3 DEF Watched, Pending, OneShot
<1>9. QED
    BY <1>2, <1>4, <1>6, <1>7, <1>8, HandledStep DEF Fds

-----------------------------------------------------------------------------
(* A peer does something on its connection c.                              *)
LEMMA PeerMoves ==
    ASSUME IInv, TypeOK', NEW c \in Conns, NEW fd \in {c, Listener},
           Kept \/ Enlist(fd), UNCHANGED <<scanning, txlist, batch>>,
           \A d \in Conns \ {c} : /\ arm'[d] = arm[d] /\ unread'[d] = unread[d]
                                  /\ eof'[d] = eof[d] /\ full'[d] = full[d],
           Watched(c)'
    PROVE  IInv'
<1>1. fd \in Fds
    BY DEF Fds
<1>2. ListedOnce' /\ \A g : g # fd => (Listed(g)' <=> Listed(g))
    BY <1>1, Requeued
<1>3. ReportedOnce'
    BY DEF IInv, ReportedOnce
<1>4. ASSUME NEW d \in Conns, d # c PROVE Watched(d)'
    <2>1. d # fd
        BY <1>4, ReactorAssumption
    <2>2. Untouched(d)
        BY <1>2, <1>4, <2>1 DEF Untouched
    <2>3. QED
        BY <2>2, Bystander DEF IInv
<1>5. QED
    BY <1>2, <1>3, <1>4 DEF IInv

LEMMA PeerConnectsStep ==
    ASSUME IInv, NEW c \in Conns, PeerConnects(c) PROVE IInv'
<1>1. /\ Enlist(Listener) /\ arm' = [arm EXCEPT ![c] = "queued"] /\ arm[c] = "none"
      /\ backlog' = Append(backlog, c)
      /\ UNCHANGED <<mode, unread, eof, full, scanning, txlist, batch, sent>>
    BY DEF PeerConnects
<1>2. arm'[c] = "queued" /\ \A d \in Conns \ {c} : arm'[d] = arm[d]
    BY <1>1 DEF IInv, TypeOK
<1>3. TypeOK'
    <2>1. ready' \in Seq(Fds) /\ ovflist' \in Seq(Fds)
        BY <1>1, RequeuedTypes DEF Fds
    <2>2. arm' \in [Conns -> Registered \cup {"none", "queued", "closed"}]
        BY <1>1 DEF IInv, TypeOK
    <2>3. backlog' \in Seq(Conns)
        BY <1>1, AppendIn DEF IInv, TypeOK
    <2>4. QED
        BY <1>1, <2>1, <2>2, <2>3 DEF IInv, TypeOK, mode, Fds, Event
<1>4. Watched(c)'
    <2>1. ~Pending(c)
        BY <1>1 DEF IInv, Watched
    <2>2. ~Pending(c)'
        BY <1>1, <2>1 DEF Pending
    <2>3. \A e \in Event : ~(e.fd = c /\ In(e, batch'))
        BY <2>2 DEF Pending
    <2>4. QED
        BY <1>2, <2>2, <2>3 DEF Watched, HasEdge, OneShot
<1>5. QED
    BY <1>1, <1>2, <1>3, <1>4, PeerMoves

LEMMA PeerSendsStep ==
    ASSUME IInv, NEW c \in Conns, PeerSends(c) PROVE IInv'
<1>1. /\ unread' = [unread EXCEPT ![c] = @ + 1] /\ ~eof[c]
      /\ sent' = [sent EXCEPT ![c] = @ + 1]
      /\ UNCHANGED <<mode, backlog, arm, eof, full, scanning, txlist, batch>>
      /\ IF "IN" \in Mask(arm[c]) THEN Poll(c) ELSE Kept
    BY DEF PeerSends, Kept
<1>2. /\ unread'[c] = unread[c] + 1 /\ unread[c] \in Nat
      /\ \A d \in Conns \ {c} : unread'[d] = unread[d]
    BY <1>1 DEF IInv, TypeOK
<1>3. Kept \/ Enlist(c)
    BY <1>1, Polls
<1>4. TypeOK'
    <2>1. ready' \in Seq(Fds) /\ ovflist' \in Seq(Fds)
        BY <1>3, RequeuedTypes DEF Fds
    <2>2. unread' \in [Conns -> Nat] /\ sent' \in [Conns -> Nat]
        BY <1>1 DEF IInv, TypeOK
    <2>3. QED
        BY <1>1, <2>1, <2>2 DEF IInv, TypeOK, mode, Fds, Event
<1>5. /\ Listed(c) => Listed(c)'
      /\ Enlist(c) => Listed(c)'
      /\ Kept => (Listed(c)' <=> Listed(c))
    BY <1>1, <1>3, <1>4, Requeued DEF Fds
<1>6. Pending(c)' <=> Pending(c)
    BY <1>1 DEF Pending
<1>7. CASE "IN" \in Mask(arm[c])
    <2>1. arm[c] \in {"idle", "in"}
        BY <1>7 DEF Mask
    <2>2. HasEdge(c)' => Listed(c)'
        BY <1>1, <1>4, <1>5, <1>7, Polls, EdgeHasEvent
    <2>3. Watched(c)'
        BY <1>1, <1>2, <1>6, <2>1, <2>2 DEF IInv, Watched
    <2>4. QED
        BY <1>1, <1>2, <1>3, <1>4, <2>3, PeerMoves
<1>8. CASE "IN" \notin Mask(arm[c])
    <2>1. arm[c] \notin {"idle", "in"}
        BY <1>8 DEF Mask
    <2>2. c # Listener
        BY ReactorAssumption
    <2>3. HasEdge(c)' <=> HasEdge(c)
        BY <1>1, <2>1, <2>2 DEF HasEdge, OneShot, Events, Mask, Polled
    <2>4. Watched(c)'
        BY <1>1, <1>2, <1>5, <1>6, <1>8, <2>3 DEF IInv, Watched
    <2>5. QED
        BY <1>1, <1>2, <1>3, <1>4, <2>4, PeerMoves
<1>9. QED
    BY <1>7, <1>8

LEMMA PeerReadsStep ==
    ASSUME IInv, NEW c \in Conns, PeerReads(c) PROVE IInv'
<1>1. /\ full' = [full EXCEPT ![c] = FALSE]
      /\ UNCHANGED <<mode, backlog, arm, unread, eof, scanning, txlist, batch, sent>>
      /\ IF "OUT" \in Mask(arm[c]) THEN Poll(c) ELSE Kept
    BY DEF PeerReads, Kept
<1>2. \A d \in Conns \ {c} : full'[d] = full[d]
    BY <1>1 DEF IInv, TypeOK
<1>3. Kept \/ Enlist(c)
    BY <1>1, Polls
<1>4. TypeOK'
    <2>1. ready' \in Seq(Fds) /\ ovflist' \in Seq(Fds)
        BY <1>3, RequeuedTypes DEF Fds
    <2>2. full' \in [Conns -> BOOLEAN]
        BY <1>1 DEF IInv, TypeOK
    <2>3. QED
        BY <1>1, <2>1, <2>2 DEF IInv, TypeOK, mode, Fds, Event
<1>5. /\ Listed(c) => Listed(c)'
      /\ Enlist(c) => Listed(c)'
      /\ Kept => (Listed(c)' <=> Listed(c))
    BY <1>1, <1>3, <1>4, Requeued DEF Fds
<1>6. Pending(c)' <=> Pending(c)
    BY <1>1 DEF Pending
<1>7. CASE "OUT" \in Mask(arm[c])
    <2>1. arm[c] = "out"
        BY <1>7 DEF Mask
    <2>2. HasEdge(c)' => Listed(c)'
        BY <1>1, <1>4, <1>5, <1>7, Polls, EdgeHasEvent
    <2>3. Watched(c)'
        BY <1>1, <1>6, <2>1, <2>2 DEF IInv, Watched
    <2>4. QED
        BY <1>1, <1>2, <1>3, <1>4, <2>3, PeerMoves
<1>8. CASE "OUT" \notin Mask(arm[c])
    <2>1. arm[c] # "out" /\ c # Listener
        BY <1>8, ReactorAssumption DEF Mask
    <2>2. HasEdge(c)' <=> HasEdge(c)
        BY <1>1, <2>1 DEF HasEdge, OneShot, Events, Mask, Polled
    <2>3. Watched(c)'
        BY <1>1, <1>5, <1>6, <1>8, <2>2 DEF IInv, Watched
    <2>4. QED
        BY <1>1, <1>2, <1>3, <1>4, <2>3, PeerMoves
<1>9. QED
    BY <1>7, <1>8

LEMMA PeerShutsDownStep ==
    ASSUME IInv, NEW c \in Conns, PeerShutsDown(c) PROVE IInv'
<1>1. /\ eof' = [eof EXCEPT ![c] = TRUE] /\ Poll(c)
      /\ UNCHANGED <<mode, backlog, arm, unread, full, scanning, txlist, batch, sent>>
      /\ ~eof[c]
    BY DEF PeerShutsDown
<1>2. eof'[c] = TRUE /\ \A d \in Conns \ {c} : eof'[d] = eof[d]
    BY <1>1 DEF IInv, TypeOK
<1>3. Kept \/ Enlist(c)
    BY <1>1, Polls
<1>4. TypeOK'
    <2>1. ready' \in Seq(Fds) /\ ovflist' \in Seq(Fds)
        BY <1>3, RequeuedTypes DEF Fds
    <2>2. eof' \in [Conns -> BOOLEAN]
        BY <1>1 DEF IInv, TypeOK
    <2>3. QED
        BY <1>1, <2>1, <2>2 DEF IInv, TypeOK, mode, Fds, Event
<1>5. /\ Enlist(c) => Listed(c)'
      /\ Kept => (Listed(c)' <=> Listed(c))
    BY <1>1, <1>3, <1>4, Requeued DEF Fds
<1>6. Pending(c)' <=> Pending(c)
    BY <1>1 DEF Pending
<1>7. HasEdge(c)' => Listed(c)'
    BY <1>1, <1>4, <1>5, Polls, EdgeHasEvent
<1>8. Watched(c)'
    BY <1>1, <1>2, <1>6, <1>7 DEF IInv, Watched
<1>9. QED
    BY <1>1, <1>2, <1>3, <1>4, <1>8, PeerMoves

-----------------------------------------------------------------------------
LEMMA Initially == Init => IInv
<1> SUFFICES ASSUME Init PROVE IInv
    OBVIOUS
<1>1. TypeOK
    <2>1. mode \in Modes
        <3>1. PICK m \in Modes : is_et_lis = m[1] /\ is_et_conn = m[2]
            BY DEF Init
        <3>2. m = <<m[1], m[2]>>
            BY ReactorAssumption
        <3>3. QED
            BY <3>1, <3>2 DEF mode
    <2>2. <<>> \in Seq(Conns) /\ <<>> \in Seq(Conns \cup {Listener})
        OBVIOUS
    <2>3. <<>> \in Seq([fd : Conns \cup {Listener},
                       events : SUBSET {"IN", "OUT", "RDHUP"}])
        OBVIOUS
    <2>4. arm \in [Conns -> Registered \cup {"none", "queued", "closed"}]
        BY DEF Init
    <2>5. unread \in [Conns -> Nat] /\ sent \in [Conns -> Nat]
        BY DEF Init
    <2>6. eof \in [Conns -> BOOLEAN] /\ full \in [Conns -> BOOLEAN]
        BY DEF Init
    <2>7. QED
        BY <2>1, <2>2, <2>3, <2>4, <2>5, <2>6 DEF Init, TypeOK
<1>2. \A x : ~In(x, <<>>)
    BY DEF In
<1>3. ListedOnce /\ ReportedOnce
    BY <1>2 DEF Init, ListedOnce, ReportedOnce, Once
<1>4. ASSUME NEW c \in Conns PROVE Watched(c)
    BY <1>2 DEF Init, Watched, Pending, HasEdge, OneShot
<1>5. QED
    BY <1>1, <1>3, <1>4 DEF IInv

LEMMA Inductive == "none" \notin Outcomes /\ IInv /\ [Next]_vars => IInv'
<1> SUFFICES ASSUME "none" \notin Outcomes, IInv, [Next]_vars PROVE IInv'
    OBVIOUS
<1>1. CASE ServerStep
    BY <1>1, StartScanStep, ScanStep, CollectStep, EndScanStep, AcceptStep,
       ReadNothingStep, ReadStep, WriteStep, HangUpStep DEF ServerStep, Wait
<1>2. ASSUME NEW c \in Conns, PeerStep(c) PROVE IInv'
    BY <1>2, PeerConnectsStep, PeerSendsStep, PeerReadsStep, PeerShutsDownStep
       DEF PeerStep
<1>3. CASE UNCHANGED vars
    <2>1. ASSUME NEW c \in Conns PROVE Watched(c)'
        <3>1. Untouched(c)
            BY <1>3 DEF vars, epoll, Untouched, Listed, Linked
        <3>2. QED
            BY <3>1, Bystander DEF IInv
    <2>2. TypeOK' /\ ListedOnce' /\ ReportedOnce'
        BY <1>3 DEF vars, epoll, mode, IInv, TypeOK, ListedOnce, ReportedOnce
    <2>3. QED
        BY <2>1, <2>2 DEF IInv
<1>4. QED
    BY <1>1, <1>2, <1>3 DEF Next

LEMMA Invariance == "none" \notin Outcomes => (Spec => []IInv)
<1> SUFFICES ASSUME "none" \notin Outcomes PROVE Spec => []IInv
    OBVIOUS
<1>1. IInv /\ [Next]_vars => IInv'
    BY Inductive
<1>2. QED
    BY <1>1, Initially, PTL DEF Spec

LEMMA PendingInBatch ==
    ASSUME TypeOK, NEW c \in Conns
    PROVE  Pending(c) <=> InBatch(c)
<1>1. batch \in Seq(Event)
    BY DEF TypeOK, Event, Fds
<1>2. /\ DOMAIN batch = 1 .. Len(batch)
      /\ \A i \in 1 .. Len(batch) : batch[i] \in Event
    <2> HIDE DEF Event
    <2>1. QED
        BY <1>1
<1>3. QED
    BY <1>2 DEF Pending, InBatch, In

(* The variables of the loop keep their types (Server::epoll_wait).        *)
THEOREM TypeCorrect == "none" \notin Outcomes => (Spec => []TypeOK)
<1>1. IInv => TypeOK
    BY DEF IInv
<1>2. QED
    BY <1>1, Invariance, PTL

(* A service that re-arms whatever it reads leaves no peer with a disabled *)
(* descriptor, unless that peer has shut down and all it sent was read     *)
(* (server.cpp:41-50, 70-80).                                              *)
THEOREM NoneDisarmed == "none" \notin Outcomes => (Spec => []NoneLeftDisarmed)
<1>1. IInv => NoneLeftDisarmed
    BY PendingInBatch DEF IInv, Watched, NoneLeftDisarmed
<1>2. QED
    BY <1>1, Invariance, PTL

(* Such a service loses no edge: an armed descriptor with something to     *)
(* report is in a list of epoll or in the batch (server.cpp:26-98).        *)
THEOREM NoEdgeIsLost == "none" \notin Outcomes => (Spec => []NoEdgeLost)
<1>1. IInv => NoEdgeLost
    BY PendingInBatch DEF IInv, Watched, NoEdgeLost, HasEdge
<1>2. QED
    BY <1>1, Invariance, PTL
=============================================================================
