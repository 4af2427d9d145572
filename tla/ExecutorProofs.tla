--------------------------- MODULE ExecutorProofs ---------------------------
(***************************************************************************)
(* The executor runs a graph of tasks as TaskGraph promises, leaves        *)
(* nothing of the graph behind when wait() returns, and lets no worker     *)
(* sleep over a task: for every acyclic graph and every number of workers. *)
(***************************************************************************)
EXTENDS Executor, FiniteSetTheorems, TLAPS

-----------------------------------------------------------------------------
(* What is in a sequence, and whether it is there once. *)
In(x, s) == \E i \in 1 .. Len(s) : s[i] = x
Once(s) == \A i, j \in 1 .. Len(s) : s[i] = s[j] => i = j

LEMMA AppendIn ==
    ASSUME NEW S, NEW s \in Seq(S), NEW x \in S, NEW y
    PROVE  /\ In(y, Append(s, x)) <=> In(y, s) \/ y = x
           /\ Append(s, x) \in Seq(S)
           /\ Len(Append(s, x)) = Len(s) + 1
           /\ \A i \in 1 .. Len(s) + 1 :
                  Append(s, x)[i] = IF i <= Len(s) THEN s[i] ELSE x
<1> DEFINE t == Append(s, x)
<1>1. /\ Len(t) = Len(s) + 1 /\ t \in Seq(S) /\ Len(s) \in Nat
      /\ \A i \in 1 .. Len(s) + 1 : t[i] = IF i <= Len(s) THEN s[i] ELSE x
    OBVIOUS
<1>2. In(y, t) <=> In(y, s) \/ y = x
    <2> HIDE DEF t
    <2>1. ASSUME In(y, t) PROVE In(y, s) \/ y = x
        BY <1>1, <2>1 DEF In
    <2>2. ASSUME In(y, s) PROVE In(y, t)
        BY <1>1, <2>2 DEF In
    <2>3. t[Len(s) + 1] = x /\ Len(s) + 1 \in 1 .. Len(t)
        BY <1>1
    <2>4. QED
        BY <2>1, <2>2, <2>3 DEF In
<1>3. QED
    BY <1>1, <1>2

LEMMA AppendOnce ==
    ASSUME NEW S, NEW s \in Seq(S), NEW x \in S, Once(s), ~In(x, s)
    PROVE  Once(Append(s, x))
<1> DEFINE t == Append(s, x)
<1>1. /\ Len(t) = Len(s) + 1 /\ Len(s) \in Nat
      /\ \A i \in 1 .. Len(s) + 1 : t[i] = IF i <= Len(s) THEN s[i] ELSE x
    BY AppendIn
<1> HIDE DEF t
<1>2. QED
    BY <1>1 DEF Once, In

LEMMA TailIn ==
    ASSUME NEW S, NEW s \in Seq(S), s # <<>>, NEW y
    PROVE  /\ In(y, s) <=> y = Head(s) \/ In(y, Tail(s))
           /\ Head(s) \in S /\ Tail(s) \in Seq(S)
           /\ Len(s) \in Nat \ {0} /\ Len(Tail(s)) = Len(s) - 1
           /\ Head(s) = s[1]
           /\ \A i \in 1 .. Len(s) - 1 : Tail(s)[i] = s[i + 1]
<1> DEFINE t == Tail(s)
<1>1. /\ Len(s) \in Nat \ {0} /\ Head(s) = s[1] /\ Head(s) \in S
      /\ Len(t) = Len(s) - 1 /\ t \in Seq(S)
      /\ \A i \in 1 .. Len(s) - 1 : t[i] = s[i + 1]
    OBVIOUS
<1>2. In(y, s) <=> y = Head(s) \/ In(y, t)
    <2> HIDE DEF t
    <2>1. ASSUME NEW i \in 1 .. Len(s), s[i] = y, i # 1 PROVE In(y, t)
        <3>1. i - 1 \in 1 .. Len(t) /\ t[i - 1] = y
            BY <1>1, <2>1
        <3>2. QED
            BY <3>1 DEF In
    <2>2. ASSUME In(y, t) PROVE In(y, s)
        <3>1. PICK i \in 1 .. Len(t) : t[i] = y
            BY <2>2 DEF In
        <3>2. i + 1 \in 1 .. Len(s) /\ s[i + 1] = y
            BY <1>1, <3>1
        <3>3. QED
            BY <3>2 DEF In
    <2>3. QED
        BY <1>1, <2>1, <2>2 DEF In
<1>3. QED
    BY <1>1, <1>2

LEMMA TailOnce ==
    ASSUME NEW S, NEW s \in Seq(S), s # <<>>, Once(s)
    PROVE  Once(Tail(s)) /\ ~In(Head(s), Tail(s))
<1> DEFINE t == Tail(s)
<1>1. /\ Len(t) = Len(s) - 1 /\ Len(s) \in Nat \ {0} /\ Head(s) = s[1]
      /\ \A i \in 1 .. Len(s) - 1 : t[i] = s[i + 1]
    BY TailIn
<1> HIDE DEF t
<1>2. \A i \in 1 .. Len(t) : i + 1 \in 1 .. Len(s) /\ i + 1 # 1 /\ t[i] = s[i + 1]
    BY <1>1
<1>3. ASSUME NEW i \in 1 .. Len(t), NEW j \in 1 .. Len(t), t[i] = t[j] PROVE i = j
    <2>1. i + 1 = j + 1
        BY <1>2, <1>3 DEF Once
    <2>2. QED
        BY <2>1, <1>1
<1>4. ~In(Head(s), t)
    <2>1. ASSUME NEW i \in 1 .. Len(t), t[i] = s[1] PROVE FALSE
        BY <1>1, <1>2, <2>1 DEF Once
    <2>2. QED
        BY <1>1, <2>1 DEF In
<1>5. QED
    BY <1>3, <1>4 DEF Once, t

LEMMA ConcatIn ==
    ASSUME NEW S, NEW s \in Seq(S), NEW t \in Seq(S), NEW y
    PROVE  In(y, s \o t) <=> In(y, s) \/ In(y, t)
<1> DEFINE u == s \o t
<1>1. /\ Len(u) = Len(s) + Len(t) /\ Len(s) \in Nat /\ Len(t) \in Nat
      /\ \A i \in 1 .. Len(s) + Len(t) :
            u[i] = IF i <= Len(s) THEN s[i] ELSE t[i - Len(s)]
    OBVIOUS
<1> HIDE DEF u
<1>2. ASSUME NEW i \in 1 .. Len(t) PROVE i + Len(s) \in 1 .. Len(u) /\ u[i + Len(s)] = t[i]
    BY <1>1
<1>3. ASSUME NEW i \in 1 .. Len(s) PROVE i \in 1 .. Len(u) /\ u[i] = s[i]
    BY <1>1
<1>4. ASSUME In(y, u) PROVE In(y, s) \/ In(y, t)
    BY <1>1, <1>4 DEF In
<1>5. ASSUME In(y, s) PROVE In(y, u)
    BY <1>3, <1>5 DEF In
<1>6. ASSUME In(y, t) PROVE In(y, u)
    BY <1>2, <1>6 DEF In
<1>7. QED
    BY <1>4, <1>5, <1>6 DEF u

LEMMA ConcatOnce ==
    ASSUME NEW S, NEW s \in Seq(S), NEW t \in Seq(S), Once(s), Once(t),
           \A y \in S : ~(In(y, s) /\ In(y, t))
    PROVE  Once(s \o t)
<1> DEFINE u == s \o t
<1>1. /\ Len(u) = Len(s) + Len(t) /\ Len(s) \in Nat /\ Len(t) \in Nat
      /\ \A i \in 1 .. Len(s) + Len(t) :
            u[i] = IF i <= Len(s) THEN s[i] ELSE t[i - Len(s)]
      /\ \A i \in 1 .. Len(s) : s[i] \in S
    OBVIOUS
<1> HIDE DEF u
<1>2. SUFFICES ASSUME NEW i \in 1 .. Len(u), NEW j \in 1 .. Len(u), u[i] = u[j]
               PROVE  i = j
    BY DEF Once, u
<1>3. \A p \in 1 .. Len(s), q \in 1 .. Len(t) : s[p] # t[q]
    BY <1>1 DEF In
<1>4. CASE i <= Len(s) /\ j <= Len(s)
    BY <1>1, <1>2, <1>4 DEF Once
<1>5. CASE i > Len(s) /\ j > Len(s)
    <2>1. i - Len(s) \in 1 .. Len(t) /\ j - Len(s) \in 1 .. Len(t)
        BY <1>1, <1>5
    <2>2. t[i - Len(s)] = t[j - Len(s)]
        BY <1>1, <1>2, <1>5
    <2>3. i - Len(s) = j - Len(s)
        BY <2>1, <2>2 DEF Once
    <2>4. QED
        BY <2>3, <1>1
<1>6. CASE i <= Len(s) /\ j > Len(s)
    <2>1. i \in 1 .. Len(s) /\ j - Len(s) \in 1 .. Len(t)
        BY <1>1, <1>6
    <2>2. s[i] = t[j - Len(s)]
        BY <1>1, <1>2, <1>6
    <2>3. QED
        BY <1>3, <2>1, <2>2
<1>7. CASE i > Len(s) /\ j <= Len(s)
    <2>1. j \in 1 .. Len(s) /\ i - Len(s) \in 1 .. Len(t)
        BY <1>1, <1>7
    <2>2. s[j] = t[i - Len(s)]
        BY <1>1, <1>2, <1>7
    <2>3. QED
        BY <1>3, <2>1, <2>2
<1>8. QED
    BY <1>1, <1>4, <1>5, <1>6, <1>7

-----------------------------------------------------------------------------
(* Where a worker is: at its loop over the successors, on the way to wait, *)
(* or at nothing of the graph.                                             *)
Loop == {"successors", "pushed"}

Deciding ==
    {"check shared", "check done", "scan", "commit", "cancel", "cancel and leave"}

Idle == {"explore", "prepare", "parked", "leave", "gone"} \cup Deciding

(* A worker is at a task, or has one in its cache (which is not emptied    *)
(* before the worker finishes its next task).                              *)
HasNode(w) == pc[w] \in {"stolen", "begin", "body"} \cup Loop

HasCache(w) ==
    pc[w] \in Loop \cup {"settle", "decrement", "next"} /\ cache[w] # NoTask

-----------------------------------------------------------------------------
(* A task that is released and has not come to its end is in one place: in *)
(* a queue (0 is the shared one), with a worker, or in a worker's cache.   *)
Queues == 0 .. mode.workers
Queue(q) == IF q = 0 THEN shared ELSE wsq[q]

Kinds == {"queue", "node", "cache"}

Holds(k, q, t) ==
    \/ k = "queue" /\ In(t, Queue(q))
    \/ k = "node" /\ q # 0 /\ HasNode(q) /\ node[q] = t
    \/ k = "cache" /\ q # 0 /\ HasCache(q) /\ cache[q] = t

Active == {t \in Tasks(mode) : \E k \in Kinds, q \in Queues : Holds(k, q, t)}

OnePlace ==
    /\ \A q \in Queues : Once(Queue(q))
    /\ \A t \in Tasks(mode), k, l \in Kinds, q, r \in Queues :
           Holds(k, q, t) /\ Holds(l, r, t) => k = l /\ q = r

(* What has been called and what has returned. *)
Unbegun(k, q) == k = "node" => pc[q] \in {"stolen", "begin"}

Progress ==
    /\ ended \subseteq begun /\ begun \subseteq ended \cup Active
    /\ \A t \in Tasks(mode), k \in Kinds, q \in Queues :
           Holds(k, q, t) /\ Unbegun(k, q) => t \notin begun
    /\ \A w \in Workers :
           /\ HasNode(w) => node[w] \in Tasks(mode)
           /\ pc[w] = "body" => node[w] \in begun \ ended
           /\ pc[w] \in Loop => node[w] \in ended /\ index[w] >= 1

(* An edge has been gone along when its first task has ended and no worker *)
(* has it before it in its loop.  A task waits for the others.             *)
Consumed(e) ==
    /\ e[1] \in ended
    /\ \A w \in Workers : pc[w] \in Loop /\ node[w] = e[1] => e[2] < index[w]

Pending(t) == {e \in Into(t) : ~Consumed(e)}

Counters ==
    main # "run" =>
        /\ \A t \in Tasks(mode) :
               /\ join[t] = Cardinality(Pending(t)) + (IF t \in ended THEN Dependents(t) ELSE 0)
               /\ Pending(t) = {} <=> t \in ended \cup Active
        /\ left = Cardinality(Active)

(* Before the run, and after it. *)
NotBegun ==
    main = "run" =>
        /\ shared = <<>> /\ begun = {} /\ ~promise
        /\ \A w \in Workers : wsq[w] = <<>> /\ pc[w] \in Idle

Over ==
    /\ promise \/ (\E w \in Workers : pc[w] = "settle") => Active = {} /\ ended = Tasks(mode)
    /\ promise => \A w \in Workers : pc[w] # "settle"
    /\ \A v, w \in Workers : pc[v] = "settle" /\ pc[w] = "settle" => v = w
    /\ main \in {"returned", "shutdown", "join", "end"} => promise
    /\ done => promise
    /\ \A w \in Workers : pc[w] \in {"cancel and leave", "leave", "gone"} => done

GraphInv == TypeOK /\ OnePlace /\ Progress /\ Counters /\ NotBegun /\ Over

-----------------------------------------------------------------------------
(* A worker that will look into queue q, or notify another one, before it  *)
(* sleeps; a waiter that is not in prewait any more has been notified.     *)
Watches(w, q) ==
    \/ pc[w] \in {"explore", "stolen", "pushed", "prepare", "check shared", "cancel"}
    \/ pc[w] = "check done" /\ q # 0
    \/ pc[w] = "scan" /\ q # 0 /\ index[w] <= q
    \/ pc[w] \in Deciding /\ ~In(w, prewait)

Waiters ==
    /\ main = "notify" => notices >= 1
    /\ Once(prewait) /\ Once(parked)
    /\ \A w \in Workers :
           /\ In(w, parked) <=> pc[w] = "parked"
           /\ In(w, prewait) => pc[w] \in Deciding
           /\ pc[w] = "scan" => index[w] >= 1

Watched ==
    \A q \in Queues :
        Queue(q) # <<>> /\ (prewait # <<>> \/ parked # <<>>) =>
            main = "notify" \/ \E w \in Workers : Watches(w, q)

WakeInv == Waiters /\ Watched

IInv == GraphInv /\ WakeInv

-----------------------------------------------------------------------------
(* The graph *)

LEMMA ModeIs ==
    ASSUME TypeOK
    PROVE  /\ Mode(mode) /\ NoTask \notin Tasks(mode)
           /\ mode.workers \in Nat \ {0}
           /\ mode.next \in [Tasks(mode) -> Seq(Tasks(mode))]
           /\ \A w \in Workers : w \in Queues /\ w # 0 /\ w \in Nat
           /\ \A q \in Queues : q # 0 => q \in Workers
           /\ 0 \in Queues
BY ExecutorAssumption DEF TypeOK, Mode, Workers, Queues

LEMMA SameGraph ==
    ASSUME mode' = mode
    PROVE  /\ Workers' = Workers /\ Queues' = Queues /\ Edges' = Edges /\ Sources' = Sources
           /\ \A t : Into(t)' = Into(t) /\ Dependents(t)' = Dependents(t)
BY DEF Workers, Queues, Edges, Sources, Into, Dependents, Target

LEMMA EdgeIs ==
    ASSUME TypeOK, NEW e \in Edges
    PROVE  /\ e[1] \in Tasks(mode) /\ e[2] \in Nat \ {0}
           /\ e = <<e[1], e[2]>>
           /\ e[2] \in 1 .. Len(mode.next[e[1]])
           /\ Target(e) \in Tasks(mode)
<1>1. PICK a \in Tasks(mode) : e \in {a} \X (1 .. Len(mode.next[a]))
    BY DEF Edges
<1>2. e[1] = a /\ e[2] \in 1 .. Len(mode.next[a]) /\ e = <<e[1], e[2]>>
    BY <1>1
<1>3. mode.next[a] \in Seq(Tasks(mode))
    BY ModeIs
<1>4. mode.next[a][e[2]] \in Tasks(mode) /\ e[2] \in Nat \ {0}
    BY <1>2, <1>3
<1>5. QED
    BY <1>2, <1>4 DEF Target

LEMMA EdgeExists ==
    ASSUME TypeOK, NEW a \in Tasks(mode), NEW i \in 1 .. Len(mode.next[a])
    PROVE  <<a, i>> \in Edges /\ Target(<<a, i>>) = mode.next[a][i]
BY DEF Edges, Target

LEMMA GraphFinite ==
    ASSUME TypeOK
    PROVE  /\ IsFiniteSet(Tasks(mode))
           /\ \A t : IsFiniteSet(Into(t)) /\ Dependents(t) \in Nat
           /\ \A t : Dependents(t) = 0 <=> Into(t) = {}
<1> DEFINE T == Tasks(mode)
           n == Len(mode.order)
           Out(a) == {a} \X (1 .. Len(mode.next[a]))
           All == {Out(a) : a \in T}
<1>1. IsFiniteSet(T)
    <2>1. mode.order \in Seq(T)
        BY ModeIs DEF Mode
    <2>2. n \in Nat /\ \A i \in 1 .. n : mode.order[i] \in T
        BY <2>1
    <2> DEFINE f == [i \in 1 .. n |-> mode.order[i]]
    <2>3. f \in [1 .. n -> T]
        BY <2>2
    <2>4. \A t \in T : \E i \in 1 .. n : f[i] = t
        BY DEF Tasks
    <2>5. f \in Surjection(1 .. n, T)
        BY <2>3, <2>4 DEF Surjection
    <2>6. IsFiniteSet(1 .. n)
        BY <2>2, FS_Interval
    <2> HIDE DEF f, T
    <2>7. QED
        BY <2>5, <2>6, FS_Surjection
<1>2. ASSUME NEW a \in T PROVE IsFiniteSet(Out(a))
    <2>1. Len(mode.next[a]) \in Nat
        BY ModeIs
    <2>2. IsFiniteSet(1 .. Len(mode.next[a]))
        BY <2>1, FS_Interval
    <2>3. IsFiniteSet({a})
        BY FS_Singleton
    <2>4. QED
        BY <2>2, <2>3, FS_Product
<1>3. IsFiniteSet(All)
    <2> DEFINE g == [a \in T |-> Out(a)]
    <2>1. g \in Surjection(T, All)
        BY DEF Surjection
    <2> HIDE DEF g, T, All
    <2>2. QED
        BY <1>1, <2>1, FS_Surjection
<1>4. \A S \in All : IsFiniteSet(S)
    BY <1>2
<1>5. IsFiniteSet(UNION All)
    <2> HIDE DEF All
    <2>1. QED
        BY <1>3, <1>4, FS_UNION
<1>6. Edges = UNION All
    BY DEF Edges
<1>7. \A t : Into(t) \in SUBSET Edges
    BY DEF Into
<1>8. \A t : IsFiniteSet(Into(t))
    <2> HIDE DEF All
    <2>1. QED
        BY <1>5, <1>6, <1>7, FS_Subset
<1>9. \A t : Dependents(t) \in Nat /\ (Dependents(t) = 0 <=> Into(t) = {})
    BY <1>8, FS_CardinalityType, FS_EmptySet DEF Dependents
<1>10. QED
    BY <1>1, <1>8, <1>9

(* A task that nothing of S precedes, in any set S of tasks. *)
LEMMA Minimal ==
    ASSUME TypeOK, NEW S, S \subseteq Tasks(mode), S # {}
    PROVE  \E t \in S : \A e \in Into(t) : e[1] \notin S
<1>1. PICK t \in S : \A a \in S : \A i \in 1 .. Len(mode.next[a]) : mode.next[a][i] # t
    BY ModeIs DEF Mode, Acyclic
<1>2. ASSUME NEW e \in Into(t) PROVE e[1] \notin S
    <2>1. e \in Edges /\ Target(e) = t
        BY DEF Into
    <2>2. QED
        BY <1>1, <2>1, EdgeIs DEF Target
<1>3. QED
    BY <1>2

LEMMA SourcesExist ==
    ASSUME TypeOK
    PROVE  /\ Sources \subseteq Tasks(mode) /\ IsFiniteSet(Sources)
           /\ Cardinality(Sources) \in Nat \ {0}
<1>1. Sources \in SUBSET Tasks(mode)
    BY DEF Sources
<1>2. IsFiniteSet(Sources) /\ Cardinality(Sources) \in Nat
    BY <1>1, GraphFinite, FS_Subset, FS_CardinalityType
<1>3. Tasks(mode) # {}
    <2>1. mode.order \in Seq(Tasks(mode)) /\ mode.order # <<>>
        BY ModeIs DEF Mode
    <2>2. mode.order[1] \in Tasks(mode)
        BY <2>1
    <2>3. QED
        BY <2>2
<1>4. PICK t \in Tasks(mode) : \A e \in Into(t) : e[1] \notin Tasks(mode)
    BY <1>3, Minimal
<1>5. Into(t) = {}
    BY <1>4, EdgeIs DEF Into
<1>6. t \in Sources
    BY <1>5, GraphFinite DEF Sources
<1>7. QED
    BY <1>1, <1>2, <1>6, FS_EmptySet

(* The sources in their order: each of them, once.                         *)
LEMMA InOrderIs ==
    ASSUME TypeOK, NEW s \in InOrder(Sources)
    PROVE  /\ s \in Seq(Tasks(mode)) /\ Once(s)
           /\ Len(s) = Cardinality(Sources)
           /\ \A t : In(t, s) <=> t \in Sources
<1> DEFINE n == Cardinality(Sources)
<1>1. /\ n \in Nat /\ IsFiniteSet(Sources) /\ Sources \subseteq Tasks(mode)
      /\ s \in [1 .. n -> Sources]
      /\ \A i, j \in 1 .. n : i < j => Emplaced(s[i], s[j])
    BY SourcesExist DEF InOrder
<1> HIDE DEF n
<1>2. s \in Seq(Sources) /\ Len(s) = n /\ s \in Seq(Tasks(mode))
    BY <1>1
<1>3. \A t : ~Emplaced(t, t)
    <2>1. Len(mode.order) \in Nat
        BY ModeIs DEF Mode
    <2>2. QED
        BY <2>1, ModeIs DEF Emplaced, Mode
<1>4. ASSUME NEW i \in 1 .. n, NEW j \in 1 .. n, s[i] = s[j] PROVE i = j
    <2>1. ~(i < j) /\ ~(j < i)
        BY <1>1, <1>3, <1>4
    <2>2. i \in Int /\ j \in Int
        BY <1>1
    <2>3. QED
        BY <2>1, <2>2
<1>5. s \in Injection(1 .. n, Sources)
    BY <1>1, <1>4 DEF Injection, IsInjective
<1>6. IsFiniteSet(1 .. n) /\ Cardinality(1 .. n) = n
    BY <1>1, FS_Interval
<1>7. s \in Surjection(1 .. n, Sources)
    BY <1>1, <1>5, <1>6, FS_Injection DEF n
<1>8. \A t \in Sources : \E i \in 1 .. n : s[i] = t
    BY <1>7 DEF Surjection
<1>9. Once(s)
    BY <1>2, <1>4 DEF Once
<1>10. \A t : In(t, s) <=> t \in Sources
    BY <1>1, <1>2, <1>8 DEF In
<1>11. QED
    BY <1>2, <1>9, <1>10 DEF n

-----------------------------------------------------------------------------
(* Queues and the notifier *)

LEMMA FrontIn ==
    ASSUME NEW S, NEW s \in Seq(S), s # <<>>, NEW y
    PROVE  /\ Popped(s) \in S /\ AfterPop(s) \in Seq(S)
           /\ In(y, s) <=> y = Popped(s) \/ In(y, AfterPop(s))
           /\ Once(s) => Once(AfterPop(s)) /\ ~In(Popped(s), AfterPop(s))
<1> DEFINE t == AfterPop(s)
           n == Len(s)
<1>1. n \in Nat \ {0}
    OBVIOUS
<1>2. s[n] \in S
    BY <1>1
<1>3. /\ t \in Seq(S) /\ Len(t) = n - 1
      /\ \A i \in 1 .. n - 1 : t[i] = s[i]
    <2> DEFINE u == [i \in 1 .. n - 1 |-> s[i]]
    <2>1. n - 1 \in Nat
        BY <1>1
    <2>2. t = u
        BY <1>1 DEF AfterPop
    <2>3. \A i \in 1 .. n - 1 : s[i] \in S
        BY <1>1
    <2>4. u \in Seq(S) /\ Len(u) = n - 1
        BY <2>1, <2>3
    <2>5. QED
        BY <2>2, <2>4
<1>4. Popped(s) = s[n]
    BY DEF Popped
<1> HIDE DEF t
<1>5. In(y, s) <=> y = s[n] \/ In(y, t)
    <2>1. ASSUME NEW i \in 1 .. n, s[i] = y, i # n PROVE In(y, t)
        <3>1. i \in 1 .. n - 1
            BY <1>1, <2>1
        <3>2. QED
            BY <1>3, <2>1, <3>1 DEF In
    <2>2. \A i \in 1 .. Len(t) : i \in 1 .. n
        BY <1>1, <1>3
    <2>3. QED
        BY <1>1, <1>3, <2>1, <2>2 DEF In
<1>6. Once(s) => Once(t) /\ ~In(s[n], t)
    <2>1. \A i \in 1 .. Len(t) : i \in 1 .. n /\ i # n /\ t[i] = s[i]
        BY <1>1, <1>3
    <2>2. QED
        BY <1>1, <2>1 DEF Once, In
<1>7. QED
    BY <1>1, <1>2, <1>3, <1>4, <1>5, <1>6 DEF t

LEMMA PrependIn ==
    ASSUME NEW S, NEW s \in Seq(S), NEW x \in S, NEW y
    PROVE  /\ <<x>> \o s \in Seq(S) /\ <<x>> \o s # <<>>
           /\ In(y, <<x>> \o s) <=> y = x \/ In(y, s)
           /\ Once(s) /\ ~In(x, s) => Once(<<x>> \o s)
<1>1. <<x>> \in Seq(S) /\ <<x>> \o s \in Seq(S) /\ <<x>> \o s # <<>>
    OBVIOUS
<1>2. Len(<<x>>) = 1 /\ <<x>>[1] = x
    OBVIOUS
<1>3. \A z : In(z, <<x>>) <=> z = x
    BY <1>2 DEF In
<1>4. Once(<<x>>)
    BY <1>2 DEF Once
<1>5. In(y, <<x>> \o s) <=> y = x \/ In(y, s)
    BY <1>1, <1>3, ConcatIn
<1>6. ASSUME Once(s), ~In(x, s) PROVE Once(<<x>> \o s)
    <2>1. \A z \in S : ~(In(z, <<x>>) /\ In(z, s))
        BY <1>3, <1>6
    <2>2. QED
        BY <1>1, <1>4, <1>6, <2>1, ConcatOnce
<1>7. QED
    BY <1>1, <1>5, <1>6

LEMMA EmptyIn == \A y : ~In(y, <<>>)
BY DEF In

LEMMA NotifiedIs ==
    ASSUME NEW w
    PROVE  Notified(w) <=> ~In(w, prewait)
BY DEF Notified, In

(* A waiter that has not decided yet is notified, or one is woken. *)
LEMMA NotifyOneIs ==
    ASSUME TypeOK, NEW next \in [Workers -> Labels], NotifyOne(next)
    PROVE  /\ pc' \in [Workers -> Labels]
           /\ prewait' \in Seq(Workers) /\ parked' \in Seq(Workers)
           /\ \/ /\ prewait # <<>> /\ prewait' = Tail(prewait)
                 /\ parked' = parked /\ pc' = next
              \/ /\ prewait = <<>> /\ parked # <<>> /\ parked' = Tail(parked)
                 /\ Head(parked) \in Workers
                 /\ prewait' = prewait /\ pc' = [next EXCEPT ![Head(parked)] = "explore"]
              \/ /\ prewait = <<>> /\ parked = <<>>
                 /\ prewait' = prewait /\ parked' = parked /\ pc' = next
<1>1. prewait \in Seq(Workers) /\ parked \in Seq(Workers) /\ "explore" \in Labels
    BY DEF TypeOK, Labels
<1>2. CASE prewait # <<>>
    <2>1. prewait' = Tail(prewait) /\ pc' = next /\ parked' = parked
        BY <1>2 DEF NotifyOne, notifier
    <2>2. Tail(prewait) \in Seq(Workers)
        BY <1>1, <1>2
    <2>3. QED
        BY <1>1, <1>2, <2>1, <2>2
<1>3. CASE prewait = <<>> /\ parked # <<>>
    <2>1. /\ parked' = Tail(parked) /\ prewait' = prewait
          /\ pc' = [next EXCEPT ![Head(parked)] = "explore"]
        BY <1>3 DEF NotifyOne, notifier
    <2>2. Tail(parked) \in Seq(Workers) /\ Head(parked) \in Workers
        BY <1>1, <1>3
    <2>3. pc' \in [Workers -> Labels]
        BY <1>1, <2>1, <2>2
    <2>4. QED
        BY <1>1, <1>3, <2>1, <2>2, <2>3
<1>4. CASE prewait = <<>> /\ parked = <<>>
    <2>1. prewait' = prewait /\ parked' = parked /\ pc' = next
        BY <1>4 DEF NotifyOne, notifier
    <2>2. QED
        BY <1>1, <1>4, <2>1
<1>5. QED
    BY <1>2, <1>3, <1>4

LEMMA NotifyAllIs ==
    ASSUME TypeOK, NEW next \in [Workers -> Labels], NotifyAll(next)
    PROVE  /\ pc' \in [Workers -> Labels]
           /\ prewait' = <<>> /\ parked' = <<>>
           /\ \A u \in Workers : pc'[u] = IF In(u, parked) THEN "explore" ELSE next[u]
<1>1. "explore" \in Labels
    BY DEF Labels
<1>2. /\ prewait' = <<>> /\ parked' = <<>>
      /\ pc' = [u \in Workers |-> IF In(u, parked) THEN "explore" ELSE next[u]]
    BY DEF NotifyAll, In
<1>3. QED
    BY <1>1, <1>2

(* One worker goes on. *)
LEMMA AtIs ==
    ASSUME TypeOK, NEW w \in Workers, NEW label \in Labels
    PROVE  /\ At(w, label) \in [Workers -> Labels]
           /\ \A u \in Workers : At(w, label)[u] = IF u = w THEN label ELSE pc[u]
BY DEF At, TypeOK

LEMMA DecideIs ==
    ASSUME TypeOK, NEW w \in Workers, Decide(w)
    PROVE  /\ prewait # <<>> /\ prewait' = Tail(prewait) /\ prewait' \in Seq(Workers)
           /\ Head(prewait) = w
BY DEF Decide, TypeOK

-----------------------------------------------------------------------------
(* Types *)

LEMMA TypeInit == Init => TypeOK
<1> SUFFICES ASSUME Init PROVE TypeOK
    OBVIOUS
<1>1. mode \in Modes /\ NoTask \in Tasks(mode) \cup {NoTask} /\ "explore" \in Labels
    BY DEF Init, Labels
<1>2. \A S : <<>> \in Seq(S)
    OBVIOUS
<1>3. shared \in Seq(Tasks(mode)) /\ wsq \in [Workers -> Seq(Tasks(mode))]
    BY <1>2 DEF Init
<1>4. prewait \in Seq(Workers) /\ parked \in Seq(Workers)
    BY <1>2 DEF Init
<1>5. pc \in [Workers -> Labels] /\ vtm \in [Workers -> Workers]
    BY <1>1 DEF Init
<1>6. /\ node \in [Workers -> Tasks(mode) \cup {NoTask}]
      /\ cache \in [Workers -> Tasks(mode) \cup {NoTask}]
      /\ index \in [Workers -> Nat]
    BY <1>1 DEF Init
<1>7. join \in [Tasks(mode) -> Int]
    BY DEF Init
<1>8. promise \in BOOLEAN /\ done \in BOOLEAN
    BY DEF Init
<1>9. /\ main \in {"run", "notify", "wait", "returned", "shutdown", "join", "end"}
      /\ notices \in Nat /\ left \in Int /\ topologies \in Int
      /\ begun \subseteq Tasks(mode) /\ ended \subseteq Tasks(mode)
    BY DEF Init
<1>10. QED
    BY <1>1, <1>3, <1>4, <1>5, <1>6, <1>7, <1>8, <1>9 DEF TypeOK

(* The steps that only change the notifier and where workers are. *)
LEMMA NotifyOneTypes ==
    ASSUME TypeOK, NEW next \in [Workers -> Labels], NotifyOne(next),
           UNCHANGED <<mode, main, notices, queues, counters, done, local, history>>
    PROVE  TypeOK'
<1>1. /\ pc' \in [Workers -> Labels]
      /\ prewait' \in Seq(Workers) /\ parked' \in Seq(Workers)
    BY NotifyOneIs
<1>2. Workers' = Workers
    BY SameGraph
<1>3. QED
    BY <1>1, <1>2 DEF TypeOK, queues, counters, local, history

LEMMA NotifyAllTypes ==
    ASSUME TypeOK, NEW next \in [Workers -> Labels], NotifyAll(next),
           UNCHANGED <<mode, notices, queues, counters, done, local, history>>,
           main' \in {"run", "notify", "wait", "returned", "shutdown", "join", "end"}
    PROVE  TypeOK'
<1>1. /\ pc' \in [Workers -> Labels] /\ prewait' = <<>> /\ parked' = <<>>
    BY NotifyAllIs
<1>2. <<>> \in Seq(Workers)
    OBVIOUS
<1>3. Workers' = Workers
    BY SameGraph
<1>4. QED
    BY <1>1, <1>2, <1>3 DEF TypeOK, queues, counters, local, history

LEMMA MainTypes ==
    ASSUME TypeOK, Waiters, MainStep
    PROVE  TypeOK'
<1>0. pc \in [Workers -> Labels]
    BY DEF TypeOK
<1>1. CASE Run
    <2>1. PICK s \in InOrder(Sources) : Schedule(s)
        BY <1>1 DEF Run, SetUpTopology
    <2>2. s \in Seq(Tasks(mode)) /\ Len(s) \in Nat
        BY InOrderIs
    <2>3. shared \o s \in Seq(Tasks(mode))
        BY <2>2 DEF TypeOK
    <2>4. \A t : Dependents(t) \in Int
        BY GraphFinite
    <2>5. join' \in [Tasks(mode) -> Int] /\ left' \in Int
        BY <1>1, <2>4, SourcesExist DEF Run, SetUpTopology
    <2>6. mode' = mode /\ Workers' = Workers
        BY <1>1, SameGraph DEF Run
    <2>7. shared' \in Seq(Tasks(mode)) /\ notices' \in Nat
        BY <2>1, <2>2, <2>3 DEF Schedule
    <2>8. QED
        BY <1>1, <2>5, <2>6, <2>7 DEF Run, TypeOK, notifier, local, history
<1>2. CASE MainNotify
    <2>1. /\ notices \in Nat \ {0} /\ mode.workers \in Nat
          /\ main' \in {"wait", "notify"} /\ mode' = mode
        BY <1>2, ModeIs DEF MainNotify, TypeOK, Waiters
    <2>2. notices' \in Nat
        BY <1>2, <2>1 DEF MainNotify
    <2>3. /\ pc' \in [Workers -> Labels]
          /\ prewait' \in Seq(Workers) /\ parked' \in Seq(Workers)
        <3>1. CASE notices >= mode.workers
            <4>1. NotifyAll(pc)
                BY <1>2, <3>1 DEF MainNotify
            <4>2. <<>> \in Seq(Workers)
                OBVIOUS
            <4>3. QED
                BY <1>0, <4>1, <4>2, NotifyAllIs
        <3>2. CASE ~(notices >= mode.workers)
            <4>1. NotifyOne(pc)
                BY <1>2, <3>2 DEF MainNotify
            <4>2. QED
                BY <1>0, <4>1, NotifyOneIs
        <3>3. QED
            BY <3>1, <3>2
    <2>4. Workers' = Workers
        BY <2>1, SameGraph
    <2>5. QED
        BY <1>2, <2>1, <2>2, <2>3, <2>4 DEF MainNotify, TypeOK, queues, counters, local, history
<1>3. CASE Return
    <2>1. mode' = mode /\ Workers' = Workers
        BY <1>3, SameGraph DEF Return
    <2>2. QED
        BY <1>3, <2>1 DEF Return, TypeOK, queues, counters, notifier, local, history
<1>4. CASE Shutdown
    <2>1. mode' = mode /\ Workers' = Workers
        BY <1>4, SameGraph DEF Shutdown
    <2>2. QED
        BY <1>4, <2>1 DEF Shutdown, TypeOK, queues, counters, notifier, local, history
<1>5. CASE NotifyShutdown
    BY <1>0, <1>5, NotifyAllTypes DEF NotifyShutdown
<1>6. CASE Joined
    <2>1. mode' = mode /\ Workers' = Workers
        BY <1>6, SameGraph DEF Joined
    <2>2. QED
        BY <1>6, <2>1 DEF Joined, TypeOK, queues, counters, notifier, local, history
<1>7. QED
    BY <1>1, <1>2, <1>3, <1>4, <1>5, <1>6 DEF MainStep

(* Steps towards waiting. *)
LEMMA WaitTypes ==
    ASSUME TypeOK, Waiters, NEW w \in Workers,
           \/ StealFails(w) \/ NotifyThief(w) \/ PrepareWait(w) \/ CheckShared(w)
           \/ CheckDone(w) \/ Scan(w) \/ CancelWait(w) \/ CommitWait(w) \/ Leave(w)
    PROVE  TypeOK'
<1>0. mode' = mode /\ Workers' = Workers /\ mode.tries \in Nat
    BY SameGraph, ModeIs DEF Mode, StealFails, NotifyThief, PrepareWait, CheckShared, CheckDone,
       Scan, CancelWait, CommitWait, Leave
<1> USE DEF queues, counters, local, history
<1>1. CASE StealFails(w)
    <2>1. index[w] \in Nat /\ index[w] + 1 \in Nat
        BY DEF TypeOK
    <2>2. vtm' \in [Workers -> Workers]
        BY <1>1 DEF StealFails, TypeOK
    <2>3. index' \in [Workers -> Nat] /\ pc' \in [Workers -> Labels]
        <3>1. CASE done \/ index[w] = mode.tries
            <4>1. pc' = At(w, "prepare") /\ index' = [index EXCEPT ![w] = 0]
                BY <1>1, <3>1 DEF StealFails
            <4>2. QED
                BY <4>1, AtIs DEF TypeOK, Labels
        <3>2. CASE ~(done \/ index[w] = mode.tries)
            <4>1. pc' = pc /\ index' = [index EXCEPT ![w] = index[w] + 1]
                BY <1>1, <3>2 DEF StealFails, TypeOK
            <4>2. QED
                BY <2>1, <4>1 DEF TypeOK
        <3>3. QED
            BY <3>1, <3>2
    <2>4. QED
        BY <1>0, <1>1, <2>2, <2>3 DEF StealFails, TypeOK, notifier
<1>2. CASE NotifyThief(w)
    <2>1. PICK next \in [Workers -> Labels] : next = At(w, "begin")
        BY AtIs DEF Labels
    <2>2. NotifyOne(next)
        BY <1>2, <2>1 DEF NotifyThief
    <2>3. QED
        BY <1>2, <2>2, NotifyOneTypes DEF NotifyThief
<1>3. CASE PrepareWait(w)
    <2>1. Append(prewait, w) \in Seq(Workers)
        BY DEF TypeOK
    <2>2. At(w, "check shared") \in [Workers -> Labels]
        BY AtIs DEF Labels
    <2>3. QED
        BY <1>0, <1>3, <2>1, <2>2 DEF PrepareWait, TypeOK
<1>4. CASE CheckShared(w)
    <2>1. At(w, "cancel") \in [Workers -> Labels] /\ At(w, "check done") \in [Workers -> Labels]
        BY AtIs DEF Labels
    <2>2. pc' \in [Workers -> Labels] /\ vtm' \in [Workers -> Workers]
        BY <1>4, <2>1 DEF CheckShared, TypeOK
    <2>3. QED
        BY <1>0, <1>4, <2>2 DEF CheckShared, TypeOK, notifier
<1>5. CASE CheckDone(w)
    <2>1. /\ At(w, "cancel and leave") \in [Workers -> Labels]
          /\ At(w, "scan") \in [Workers -> Labels]
        BY AtIs DEF Labels
    <2>2. index' \in [Workers -> Nat]
        <3>1. index' = index \/ index' = [index EXCEPT ![w] = 1]
            BY <1>5 DEF CheckDone
        <3>2. index \in [Workers -> Nat]
            BY DEF TypeOK
        <3>3. QED
            BY <3>1, <3>2
    <2>3. pc' = At(w, "cancel and leave") \/ pc' = At(w, "scan")
        BY <1>5 DEF CheckDone
    <2>4. QED
        BY <1>0, <1>5, <2>1, <2>2, <2>3 DEF CheckDone, TypeOK, notifier
<1>6. CASE Scan(w)
    <2>1. At(w, "commit") \in [Workers -> Labels] /\ At(w, "cancel") \in [Workers -> Labels]
        BY AtIs DEF Labels
    <2>2. index[w] \in Nat /\ index[w] + 1 \in Nat /\ index \in [Workers -> Nat]
        BY DEF TypeOK
    <2>3. CASE ScanEnds(w)
        <3>1. pc' = At(w, "commit") /\ index' = [index EXCEPT ![w] = 0] /\ vtm' = vtm
            BY <1>6, <2>3 DEF Scan
        <3>2. QED
            BY <1>0, <1>6, <2>1, <2>2, <3>1 DEF Scan, TypeOK, notifier
    <2>4. CASE ~ScanEnds(w) /\ wsq[index[w]] # <<>>
        <3>1. /\ pc' = At(w, "cancel") /\ index' = [index EXCEPT ![w] = 0]
              /\ vtm' = [vtm EXCEPT ![w] = index[w]]
            BY <1>6, <2>4 DEF Scan
        <3>2. pc[w] = "scan"
            BY <1>6 DEF Scan
        <3>3. index[w] \in Workers
            BY <2>2, <2>4, <3>2, ModeIs DEF ScanEnds, Workers, Waiters
        <3>4. vtm' \in [Workers -> Workers]
            BY <3>1, <3>3 DEF TypeOK
        <3>5. QED
            BY <1>0, <1>6, <2>1, <2>2, <3>1, <3>4 DEF Scan, TypeOK, notifier
    <2>5. CASE ~ScanEnds(w) /\ wsq[index[w]] = <<>>
        <3>1. index' = [index EXCEPT ![w] = index[w] + 1] /\ pc' = pc /\ vtm' = vtm
            BY <1>6, <2>5 DEF Scan, TypeOK
        <3>2. QED
            BY <1>0, <1>6, <2>2, <3>1 DEF Scan, TypeOK, notifier
    <2>6. QED
        BY <2>3, <2>4, <2>5
<1>7. CASE CancelWait(w)
    <2>1. At(w, "explore") \in [Workers -> Labels] /\ At(w, "leave") \in [Workers -> Labels]
        BY AtIs DEF Labels
    <2>2. prewait' \in Seq(Workers)
        BY <1>7, DecideIs DEF CancelWait, TypeOK
    <2>3. QED
        BY <1>0, <1>7, <2>1, <2>2 DEF CancelWait, TypeOK
<1>8. CASE CommitWait(w)
    <2>1. At(w, "explore") \in [Workers -> Labels] /\ At(w, "parked") \in [Workers -> Labels]
        BY AtIs DEF Labels
    <2>2. prewait' \in Seq(Workers)
        BY <1>8, DecideIs DEF CommitWait, TypeOK, notifier
    <2>3. <<w>> \o parked \in Seq(Workers)
        BY PrependIn DEF TypeOK
    <2>4. QED
        BY <1>0, <1>8, <2>1, <2>2, <2>3 DEF CommitWait, TypeOK, notifier
<1>9. CASE Leave(w)
    <2>1. PICK next \in [Workers -> Labels] : next = At(w, "gone")
        BY AtIs DEF Labels
    <2>2. NotifyAll(next) /\ main' = main /\ main \in
              {"run", "notify", "wait", "returned", "shutdown", "join", "end"}
        BY <1>9, <2>1 DEF Leave, TypeOK
    <2>3. QED
        BY <1>9, <2>2, NotifyAllTypes DEF Leave
<1>10. QED
    BY <1>1, <1>2, <1>3, <1>4, <1>5, <1>6, <1>7, <1>8, <1>9

(* Steps of a worker at a task. *)
LEMMA TaskTypes ==
    ASSUME TypeOK, Progress, NEW w \in Workers,
           \/ Steal(w) \/ Begin(w) \/ Finish(w) \/ Successor(w) \/ NotifyPushed(w)
           \/ TearDown(w) \/ Settle(w) \/ Decrement(w) \/ NextTask(w)
    PROVE  TypeOK'
<1>0. mode' = mode /\ Workers' = Workers
    BY SameGraph DEF Steal, Begin, Finish, Successor, NotifyPushed, TearDown, Settle,
       Decrement, NextTask
<1> DEFINE T == Tasks(mode)
<1>a. HasNode(w) => node[w] \in T
    BY DEF Progress
<1>b. cache[w] # NoTask => cache[w] \in T
    BY DEF TypeOK
<1>c. /\ node \in [Workers -> T \cup {NoTask}] /\ cache \in [Workers -> T \cup {NoTask}]
      /\ index \in [Workers -> Nat] /\ index[w] + 1 \in Nat
      /\ wsq \in [Workers -> Seq(T)] /\ join \in [T -> Int]
    BY DEF TypeOK
<1> USE DEF queues, counters, local, history
<1>1. CASE Steal(w)
    <2>1. At(w, "stolen") \in [Workers -> Labels]
        BY AtIs DEF Labels
    <2>2. CASE vtm[w] = w
        <3>1. /\ shared # <<>> /\ wsq' = wsq /\ shared' = Tail(shared)
              /\ node' = [node EXCEPT ![w] = Head(shared)]
            BY <1>1, <2>2 DEF Steal, Victim, Stolen, AfterSteal
        <3>2. Head(shared) \in T /\ Tail(shared) \in Seq(T)
            BY <3>1 DEF TypeOK
        <3>3. node' \in [Workers -> T \cup {NoTask}] /\ index' \in [Workers -> Nat]
            BY <1>1, <1>c, <3>1, <3>2 DEF Steal
        <3>4. QED
            BY <1>0, <1>1, <2>1, <3>1, <3>2, <3>3 DEF Steal, TypeOK, notifier
    <2>3. CASE vtm[w] # w
        <3>0. vtm[w] \in Workers /\ wsq[vtm[w]] \in Seq(T)
            BY <1>c DEF TypeOK
        <3>1. /\ wsq[vtm[w]] # <<>> /\ shared' = shared
              /\ wsq' = [wsq EXCEPT ![vtm[w]] = Tail(wsq[vtm[w]])]
              /\ node' = [node EXCEPT ![w] = Head(wsq[vtm[w]])]
            BY <1>1, <1>c, <2>3, <3>0 DEF Steal, Victim, Stolen, AfterSteal
        <3>2. Head(wsq[vtm[w]]) \in T /\ Tail(wsq[vtm[w]]) \in Seq(T)
            BY <3>0, <3>1
        <3>3. node' \in [Workers -> T \cup {NoTask}] /\ index' \in [Workers -> Nat]
            BY <1>1, <1>c, <3>1, <3>2 DEF Steal
        <3>4. wsq' \in [Workers -> Seq(T)]
            BY <1>c, <3>0, <3>1, <3>2
        <3>5. QED
            BY <1>0, <1>1, <2>1, <3>1, <3>3, <3>4 DEF Steal, TypeOK, notifier
    <2>4. QED
        BY <2>2, <2>3
<1>2. CASE Begin(w)
    <2>1. At(w, "body") \in [Workers -> Labels]
        BY AtIs DEF Labels
    <2>2. node[w] \in T
        BY <1>2, <1>a DEF Begin, HasNode
    <2>3. QED
        BY <1>0, <1>2, <2>1, <2>2 DEF Begin, TypeOK, notifier
<1>3. CASE Finish(w)
    <2>1. At(w, "successors") \in [Workers -> Labels]
        BY AtIs DEF Labels
    <2>2. node[w] \in T
        BY <1>3, <1>a DEF Finish, HasNode
    <2>3. Dependents(node[w]) \in Int /\ join[node[w]] \in Int
        BY <1>c, <2>2, GraphFinite
    <2>4. join' \in [T -> Int]
        BY <1>3, <1>c, <2>2, <2>3 DEF Finish
    <2>5. cache' \in [Workers -> T \cup {NoTask}] /\ index' \in [Workers -> Nat]
        BY <1>3, <1>c DEF Finish
    <2>6. QED
        BY <1>0, <1>3, <2>1, <2>2, <2>4, <2>5 DEF Finish, TypeOK, notifier
<1>4. CASE Successor(w)
    <2> DEFINE s == mode.next[node[w]][index[w]]
    <2>1. node[w] \in T /\ index[w] \in 1 .. Len(mode.next[node[w]])
        <3>1. pc[w] \in Loop /\ index[w] <= Len(mode.next[node[w]])
            BY <1>4 DEF Successor, Loop
        <3>2. node[w] \in T /\ index[w] >= 1
            BY <3>1, <1>a DEF Progress, HasNode
        <3>3. Len(mode.next[node[w]]) \in Nat
            BY <3>2, ModeIs
        <3>4. QED
            BY <1>c, <3>1, <3>2, <3>3
    <2>2. s \in T
        BY <2>1, ModeIs
    <2> HIDE DEF s
    <2>3. /\ index' = [index EXCEPT ![w] = index[w] + 1]
          /\ join' = [join EXCEPT ![s] = join[s] - 1]
          /\ UNCHANGED <<mode, main, notices, shared, topologies, promise, done,
                         notifier, node, vtm, history>>
        BY <1>4, <1>c, <2>2 DEF Successor, s
    <2>4. index' \in [Workers -> Nat] /\ join' \in [T -> Int]
        BY <1>c, <2>2, <2>3
    <2>5. CASE ~Releases(s)
        <3>1. UNCHANGED <<left, cache, wsq, pc>>
            BY <1>4, <2>5 DEF Successor, s
        <3>2. QED
            BY <1>0, <2>3, <2>4, <3>1 DEF TypeOK, notifier
    <2>6. CASE Releases(s) /\ cache[w] = NoTask
        <3>1. /\ left' = left + 1 /\ cache' = [cache EXCEPT ![w] = s]
              /\ UNCHANGED <<wsq, pc>>
            BY <1>4, <2>6 DEF Successor, s
        <3>2. cache' \in [Workers -> T \cup {NoTask}]
            BY <1>c, <2>2, <3>1
        <3>3. QED
            BY <1>0, <2>3, <2>4, <3>1, <3>2 DEF TypeOK, notifier
    <2>7. CASE Releases(s) /\ cache[w] # NoTask
        <3>1. /\ left' = left + 1 /\ cache' = [cache EXCEPT ![w] = s]
              /\ wsq' = [wsq EXCEPT ![w] = Append(wsq[w], cache[w])]
              /\ pc' = At(w, "pushed")
            BY <1>4, <1>c, <2>7 DEF Successor, s, Push
        <3>2. cache' \in [Workers -> T \cup {NoTask}]
            BY <1>c, <2>2, <3>1
        <3>3. wsq[w] \in Seq(T)
            BY <1>c
        <3>4. Append(wsq[w], cache[w]) \in Seq(T)
            BY <1>b, <2>7, <3>3
        <3>5. wsq' \in [Workers -> Seq(T)]
            BY <1>c, <3>1, <3>4
        <3>6. At(w, "pushed") \in [Workers -> Labels]
            BY AtIs DEF Labels
        <3>7. QED
            BY <1>0, <2>3, <2>4, <3>1, <3>2, <3>5, <3>6 DEF TypeOK, notifier
    <2>8. QED
        BY <2>5, <2>6, <2>7
<1>5. CASE NotifyPushed(w)
    <2>1. PICK next \in [Workers -> Labels] : next = At(w, "successors")
        BY AtIs DEF Labels
    <2>2. NotifyOne(next)
        BY <1>5, <2>1 DEF NotifyPushed
    <2>3. QED
        BY <1>5, <2>2, NotifyOneTypes DEF NotifyPushed
<1>6. CASE TearDown(w)
    <2>1. At(w, "settle") \in [Workers -> Labels] /\ At(w, "next") \in [Workers -> Labels]
        BY AtIs DEF Labels
    <2>2. pc' \in [Workers -> Labels]
        BY <1>6, <2>1 DEF TearDown
    <2>3. QED
        BY <1>0, <1>6, <2>2 DEF TearDown, TypeOK, notifier
<1>7. CASE Settle(w)
    <2>1. At(w, "decrement") \in [Workers -> Labels]
        BY AtIs DEF Labels
    <2>2. QED
        BY <1>0, <1>7, <2>1 DEF Settle, TypeOK, notifier
<1>8. CASE Decrement(w)
    <2>1. At(w, "next") \in [Workers -> Labels]
        BY AtIs DEF Labels
    <2>2. QED
        BY <1>0, <1>8, <2>1 DEF Decrement, TypeOK, notifier
<1>9. CASE NextTask(w)
    <2>1. At(w, "begin") \in [Workers -> Labels] /\ At(w, "explore") \in [Workers -> Labels]
        BY AtIs DEF Labels
    <2>2. index' \in [Workers -> Nat]
        BY <1>9, <1>c DEF NextTask
    <2>3. CASE cache[w] # NoTask
        <3>1. node' = [node EXCEPT ![w] = cache[w]] /\ pc' = At(w, "begin") /\ wsq' = wsq
            BY <1>9, <2>3 DEF NextTask
        <3>2. node' \in [Workers -> T \cup {NoTask}]
            BY <1>b, <1>c, <2>3, <3>1
        <3>3. QED
            BY <1>0, <1>9, <2>1, <2>2, <3>1, <3>2 DEF NextTask, TypeOK, notifier
    <2>4. CASE cache[w] = NoTask /\ wsq[w] # <<>>
        <3>1. /\ node' = [node EXCEPT ![w] = Popped(wsq[w])] /\ pc' = At(w, "begin")
              /\ wsq' = [wsq EXCEPT ![w] = AfterPop(wsq[w])]
            BY <1>9, <2>4 DEF NextTask
        <3>2. wsq[w] \in Seq(T)
            BY <1>c
        <3>3. Popped(wsq[w]) \in T /\ AfterPop(wsq[w]) \in Seq(T)
            BY <2>4, <3>2, FrontIn
        <3>4. node' \in [Workers -> T \cup {NoTask}] /\ wsq' \in [Workers -> Seq(T)]
            BY <1>c, <3>1, <3>3
        <3>5. QED
            BY <1>0, <1>9, <2>1, <2>2, <3>1, <3>4 DEF NextTask, TypeOK, notifier
    <2>5. CASE cache[w] = NoTask /\ wsq[w] = <<>>
        <3>1. node' = [node EXCEPT ![w] = NoTask] /\ pc' = At(w, "explore") /\ wsq' = wsq
            BY <1>9, <2>5 DEF NextTask
        <3>2. node' \in [Workers -> T \cup {NoTask}]
            BY <1>c, <3>1
        <3>3. QED
            BY <1>0, <1>9, <2>1, <2>2, <3>1, <3>2 DEF NextTask, TypeOK, notifier
    <2>6. QED
        BY <2>3, <2>4, <2>5
<1>10. QED
    BY <1>1, <1>2, <1>3, <1>4, <1>5, <1>6, <1>7, <1>8, <1>9

LEMMA TypeStep == TypeOK /\ Waiters /\ Progress /\ [Next]_vars => TypeOK'
<1> SUFFICES ASSUME TypeOK, Waiters, Progress, [Next]_vars PROVE TypeOK'
    OBVIOUS
<1>1. CASE MainStep
    BY <1>1, MainTypes
<1>2. ASSUME NEW w \in Workers, WorkerStep(w) PROVE TypeOK'
    BY <1>2, WaitTypes, TaskTypes DEF WorkerStep
<1>3. CASE UNCHANGED vars
    BY <1>3 DEF vars, TypeOK, queues, counters, notifier, local, history, Workers
<1>4. QED
    BY <1>1, <1>2, <1>3 DEF Next

-----------------------------------------------------------------------------
(* Steps that leave the tasks where they are *)

SameStage(w) ==
    /\ pc'[w] \in Idle <=> pc[w] \in Idle
    /\ pc'[w] \in {"stolen", "begin"} <=> pc[w] \in {"stolen", "begin"}
    /\ pc'[w] = "body" <=> pc[w] = "body"
    /\ pc'[w] \in Loop <=> pc[w] \in Loop
    /\ pc'[w] \in {"settle", "decrement", "next"} <=> pc[w] \in {"settle", "decrement", "next"}
    /\ pc[w] \in Loop => index'[w] = index[w]

TasksStay ==
    /\ UNCHANGED <<mode, queues, node, cache, join, left, history>>
    /\ \A w \in Workers : SameStage(w)
    /\ main' = "run" <=> main = "run"
    /\ main = "run" => promise' = promise

LEMMA HoldsSame ==
    ASSUME TypeOK, TasksStay
    PROVE  \A k, t : \A q \in Queues : Holds(k, q, t)' <=> Holds(k, q, t)
<1> SUFFICES ASSUME NEW k, NEW t, NEW q \in Queues
             PROVE  Holds(k, q, t)' <=> Holds(k, q, t)
    OBVIOUS
<1>1. Queue(q)' = Queue(q) /\ node' = node /\ cache' = cache
    BY DEF TasksStay, queues, Queue
<1>2. CASE q = 0
    BY <1>1, <1>2 DEF Holds
<1>3. CASE q # 0
    <2>1. q \in Workers
        BY <1>3, ModeIs
    <2>2. HasNode(q)' <=> HasNode(q)
        BY <2>1 DEF TasksStay, SameStage, HasNode, Loop
    <2>3. HasCache(q)' <=> HasCache(q)
        BY <1>1, <2>1 DEF TasksStay, SameStage, HasCache, Loop
    <2>4. QED
        BY <1>1, <2>2, <2>3 DEF Holds
<1>4. QED
    BY <1>2, <1>3

(* A task is where it was, or came to one place, or has left.              *)
Stays(t) == \A k \in Kinds, q \in Queues : Holds(k, q, t)' <=> Holds(k, q, t)

ComesTo(t, l, r) ==
    l \in Kinds /\ r \in Queues
        /\ \A k \in Kinds, q \in Queues : Holds(k, q, t)' <=> k = l /\ q = r

Leaves(t) == \A k \in Kinds, q \in Queues : ~Holds(k, q, t)'

LEMMA PlacesKept ==
    ASSUME OnePlace, mode' = mode,
           \A q \in Queues : Once(Queue(q)'),
           \A t \in Tasks(mode) :
               Stays(t) \/ (\E l, r : ComesTo(t, l, r)) \/ Leaves(t)
    PROVE  OnePlace'
<1>1. Queues' = Queues /\ Kinds' = Kinds
    BY SameGraph DEF Kinds
<1>2. ASSUME NEW t \in Tasks(mode), NEW k \in Kinds, NEW l \in Kinds, NEW q \in Queues,
             NEW r \in Queues, Holds(k, q, t)', Holds(l, r, t)'
      PROVE  k = l /\ q = r
    BY <1>2 DEF Stays, ComesTo, Leaves, OnePlace
<1>3. QED
    BY <1>1, <1>2 DEF OnePlace

LEMMA ActiveThen ==
    ASSUME mode' = mode, NEW t \in Tasks(mode)
    PROVE  /\ Stays(t) => (t \in Active' <=> t \in Active)
           /\ \A l, r : ComesTo(t, l, r) => t \in Active'
           /\ Leaves(t) => t \notin Active'
<1>1. Queues' = Queues
    BY SameGraph
<1>2. t \in Active' <=> \E k \in Kinds, q \in Queues : Holds(k, q, t)'
    BY <1>1 DEF Active
<1>3. t \in Active <=> \E k \in Kinds, q \in Queues : Holds(k, q, t)
    BY DEF Active
<1>4. QED
    BY <1>2, <1>3 DEF Stays, ComesTo, Leaves

LEMMA ActiveIs ==
    ASSUME TypeOK
    PROVE  /\ Active \subseteq Tasks(mode)
           /\ IsFiniteSet(Active) /\ Cardinality(Active) \in Nat
           /\ \A t : IsFiniteSet(Pending(t)) /\ Cardinality(Pending(t)) \in Nat
           /\ \A t : Pending(t) \subseteq Into(t)
<1>1. Active \in SUBSET Tasks(mode) /\ \A t : Pending(t) \in SUBSET Into(t)
    BY DEF Active, Pending
<1>2. QED
    BY <1>1, GraphFinite, FS_Subset, FS_CardinalityType

LEMMA PendingSame ==
    ASSUME TypeOK, mode' = mode, NEW t,
           \A e \in Into(t) : Consumed(e)' <=> Consumed(e)
    PROVE  Pending(t)' = Pending(t)
<1>1. Into(t)' = Into(t)
    BY SameGraph
<1>2. QED
    BY <1>1 DEF Pending

LEMMA ConsumedSame ==
    ASSUME TypeOK, TasksStay, NEW e \in Edges
    PROVE  Consumed(e)' <=> Consumed(e)
<1>1. Workers' = Workers /\ ended' = ended /\ node' = node
    BY SameGraph DEF TasksStay, history
<1>2. \A w \in Workers : /\ pc'[w] \in Loop <=> pc[w] \in Loop
                         /\ pc[w] \in Loop => index'[w] = index[w]
    BY DEF TasksStay, SameStage
<1>3. QED
    BY <1>1, <1>2 DEF Consumed

LEMMA TasksStaySteps ==
    ASSUME TypeOK, OnePlace, Progress, Counters, NotBegun, TasksStay
    PROVE  OnePlace' /\ Progress' /\ Counters' /\ NotBegun' /\ Active' = Active
<1>1. /\ mode' = mode /\ shared' = shared /\ wsq' = wsq /\ node' = node /\ cache' = cache
      /\ join' = join /\ left' = left /\ begun' = begun /\ ended' = ended
      /\ Workers' = Workers /\ Queues' = Queues /\ Kinds' = Kinds
      /\ \A t : Into(t)' = Into(t) /\ Dependents(t)' = Dependents(t)
    BY SameGraph DEF TasksStay, queues, history, Kinds
<1>2. \A t : Stays(t)
    BY HoldsSame DEF Stays
<1>3. \A q \in Queues : Queue(q)' = Queue(q)
    BY <1>1 DEF Queue
<1>4. OnePlace'
    BY <1>1, <1>2, <1>3, PlacesKept DEF OnePlace
<1>5. Active' = Active
    BY <1>1, <1>2, ActiveThen DEF Active
<1>6. Progress'
    <2>1. ASSUME NEW t \in Tasks(mode), NEW k \in Kinds, NEW q \in Queues,
                 Holds(k, q, t)', Unbegun(k, q)'
          PROVE  t \notin begun
        <3>1. Holds(k, q, t)
            BY <1>2, <2>1 DEF Stays
        <3>2. k = "node" => q \in Workers
            BY <3>1, ModeIs DEF Holds
        <3>3. Unbegun(k, q)
            BY <2>1, <3>2 DEF Unbegun, TasksStay, SameStage
        <3>4. QED
            BY <3>1, <3>3 DEF Progress
    <2>2. ASSUME NEW w \in Workers
          PROVE  /\ HasNode(w)' => node[w] \in Tasks(mode)
                 /\ pc'[w] = "body" => node[w] \in begun \ ended
                 /\ pc'[w] \in Loop => node[w] \in ended /\ index'[w] >= 1
        BY DEF TasksStay, SameStage, HasNode, Progress
    <2>3. QED
        BY <1>1, <1>5, <2>1, <2>2 DEF Progress
<1>7. Counters'
    <2>1. \A t : Pending(t)' = Pending(t)
        BY <1>1, ConsumedSame, PendingSame DEF Into
    <2>2. main' # "run" <=> main # "run"
        BY DEF TasksStay
    <2>3. QED
        BY <1>1, <1>5, <2>1, <2>2 DEF Counters
<1>8. NotBegun'
    <2>1. \A w \in Workers : pc'[w] \in Idle <=> pc[w] \in Idle
        BY DEF TasksStay, SameStage
    <2>2. QED
        BY <1>1, <2>1 DEF TasksStay, NotBegun
<1>9. QED
    BY <1>4, <1>5, <1>6, <1>7, <1>8

LEMMA OverKept ==
    ASSUME TypeOK, Over, TasksStay, Active' = Active,
           \A u \in Workers : pc'[u] = "settle" <=> pc[u] = "settle",
           promise' = promise,
           main' \in {"returned", "shutdown", "join", "end"} => promise,
           done' => promise, done => done',
           \A u \in Workers : pc'[u] \in {"cancel and leave", "leave", "gone"} =>
                                  pc[u] \in {"cancel and leave", "leave", "gone"} \/ done'
    PROVE  Over'
<1>1. mode' = mode /\ Workers' = Workers /\ ended' = ended
    BY SameGraph DEF TasksStay, history
<1>2. QED
    BY <1>1 DEF Over

(* The others stay where they are, or are woken. *)
OthersStay(w) ==
    \A u \in Workers : u # w =>
        /\ index'[u] = index[u]
        /\ \/ pc'[u] = pc[u]
           \/ pc[u] = "parked" /\ pc'[u] = "explore"

LEMMA StaysBy ==
    ASSUME NEW w, OthersStay(w), w \in Workers => SameStage(w),
           UNCHANGED <<mode, queues, node, cache, join, left, history>>,
           main' = "run" <=> main = "run", main = "run" => promise' = promise
    PROVE  /\ TasksStay
           /\ (w \in Workers => (pc'[w] = "settle" <=> pc[w] = "settle"))
                => \A u \in Workers : pc'[u] = "settle" <=> pc[u] = "settle"
           /\ (w \in Workers => (pc'[w] \in {"cancel and leave", "leave", "gone"} =>
                                   pc[w] \in {"cancel and leave", "leave", "gone"} \/ done'))
                => \A u \in Workers : pc'[u] \in {"cancel and leave", "leave", "gone"} =>
                                   pc[u] \in {"cancel and leave", "leave", "gone"} \/ done'
<1>1. ASSUME NEW u \in Workers, u # w PROVE SameStage(u)
    BY <1>1 DEF OthersStay, SameStage, Idle, Loop, Deciding
<1>2. TasksStay
    BY <1>1 DEF TasksStay
<1>3. QED
    BY <1>2 DEF OthersStay

LEMMA ParkedIs ==
    ASSUME TypeOK, Waiters
    PROVE  /\ \A u \in Workers : In(u, parked) <=> pc[u] = "parked"
           /\ parked # <<>> => Head(parked) \in Workers /\ pc[Head(parked)] = "parked"
           /\ prewait # <<>> => Head(prewait) \in Workers /\ pc[Head(prewait)] \in Deciding
<1>1. \A u \in Workers : In(u, parked) <=> pc[u] = "parked"
    BY DEF Waiters
<1>2. ASSUME parked # <<>> PROVE Head(parked) \in Workers /\ In(Head(parked), parked)
    BY <1>2, TailIn DEF TypeOK
<1>3. ASSUME prewait # <<>> PROVE Head(prewait) \in Workers /\ In(Head(prewait), prewait)
    BY <1>3, TailIn DEF TypeOK
<1>4. QED
    BY <1>1, <1>2, <1>3 DEF Waiters

(* A worker notifies and goes on. *)
LEMMA WorkerNotifies ==
    ASSUME TypeOK, Waiters, NEW w \in Workers, NEW label \in Labels, pc[w] # "parked",
           NEW next \in [Workers -> Labels], next = At(w, label),
           NotifyOne(next) \/ NotifyAll(next), UNCHANGED index
    PROVE  OthersStay(w) /\ pc'[w] = label
<1>1. \A u \in Workers : next[u] = IF u = w THEN label ELSE pc[u]
    BY AtIs
<1>2. CASE NotifyOne(next)
    <2>1. CASE pc' = next
        BY <1>1, <2>1 DEF OthersStay
    <2>2. CASE parked # <<>> /\ pc' = [next EXCEPT ![Head(parked)] = "explore"]
        <3>1. Head(parked) \in Workers /\ pc[Head(parked)] = "parked" /\ Head(parked) # w
            BY <2>2, ParkedIs
        <3>2. \A u \in Workers : pc'[u] = IF u = Head(parked) THEN "explore" ELSE next[u]
            BY <2>2
        <3>3. QED
            BY <1>1, <3>1, <3>2 DEF OthersStay
    <2>3. QED
        BY <1>2, <2>1, <2>2, NotifyOneIs
<1>3. CASE NotifyAll(next)
    <2>1. \A u \in Workers : pc'[u] = IF In(u, parked) THEN "explore" ELSE next[u]
        BY <1>3, NotifyAllIs
    <2>2. \A u \in Workers : In(u, parked) <=> pc[u] = "parked"
        BY ParkedIs
    <2>3. QED
        BY <1>1, <2>1, <2>2 DEF OthersStay
<1>4. QED
    BY <1>2, <1>3

LEMMA MainNotifies ==
    ASSUME TypeOK, Waiters, NotifyOne(pc) \/ NotifyAll(pc), UNCHANGED index
    PROVE  OthersStay(0)
<1>0. pc \in [Workers -> Labels]
    BY DEF TypeOK
<1>1. CASE NotifyOne(pc)
    <2>1. CASE pc' = pc
        BY <2>1 DEF OthersStay
    <2>2. CASE parked # <<>> /\ pc' = [pc EXCEPT ![Head(parked)] = "explore"]
        <3>1. Head(parked) \in Workers /\ pc[Head(parked)] = "parked"
            BY <2>2, ParkedIs
        <3>2. \A u \in Workers : pc'[u] = IF u = Head(parked) THEN "explore" ELSE pc[u]
            BY <1>0, <2>2
        <3>3. QED
            BY <3>1, <3>2 DEF OthersStay
    <2>3. QED
        BY <1>0, <1>1, <2>1, <2>2, NotifyOneIs
<1>2. CASE NotifyAll(pc)
    <2>1. \A u \in Workers : pc'[u] = IF In(u, parked) THEN "explore" ELSE pc[u]
        BY <1>0, <1>2, NotifyAllIs
    <2>2. \A u \in Workers : In(u, parked) <=> pc[u] = "parked"
        BY ParkedIs
    <2>3. QED
        BY <2>1, <2>2 DEF OthersStay
<1>3. QED
    BY <1>1, <1>2

LEMMA WorkerGoes ==
    ASSUME TypeOK, NEW w \in Workers, NEW label \in Labels,
           pc' = At(w, label), \A u \in Workers : u # w => index'[u] = index[u]
    PROVE  OthersStay(w) /\ pc'[w] = label
BY AtIs DEF OthersStay

GraphRest == OnePlace /\ Progress /\ Counters /\ NotBegun /\ Over

(* What the steps between stealing and sleeping, and those that only       *)
(* notify, do to the workers.                                              *)
LEMMA QuietIs ==
    ASSUME TypeOK, Waiters, NEW w \in Workers,
           \/ StealFails(w) \/ NotifyThief(w) \/ PrepareWait(w) \/ CheckShared(w)
           \/ CheckDone(w) \/ Scan(w) \/ CancelWait(w) \/ CommitWait(w) \/ Leave(w)
           \/ NotifyPushed(w)
    PROVE  /\ OthersStay(w) /\ SameStage(w)
           /\ pc'[w] = "settle" <=> pc[w] = "settle"
           /\ pc'[w] \in {"cancel and leave", "leave", "gone"} =>
                  pc[w] \in {"cancel and leave", "leave", "gone"} \/ done'
<1>1. index \in [Workers -> Nat]
    BY DEF TypeOK
<1> USE DEF SameStage, Idle, Deciding, Loop, Labels
<1>2. CASE StealFails(w)
    <2>0. \A u \in Workers : u # w => index'[u] = index[u]
        BY <1>2, <1>1 DEF StealFails
    <2>1. CASE pc' = At(w, "prepare")
        BY <1>2, <2>0, <2>1, WorkerGoes DEF StealFails
    <2>2. CASE pc' = pc
        BY <1>2, <2>0, <2>2 DEF StealFails, OthersStay
    <2>3. QED
        BY <1>2, <2>1, <2>2 DEF StealFails
<1>3. CASE NotifyThief(w)
    <2>1. PICK next \in [Workers -> Labels] : next = At(w, "begin")
        BY AtIs
    <2>2. NotifyOne(next) /\ pc[w] = "stolen" /\ index' = index
        BY <1>3, <2>1 DEF NotifyThief, local
    <2>3. OthersStay(w) /\ pc'[w] = "begin"
        BY <2>1, <2>2, WorkerNotifies
    <2>4. QED
        BY <2>2, <2>3
<1>4. CASE PrepareWait(w)
    BY <1>4, WorkerGoes DEF PrepareWait, local
<1>5. CASE CheckShared(w)
    <2>1. pc' = At(w, "cancel") \/ pc' = At(w, "check done")
        BY <1>5 DEF CheckShared
    <2>2. OthersStay(w) /\ pc'[w] \in {"cancel", "check done"}
        BY <1>5, <2>1, WorkerGoes DEF CheckShared
    <2>3. QED
        BY <1>5, <2>2 DEF CheckShared
<1>6. CASE CheckDone(w)
    <2>0. \A u \in Workers : u # w => index'[u] = index[u]
        BY <1>6, <1>1 DEF CheckDone
    <2>1. \/ done' /\ pc' = At(w, "cancel and leave")
          \/ pc' = At(w, "scan")
        BY <1>6 DEF CheckDone
    <2>2. /\ OthersStay(w) /\ pc'[w] \in {"cancel and leave", "scan"}
          /\ pc'[w] = "cancel and leave" => done'
        BY <2>0, <2>1, WorkerGoes
    <2>3. QED
        BY <1>6, <2>2 DEF CheckDone
<1>7. CASE Scan(w)
    <2>0. \A u \in Workers : u # w => index'[u] = index[u]
        BY <1>7, <1>1 DEF Scan
    <2>1. \/ pc' = At(w, "commit") \/ pc' = At(w, "cancel")
          \/ pc' = pc
        BY <1>7 DEF Scan
    <2>2. OthersStay(w) /\ pc'[w] \in {"commit", "cancel", "scan"}
        <3>1. CASE pc' = pc
            BY <1>7, <2>0, <3>1 DEF Scan, OthersStay
        <3>2. CASE pc' # pc
            BY <2>0, <2>1, <3>2, WorkerGoes
        <3>3. QED
            BY <3>1, <3>2
    <2>3. QED
        BY <1>7, <2>2 DEF Scan
<1>8. CASE CancelWait(w)
    <2>1. CASE pc[w] = "cancel"
        <3>1. pc' = At(w, "explore") /\ index' = index
            BY <1>8, <2>1 DEF CancelWait, local
        <3>2. OthersStay(w) /\ pc'[w] = "explore"
            BY <3>1, WorkerGoes
        <3>3. QED
            BY <2>1, <3>2
    <2>2. CASE pc[w] = "cancel and leave"
        <3>1. pc' = At(w, "leave") /\ index' = index
            BY <1>8, <2>2 DEF CancelWait, local
        <3>2. OthersStay(w) /\ pc'[w] = "leave"
            BY <3>1, WorkerGoes
        <3>3. QED
            BY <2>2, <3>2
    <2>3. QED
        BY <1>8, <2>1, <2>2 DEF CancelWait
<1>9. CASE CommitWait(w)
    <2>1. (pc' = At(w, "parked") \/ pc' = At(w, "explore")) /\ index' = index /\ pc[w] = "commit"
        BY <1>9 DEF CommitWait, local
    <2>2. OthersStay(w) /\ pc'[w] \in {"parked", "explore"}
        BY <2>1, WorkerGoes
    <2>3. QED
        BY <2>1, <2>2
<1>10. CASE Leave(w)
    <2>1. PICK next \in [Workers -> Labels] : next = At(w, "gone")
        BY AtIs
    <2>2. NotifyAll(next) /\ pc[w] = "leave" /\ index' = index
        BY <1>10, <2>1 DEF Leave, local
    <2>3. OthersStay(w) /\ pc'[w] = "gone"
        BY <2>1, <2>2, WorkerNotifies
    <2>4. QED
        BY <2>2, <2>3
<1>11. CASE NotifyPushed(w)
    <2>1. PICK next \in [Workers -> Labels] : next = At(w, "successors")
        BY AtIs
    <2>2. NotifyOne(next) /\ pc[w] = "pushed" /\ index' = index
        BY <1>11, <2>1 DEF NotifyPushed, local
    <2>3. OthersStay(w) /\ pc'[w] = "successors"
        BY <2>1, <2>2, WorkerNotifies
    <2>4. QED
        BY <2>2, <2>3
<1>12. QED
    BY <1>2, <1>3, <1>4, <1>5, <1>6, <1>7, <1>8, <1>9, <1>10, <1>11

LEMMA QuietStep ==
    ASSUME GraphInv, Waiters, NEW w \in Workers,
           \/ StealFails(w) \/ NotifyThief(w) \/ PrepareWait(w) \/ CheckShared(w)
           \/ CheckDone(w) \/ Scan(w) \/ CancelWait(w) \/ CommitWait(w) \/ Leave(w)
           \/ NotifyPushed(w)
    PROVE  GraphRest'
<1>0. TypeOK /\ OnePlace /\ Progress /\ Counters /\ NotBegun /\ Over
    BY DEF GraphInv
<1>1. UNCHANGED <<mode, main, queues, node, cache, join, left, history, promise, done>>
    BY DEF StealFails, NotifyThief, PrepareWait, CheckShared, CheckDone, Scan, CancelWait,
       CommitWait, Leave, NotifyPushed, local, counters
<1>2. /\ OthersStay(w) /\ SameStage(w)
      /\ pc'[w] = "settle" <=> pc[w] = "settle"
      /\ pc'[w] \in {"cancel and leave", "leave", "gone"} =>
             pc[w] \in {"cancel and leave", "leave", "gone"} \/ done'
    BY <1>0, QuietIs
<1>3. /\ TasksStay
      /\ \A u \in Workers : pc'[u] = "settle" <=> pc[u] = "settle"
      /\ \A u \in Workers : pc'[u] \in {"cancel and leave", "leave", "gone"} =>
                                pc[u] \in {"cancel and leave", "leave", "gone"} \/ done'
    BY <1>1, <1>2, StaysBy
<1>4. OnePlace' /\ Progress' /\ Counters' /\ NotBegun' /\ Active' = Active
    BY <1>0, <1>3, TasksStaySteps
<1>5. Over'
    <2>1. /\ done => promise
          /\ main \in {"returned", "shutdown", "join", "end"} => promise
        BY <1>0 DEF Over
    <2>2. QED
        BY <1>0, <1>1, <1>3, <1>4, <2>1, OverKept
<1>6. QED
    BY <1>4, <1>5 DEF GraphRest

(* The main thread's steps after it has started the run. *)
LEMMA MainQuietStep ==
    ASSUME GraphInv, Waiters, MainNotify \/ Return \/ Shutdown \/ NotifyShutdown \/ Joined
    PROVE  GraphRest'
<1>0. TypeOK /\ OnePlace /\ Progress /\ Counters /\ NotBegun /\ Over /\ 0 \notin Workers
    BY ModeIs DEF GraphInv
<1>1. /\ UNCHANGED <<mode, queues, node, cache, join, left, history, promise, index>>
      /\ main # "run" /\ main' # "run"
    BY DEF MainNotify, Return, Shutdown, NotifyShutdown, Joined, local, counters
<1>2. OthersStay(0)
    <2>1. CASE MainNotify
        BY <1>0, <1>1, <2>1, MainNotifies DEF MainNotify
    <2>2. CASE NotifyShutdown
        BY <1>0, <1>1, <2>2, MainNotifies DEF NotifyShutdown
    <2>3. CASE Return \/ Shutdown \/ Joined
        BY <1>1, <2>3 DEF Return, Shutdown, Joined, OthersStay
    <2>4. QED
        BY <2>1, <2>2, <2>3
<1>3. /\ TasksStay
      /\ \A u \in Workers : pc'[u] = "settle" <=> pc[u] = "settle"
      /\ \A u \in Workers : pc'[u] \in {"cancel and leave", "leave", "gone"} =>
                                pc[u] \in {"cancel and leave", "leave", "gone"} \/ done'
    BY <1>0, <1>1, <1>2, StaysBy
<1>4. OnePlace' /\ Progress' /\ Counters' /\ NotBegun' /\ Active' = Active
    BY <1>0, <1>3, TasksStaySteps
<1>5. /\ main' \in {"returned", "shutdown", "join", "end"} => promise
      /\ done' => promise
      /\ done => done'
    <2>1. /\ main \in {"returned", "shutdown", "join", "end"} => promise
          /\ done => promise
        BY <1>0 DEF Over
    <2>2. CASE MainNotify
        BY <2>1, <2>2 DEF MainNotify
    <2>3. CASE Return
        BY <2>1, <2>3 DEF Return
    <2>4. CASE Shutdown
        BY <2>1, <2>4 DEF Shutdown
    <2>5. CASE NotifyShutdown
        BY <2>1, <2>5 DEF NotifyShutdown
    <2>6. CASE Joined
        BY <2>1, <2>6 DEF Joined
    <2>7. QED
        BY <2>2, <2>3, <2>4, <2>5, <2>6
<1>6. Over'
    BY <1>0, <1>1, <1>3, <1>4, <1>5, OverKept
<1>7. QED
    BY <1>4, <1>6 DEF GraphRest

(* The last worker sets the promise and counts the run off.                *)
LEMMA EndingStep ==
    ASSUME GraphInv, NEW w \in Workers, Settle(w) \/ Decrement(w)
    PROVE  GraphRest'
<1>0. TypeOK /\ OnePlace /\ Progress /\ Counters /\ NotBegun /\ Over
    BY DEF GraphInv
<1>1. /\ UNCHANGED <<mode, main, queues, node, cache, join, left, history, done, index>>
      /\ pc[w] \in {"settle", "decrement"}
    BY DEF Settle, Decrement, local
<1>2. main # "run"
    BY <1>0, <1>1 DEF NotBegun, Idle, Deciding
<1>3. OthersStay(w) /\ pc'[w] \in {"decrement", "next"}
    <2>1. pc' = At(w, "decrement") \/ pc' = At(w, "next")
        BY DEF Settle, Decrement
    <2>2. QED
        BY <1>0, <1>1, <2>1, WorkerGoes DEF Labels
<1>4. SameStage(w)
    BY <1>1, <1>3 DEF SameStage, Idle, Deciding, Loop
<1>5. TasksStay
    BY <1>1, <1>2, <1>3, <1>4, StaysBy
<1>6. OnePlace' /\ Progress' /\ Counters' /\ NotBegun' /\ Active' = Active
    BY <1>0, <1>5, TasksStaySteps
<1>7. mode' = mode /\ Workers' = Workers /\ ended' = ended
    BY <1>1, SameGraph DEF history
<1>8. \A u \in Workers : pc'[u] = "settle" => pc[u] = "settle" /\ u # w
    BY <1>3 DEF OthersStay
<1>9. \A u \in Workers : pc'[u] \in {"cancel and leave", "leave", "gone"} =>
                             pc[u] \in {"cancel and leave", "leave", "gone"}
    BY <1>3 DEF OthersStay
<1>10. Over'
    <2>1. CASE Settle(w)
        <3>1. promise' = TRUE /\ pc[w] = "settle"
            BY <2>1 DEF Settle
        <3>2. Active = {} /\ ended = Tasks(mode)
            BY <1>0, <3>1 DEF Over
        <3>3. \A u \in Workers : pc'[u] # "settle"
            BY <1>0, <1>8, <3>1 DEF Over
        <3>4. QED
            BY <1>0, <1>1, <1>6, <1>7, <1>9, <3>1, <3>2, <3>3 DEF Over
    <2>2. CASE Decrement(w)
        <3>1. promise' = promise
            BY <2>2 DEF Decrement
        <3>2. QED
            BY <1>0, <1>1, <1>6, <1>7, <1>8, <1>9, <3>1 DEF Over
    <2>3. QED
        BY <2>1, <2>2
<1>11. QED
    BY <1>6, <1>10 DEF GraphRest

-----------------------------------------------------------------------------
(* Steps of one worker that move a task *)

OnlyWorker(w) ==
    /\ UNCHANGED <<mode, main, promise, done>>
    /\ \A u \in Workers : u # w =>
           /\ pc'[u] = pc[u] /\ node'[u] = node[u]
           /\ cache'[u] = cache[u] /\ index'[u] = index[u]

LEMMA HoldsElsewhere ==
    ASSUME TypeOK, NEW w \in Workers, OnlyWorker(w), NEW k, NEW q \in Queues, NEW t,
           k = "queue" => Queue(q)' = Queue(q), k # "queue" => q # w
    PROVE  Holds(k, q, t)' <=> Holds(k, q, t)
<1>1. CASE k = "queue"
    BY <1>1 DEF Holds
<1>2. CASE k # "queue" /\ q = 0
    BY <1>2 DEF Holds
<1>3. CASE k # "queue" /\ q # 0
    <2>1. q \in Workers
        BY <1>3, ModeIs
    <2>2. /\ pc'[q] = pc[q] /\ node'[q] = node[q] /\ cache'[q] = cache[q]
        BY <1>3, <2>1 DEF OnlyWorker
    <2>3. QED
        BY <1>3, <2>2 DEF Holds, HasNode, HasCache
<1>4. QED
    BY <1>1, <1>2, <1>3

(* What worker w itself holds, before and after.                           *)
LEMMA HoldsAt ==
    ASSUME TypeOK, NEW w \in Workers, NEW t
    PROVE  /\ Holds("node", w, t) <=> HasNode(w) /\ node[w] = t
           /\ Holds("node", w, t)' <=> HasNode(w)' /\ node'[w] = t
           /\ Holds("cache", w, t) <=> HasCache(w) /\ cache[w] = t
           /\ Holds("cache", w, t)' <=> HasCache(w)' /\ cache'[w] = t
           /\ \A q : Holds("queue", q, t) <=> In(t, Queue(q))
           /\ \A q : Holds("queue", q, t)' <=> In(t, Queue(q)')
BY ModeIs DEF Holds

LEMMA ActiveIn ==
    ASSUME NEW t \in Tasks(mode), NEW k \in Kinds, NEW q \in Queues, Holds(k, q, t)
    PROVE  t \in Active
BY DEF Active

LEMMA QueueIs ==
    ASSUME TypeOK, NEW q \in Queues
    PROVE  Queue(q) \in Seq(Tasks(mode))
BY ModeIs DEF Queue, TypeOK

(* All that is held stays, or moves: the same tasks are active.            *)
LEMMA ActiveSame ==
    ASSUME mode' = mode,
           \A t \in Tasks(mode) :
               Stays(t) \/ (t \in Active /\ \E l, r : ComesTo(t, l, r))
    PROVE  Active' = Active
<1>1. \A t \in Tasks(mode) : t \in Active' <=> t \in Active
    BY ActiveThen
<1>2. Active \subseteq Tasks(mode) /\ Active' \subseteq Tasks(mode)
    BY DEF Active
<1>3. QED
    BY <1>1, <1>2

LEMMA ConsumedLocal ==
    ASSUME TypeOK, NEW w \in Workers, OnlyWorker(w), ended' = ended, NEW e \in Edges,
           (pc'[w] \in Loop /\ node'[w] = e[1] => e[2] < index'[w])
               <=> (pc[w] \in Loop /\ node[w] = e[1] => e[2] < index[w])
    PROVE  Consumed(e)' <=> Consumed(e)
<1>1. Workers' = Workers
    BY SameGraph DEF OnlyWorker
<1>2. \A u \in Workers :
          (pc'[u] \in Loop /\ node'[u] = e[1] => e[2] < index'[u])
              <=> (pc[u] \in Loop /\ node[u] = e[1] => e[2] < index[u])
    BY DEF OnlyWorker
<1>3. QED
    BY <1>1, <1>2 DEF Consumed

LEMMA CountersSame ==
    ASSUME TypeOK, Counters, mode' = mode, main' = main, join' = join, left' = left,
           ended' = ended, Active' = Active,
           \A e \in Edges : Consumed(e)' <=> Consumed(e)
    PROVE  Counters'
<1>1. \A t : Into(t) \subseteq Edges /\ Dependents(t)' = Dependents(t)
    BY SameGraph DEF Into
<1>2. \A t : Pending(t)' = Pending(t)
    BY <1>1, PendingSame
<1>3. QED
    BY <1>1, <1>2 DEF Counters

LEMMA OverLocal ==
    ASSUME TypeOK, Over, NEW w \in Workers, OnlyWorker(w),
           pc[w] # "settle",
           pc'[w] \notin {"settle", "cancel and leave", "leave", "gone"},
           Active # {} \/ (Active' = Active /\ ended' = ended)
    PROVE  Over'
<1>1. Workers' = Workers /\ mode' = mode /\ main' = main /\ promise' = promise /\ done' = done
    BY SameGraph DEF OnlyWorker
<1>2. \A u \in Workers : pc'[u] = "settle" => pc[u] = "settle" /\ u # w
    BY DEF OnlyWorker
<1>3. \A u \in Workers : pc'[u] \in {"cancel and leave", "leave", "gone"} =>
                             pc[u] \in {"cancel and leave", "leave", "gone"}
    BY DEF OnlyWorker
<1>4. QED
    BY <1>1, <1>2, <1>3 DEF Over

(* A worker that holds a task does so in a run.                            *)
LEMMA Running ==
    ASSUME TypeOK, NotBegun, NEW w \in Workers,
           pc[w] \notin Idle \/ (\E q \in Queues : Queue(q) # <<>>)
    PROVE  main # "run"
BY ModeIs DEF NotBegun, Queue

(* The step changes no worker but w, which is then at label.               *)
LEMMA WorkerMoves ==
    ASSUME TypeOK, NEW w \in Workers, NEW label \in Labels, pc' = At(w, label),
           UNCHANGED <<mode, main, promise, done>>,
           \A u \in Workers : u # w =>
               node'[u] = node[u] /\ cache'[u] = cache[u] /\ index'[u] = index[u]
    PROVE  OnlyWorker(w) /\ pc'[w] = label
<1>1. \A u \in Workers : pc'[u] = IF u = w THEN label ELSE pc[u]
    BY AtIs
<1>2. QED
    BY <1>1 DEF OnlyWorker

(* One task moves from one place to another. *)
LEMMA Moved ==
    ASSUME mode' = mode, OnePlace, NEW t0 \in Tasks(mode),
           NEW k0 \in Kinds, NEW q0 \in Queues, NEW l \in Kinds, NEW r \in Queues,
           Holds(k0, q0, t0), ~Holds(k0, q0, t0)', Holds(l, r, t0)',
           \A t \in Tasks(mode), k \in Kinds, q \in Queues :
               \/ t = t0 /\ k = k0 /\ q = q0
               \/ t = t0 /\ k = l /\ q = r
               \/ Holds(k, q, t)' <=> Holds(k, q, t)
    PROVE  /\ ComesTo(t0, l, r) /\ t0 \in Active
           /\ \A t \in Tasks(mode) : t = t0 \/ Stays(t)
<1>1. ComesTo(t0, l, r)
    <2>1. ASSUME NEW k \in Kinds, NEW q \in Queues, Holds(k, q, t0)' PROVE k = l /\ q = r
        BY <2>1 DEF OnePlace
    <2>2. QED
        BY <2>1 DEF ComesTo
<1>2. \A t \in Tasks(mode) : t = t0 \/ Stays(t)
    BY DEF Stays
<1>3. QED
    BY <1>1, <1>2, ActiveIn

(* The tasks that move are none that have begun. *)
LEMMA ProgressMoves ==
    ASSUME TypeOK, Progress, NEW w \in Workers, OnlyWorker(w),
           begun' = begun, ended' = ended, begun \subseteq ended \cup Active',
           \A t \in Tasks(mode) : Stays(t) \/ Leaves(t) \/ t \notin begun,
           HasNode(w)' => node'[w] \in Tasks(mode),
           pc'[w] \in {"stolen", "begin"} => node'[w] \notin begun,
           pc'[w] # "body",
           pc'[w] \in Loop => node'[w] \in ended /\ index'[w] >= 1
    PROVE  Progress'
<1>1. Workers' = Workers /\ Queues' = Queues /\ Kinds' = Kinds /\ mode' = mode
    BY SameGraph DEF Kinds, OnlyWorker
<1>2. ASSUME NEW t \in Tasks(mode), NEW k \in Kinds, NEW q \in Queues,
             Holds(k, q, t)', Unbegun(k, q)'
      PROVE  t \notin begun
    <2>1. CASE k = "node" /\ q = w
        BY <1>2, <2>1, HoldsAt DEF Unbegun
    <2>2. CASE ~(k = "node" /\ q = w)
        <3>1. k = "node" => q \in Workers
            <4>1. k = "node" => q # 0
                BY <1>2 DEF Holds
            <4>2. QED
                BY <4>1, ModeIs
        <3>2. Unbegun(k, q)
            BY <1>2, <2>2, <3>1 DEF Unbegun, OnlyWorker
        <3>3. ~Leaves(t)
            BY <1>2 DEF Leaves
        <3>4. CASE Stays(t)
            BY <1>2, <3>2, <3>4 DEF Stays, Progress
        <3>5. QED
            BY <3>3, <3>4
    <2>3. QED
        BY <2>1, <2>2
<1>3. ASSUME NEW u \in Workers
      PROVE  /\ HasNode(u)' => node'[u] \in Tasks(mode)
             /\ pc'[u] = "body" => node'[u] \in begun \ ended
             /\ pc'[u] \in Loop => node'[u] \in ended /\ index'[u] >= 1
    <2>1. CASE u = w
        BY <2>1
    <2>2. CASE u # w
        BY <2>2 DEF OnlyWorker, Progress, HasNode
    <2>3. QED
        BY <2>1, <2>2
<1>4. ended \subseteq begun
    BY DEF Progress
<1>5. QED
    BY <1>1, <1>2, <1>3, <1>4 DEF Progress

-----------------------------------------------------------------------------
LEMMA BeginStep ==
    ASSUME GraphInv, NEW w \in Workers, Begin(w)
    PROVE  GraphRest'
<1>0. TypeOK /\ OnePlace /\ Progress /\ Counters /\ NotBegun /\ Over
    BY DEF GraphInv
<1>1. /\ pc[w] = "begin" /\ pc' = At(w, "body") /\ begun' = begun \cup {node[w]}
      /\ UNCHANGED <<mode, main, shared, wsq, join, left, promise, done, node, cache,
                     index, ended>>
    BY DEF Begin, queues, counters, local
<1>2. OnlyWorker(w) /\ pc'[w] = "body" /\ pc[w] \notin Idle
    <2>1. "body" \in Labels /\ pc[w] \notin Idle
        BY <1>1 DEF Labels, Idle, Deciding
    <2>2. QED
        BY <1>0, <1>1, <2>1, WorkerMoves
<1>3. main # "run"
    BY <1>0, <1>2, Running
<1>4. HasNode(w) /\ HasNode(w)' /\ ~HasCache(w) /\ ~HasCache(w)' /\ node[w] \in Tasks(mode)
    BY <1>0, <1>1, <1>2 DEF HasNode, HasCache, Progress, Loop
<1>5. \A q \in Queues : Queue(q)' = Queue(q)
    BY <1>1 DEF Queue
<1>6. ASSUME NEW t, NEW k \in Kinds, NEW q \in Queues
      PROVE  Holds(k, q, t)' <=> Holds(k, q, t)
    <2>1. CASE k # "queue" /\ q = w
        BY <1>0, <1>1, <1>4, <2>1, HoldsAt DEF Kinds
    <2>2. CASE ~(k # "queue" /\ q = w)
        BY <1>0, <1>2, <1>5, <2>2, HoldsElsewhere
    <2>3. QED
        BY <2>1, <2>2
<1>7. \A t : Stays(t)
    BY <1>6 DEF Stays
<1>8. Active' = Active
    BY <1>1, <1>7, ActiveSame
<1>9. OnePlace'
    BY <1>0, <1>1, <1>5, <1>7, PlacesKept DEF OnePlace
<1>10. Holds("node", w, node[w]) /\ w \in Queues /\ "node" \in Kinds
    BY <1>0, <1>4, HoldsAt, ModeIs DEF Kinds
<1>11. node[w] \in Active
    BY <1>4, <1>10, ActiveIn
<1>12. node[w] \notin begun
    BY <1>0, <1>1, <1>4, <1>10 DEF Progress, Unbegun
<1>13. Workers' = Workers /\ Queues' = Queues /\ Kinds' = Kinds
    BY <1>1, SameGraph DEF Kinds
<1>14. Progress'
    <2>1. ended' \subseteq begun' /\ begun' \subseteq ended' \cup Active'
        BY <1>0, <1>1, <1>8, <1>11 DEF Progress
    <2>2. ASSUME NEW t \in Tasks(mode), NEW k \in Kinds, NEW q \in Queues,
                 Holds(k, q, t)', Unbegun(k, q)'
          PROVE  t \notin begun'
        <3>1. Holds(k, q, t)
            BY <1>6, <2>2
        <3>2. ~(k = "node" /\ q = w)
            BY <1>2, <2>2 DEF Unbegun
        <3>3. t # node[w]
            BY <1>0, <1>4, <1>10, <3>1, <3>2 DEF OnePlace
        <3>4. k = "node" => q \in Workers
            BY <1>0, <3>1, ModeIs DEF Holds
        <3>5. Unbegun(k, q)
            BY <1>2, <2>2, <3>2, <3>4 DEF Unbegun, OnlyWorker
        <3>6. QED
            BY <1>0, <1>1, <3>1, <3>3, <3>5 DEF Progress
    <2>3. ASSUME NEW u \in Workers
          PROVE  /\ HasNode(u)' => node'[u] \in Tasks(mode)
                 /\ pc'[u] = "body" => node'[u] \in begun' \ ended'
                 /\ pc'[u] \in Loop => node'[u] \in ended' /\ index'[u] >= 1
        <3>1. CASE u = w
            BY <1>0, <1>1, <1>2, <1>4, <1>12, <3>1 DEF Loop, Progress
        <3>2. CASE u # w
            BY <1>0, <1>1, <1>2, <3>2 DEF OnlyWorker, Progress, HasNode
        <3>3. QED
            BY <3>1, <3>2
    <2>4. QED
        BY <1>1, <1>13, <2>1, <2>2, <2>3 DEF Progress
<1>15. Counters'
    <2>1. \A e \in Edges : Consumed(e)' <=> Consumed(e)
        BY <1>0, <1>1, <1>2, ConsumedLocal DEF Loop
    <2>2. QED
        BY <1>0, <1>1, <1>8, <2>1, CountersSame
<1>16. Over'
    BY <1>0, <1>1, <1>2, <1>11, OverLocal
<1>17. QED
    BY <1>1, <1>3, <1>9, <1>14, <1>15, <1>16 DEF GraphRest, NotBegun

(* A task is stolen: from the queue of the victim to the thief.            *)
LEMMA StealStep ==
    ASSUME GraphInv, NEW w \in Workers, Steal(w)
    PROVE  GraphRest'
<1>0. TypeOK /\ OnePlace /\ Progress /\ Counters /\ NotBegun /\ Over
    BY DEF GraphInv
<1>a. PICK v \in Queues : v = (IF vtm[w] = w THEN 0 ELSE vtm[w])
    BY <1>0, ModeIs DEF TypeOK
<1>3. Queue(v) = Victim(w)
    BY <1>a, <1>0, ModeIs DEF TypeOK, Queue, Victim
<1>5. Queue(v) \in Seq(Tasks(mode)) /\ Queue(v) # <<>>
    BY <1>0, <1>3, QueueIs DEF Steal
<1>b. PICK t0 \in Tasks(mode) : t0 = Head(Queue(v))
    BY <1>5, TailIn
<1>1. /\ pc[w] = "explore" /\ pc' = At(w, "stolen") /\ begun' = begun /\ ended' = ended
      /\ UNCHANGED <<mode, main, join, left, promise, done, cache>>
      /\ node' = [node EXCEPT ![w] = t0] /\ index' = [index EXCEPT ![w] = 0]
    BY <1>3, <1>b DEF Steal, Stolen, counters, history
<1>2. OnlyWorker(w) /\ pc'[w] = "stolen"
    <2>1. "stolen" \in Labels
        BY DEF Labels
    <2>2. \A u \in Workers : u # w => node'[u] = node[u] /\ index'[u] = index[u]
        BY <1>0, <1>1 DEF TypeOK
    <2>3. QED
        BY <1>0, <1>1, <2>1, <2>2, WorkerMoves
<1>4. \A q \in Queues : Queue(q)' = IF q = v THEN Tail(Queue(v)) ELSE Queue(q)
    BY <1>a, <1>0, ModeIs DEF Steal, AfterSteal, Queue, TypeOK
<1>6. \A y : In(y, Queue(v)) <=> y = t0 \/ In(y, Tail(Queue(v)))
    BY <1>5, <1>b, TailIn
<1>7. Once(Tail(Queue(v))) /\ ~In(t0, Tail(Queue(v)))
    BY <1>0, <1>5, <1>b, TailOnce DEF OnePlace
<1>8. node'[w] = t0
    BY <1>0, <1>1 DEF TypeOK
<1>9. HasNode(w)' /\ ~HasNode(w) /\ ~HasCache(w) /\ ~HasCache(w)'
    BY <1>1, <1>2 DEF HasNode, HasCache, Loop
<1>10. w \in Queues /\ "node" \in Kinds /\ "queue" \in Kinds /\ "cache" \in Kinds
    BY <1>0, ModeIs DEF Kinds
<1>11. Holds("queue", v, t0) /\ ~Holds("queue", v, t0)' /\ Holds("node", w, t0)'
    BY <1>0, <1>3, <1>4, <1>6, <1>7, <1>8, <1>9, HoldsAt
<1>12. ASSUME NEW t \in Tasks(mode), NEW k \in Kinds, NEW q \in Queues
       PROVE  \/ t = t0 /\ k = "queue" /\ q = v
              \/ t = t0 /\ k = "node" /\ q = w
              \/ Holds(k, q, t)' <=> Holds(k, q, t)
    <2>1. CASE k = "queue"
        BY <1>0, <1>3, <1>4, <1>6, <2>1, HoldsAt
    <2>2. CASE k # "queue" /\ q = w
        BY <1>0, <1>8, <1>9, <2>2, HoldsAt DEF Kinds
    <2>3. CASE k # "queue" /\ q # w
        BY <1>0, <1>2, <2>3, HoldsElsewhere
    <2>4. QED
        BY <2>1, <2>2, <2>3
<1>13. ComesTo(t0, "node", w) /\ t0 \in Active /\ \A t \in Tasks(mode) : t = t0 \/ Stays(t)
    BY <1>0, <1>1, <1>3, <1>6, <1>10, <1>11, <1>12, Moved
<1>14. Active' = Active
    BY <1>1, <1>13, ActiveSame
<1>15. t0 \notin begun
    BY <1>0, <1>3, <1>6, <1>10, <1>11 DEF Progress, Unbegun
<1>16. OnePlace'
    <2>1. \A q \in Queues : Once(Queue(q)')
        BY <1>0, <1>4, <1>7 DEF OnePlace
    <2>2. QED
        BY <1>0, <1>1, <1>13, <2>1, PlacesKept
<1>17. Progress'
    BY <1>0, <1>1, <1>2, <1>6, <1>8, <1>13, <1>14, <1>15, ProgressMoves DEF Progress, Loop
<1>18. Counters'
    <2>1. \A e \in Edges : Consumed(e)' <=> Consumed(e)
        BY <1>0, <1>1, <1>2, ConsumedLocal DEF Loop
    <2>2. QED
        BY <1>0, <1>1, <1>14, <2>1, CountersSame
<1>19. Over'
    BY <1>0, <1>1, <1>2, <1>13, OverLocal
<1>20. NotBegun'
    <2>1. main # "run"
        BY <1>0, <1>3, <1>5, Running
    <2>2. QED
        BY <1>1, <2>1 DEF NotBegun
<1>21. QED
    BY <1>16, <1>17, <1>18, <1>19, <1>20 DEF GraphRest

(* The next task comes from the cache or from the end of the queue.        *)
LEMMA NextTaskStep ==
    ASSUME GraphInv, NEW w \in Workers, NextTask(w)
    PROVE  GraphRest'
<1>0. TypeOK /\ OnePlace /\ Progress /\ Counters /\ NotBegun /\ Over
    BY DEF GraphInv
<1>1. /\ pc[w] = "next" /\ begun' = begun /\ ended' = ended
      /\ UNCHANGED <<mode, main, shared, join, left, promise, done, cache>>
      /\ index' = [index EXCEPT ![w] = 0]
    BY DEF NextTask, counters, history
<1>2. \A u \in Workers : u # w => index'[u] = index[u]
    BY <1>0, <1>1 DEF TypeOK
<1>3. main # "run"
    BY <1>0, <1>1, Running DEF Idle, Deciding
<1>4. NotBegun'
    BY <1>1, <1>3 DEF NotBegun
<1>5. ~HasNode(w) /\ (HasCache(w) <=> cache[w] # NoTask)
    BY <1>1 DEF HasNode, HasCache, Loop
<1>6. w \in Queues /\ "node" \in Kinds /\ "queue" \in Kinds /\ "cache" \in Kinds /\ w # 0
    BY <1>0, ModeIs DEF Kinds
<1>7. "begin" \in Labels /\ "explore" \in Labels
    BY DEF Labels
<1>8. CASE cache[w] # NoTask
    <2>4. PICK t0 \in Tasks(mode) : t0 = cache[w]
        BY <1>0, <1>8 DEF TypeOK
    <2>1. node' = [node EXCEPT ![w] = t0] /\ pc' = At(w, "begin") /\ wsq' = wsq
        BY <1>8, <2>4 DEF NextTask
    <2>2. node'[w] = t0 /\ \A u \in Workers : u # w => node'[u] = node[u]
        BY <1>0, <2>1 DEF TypeOK
    <2>3. OnlyWorker(w) /\ pc'[w] = "begin"
        BY <1>0, <1>1, <1>2, <1>7, <2>1, <2>2, WorkerMoves
    <2>5. \A q \in Queues : Queue(q)' = Queue(q)
        BY <1>1, <2>1 DEF Queue
    <2>6. HasNode(w)' /\ ~HasCache(w)'
        BY <2>3 DEF HasNode, HasCache, Loop
    <2>7. Holds("cache", w, t0) /\ ~Holds("cache", w, t0)' /\ Holds("node", w, t0)'
        BY <1>0, <1>5, <1>8, <2>2, <2>4, <2>6, HoldsAt
    <2>8. ASSUME NEW t \in Tasks(mode), NEW k \in Kinds, NEW q \in Queues
          PROVE  \/ t = t0 /\ k = "cache" /\ q = w
                 \/ t = t0 /\ k = "node" /\ q = w
                 \/ Holds(k, q, t)' <=> Holds(k, q, t)
        <3>1. CASE k = "queue"
            BY <1>0, <2>5, <3>1, HoldsAt
        <3>2. CASE k # "queue" /\ q = w
            BY <1>0, <1>5, <2>2, <2>4, <2>6, <3>2, HoldsAt DEF Kinds
        <3>3. CASE k # "queue" /\ q # w
            BY <1>0, <2>3, <3>3, HoldsElsewhere
        <3>4. QED
            BY <3>1, <3>2, <3>3
    <2>9. ComesTo(t0, "node", w) /\ t0 \in Active /\ \A t \in Tasks(mode) : t = t0 \/ Stays(t)
        BY <1>0, <1>1, <1>6, <2>4, <2>7, <2>8, Moved
    <2>10. Active' = Active
        BY <1>1, <2>9, ActiveSame
    <2>11. t0 \notin begun
        BY <1>0, <1>6, <2>4, <2>7 DEF Progress, Unbegun
    <2>12. OnePlace'
        <3>1. \A q \in Queues : Once(Queue(q)')
            BY <1>0, <2>5 DEF OnePlace
        <3>2. QED
            BY <1>0, <1>1, <2>9, <3>1, PlacesKept
    <2>13. Progress'
        BY <1>0, <1>1, <2>2, <2>3, <2>4, <2>9, <2>10, <2>11, ProgressMoves DEF Progress, Loop
    <2>14. Counters'
        <3>1. \A e \in Edges : Consumed(e)' <=> Consumed(e)
            BY <1>0, <1>1, <2>3, ConsumedLocal DEF Loop
        <3>2. QED
            BY <1>0, <1>1, <2>10, <3>1, CountersSame
    <2>15. Over'
        BY <1>0, <1>1, <2>3, <2>9, OverLocal
    <2>16. QED
        BY <1>4, <2>12, <2>13, <2>14, <2>15 DEF GraphRest
<1>9. CASE cache[w] = NoTask /\ wsq[w] # <<>>
    <2> DEFINE s == wsq[w]
    <2>4. Queue(w) = s /\ s \in Seq(Tasks(mode)) /\ s # <<>>
        BY <1>0, <1>6, <1>9 DEF TypeOK, Queue
    <2>a. PICK t0 \in Tasks(mode) : t0 = Popped(s)
        BY <2>4, FrontIn
    <2>1. /\ node' = [node EXCEPT ![w] = t0] /\ pc' = At(w, "begin")
          /\ wsq' = [wsq EXCEPT ![w] = AfterPop(s)]
        BY <1>9, <2>a DEF NextTask
    <2>2. node'[w] = t0 /\ \A u \in Workers : u # w => node'[u] = node[u]
        BY <1>0, <2>1 DEF TypeOK
    <2>3. OnlyWorker(w) /\ pc'[w] = "begin"
        BY <1>0, <1>1, <1>2, <1>7, <2>1, <2>2, WorkerMoves
    <2>5. \A q \in Queues : Queue(q)' = IF q = w THEN AfterPop(s) ELSE Queue(q)
        BY <1>0, <1>1, <1>6, <2>1, ModeIs DEF Queue, TypeOK
    <2> HIDE DEF s
    <2>6. \A y : In(y, s) <=> y = t0 \/ In(y, AfterPop(s))
        BY <2>4, <2>a, FrontIn
    <2>7. Once(AfterPop(s)) /\ ~In(t0, AfterPop(s))
        BY <1>0, <1>6, <2>4, <2>a, FrontIn DEF OnePlace
    <2>8. HasNode(w)' /\ ~HasCache(w)' /\ ~HasCache(w)
        BY <1>5, <1>9, <2>3 DEF HasNode, HasCache, Loop
    <2>9. Holds("queue", w, t0) /\ ~Holds("queue", w, t0)' /\ Holds("node", w, t0)'
        BY <1>0, <1>6, <2>2, <2>4, <2>5, <2>6, <2>7, <2>8, HoldsAt
    <2>10. ASSUME NEW t \in Tasks(mode), NEW k \in Kinds, NEW q \in Queues
           PROVE  \/ t = t0 /\ k = "queue" /\ q = w
                  \/ t = t0 /\ k = "node" /\ q = w
                  \/ Holds(k, q, t)' <=> Holds(k, q, t)
        <3>1. CASE k = "queue"
            BY <1>0, <2>4, <2>5, <2>6, <3>1, HoldsAt
        <3>2. CASE k # "queue" /\ q = w
            BY <1>0, <1>5, <2>2, <2>8, <3>2, HoldsAt DEF Kinds
        <3>3. CASE k # "queue" /\ q # w
            BY <1>0, <2>3, <3>3, HoldsElsewhere
        <3>4. QED
            BY <3>1, <3>2, <3>3
    <2>11. ComesTo(t0, "node", w) /\ t0 \in Active /\ \A t \in Tasks(mode) : t = t0 \/ Stays(t)
        BY <1>0, <1>1, <1>6, <2>6, <2>9, <2>10, Moved
    <2>12. Active' = Active
        BY <1>1, <2>11, ActiveSame
    <2>13. t0 \notin begun
        BY <1>0, <1>6, <2>6, <2>9 DEF Progress, Unbegun
    <2>14. OnePlace'
        <3>1. \A q \in Queues : Once(Queue(q)')
            BY <1>0, <2>5, <2>7 DEF OnePlace
        <3>2. QED
            BY <1>0, <1>1, <2>11, <3>1, PlacesKept
    <2>15. Progress'
        BY <1>0, <1>1, <2>2, <2>3, <2>6, <2>11, <2>12, <2>13, ProgressMoves DEF Progress, Loop
    <2>16. Counters'
        <3>1. \A e \in Edges : Consumed(e)' <=> Consumed(e)
            BY <1>0, <1>1, <2>3, ConsumedLocal DEF Loop
        <3>2. QED
            BY <1>0, <1>1, <2>12, <3>1, CountersSame
    <2>17. Over'
        BY <1>0, <1>1, <2>3, <2>11, OverLocal
    <2>18. QED
        BY <1>4, <2>14, <2>15, <2>16, <2>17 DEF GraphRest
<1>10. CASE cache[w] = NoTask /\ wsq[w] = <<>>
    <2>1. node' = [node EXCEPT ![w] = NoTask] /\ pc' = At(w, "explore") /\ wsq' = wsq
        BY <1>10 DEF NextTask
    <2>2. \A u \in Workers : u # w => node'[u] = node[u]
        BY <1>0, <2>1 DEF TypeOK
    <2>3. OnlyWorker(w) /\ pc'[w] = "explore"
        BY <1>0, <1>1, <1>2, <1>7, <2>1, <2>2, WorkerMoves
    <2>4. \A q \in Queues : Queue(q)' = Queue(q)
        BY <1>1, <2>1 DEF Queue
    <2>5. ~HasNode(w)' /\ ~HasCache(w)' /\ ~HasCache(w)
        BY <1>5, <1>10, <2>3 DEF HasNode, HasCache, Loop
    <2>6. ASSUME NEW t \in Tasks(mode), NEW k \in Kinds, NEW q \in Queues
          PROVE  Holds(k, q, t)' <=> Holds(k, q, t)
        <3>1. CASE k = "queue"
            BY <1>0, <2>4, <3>1, HoldsAt
        <3>2. CASE k # "queue" /\ q = w
            BY <1>0, <1>5, <2>5, <3>2, HoldsAt DEF Kinds
        <3>3. CASE k # "queue" /\ q # w
            BY <1>0, <2>3, <3>3, HoldsElsewhere
        <3>4. QED
            BY <3>1, <3>2, <3>3
    <2>7. \A t \in Tasks(mode) : Stays(t)
        BY <2>6 DEF Stays
    <2>8. Active' = Active
        BY <1>1, <2>7, ActiveSame
    <2>9. OnePlace'
        <3>1. \A q \in Queues : Once(Queue(q)')
            BY <1>0, <2>4 DEF OnePlace
        <3>2. QED
            BY <1>0, <1>1, <2>7, <3>1, PlacesKept
    <2>10. Progress'
        BY <1>0, <1>1, <2>3, <2>5, <2>7, <2>8, ProgressMoves DEF Progress, Loop
    <2>11. Counters'
        <3>1. \A e \in Edges : Consumed(e)' <=> Consumed(e)
            BY <1>0, <1>1, <2>3, ConsumedLocal DEF Loop
        <3>2. QED
            BY <1>0, <1>1, <2>8, <3>1, CountersSame
    <2>12. Over'
        BY <1>0, <1>1, <2>3, <2>8, OverLocal
    <2>13. QED
        BY <1>4, <2>9, <2>10, <2>11, <2>12 DEF GraphRest
<1>11. QED
    BY <1>8, <1>9, <1>10

(* A task's function returns: nothing moves, and no edge is gone along yet. *)
LEMMA FinishStep ==
    ASSUME GraphInv, NEW w \in Workers, Finish(w)
    PROVE  GraphRest'
<1>0. TypeOK /\ OnePlace /\ Progress /\ Counters /\ NotBegun /\ Over
    BY DEF GraphInv
<1>a. pc[w] = "body"
    BY DEF Finish
<1>b. HasNode(w) /\ ~HasCache(w)
    BY <1>a DEF HasNode, HasCache, Loop
<1>c. PICK n \in Tasks(mode) : n = node[w]
    BY <1>0, <1>b DEF Progress
<1>1. /\ pc' = At(w, "successors") /\ begun' = begun /\ ended' = ended \cup {n}
      /\ UNCHANGED <<mode, main, shared, wsq, left, promise, done, node>>
      /\ cache' = [cache EXCEPT ![w] = NoTask] /\ index' = [index EXCEPT ![w] = 1]
      /\ join' = [join EXCEPT ![n] = @ + Dependents(n)]
    BY <1>c DEF Finish, queues
<1>2. OnlyWorker(w) /\ pc'[w] = "successors"
    <2>1. "successors" \in Labels
        BY DEF Labels
    <2>2. \A u \in Workers : u # w => cache'[u] = cache[u] /\ index'[u] = index[u]
        BY <1>0, <1>1 DEF TypeOK
    <2>3. QED
        BY <1>0, <1>1, <2>1, <2>2, WorkerMoves
<1>3. cache'[w] = NoTask /\ index'[w] = 1 /\ node'[w] = n /\ node[w] = n
    BY <1>0, <1>1, <1>c DEF TypeOK
<1>4. HasNode(w)' /\ ~HasCache(w)'
    BY <1>2, <1>3 DEF HasNode, HasCache, Loop
<1>5. \A q \in Queues : Queue(q)' = Queue(q)
    BY <1>1 DEF Queue
<1>6. ASSUME NEW t, NEW k \in Kinds, NEW q \in Queues
      PROVE  Holds(k, q, t)' <=> Holds(k, q, t)
    <2>1. CASE k # "queue" /\ q = w
        BY <1>0, <1>3, <1>4, <1>b, <2>1, HoldsAt DEF Kinds
    <2>2. CASE ~(k # "queue" /\ q = w)
        BY <1>0, <1>2, <1>5, <2>2, HoldsElsewhere
    <2>3. QED
        BY <2>1, <2>2
<1>7. \A t : Stays(t)
    BY <1>6 DEF Stays
<1>8. Active' = Active
    BY <1>1, <1>7, ActiveSame
<1>9. OnePlace'
    BY <1>0, <1>1, <1>5, <1>7, PlacesKept DEF OnePlace
<1>10. w \in Queues /\ "node" \in Kinds /\ Holds("node", w, n)
    BY <1>0, <1>3, <1>b, HoldsAt, ModeIs DEF Kinds
<1>11. n \in Active
    BY <1>10, ActiveIn
<1>12. n \in begun /\ n \notin ended
    BY <1>0, <1>3, <1>a DEF Progress
<1>13. Workers' = Workers /\ Queues' = Queues /\ Kinds' = Kinds
    BY <1>1, SameGraph DEF Kinds
<1>14. \A u \in Workers : u # w /\ HasNode(u) => node[u] # n
    <2>1. SUFFICES ASSUME NEW u \in Workers, u # w, HasNode(u), node[u] = n PROVE FALSE
        OBVIOUS
    <2>2. Holds("node", u, n) /\ u \in Queues
        BY <1>0, <2>1, HoldsAt, ModeIs
    <2>3. QED
        BY <1>0, <1>10, <2>1, <2>2 DEF OnePlace
<1>15. Progress'
    <2>1. ended' \subseteq begun' /\ begun' \subseteq ended' \cup Active'
        BY <1>0, <1>1, <1>8, <1>12 DEF Progress
    <2>2. ASSUME NEW t \in Tasks(mode), NEW k \in Kinds, NEW q \in Queues,
                 Holds(k, q, t)', Unbegun(k, q)'
          PROVE  t \notin begun
        <3>1. Holds(k, q, t)
            BY <1>6, <2>2
        <3>2. ~(k = "node" /\ q = w)
            BY <1>2, <2>2 DEF Unbegun
        <3>3. k = "node" => q \in Workers
            BY <1>0, <3>1, ModeIs DEF Holds
        <3>4. Unbegun(k, q)
            BY <1>2, <2>2, <3>2, <3>3 DEF Unbegun, OnlyWorker
        <3>5. QED
            BY <1>0, <3>1, <3>4 DEF Progress
    <2>3. ASSUME NEW u \in Workers
          PROVE  /\ HasNode(u)' => node'[u] \in Tasks(mode)
                 /\ pc'[u] = "body" => node'[u] \in begun' \ ended'
                 /\ pc'[u] \in Loop => node'[u] \in ended' /\ index'[u] >= 1
        <3>1. CASE u = w
            BY <1>1, <1>2, <1>3, <3>1 DEF Loop
        <3>2. CASE u # w
            BY <1>0, <1>1, <1>2, <1>14, <3>2 DEF OnlyWorker, Progress, HasNode
        <3>3. QED
            BY <3>1, <3>2
    <2>4. QED
        BY <1>1, <1>13, <2>1, <2>2, <2>3 DEF Progress
<1>16. ASSUME NEW e \in Edges PROVE Consumed(e)' <=> Consumed(e)
    <2>1. CASE e[1] = n
        <3>1. ~Consumed(e)
            BY <1>12, <2>1 DEF Consumed
        <3>2. ~(e[2] < index'[w]) /\ pc'[w] \in Loop /\ node'[w] = e[1]
            BY <1>0, <1>2, <1>3, <2>1, EdgeIs DEF Loop
        <3>3. QED
            BY <1>13, <3>1, <3>2 DEF Consumed
    <2>2. CASE e[1] # n
        <3>1. \A u \in Workers :
                  (pc'[u] \in Loop /\ node'[u] = e[1] => e[2] < index'[u])
                      <=> (pc[u] \in Loop /\ node[u] = e[1] => e[2] < index[u])
            BY <1>2, <1>3, <2>2 DEF OnlyWorker
        <3>2. e[1] \in ended' <=> e[1] \in ended
            BY <1>1, <2>2
        <3>3. QED
            BY <1>13, <3>1, <3>2 DEF Consumed
    <2>3. QED
        BY <2>1, <2>2
<1>17. main # "run"
    BY <1>0, <1>a, Running DEF Idle, Deciding
<1>18. Counters'
    <2>1. \A t : Into(t) \subseteq Edges /\ Dependents(t)' = Dependents(t)
        BY <1>1, SameGraph DEF Into
    <2>2. \A t : Pending(t)' = Pending(t)
        BY <1>0, <1>1, <1>16, <2>1, PendingSame
    <2>3. Pending(n) = {} /\ join[n] = 0
        <3>1. Pending(n) = {} /\ join[n] = Cardinality(Pending(n)) + 0
            BY <1>0, <1>11, <1>12, <1>17 DEF Counters
        <3>2. QED
            BY <3>1, FS_EmptySet
    <2>4. \A t \in Tasks(mode) : join'[t] = IF t = n THEN 0 + Dependents(n) ELSE join[t]
        BY <1>0, <1>1, <2>3 DEF TypeOK
    <2>5. ASSUME NEW t \in Tasks(mode)
          PROVE  join'[t] = Cardinality(Pending(t)) + (IF t \in ended' THEN Dependents(t) ELSE 0)
        <3>1. CASE t = n
            <4>1. Cardinality(Pending(n)) = 0
                BY <2>3, FS_EmptySet
            <4>2. QED
                BY <1>1, <2>4, <3>1, <4>1
        <3>2. CASE t # n
            BY <1>0, <1>1, <1>17, <2>4, <3>2 DEF Counters
        <3>3. QED
            BY <3>1, <3>2
    <2>6. \A t \in Tasks(mode) : Pending(t) = {} <=> t \in ended' \cup Active
        BY <1>0, <1>1, <1>11, <1>17 DEF Counters
    <2>7. left' = Cardinality(Active)
        BY <1>0, <1>1, <1>17 DEF Counters
    <2>8. QED
        BY <1>1, <1>8, <2>1, <2>2, <2>5, <2>6, <2>7 DEF Counters
<1>19. Over'
    BY <1>0, <1>2, <1>11, <1>a, OverLocal
<1>20. NotBegun'
    BY <1>1, <1>17 DEF NotBegun
<1>21. QED
    BY <1>9, <1>15, <1>18, <1>19, <1>20 DEF GraphRest

(* When the last active task has gone along all its edges, all have ended. *)
LEMMA AllEnded ==
    ASSUME TypeOK, OnePlace, Counters, main # "run",
           NEW w \in Workers, pc[w] = "successors",
           index[w] > Len(mode.next[node[w]]), Active = {node[w]}, node[w] \in ended
    PROVE  ended = Tasks(mode)
<1>1. SUFFICES ASSUME Tasks(mode) \ ended # {} PROVE FALSE
    BY DEF TypeOK
<1>2. PICK t \in Tasks(mode) \ ended : \A e \in Into(t) : e[1] \notin Tasks(mode) \ ended
    BY <1>1, Minimal
<1>3. t \notin Active
    BY <1>2
<1>4. PICK e \in Into(t) : ~Consumed(e)
    BY <1>2, <1>3 DEF Counters, Pending
<1>5. e \in Edges
    BY DEF Into
<1>6. e[1] \in Tasks(mode) /\ e[1] \in ended
    BY <1>2, <1>5, EdgeIs
<1>7. PICK u \in Workers : pc[u] \in Loop /\ node[u] = e[1] /\ ~(e[2] < index[u])
    BY <1>4, <1>6 DEF Consumed
<1>8. Holds("node", u, e[1]) /\ u \in Queues /\ "node" \in Kinds
    BY <1>7, HoldsAt, ModeIs DEF HasNode, Kinds
<1>9. e[1] = node[w]
    BY <1>6, <1>8, ActiveIn
<1>10. Holds("node", w, e[1]) /\ w \in Queues
    BY <1>9, HoldsAt, ModeIs DEF HasNode, Loop
<1>11. u = w
    BY <1>6, <1>8, <1>10 DEF OnePlace
<1>12. e[2] \in 1 .. Len(mode.next[node[w]]) /\ index[w] \in Nat
    BY <1>5, <1>9, EdgeIs DEF TypeOK
<1>13. mode.next[node[w]] \in Seq(Tasks(mode))
    BY <1>6, <1>9, ModeIs
<1>14. QED
    BY <1>7, <1>11, <1>12, <1>13

(* A task is done with; the last one ends the run.                         *)
LEMMA TearDownStep ==
    ASSUME GraphInv, NEW w \in Workers, TearDown(w)
    PROVE  GraphRest'
<1>0. TypeOK /\ OnePlace /\ Progress /\ Counters /\ NotBegun /\ Over
    BY DEF GraphInv
<1>a. pc[w] = "successors" /\ pc[w] \in Loop /\ HasNode(w) /\ pc[w] \notin Idle
    BY DEF TearDown, HasNode, Loop, Idle, Deciding
<1>b. PICK n \in Tasks(mode) : n = node[w]
    BY <1>0, <1>a DEF Progress
<1>1. /\ begun' = begun /\ ended' = ended /\ left' = left - 1
      /\ UNCHANGED <<mode, main, shared, wsq, join, promise, done, node, cache, index>>
      /\ index[w] > Len(mode.next[n])
    BY <1>b DEF TearDown, queues, local, history
<1>2. PICK label \in {"settle", "next"} :
          pc' = At(w, label) /\ (label = "settle" <=> left = 1)
    BY DEF TearDown, Last
<1>3. OnlyWorker(w) /\ pc'[w] = label
    <2>1. label \in Labels
        BY DEF Labels
    <2>2. QED
        BY <1>0, <1>1, <1>2, <2>1, WorkerMoves
<1>4. main # "run"
    BY <1>0, <1>a, Running
<1>5. n \in ended /\ node[w] = n /\ node'[w] = n
    BY <1>0, <1>1, <1>a, <1>b DEF Progress
<1>6. ~HasNode(w)' /\ (HasCache(w)' <=> HasCache(w)) /\ cache'[w] = cache[w] /\ pc'[w] \notin Loop
    BY <1>1, <1>3, <1>a DEF HasNode, HasCache, Loop
<1>7. \A q \in Queues : Queue(q)' = Queue(q)
    BY <1>1 DEF Queue
<1>8. w \in Queues /\ "node" \in Kinds /\ Holds("node", w, n) /\ ~Holds("node", w, n)'
    BY <1>0, <1>5, <1>6, <1>a, HoldsAt, ModeIs DEF Kinds
<1>9. n \in Active
    BY <1>8, ActiveIn
<1>10. ASSUME NEW t \in Tasks(mode), NEW k \in Kinds, NEW q \in Queues
       PROVE  (t = n /\ k = "node" /\ q = w) \/ (Holds(k, q, t)' <=> Holds(k, q, t))
    <2>1. CASE k # "queue" /\ q = w
        BY <1>0, <1>5, <1>6, <2>1, HoldsAt DEF Kinds
    <2>2. CASE ~(k # "queue" /\ q = w)
        BY <1>0, <1>3, <1>7, <2>2, HoldsElsewhere
    <2>3. QED
        BY <2>1, <2>2
<1>11. Leaves(n)
    BY <1>0, <1>8, <1>10 DEF Leaves, OnePlace
<1>12. \A t \in Tasks(mode) : t = n \/ Stays(t)
    BY <1>10 DEF Stays
<1>13. Active' = Active \ {n}
    <2>1. \A t \in Tasks(mode) : t \in Active' <=> t \in Active /\ t # n
        BY <1>1, <1>11, <1>12, ActiveThen
    <2>2. Active \subseteq Tasks(mode) /\ Active' \subseteq Tasks(mode)
        BY <1>1 DEF Active
    <2>3. QED
        BY <2>1, <2>2
<1>14. OnePlace'
    <2>1. \A q \in Queues : Once(Queue(q)')
        BY <1>0, <1>7 DEF OnePlace
    <2>2. QED
        BY <1>0, <1>1, <1>11, <1>12, <2>1, PlacesKept
<1>15. Progress'
    <2>1. begun \subseteq ended \cup Active'
        BY <1>0, <1>5, <1>13 DEF Progress
    <2>2. pc'[w] # "body" /\ pc'[w] \notin {"stolen", "begin"}
        BY <1>3
    <2>3. \A t \in Tasks(mode) : Stays(t) \/ Leaves(t)
        BY <1>11, <1>12
    <2>4. QED
        BY <1>0, <1>1, <1>3, <1>6, <2>1, <2>2, <2>3, ProgressMoves
<1>16. Counters'
    <2>1. ASSUME NEW e \in Edges PROVE Consumed(e)' <=> Consumed(e)
        <3>1. e[1] = n => e[2] < index[w]
            <4>1. SUFFICES ASSUME e[1] = n PROVE e[2] < index[w]
                OBVIOUS
            <4>2. e[2] \in 1 .. Len(mode.next[n]) /\ index[w] \in Nat
                BY <1>0, <4>1, EdgeIs DEF TypeOK
            <4>3. mode.next[n] \in Seq(Tasks(mode))
                BY <1>0, ModeIs
            <4>4. QED
                BY <1>1, <4>2, <4>3
        <3>2. QED
            BY <1>0, <1>1, <1>3, <1>5, <1>6, <3>1, ConsumedLocal
    <2>2. \A t : Into(t) \subseteq Edges /\ Dependents(t)' = Dependents(t)
        BY <1>1, SameGraph DEF Into
    <2>3. \A t : Pending(t)' = Pending(t)
        BY <1>0, <1>1, <2>1, <2>2, PendingSame
    <2>4. left' = Cardinality(Active')
        <3>1. left = Cardinality(Active) /\ IsFiniteSet(Active)
            BY <1>0, <1>4, ActiveIs DEF Counters
        <3>2. Cardinality(Active \ {n}) = Cardinality(Active) - 1
            BY <1>9, <3>1, FS_RemoveElement
        <3>3. QED
            BY <1>1, <1>13, <3>1, <3>2
    <2>5. \A t \in Tasks(mode) : t \in ended \cup Active' <=> t \in ended \cup Active
        BY <1>5, <1>13
    <2>6. QED
        BY <1>0, <1>1, <1>4, <2>2, <2>3, <2>4, <2>5 DEF Counters
<1>17. Over'
    <2>1. CASE label = "next"
        BY <1>0, <1>3, <1>9, <1>a, <2>1, OverLocal
    <2>2. CASE label = "settle"
        <3>1. Cardinality(Active) = 1 /\ IsFiniteSet(Active)
            BY <1>0, <1>2, <1>4, <2>2, ActiveIs DEF Counters
        <3>2. Cardinality(Active \ {n}) = 0 /\ IsFiniteSet(Active \ {n})
            BY <1>9, <3>1, FS_RemoveElement
        <3>3. Active \ {n} = {}
            BY <3>2, FS_EmptySet
        <3>4. Active = {node[w]}
            BY <1>5, <1>9, <3>3
        <3>5. ended = Tasks(mode)
            BY <1>0, <1>1, <1>4, <1>5, <1>a, <3>4, AllEnded
        <3>6. /\ ~promise /\ \A u \in Workers : pc[u] # "settle"
              /\ main \notin {"returned", "shutdown", "join", "end"} /\ ~done
              /\ \A u \in Workers : pc[u] \notin {"cancel and leave", "leave", "gone"}
            BY <1>0, <1>9 DEF Over
        <3>7. /\ Workers' = Workers /\ mode' = mode /\ main' = main
              /\ promise' = promise /\ done' = done
            BY <1>1, SameGraph
        <3>8. \A u \in Workers : /\ pc'[u] = "settle" => u = w
                                 /\ pc'[u] \notin {"cancel and leave", "leave", "gone"}
            BY <1>3, <3>6 DEF OnlyWorker
        <3>9. ~promise' /\ ~done'
            BY <3>6, <3>7
        <3>10. Active' = {} /\ ended' = Tasks(mode')
            BY <1>1, <1>13, <3>3, <3>5
        <3>11. main' \notin {"returned", "shutdown", "join", "end"}
            BY <3>6, <3>7
        <3>12. QED
            BY <3>7, <3>8, <3>9, <3>10, <3>11 DEF Over
    <2>3. QED
        BY <2>1, <2>2
<1>18. NotBegun'
    BY <1>1, <1>4 DEF NotBegun
<1>19. QED
    BY <1>14, <1>15, <1>16, <1>17, <1>18 DEF GraphRest

(* What one step of the loop over the successors does to the edges: the    *)
(* edge e0 to s is gone along, and s waits for one task less.              *)
WaitsForOneLess(s) ==
    /\ main # "run" /\ s \notin ended /\ s \notin Active /\ s \notin begun
    /\ \A t \in Tasks(mode) : t # s => Pending(t)' = Pending(t)
    /\ Cardinality(Pending(s)') = Cardinality(Pending(s)) - 1
    /\ join[s] = Cardinality(Pending(s))
    /\ Pending(s)' = {} <=> join[s] = 1

LEMMA SuccessorEdges ==
    ASSUME GraphInv, NEW w \in Workers, pc[w] = "successors",
           NEW n \in Tasks(mode), node[w] = n, NEW i \in Nat \ {0}, index[w] = i,
           NEW s \in Tasks(mode), s = mode.next[n][i], i <= Len(mode.next[n]),
           OnlyWorker(w), ended' = ended, node'[w] = n, index'[w] = i + 1, pc'[w] \in Loop
    PROVE  WaitsForOneLess(s)
<1> DEFINE e0 == <<n, i>>
<1>0. TypeOK /\ OnePlace /\ Progress /\ Counters /\ NotBegun /\ Over
    BY DEF GraphInv
<1>1. main # "run"
    BY <1>0, Running DEF Idle, Deciding
<1>2. mode.next[n] \in Seq(Tasks(mode))
    BY <1>0, ModeIs
<1>3. i \in 1 .. Len(mode.next[n])
    BY <1>2
<1>4. e0 \in Edges /\ Target(e0) = s /\ e0[1] = n /\ e0[2] = i
    BY <1>0, <1>3, EdgeExists
<1> HIDE DEF e0
<1>5. n \in ended
    BY <1>0 DEF Progress, Loop
<1>6. ~Consumed(e0)
    BY <1>4 DEF Consumed, Loop
<1>7. e0 \in Pending(s)
    BY <1>4, <1>6 DEF Pending, Into
<1>8. s \notin ended /\ s \notin Active
    BY <1>0, <1>1, <1>7 DEF Counters
<1>9. s \notin begun
    BY <1>0, <1>8 DEF Progress
<1>10. \A u \in Workers : u # w => ~(pc[u] \in Loop /\ node[u] = n)
    <2>1. SUFFICES ASSUME NEW u \in Workers, u # w, pc[u] \in Loop, node[u] = n PROVE FALSE
        OBVIOUS
    <2>2. Holds("node", u, n) /\ Holds("node", w, n)
        BY <1>0, <2>1, HoldsAt DEF HasNode, Loop
    <2>3. u \in Queues /\ w \in Queues /\ "node" \in Kinds
        BY <1>0, ModeIs DEF Kinds
    <2>4. QED
        BY <1>0, <2>1, <2>2, <2>3 DEF OnePlace
<1>11. Workers' = Workers /\ mode' = mode
    BY SameGraph DEF OnlyWorker
<1>12. Consumed(e0)'
    <2>1. e0[1] \in ended'
        BY <1>4, <1>5
    <2>2. ASSUME NEW u \in Workers, pc'[u] \in Loop, node'[u] = e0[1] PROVE e0[2] < index'[u]
        <3>1. u = w
            BY <1>4, <1>10, <2>2 DEF OnlyWorker
        <3>2. QED
            BY <1>4, <3>1
    <2>3. QED
        BY <1>11, <2>1, <2>2 DEF Consumed, e0
<1>13. ASSUME NEW e \in Edges, e # e0 PROVE Consumed(e)' <=> Consumed(e)
    <2>1. e[1] = n => (e[2] < i + 1 <=> e[2] < i)
        <3>1. SUFFICES ASSUME e[1] = n PROVE e[2] < i + 1 <=> e[2] < i
            OBVIOUS
        <3>2. e = <<e[1], e[2]>> /\ e[2] \in Nat
            BY <1>0, EdgeIs
        <3>3. e[2] # i
            BY <1>13, <3>1, <3>2 DEF e0
        <3>4. QED
            BY <3>2, <3>3
    <2>2. QED
        BY <1>0, <2>1, ConsumedLocal DEF Loop
<1>14. \A t : Into(t)' = Into(t) /\ Into(t) \subseteq Edges
    BY <1>11, SameGraph DEF Into
<1>15. ASSUME NEW t \in Tasks(mode), t # s PROVE Pending(t)' = Pending(t)
    <2>1. e0 \notin Into(t)
        BY <1>4, <1>15 DEF Into
    <2>2. \A e \in Into(t) : Consumed(e)' <=> Consumed(e)
        BY <1>13, <1>14, <2>1
    <2>3. QED
        BY <1>0, <1>11, <2>2, PendingSame
<1>16. Pending(s)' = Pending(s) \ {e0}
    <2>1. \A e \in Into(s) : Consumed(e)' <=> Consumed(e) \/ e = e0
        BY <1>12, <1>13, <1>14 DEF e0
    <2>2. Pending(s)' = {e \in Into(s) : ~(Consumed(e) \/ e = e0)}
        BY <1>14, <2>1 DEF Pending
    <2>3. QED
        BY <2>2 DEF Pending
<1>17. IsFiniteSet(Pending(s)) /\ Cardinality(Pending(s)) \in Nat
    BY <1>0, ActiveIs
<1>18. IsFiniteSet(Pending(s)') /\ Cardinality(Pending(s)') = Cardinality(Pending(s)) - 1
    BY <1>7, <1>16, <1>17, FS_RemoveElement
<1>19. join[s] = Cardinality(Pending(s))
    <2>1. join[s] = Cardinality(Pending(s)) + 0
        BY <1>0, <1>1, <1>8 DEF Counters
    <2>2. QED
        BY <1>17, <2>1
<1>20. Pending(s)' = {} <=> Cardinality(Pending(s)') = 0
    BY <1>18, FS_EmptySet
<1>21. Pending(s)' = {} <=> join[s] = 1
    <2> DEFINE c == Cardinality(Pending(s))
               d == Cardinality(Pending(s)')
    <2>1. c \in Nat /\ d = c - 1 /\ join[s] = c /\ (Pending(s)' = {} <=> d = 0)
        BY <1>17, <1>18, <1>19, <1>20
    <2> HIDE DEF c, d
    <2>2. d = 0 <=> join[s] = 1
        BY <2>1
    <2>3. QED
        BY <2>1, <2>2
<1>22. QED
    BY <1>1, <1>8, <1>9, <1>15, <1>18, <1>19, <1>21 DEF WaitsForOneLess

(* A task is released when the last that precedes it has come to it: it is *)
(* taken into the cache, and what was there goes into the queue.           *)
LEMMA SuccessorStep ==
    ASSUME GraphInv, NEW w \in Workers, Successor(w)
    PROVE  GraphRest'
<1>0. TypeOK /\ OnePlace /\ Progress /\ Counters /\ NotBegun /\ Over
    BY DEF GraphInv
<1>a. pc[w] = "successors" /\ HasNode(w) /\ (HasCache(w) <=> cache[w] # NoTask)
    BY DEF Successor, HasNode, HasCache, Loop
<1>b. PICK n \in Tasks(mode) : n = node[w]
    BY <1>0, <1>a DEF Progress
<1>c. PICK i \in Nat \ {0} : i = index[w]
    BY <1>0, <1>a DEF Progress, Loop, TypeOK
<1>d. i <= Len(mode.next[n])
    BY <1>b, <1>c DEF Successor
<1>e. PICK s \in Tasks(mode) : s = mode.next[n][i]
    <2>1. mode.next[n] \in Seq(Tasks(mode))
        BY <1>0, ModeIs
    <2>2. QED
        BY <1>d, <2>1
<1>1. /\ begun' = begun /\ ended' = ended
      /\ UNCHANGED <<mode, main, shared, promise, done, node>>
      /\ index' = [index EXCEPT ![w] = @ + 1]
      /\ join' = [join EXCEPT ![s] = @ - 1]
    BY <1>b, <1>c, <1>e DEF Successor, history
<1>2. \/ /\ join[s] # 1
         /\ left' = left /\ cache' = cache /\ wsq' = wsq /\ pc' = pc
      \/ /\ join[s] = 1 /\ cache[w] = NoTask
         /\ left' = left + 1 /\ cache' = [cache EXCEPT ![w] = s]
         /\ wsq' = wsq /\ pc' = pc
      \/ /\ join[s] = 1 /\ cache[w] # NoTask
         /\ left' = left + 1 /\ cache' = [cache EXCEPT ![w] = s]
         /\ wsq' = [wsq EXCEPT ![w] = Push(@, cache[w])] /\ pc' = At(w, "pushed")
    BY <1>b, <1>c, <1>e DEF Successor, Releases
<1>3. /\ index'[w] = i + 1 /\ node'[w] = n
      /\ \A u \in Workers : u # w => index'[u] = index[u] /\ cache'[u] = cache[u]
    <2>1. index'[w] = i + 1 /\ node'[w] = n /\ \A u \in Workers : u # w => index'[u] = index[u]
        BY <1>0, <1>1, <1>b, <1>c DEF TypeOK
    <2>2. \A u \in Workers : u # w => cache'[u] = cache[u]
        BY <1>0, <1>2 DEF TypeOK
    <2>3. QED
        BY <2>1, <2>2
<1>4. OnlyWorker(w) /\ pc'[w] \in Loop
    <2>1. CASE pc' = pc
        BY <1>1, <1>3, <1>a, <2>1 DEF OnlyWorker, Loop
    <2>2. CASE pc' = At(w, "pushed")
        <3>1. "pushed" \in Labels /\ "pushed" \in Loop
            BY DEF Labels, Loop
        <3>2. QED
            BY <1>0, <1>1, <1>3, <2>2, <3>1, WorkerMoves
    <2>3. QED
        BY <1>2, <2>1, <2>2
<1>5. /\ main # "run" /\ s \notin ended /\ s \notin Active /\ s \notin begun
      /\ \A t \in Tasks(mode) : t # s => Pending(t)' = Pending(t)
      /\ Cardinality(Pending(s)') = Cardinality(Pending(s)) - 1
      /\ join[s] = Cardinality(Pending(s))
      /\ Pending(s)' = {} <=> join[s] = 1
    <2>1. ended' = ended /\ node'[w] = n /\ index'[w] = i + 1 /\ pc[w] = "successors"
        BY <1>1, <1>3, <1>a
    <2>2. WaitsForOneLess(s)
        BY <2>1, <1>4, <1>b, <1>c, <1>d, <1>e, SuccessorEdges
    <2>3. QED
        BY <2>2 DEF WaitsForOneLess
<1>6. HasNode(w)' /\ (HasCache(w)' <=> cache'[w] # NoTask)
    BY <1>4 DEF HasNode, HasCache
<1>7. /\ w \in Queues /\ w # 0 /\ "node" \in Kinds /\ "queue" \in Kinds /\ "cache" \in Kinds
      /\ Workers' = Workers /\ NoTask \notin Tasks(mode)
    BY <1>0, <1>1, SameGraph, ModeIs DEF Kinds
<1>8. n \in ended /\ n \in Active
    <2>1. Holds("node", w, n)
        BY <1>0, <1>a, <1>b, HoldsAt
    <2>2. QED
        BY <1>0, <1>7, <1>a, <1>b, <2>1, ActiveIn DEF Progress, Loop
<1>9. \A k \in Kinds, q \in Queues : ~Holds(k, q, s)
    BY <1>5, ActiveIn
<1>10. ASSUME NEW t \in Tasks(mode), NEW k \in Kinds, NEW q \in Queues,
              k = "node" \/ (k = "cache" /\ q # w)
       PROVE  Holds(k, q, t)' <=> Holds(k, q, t)
    <2>1. CASE q = w
        BY <1>0, <1>3, <1>6, <1>10, <1>a, <1>b, <2>1, HoldsAt
    <2>2. CASE q # w
        BY <1>0, <1>4, <1>10, <2>2, HoldsElsewhere
    <2>3. QED
        BY <2>1, <2>2
<1>11. ASSUME Queues' = Queues, \A q \in Queues : Once(Queue(q)'),
              \A t \in Tasks(mode) : \/ Stays(t)
                                     \/ t \notin begun /\ \E l, r : ComesTo(t, l, r),
              Active' = IF join[s] = 1 THEN Active \cup {s} ELSE Active,
              left' = IF join[s] = 1 THEN left + 1 ELSE left
       PROVE  GraphRest'
    <2>1. OnePlace'
        BY <1>0, <1>1, <1>11, PlacesKept
    <2>2. Progress'
        <3>1. begun \subseteq ended \cup Active'
            BY <1>0, <1>11 DEF Progress
        <3>2. /\ pc'[w] # "body" /\ pc'[w] \notin {"stolen", "begin"}
              /\ node'[w] \in ended /\ index'[w] >= 1 /\ node'[w] \in Tasks(mode)
            BY <1>3, <1>4, <1>8 DEF Loop
        <3>3. \A t \in Tasks(mode) : Stays(t) \/ t \notin begun
            BY <1>11
        <3>4. QED
            BY <1>0, <1>1, <1>4, <3>1, <3>2, <3>3, ProgressMoves
    <2>3. Counters'
        <3>1. \A t : Dependents(t)' = Dependents(t)
            BY <1>1, SameGraph
        <3>2. \A t \in Tasks(mode) : join'[t] = IF t = s THEN join[s] - 1 ELSE join[t]
            BY <1>0, <1>1 DEF TypeOK
        <3>3. ASSUME NEW t \in Tasks(mode)
              PROVE  /\ join'[t] = Cardinality(Pending(t)') + (IF t \in ended' THEN Dependents(t) ELSE 0)
                     /\ Pending(t)' = {} <=> t \in ended' \cup Active'
            <4>1. CASE t = s
                <5>1. Cardinality(Pending(s)) \in Nat
                    BY <1>0, ActiveIs
                <5>2. join'[s] = Cardinality(Pending(s)') + 0
                    BY <1>5, <3>2, <5>1
                <5>3. Pending(s)' = {} <=> s \in ended' \cup Active'
                    BY <1>1, <1>5, <1>11
                <5>4. QED
                    BY <1>1, <1>5, <4>1, <5>2, <5>3
            <4>2. CASE t # s
                <5>1. Pending(t)' = Pending(t) /\ join'[t] = join[t]
                    BY <1>5, <3>2, <4>2
                <5>2. t \in ended' \cup Active' <=> t \in ended \cup Active
                    BY <1>1, <1>11, <4>2
                <5>3. QED
                    BY <1>0, <1>1, <1>5, <5>1, <5>2 DEF Counters
            <4>3. QED
                BY <4>1, <4>2
        <3>4. left' = Cardinality(Active')
            <4>1. left = Cardinality(Active) /\ IsFiniteSet(Active)
                BY <1>0, <1>5, ActiveIs DEF Counters
            <4>2. Cardinality(Active \cup {s}) = Cardinality(Active) + 1
                BY <1>5, <4>1, FS_AddElement
            <4>3. QED
                BY <1>11, <4>1, <4>2
        <3>5. QED
            BY <1>1, <3>1, <3>3, <3>4 DEF Counters
    <2>4. Over'
        BY <1>0, <1>4, <1>8, <1>a, OverLocal DEF Loop
    <2>5. NotBegun'
        BY <1>1, <1>5 DEF NotBegun
    <2>6. QED
        BY <2>1, <2>2, <2>3, <2>4, <2>5 DEF GraphRest
<1>12. Queues' = Queues
    BY <1>1, SameGraph
<1>13. CASE join[s] # 1
    <2>1. cache' = cache /\ wsq' = wsq /\ left' = left
        BY <1>2, <1>13
    <2>2. \A q \in Queues : Queue(q)' = Queue(q)
        BY <1>1, <2>1 DEF Queue
    <2>3. ASSUME NEW t \in Tasks(mode), NEW k \in Kinds, NEW q \in Queues
          PROVE  Holds(k, q, t)' <=> Holds(k, q, t)
        <3>1. CASE k = "queue"
            BY <1>0, <2>2, <3>1, HoldsAt
        <3>2. CASE k = "cache" /\ q = w
            BY <1>0, <1>6, <1>a, <2>1, <3>2, HoldsAt
        <3>3. QED
            BY <1>10, <3>1, <3>2 DEF Kinds
    <2>4. \A t \in Tasks(mode) : Stays(t)
        BY <2>3 DEF Stays
    <2>5. Active' = Active
        BY <1>1, <2>4, ActiveSame
    <2>6. \A q \in Queues : Once(Queue(q)')
        BY <1>0, <2>2 DEF OnePlace
    <2>7. QED
        BY <1>11, <1>12, <1>13, <2>1, <2>4, <2>5, <2>6
<1>14. ASSUME ComesTo(s, "cache", w),
              \A t \in Tasks(mode) : t = s \/ Stays(t) \/ (t \in Active /\ \E l, r : ComesTo(t, l, r))
       PROVE  Active' = Active \cup {s}
    <2>1. \A t \in Tasks(mode) : t \in Active' <=> t \in Active \/ t = s
        BY <1>1, <1>14, ActiveThen
    <2>2. Active \subseteq Tasks(mode) /\ Active' \subseteq Tasks(mode)
        BY <1>1 DEF Active
    <2>3. QED
        BY <2>1, <2>2
<1>15. CASE join[s] = 1 /\ cache[w] = NoTask
    <2>1. cache' = [cache EXCEPT ![w] = s] /\ wsq' = wsq /\ left' = left + 1
        BY <1>2, <1>15
    <2>2. \A q \in Queues : Queue(q)' = Queue(q)
        BY <1>1, <2>1 DEF Queue
    <2>3. cache'[w] = s /\ HasCache(w)' /\ ~HasCache(w)
        BY <1>0, <1>6, <1>7, <1>15, <1>a, <2>1 DEF TypeOK
    <2>4. ASSUME NEW t \in Tasks(mode), NEW k \in Kinds, NEW q \in Queues
          PROVE  \/ k = "cache" /\ q = w
                 \/ Holds(k, q, t)' <=> Holds(k, q, t)
        <3>1. CASE k = "queue"
            BY <1>0, <2>2, <3>1, HoldsAt
        <3>2. QED
            BY <1>10, <3>1 DEF Kinds
    <2>5. \A t : (Holds("cache", w, t)' <=> t = s) /\ ~Holds("cache", w, t)
        BY <1>0, <2>3, HoldsAt
    <2>6. ComesTo(s, "cache", w)
        BY <1>7, <1>9, <2>4, <2>5 DEF ComesTo
    <2>7. \A t \in Tasks(mode) : t = s \/ Stays(t)
        BY <2>4, <2>5 DEF Stays
    <2>8. Active' = Active \cup {s}
        BY <1>14, <2>6, <2>7
    <2>9. \A q \in Queues : Once(Queue(q)')
        BY <1>0, <2>2 DEF OnePlace
    <2>10. QED
        BY <1>5, <1>11, <1>12, <1>15, <2>1, <2>6, <2>7, <2>8, <2>9
<1>16. CASE join[s] = 1 /\ cache[w] # NoTask
    <2>0. PICK c \in Tasks(mode) : c = cache[w]
        BY <1>0, <1>16 DEF TypeOK
    <2>1. /\ cache' = [cache EXCEPT ![w] = s] /\ left' = left + 1
          /\ wsq' = [wsq EXCEPT ![w] = Append(@, c)]
        BY <1>2, <1>16, <2>0 DEF Push
    <2>2. \A q \in Queues : Queue(q)' = IF q = w THEN Append(Queue(w), c) ELSE Queue(q)
        BY <1>0, <1>1, <1>7, <2>1, ModeIs DEF Queue, TypeOK
    <2>3. cache'[w] = s /\ HasCache(w)' /\ HasCache(w)
        BY <1>0, <1>6, <1>7, <1>16, <1>a, <2>1 DEF TypeOK
    <2>4. Queue(w) \in Seq(Tasks(mode)) /\ Once(Queue(w))
        BY <1>0, <1>7, QueueIs DEF OnePlace
    <2>5. Holds("cache", w, c) /\ c # s
        <3>1. Holds("cache", w, c)
            BY <1>0, <2>0, <2>3, HoldsAt
        <3>2. QED
            BY <1>7, <1>9, <3>1
    <2>6. ~In(c, Queue(w))
        <3>1. ~Holds("queue", w, c)
            BY <1>0, <1>7, <2>5 DEF OnePlace
        <3>2. QED
            BY <1>0, <3>1, HoldsAt
    <2>7. \A y : In(y, Append(Queue(w), c)) <=> In(y, Queue(w)) \/ y = c
        BY <2>4, AppendIn
    <2>8. ASSUME NEW t \in Tasks(mode), NEW k \in Kinds, NEW q \in Queues
          PROVE  \/ k = "cache" /\ q = w
                 \/ k = "queue" /\ q = w /\ t = c
                 \/ Holds(k, q, t)' <=> Holds(k, q, t)
        <3>1. CASE k = "queue"
            BY <1>0, <2>2, <2>7, <3>1, HoldsAt
        <3>2. QED
            BY <1>10, <3>1 DEF Kinds
    <2>9. \A t : (Holds("cache", w, t)' <=> t = s) /\ (Holds("cache", w, t) <=> t = c)
        BY <1>0, <2>0, <2>3, HoldsAt
    <2>10. Holds("queue", w, c)'
        BY <1>0, <1>7, <2>2, <2>7, HoldsAt
    <2>11. ComesTo(s, "cache", w)
        BY <1>7, <1>9, <2>5, <2>8, <2>9 DEF ComesTo
    <2>12. ComesTo(c, "queue", w)
        <3>1. ASSUME NEW k \in Kinds, NEW q \in Queues, Holds(k, q, c)'
              PROVE  k = "queue" /\ q = w
            <4>1. SUFFICES ASSUME ~(k = "queue" /\ q = w) PROVE FALSE
                OBVIOUS
            <4>2. ~(k = "cache" /\ q = w)
                BY <2>5, <2>9, <3>1
            <4>3. Holds(k, q, c)
                BY <2>8, <3>1, <4>1, <4>2
            <4>4. QED
                BY <1>0, <1>7, <2>5, <4>2, <4>3 DEF OnePlace
        <3>2. QED
            BY <1>7, <2>10, <3>1 DEF ComesTo
    <2>13. \A t \in Tasks(mode) : t = s \/ t = c \/ Stays(t)
        BY <2>8, <2>9 DEF Stays
    <2>14. c \in Active /\ c \notin begun
        BY <1>0, <1>7, <2>5, ActiveIn DEF Progress, Unbegun
    <2>15. Active' = Active \cup {s}
        BY <1>14, <2>11, <2>12, <2>13, <2>14
    <2>16. \A q \in Queues : Once(Queue(q)')
        <3>1. Once(Append(Queue(w), c))
            BY <2>4, <2>6, AppendOnce
        <3>2. QED
            BY <1>0, <2>2, <3>1 DEF OnePlace
    <2>17. \A t \in Tasks(mode) : \/ Stays(t)
                                  \/ t \notin begun /\ \E l, r : ComesTo(t, l, r)
        BY <1>5, <2>11, <2>12, <2>13, <2>14
    <2>18. QED
        BY <1>11, <1>12, <1>16, <2>1, <2>15, <2>16, <2>17
<1>17. QED
    BY <1>13, <1>15, <1>16

(* The run starts: the sources are in the shared queue, and every task     *)
(* waits for all that precede it.                                          *)
LEMMA RunStep ==
    ASSUME GraphInv, Run
    PROVE  GraphRest'
<1>0. TypeOK /\ OnePlace /\ Progress /\ Counters /\ NotBegun /\ Over
    BY DEF GraphInv
<1>1. PICK nodes \in InOrder(Sources) : shared' = shared \o nodes
    BY DEF Run, SetUpTopology, Schedule
<1>2. /\ main = "run" /\ main' = "notify" /\ left' = Cardinality(Sources)
      /\ join' = [t \in Tasks(mode) |-> Dependents(t)]
      /\ UNCHANGED <<mode, wsq, promise, done, pc, node, cache, index, begun, ended>>
    BY DEF Run, SetUpTopology, local, history
<1>3. /\ shared = <<>> /\ begun = {} /\ ended = {} /\ ~promise
      /\ \A w \in Workers : wsq[w] = <<>> /\ pc[w] \in Idle
    BY <1>0, <1>2 DEF NotBegun, Progress
<1>4. /\ nodes \in Seq(Tasks(mode)) /\ Once(nodes)
      /\ \A t : In(t, nodes) <=> t \in Sources
    BY <1>0, <1>1, InOrderIs
<1>5. shared' = nodes
    BY <1>1, <1>3, <1>4
<1>6. /\ Workers' = Workers /\ Queues' = Queues /\ Kinds' = Kinds /\ Edges' = Edges
      /\ \A t : Into(t)' = Into(t) /\ Dependents(t)' = Dependents(t)
    BY <1>2, SameGraph DEF Kinds
<1>7. \A q \in Queues : Queue(q)' = IF q = 0 THEN nodes ELSE <<>>
    BY <1>0, <1>2, <1>3, <1>5, ModeIs DEF Queue
<1>8. \A w \in Workers : ~HasNode(w)' /\ ~HasCache(w)' /\ pc'[w] \notin Loop
                             /\ pc'[w] \notin {"body", "settle"}
    BY <1>2, <1>3 DEF HasNode, HasCache, Loop, Idle, Deciding
<1>9. ASSUME NEW t, NEW k \in Kinds, NEW q \in Queues
      PROVE  Holds(k, q, t)' <=> k = "queue" /\ q = 0 /\ t \in Sources
    <2>1. CASE k = "queue"
        BY <1>4, <1>7, <2>1, EmptyIn DEF Holds
    <2>2. CASE k # "queue"
        BY <1>0, <1>8, <2>2, ModeIs DEF Holds
    <2>3. QED
        BY <2>1, <2>2
<1>10. 0 \in Queues /\ "queue" \in Kinds /\ Sources \subseteq Tasks(mode)
    BY <1>0, ModeIs, SourcesExist DEF Kinds
<1>11. Active' = Sources
    <2>1. Active' = {t \in Tasks(mode) : \E k \in Kinds, q \in Queues : Holds(k, q, t)'}
        BY <1>2, <1>6 DEF Active
    <2>2. \A t \in Tasks(mode) :
              (\E k \in Kinds, q \in Queues : Holds(k, q, t)') <=> t \in Sources
        BY <1>9, <1>10
    <2>3. QED
        BY <1>10, <2>1, <2>2
<1>12. OnePlace'
    <2>1. \A q \in Queues : Once(Queue(q)')
        <3>1. Once(<<>>)
            BY DEF Once
        <3>2. QED
            BY <1>4, <1>7, <3>1
    <2>2. QED
        BY <1>2, <1>6, <1>9, <2>1 DEF OnePlace
<1>13. Progress'
    BY <1>2, <1>3, <1>6, <1>8 DEF Progress
<1>14. Counters'
    <2>1. \A e : ~Consumed(e)'
        BY <1>2, <1>3 DEF Consumed
    <2>2. \A t : Pending(t)' = Into(t)
        BY <1>6, <2>1 DEF Pending
    <2>3. ASSUME NEW t \in Tasks(mode)
          PROVE  /\ join'[t] = Cardinality(Pending(t)') + (IF t \in ended' THEN Dependents(t) ELSE 0)
                 /\ Pending(t)' = {} <=> t \in ended' \cup Active'
        <3>1. Dependents(t) \in Nat /\ (Dependents(t) = 0 <=> Into(t) = {})
            BY <1>0, GraphFinite
        <3>2. join'[t] = Dependents(t) + 0
            BY <1>2, <3>1
        <3>3. t \in Sources <=> Dependents(t) = 0
            BY DEF Sources
        <3>4. Cardinality(Pending(t)') = Dependents(t)
            BY <2>2 DEF Dependents
        <3>5. t \notin ended'
            BY <1>2, <1>3
        <3>6. QED
            BY <1>11, <2>2, <3>1, <3>2, <3>3, <3>4, <3>5
    <2>4. QED
        BY <1>2, <1>6, <1>11, <2>3 DEF Counters
<1>15. Over'
    <2>1. ~promise' /\ ~done'
        BY <1>0, <1>2, <1>3 DEF Over
    <2>2. /\ main' \notin {"returned", "shutdown", "join", "end"}
          /\ \A w \in Workers : pc'[w] # "settle"
          /\ \A w \in Workers : pc'[w] \notin {"cancel and leave", "leave", "gone"}
        BY <1>0, <1>2, <1>3, <1>8 DEF Over
    <2>3. QED
        BY <1>6, <2>1, <2>2 DEF Over
<1>16. NotBegun'
    BY <1>2 DEF NotBegun
<1>17. QED
    BY <1>12, <1>13, <1>14, <1>15, <1>16 DEF GraphRest

LEMMA GraphInit == Init => GraphInv
<1> SUFFICES ASSUME Init PROVE GraphInv
    OBVIOUS
<1>1. TypeOK
    BY TypeInit
<1>2. /\ main = "run" /\ shared = <<>> /\ ~promise /\ ~done
      /\ begun = {} /\ ended = {}
      /\ \A w \in Workers : wsq[w] = <<>> /\ pc[w] = "explore"
    BY DEF Init
<1>3. \A q \in Queues : Queue(q) = <<>>
    BY <1>1, <1>2, ModeIs DEF Queue
<1>4. \A w \in Workers : ~HasNode(w) /\ ~HasCache(w) /\ pc[w] \notin Loop /\ pc[w] \in Idle
    BY <1>2 DEF HasNode, HasCache, Loop, Idle
<1>5. ASSUME NEW t, NEW k \in Kinds, NEW q \in Queues PROVE ~Holds(k, q, t)
    BY <1>1, <1>3, <1>4, EmptyIn, ModeIs DEF Holds
<1>6. Once(<<>>)
    BY DEF Once
<1>7. OnePlace
    BY <1>3, <1>5, <1>6 DEF OnePlace
<1>8. Progress
    BY <1>2, <1>4, <1>5 DEF Progress
<1>9. Counters /\ NotBegun
    BY <1>2, <1>4 DEF Counters, NotBegun
<1>10. Over
    BY <1>2 DEF Over
<1>11. QED
    BY <1>1, <1>7, <1>8, <1>9, <1>10 DEF GraphInv

LEMMA GraphStep == GraphInv /\ Waiters /\ [Next]_vars => GraphInv'
<1> SUFFICES ASSUME GraphInv, Waiters, [Next]_vars PROVE GraphInv'
    OBVIOUS
<1>1. TypeOK'
    BY TypeStep DEF GraphInv
<1>2. CASE MainStep
    BY <1>1, <1>2, RunStep, MainQuietStep DEF MainStep, GraphInv, GraphRest
<1>3. ASSUME NEW w \in Workers, WorkerStep(w) PROVE GraphRest'
    BY <1>3, QuietStep, StealStep, BeginStep, FinishStep, SuccessorStep, TearDownStep,
       EndingStep, NextTaskStep DEF WorkerStep
<1>4. CASE UNCHANGED vars
    <2>1. /\ UNCHANGED <<mode, main, queues, node, cache, join, left, history, promise,
                         done, pc, index>>
        BY <1>4 DEF vars, counters, local
    <2>2. OthersStay(0) /\ 0 \notin Workers /\ TypeOK /\ OnePlace /\ Progress /\ Counters
              /\ NotBegun /\ Over
        BY <2>1, ModeIs DEF OthersStay, GraphInv
    <2>3. /\ TasksStay
          /\ \A u \in Workers : pc'[u] = "settle" <=> pc[u] = "settle"
          /\ \A u \in Workers : pc'[u] \in {"cancel and leave", "leave", "gone"} =>
                                    pc[u] \in {"cancel and leave", "leave", "gone"} \/ done'
        BY <2>1, <2>2, StaysBy
    <2>4. OnePlace' /\ Progress' /\ Counters' /\ NotBegun' /\ Active' = Active
        BY <2>2, <2>3, TasksStaySteps
    <2>5. /\ main \in {"returned", "shutdown", "join", "end"} => promise
          /\ done => promise
        BY <2>2 DEF Over
    <2>6. Over'
        BY <2>1, <2>2, <2>3, <2>4, <2>5, OverKept
    <2>7. QED
        BY <1>1, <2>4, <2>6 DEF GraphInv
<1>5. QED
    BY <1>1, <1>2, <1>3, <1>4 DEF Next, GraphInv, GraphRest

-----------------------------------------------------------------------------
(* The waiters *)

(* Notifying takes a waiter off one of the two lists, or all of them.      *)
LEMMA NotifyWaiters ==
    ASSUME TypeOK, Waiters, mode' = mode, main' = "notify" => notices' >= 1,
           NEW next \in [Workers -> Labels], NotifyOne(next) \/ NotifyAll(next),
           \A u \in Workers : /\ next[u] = "parked" <=> pc[u] = "parked"
                              /\ pc[u] \in Deciding => next[u] \in Deciding
                              /\ next[u] = "scan" => index'[u] >= 1
    PROVE  Waiters'
<1>0. /\ prewait \in Seq(Workers) /\ parked \in Seq(Workers)
      /\ Once(prewait) /\ Once(parked) /\ Workers' = Workers
      /\ \A u \in Workers : In(u, parked) <=> pc[u] = "parked"
      /\ \A u \in Workers : In(u, prewait) => pc[u] \in Deciding
    BY SameGraph DEF TypeOK, Waiters
<1>1. CASE NotifyAll(next)
    <2>1. /\ prewait' = <<>> /\ parked' = <<>>
          /\ \A u \in Workers : pc'[u] = IF In(u, parked) THEN "explore" ELSE next[u]
        BY <1>1, NotifyAllIs
    <2>2. Once(<<>>)
        BY DEF Once
    <2>3. \A u \in Workers : pc'[u] # "parked" /\ (pc'[u] = "scan" => index'[u] >= 1)
        BY <1>0, <2>1
    <2>4. QED
        BY <1>0, <2>1, <2>2, <2>3, EmptyIn DEF Waiters
<1>2. CASE NotifyOne(next)
    <2>1. CASE prewait # <<>> /\ prewait' = Tail(prewait) /\ parked' = parked /\ pc' = next
        <3>1. Once(prewait')
            BY <1>0, <2>1, TailOnce
        <3>2. \A u : In(u, prewait') => In(u, prewait)
            BY <1>0, <2>1, TailIn
        <3>3. QED
            BY <1>0, <2>1, <3>1, <3>2 DEF Waiters
    <2>2. CASE /\ parked # <<>> /\ parked' = Tail(parked) /\ prewait' = prewait
               /\ pc' = [next EXCEPT ![Head(parked)] = "explore"]
        <3>1. Once(parked') /\ ~In(Head(parked), parked')
            BY <1>0, <2>2, TailOnce
        <3>2. \A u : In(u, parked) <=> u = Head(parked) \/ In(u, parked')
            BY <1>0, <2>2, TailIn
        <3>3. \A u \in Workers : pc'[u] = IF u = Head(parked) THEN "explore" ELSE next[u]
            BY <2>2
        <3>4. pc[Head(parked)] = "parked" /\ Head(parked) \in Workers
            BY <2>2, ParkedIs
        <3>5. \A u \in Workers : In(u, prewait) => u # Head(parked)
            BY <1>0, <3>4 DEF Deciding
        <3>6. \A u \in Workers : /\ In(u, parked') <=> pc'[u] = "parked"
                                 /\ In(u, prewait) => pc'[u] \in Deciding
                                 /\ pc'[u] = "scan" => index'[u] >= 1
            BY <1>0, <3>1, <3>2, <3>3, <3>5
        <3>7. QED
            BY <1>0, <2>2, <3>1, <3>6 DEF Waiters
    <2>3. CASE prewait' = prewait /\ parked' = parked /\ pc' = next
        BY <1>0, <2>3 DEF Waiters
    <2>4. QED
        BY <1>2, <2>1, <2>2, <2>3, NotifyOneIs
<1>3. QED
    BY <1>1, <1>2

LEMMA GoesIs ==
    ASSUME TypeOK, NEW w \in Workers, NEW label \in Labels, pc' = At(w, label)
    PROVE  \A u \in Workers : pc'[u] = IF u = w THEN label ELSE pc[u]
BY AtIs

(* Worker w goes to label, or stays there. *)
GoesTo(w, label) ==
    \/ pc' = At(w, label)
    \/ pc' = pc /\ label = pc[w]

(* A step of one worker that leaves the notifier alone. *)
LEMMA OneWaiter ==
    ASSUME TypeOK, Waiters, mode' = mode, prewait' = prewait, parked' = parked,
           main' = "notify" => main = "notify", notices' = notices,
           NEW w \in Workers,
           \A u \in Workers : u # w => pc'[u] = pc[u] /\ index'[u] = index[u],
           pc[w] # "parked", pc'[w] # "parked",
           pc'[w] \in Deciding \/ ~In(w, prewait),
           pc'[w] = "scan" => index'[w] >= 1
    PROVE  Waiters'
<1>1. Workers' = Workers
    BY SameGraph
<1>2. QED
    BY <1>1 DEF Waiters

LEMMA MainWaiters ==
    ASSUME GraphInv, Waiters, MainStep
    PROVE  Waiters'
<1>0. TypeOK /\ pc \in [Workers -> Labels] /\ notices \in Nat
    BY DEF GraphInv, TypeOK
<1>1. CASE Run
    <2>1. PICK nodes \in InOrder(Sources) : notices' = Len(nodes)
        BY <1>1 DEF Run, SetUpTopology, Schedule
    <2>2. notices' >= 1
        BY <1>0, <2>1, InOrderIs, SourcesExist
    <2>3. UNCHANGED <<mode, prewait, parked, pc, index>> /\ Workers' = Workers
        BY <1>1, SameGraph DEF Run, notifier, local
    <2>4. QED
        BY <2>2, <2>3 DEF Waiters
<1>2. CASE MainNotify
    <2>1. main' = "notify" => notices' >= 1
        <3>1. notices' \in Nat
            BY <1>0, <1>2, MainTypes DEF MainStep, TypeOK
        <3>2. main' = "notify" => notices' # 0
            BY <1>2 DEF MainNotify
        <3>3. QED
            BY <3>1, <3>2
    <2>2. /\ NotifyOne(pc) \/ NotifyAll(pc)
          /\ mode' = mode /\ index' = index
        BY <1>2 DEF MainNotify, local
    <2>3. \A u \in Workers : pc[u] = "scan" => index'[u] >= 1
        BY <2>2 DEF Waiters
    <2>4. QED
        BY <1>0, <2>1, <2>2, <2>3, NotifyWaiters
<1>3. CASE NotifyShutdown
    <2>1. NotifyAll(pc) /\ mode' = mode /\ index' = index /\ main' # "notify"
        BY <1>3 DEF NotifyShutdown, local
    <2>2. \A u \in Workers : pc[u] = "scan" => index'[u] >= 1
        BY <2>1 DEF Waiters
    <2>3. QED
        BY <1>0, <2>1, <2>2, NotifyWaiters
<1>4. CASE Return \/ Shutdown \/ Joined
    <2>1. /\ UNCHANGED <<mode, prewait, parked, pc, index>> /\ main' # "notify"
          /\ Workers' = Workers
        BY <1>4, SameGraph DEF Return, Shutdown, Joined, notifier, local
    <2>2. QED
        BY <2>1 DEF Waiters
<1>5. QED
    BY <1>1, <1>2, <1>3, <1>4 DEF MainStep

LEMMA WorkerWaiters ==
    ASSUME GraphInv, Waiters, NEW w \in Workers, WorkerStep(w)
    PROVE  Waiters'
<1>0. TypeOK /\ pc \in [Workers -> Labels] /\ index \in [Workers -> Nat]
    BY DEF GraphInv, TypeOK
<1>1. mode' = mode /\ main' = main /\ notices' = notices
    BY DEF WorkerStep, Steal, StealFails, NotifyThief, PrepareWait, CheckShared, CheckDone,
       Scan, CancelWait, CommitWait, Leave, Begin, Finish, Successor, NotifyPushed,
       TearDown, Settle, Decrement, NextTask
<1>a. main' = "notify" => notices' >= 1
    BY <1>1 DEF Waiters
<1>b. \A u \in Workers : pc[u] = "scan" => index[u] >= 1
    BY DEF Waiters
<1>2. ASSUME NEW label \in Labels \ {"parked", "scan"}, label \in Deciding <=> pc[w] \in Deciding,
             pc[w] # "parked",
             NotifyOne(At(w, label)) \/ NotifyAll(At(w, label)), index' = index
      PROVE  Waiters'
    <2>1. PICK next \in [Workers -> Labels] : next = At(w, label)
        BY <1>0, AtIs
    <2>2. \A u \in Workers : next[u] = IF u = w THEN label ELSE pc[u]
        BY <1>0, <2>1, AtIs
    <2>3. NotifyOne(next) \/ NotifyAll(next)
        BY <1>2, <2>1
    <2>4. \A u \in Workers : /\ next[u] = "parked" <=> pc[u] = "parked"
                             /\ pc[u] \in Deciding => next[u] \in Deciding
                             /\ next[u] = "scan" => index'[u] >= 1
        BY <1>2, <1>b, <2>2
    <2>5. QED
        BY <1>0, <1>1, <1>a, <2>3, <2>4, NotifyWaiters
<1>3. CASE NotifyThief(w)
    BY <1>2, <1>3 DEF NotifyThief, local, Labels, Deciding
<1>4. CASE NotifyPushed(w)
    BY <1>2, <1>4 DEF NotifyPushed, local, Labels, Deciding
<1>5. CASE Leave(w)
    BY <1>2, <1>5 DEF Leave, local, Labels, Deciding
<1>6. ASSUME NEW label \in Labels \ {"parked"}, GoesTo(w, label),
             pc[w] # "parked",
             label \in Deciding \/ ~In(w, prewait), label = "scan" => index'[w] >= 1,
             \A u \in Workers : u # w => index'[u] = index[u],
             prewait' = prewait, parked' = parked
      PROVE  Waiters'
    <2>1. \A u \in Workers : pc'[u] = IF u = w THEN label ELSE pc[u]
        BY <1>0, <1>6, AtIs DEF GoesTo
    <2>2. QED
        BY <1>0, <1>1, <1>6, <2>1, OneWaiter
<1>7. pc[w] \notin Deciding => ~In(w, prewait)
    BY DEF Waiters
<1>8. CASE \/ Steal(w) \/ StealFails(w) \/ Begin(w) \/ Finish(w) \/ Successor(w)
           \/ TearDown(w) \/ Settle(w) \/ Decrement(w) \/ NextTask(w)
    <2>1. /\ pc[w] \notin Deciding /\ pc[w] \notin {"parked", "scan"}
          /\ prewait' = prewait /\ parked' = parked
          /\ \A u \in Workers : u # w => index'[u] = index[u]
        BY <1>0, <1>8 DEF Steal, StealFails, Begin, Finish, Successor, TearDown, Settle,
           Decrement, NextTask, notifier, local, Deciding
    <2>2. PICK label \in {"stolen", "prepare", "body", "successors", "pushed", "settle",
                          "next", "decrement", "begin", "explore"} : GoesTo(w, label)
        <3>1. CASE Steal(w) \/ Begin(w) \/ Finish(w) \/ Settle(w) \/ Decrement(w)
            BY <3>1 DEF Steal, Begin, Finish, Settle, Decrement, GoesTo
        <3>2. CASE StealFails(w) \/ Successor(w)
            BY <3>2 DEF StealFails, Successor, GoesTo
        <3>3. CASE TearDown(w) \/ NextTask(w)
            BY <3>3 DEF TearDown, NextTask, GoesTo
        <3>4. QED
            BY <1>8, <3>1, <3>2, <3>3
    <2>3. label \in Labels \ {"parked"} /\ label # "scan"
        BY DEF Labels
    <2>4. QED
        BY <1>6, <1>7, <2>1, <2>2, <2>3
<1>9. CASE CheckShared(w) \/ CheckDone(w) \/ Scan(w)
    <2>1. /\ prewait' = prewait /\ parked' = parked /\ pc[w] # "parked"
          /\ \A u \in Workers : u # w => index'[u] = index[u]
        BY <1>0, <1>9 DEF CheckShared, CheckDone, Scan, notifier
    <2>a. /\ {"cancel", "check done", "cancel and leave", "scan", "commit"}
                 \subseteq Labels \ {"parked"}
          /\ {"cancel", "check done", "cancel and leave", "scan", "commit"}
                 \subseteq Deciding
        BY DEF Labels, Deciding
    <2>2. CASE CheckShared(w)
        <3>1. GoesTo(w, "cancel") \/ GoesTo(w, "check done")
            BY <2>2 DEF CheckShared, GoesTo
        <3>2. QED
            BY <1>6, <2>1, <2>a, <3>1
    <2>3. CASE CheckDone(w)
        <3>1. \/ GoesTo(w, "cancel and leave")
              \/ GoesTo(w, "scan") /\ index'[w] >= 1
            <4>1. \/ pc' = At(w, "cancel and leave")
                  \/ pc' = At(w, "scan") /\ index' = [index EXCEPT ![w] = 1]
                BY <2>3 DEF CheckDone
            <4>2. index' = [index EXCEPT ![w] = 1] => index'[w] >= 1
                BY <1>0
            <4>3. QED
                BY <4>1, <4>2 DEF GoesTo
        <3>2. QED
            BY <1>6, <2>1, <2>a, <3>1
    <2>4. CASE Scan(w)
        <3>1. \/ GoesTo(w, "commit") \/ GoesTo(w, "cancel")
              \/ GoesTo(w, "scan") /\ index'[w] >= 1
            BY <1>0, <1>b, <2>4 DEF Scan, GoesTo
        <3>2. QED
            BY <1>6, <2>1, <2>a, <3>1
    <2>5. QED
        BY <1>9, <2>2, <2>3, <2>4
<1>10. prewait \in Seq(Workers) /\ parked \in Seq(Workers) /\ Workers' = Workers
    BY <1>0, <1>1, SameGraph DEF TypeOK
<1>l. "check shared" \in Labels /\ "parked" \in Labels /\ "explore" \in Labels
    BY DEF Labels
<1>11. /\ Once(prewait) /\ Once(parked)
       /\ \A u \in Workers : /\ In(u, parked) <=> pc[u] = "parked"
                             /\ In(u, prewait) => pc[u] \in Deciding
                             /\ pc[u] = "scan" => index[u] >= 1
    BY DEF Waiters
<1>12. CASE PrepareWait(w)
    <2>1. /\ pc[w] = "prepare" /\ prewait' = Append(prewait, w) /\ parked' = parked
          /\ index' = index /\ pc' = At(w, "check shared")
        BY <1>12 DEF PrepareWait, local
    <2>2. \A u \in Workers : pc'[u] = IF u = w THEN "check shared" ELSE pc[u]
        <3>1. TypeOK /\ w \in Workers
            BY <1>0
        <3>2. \A u \in Workers : At(w, "check shared")[u] = IF u = w THEN "check shared" ELSE pc[u]
            BY <1>l, <3>1, AtIs
        <3>3. QED
            BY <2>1, <3>2
    <2>3. ~In(w, prewait)
        BY <1>7, <2>1 DEF Deciding
    <2>4. Once(prewait')
        BY <1>10, <1>11, <2>1, <2>3, AppendOnce
    <2>5. \A u : In(u, prewait') <=> In(u, prewait) \/ u = w
        BY <1>10, <2>1, AppendIn
    <2>6. \A u \in Workers : /\ In(u, parked) <=> pc'[u] = "parked"
                             /\ In(u, prewait') => pc'[u] \in Deciding
                             /\ pc'[u] = "scan" => index'[u] >= 1
        BY <1>11, <2>1, <2>2, <2>5 DEF Deciding
    <2>7. QED
        BY <1>10, <1>11, <1>a, <2>1, <2>4, <2>6 DEF Waiters
<1>13. ASSUME Decide(w)
       PROVE  Once(prewait') /\ ~In(w, prewait') /\ \A u : In(u, prewait') => In(u, prewait)
    <2>1. prewait # <<>> /\ prewait' = Tail(prewait) /\ Head(prewait) = w
        BY <1>0, <1>13, DecideIs
    <2>2. Once(prewait') /\ ~In(w, prewait')
        BY <1>10, <1>11, <2>1, TailOnce
    <2>3. \A u : In(u, prewait') => In(u, prewait)
        BY <1>10, <2>1, TailIn
    <2>4. QED
        BY <2>2, <2>3
<1>14. ASSUME Notified(w), prewait' = prewait
       PROVE  Once(prewait') /\ ~In(w, prewait') /\ \A u : In(u, prewait') => In(u, prewait)
    BY <1>11, <1>14, NotifiedIs
<1>15. CASE CancelWait(w)
    <2>1. /\ Once(prewait') /\ ~In(w, prewait') /\ \A u : In(u, prewait') => In(u, prewait)
          /\ pc[w] \in {"cancel", "cancel and leave"} /\ parked' = parked /\ index' = index
        BY <1>13, <1>14, <1>15 DEF CancelWait, local
    <2>2. PICK label \in {"explore", "leave"} : pc' = At(w, label)
        BY <1>15 DEF CancelWait
    <2>3. \A u \in Workers : pc'[u] = IF u = w THEN label ELSE pc[u]
        <3>1. label \in Labels
            BY DEF Labels
        <3>2. QED
            BY <1>0, <2>2, <3>1, AtIs
    <2>4. \A u \in Workers : /\ In(u, parked) <=> pc'[u] = "parked"
                             /\ In(u, prewait') => pc'[u] \in Deciding
                             /\ pc'[u] = "scan" => index'[u] >= 1
        BY <1>11, <2>1, <2>3
    <2>5. QED
        BY <1>10, <1>11, <1>a, <2>1, <2>4 DEF Waiters
<1>16. CASE CommitWait(w)
    <2>1. /\ Once(prewait') /\ ~In(w, prewait') /\ \A u : In(u, prewait') => In(u, prewait)
          /\ pc[w] = "commit" /\ index' = index
        BY <1>13, <1>14, <1>16 DEF CommitWait, local, notifier
    <2>2. CASE parked' = <<w>> \o parked /\ pc' = At(w, "parked")
        <3>1. \A u \in Workers : pc'[u] = IF u = w THEN "parked" ELSE pc[u]
            <4>1. pc' = At(w, "parked")
                BY <2>2
            <4>2. QED
                BY <1>0, <1>l, <4>1, GoesIs
        <3>2. ~In(w, parked)
            BY <1>11, <2>1
        <3>3. Once(parked')
            BY <1>10, <1>11, <2>2, <3>2, PrependIn
        <3>4. \A u : In(u, parked') <=> u = w \/ In(u, parked)
            BY <1>10, <2>2, PrependIn
        <3>5. \A u \in Workers : /\ In(u, parked') <=> pc'[u] = "parked"
                                 /\ In(u, prewait') => pc'[u] \in Deciding
                                 /\ pc'[u] = "scan" => index'[u] >= 1
            BY <1>11, <2>1, <3>1, <3>4
        <3>6. QED
            BY <1>10, <1>a, <2>1, <3>3, <3>5 DEF Waiters
    <2>3. CASE parked' = parked /\ pc' = At(w, "explore")
        <3>1. \A u \in Workers : pc'[u] = IF u = w THEN "explore" ELSE pc[u]
            <4>1. pc' = At(w, "explore")
                BY <2>3
            <4>2. QED
                BY <1>0, <1>l, <4>1, GoesIs
        <3>2. \A u \in Workers : /\ In(u, parked) <=> pc'[u] = "parked"
                                 /\ In(u, prewait') => pc'[u] \in Deciding
                                 /\ pc'[u] = "scan" => index'[u] >= 1
            BY <1>11, <2>1, <3>1
        <3>3. QED
            BY <1>10, <1>11, <1>a, <2>1, <2>3, <3>2 DEF Waiters
    <2>4. QED
        BY <1>16, <2>2, <2>3 DEF CommitWait, notifier
<1>17. QED
    BY <1>3, <1>4, <1>5, <1>8, <1>9, <1>12, <1>15, <1>16 DEF WorkerStep

-----------------------------------------------------------------------------
(* The watch over the queues *)

LEMMA EmptyQueues ==
    ASSUME TypeOK, Active = {}
    PROVE  \A q \in Queues : Queue(q) = <<>>
<1> SUFFICES ASSUME NEW q \in Queues, Queue(q) # <<>> PROVE FALSE
    OBVIOUS
<1>1. Queue(q) \in Seq(Tasks(mode))
    BY QueueIs
<1>2. Head(Queue(q)) \in Tasks(mode) /\ In(Head(Queue(q)), Queue(q))
    BY <1>1, TailIn
<1>3. Holds("queue", q, Head(Queue(q))) /\ "queue" \in Kinds
    BY <1>2 DEF Holds, Kinds
<1>4. QED
    BY <1>2, <1>3, ActiveIn

(* Nobody but w stops watching in a step of w.                             *)
LEMMA OthersWatch ==
    ASSUME TypeOK, NEW w, OthersStay(w),
           \A u \in Workers : u # w /\ In(u, prewait') => In(u, prewait),
           NEW q, NEW u \in Workers, u # w, Watches(u, q)
    PROVE  Watches(u, q)'
<1>1. index'[u] = index[u] /\ (In(u, prewait') => In(u, prewait))
    BY DEF OthersStay
<1>2. CASE pc'[u] = pc[u]
    BY <1>1, <1>2 DEF Watches
<1>3. CASE pc[u] = "parked" /\ pc'[u] = "explore"
    BY <1>3 DEF Watches
<1>4. QED
    BY <1>2, <1>3 DEF OthersStay

(* Whoever has been notified watches every queue.                          *)
LEMMA NotifiedWatches ==
    ASSUME TypeOK, Waiters, NEW next \in [Workers -> Labels],
           NotifyOne(next) \/ NotifyAll(next),
           \A u \in Workers : pc[u] \in Deciding => next[u] \in Deciding,
           prewait' # <<>> \/ parked' # <<>>
    PROVE  \E u \in Workers : \A q : Watches(u, q)'
<1>0. NotifyOne(next)
    BY NotifyAllIs
<1>1. CASE prewait # <<>> /\ prewait' = Tail(prewait) /\ pc' = next
    <2>1. PICK h \in Workers : h = Head(prewait)
        BY <1>1, ParkedIs
    <2>2. pc'[h] \in Deciding
        BY <1>1, <2>1, ParkedIs
    <2>3. ~In(h, prewait')
        BY <1>1, <2>1, TailOnce DEF Waiters, TypeOK
    <2>4. QED
        BY <2>2, <2>3 DEF Watches
<1>2. CASE parked # <<>> /\ pc' = [next EXCEPT ![Head(parked)] = "explore"]
    <2>1. PICK h \in Workers : h = Head(parked)
        BY <1>2, ParkedIs
    <2>2. pc'[h] = "explore"
        BY <1>2, <2>1
    <2>3. QED
        BY <2>2 DEF Watches
<1>3. QED
    BY <1>0, <1>1, <1>2, NotifyOneIs

(* The premise of Watched for q holds before the step, and if w watched it *)
(* then w still does: then somebody watches.                               *)
LEMMA WatchKept ==
    ASSUME TypeOK, Watched, NEW w, OthersStay(w), main' = main,
           \A u \in Workers : u # w /\ In(u, prewait') => In(u, prewait),
           NEW q \in Queues, Queue(q) # <<>>, prewait # <<>> \/ parked # <<>>,
           w \in Workers /\ Watches(w, q) => Watches(w, q)'
    PROVE  main' = "notify" \/ \E u \in Workers : Watches(u, q)'
<1>1. CASE main = "notify"
    BY <1>1
<1>2. CASE main # "notify"
    <2>1. PICK u \in Workers : Watches(u, q)
        BY <1>2 DEF Watched
    <2>2. CASE u = w
        BY <2>1, <2>2
    <2>3. CASE u # w
        BY <2>1, <2>3, OthersWatch
    <2>4. QED
        BY <2>2, <2>3
<1>3. QED
    BY <1>1, <1>2

LEMMA MainWatched ==
    ASSUME GraphInv, Waiters, Watched, MainStep
    PROVE  Watched'
<1>0. TypeOK /\ pc \in [Workers -> Labels]
    BY DEF GraphInv, TypeOK
<1>1. mode' = mode
    BY DEF MainStep, Run, MainNotify, Return, Shutdown, NotifyShutdown, Joined
<1>2. Workers' = Workers /\ Queues' = Queues
    BY <1>1, SameGraph
<1>3. CASE Run
    BY <1>3 DEF Run, Watched
<1>4. CASE MainNotify \/ NotifyShutdown
    <2>1. NotifyOne(pc) \/ NotifyAll(pc)
        BY <1>4 DEF MainNotify, NotifyShutdown
    <2>2. prewait' # <<>> \/ parked' # <<>> => \E u \in Workers : \A q : Watches(u, q)'
        BY <1>0, <2>1, NotifiedWatches
    <2>3. QED
        BY <1>2, <2>2 DEF Watched
<1>5. CASE Return \/ Shutdown \/ Joined
    <2>1. /\ UNCHANGED <<prewait, parked, pc, index, shared, wsq>>
          /\ main # "notify"
        BY <1>5 DEF Return, Shutdown, Joined, notifier, local, queues
    <2>2. \A q \in Queues : Queue(q)' = Queue(q) /\ \A u : Watches(u, q)' <=> Watches(u, q)
        BY <2>1 DEF Queue, Watches
    <2>3. QED
        BY <1>2, <2>1, <2>2 DEF Watched
<1>6. QED
    BY <1>3, <1>4, <1>5 DEF MainStep

LEMMA WorkerWatched ==
    ASSUME GraphInv, Waiters, Watched, NEW w \in Workers, WorkerStep(w)
    PROVE  Watched'
<1>0. TypeOK /\ Over /\ pc \in [Workers -> Labels] /\ index \in [Workers -> Nat]
    BY DEF GraphInv, TypeOK
<1>1. mode' = mode /\ main' = main
    BY DEF WorkerStep, Steal, StealFails, NotifyThief, PrepareWait, CheckShared, CheckDone,
       Scan, CancelWait, CommitWait, Leave, Begin, Finish, Successor, NotifyPushed,
       TearDown, Settle, Decrement, NextTask
<1>2. Workers' = Workers /\ Queues' = Queues
    BY <1>1, SameGraph
<1>3. SUFFICES ASSUME NEW q \in Queues, Queue(q)' # <<>>, prewait' # <<>> \/ parked' # <<>>
               PROVE  main' = "notify" \/ \E u \in Workers : Watches(u, q)'
    BY <1>2 DEF Watched
<1>4. ASSUME NEW label \in Labels, label \in Deciding <=> pc[w] \in Deciding,
             NotifyOne(At(w, label)) \/ NotifyAll(At(w, label))
      PROVE  \E u \in Workers : Watches(u, q)'
    <2>1. PICK next \in [Workers -> Labels] : next = At(w, label)
        BY <1>0, AtIs
    <2>2. \A u \in Workers : next[u] = IF u = w THEN label ELSE pc[u]
        BY <1>0, <2>1, AtIs
    <2>3. NotifyOne(next) \/ NotifyAll(next)
        BY <1>4, <2>1
    <2>4. \A u \in Workers : pc[u] \in Deciding => next[u] \in Deciding
        BY <1>4, <2>2
    <2>5. PICK u \in Workers : \A r : Watches(u, r)'
        BY <1>0, <1>3, <2>3, <2>4, NotifiedWatches
    <2>6. QED
        BY <2>5
<1>5. CASE NotifyThief(w)
    BY <1>4, <1>5 DEF NotifyThief, Labels, Deciding
<1>6. CASE NotifyPushed(w)
    BY <1>4, <1>6 DEF NotifyPushed, Labels, Deciding
<1>7. CASE Leave(w)
    BY <1>4, <1>7 DEF Leave, Labels, Deciding
<1>8. done => Queue(q) = <<>>
    BY <1>0, EmptyQueues DEF Over
<1>9. ASSUME pc'[w] \in {"explore", "stolen", "pushed", "prepare", "check shared", "cancel"}
      PROVE  Watches(w, q)'
    BY <1>9 DEF Watches
<1>l. {"explore", "stolen", "pushed", "prepare", "check shared", "cancel", "check done",
       "cancel and leave", "scan", "commit", "parked", "leave", "body", "successors",
       "settle", "next", "decrement", "begin"} \subseteq Labels
    BY DEF Labels
<1>10. CASE Steal(w) \/ PrepareWait(w)
    <2>1. PICK label \in {"stolen", "check shared"} : pc' = At(w, label)
        BY <1>10 DEF Steal, PrepareWait
    <2>2. pc'[w] = label
        BY <1>0, <1>l, <2>1, GoesIs
    <2>3. QED
        BY <1>9, <2>2
<1>11. CASE StealFails(w)
    <2>1. \/ pc' = At(w, "prepare")
          \/ pc' = pc /\ pc[w] = "explore"
        BY <1>11 DEF StealFails
    <2>2. pc'[w] \in {"prepare", "explore"}
        BY <1>0, <1>l, <2>1, GoesIs
    <2>3. QED
        BY <1>9, <2>2
<1>q. (\/ CheckShared(w) \/ CheckDone(w) \/ Scan(w) \/ CancelWait(w) \/ CommitWait(w))
          => OthersStay(w) /\ wsq' = wsq /\ shared' = shared /\ Queue(q)' = Queue(q)
    <2>1. SUFFICES ASSUME CheckShared(w) \/ CheckDone(w) \/ Scan(w) \/ CancelWait(w)
                              \/ CommitWait(w)
                   PROVE  OthersStay(w) /\ wsq' = wsq /\ shared' = shared
                              /\ Queue(q)' = Queue(q)
        OBVIOUS
    <2>2. OthersStay(w)
        BY <1>0, <2>1, QuietIs
    <2>3. wsq' = wsq /\ shared' = shared
        BY <2>1 DEF CheckShared, CheckDone, Scan, CancelWait, CommitWait, queues
    <2>4. QED
        BY <2>2, <2>3 DEF Queue
<1>k. ASSUME OthersStay(w), Queue(q) # <<>>, prewait' = prewait, parked' = parked,
             Watches(w, q) => Watches(w, q)'
      PROVE  main' = "notify" \/ \E u \in Workers : Watches(u, q)'
    BY <1>0, <1>1, <1>3, <1>k, WatchKept
<1>12. CASE CheckShared(w)
    <2>1. CASE pc' = At(w, "cancel")
        <3>1. pc'[w] = "cancel"
            BY <1>0, <1>l, <2>1, GoesIs
        <3>2. QED
            BY <1>9, <3>1
    <2>2. CASE shared = <<>> /\ pc' = At(w, "check done")
        <3>1. pc'[w] = "check done"
            BY <1>0, <1>l, <2>2, GoesIs
        <3>2. q # 0
            BY <1>3, <1>12, <1>q, <2>2 DEF Queue
        <3>3. QED
            BY <3>1, <3>2 DEF Watches
    <2>3. QED
        BY <1>12, <2>1, <2>2 DEF CheckShared
<1>13. CASE CheckDone(w)
    <2>1. OthersStay(w) /\ Queue(q) # <<>>
        BY <1>3, <1>13, <1>q
    <2>2. pc' = At(w, "scan") /\ index' = [index EXCEPT ![w] = 1]
        BY <1>8, <1>13, <2>1 DEF CheckDone
    <2>3. prewait' = prewait /\ parked' = parked /\ pc[w] = "check done"
        BY <1>13 DEF CheckDone, notifier
    <2>4. pc'[w] = "scan" /\ index'[w] = 1
        BY <1>0, <1>l, <2>2, GoesIs
    <2>5. Watches(w, q) => Watches(w, q)'
        <3>1. CASE q = 0
            BY <2>3, <2>4, <3>1 DEF Watches, Deciding
        <3>2. CASE q # 0
            <4>1. q \in Nat
                BY <1>0, <3>2, ModeIs
            <4>2. index'[w] <= q
                BY <2>4, <3>2, <4>1
            <4>3. QED
                BY <2>4, <3>2, <4>2 DEF Watches
        <3>3. QED
            BY <3>1, <3>2
    <2>6. QED
        BY <1>k, <2>1, <2>3, <2>5
<1>14. CASE Scan(w)
    <2>1. OthersStay(w) /\ Queue(q) # <<>>
        BY <1>3, <1>14, <1>q
    <2>2. prewait' = prewait /\ parked' = parked /\ pc[w] = "scan" /\ index[w] \in Nat
        BY <1>0, <1>14 DEF Scan, notifier
    <2>3. \/ index[w] > mode.workers /\ pc' = At(w, "commit")
          \/ pc' = At(w, "cancel")
          \/ /\ wsq[index[w]] = <<>> /\ ~(index[w] > mode.workers)
             /\ pc' = pc /\ index' = [index EXCEPT ![w] = @ + 1]
        BY <1>14 DEF Scan, ScanEnds
    <2>4. CASE index[w] > mode.workers /\ pc' = At(w, "commit")
        <3>1. pc'[w] = "commit"
            BY <1>0, <1>l, <2>4, GoesIs
        <3>2. q \in 0 .. mode.workers /\ mode.workers \in Nat
            BY <1>0, ModeIs DEF Queues
        <3>3. ~(index[w] <= q)
            BY <2>2, <2>4, <3>2
        <3>4. Watches(w, q) => Watches(w, q)'
            BY <2>2, <3>1, <3>3 DEF Watches, Deciding
        <3>5. QED
            BY <1>k, <2>1, <2>2, <3>4
    <2>5. CASE pc' = At(w, "cancel")
        <3>1. pc'[w] = "cancel"
            BY <1>0, <1>l, <2>5, GoesIs
        <3>2. QED
            BY <1>9, <3>1
    <2>6. CASE /\ wsq[index[w]] = <<>>
               /\ pc' = pc /\ index' = [index EXCEPT ![w] = @ + 1]
        <3>1. pc'[w] = "scan" /\ index'[w] = index[w] + 1
            BY <1>0, <2>2, <2>6
        <3>2. index[w] >= 1
            BY <2>2 DEF Waiters
        <3>3. q # index[w]
            BY <2>1, <2>2, <2>6, <3>2 DEF Queue
        <3>4. q \in Nat
            BY <1>0, ModeIs DEF Queues
        <3>5. index[w] <= q => index'[w] <= q
            BY <2>2, <3>1, <3>3, <3>4
        <3>6. Watches(w, q) => Watches(w, q)'
            BY <2>2, <3>1, <3>5 DEF Watches, Deciding
        <3>7. QED
            BY <1>k, <2>1, <2>2, <3>6
    <2>7. QED
        BY <2>3, <2>4, <2>5, <2>6
<1>15. CASE CancelWait(w)
    <2>1. Queue(q) # <<>> /\ ~done
        BY <1>3, <1>8, <1>15, <1>q
    <2>2. pc[w] = "cancel"
        BY <1>0, <1>15, <2>1 DEF CancelWait, Over
    <2>3. pc' = At(w, "explore")
        BY <1>15, <2>2 DEF CancelWait
    <2>4. pc'[w] = "explore"
        BY <1>0, <1>l, <2>3, GoesIs
    <2>5. QED
        BY <1>9, <2>4
<1>16. CASE CommitWait(w)
    <2>1. OthersStay(w) /\ Queue(q) # <<>> /\ pc[w] = "commit"
        BY <1>3, <1>16, <1>q DEF CommitWait
    <2>2. CASE Decide(w)
        <3>1. prewait # <<>> /\ prewait' = Tail(prewait) /\ Head(prewait) = w
            BY <1>0, <2>2, DecideIs
        <3>2. \A u : (In(u, prewait) <=> u = w \/ In(u, prewait'))
            BY <1>0, <3>1, TailIn DEF TypeOK
        <3>3. ~Watches(w, q)
            BY <2>1, <3>2 DEF Watches
        <3>4. QED
            BY <1>0, <1>1, <2>1, <3>1, <3>2, <3>3, WatchKept
    <2>3. CASE pc' = At(w, "explore")
        <3>1. pc'[w] = "explore"
            BY <1>0, <1>l, <2>3, GoesIs
        <3>2. QED
            BY <1>9, <3>1
    <2>4. QED
        BY <1>16, <2>2, <2>3 DEF CommitWait
<1>17. CASE \/ Begin(w) \/ Finish(w) \/ Successor(w) \/ TearDown(w) \/ Settle(w)
            \/ Decrement(w) \/ NextTask(w)
    <2>1. /\ pc[w] \in {"begin", "body", "successors", "settle", "decrement", "next"}
          /\ prewait' = prewait /\ parked' = parked /\ shared' = shared
          /\ \A u \in Workers : u # w => index'[u] = index[u]
        BY <1>0, <1>17 DEF Begin, Finish, Successor, TearDown, Settle, Decrement, NextTask,
           notifier, local, queues
    <2>2. ~Watches(w, q)
        BY <2>1 DEF Watches, Deciding
    <2>3. PICK label \in {"body", "successors", "pushed", "settle", "next", "decrement",
                          "begin", "explore"} : GoesTo(w, label)
        <3>1. CASE Begin(w) \/ Finish(w) \/ Settle(w) \/ Decrement(w)
            BY <3>1 DEF Begin, Finish, Settle, Decrement, GoesTo
        <3>2. CASE Successor(w)
            BY <3>2 DEF Successor, GoesTo
        <3>3. CASE TearDown(w) \/ NextTask(w)
            BY <3>3 DEF TearDown, NextTask, GoesTo
        <3>4. QED
            BY <1>17, <3>1, <3>2, <3>3
    <2>4. OthersStay(w) /\ pc'[w] = label
        <3>1. \A u \in Workers : pc'[u] = IF u = w THEN label ELSE pc[u]
            BY <1>0, <1>l, <2>3, GoesIs DEF GoesTo
        <3>2. QED
            BY <2>1, <3>1 DEF OthersStay
    <2>5. CASE label = "pushed"
        BY <1>9, <2>4, <2>5
    <2>6. CASE label # "pushed"
        <3>1. Queue(q) # <<>>
            <4>1. CASE wsq' = wsq
                BY <1>3, <2>1, <4>1 DEF Queue
            <4>2. CASE NextTask(w) /\ wsq[w] # <<>> /\ wsq' = [wsq EXCEPT ![w] = AfterPop(wsq[w])]
                BY <1>0, <1>3, <2>1, <4>2, ModeIs DEF Queue, TypeOK
            <4>3. wsq' = wsq
                      \/ (NextTask(w) /\ wsq[w] # <<>>
                            /\ wsq' = [wsq EXCEPT ![w] = AfterPop(wsq[w])])
                <5>1. CASE Begin(w) \/ Finish(w) \/ TearDown(w) \/ Settle(w) \/ Decrement(w)
                    BY <5>1 DEF Begin, Finish, TearDown, Settle, Decrement, queues
                <5>2. CASE NextTask(w)
                    BY <5>2 DEF NextTask
                <5>3. CASE Successor(w)
                    <6>1. wsq' = wsq \/ pc' = At(w, "pushed")
                        BY <5>3 DEF Successor
                    <6>2. pc' # At(w, "pushed")
                        BY <1>0, <1>l, <2>4, <2>6, AtIs
                    <6>3. QED
                        BY <6>1, <6>2
                <5>4. QED
                    BY <1>17, <5>1, <5>2, <5>3
            <4>4. QED
                BY <4>1, <4>2, <4>3
        <3>2. QED
            BY <1>k, <2>1, <2>2, <2>4, <3>1
    <2>7. QED
        BY <2>5, <2>6
<1>18. QED
    BY <1>5, <1>6, <1>7, <1>10, <1>11, <1>12, <1>13, <1>14, <1>15, <1>16, <1>17 DEF WorkerStep

-----------------------------------------------------------------------------
(* The invariant *)

LEMMA IInvInit == Init => IInv
<1> SUFFICES ASSUME Init PROVE IInv
    OBVIOUS
<1>1. GraphInv /\ TypeOK
    BY GraphInit, TypeInit
<1>2. /\ prewait = <<>> /\ parked = <<>> /\ main = "run"
      /\ \A w \in Workers : pc[w] = "explore"
    BY DEF Init
<1>3. Once(<<>>)
    BY DEF Once
<1>4. Waiters
    BY <1>2, <1>3, EmptyIn DEF Waiters
<1>5. Watched
    BY <1>2 DEF Watched
<1>6. QED
    BY <1>1, <1>4, <1>5 DEF IInv, WakeInv

LEMMA IInvStep == IInv /\ [Next]_vars => IInv'
<1> SUFFICES ASSUME IInv, [Next]_vars PROVE IInv'
    OBVIOUS
<1>0. GraphInv /\ Waiters /\ Watched
    BY DEF IInv, WakeInv
<1>1. GraphInv'
    BY <1>0, GraphStep
<1>2. CASE MainStep
    BY <1>0, <1>1, <1>2, MainWaiters, MainWatched DEF IInv, WakeInv
<1>3. ASSUME NEW w \in Workers, WorkerStep(w) PROVE IInv'
    BY <1>0, <1>1, <1>3, WorkerWaiters, WorkerWatched DEF IInv, WakeInv
<1>4. CASE UNCHANGED vars
    <2>1. /\ UNCHANGED <<mode, main, notices, shared, wsq, prewait, parked, pc, index>>
          /\ Workers' = Workers /\ Queues' = Queues
        BY <1>4, SameGraph DEF vars, queues, notifier, local
    <2>2. \A q : Queue(q)' = Queue(q) /\ \A u : Watches(u, q)' <=> Watches(u, q)
        BY <2>1 DEF Queue, Watches
    <2>3. Waiters'
        BY <1>0, <2>1 DEF Waiters
    <2>4. Watched'
        BY <1>0, <2>1, <2>2 DEF Watched
    <2>5. QED
        BY <1>1, <2>3, <2>4 DEF IInv, WakeInv
<1>5. QED
    BY <1>2, <1>3, <1>4 DEF Next

(* The state of the executor is one of its types: executor.hpp keeps a     *)
(* worker where its loop puts it, and every queue holds nodes of the graph. *)
THEOREM TypeCorrect == Spec => []TypeOK
<1>1. IInv => TypeOK
    BY DEF IInv, GraphInv
<1>2. QED
    BY IInvInit, IInvStep, <1>1, PTL DEF Spec

(* The counters of executor.hpp are exact from the moment the run starts:  *)
(* the join counter of a task is the number of the edges to it that nobody *)
(* has gone along (and its number of predecessors more once it has ended,  *)
(* for the next run), a task is released when that number is 0 and at no   *)
(* other moment, and the counter of the topology is the number of tasks    *)
(* that are released and not done with.                                    *)
THEOREM CountersAreExact == Spec => []Counters
<1>1. IInv => Counters
    BY DEF IInv, GraphInv
<1>2. QED
    BY IInvInit, IInvStep, <1>1, PTL DEF Spec

(* A task is in one place: in one queue once, or with one worker.          *)
THEOREM NoTaskIsTwice == Spec => []OnePlace
<1>1. IInv => OnePlace
    BY DEF IInv, GraphInv
<1>2. QED
    BY IInvInit, IInvStep, <1>1, PTL DEF Spec

(* Once the promise has its value no queue holds a task and no worker is   *)
(* at one: the graph may be destroyed (executor.hpp:2135).                 *)
THEOREM GraphIsAtRest == Spec => []GraphAtRest
<1>1. IInv => GraphAtRest
    <2> SUFFICES ASSUME IInv, promise PROVE GraphAtRest
        BY DEF GraphAtRest
    <2>1. TypeOK /\ Progress /\ Over
        BY DEF IInv, GraphInv
    <2>2. Active = {} /\ \A w \in Workers : pc[w] # "settle"
        BY <2>1 DEF Over
    <2>3. \A q \in Queues : Queue(q) = <<>>
        BY <2>1, <2>2, EmptyQueues
    <2>4. shared = <<>> /\ \A w \in Workers : wsq[w] = <<>>
        BY <2>1, <2>3, ModeIs DEF Queue
    <2>5. ASSUME NEW w \in Workers, Touches(w) PROVE FALSE
        <3>1. w \in Queues /\ "node" \in Kinds /\ "cache" \in Kinds
            BY <2>1, ModeIs DEF Kinds
        <3>2. HasNode(w) \/ HasCache(w)
            BY <2>2, <2>5 DEF Touches, HasNode, HasCache, Loop
        <3>3. CASE HasNode(w)
            <4>1. Holds("node", w, node[w]) /\ node[w] \in Tasks(mode)
                BY <2>1, <3>3, HoldsAt DEF Progress
            <4>2. QED
                BY <2>2, <3>1, <4>1, ActiveIn
        <3>4. CASE HasCache(w)
            <4>1. Holds("cache", w, cache[w]) /\ cache[w] \in Tasks(mode)
                BY <2>1, <3>4, HoldsAt DEF HasCache, TypeOK
            <4>2. QED
                BY <2>2, <3>1, <4>1, ActiveIn
        <3>5. QED
            BY <3>2, <3>3, <3>4
    <2>6. QED
        BY <2>4, <2>5 DEF GraphAtRest
<1>2. QED
    BY IInvInit, IInvStep, <1>1, PTL DEF Spec

(* No worker sleeps over a task that nobody is on the way to: the second   *)
(* look at the queues between prepare_wait and commit_wait                 *)
(* (executor.hpp:1342-1367) loses no wake-up.                              *)
THEOREM NoWakeupIsLost == Spec => []NoLostWakeup
<1>1. IInv => NoLostWakeup
    <2> SUFFICES ASSUME IInv,
                        shared # <<>> \/ \E w \in Workers : wsq[w] # <<>>,
                        \E w \in Workers : pc[w] = "parked",
                        main # "notify"
                 PROVE  \E w \in Workers : pc[w] \notin {"parked", "gone", "body"}
        BY DEF NoLostWakeup
    <2>1. TypeOK /\ Waiters /\ Watched
        BY DEF IInv, GraphInv, WakeInv
    <2>2. PICK q \in Queues : Queue(q) # <<>>
        BY <2>1, ModeIs DEF Queue
    <2>3. parked # <<>>
        BY <2>1, EmptyIn DEF Waiters
    <2>4. PICK w \in Workers : Watches(w, q)
        BY <2>1, <2>2, <2>3 DEF Watched
    <2>5. QED
        BY <2>4 DEF Watches, Deciding
<1>2. QED
    BY IInvInit, IInvStep, <1>1, PTL DEF Spec

-----------------------------------------------------------------------------
(* The executor runs the graph as TaskGraph promises: a call of a task's   *)
(* function is a Begin, its return an End, wait() a Return, and every      *)
(* other step changes nothing of it.                                       *)

LEMMA GraphStarts == Init => Graph!Init
<1> SUFFICES ASSUME Init PROVE Graph!Init
    OBVIOUS
<1>1. TypeOK
    BY TypeInit
<1>2. {<<e[1], Target(e)>> : e \in Edges} \subseteq Tasks(mode) \X Tasks(mode)
    BY <1>1, EdgeIs
<1>3. begun = {} /\ ended = {} /\ (main \notin {"run", "notify", "wait"}) = FALSE
    BY DEF Init
<1>4. QED
    BY <1>2, <1>3 DEF Graph!Init

LEMMA GraphSame ==
    ASSUME mode' = mode, begun' = begun, ended' = ended,
           main' \in {"run", "notify", "wait"} <=> main \in {"run", "notify", "wait"}
    PROVE  UNCHANGED Graph!vars
<1>1. Tasks(mode)' = Tasks(mode)
    OBVIOUS
<1>2. {<<e[1], Target(e)>> : e \in Edges}' = {<<e[1], Target(e)>> : e \in Edges}
    BY SameGraph DEF Target
<1>3. (main' \notin {"run", "notify", "wait"}) = (main \notin {"run", "notify", "wait"})
    OBVIOUS
<1>4. QED
    BY <1>1, <1>2, <1>3 DEF Graph!vars

LEMMA GraphNext == IInv /\ [Next]_vars => [Graph!Next]_(Graph!vars)
<1> SUFFICES ASSUME IInv, [Next]_vars PROVE [Graph!Next]_(Graph!vars)
    OBVIOUS
<1>0. /\ TypeOK /\ OnePlace /\ Progress /\ Counters /\ NotBegun /\ Over
    BY DEF IInv, GraphInv
<1> DEFINE edges == {<<e[1], Target(e)>> : e \in Edges}
           returned == main \notin {"run", "notify", "wait"}
<1>1. ASSUME mode' = mode PROVE Tasks(mode)' = Tasks(mode) /\ edges' = edges
    BY <1>1, SameGraph DEF Target
<1>2. CASE Return
    <2>1. /\ mode' = mode /\ begun' = begun /\ ended' = ended /\ promise
          /\ main = "wait" /\ main' = "returned"
        BY <1>2 DEF Return, history
    <2>2. ended = Tasks(mode)
        BY <1>0, <2>1 DEF Over
    <2>3. returned' = TRUE
        BY <2>1
    <2>4. Graph!Return
        BY <1>1, <2>1, <2>2, <2>3 DEF Graph!Return
    <2>5. QED
        BY <2>4 DEF Graph!Next
<1>3. CASE Run \/ MainNotify \/ Shutdown \/ NotifyShutdown \/ Joined
    <2>1. /\ mode' = mode /\ begun' = begun /\ ended' = ended
          /\ main' \in {"run", "notify", "wait"} <=> main \in {"run", "notify", "wait"}
        BY <1>3 DEF Run, MainNotify, Shutdown, NotifyShutdown, Joined, history
    <2>2. QED
        BY <2>1, GraphSame
<1>4. ASSUME NEW w \in Workers, Begin(w) PROVE Graph!Next
    <2>1. PICK t : t = node[w]
        OBVIOUS
    <2>2. /\ mode' = mode /\ main' = main /\ begun' = begun \cup {t} /\ ended' = ended
          /\ pc[w] = "begin"
        BY <1>4, <2>1 DEF Begin
    <2>3. HasNode(w) /\ t \in Tasks(mode)
        BY <1>0, <2>1, <2>2 DEF Progress, HasNode
    <2>4. Holds("node", w, t) /\ w \in Queues /\ "node" \in Kinds
        BY <1>0, <2>1, <2>3, HoldsAt, ModeIs DEF Kinds
    <2>5. t \notin begun
        BY <1>0, <2>2, <2>3, <2>4 DEF Progress, Unbegun
    <2>6. Pending(t) = {}
        <3>1. main # "run"
            BY <1>0, <2>2, Running DEF Idle, Deciding
        <3>2. t \in Active
            BY <2>3, <2>4, ActiveIn
        <3>3. QED
            BY <1>0, <2>3, <3>1, <3>2 DEF Counters
    <2>7. Graph!Before(t) \subseteq ended
        <3>1. SUFFICES ASSUME NEW a \in Tasks(mode), <<a, t>> \in edges PROVE a \in ended
            BY DEF Graph!Before
        <3>2. PICK e \in Edges : <<a, t>> = <<e[1], Target(e)>>
            BY <3>1
        <3>3. e \in Into(t) /\ e[1] = a
            BY <3>2 DEF Into
        <3>4. QED
            BY <2>6, <3>3 DEF Pending, Consumed
    <2>8. returned' = returned
        BY <2>2
    <2>9. Graph!Begin
        BY <1>1, <2>2, <2>3, <2>5, <2>7, <2>8 DEF Graph!Begin
    <2>10. QED
        BY <2>9 DEF Graph!Next
<1>5. ASSUME NEW w \in Workers, Finish(w) PROVE Graph!Next
    <2>1. PICK t : t = node[w]
        OBVIOUS
    <2>2. /\ mode' = mode /\ main' = main /\ begun' = begun /\ ended' = ended \cup {t}
          /\ pc[w] = "body"
        BY <1>5, <2>1 DEF Finish
    <2>3. t \in begun \ ended
        BY <1>0, <2>1, <2>2 DEF Progress
    <2>4. returned' = returned
        BY <2>2
    <2>5. Graph!End
        BY <1>1, <2>2, <2>3, <2>4 DEF Graph!End
    <2>6. QED
        BY <2>5 DEF Graph!Next
<1>6. ASSUME NEW w \in Workers, WorkerStep(w), ~Begin(w), ~Finish(w)
      PROVE  UNCHANGED Graph!vars
    <2>1. mode' = mode /\ begun' = begun /\ ended' = ended /\ main' = main
        BY <1>6 DEF WorkerStep, Steal, StealFails, NotifyThief, PrepareWait, CheckShared,
           CheckDone, Scan, CancelWait, CommitWait, Leave, Successor, NotifyPushed,
           TearDown, Settle, Decrement, NextTask, history
    <2>2. QED
        BY <2>1, GraphSame
<1>7. CASE UNCHANGED vars
    BY <1>7, GraphSame DEF vars, history
<1>8. QED
    BY <1>2, <1>3, <1>4, <1>5, <1>6, <1>7 DEF Next, MainStep

(* Every task is called at most once and after all that precede it have    *)
(* returned, and wait() returns after all of them (task.h:42-62).          *)
THEOREM RunsTheGraph == Spec => TaskGraphSpec
BY IInvInit, IInvStep, GraphStarts, GraphNext, PTL DEF Spec, TaskGraphSpec, Graph!Spec
=============================================================================
