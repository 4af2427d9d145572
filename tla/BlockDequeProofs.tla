-------------------------- MODULE BlockDequeProofs --------------------------
(***************************************************************************)
(* The blocking queue is bounded, first-in first-out and loses no wake-up, *)
(* for every number of producers and consumers, every capacity and every   *)
(* set of items.                                                           *)
(***************************************************************************)
EXTENDS BlockDeque, FiniteSetTheorems, TLAPS

IInv ==
    /\ TypeOK
    /\ CapacityKept
    /\ FifoOrder
    /\ ConsumersWoken
    /\ ProducersWoken

(* The consumers that will look at the queue, and the producers. *)
Takers == At("pop") \cup At("woken")
Pushers == At("push")

-----------------------------------------------------------------------------
(* The threads at any label are finitely many.                             *)
LEMMA ThreadsFinite ==
    ASSUME NEW S, S \subseteq Threads
    PROVE  IsFiniteSet(S) /\ Cardinality(S) \in Nat
<1>1. IsFiniteSet(Threads)
    BY BlockDequeAssumption, FS_Union DEF Threads
<1>2. IsFiniteSet(S)
    BY <1>1, FS_Subset
<1>3. QED
    BY <1>2, FS_CardinalityType

(* One thread more, and one thread less.                                   *)
LEMMA OneMore ==
    ASSUME NEW S, NEW T, S \subseteq Threads, NEW t \in Threads,
           t \notin S, T = S \cup {t}
    PROVE  Cardinality(T) = Cardinality(S) + 1
BY ThreadsFinite, FS_AddElement

LEMMA OneLess ==
    ASSUME NEW S, NEW T, S \subseteq Threads, NEW t \in S, T = S \ {t}
    PROVE  Cardinality(T) = Cardinality(S) - 1
BY ThreadsFinite, FS_RemoveElement

(* The counts are numbers. *)
CountsAreNat == Cardinality(Takers) \in Nat /\ Cardinality(Pushers) \in Nat

LEMMA Counted == CountsAreNat
<1>1. Takers \subseteq Threads /\ Pushers \subseteq Threads
    BY DEF Takers, Pushers, At
<1>2. QED
    BY <1>1, ThreadsFinite DEF CountsAreNat

LEMMA CountedNext == CountsAreNat'
BY Counted, PTL

-----------------------------------------------------------------------------
LEMMA TypeInit == Init => TypeOK
<1>1. <<>> \in Seq(Items)
    OBVIOUS
<1>2. QED
    BY <1>1 DEF Init, TypeOK, Threads

(* What an insertion does to the sequences.                                *)
LEMMA InsertTypes ==
    ASSUME TypeOK, NEW p \in Producers, Insert(p)
    PROVE  /\ deq' \in Seq(Items) /\ Len(deq)' = Len(deq) + 1
           /\ pushed' \in Seq(Items)
           /\ item' = [item EXCEPT ![p] = {}]
           /\ HasRoom /\ pc[p] = "push"
           /\ used' \in SUBSET Operations /\ used \subseteq used'
           /\ UNCHANGED <<is_close, closing, popped, dropped>>
<1>1. PICK x \in item[p], front \in BOOLEAN :
          deq' = Inserted(x, front) /\ pushed' = Append(pushed, x)
    BY DEF Insert
<1>2. x \in Items /\ deq \in Seq(Items) /\ pushed \in Seq(Items)
    BY DEF TypeOK
<1>3. /\ Append(deq, x) \in Seq(Items) /\ Len(Append(deq, x)) = Len(deq) + 1
      /\ <<x>> \o deq \in Seq(Items) /\ Len(<<x>> \o deq) = Len(deq) + 1
      /\ Append(pushed, x) \in Seq(Items)
    BY <1>2
<1>4. QED
    BY <1>1, <1>3 DEF Insert, Inserted, TypeOK, Operations

(* What a removal does to them. *)
LEMMA RemoveTypes ==
    ASSUME TypeOK, NEW c \in Consumers, Remove(c)
    PROVE  /\ deq' \in Seq(Items) /\ Len(deq)' = Len(deq) - 1
           /\ popped' \in Seq(Items)
           /\ pc[c] \in {"pop", "woken"}
           /\ UNCHANGED <<is_close, item, closing, pushed, dropped, used>>
<1>1. deq \in Seq(Items) /\ deq # <<>> /\ popped \in Seq(Items)
    BY DEF TypeOK, Remove
<1>2. /\ Tail(deq) \in Seq(Items) /\ Len(Tail(deq)) = Len(deq) - 1
      /\ Append(popped, Head(deq)) \in Seq(Items)
    BY <1>1
<1>3. QED
    BY <1>2 DEF Remove, MayTake

LEMMA TypeStep == TypeOK /\ [Next]_vars => TypeOK'
<1> SUFFICES ASSUME TypeOK, [Next]_vars
             PROVE  TypeOK'
    OBVIOUS
<1>0. Producers \cap Consumers = {}
    BY BlockDequeAssumption
<1>1. ASSUME NEW p \in Producers, NEW x \in Items, CallPush(p, x)
      PROVE  TypeOK'
    BY <1>0, <1>1 DEF TypeOK, CallPush, Go, Threads
<1>2. ASSUME NEW p \in Producers, PushWait(p)
      PROVE  TypeOK'
    BY <1>0, <1>2 DEF TypeOK, PushWait, Go, Threads
<1>3. ASSUME NEW p \in Producers, Push(p)
      PROVE  TypeOK'
  <2>1. Insert(p) /\ GoAndNotify(p, "idle", "empty", "woken")
      BY <1>3 DEF Push
  <2>0. /\ deq' \in Seq(Items) /\ pushed' \in Seq(Items)
        /\ item' = [item EXCEPT ![p] = {}]
        /\ pc[p] = "push" /\ used' \in SUBSET Operations
        /\ UNCHANGED <<is_close, closing, popped, dropped>>
      BY <2>1, InsertTypes
  <2>2. CASE At("empty") = {} /\ pc' = [pc EXCEPT ![p] = "idle"]
      BY <1>0, <2>0, <2>2 DEF TypeOK, Threads
  <2>3. ASSUME NEW w \in At("empty"), pc' = [pc EXCEPT ![p] = "idle", ![w] = "woken"]
        PROVE  TypeOK'
    <3>1. w \in Consumers /\ w # p
        BY <1>0, <2>0, <2>3 DEF TypeOK, At, Threads
    <3>2. QED
        BY <1>0, <2>0, <2>3, <3>1 DEF TypeOK, Threads
  <2>4. QED
      BY <2>1, <2>2, <2>3 DEF GoAndNotify
<1>4. ASSUME NEW c \in Consumers, CallPop(c) \/ PopWait(c) \/ PopClosed(c) \/ PopTimeout(c)
      PROVE  TypeOK'
    BY <1>0, <1>4 DEF TypeOK, CallPop, PopWait, PopClosed, PopTimeout, Go, Threads,
       Operations
<1>5. ASSUME NEW c \in Consumers, Pop(c)
      PROVE  TypeOK'
  <2>1. Remove(c) /\ GoAndNotify(c, "idle", "full", "push")
      BY <1>5 DEF Pop
  <2>2. CASE At("full") = {} /\ pc' = [pc EXCEPT ![c] = "idle"]
      BY <1>0, <2>1, <2>2, RemoveTypes DEF TypeOK, Threads
  <2>3. ASSUME NEW w \in At("full"), pc' = [pc EXCEPT ![c] = "idle", ![w] = "push"]
        PROVE  TypeOK'
    <3>1. w \in Producers /\ w # c
        BY <1>0, <2>1, <2>3, RemoveTypes DEF TypeOK, At, Threads
    <3>2. pc[w] = "full"
        BY DEF At
    <3>3. QED
        BY <1>0, <2>1, <2>3, <3>1, <3>2, RemoveTypes DEF TypeOK, Threads
  <2>4. QED
      BY <2>1, <2>2, <2>3 DEF GoAndNotify
<1>6. ASSUME NEW t \in Threads, Wake(t)
      PROVE  TypeOK'
    BY <1>0, <1>6 DEF TypeOK, Wake, Go, Threads
<1>7. CASE Clear
  <2>1. <<>> \in Seq(Items) /\ Elements(deq) \subseteq Items
      BY DEF TypeOK, Elements
  <2>2. QED
      BY <1>7, <2>1 DEF TypeOK, Clear, Operations
<1>8. CASE Flush
    BY <1>0, <1>8 DEF TypeOK, Flush, At, Go, Threads
<1>9. CASE Close
  <2>1. <<>> \in Seq(Items) /\ Elements(deq) \subseteq Items
      BY DEF TypeOK, Elements
  <2>2. QED
      BY <1>9, <2>1 DEF TypeOK, Close
<1>10. CASE NotifyAllProducers \/ NotifyAllConsumers
    BY <1>0, <1>10 DEF TypeOK, NotifyAllProducers, NotifyAllConsumers, Threads
<1>11. CASE UNCHANGED vars
    BY <1>11 DEF TypeOK, vars
<1>12. QED
    BY <1>1, <1>2, <1>3, <1>4, <1>5, <1>6, <1>7, <1>8, <1>9, <1>10, <1>11
    DEF Next, ProducerStep, ConsumerStep

-----------------------------------------------------------------------------
(* An operation that has been used stays used.                             *)
LEMMA UsedGrows == TypeOK /\ [Next]_vars => used \subseteq used'
<1> SUFFICES ASSUME TypeOK, [Next]_vars PROVE used \subseteq used'
    OBVIOUS
<1>1. ASSUME NEW p \in Producers, Push(p)
      PROVE  used \subseteq used'
    BY <1>1, InsertTypes DEF Push
<1>2. ASSUME NEW c \in Consumers, PopTimeout(c) \/ Pop(c)
      PROVE  used \subseteq used'
    BY <1>2 DEF PopTimeout, Pop, Remove
<1>3. CASE Clear
    BY <1>3 DEF Clear
<1>4. CASE UNCHANGED used
    BY <1>4
<1>5. QED
    BY <1>1, <1>2, <1>3, <1>4 DEF Next, ProducerStep, ConsumerStep, CallPush,
       PushWait, CallPop, PopWait, PopClosed, Wake, Flush, Close,
       NotifyAllProducers, NotifyAllConsumers, vars

LEMMA CapacityStep == TypeOK /\ CapacityKept /\ [Next]_vars => CapacityKept'
<1> SUFFICES ASSUME TypeOK, CapacityKept, [Next]_vars
             PROVE  CapacityKept'
    OBVIOUS
<1> USE DEF CapacityKept
<1>0. Len(deq) \in Nat /\ Capacity \in Nat
    BY BlockDequeAssumption DEF TypeOK
<1>1. ASSUME NEW p \in Producers, Push(p)
      PROVE  CapacityKept'
  <2>1. Len(deq)' = Len(deq) + 1 /\ HasRoom
      BY <1>1, InsertTypes DEF Push
  <2>2. QED
      BY <1>0, <2>1 DEF HasRoom
<1>2. ASSUME NEW c \in Consumers, Pop(c)
      PROVE  CapacityKept'
  <2>1. Len(deq)' = Len(deq) - 1
      BY <1>2, RemoveTypes DEF Pop
  <2>2. QED
      BY <1>0, <2>1
<1>3. CASE Clear \/ Close
    BY <1>0, <1>3 DEF Clear, Close
<1>4. CASE UNCHANGED deq
    BY <1>4
<1>5. QED
    BY <1>1, <1>2, <1>3, <1>4 DEF Next, ProducerStep, ConsumerStep, CallPush,
       PushWait, CallPop, PopWait, PopClosed, PopTimeout, Wake, Flush,
       NotifyAllProducers, NotifyAllConsumers, vars

LEMMA FifoStep == TypeOK /\ FifoOrder /\ [Next]_vars => FifoOrder'
<1> SUFFICES ASSUME TypeOK, FifoOrder, [Next]_vars,
                    "push_front" \notin used', dropped' = {}
             PROVE  pushed' = popped' \o deq'
    BY DEF FifoOrder
<1>0. deq \in Seq(Items) /\ popped \in Seq(Items)
    BY DEF TypeOK
<1>a. ASSUME dropped \subseteq dropped'
      PROVE  pushed = popped \o deq
    BY <1>a, UsedGrows DEF FifoOrder
<1>1. ASSUME NEW p \in Producers, Push(p)
      PROVE  pushed' = popped' \o deq'
  <2>1. PICK x \in item[p], front \in BOOLEAN :
            /\ used' = IF front THEN used \cup {"push_front"} ELSE used
            /\ deq' = Inserted(x, front)
            /\ pushed' = Append(pushed, x)
      BY <1>1 DEF Push, Insert
  <2>2. x \in Items
      BY DEF TypeOK
  <2>3. deq' = Append(deq, x)
      BY <2>1 DEF Inserted
  <2>4. Append(popped \o deq, x) = popped \o Append(deq, x)
      BY <1>0, <2>2
  <2>5. popped' = popped /\ dropped' = dropped
      BY <1>1 DEF Push, Insert
  <2>6. QED
      BY <1>a, <2>1, <2>3, <2>4, <2>5
<1>2. ASSUME NEW c \in Consumers, Pop(c)
      PROVE  pushed' = popped' \o deq'
  <2>1. /\ deq # <<>> /\ deq' = Tail(deq)
        /\ popped' = Append(popped, Head(deq))
        /\ UNCHANGED <<pushed, dropped>>
      BY <1>2 DEF Pop, Remove
  <2>2. Append(popped, Head(deq)) \o Tail(deq) = popped \o deq
      BY <1>0, <2>1
  <2>3. QED
      BY <1>a, <2>1, <2>2
<1>3. CASE Clear \/ Close
  <2>1. /\ deq' = <<>> /\ UNCHANGED <<pushed, popped>>
        /\ dropped' = dropped \cup Elements(deq)
      BY <1>3 DEF Clear, Close
  <2>2. Elements(deq) = {}
      BY <2>1
  <2>3. deq = <<>>
      BY <1>0, <2>2 DEF Elements
  <2>4. QED
      BY <1>a, <2>1, <2>3
<1>4. CASE UNCHANGED <<deq, pushed, popped, dropped>>
    BY <1>a, <1>4
<1>5. QED
    BY <1>1, <1>2, <1>3, <1>4 DEF Next, ProducerStep, ConsumerStep, CallPush,
       PushWait, CallPop, PopWait, PopClosed, PopTimeout, Wake, Flush,
       NotifyAllProducers, NotifyAllConsumers, vars

-----------------------------------------------------------------------------
(* A push is followed by a consumer that wakes up, when there is one; a    *)
(* pop takes an item and a consumer away; a consumer falls asleep only     *)
(* beside an empty queue.                                                  *)
LEMMA ConsumersStep ==
    TypeOK /\ ConsumersWoken /\ [Next]_vars => ConsumersWoken'
<1> SUFFICES ASSUME TypeOK, ConsumersWoken, [Next]_vars,
                    "pop_timeout" \notin used', ~is_close', At("empty")' # {}
             PROVE  Len(deq)' <= Cardinality(Takers)'
    BY DEF ConsumersWoken, Takers
<1> DEFINE n == Cardinality(Takers)
<1>0. /\ Producers \cap Consumers = {}
      /\ Len(deq) \in Nat /\ Len(deq)' \in Nat
      /\ n \in Nat /\ n' \in Nat
      /\ Takers \subseteq Threads
  <2>1. TypeOK'
      BY TypeStep
  <2>2. QED
      BY <2>1, Counted, CountedNext, BlockDequeAssumption
      DEF TypeOK, CountsAreNat, Takers, At
<1>a. ASSUME ~is_close, At("empty") # {}
      PROVE  Len(deq) <= n
    BY <1>a, UsedGrows DEF ConsumersWoken, Takers
<1>1. ASSUME NEW p \in Producers, (\E x \in Items : CallPush(p, x)) \/ PushWait(p)
      PROVE  Len(deq)' <= n'
  <2>1. PICK l \in {"push", "full"} : pc' = [pc EXCEPT ![p] = l]
      BY <1>1 DEF CallPush, PushWait, Go
  <2>2. pc[p] \in {"idle", "push"} /\ UNCHANGED <<deq, is_close>>
      BY <1>1 DEF CallPush, PushWait
  <2>3. Takers' = Takers /\ At("empty")' = At("empty")
      BY <1>0, <2>1, <2>2 DEF Takers, At, TypeOK, Threads
  <2>4. QED
      BY <1>a, <2>2, <2>3
<1>2. ASSUME NEW p \in Producers, Push(p)
      PROVE  Len(deq)' <= n'
  <2>1. Len(deq)' = Len(deq) + 1 /\ is_close' = is_close /\ pc[p] = "push"
      BY <1>2, InsertTypes DEF Push
  <2>2. CASE At("empty") = {} /\ pc' = [pc EXCEPT ![p] = "idle"]
      BY <2>2 DEF At, TypeOK, Threads
  <2>3. ASSUME NEW w \in At("empty"), pc' = [pc EXCEPT ![p] = "idle", ![w] = "woken"]
        PROVE  Len(deq)' <= n'
    <3>1. w \in Threads /\ w # p /\ w \notin Takers /\ Takers' = Takers \cup {w}
        BY <2>1, <2>3 DEF At, Takers, TypeOK, Threads
    <3>2. n' = n + 1
        BY <1>0, <3>1, OneMore
    <3>3. QED
        BY <1>0, <1>a, <2>1, <3>2
  <2>4. QED
      BY <1>2, <2>2, <2>3 DEF Push, GoAndNotify
<1>3. ASSUME NEW c \in Consumers, CallPop(c)
      PROVE  Len(deq)' <= n'
  <2>1. /\ c \in Threads /\ c \notin Takers /\ Takers' = Takers \cup {c}
        /\ At("empty")' = At("empty")
      BY <1>3 DEF CallPop, Go, Takers, At, TypeOK, Threads
  <2>2. n' = n + 1 /\ UNCHANGED <<deq, is_close>>
      BY <1>0, <1>3, <2>1, OneMore DEF CallPop
  <2>3. QED
      BY <1>0, <1>a, <2>1, <2>2
<1>4. ASSUME NEW c \in Consumers, PopWait(c)
      PROVE  Len(deq)' <= n'
    BY <1>0, <1>4 DEF PopWait
<1>5. ASSUME NEW c \in Consumers, Pop(c)
      PROVE  Len(deq)' <= n'
  <2>1. /\ Len(deq)' = Len(deq) - 1 /\ is_close' = is_close
        /\ pc[c] \in {"pop", "woken"} /\ c \in Threads
      BY <1>5, RemoveTypes DEF Pop, Threads
  <2>2. c \in Takers /\ Takers' = Takers \ {c} /\ At("empty")' = At("empty")
    <3>1. CASE pc' = [pc EXCEPT ![c] = "idle"]
        BY <2>1, <3>1 DEF Takers, At, TypeOK
    <3>2. ASSUME NEW w \in At("full"), pc' = [pc EXCEPT ![c] = "idle", ![w] = "push"]
          PROVE  c \in Takers /\ Takers' = Takers \ {c} /\ At("empty")' = At("empty")
        BY <2>1, <3>2 DEF Takers, At, TypeOK
    <3>3. QED
        BY <1>5, <3>1, <3>2 DEF Pop, GoAndNotify
  <2>3. n' = n - 1
      BY <1>0, <2>2, OneLess
  <2>4. QED
      BY <1>0, <1>a, <2>1, <2>2, <2>3
<1>6. ASSUME NEW c \in Consumers, PopClosed(c) \/ PopTimeout(c)
      PROVE  Len(deq)' <= n'
    BY <1>6 DEF PopClosed, PopTimeout
<1>7. ASSUME NEW t \in Threads, Wake(t) \/ (Flush /\ pc[t] = "empty" /\ Go(t, "woken"))
      PROVE  Len(deq)' <= n'
  <2>0. UNCHANGED <<deq, is_close>>
      BY <1>7 DEF Wake, Flush
  <2>1. CASE pc[t] = "full"
    <3>1. Takers' = Takers /\ At("empty")' = At("empty")
        BY <1>7, <2>1 DEF Wake, Go, Takers, At, TypeOK
    <3>2. QED
        BY <1>a, <2>0, <3>1
  <2>2. CASE pc[t] = "empty"
    <3>1. t \notin Takers /\ Takers' = Takers \cup {t} /\ At("empty") # {}
        BY <1>7, <2>2 DEF Wake, Go, Takers, At, TypeOK
    <3>2. n' = n + 1
        BY <1>0, <3>1, OneMore
    <3>3. QED
        BY <1>0, <1>a, <2>0, <3>1, <3>2
  <2>3. QED
      BY <1>7, <2>1, <2>2 DEF Wake
<1>8. CASE Flush
    BY <1>7, <1>8 DEF Flush, At
<1>9. CASE Clear
    BY <1>0, <1>9 DEF Clear
<1>10. CASE Close
    BY <1>10 DEF Close
<1>11. CASE NotifyAllProducers
  <2>1. Takers' = Takers /\ At("empty")' = At("empty") /\ UNCHANGED <<deq, is_close>>
      BY <1>11 DEF NotifyAllProducers, Takers, At, TypeOK
  <2>2. QED
      BY <1>a, <2>1
<1>12. CASE NotifyAllConsumers
    BY <1>12 DEF NotifyAllConsumers, At
<1>13. CASE UNCHANGED vars
  <2>1. Takers' = Takers /\ At("empty")' = At("empty") /\ UNCHANGED <<deq, is_close>>
      BY <1>13 DEF vars, Takers, At
  <2>2. QED
      BY <1>a, <2>1
<1>14. QED
    BY <1>1, <1>2, <1>3, <1>4, <1>5, <1>6, <1>7, <1>8, <1>9, <1>10, <1>11, <1>12,
       <1>13 DEF Next, ProducerStep, ConsumerStep

(* The same on the other side: a pop is followed by a producer that wakes  *)
(* up, when there is one, and a producer falls asleep only beside a full   *)
(* queue.                                                                  *)
LEMMA ProducersStep ==
    TypeOK /\ ProducersWoken /\ [Next]_vars => ProducersWoken'
<1> SUFFICES ASSUME TypeOK, ProducersWoken, [Next]_vars,
                    "clear" \notin used', "producers" \notin closing', At("full")' # {}
             PROVE  Capacity - Len(deq)' <= Cardinality(Pushers)'
    BY DEF ProducersWoken, Pushers
<1> DEFINE n == Cardinality(Pushers)
<1>0. /\ Producers \cap Consumers = {} /\ Capacity \in Nat
      /\ Len(deq) \in Nat /\ Len(deq)' \in Nat
      /\ n \in Nat /\ n' \in Nat
      /\ Pushers \subseteq Threads
  <2>1. TypeOK'
      BY TypeStep
  <2>2. QED
      BY <2>1, Counted, CountedNext, BlockDequeAssumption
      DEF TypeOK, CountsAreNat, Pushers, At
<1>a. ASSUME "producers" \notin closing, At("full") # {}
      PROVE  Capacity - Len(deq) <= n
    BY <1>a, UsedGrows DEF ProducersWoken, Pushers
<1>1. ASSUME NEW p \in Producers, NEW x \in Items, CallPush(p, x)
      PROVE  Capacity - Len(deq)' <= n'
  <2>1. /\ p \in Threads /\ p \notin Pushers /\ Pushers' = Pushers \cup {p}
        /\ At("full")' = At("full")
      BY <1>1 DEF CallPush, Go, Pushers, At, TypeOK, Threads
  <2>2. n' = n + 1 /\ UNCHANGED <<deq, closing>>
      BY <1>0, <1>1, <2>1, OneMore DEF CallPush
  <2>3. QED
      BY <1>0, <1>a, <2>1, <2>2
<1>2. ASSUME NEW p \in Producers, PushWait(p)
      PROVE  Capacity - Len(deq)' <= n'
    BY <1>0, <1>2 DEF PushWait, HasRoom
<1>3. ASSUME NEW p \in Producers, Push(p)
      PROVE  Capacity - Len(deq)' <= n'
  <2>1. /\ Len(deq)' = Len(deq) + 1 /\ closing' = closing
        /\ pc[p] = "push" /\ p \in Threads
      BY <1>3, InsertTypes DEF Push, Threads
  <2>2. p \in Pushers /\ Pushers' = Pushers \ {p} /\ At("full")' = At("full")
    <3>1. CASE pc' = [pc EXCEPT ![p] = "idle"]
        BY <2>1, <3>1 DEF Pushers, At, TypeOK
    <3>2. ASSUME NEW w \in At("empty"), pc' = [pc EXCEPT ![p] = "idle", ![w] = "woken"]
          PROVE  p \in Pushers /\ Pushers' = Pushers \ {p} /\ At("full")' = At("full")
        BY <2>1, <3>2 DEF Pushers, At, TypeOK
    <3>3. QED
        BY <1>3, <3>1, <3>2 DEF Push, GoAndNotify
  <2>3. n' = n - 1
      BY <1>0, <2>2, OneLess
  <2>4. QED
      BY <1>0, <1>a, <2>1, <2>2, <2>3
<1>4. ASSUME NEW c \in Consumers, CallPop(c) \/ PopWait(c) \/ PopClosed(c) \/ PopTimeout(c)
      PROVE  Capacity - Len(deq)' <= n'
  <2>1. PICK l \in {"pop", "empty", "idle"} : pc' = [pc EXCEPT ![c] = l]
      BY <1>4 DEF CallPop, PopWait, PopClosed, PopTimeout, Go
  <2>2. pc[c] \in {"idle", "pop", "woken", "empty"} /\ UNCHANGED <<deq, closing>>
      BY <1>4 DEF CallPop, PopWait, PopClosed, PopTimeout, MayTake
  <2>3. Pushers' = Pushers /\ At("full")' = At("full")
      BY <2>1, <2>2 DEF Pushers, At, TypeOK, Threads
  <2>4. QED
      BY <1>a, <2>2, <2>3
<1>5. ASSUME NEW c \in Consumers, Pop(c)
      PROVE  Capacity - Len(deq)' <= n'
  <2>1. /\ Len(deq)' = Len(deq) - 1 /\ closing' = closing
        /\ pc[c] \in {"pop", "woken"}
      BY <1>5, RemoveTypes DEF Pop
  <2>2. CASE At("full") = {} /\ pc' = [pc EXCEPT ![c] = "idle"]
      BY <2>2 DEF At, TypeOK, Threads
  <2>3. ASSUME NEW w \in At("full"), pc' = [pc EXCEPT ![c] = "idle", ![w] = "push"]
        PROVE  Capacity - Len(deq)' <= n'
    <3>1. w \in Threads /\ w # c /\ w \notin Pushers /\ Pushers' = Pushers \cup {w}
        BY <2>1, <2>3 DEF At, Pushers, TypeOK, Threads
    <3>2. n' = n + 1
        BY <1>0, <3>1, OneMore
    <3>3. QED
        BY <1>0, <1>a, <2>1, <3>2
  <2>4. QED
      BY <1>5, <2>2, <2>3 DEF Pop, GoAndNotify
<1>6. ASSUME NEW t \in Threads, Wake(t)
      PROVE  Capacity - Len(deq)' <= n'
  <2>0. UNCHANGED <<deq, closing>>
      BY <1>6 DEF Wake
  <2>1. CASE pc[t] = "empty"
    <3>1. Pushers' = Pushers /\ At("full")' = At("full")
        BY <1>6, <2>1 DEF Wake, Go, Pushers, At, TypeOK
    <3>2. QED
        BY <1>a, <2>0, <3>1
  <2>2. CASE pc[t] = "full"
    <3>1. t \notin Pushers /\ Pushers' = Pushers \cup {t} /\ At("full") # {}
        BY <1>6, <2>2 DEF Wake, Go, Pushers, At, TypeOK
    <3>2. n' = n + 1
        BY <1>0, <3>1, OneMore
    <3>3. QED
        BY <1>0, <1>a, <2>0, <3>1, <3>2
  <2>3. QED
      BY <1>6, <2>1, <2>2 DEF Wake
<1>7. CASE Clear
    BY <1>7 DEF Clear
<1>8. CASE Flush
  <2>1. Pushers' = Pushers /\ At("full")' = At("full") /\ UNCHANGED <<deq, closing>>
      BY <1>8 DEF Flush, Go, Pushers, At, TypeOK
  <2>2. QED
      BY <1>a, <2>1
<1>9. CASE Close
    BY <1>9 DEF Close
<1>10. CASE NotifyAllProducers
    BY <1>10 DEF NotifyAllProducers, At
<1>11. CASE NotifyAllConsumers
  <2>1. Pushers' = Pushers /\ At("full")' = At("full") /\ deq' = deq
      BY <1>11 DEF NotifyAllConsumers, Pushers, At, TypeOK
  <2>2. "producers" \notin closing
      BY <1>11 DEF NotifyAllConsumers
  <2>3. QED
      BY <1>a, <2>1, <2>2
<1>12. CASE UNCHANGED vars
  <2>1. Pushers' = Pushers /\ At("full")' = At("full") /\ UNCHANGED <<deq, closing>>
      BY <1>12 DEF vars, Pushers, At
  <2>2. QED
      BY <1>a, <2>1
<1>13. QED
    BY <1>1, <1>2, <1>3, <1>4, <1>5, <1>6, <1>7, <1>8, <1>9, <1>10, <1>11, <1>12
    DEF Next, ProducerStep, ConsumerStep

-----------------------------------------------------------------------------
LEMMA InitIInv == Init => IInv
<1> SUFFICES ASSUME Init PROVE IInv
    OBVIOUS
<1>1. TypeOK
    BY TypeInit
<1>2. CapacityKept /\ FifoOrder
    BY BlockDequeAssumption DEF Init, CapacityKept, FifoOrder
<1>3. ConsumersWoken /\ ProducersWoken
    BY DEF Init, ConsumersWoken, ProducersWoken, At
<1>4. QED
    BY <1>1, <1>2, <1>3 DEF IInv

LEMMA NextIInv == IInv /\ [Next]_vars => IInv'
BY TypeStep, CapacityStep, FifoStep, ConsumersStep, ProducersStep DEF IInv

(* The inductive invariant holds in every reachable state. *)
THEOREM Invariance == Spec => []IInv
BY InitIInv, NextIInv, PTL DEF Spec

(* Type correctness of the queue, for any number of threads. *)
THEOREM TypeCorrect == Spec => []TypeOK
BY Invariance, PTL DEF IInv

(* Never more than _capacity items, whoever is woken.                      *)
THEOREM QueueIsBounded == Spec => []CapacityKept
BY Invariance, PTL DEF IInv

(* With push_back and pop only, items come out in the order they went in.  *)
THEOREM QueueIsFifo == Spec => []FifoOrder
BY Invariance, PTL DEF IInv

(* No wake-up of a consumer is lost, without timeouts and before a close.  *)
THEOREM QueueWakesConsumers == Spec => []ConsumersWoken
BY Invariance, PTL DEF IInv

(* No wake-up of a producer is lost, without clear().                      *)
THEOREM QueueWakesProducers == Spec => []ProducersWoken
BY Invariance, PTL DEF IInv

-----------------------------------------------------------------------------
(* What the items have in common with the queue: nothing is in two places. *)
ItemsApart ==
    /\ \A p \in Producers : item[p] \cap Elements(pushed) = {}
    /\ \A p, q \in Producers : p # q => item[p] \cap item[q] = {}

QueueApart ==
    /\ \A i, j \in DOMAIN deq : deq[i] = deq[j] => i = j
    /\ Elements(deq) \cap dropped = {}

Apart == ItemsApart /\ QueueApart /\ IsFiniteSet(dropped)

(* The elements of a sequence that grows or shrinks by one.                *)
LEMMA ElementsOfAppend ==
    ASSUME NEW S, NEW s \in Seq(S), NEW x \in S
    PROVE  /\ Elements(Append(s, x)) = Elements(s) \cup {x}
           /\ Len(Append(s, x)) = Len(s) + 1
<1> DEFINE t == Append(s, x)
<1>1. /\ DOMAIN t = 1 .. Len(s) + 1 /\ t[Len(s) + 1] = x
      /\ DOMAIN s = 1 .. Len(s) /\ Len(s) \in Nat /\ Len(t) = Len(s) + 1
      /\ \A i \in DOMAIN s : t[i] = s[i]
    OBVIOUS
<1> HIDE DEF t
<1>2. Elements(t) = Elements(s) \cup {x}
    BY <1>1 DEF Elements
<1>3. QED
    BY <1>1, <1>2 DEF t

LEMMA ElementsOfCons ==
    ASSUME NEW S, NEW s \in Seq(S), NEW x \in S
    PROVE  /\ Elements(<<x>> \o s) = Elements(s) \cup {x}
           /\ Len(<<x>> \o s) = Len(s) + 1
<1> DEFINE t == <<x>> \o s
<1>1. /\ DOMAIN t = 1 .. Len(s) + 1 /\ t[1] = x
      /\ DOMAIN s = 1 .. Len(s) /\ Len(s) \in Nat /\ Len(t) = Len(s) + 1
      /\ \A i \in DOMAIN s : t[i + 1] = s[i]
    OBVIOUS
<1>2. \A i \in 1 .. Len(s) + 1 : i = 1 \/ i - 1 \in 1 .. Len(s)
    BY <1>1
<1> HIDE DEF t
<1>3. \A i \in DOMAIN t : t[i] = x \/ t[i] \in Elements(s)
    <2>1. \A i \in DOMAIN t : i # 1 => t[i] = s[i - 1] /\ i - 1 \in DOMAIN s
        BY <1>1, <1>2
    <2>2. QED
        BY <1>1, <2>1 DEF Elements
<1>4. \A i \in DOMAIN s : s[i] \in Elements(t)
    BY <1>1 DEF Elements
<1>5. x \in Elements(t)
    BY <1>1 DEF Elements
<1>6. Elements(t) = Elements(s) \cup {x}
    BY <1>3, <1>4, <1>5 DEF Elements
<1>7. QED
    BY <1>1, <1>6 DEF t

LEMMA ElementsOfTail ==
    ASSUME NEW S, NEW s \in Seq(S), s # <<>>
    PROVE  /\ Elements(s) = Elements(Tail(s)) \cup {Head(s)}
           /\ Len(Tail(s)) = Len(s) - 1 /\ Tail(s) \in Seq(S) /\ Head(s) \in S
           /\ \A i \in DOMAIN Tail(s) : i + 1 \in DOMAIN s /\ Tail(s)[i] = s[i + 1]
<1>1. /\ DOMAIN s = 1 .. Len(s) /\ Len(s) \in Nat /\ Len(s) > 0
      /\ Head(s) = s[1] /\ Tail(s) \in Seq(S) /\ Len(Tail(s)) = Len(s) - 1
    OBVIOUS
<1>2. DOMAIN Tail(s) = 1 .. Len(s) - 1
    BY <1>1
<1>3. \A i \in DOMAIN Tail(s) : i + 1 \in DOMAIN s /\ Tail(s)[i] = s[i + 1]
    <2>1. \A i \in 1 .. Len(s) - 1 : Tail(s)[i] = s[i + 1]
        OBVIOUS
    <2>2. QED
        BY <1>1, <1>2, <2>1
<1>4. Head(s) \in S
    BY <1>1
<1>5. Elements(s) \subseteq Elements(Tail(s)) \cup {Head(s)}
    <2>1. SUFFICES ASSUME NEW i \in DOMAIN s, i # 1
                   PROVE  s[i] \in Elements(Tail(s))
        BY <1>1 DEF Elements
    <2>2. i - 1 \in DOMAIN Tail(s) /\ (i - 1) + 1 = i
        BY <1>1, <1>2, <2>1
    <2>3. Tail(s)[i - 1] = s[i]
        BY <1>3, <2>2
    <2>4. QED
        BY <2>2, <2>3 DEF Elements
<1>6. Elements(Tail(s)) \cup {Head(s)} \subseteq Elements(s)
    <2>1. 1 \in DOMAIN s
        BY <1>1
    <2>2. QED
        BY <1>1, <1>3, <2>1 DEF Elements
<1>7. QED
    BY <1>1, <1>3, <1>4, <1>5, <1>6

(* An injective sequence has as many elements as places.                   *)
LEMMA ElementsCounted ==
    ASSUME NEW S, NEW s \in Seq(S), \A i, j \in DOMAIN s : s[i] = s[j] => i = j
    PROVE  IsFiniteSet(Elements(s)) /\ Cardinality(Elements(s)) = Len(s)
<1>1. DOMAIN s = 1 .. Len(s) /\ Len(s) \in Nat /\ s \in [1 .. Len(s) -> S]
    OBVIOUS
<1>2. s \in [1 .. Len(s) -> Elements(s)]
    BY <1>1 DEF Elements
<1>3. s \in Surjection(1 .. Len(s), Elements(s))
    BY <1>1, <1>2 DEF Surjection, Elements
<1>4. s \in Injection(1 .. Len(s), Elements(s))
    BY <1>1, <1>2 DEF Injection, IsInjective
<1>5. IsFiniteSet(1 .. Len(s)) /\ Cardinality(1 .. Len(s)) = Len(s)
    BY <1>1, FS_Interval
<1>6. QED
    BY <1>3, <1>4, <1>5, FS_Surjection

LEMMA ApartInit == Init => Apart /\ Conserved
<1> SUFFICES ASSUME Init PROVE Apart /\ Conserved
    OBVIOUS
<1>1. deq = <<>> /\ pushed = <<>> /\ popped = <<>> /\ dropped = {}
    BY DEF Init
<1>2. Elements(<<>>) = {} /\ Len(<<>>) = 0
    BY DEF Elements
<1>3. IsFiniteSet({}) /\ Cardinality({}) = 0
    BY FS_EmptySet
<1>4. Conserved
    BY <1>1, <1>2, <1>3 DEF Conserved
<1>5. ItemsApart /\ QueueApart
    BY <1>1, <1>2 DEF Init, ItemsApart, QueueApart
<1>6. QED
    BY <1>1, <1>3, <1>4, <1>5 DEF Apart

(* An item nobody has begun to push is begun. *)
LEMMA ApartCalled ==
    ASSUME TypeOK, Apart, Conserved, NEW p \in Producers, NEW x \in Items, CallPush(p, x)
    PROVE  Apart' /\ Conserved'
<1>1. /\ x \in Fresh /\ item' = [item EXCEPT ![p] = {x}]
      /\ UNCHANGED <<deq, pushed, popped, dropped>>
    BY DEF CallPush
<1>2. x \notin Elements(pushed) /\ \A q \in Producers : x \notin item[q]
    BY <1>1 DEF Fresh
<1>3. \A q \in Producers : item'[q] = IF q = p THEN {x} ELSE item[q]
    BY <1>1 DEF TypeOK
<1>4. ItemsApart'
    BY <1>1, <1>2, <1>3 DEF Apart, ItemsApart
<1>5. QED
    BY <1>1, <1>4 DEF Apart, QueueApart, Conserved

LEMMA ApartPushed ==
    ASSUME TypeOK, Apart, Conserved, NEW p \in Producers, Insert(p)
    PROVE  Apart' /\ Conserved'
<1>1. PICK x \in item[p], front \in BOOLEAN :
          deq' = Inserted(x, front) /\ pushed' = Append(pushed, x)
    BY DEF Insert
<1>2. item' = [item EXCEPT ![p] = {}] /\ UNCHANGED <<popped, dropped>>
    BY DEF Insert
<1>3. x \in Items /\ deq \in Seq(Items) /\ pushed \in Seq(Items)
    BY DEF TypeOK
<1>4. Elements(pushed') = Elements(pushed) \cup {x} /\ Len(pushed') = Len(pushed) + 1
    BY <1>1, <1>3, ElementsOfAppend
<1>5. Elements(deq') = Elements(deq) \cup {x} /\ Len(deq') = Len(deq) + 1
    BY <1>1, <1>3, ElementsOfAppend, ElementsOfCons DEF Inserted
<1>6. x \notin Elements(pushed)
    BY DEF Apart, ItemsApart
<1>7. x \notin Elements(deq) /\ x \notin dropped
    BY <1>6 DEF Conserved
<1>8. Conserved'
    <2>1. /\ Len(deq) \in Nat /\ Len(popped) \in Nat /\ Len(pushed) \in Nat
          /\ Cardinality(dropped) \in Nat
        BY FS_CardinalityType DEF TypeOK, Apart
    <2>2. QED
        BY <1>2, <1>4, <1>5, <2>1 DEF Conserved
<1>9. ItemsApart'
    <2>1. \A q \in Producers : item'[q] = IF q = p THEN {} ELSE item[q]
        BY <1>2 DEF TypeOK
    <2>2. QED
        BY <1>4, <2>1 DEF Apart, ItemsApart
<1>10. QueueApart'
    <2>1. \A i, j \in DOMAIN deq : deq[i] = deq[j] => i = j
        BY DEF Apart, QueueApart
    <2>2. \A i \in DOMAIN deq : deq[i] # x
        BY <1>7 DEF Elements
    <2>3. CASE front
        <3>1. deq' = <<x>> \o deq
            BY <1>1, <2>3 DEF Inserted
        <3>2. /\ DOMAIN deq' = 1 .. Len(deq) + 1 /\ deq'[1] = x
              /\ Len(deq) \in Nat /\ DOMAIN deq = 1 .. Len(deq)
              /\ \A i \in DOMAIN deq' : i # 1 => i - 1 \in DOMAIN deq /\ deq'[i] = deq[i - 1]
            BY <1>3, <3>1
        <3>3. ASSUME NEW i \in DOMAIN deq', NEW j \in DOMAIN deq', deq'[i] = deq'[j]
              PROVE  i = j
            <4>1. CASE i # 1 /\ j # 1
                <5>1. i - 1 = j - 1
                    BY <2>1, <3>2, <3>3, <4>1
                <5>2. QED
                    BY <3>2, <5>1
            <4>2. QED
                BY <2>2, <3>2, <3>3, <4>1
        <3>4. QED
            BY <1>2, <1>5, <1>7, <3>3 DEF Apart, QueueApart
    <2>4. CASE ~front
        <3>1. deq' = Append(deq, x)
            BY <1>1, <2>4 DEF Inserted
        <3>2. /\ DOMAIN deq' = 1 .. Len(deq) + 1 /\ deq'[Len(deq) + 1] = x
              /\ Len(deq) \in Nat /\ DOMAIN deq = 1 .. Len(deq)
              /\ \A i \in DOMAIN deq' :
                     i # Len(deq) + 1 => i \in DOMAIN deq /\ deq'[i] = deq[i]
            BY <1>3, <3>1
        <3>3. ASSUME NEW i \in DOMAIN deq', NEW j \in DOMAIN deq', deq'[i] = deq'[j]
              PROVE  i = j
            BY <2>1, <2>2, <3>2, <3>3
        <3>4. QED
            BY <1>2, <1>5, <1>7, <3>3 DEF Apart, QueueApart
    <2>5. QED
        BY <2>3, <2>4
<1>11. QED
    BY <1>2, <1>8, <1>9, <1>10 DEF Apart

LEMMA ApartPopped ==
    ASSUME TypeOK, Apart, Conserved, NEW c \in Consumers, Remove(c)
    PROVE  Apart' /\ Conserved'
<1>1. /\ deq # <<>> /\ deq' = Tail(deq) /\ popped' = Append(popped, Head(deq))
      /\ UNCHANGED <<item, pushed, dropped>>
    BY DEF Remove
<1>2. deq \in Seq(Items) /\ popped \in Seq(Items) /\ pushed \in Seq(Items)
    BY DEF TypeOK
<1>3. /\ Elements(deq) = Elements(deq') \cup {Head(deq)}
      /\ Len(deq') = Len(deq) - 1 /\ Head(deq) \in Items
      /\ \A i \in DOMAIN deq' : i + 1 \in DOMAIN deq /\ deq'[i] = deq[i + 1]
    BY <1>1, <1>2, ElementsOfTail
<1>4. /\ Elements(popped') = Elements(popped) \cup {Head(deq)}
      /\ Len(popped') = Len(popped) + 1
    BY <1>1, <1>2, <1>3, ElementsOfAppend
<1>5. Conserved'
    <2>1. /\ Len(deq) \in Nat /\ Len(popped) \in Nat /\ Len(pushed) \in Nat
          /\ Cardinality(dropped) \in Nat
        BY <1>2, FS_CardinalityType DEF Apart
    <2>2. QED
        BY <1>1, <1>3, <1>4, <2>1 DEF Conserved
<1>6. QueueApart'
    <2>1. DOMAIN deq' \subseteq Int
        BY <1>1, <1>2
    <2>2. \A i, j \in DOMAIN deq' : deq'[i] = deq'[j] => i + 1 = j + 1
        BY <1>3 DEF Apart, QueueApart
    <2>3. \A i, j \in DOMAIN deq' : deq'[i] = deq'[j] => i = j
        BY <2>1, <2>2
    <2>4. QED
        BY <1>1, <1>3, <2>3 DEF Apart, QueueApart
<1>7. QED
    BY <1>1, <1>5, <1>6 DEF Apart, ItemsApart

(* clear() and close(): what was in the queue is thrown away.              *)
LEMMA ApartDropped ==
    ASSUME TypeOK, Apart, Conserved, deq' = <<>>,
           dropped' = dropped \cup Elements(deq), UNCHANGED <<item, pushed, popped>>
    PROVE  Apart' /\ Conserved'
<1>1. IsFiniteSet(Elements(deq)) /\ Cardinality(Elements(deq)) = Len(deq)
    BY ElementsCounted DEF TypeOK, Apart, QueueApart
<1>2. Elements(deq) \cap dropped = {} /\ IsFiniteSet(dropped)
    BY DEF Apart, QueueApart
<1>3. /\ IsFiniteSet(dropped')
      /\ Cardinality(dropped') = Cardinality(dropped) + Cardinality(Elements(deq))
    <2>1. Cardinality(dropped \cap Elements(deq)) = 0
        BY <1>2, FS_EmptySet
    <2>2. Cardinality(dropped) \in Nat /\ Cardinality(Elements(deq)) \in Nat
        BY <1>1, <1>2, FS_CardinalityType
    <2>3. /\ IsFiniteSet(dropped \cup Elements(deq))
          /\ Cardinality(dropped \cup Elements(deq))
               = Cardinality(dropped) + Cardinality(Elements(deq))
                 - Cardinality(dropped \cap Elements(deq))
        BY <1>1, <1>2, FS_Union
    <2>4. dropped' = dropped \cup Elements(deq)
        OBVIOUS
    <2>5. QED
        BY <2>1, <2>2, <2>3, <2>4
<1>4. Elements(deq') = {} /\ Len(deq') = 0 /\ DOMAIN deq' = {}
    <2>1. deq' = <<>> /\ Len(<<>>) = 0 /\ DOMAIN <<>> = {}
        OBVIOUS
    <2>2. QED
        BY <2>1 DEF Elements
<1>5. Conserved'
    <2>1. /\ Len(deq) \in Nat /\ Len(popped) \in Nat /\ Cardinality(dropped) \in Nat
        BY <1>2, FS_CardinalityType DEF TypeOK
    <2>2. QED
        BY <1>1, <1>3, <1>4, <2>1 DEF Conserved
<1>6. QED
    BY <1>3, <1>4, <1>5 DEF Apart, ItemsApart, QueueApart

LEMMA ApartStep == TypeOK /\ Apart /\ Conserved /\ [Next]_vars => Apart' /\ Conserved'
<1> SUFFICES ASSUME TypeOK, Apart, Conserved, [Next]_vars
             PROVE  Apart' /\ Conserved'
    OBVIOUS
<1>1. ASSUME UNCHANGED <<deq, item, pushed, popped, dropped>>
      PROVE  Apart' /\ Conserved'
    BY <1>1 DEF Apart, ItemsApart, QueueApart, Conserved
<1>2. ASSUME Clear \/ Close
      PROVE  Apart' /\ Conserved'
    BY <1>2, ApartDropped DEF Clear, Close
<1>3. QED
    BY <1>1, <1>2, ApartCalled, ApartPushed, ApartPopped
       DEF Next, ProducerStep, ConsumerStep, Push, Pop, PushWait, CallPop, PopWait,
           PopClosed, PopTimeout, Wake, Flush, NotifyAllProducers,
           NotifyAllConsumers, vars

(* Every item that was pushed is in the queue, was popped or was thrown    *)
(* away, and one of the three only, under every use of the queue           *)
(* (block_queue.h:55, 70, 103, 138-139).                                   *)
THEOREM QueueConserves == Spec => []Conserved
<1>1. Init => TypeOK /\ Apart /\ Conserved
    BY TypeInit, ApartInit
<1>2. TypeOK /\ Apart /\ Conserved /\ [Next]_vars => (TypeOK /\ Apart /\ Conserved)'
    BY TypeStep, ApartStep
<1>3. QED
    BY <1>1, <1>2, PTL DEF Spec
=============================================================================
