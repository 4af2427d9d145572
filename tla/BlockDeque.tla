----------------------------- MODULE BlockDeque -----------------------------
(***************************************************************************)
(* The blocking queue of include/common/block_queue.h: a deque of bounded  *)
(* size, one mutex, a condition variable for consumers and one for         *)
(* producers.  What a thread does between taking the mutex and giving it   *)
(* up, by unlock or wait, is one step; push and pop notify while they hold *)
(* the mutex, close notifies after it.  empty, full, size, capacity, front *)
(* and back change nothing.                                                *)
(*                                                                         *)
(* A wait may end without a notification, and wait_for may report a        *)
(* timeout to a thread that was notified: it goes by the clock when it has *)
(* the mutex again.                                                        *)
(***************************************************************************)
EXTENDS Integers, Sequences, FiniteSets

CONSTANTS Producers, Consumers,   \* the threads that push and that pop
          Items,                  \* what is pushed, each item once
          Capacity,               \* _capacity
          Uses                    \* the other operations that may be used

Operations == {"push_front", "pop_timeout", "clear", "close", "flush"}

ASSUME BlockDequeAssumption ==
    /\ IsFiniteSet(Producers) /\ IsFiniteSet(Consumers)
    /\ Producers \cap Consumers = {}
    /\ Capacity \in Nat \ {0}                   \* assert(MaxCapacity > 0)
    /\ Uses \subseteq Operations

VARIABLES deq,        \* _deq
          is_close,   \* _is_close
          pc,         \* where each thread is
          item,       \* what each producer is pushing
          closing,    \* the notify_alls that close() has still to make
          pushed,     \* history: the items in the order of their insertion
          popped,     \* history: the items in the order of their removal
          dropped,    \* history: the items clear() and close() threw away
          used        \* history: which of push_front, clear and a pop that
                      \* timed out have happened

vars == <<deq, is_close, pc, item, closing, pushed, popped, dropped, used>>

Threads == Producers \cup Consumers
Elements(s) == {s[i] : i \in DOMAIN s}

(* "idle"    outside the queue                                             *)
(* "push"    in push_back or push_front, on the way to the mutex           *)
(* "full"    in _cond_producer.wait                                        *)
(* "pop"     in pop, on the way to the mutex                               *)
(* "empty"   in _cond_consumer.wait or wait_for                            *)
(* "woken"   back from that wait, on the way to the mutex                  *)
At(label) == {t \in Threads : pc[t] = label}

Init ==
    /\ deq = <<>>
    /\ is_close = FALSE
    /\ pc = [t \in Threads |-> "idle"]
    /\ item = [p \in Producers |-> {}]
    /\ closing = {}
    /\ pushed = <<>>
    /\ popped = <<>>
    /\ dropped = {}
    /\ used = {}

(* The thread t goes to label, and one waiter at another label is notified, *)
(* if there is one.                                                         *)
GoAndNotify(t, label, from, to) ==
    \/ \E w \in At(from) : pc' = [pc EXCEPT ![t] = label, ![w] = to]
    \/ At(from) = {} /\ pc' = [pc EXCEPT ![t] = label]

Go(t, label) == pc' = [pc EXCEPT ![t] = label]

-----------------------------------------------------------------------------
(* push_back and push_front *)

(* Items that nobody has begun to push. *)
Fresh == Items \ (Elements(pushed) \cup UNION {item[q] : q \in Producers})

(* One item is as good as another, so the next one is pushed.              *)
CallPush(p, x) ==
    /\ pc[p] = "idle"
    /\ Fresh # {} /\ x = CHOOSE y \in Fresh : TRUE
    /\ item' = [item EXCEPT ![p] = {x}]
    /\ Go(p, "push")
    /\ UNCHANGED <<deq, is_close, closing, pushed, popped, dropped, used>>

(* Mutants: one item too many; push_back and push_front exchanged.         *)
HasRoomOrOneMore == Len(deq) <= Capacity

InsertedSwapped(x, front) == IF front THEN Append(deq, x) ELSE <<x>> \o deq

HasRoom == Len(deq) < Capacity

PushWait(p) ==
    /\ pc[p] = "push"
    /\ ~HasRoom
    /\ Go(p, "full")
    /\ UNCHANGED <<deq, is_close, item, closing, pushed, popped, dropped, used>>

Inserted(x, front) == IF front THEN <<x>> \o deq ELSE Append(deq, x)

Insert(p) ==
    /\ pc[p] = "push"
    /\ HasRoom
    /\ \E x \in item[p], front \in BOOLEAN :
        /\ front => "push_front" \in Uses
        /\ deq' = Inserted(x, front)
        /\ pushed' = Append(pushed, x)
        /\ used' = IF front THEN used \cup {"push_front"} ELSE used
    /\ item' = [item EXCEPT ![p] = {}]
    /\ UNCHANGED <<is_close, closing, popped, dropped>>

(* Mutants: a notification only when the queue was empty; the producers    *)
(* are notified.                                                           *)
PushNotifiesIfEmpty(p) ==
    /\ Insert(p)
    /\ IF deq = <<>> THEN GoAndNotify(p, "idle", "empty", "woken") ELSE Go(p, "idle")

PushNotifiesProducers(p) == Insert(p) /\ GoAndNotify(p, "idle", "full", "push")

Push(p) == Insert(p) /\ GoAndNotify(p, "idle", "empty", "woken")

-----------------------------------------------------------------------------
(* pop, without and with a timeout *)

CallPop(c) ==
    /\ pc[c] = "idle"
    /\ Go(c, "pop")
    /\ UNCHANGED <<deq, is_close, item, closing, pushed, popped, dropped, used>>

(* _is_close is looked at after a wait only. *)
MayTake(c) == pc[c] = "pop" \/ (pc[c] = "woken" /\ ~is_close)

PopWait(c) ==
    /\ MayTake(c)
    /\ deq = <<>>
    /\ Go(c, "empty")
    /\ UNCHANGED <<deq, is_close, item, closing, pushed, popped, dropped, used>>

Remove(c) ==
    /\ MayTake(c)
    /\ deq # <<>>
    /\ deq' = Tail(deq)
    /\ popped' = Append(popped, Head(deq))
    /\ UNCHANGED <<is_close, item, closing, pushed, dropped, used>>

(* Mutants: the item is read but not removed; the consumers are notified.  *)
PopFront(c) ==
    /\ MayTake(c)
    /\ deq # <<>>
    /\ popped' = Append(popped, Head(deq))
    /\ GoAndNotify(c, "idle", "full", "push")
    /\ UNCHANGED <<deq, is_close, item, closing, pushed, dropped, used>>

PopNotifiesConsumers(c) == Remove(c) /\ GoAndNotify(c, "idle", "empty", "woken")

Pop(c) == Remove(c) /\ GoAndNotify(c, "idle", "full", "push")

(* pop returns false *)
PopClosed(c) ==
    /\ pc[c] = "woken"
    /\ is_close
    /\ Go(c, "idle")
    /\ UNCHANGED <<deq, is_close, item, closing, pushed, popped, dropped, used>>

PopTimeout(c) ==
    /\ "pop_timeout" \in Uses
    /\ pc[c] \in {"empty", "woken"}
    /\ Go(c, "idle")
    /\ used' = used \cup {"pop_timeout"}
    /\ UNCHANGED <<deq, is_close, item, closing, pushed, popped, dropped>>

(* A wait ends by itself. *)
Wake(t) ==
    /\ pc[t] \in {"full", "empty"}
    /\ Go(t, IF pc[t] = "full" THEN "push" ELSE "woken")
    /\ UNCHANGED <<deq, is_close, item, closing, pushed, popped, dropped, used>>

-----------------------------------------------------------------------------
(* clear, flush and close, by any other thread; the destructor closes       *)
(* again.  One thread at a time closes.                                     *)

Clear ==
    /\ "clear" \in Uses
    /\ deq # <<>>
    /\ deq' = <<>>
    /\ dropped' = dropped \cup Elements(deq)
    /\ used' = used \cup {"clear"}
    /\ UNCHANGED <<is_close, pc, item, closing, pushed, popped>>

Flush ==
    /\ "flush" \in Uses
    /\ \E c \in At("empty") : Go(c, "woken")
    /\ UNCHANGED <<deq, is_close, item, closing, pushed, popped, dropped, used>>

Close ==
    /\ "close" \in Uses
    /\ closing = {}
    /\ is_close' = TRUE
    /\ deq' = <<>>
    /\ dropped' = dropped \cup Elements(deq)
    /\ closing' = {"producers", "consumers"}
    /\ UNCHANGED <<pc, item, pushed, popped, used>>

NotifyAllProducers ==
    /\ "producers" \in closing
    /\ closing' = closing \ {"producers"}
    /\ pc' = [t \in Threads |-> IF pc[t] = "full" THEN "push" ELSE pc[t]]
    /\ UNCHANGED <<deq, is_close, item, pushed, popped, dropped, used>>

(* Mutant: notify_one instead of notify_all. *)
NotifyOneConsumer ==
    /\ closing = {"consumers"}
    /\ closing' = {}
    /\ \/ \E c \in At("empty") : Go(c, "woken")
       \/ At("empty") = {} /\ UNCHANGED pc
    /\ UNCHANGED <<deq, is_close, item, pushed, popped, dropped, used>>

NotifyAllConsumers ==
    /\ closing = {"consumers"}
    /\ closing' = {}
    /\ pc' = [t \in Threads |-> IF pc[t] = "empty" THEN "woken" ELSE pc[t]]
    /\ UNCHANGED <<deq, is_close, item, pushed, popped, dropped, used>>

-----------------------------------------------------------------------------
ProducerStep(p) == PushWait(p) \/ Push(p)
ConsumerStep(c) == PopWait(c) \/ Pop(c) \/ PopClosed(c)

Next ==
    \/ \E p \in Producers : ProducerStep(p) \/ \E x \in Items : CallPush(p, x)
    \/ \E c \in Consumers : ConsumerStep(c) \/ CallPop(c) \/ PopTimeout(c)
    \/ \E t \in Threads : Wake(t)
    \/ Clear \/ Flush \/ Close \/ NotifyAllProducers \/ NotifyAllConsumers

Spec == Init /\ [][Next]_vars

(* A thread that is not waiting runs, and a consumer comes back for more,  *)
(* as the loop of Log::async_write_log does.  Nobody has to push or to     *)
(* close, and no wait ends by itself.                                      *)
Fairness ==
    /\ \A p \in Producers : WF_vars(ProducerStep(p))
    /\ \A c \in Consumers : WF_vars(ConsumerStep(c) \/ CallPop(c))
    /\ WF_vars(NotifyAllProducers \/ NotifyAllConsumers)

FairSpec == Spec /\ Fairness
-----------------------------------------------------------------------------
TypeOK ==
    /\ deq \in Seq(Items)
    /\ is_close \in BOOLEAN
    /\ pc \in [Threads -> {"idle", "push", "full", "pop", "empty", "woken"}]
    /\ \A p \in Producers : pc[p] \in {"idle", "push", "full"}
    /\ \A c \in Consumers : pc[c] \in {"idle", "pop", "empty", "woken"}
    /\ item \in [Producers -> SUBSET Items]
    /\ \A p \in Producers : pc[p] # "idle" <=> item[p] # {}
    /\ closing \subseteq {"producers", "consumers"}
    /\ pushed \in Seq(Items)
    /\ popped \in Seq(Items)
    /\ dropped \subseteq Items
    /\ used \subseteq Operations

(* Never more than _capacity items, whatever producers a pop, a close or   *)
(* nothing at all wakes at the same time (block_queue.h:100-103).          *)
CapacityKept == Len(deq) <= Capacity

(* Every item that was pushed is in the queue, was popped or was thrown    *)
(* away, and only one of the three: no item is delivered twice and none    *)
(* vanishes (block_queue.h:55, 70, 103, 138-139).                          *)
Conserved ==
    /\ Len(pushed) = Len(deq) + Len(popped) + Cardinality(dropped)
    /\ Elements(pushed) = Elements(deq) \cup Elements(popped) \cup dropped

(* While only push_back and pop have been used, items come out in the order *)
(* in which they went in, and no item is skipped (block_queue.h:103, 138). *)
FifoOrder ==
    "push_front" \notin used /\ dropped = {} => pushed = popped \o deq

(* No wake-up of a consumer is lost: while one sleeps, every item has      *)
(* another consumer on its way.  Not so with timeouts, whose consumer may  *)
(* swallow a notification, nor after a close, when a woken consumer leaves *)
(* without its item (block_queue.h:104, 133-136, 148-151).                 *)
ConsumersWoken ==
    "pop_timeout" \notin used /\ ~is_close /\ At("empty") # {}
        => Len(deq) <= Cardinality(At("pop") \cup At("woken"))

(* No wake-up of a producer is lost: while one sleeps, every free place    *)
(* has another producer on its way.  Not so with clear(), which notifies   *)
(* nobody (block_queue.h:69-70, 101, 140).                                 *)
ProducersWoken ==
    "clear" \notin used /\ "producers" \notin closing /\ At("full") # {}
        => Capacity - Len(deq) <= Cardinality(At("push"))

(* What a thread has begun to push is popped in the end, while the queue   *)
(* is used as Log uses it: with flush, but with no timeout, no clear and   *)
(* no close.                                                               *)
EveryItemIsPopped ==
    \A x \in Items :
        (\E p \in Producers : x \in item[p])
            ~> x \in Elements(popped) \/ is_close \/ used # {}

(* close() releases every thread it finds waiting.                         *)
CloseReleases ==
    \A t \in Threads :
        is_close /\ closing = {"producers", "consumers"} /\ pc[t] \in {"full", "empty"}
            ~> pc[t] \notin {"full", "empty"}
=============================================================================
