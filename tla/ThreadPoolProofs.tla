-------------------------- MODULE ThreadPoolProofs --------------------------
(***************************************************************************)
(* The safety properties of the thread pool hold for every set of workers  *)
(* and every set of tasks.                                                 *)
(***************************************************************************)
EXTENDS ThreadPool, FiniteSetTheorems, TLAPS

(* What the safety properties need to be inductive: who still has to       *)
(* notify has pushed its task, and the destructor comes after them all.    *)
Lifetime ==
    /\ notifying \subseteq Elements(submitted)
    /\ is_closed <=> closer # "open"
    /\ is_closed => notifying = {}

IInv ==
    /\ TypeOK
    /\ Lifetime
    /\ StartedInOrder
    /\ WorkConserving
    /\ CloseDrains

-----------------------------------------------------------------------------
(* Moving the head of the second part to the end of the first part leaves  *)
(* the concatenation as it was.                                            *)
LEMMA MoveHead ==
    ASSUME NEW S, NEW s \in Seq(S), NEW u \in Seq(S), u # <<>>
    PROVE  Append(s, Head(u)) \o Tail(u) = s \o u
OBVIOUS

(* Appending adds the element to the set of elements. *)
LEMMA ElementsAppend ==
    ASSUME NEW S, NEW s \in Seq(S), NEW e \in S
    PROVE  Elements(Append(s, e)) = Elements(s) \cup {e}
<1>1. /\ DOMAIN Append(s, e) = 1 .. Len(s) + 1
      /\ DOMAIN s = 1 .. Len(s)
      /\ Append(s, e)[Len(s) + 1] = e
      /\ \A i \in 1 .. Len(s) : Append(s, e)[i] = s[i]
    OBVIOUS
<1>2. QED
    BY <1>1 DEF Elements

(* The sets that are counted are finite. *)
CountsAreFinite ==
    /\ IsFiniteSet(Awake) /\ Cardinality(Awake) \in Nat
    /\ IsFiniteSet(notifying) /\ Cardinality(notifying) \in Nat

LEMMA CountedFinite == TypeOK => CountsAreFinite
<1> SUFFICES ASSUME TypeOK
             PROVE  CountsAreFinite
    OBVIOUS
<1>1. Awake \in SUBSET Workers /\ notifying \in SUBSET Tasks
    BY DEF Awake, TypeOK
<1>2. IsFiniteSet(Awake) /\ IsFiniteSet(notifying)
    BY <1>1, FS_Subset, ThreadPoolAssumption
<1>3. QED
    BY <1>2, FS_CardinalityType DEF CountsAreFinite

LEMMA CountedFiniteNext == TypeOK' => CountsAreFinite'
BY CountedFinite, PTL

-----------------------------------------------------------------------------
LEMMA TypeInit == Init => TypeOK
<1>1. <<>> \in Seq(Tasks)
    OBVIOUS
<1>2. QED
    BY <1>1 DEF Init, TypeOK

LEMMA TypeStep == TypeOK /\ [Next]_vars => TypeOK'
<1> SUFFICES ASSUME TypeOK, [Next]_vars
             PROVE  TypeOK'
    OBVIOUS
<1> USE DEF TypeOK
<1>1. ASSUME NEW t \in Tasks, AddTask(t)
      PROVE  TypeOK'
    BY <1>1 DEF AddTask, Pushing
<1>2. ASSUME NEW t \in Tasks, NotifyOne(t)
      PROVE  TypeOK'
    BY <1>2 DEF NotifyOne, Waiting
<1>3. CASE Close
    BY <1>3 DEF Close
<1>4. CASE NotifyAll
    BY <1>4 DEF NotifyAll
<1>5. ASSUME NEW w \in Workers, Take(w)
      PROVE  TypeOK'
  <2>1. Head(tasks) \in Tasks /\ Tail(tasks) \in Seq(Tasks)
      BY <1>5 DEF Take
  <2>2. QED
      BY <1>5, <2>1 DEF Take
<1>6. ASSUME NEW w \in Workers, Finish(w) \/ Exit(w) \/ Wait(w) \/ WakeUp(w)
      PROVE  TypeOK'
    BY <1>6 DEF Finish, Exit, Wait, WakeUp
<1>7. CASE UNCHANGED vars
    BY <1>7 DEF vars
<1>8. QED
    BY <1>1, <1>2, <1>3, <1>4, <1>5, <1>6, <1>7 DEF Next, WorkerStep

LEMMA LifetimeStep == TypeOK /\ Lifetime /\ [Next]_vars => Lifetime'
<1> SUFFICES ASSUME TypeOK, Lifetime, [Next]_vars
             PROVE  Lifetime'
    OBVIOUS
<1> USE DEF Lifetime
<1>1. ASSUME NEW t \in Tasks, AddTask(t)
      PROVE  Lifetime'
  <2>1. submitted \in Seq(Tasks)
      BY DEF TypeOK
  <2>2. Elements(Append(submitted, t)) = Elements(submitted) \cup {t}
      BY <2>1, ElementsAppend
  <2>3. QED
      BY <1>1, <2>2 DEF AddTask, Pushing
<1>2. ASSUME NEW t \in Tasks, NotifyOne(t)
      PROVE  Lifetime'
    BY <1>2 DEF NotifyOne, Elements
<1>3. CASE Close
    BY <1>3 DEF Close, Elements
<1>4. CASE NotifyAll
    BY <1>4 DEF NotifyAll, Elements
<1>5. ASSUME NEW w \in Workers, WorkerStep(w) \/ WakeUp(w)
      PROVE  Lifetime'
    BY <1>5 DEF WorkerStep, Take, Finish, Exit, Wait, WakeUp, Elements
<1>6. CASE UNCHANGED vars
    BY <1>6 DEF vars, Elements
<1>7. QED
    BY <1>1, <1>2, <1>3, <1>4, <1>5, <1>6 DEF Next

LEMMA OrderStep == TypeOK /\ StartedInOrder /\ [Next]_vars => StartedInOrder'
<1> SUFFICES ASSUME TypeOK, StartedInOrder, [Next]_vars
             PROVE  StartedInOrder'
    OBVIOUS
<1> USE DEF StartedInOrder
<1>1. ASSUME NEW t \in Tasks, AddTask(t)
      PROVE  StartedInOrder'
  <2>1. started \in Seq(Tasks) /\ tasks \in Seq(Tasks)
      BY DEF TypeOK
  <2>2. Append(started \o tasks, t) = started \o Append(tasks, t)
      BY <2>1
  <2>3. QED
      BY <1>1, <2>2 DEF AddTask, Pushing
<1>2. ASSUME NEW w \in Workers, Take(w)
      PROVE  StartedInOrder'
    BY <1>2, MoveHead DEF Take, TypeOK
<1>3. CASE UNCHANGED <<tasks, submitted, started>>
    BY <1>3
<1>4. QED
    BY <1>1, <1>2, <1>3 DEF Next, NotifyOne, Close, NotifyAll, WorkerStep,
                            Finish, Exit, Wait, WakeUp, vars

LEMMA DrainStep == TypeOK /\ Lifetime /\ CloseDrains /\ [Next]_vars => CloseDrains'
<1> SUFFICES ASSUME TypeOK, Lifetime, CloseDrains, [Next]_vars
             PROVE  CloseDrains'
    OBVIOUS
<1> USE DEF CloseDrains, Waiting, TypeOK
<1>1. ASSUME NEW t \in Tasks, AddTask(t)
      PROVE  CloseDrains'
    BY <1>1 DEF AddTask, Pushing
<1>2. ASSUME NEW t \in Tasks, NotifyOne(t)
      PROVE  CloseDrains'
    BY <1>2 DEF NotifyOne
<1>3. CASE Close
    BY <1>3 DEF Close
<1>4. CASE NotifyAll
    BY <1>4 DEF NotifyAll
<1>5. ASSUME NEW w \in Workers, Take(w)
      PROVE  CloseDrains'
    BY <1>5 DEF Take
<1>6. ASSUME NEW w \in Workers, Exit(w) \/ Wait(w)
      PROVE  CloseDrains'
    BY <1>6 DEF Exit, Wait, Lifetime
<1>7. ASSUME NEW w \in Workers, Finish(w) \/ WakeUp(w)
      PROVE  CloseDrains'
    BY <1>7 DEF Finish, WakeUp
<1>8. CASE UNCHANGED vars
    BY <1>8 DEF vars
<1>9. QED
    BY <1>1, <1>2, <1>3, <1>4, <1>5, <1>6, <1>7, <1>8 DEF Next, WorkerStep

(* The step that matters: a push comes with a notification, a notification *)
(* that finds a sleeper makes it awake, and one that finds none leaves     *)
(* nobody asleep; a worker falls asleep only when the queue is empty.      *)
LEMMA ConserveStep ==
    TypeOK /\ Lifetime /\ WorkConserving /\ CloseDrains /\ [Next]_vars
        => WorkConserving'
<1> SUFFICES ASSUME TypeOK, Lifetime, WorkConserving, CloseDrains, [Next]_vars,
                    Waiting' # {}
             PROVE  Len(tasks)' <= Cardinality(Awake)' + Cardinality(notifying)'
    BY DEF WorkConserving
<1> DEFINE a == Cardinality(Awake)
           n == Cardinality(notifying)
<1>0. /\ IsFiniteSet(Awake) /\ a \in Nat
      /\ IsFiniteSet(notifying) /\ n \in Nat
      /\ Len(tasks) \in Nat
      /\ a' \in Nat /\ n' \in Nat
  <2>1. TypeOK'
      BY TypeStep
  <2>2. QED
      BY <2>1, CountedFinite, CountedFiniteNext DEF TypeOK, CountsAreFinite
<1>1. ASSUME NEW t \in Tasks, AddTask(t)
      PROVE  Len(tasks)' <= a' + n'
  <2>1. t \notin notifying
      BY <1>1 DEF AddTask, Pushing, Lifetime
  <2>2. n' = n + 1
      BY <1>0, <1>1, <2>1, FS_AddElement DEF AddTask, Pushing
  <2>3. Len(tasks)' = Len(tasks) + 1
      BY <1>1 DEF AddTask, Pushing, TypeOK
  <2>4. Awake' = Awake /\ Waiting' = Waiting
      BY <1>1 DEF AddTask, Pushing, Awake, Waiting
  <2>5. Len(tasks) <= a + n
      BY <2>4 DEF WorkConserving
  <2>6. QED
      BY <1>0, <2>2, <2>3, <2>4, <2>5
<1>2. ASSUME NEW t \in Tasks, NotifyOne(t)
      PROVE  Len(tasks)' <= a' + n'
  <2>1. PICK w \in Waiting : wpc' = [wpc EXCEPT ![w] = "ready"]
    <3>1. CASE Waiting = {}
        BY <1>2, <3>1 DEF NotifyOne, Waiting
    <3>2. QED
        BY <1>2, <3>1 DEF NotifyOne
  <2>2. n' = n - 1
      BY <1>0, <1>2, FS_RemoveElement DEF NotifyOne
  <2>3. Awake' = Awake \cup {w} /\ w \notin Awake
      BY <2>1 DEF Awake, Waiting, TypeOK
  <2>4. a' = a + 1
      BY <1>0, <2>3, FS_AddElement
  <2>5. Len(tasks)' = Len(tasks) /\ Len(tasks) <= a + n
      BY <1>2, <2>1 DEF NotifyOne, WorkConserving
  <2>6. QED
      BY <1>0, <2>2, <2>4, <2>5
<1>3. CASE Close
  <2>1. UNCHANGED <<tasks, wpc, notifying>>
      BY <1>3 DEF Close
  <2>2. QED
      BY <2>1 DEF WorkConserving, Awake, Waiting
<1>4. CASE NotifyAll
    BY <1>4 DEF NotifyAll, Waiting, TypeOK
<1>5. ASSUME NEW w \in Workers, Take(w)
      PROVE  Len(tasks)' <= a' + n'
  <2>1. Awake' = Awake \ {w} /\ w \in Awake /\ Waiting' = Waiting
      BY <1>5 DEF Take, Awake, Waiting, TypeOK
  <2>2. a' = a - 1
      BY <1>0, <2>1, FS_RemoveElement
  <2>3. Len(tasks)' = Len(tasks) - 1 /\ n' = n
      BY <1>5 DEF Take, TypeOK
  <2>4. QED
      BY <1>0, <2>1, <2>2, <2>3 DEF WorkConserving
<1>6. ASSUME NEW w \in Workers, Finish(w)
      PROVE  Len(tasks)' <= a' + n'
  <2>1. Awake' = Awake \cup {w} /\ w \notin Awake /\ Waiting' = Waiting
      BY <1>6 DEF Finish, Awake, Waiting, TypeOK
  <2>2. a' = a + 1
      BY <1>0, <2>1, FS_AddElement
  <2>3. Len(tasks)' = Len(tasks) /\ n' = n
      BY <1>6 DEF Finish
  <2>4. QED
      BY <1>0, <2>1, <2>2, <2>3 DEF WorkConserving
<1>7. ASSUME NEW w \in Workers, Exit(w) \/ Wait(w)
      PROVE  Len(tasks)' <= a' + n'
  <2>1. Len(tasks)' = 0
      BY <1>7 DEF Exit, Wait
  <2>2. QED
      BY <1>0, <2>1
<1>8. ASSUME NEW w \in Workers, WakeUp(w)
      PROVE  Len(tasks)' <= a' + n'
  <2>1. Awake' = Awake \cup {w} /\ w \notin Awake /\ w \in Waiting
      BY <1>8 DEF WakeUp, Awake, Waiting, TypeOK
  <2>2. a' = a + 1
      BY <1>0, <2>1, FS_AddElement
  <2>3. Len(tasks)' = Len(tasks) /\ n' = n
      BY <1>8 DEF WakeUp
  <2>4. QED
      BY <1>0, <2>1, <2>2, <2>3 DEF WorkConserving
<1>9. CASE UNCHANGED vars
  <2>1. UNCHANGED <<tasks, wpc, notifying>>
      BY <1>9 DEF vars
  <2>2. QED
      BY <2>1 DEF WorkConserving, Awake, Waiting
<1>10. QED
    BY <1>1, <1>2, <1>3, <1>4, <1>5, <1>6, <1>7, <1>8, <1>9 DEF Next, WorkerStep

-----------------------------------------------------------------------------
LEMMA InitIInv == Init => IInv
<1> SUFFICES ASSUME Init PROVE IInv
    OBVIOUS
<1>1. TypeOK
    BY TypeInit
<1>2. Lifetime /\ StartedInOrder
    BY DEF Init, Lifetime, StartedInOrder
<1>3. WorkConserving /\ CloseDrains
    BY DEF Init, WorkConserving, CloseDrains, Waiting
<1>4. QED
    BY <1>1, <1>2, <1>3 DEF IInv

LEMMA NextIInv == IInv /\ [Next]_vars => IInv'
BY TypeStep, LifetimeStep, OrderStep, ConserveStep, DrainStep DEF IInv

(* The inductive invariant holds in every reachable state. *)
THEOREM Invariance == Spec => []IInv
BY InitIInv, NextIInv, PTL DEF Spec

(* Type correctness of the pool, for any number of workers. *)
THEOREM TypeCorrect == Spec => []TypeOK
BY Invariance, PTL DEF IInv

(* Tasks start in the order of their push, none lost and none twice.       *)
THEOREM PoolIsFifo == Spec => []StartedInOrder
BY Invariance, PTL DEF IInv

(* No wake-up is lost: while a worker sleeps there are no more queued      *)
(* tasks than workers awake and notifications to come.                     *)
THEOREM PoolConservesWork == Spec => []WorkConserving
BY Invariance, PTL DEF IInv

(* The destructor abandons no task and leaves no worker asleep.            *)
THEOREM PoolDrains == Spec => []CloseDrains
BY Invariance, PTL DEF IInv
=============================================================================
