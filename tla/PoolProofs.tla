----------------------------- MODULE PoolProofs -----------------------------
(***************************************************************************)
(* Theorems about ThreadPool, for every set of tasks, workers and callers. *)
(***************************************************************************)
EXTENDS ThreadPool, SequenceTheorems, FiniteSetTheorems, TLAPS

(***************************************************************************)
(* Type correctness, with the ownership of the mutex: mutex_ is held by    *)
(* the one worker whose code is inside the lock, and a worker holds a task *)
(* exactly while it runs it.                                               *)
(***************************************************************************)
THEOREM PoolTypeCorrect == Spec => []TypeOK
<1>1. Init => TypeOK
  BY PoolAssumption, EmptySeq DEF Init, TypeOK, WorkerPc, PoolAssumption
<1>2. TypeOK /\ [Next]_vars => TypeOK'
  <2> SUFFICES ASSUME TypeOK, [Next]_vars PROVE TypeOK'
    OBVIOUS
  <2> USE PoolAssumption DEF TypeOK, WorkerPc, PoolAssumption
  <2>1. ASSUME NEW s \in Submitter, NEW t \in Task, Push(s, t) PROVE TypeOK'
    BY <2>1, AppendProperties DEF Push
  <2>2. ASSUME NEW s \in Submitter, Notify(s) PROVE TypeOK'
    BY <2>2 DEF Notify, NotifyOne, Waiting
  <2>3. ASSUME NEW w \in Worker, Lock(w) PROVE TypeOK'
    BY <2>3 DEF Lock
  <2>4. ASSUME NEW w \in Worker, Pop(w) PROVE TypeOK'
    <3>1. Head(queue) \in Task /\ Tail(queue) \in Seq(Task)
      BY <2>4, HeadTailProperties DEF Pop
    <3> QED
      BY <2>4, <3>1 DEF Pop
  <2>5. ASSUME NEW w \in Worker, Exit(w) PROVE TypeOK'
    BY <2>5 DEF Exit, MayLeave
  <2>6. ASSUME NEW w \in Worker, TestFails(w) PROVE TypeOK'
    BY <2>6 DEF TestFails
  <2>7. ASSUME NEW w \in Worker, Block(w) PROVE TypeOK'
    BY <2>7 DEF Block
  <2>8. ASSUME NEW w \in Worker, SpuriousWake(w) PROVE TypeOK'
    BY <2>8 DEF SpuriousWake
  <2>9. ASSUME NEW w \in Worker, Finish(w) PROVE TypeOK'
    BY <2>9 DEF Finish
  <2>10. ASSUME SetStop \/ Join PROVE TypeOK'
    BY <2>10 DEF SetStop, Join
  <2>11. ASSUME NotifyStop PROVE TypeOK'
    BY <2>11 DEF NotifyStop, NotifyAll, Waiting
  <2>12. ASSUME UNCHANGED vars PROVE TypeOK'
    BY <2>12 DEF vars
  <2> QED
    BY <2>1, <2>2, <2>3, <2>4, <2>5, <2>6, <2>7, <2>8, <2>9, <2>10, <2>11, <2>12
       DEF Next, WorkerStep
<1> QED
  BY <1>1, <1>2, PTL DEF Spec

-----------------------------------------------------------------------------
(***************************************************************************)
(* Why the pool is drained: a worker that has left found stop_ set and the *)
(* queue empty, and after stop_ is set nobody submits.                     *)
(***************************************************************************)
LeavesEmpty ==
  /\ stop <=> dtor # "alive"
  /\ \A w \in Worker : pc[w] = "exited" => stop /\ queue = <<>>
  /\ dtor = "done" => \A w \in Worker : pc[w] = "exited"

LEMMA LeavesEmptyHolds == Spec => []LeavesEmpty
<1>1. Init => LeavesEmpty
  BY DEF Init, LeavesEmpty
<1>2. TypeOK /\ LeavesEmpty /\ [Next]_vars => LeavesEmpty'
  <2> SUFFICES ASSUME TypeOK, LeavesEmpty, [Next]_vars PROVE LeavesEmpty'
    OBVIOUS
  <2> USE DEF TypeOK, WorkerPc, LeavesEmpty
  <2>1. ASSUME NEW s \in Submitter, NEW t \in Task, Push(s, t) PROVE LeavesEmpty'
    BY <2>1 DEF Push
  <2>2. ASSUME NEW s \in Submitter, Notify(s) PROVE LeavesEmpty'
    BY <2>2 DEF Notify, NotifyOne, Waiting
  <2>3. ASSUME NEW w \in Worker, WorkerStep(w) \/ SpuriousWake(w)
        PROVE  LeavesEmpty'
    BY <2>3 DEF WorkerStep, Lock, Pop, Exit, MayLeave, TestFails, Block, Finish,
                SpuriousWake
  <2>4. ASSUME SetStop \/ Join PROVE LeavesEmpty'
    BY <2>4 DEF SetStop, Join
  <2>5. ASSUME NotifyStop PROVE LeavesEmpty'
    BY <2>5 DEF NotifyStop, NotifyAll, Waiting
  <2>6. ASSUME UNCHANGED vars PROVE LeavesEmpty'
    BY <2>6 DEF vars
  <2> QED
    BY <2>1, <2>2, <2>3, <2>4, <2>5, <2>6 DEF Next
<1> QED
  BY <1>1, <1>2, PoolTypeCorrect, PTL DEF Spec

(***************************************************************************)
(* When the destructor has returned the queue is empty and no worker holds *)
(* a task: every task ever submitted has run.                              *)
(***************************************************************************)
THEOREM PoolDrained == Spec => []DrainedWhenDestroyed
<1>1. TypeOK /\ LeavesEmpty => DrainedWhenDestroyed
  BY PoolAssumption DEF TypeOK, LeavesEmpty, DrainedWhenDestroyed, PoolAssumption
<1> QED
  BY <1>1, LeavesEmptyHolds, PoolTypeCorrect, PTL

-----------------------------------------------------------------------------
(***************************************************************************)
(* What the mutex gives the wakeups: between the test of the predicate and *)
(* the wait nobody submits, so a worker goes to sleep on an empty queue.   *)
(***************************************************************************)
BlocksOnEmpty == \A w \in Worker : pc[w] = "block" => queue = <<>>

LEMMA BlocksOnEmptyHolds == Spec => []BlocksOnEmpty
<1>1. Init => BlocksOnEmpty
  BY DEF Init, BlocksOnEmpty
<1>2. TypeOK /\ BlocksOnEmpty /\ [Next]_vars => BlocksOnEmpty'
  <2> SUFFICES ASSUME TypeOK, BlocksOnEmpty, [Next]_vars PROVE BlocksOnEmpty'
    OBVIOUS
  <2> USE PoolAssumption DEF TypeOK, WorkerPc, BlocksOnEmpty, PoolAssumption
  <2>1. ASSUME NEW s \in Submitter, NEW t \in Task, Push(s, t) PROVE BlocksOnEmpty'
    BY <2>1 DEF Push
  <2>2. ASSUME NEW s \in Submitter, Notify(s) PROVE BlocksOnEmpty'
    BY <2>2 DEF Notify, NotifyOne, Waiting
  <2>3. ASSUME NEW w \in Worker, WorkerStep(w) \/ SpuriousWake(w)
        PROVE  BlocksOnEmpty'
    BY <2>3 DEF WorkerStep, Lock, Pop, Exit, TestFails, Block, Finish, SpuriousWake
  <2>4. ASSUME SetStop \/ NotifyStop \/ Join PROVE BlocksOnEmpty'
    BY <2>4 DEF SetStop, NotifyStop, NotifyAll, Waiting, Join
  <2>5. ASSUME UNCHANGED vars PROVE BlocksOnEmpty'
    BY <2>5 DEF vars
  <2> QED
    BY <2>1, <2>2, <2>3, <2>4, <2>5 DEF Next
<1> QED
  BY <1>1, <1>2, PoolTypeCorrect, PTL DEF Spec

\* The two sets the wakeups are counted in are finite, before and after a step.
LEMMA CountsAreNaturals ==
  /\ IsFiniteSet(Free) /\ Cardinality(Free) \in Nat
  /\ IsFiniteSet(Notifying) /\ Cardinality(Notifying) \in Nat
  /\ Cardinality(Free') \in Nat /\ Cardinality(Notifying') \in Nat
<1>1. /\ Free \subseteq Worker /\ Free' \subseteq Worker
      /\ Notifying \subseteq Submitter /\ Notifying' \subseteq Submitter
  BY DEF Free, Notifying
<1>2. /\ IsFiniteSet(Free) /\ IsFiniteSet(Free')
      /\ IsFiniteSet(Notifying) /\ IsFiniteSet(Notifying')
  BY <1>1, FS_Subset, PoolAssumption DEF PoolAssumption
<1> QED
  BY <1>2, FS_CardinalityType

\* A set that gains an element it did not have, and one that loses one it had.
LEMMA CountOneMore ==
  ASSUME NEW S, IsFiniteSet(S), NEW x, x \notin S
  PROVE  Cardinality(S \cup {x}) = Cardinality(S) + 1
BY FS_AddElement

LEMMA CountOneLess ==
  ASSUME NEW S, IsFiniteSet(S), NEW x, x \in S
  PROVE  Cardinality(S \ {x}) = Cardinality(S) - 1
BY FS_RemoveElement

(***************************************************************************)
(* No wakeup of submit is lost: while a worker sleeps, the tasks in the    *)
(* queue are at most as many as the free workers and the notify_one calls  *)
(* still to come.  submit adds a task and a call; the call turns into a    *)
(* free worker; the worker that pops takes itself and a task away; and a   *)
(* worker that goes to sleep leaves an empty queue behind.                 *)
(***************************************************************************)
THEOREM PoolLosesNoWakeup == Spec => []EveryTaskHasAWakeup
<1>1. Init => EveryTaskHasAWakeup
  BY DEF Init, EveryTaskHasAWakeup, Waiting
<1>2. TypeOK /\ BlocksOnEmpty /\ EveryTaskHasAWakeup /\ [Next]_vars
        => EveryTaskHasAWakeup'
  <2> SUFFICES ASSUME TypeOK, BlocksOnEmpty, EveryTaskHasAWakeup, [Next]_vars,
                      Waiting' # {}
               PROVE  Len(queue') <= Cardinality(Free') + Cardinality(Notifying')
    BY DEF EveryTaskHasAWakeup
  <2> DEFINE Goal == Len(queue') <= Cardinality(Free') + Cardinality(Notifying')
  <2>n. /\ Len(queue) \in Nat
        /\ IsFiniteSet(Free) /\ Cardinality(Free) \in Nat
        /\ IsFiniteSet(Notifying) /\ Cardinality(Notifying) \in Nat
        /\ Cardinality(Free') \in Nat /\ Cardinality(Notifying') \in Nat
    BY CountsAreNaturals, LenProperties DEF TypeOK
  <2>1. ASSUME NEW s \in Submitter, NEW t \in Task, Push(s, t) PROVE Goal
    <3>1. Free' = Free /\ Waiting' = Waiting
      BY <2>1 DEF Push, Free, Waiting
    <3>2. Notifying' = Notifying \cup {s} /\ s \notin Notifying
      BY <2>1 DEF Push, Notifying, TypeOK
    <3>3. Len(queue') = Len(queue) + 1
      BY <2>1, AppendProperties DEF Push, TypeOK
    <3> QED
      BY <2>n, <3>1, <3>2, <3>3, CountOneMore DEF EveryTaskHasAWakeup
  <2>2. ASSUME NEW s \in Submitter, Notify(s) PROVE Goal
    <3>1. Waiting # {}
      BY <2>2 DEF Notify, NotifyOne, Waiting
    <3>2. PICK w \in Waiting : pc' = [pc EXCEPT ![w] = "lock"]
      BY <2>2, <3>1 DEF Notify, NotifyOne
    <3>3. Free' = Free \cup {w} /\ w \notin Free
      BY <3>2 DEF Free, Waiting, TypeOK
    <3>4. Notifying' = Notifying \ {s} /\ s \in Notifying /\ queue' = queue
      BY <2>2 DEF Notify, Notifying, TypeOK
    <3>5. Len(queue) <= Cardinality(Free) + Cardinality(Notifying)
      BY <3>1 DEF EveryTaskHasAWakeup
    <3>6. /\ Cardinality(Free') = Cardinality(Free) + 1
          /\ Cardinality(Notifying') = Cardinality(Notifying) - 1
      BY <2>n, <3>3, <3>4, CountOneMore, CountOneLess
    <3> QED
      BY <2>n, <3>4, <3>5, <3>6
  <2>3. ASSUME NEW w \in Worker, Lock(w) \/ TestFails(w) PROVE Goal
    <3>1. Free' = Free /\ Waiting' = Waiting
      BY <2>3 DEF Lock, TestFails, Free, Waiting, TypeOK
    <3>2. Notifying' = Notifying /\ queue' = queue
      BY <2>3 DEF Lock, TestFails, Notifying
    <3> QED
      BY <3>1, <3>2 DEF EveryTaskHasAWakeup
  <2>4. ASSUME NEW w \in Worker, Pop(w) PROVE Goal
    <3>1. Free' = Free \ {w} /\ w \in Free /\ Waiting' = Waiting
      BY <2>4 DEF Pop, Free, Waiting, TypeOK
    <3>2. Notifying' = Notifying /\ Len(queue') = Len(queue) - 1
      BY <2>4, HeadTailProperties DEF Pop, Notifying, TypeOK
    <3>3. Cardinality(Free') = Cardinality(Free) - 1
      BY <2>n, <3>1, CountOneLess
    <3> QED
      BY <2>n, <3>1, <3>2, <3>3 DEF EveryTaskHasAWakeup
  <2>5. ASSUME NEW w \in Worker, Exit(w) \/ Block(w) PROVE Goal
    <3>1. queue' = <<>>
      BY <2>5 DEF Exit, MayLeave, Block, BlocksOnEmpty
    <3> QED
      BY <2>n, <3>1
  <2>6. ASSUME NEW w \in Worker, SpuriousWake(w) \/ Finish(w) PROVE Goal
    <3>1. Free' = Free \cup {w} /\ w \notin Free /\ Waiting # {}
      BY <2>6 DEF SpuriousWake, Finish, Free, Waiting, TypeOK
    <3>2. Notifying' = Notifying /\ queue' = queue
      BY <2>6 DEF SpuriousWake, Finish, Notifying
    <3>3. Cardinality(Free') = Cardinality(Free) + 1
      BY <2>n, <3>1, CountOneMore
    <3> QED
      BY <2>n, <3>1, <3>2, <3>3 DEF EveryTaskHasAWakeup
  <2>7. ASSUME SetStop \/ Join \/ UNCHANGED vars PROVE Goal
    <3>1. Free' = Free /\ Waiting' = Waiting /\ Notifying' = Notifying
      BY <2>7 DEF SetStop, Join, vars, Free, Waiting, Notifying
    <3> QED
      BY <2>7, <3>1 DEF SetStop, Join, vars, EveryTaskHasAWakeup
  <2>8. ~NotifyStop
    BY DEF NotifyStop, NotifyAll, Waiting
  <2> QED
    BY <2>1, <2>2, <2>3, <2>4, <2>5, <2>6, <2>7, <2>8 DEF Next, WorkerStep
<1> QED
  BY <1>1, <1>2, PoolTypeCorrect, BlocksOnEmptyHolds, PTL DEF Spec

(***************************************************************************)
(* A pool with a task in its queue is never entirely asleep: some worker   *)
(* is awake and has not left, or a notify_one is still to come.            *)
(***************************************************************************)
SomebodyIsAwake ==
  queue # <<>> => \/ \E w \in Worker : pc[w] \notin {"wait", "exited"}
                  \/ \E s \in Submitter : caller[s] = "notify"

THEOREM PoolNeverSleepsOnATask == Spec => []SomebodyIsAwake
<1>1. TypeOK /\ LeavesEmpty /\ EveryTaskHasAWakeup => SomebodyIsAwake
  <2> SUFFICES ASSUME TypeOK, LeavesEmpty, EveryTaskHasAWakeup, queue # <<>>,
                      Free = {}, Notifying = {}
               PROVE  \E w \in Worker : pc[w] \notin {"wait", "exited"}
    BY DEF SomebodyIsAwake, Free, Notifying
  <2>1. Len(queue) > 0
    BY EmptySeq, LenProperties DEF TypeOK
  <2>2. Cardinality(Free) = 0 /\ Cardinality(Notifying) = 0
    BY FS_EmptySet
  <2>3. Waiting = {}
    BY <2>1, <2>2, LenProperties DEF EveryTaskHasAWakeup, TypeOK
  <2>4. \A w \in Worker : pc[w] \notin {"wait", "exited"}
    BY <2>3 DEF Waiting, LeavesEmpty
  <2> QED
    BY <2>4, PoolAssumption DEF PoolAssumption
<1> QED
  BY <1>1, PoolTypeCorrect, LeavesEmptyHolds, PoolLosesNoWakeup, PTL

(***************************************************************************)
(* The one way to sleep through the destructor's notification is to have   *)
(* evaluated the predicate before stop_ was set and to have joined the     *)
(* waiters after; and whoever does so leaves no task in the queue, because *)
(* nobody submits any more.                                                *)
(***************************************************************************)
THEOREM PoolOnlyLateMissTheStop == Spec => []OnlyLateMissTheStop
<1>1. Init => OnlyLateMissTheStop
  BY DEF Init, OnlyLateMissTheStop
<1>2. TypeOK /\ LeavesEmpty /\ BlocksOnEmpty /\ OnlyLateMissTheStop /\ [Next]_vars
        => OnlyLateMissTheStop'
  <2> SUFFICES ASSUME TypeOK, LeavesEmpty, BlocksOnEmpty, OnlyLateMissTheStop,
                      [Next]_vars
               PROVE  OnlyLateMissTheStop'
    OBVIOUS
  <2> USE DEF TypeOK, WorkerPc, OnlyLateMissTheStop, Waiting
  <2>1. ASSUME NEW s \in Submitter, NEW t \in Task, Push(s, t)
        PROVE  OnlyLateMissTheStop'
    BY <2>1 DEF Push
  <2>2. ASSUME NEW s \in Submitter, Notify(s) PROVE OnlyLateMissTheStop'
    BY <2>2 DEF Notify, NotifyOne
  <2>3. ASSUME NEW w \in Worker, Block(w) PROVE OnlyLateMissTheStop'
    BY <2>3 DEF Block, BlocksOnEmpty, LeavesEmpty
  <2>4. ASSUME NEW w \in Worker,
               \/ Lock(w) \/ Pop(w) \/ Exit(w) \/ TestFails(w) \/ Finish(w)
               \/ SpuriousWake(w)
        PROVE  OnlyLateMissTheStop'
    BY <2>4 DEF Lock, Pop, Exit, TestFails, Finish, SpuriousWake
  <2>5. ASSUME SetStop \/ NotifyStop \/ Join PROVE OnlyLateMissTheStop'
    BY <2>5 DEF SetStop, NotifyStop, NotifyAll, Join
  <2>6. ASSUME UNCHANGED vars PROVE OnlyLateMissTheStop'
    BY <2>6 DEF vars
  <2> QED
    BY <2>1, <2>2, <2>3, <2>4, <2>5, <2>6 DEF Next, WorkerStep
<1> QED
  BY <1>1, <1>2, PoolTypeCorrect, LeavesEmptyHolds, BlocksOnEmptyHolds, PTL DEF Spec

-----------------------------------------------------------------------------
(***************************************************************************)
(* The pool implements the task queue: submit appends, a worker that pops  *)
(* takes, a worker whose task returns finishes, and every other step       *)
(* leaves the queue alone.  So tasks are taken in the order of submission, *)
(* each once.                                                              *)
(***************************************************************************)
THEOREM PoolImplementsTaskQueue == Spec => ImplementsTaskQueue
<1>1. Init => Abstract!Init
  BY DEF Init, Abstract!Init
<1>2. TypeOK /\ [Next]_vars => [Abstract!Next]_(Abstract!qvars)
  <2> SUFFICES ASSUME TypeOK, Next
               PROVE  Abstract!Next \/ UNCHANGED <<queue, held, done>>
    BY DEF vars, Abstract!qvars
  <2>1. ASSUME NEW s \in Submitter, NEW t \in Task, Push(s, t)
        PROVE  Abstract!Submit(t)
    BY <2>1 DEF Push, Abstract!Submit, Fresh, Queued, Abstract!Fresh, Abstract!Queued
  <2>2. ASSUME NEW w \in Worker, Pop(w) PROVE Abstract!Take(w)
    BY <2>2 DEF Pop, Abstract!Take, TypeOK
  <2>3. ASSUME NEW w \in Worker, Finish(w) PROVE Abstract!Finish(w)
    BY <2>3 DEF Finish, Abstract!Finish, TypeOK
  <2>4. ASSUME NEW w \in Worker,
               Lock(w) \/ Exit(w) \/ TestFails(w) \/ Block(w) \/ SpuriousWake(w)
        PROVE  UNCHANGED <<queue, held, done>>
    BY <2>4 DEF Lock, Exit, TestFails, Block, SpuriousWake
  <2>5. ASSUME NEW s \in Submitter, Notify(s)
        PROVE  UNCHANGED <<queue, held, done>>
    BY <2>5 DEF Notify
  <2>6. ASSUME SetStop \/ NotifyStop \/ Join
        PROVE  UNCHANGED <<queue, held, done>>
    BY <2>6 DEF SetStop, NotifyStop, Join
  <2> QED
    BY <2>1, <2>2, <2>3, <2>4, <2>5, <2>6 DEF Next, WorkerStep, Abstract!Next
<1> QED
  BY <1>1, <1>2, PoolTypeCorrect, PTL DEF Spec, ImplementsTaskQueue, Abstract!Spec

=============================================================================
