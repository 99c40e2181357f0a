----------------------------- MODULE ThreadPool -----------------------------
(***************************************************************************)
(* The thread pool with its mutex and its condition variable.              *)
(*                                                                         *)
(* A worker that holds the mutex and finds nothing to do goes through two  *)
(* steps: it has evaluated the predicate of cv_.wait ("block"), and it has *)
(* released the mutex and joined the waiters ("wait"), atomically.  submit *)
(* takes the mutex, so it cannot come in between; the destructor does not. *)
(***************************************************************************)
EXTENDS Sequences, Naturals, FiniteSets

CONSTANTS
  Task,       \* the tasks that may be submitted, each at most once
  Worker,     \* workers_
  Submitter,  \* threads that call submit
  NoTask,     \* what an idle worker holds
  NoThread    \* the holder of a free mutex

ASSUME PoolAssumption ==
  /\ NoTask \notin Task
  /\ NoThread \notin Worker
  /\ Worker # {}
  /\ IsFiniteSet(Worker) /\ IsFiniteSet(Submitter)

VARIABLES
  mutex,   \* who holds mutex_
  queue,   \* queue_
  stop,    \* stop_
  pc,      \* where each worker is in worker_loop
  held,    \* the local variable task of each worker
  caller,  \* where each submitter is in submit
  dtor,    \* where the destructor is
  done,    \* the tasks that have run
  late     \* history: the workers that joined the waiters after stop_ was set

vars == <<mutex, queue, stop, pc, held, caller, dtor, done, late>>

WorkerPc == {"lock", "test", "block", "wait", "run", "exited"}

Init ==
  /\ mutex = NoThread
  /\ queue = <<>>
  /\ stop = FALSE
  /\ pc = [w \in Worker |-> "lock"]
  /\ held = [w \in Worker |-> NoTask]
  /\ caller = [s \in Submitter |-> "idle"]
  /\ dtor = "alive"
  /\ done = {}
  /\ late = {}

Waiting == {w \in Worker : pc[w] = "wait"}

\* The effect of notify_one: one waiter, if there is one, goes for the mutex.
NotifyOne ==
  IF Waiting = {} THEN UNCHANGED pc
  ELSE \E w \in Waiting : pc' = [pc EXCEPT ![w] = "lock"]

\* Mutant: the destructor wakes one worker only.
NotifyOnlyOne == NotifyOne

NotifyAll ==
  pc' = [w \in Worker |-> IF w \in Waiting THEN "lock" ELSE pc[w]]

-----------------------------------------------------------------------------
(* submit.                                                                 *)

Queued(t) == \E i \in 1 .. Len(queue) : queue[i] = t
Fresh(t)  == ~Queued(t) /\ t \notin done /\ \A w \in Worker : held[w] # t

\* Nobody calls submit on a pool whose destructor has begun.
Push(s, t) ==
  /\ dtor = "alive"
  /\ caller[s] = "idle"
  /\ Fresh(t)
  /\ mutex = NoThread
  /\ queue' = Append(queue, t)
  /\ caller' = [caller EXCEPT ![s] = "notify"]
  /\ UNCHANGED <<mutex, stop, pc, held, dtor, done, late>>

\* Mutant: submit queues the task and wakes nobody.
NotifyNobody(s) ==
  /\ caller[s] = "notify"
  /\ caller' = [caller EXCEPT ![s] = "idle"]
  /\ UNCHANGED <<mutex, queue, stop, pc, held, dtor, done, late>>

Notify(s) ==
  /\ caller[s] = "notify"
  /\ NotifyOne
  /\ caller' = [caller EXCEPT ![s] = "idle"]
  /\ UNCHANGED <<mutex, queue, stop, held, dtor, done, late>>

-----------------------------------------------------------------------------
(* worker_loop.                                                            *)

\* Mutant: the worker does not take the mutex.
LockNothing(w) ==
  /\ pc[w] = "lock"
  /\ pc' = [pc EXCEPT ![w] = "test"]
  /\ UNCHANGED <<mutex, queue, stop, held, caller, dtor, done, late>>

Lock(w) ==
  /\ pc[w] = "lock"
  /\ mutex = NoThread
  /\ mutex' = w
  /\ pc' = [pc EXCEPT ![w] = "test"]
  /\ UNCHANGED <<queue, stop, held, caller, dtor, done, late>>

\* Mutant: the worker reads the front of the queue and does not pop it.
PopNothing(w) ==
  /\ pc[w] = "test"
  /\ queue # <<>>
  /\ held' = [held EXCEPT ![w] = Head(queue)]
  /\ mutex' = NoThread
  /\ pc' = [pc EXCEPT ![w] = "run"]
  /\ UNCHANGED <<queue, stop, caller, dtor, done, late>>

Pop(w) ==
  /\ pc[w] = "test"
  /\ queue # <<>>
  /\ held' = [held EXCEPT ![w] = Head(queue)]
  /\ queue' = Tail(queue)
  /\ mutex' = NoThread
  /\ pc' = [pc EXCEPT ![w] = "run"]
  /\ UNCHANGED <<stop, caller, dtor, done, late>>

\* Mutant: a worker leaves as soon as stop_ is set.
MayLeaveAtOnce == stop

MayLeave == stop /\ queue = <<>>

Exit(w) ==
  /\ pc[w] = "test"
  /\ MayLeave
  /\ mutex' = NoThread
  /\ pc' = [pc EXCEPT ![w] = "exited"]
  /\ UNCHANGED <<queue, stop, held, caller, dtor, done, late>>

TestFails(w) ==
  /\ pc[w] = "test"
  /\ queue = <<>>
  /\ ~stop
  /\ pc' = [pc EXCEPT ![w] = "block"]
  /\ UNCHANGED <<mutex, queue, stop, held, caller, dtor, done, late>>

Block(w) ==
  /\ pc[w] = "block"
  /\ mutex' = NoThread
  /\ pc' = [pc EXCEPT ![w] = "wait"]
  /\ late' = IF stop THEN late \cup {w} ELSE late
  /\ UNCHANGED <<queue, stop, held, caller, dtor, done>>

\* The standard allows a wait to return without a notification.
SpuriousWake(w) ==
  /\ pc[w] = "wait"
  /\ pc' = [pc EXCEPT ![w] = "lock"]
  /\ UNCHANGED <<mutex, queue, stop, held, caller, dtor, done, late>>

\* task() returns.
Finish(w) ==
  /\ pc[w] = "run"
  /\ done' = done \cup {held[w]}
  /\ held' = [held EXCEPT ![w] = NoTask]
  /\ pc' = [pc EXCEPT ![w] = "lock"]
  /\ UNCHANGED <<mutex, queue, stop, caller, dtor, late>>

-----------------------------------------------------------------------------
(* ~ThreadPool; neither of its first two steps takes the mutex.            *)

SetStop ==
  /\ dtor = "alive"
  /\ \A s \in Submitter : caller[s] = "idle"
  /\ stop' = TRUE
  /\ dtor' = "notify"
  /\ UNCHANGED <<mutex, queue, pc, held, caller, done, late>>

NotifyStop ==
  /\ dtor = "notify"
  /\ NotifyAll
  /\ dtor' = "join"
  /\ UNCHANGED <<mutex, queue, stop, held, caller, done, late>>

Join ==
  /\ dtor = "join"
  /\ \A w \in Worker : pc[w] = "exited"
  /\ dtor' = "done"
  /\ UNCHANGED <<mutex, queue, stop, pc, held, caller, done, late>>

-----------------------------------------------------------------------------
WorkerStep(w) ==
  \/ Lock(w) \/ Pop(w) \/ Exit(w) \/ TestFails(w) \/ Block(w) \/ Finish(w)

Next ==
  \/ \E s \in Submitter : (\E t \in Task : Push(s, t)) \/ Notify(s)
  \/ \E w \in Worker : WorkerStep(w) \/ SpuriousWake(w)
  \/ SetStop \/ NotifyStop \/ Join

Spec == Init /\ [][Next]_vars

(***************************************************************************)
(* Threads are scheduled and tasks end.  The mutex need not be fair: when  *)
(* it is free and wanted, some worker gets it.  No spurious wakeup is      *)
(* owed, and nobody has to submit or to destroy.                           *)
(***************************************************************************)
FairSpec ==
  /\ Spec
  /\ \A s \in Submitter : WF_vars(Notify(s))
  /\ WF_vars(\E w \in Worker : Lock(w))
  /\ \A w \in Worker :
       WF_vars(Pop(w) \/ Exit(w) \/ TestFails(w) \/ Block(w) \/ Finish(w))
  /\ WF_vars(NotifyStop \/ Join)

-----------------------------------------------------------------------------
(***************************************************************************)
(* The mutex is held by the worker whose code is inside the lock, and by   *)
(* no other; a worker holds a task exactly while it runs it.               *)
(***************************************************************************)
TypeOK ==
  /\ mutex \in Worker \cup {NoThread}
  /\ queue \in Seq(Task)
  /\ stop \in BOOLEAN
  /\ pc \in [Worker -> WorkerPc]
  /\ held \in [Worker -> Task \cup {NoTask}]
  /\ caller \in [Submitter -> {"idle", "notify"}]
  /\ dtor \in {"alive", "notify", "join", "done"}
  /\ done \subseteq Task
  /\ late \subseteq Worker
  /\ \A w \in Worker : (pc[w] \in {"test", "block"}) <=> (mutex = w)
  /\ \A w \in Worker : (pc[w] = "run") <=> (held[w] # NoTask)

Abstract == INSTANCE TaskQueue

(***************************************************************************)
(* submit and worker_loop together are a task queue: tasks are taken in    *)
(* the order of submission, each by one worker, once.                      *)
(***************************************************************************)
ImplementsTaskQueue == Abstract!Spec

(***************************************************************************)
(* No wakeup of submit is lost: with fair threads, no task stays in the    *)
(* queue, whether its notify_one found a waiter or not.                    *)
(***************************************************************************)
ImplementsFairTaskQueue == Abstract!FairSpec

(***************************************************************************)
(* A worker leaves only when the queue is empty, so a pool that has been   *)
(* destroyed has run every task that was ever submitted.                   *)
(***************************************************************************)
DrainedWhenDestroyed ==
  dtor = "done" => queue = <<>> /\ \A w \in Worker : held[w] = NoTask

(***************************************************************************)
(* No wakeup of submit is lost and none is misspent: while a worker        *)
(* sleeps, every task in the queue has a free worker of its own, awake and *)
(* on its way to the queue, or a notify_one on its way to a sleeper.  So a *)
(* task never waits for a busy worker while another one sleeps.            *)
(***************************************************************************)
Free      == {w \in Worker : pc[w] \in {"lock", "test", "block"}}
Notifying == {s \in Submitter : caller[s] = "notify"}

EveryTaskHasAWakeup ==
  Waiting # {} => Len(queue) <= Cardinality(Free) + Cardinality(Notifying)

(***************************************************************************)
(* Once ~ThreadPool has notified, only a worker that evaluated the         *)
(* predicate before stop_ was set sleeps, and it sleeps on an empty queue: *)
(* a destructor that hangs has kept no task from being taken.              *)
(***************************************************************************)
OnlyLateMissTheStop ==
  dtor = "join" => \A w \in Waiting : w \in late /\ queue = <<>>

(***************************************************************************)
(* The destructor sets stop_ and notifies without the mutex.  It returns,  *)
(* unless a worker evaluated the predicate before stop_ was set, joined    *)
(* the waiters after, and sleeps there for ever: the notification was      *)
(* before its sleep.  There is no other way for the destructor to hang,    *)
(* where tasks end.                                                        *)
(***************************************************************************)
DestructorReturnsUnlessLate ==
  (dtor = "notify") ~> (dtor = "done" \/ \E w \in Worker : [](w \in late /\ pc[w] = "wait"))

=============================================================================
