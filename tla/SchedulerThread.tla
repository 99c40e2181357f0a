-------------------------- MODULE SchedulerThread ---------------------------
(***************************************************************************)
(* The Scheduler with its mutex, its condition variable and its thread.    *)
(*                                                                         *)
(* The heap holds entries, each pushed at most once, with the time Due[e]. *)
(* What the loop does with an entry it has taken (the row it reads, the    *)
(* job it runs) is module JobSystem; here it is one step, Fire.            *)
(*                                                                         *)
(* Every other thread takes and releases the mutex in one step, so the     *)
(* mutex is held between steps by the loop only, in the states of Inside.  *)
(***************************************************************************)
EXTENDS Naturals, Sequences

CONSTANTS
  Entry,     \* the heap entries
  Due,       \* next_run of each entry
  Stored,    \* the entries load_from_repository finds in the table
  MaxNow,    \* bound: the clock stops here
  MaxStarts, \* bound: number of calls of start
  MaxPokes   \* bound: number of calls of cancel and pause

ASSUME ThreadAssumption ==
  /\ MaxNow \in Nat
  /\ Due \in [Entry -> 0 .. MaxNow]
  /\ Stored \subseteq Entry

VARIABLES
  now,      \* system_clock
  heap,     \* heap_: the entries in it
  running,  \* running_
  pc,       \* where the loop thread is
  at,       \* the loop's variable now, or top_time while it waits for it
  batch,    \* due_ids
  fired,    \* the entries the loop has handed over
  owner,    \* where the thread that calls load, start and stop is
  starts,   \* number of calls of start
  pokes,    \* number of calls of cancel and pause
  late      \* history: running_ was already cleared when the loop went to wait

vars == <<now, heap, running, pc, at, batch, fired, owner, starts, pokes, late>>

\* "none": there is no thread, or it has left the loop.
LoopPc == {"none", "head", "look", "block", "wait", "relock", "block_until",
           "wait_until", "pop", "each"}
Inside == {"look", "block", "block_until", "pop"}

OwnerPc == {"new", "loaded", "started", "notify", "join", "stopped"}

Init ==
  /\ now = 0
  /\ heap = {}
  /\ running = FALSE
  /\ pc = "none"
  /\ at = 0
  /\ batch = <<>>
  /\ fired = {}
  /\ owner = "new"
  /\ starts = 0
  /\ pokes = 0
  /\ late = FALSE

Tick ==
  /\ now < MaxNow
  /\ now' = now + 1
  /\ UNCHANGED <<heap, running, pc, at, batch, fired, owner, starts, pokes, late>>

-----------------------------------------------------------------------------
(* Calls of other threads.                                                 *)

\* The effect of a notification on pc; only the loop waits, so notify_one and
\* notify_all do the same.  After wait_until the loop only releases the mutex
\* again; after wait it takes the mutex and evaluates the predicate.
Woken ==
  CASE pc = "wait"       -> "relock"
    [] pc = "wait_until" -> "head"
    [] OTHER             -> pc

InBatch(e) == \E i \in 1 .. Len(batch) : batch[i] = e
Fresh(e)   == e \notin heap \cup fired /\ ~InBatch(e)

\* Mutant: schedule pushes and wakes nobody.
ScheduleSilently(e) ==
  /\ owner # "new"
  /\ Fresh(e)
  /\ pc \notin Inside
  /\ heap' = heap \cup {e}
  /\ UNCHANGED <<now, running, pc, at, batch, fired, owner, starts, pokes, late>>

\* schedule, and resume, which does the same: push and notify under the lock.
Schedule(e) ==
  /\ owner # "new"
  /\ Fresh(e)
  /\ pc \notin Inside
  /\ heap' = heap \cup {e}
  /\ pc' = Woken
  /\ UNCHANGED <<now, running, at, batch, fired, owner, starts, pokes, late>>

\* cancel and pause: a notification, without the lock.
Poke ==
  /\ owner # "new"
  /\ pokes < MaxPokes
  /\ pokes' = pokes + 1
  /\ pc' = Woken
  /\ UNCHANGED <<now, heap, running, at, batch, fired, owner, starts, late>>

\* load_from_repository, before the loop exists.
Load ==
  /\ owner = "new"
  /\ heap' = Stored
  /\ owner' = "loaded"
  /\ UNCHANGED <<now, running, pc, at, batch, fired, starts, pokes, late>>

Start ==
  /\ owner \in {"loaded", "stopped"}
  /\ starts < MaxStarts
  /\ starts' = starts + 1
  /\ running' = TRUE
  /\ pc' = "head"
  /\ owner' = "started"
  /\ UNCHANGED <<now, heap, at, batch, fired, pokes, late>>

\* stop; neither of its first two steps takes the mutex.
StopFlag ==
  /\ owner = "started"
  /\ running' = FALSE
  /\ owner' = "notify"
  /\ UNCHANGED <<now, heap, pc, at, batch, fired, starts, pokes, late>>

\* Mutant: stop clears running_ and wakes nobody.
StopSilently ==
  /\ owner = "notify"
  /\ owner' = "join"
  /\ UNCHANGED <<now, heap, running, pc, at, batch, fired, starts, pokes, late>>

StopNotify ==
  /\ owner = "notify"
  /\ pc' = Woken
  /\ owner' = "join"
  /\ UNCHANGED <<now, heap, running, at, batch, fired, starts, pokes, late>>

\* Mutant: stop does not wait for the thread to leave the loop.
StopDetach ==
  /\ owner = "join"
  /\ owner' = "stopped"
  /\ UNCHANGED <<now, heap, running, pc, at, batch, fired, starts, pokes, late>>

StopJoin ==
  /\ owner = "join"
  /\ pc = "none"
  /\ owner' = "stopped"
  /\ UNCHANGED <<now, heap, running, pc, at, batch, fired, starts, pokes, late>>

-----------------------------------------------------------------------------
(* loop.                                                                   *)

Goto(from, to) ==
  /\ pc = from
  /\ pc' = to
  /\ UNCHANGED <<now, heap, running, fired, owner, starts, pokes>>

Keep == UNCHANGED <<at, batch, late>>

\* while (running_), and the lock.
LoopHead == Goto("head", IF running THEN "look" ELSE "none") /\ Keep

\* The predicate of cv_.wait, !running_ || !heap_.empty(), from where the loop
\* first evaluates it and from where it does after a wakeup.
WaitTest(from) ==
  Goto(from, IF running /\ heap = {} THEN "block" ELSE "head") /\ Keep

LookEmpty == heap = {} /\ WaitTest("look")
Relock    == WaitTest("relock")

\* Release the mutex and join the waiters, in one step.
Block ==
  /\ Goto("block", "wait")
  /\ late' = ~running
  /\ UNCHANGED <<at, batch>>

\* Mutant: std::priority_queue without std::greater, a max heap.
IsTopOfMaxHeap(e) == e \in heap /\ \A o \in heap : Due[o] <= Due[e]

IsTop(e) == e \in heap /\ \A o \in heap : Due[e] <= Due[o]

LookEarly ==
  /\ \E e \in Entry : IsTop(e) /\ Due[e] > now /\ at' = Due[e]
  /\ Goto("look", "block_until")
  /\ UNCHANGED <<batch, late>>

BlockUntil == Goto("block_until", "wait_until") /\ Keep

\* top_time has come.
Timeout == at <= now /\ Goto("wait_until", "head") /\ Keep

SpuriousWake ==
  /\ pc \in {"wait", "wait_until"}
  /\ Goto(pc, Woken)
  /\ Keep

LookDue ==
  /\ \E e \in Entry : IsTop(e) /\ Due[e] <= now
  /\ Goto("look", "pop")
  /\ at' = now
  /\ UNCHANGED <<batch, late>>

PopDue ==
  /\ pc = "pop"
  /\ \E e \in Entry :
       /\ IsTop(e)
       /\ Due[e] <= at
       /\ heap' = heap \ {e}
       /\ batch' = Append(batch, e)
  /\ UNCHANGED <<now, running, pc, at, fired, owner, starts, pokes, late>>

Unlock ==
  /\ \A e \in heap : Due[e] > at
  /\ Goto("pop", "each")
  /\ Keep

Fire ==
  /\ pc = "each"
  /\ batch # <<>>
  /\ fired' = fired \cup {Head(batch)}
  /\ batch' = Tail(batch)
  /\ UNCHANGED <<now, heap, running, pc, at, owner, starts, pokes, late>>

\* Mutant: the for loop gives up when running_ is cleared.
EachUnlessStopped == (batch = <<>> \/ ~running) /\ Goto("each", "head") /\ Keep

EachDone == batch = <<>> /\ Goto("each", "head") /\ Keep

-----------------------------------------------------------------------------
LoopStep ==
  \/ LoopHead \/ LookEmpty \/ Relock \/ Block
  \/ LookEarly \/ BlockUntil \/ Timeout
  \/ LookDue \/ PopDue \/ Unlock \/ EachDone

StopStep == StopNotify \/ StopJoin

Next ==
  \/ Tick \/ Poke
  \/ \E e \in Entry : Schedule(e)
  \/ Load \/ Start \/ StopFlag \/ StopStep
  \/ LoopStep \/ Fire \/ SpuriousWake

Spec == Init /\ [][Next]_vars

(***************************************************************************)
(* The loop thread and a thread inside stop() are scheduled, and time      *)
(* passes.  No call and no spurious wakeup is owed.  Nor is the end of a   *)
(* hand-over: loop calls execute, and so the command, on its own thread,   *)
(* and a command need not end.  Where a promise needs it, it says so.      *)
(***************************************************************************)
FairSpec ==
  /\ Spec
  /\ WF_vars(LoopStep)
  /\ WF_vars(StopStep)
  /\ WF_vars(Tick)

\* Every hand-over returns: the commands end, or dispatch only queues them.
HandOversReturn == WF_vars(Fire)

-----------------------------------------------------------------------------
(***************************************************************************)
(* There is a loop thread exactly while its owner has started and not yet  *)
(* joined it, and due_ids is empty outside the two states that use it.     *)
(***************************************************************************)
TypeOK ==
  /\ now \in 0 .. MaxNow
  /\ heap \subseteq Entry
  /\ running \in BOOLEAN
  /\ pc \in LoopPc
  /\ at \in 0 .. MaxNow
  /\ batch \in Seq(Entry)
  /\ fired \subseteq Entry
  /\ owner \in OwnerPc
  /\ starts \in Nat
  /\ pokes \in Nat
  /\ late \in BOOLEAN
  /\ running <=> owner = "started"
  /\ owner \in {"new", "loaded", "stopped"} => pc = "none"
  /\ batch # <<>> => pc \in {"pop", "each"}

Timer == INSTANCE TimerQueue WITH pending <- heap, taken <- batch

(***************************************************************************)
(* The thread is a timer queue: whatever is pushed while it waits, pops or *)
(* hands over, an entry is handed over once, not before its time, and the  *)
(* earlier before the later.                                               *)
(***************************************************************************)
ImplementsTimerQueue == Timer!Spec

(***************************************************************************)
(* If hand-overs return, an entry that has been popped is handed over even *)
(* if stop is called while it is in due_ids: popping it took it out of the *)
(* heap.                                                                   *)
(***************************************************************************)
PoppedIsFired == HandOversReturn => Timer!TakenIsFired

(***************************************************************************)
(* No wakeup of schedule is lost: if hand-overs return, then while the     *)
(* thread runs, an entry whose time has come is handed over, also when it  *)
(* was pushed, earlier than anything in the heap, at the moment the loop   *)
(* went to wait.                                                           *)
(***************************************************************************)
DueIsFired ==
  HandOversReturn =>
    \A e \in Entry :
      (e \in heap /\ Due[e] <= now) ~> (e \in fired \/ owner # "started")

(***************************************************************************)
(* No notification of schedule is lost: with the mutex already released or *)
(* about to be, the loop sleeps without a limit only on an empty heap, and *)
(* with a limit exactly until the earliest entry in the heap.              *)
(***************************************************************************)
SleepsUntilTheTop ==
  /\ pc \in {"block", "wait"} => heap = {}
  /\ pc \in {"block_until", "wait_until"} => \E e \in Entry : IsTop(e) /\ at = Due[e]

(***************************************************************************)
(* Once stop has notified, the loop waits without a limit only if it went  *)
(* to wait after running_ was cleared.                                     *)
(***************************************************************************)
OnlyLateMissesTheStop == owner = "join" /\ pc = "wait" => late

(***************************************************************************)
(* Scheduler.cpp: the loop sleeps "until something is scheduled or we shut *)
(* down", and Scheduler.hpp: stop "blocks until thread exits".  So a call  *)
(* of stop returns, if the hand-overs it has to wait for do.               *)
(***************************************************************************)
StopReturns == HandOversReturn => (owner = "notify") ~> (owner = "stopped")

(***************************************************************************)
(* stop hangs in two cases only.  A hand-over does not return, which the   *)
(* premise excludes; or the loop found the heap empty and running_ set,    *)
(* running_ was then cleared and the notification sent, only after that    *)
(* did the loop go to wait, and there it stays for ever.  With an entry in *)
(* the heap stop returns, at the latest at the entry's time.               *)
(***************************************************************************)
StopReturnsUnlessLate ==
  HandOversReturn =>
    (owner = "notify") ~> (owner = "stopped" \/ [](late /\ pc = "wait"))

=============================================================================
