------------------------------ MODULE PlaceProofs ------------------------------
(***************************************************************************)
(* Theorems about JobSystem as long as nobody calls resume_job: a job is   *)
(* in one place, and what that place knows agrees with the job's row.      *)
(***************************************************************************)
EXTENDS JobProofs

USE DEF Goto, Return

-----------------------------------------------------------------------------
(* The inductive invariant.                                                *)

\* A sequence holds job j at most once.
AtMostOnce(j, s) == \A m, n \in 1 .. Len(s) : s[m] = j /\ s[n] = j => m = n

\* The heap, the threads and the open calls hold job j at most once.
HeapOnce(j) ==
  /\ \A t, u \in Time : heap[j][t] > 0 /\ heap[j][u] > 0 => t = u
  /\ \A t \in Time : heap[j][t] <= 1

ThreadOnce(j) == \A a, b \in Threads(j) : a = b
CallOnce(j)   == \A c, d \in Calls(j) : c = d

\* No kind of place holds job j twice.
Once(j) ==
  /\ HeapOnce(j)
  /\ AtMostOnce(j, loop.batch)
  /\ AtMostOnce(j, queue)
  /\ ThreadOnce(j)
  /\ CallOnce(j)

\* No two kinds of place hold job j.
Apart(j) ==
  /\ InHeap(j) => ~(\/ Occurs(j, loop.batch) \/ Dispatching(j)
                    \/ Occurs(j, queue) \/ OnThread(j) \/ Scheduling(j))
  /\ Occurs(j, loop.batch) => ~(\/ Dispatching(j) \/ Occurs(j, queue)
                                \/ OnThread(j) \/ Scheduling(j))
  /\ Dispatching(j) => ~(Occurs(j, queue) \/ OnThread(j) \/ Scheduling(j))
  /\ Occurs(j, queue) => ~(OnThread(j) \/ Scheduling(j))
  /\ OnThread(j) => ~Scheduling(j)

\* A process that is not running holds nothing.
DownIsEmpty ==
  ~up => /\ heap = EmptyHeap
         /\ loop = LoopStart
         /\ queue = <<>>
         /\ \A th \in Thread : frame[th].pc = "idle"
         /\ \A c \in Client : handler[c].pc = "idle"

\* A thread outside execute has no job, and no call of resume_job is open.
IdleHasNoJob ==
  /\ \A th \in Thread : frame[th].pc = "idle" => frame[th].id = NoJob
  /\ \A c \in Client : handler[c].pc # "resume"

\* Nothing holds a job that is not there yet, or has ended.
EndedIsUnheld ==
  \A j \in Job : db[j].status \in {"unused", "Completed", "Failed"} => ~Held(j)

PlaceInv ==
  /\ \A j \in Job : Once(j) /\ Apart(j)
  /\ DownIsEmpty
  /\ IdleHasNoJob
  /\ EndedIsUnheld

-----------------------------------------------------------------------------
(* One place.                                                              *)

\* Where no kind of place holds a job twice and no two kinds hold it, it is in
\* one place.
LEMMA OneKindOnce ==
  ASSUME TypeOK, NEW j \in Job, Once(j), Apart(j)
  PROVE  \A p, q \in Places(j) : p = q
<1> SUFFICES ASSUME NEW p \in Places(j), NEW q \in Places(j) PROVE p = q
  OBVIOUS
<1> DEFINE IsPlace(x) ==
      \/ \E t \in Time : heap[j][t] > 0 /\ x = <<"heap", t, 1>>
      \/ \E i \in 1 .. Len(loop.batch) : loop.batch[i] = j /\ x = <<"due_ids", i>>
      \/ Dispatching(j) /\ x = <<"dispatch">>
      \/ \E i \in 1 .. Len(queue) : queue[i] = j /\ x = <<"queue", i>>
      \/ \E th \in Thread : frame[th].id = j /\ x = <<"execute", th>>
      \/ \E c \in Client : handler[c].id = j /\ handler[c].pc = "schedule"
                             /\ x = <<"call", c>>
<1>1. ASSUME NEW x \in Places(j) PROVE IsPlace(x)
  <2>1. loop.batch \in Seq(Job) /\ queue \in Seq(Job)
    BY DEF TypeOK, LoopState
  <2>2. DOMAIN loop.batch = 1 .. Len(loop.batch) /\ DOMAIN queue = 1 .. Len(queue)
    BY <2>1, LenProperties
  <2> DEFINE H(t) == {"heap"} \X {t} \X (1 .. heap[j][t])
  <2>3. ASSUME NEW t \in Time, x \in H(t) PROVE IsPlace(x)
    <3>1. heap[j][t] \in Nat /\ heap[j][t] <= 1
      BY DEF TypeOK, Once, HeapOnce
    <3>2. PICK n \in 1 .. heap[j][t] : x = <<"heap", t, n>>
      BY <2>3
    <3>3. heap[j][t] > 0 /\ n = 1
      BY <3>1
    <3> QED
      BY <3>2, <3>3
  <2>4. /\ x \in {"due_ids"} \X Positions(j, loop.batch) => IsPlace(x)
        /\ x \in {"queue"} \X Positions(j, queue) => IsPlace(x)
    BY <2>2 DEF Positions
  <2>5. /\ x \in (IF Dispatching(j) THEN {<<"dispatch">>} ELSE {}) => IsPlace(x)
        /\ x \in {"execute"} \X Threads(j) => IsPlace(x)
        /\ x \in {"call"} \X Calls(j) => IsPlace(x)
    BY DEF Threads, Calls
  <2> HIDE DEF IsPlace
  <2>6. x \in UNION {H(t) : t \in Time} => IsPlace(x)
    BY <2>3
  <2> QED
    BY <2>4, <2>5, <2>6 DEF Places
<1>2. IsPlace(p) /\ IsPlace(q)
  BY <1>1
<1> HIDE DEF IsPlace
<1>3. CASE InHeap(j)
  <2>1. \A x : IsPlace(x) => \E t \in Time : heap[j][t] > 0 /\ x = <<"heap", t, 1>>
    BY <1>3 DEF IsPlace, Apart, Occurs, OnThread, Scheduling
  <2> QED
    BY <1>2, <2>1 DEF Once, HeapOnce, ThreadOnce, CallOnce, Threads, Calls
<1>4. CASE Occurs(j, loop.batch)
  <2>1. \A x : IsPlace(x) => \E i \in 1 .. Len(loop.batch) :
                               loop.batch[i] = j /\ x = <<"due_ids", i>>
    BY <1>4 DEF IsPlace, Apart, InHeap, Occurs, OnThread, Scheduling
  <2> QED
    BY <1>2, <2>1 DEF Once, AtMostOnce
<1>5. CASE Dispatching(j)
  <2>1. \A x : IsPlace(x) => x = <<"dispatch">>
    BY <1>5 DEF IsPlace, Apart, InHeap, Occurs, OnThread, Scheduling
  <2> QED
    BY <1>2, <2>1
<1>6. CASE Occurs(j, queue)
  <2>1. \A x : IsPlace(x) => \E i \in 1 .. Len(queue) : queue[i] = j /\ x = <<"queue", i>>
    BY <1>6 DEF IsPlace, Apart, InHeap, Occurs, OnThread, Scheduling
  <2> QED
    BY <1>2, <2>1 DEF Once, AtMostOnce
<1>7. CASE OnThread(j)
  <2>1. \A x : IsPlace(x) => \E th \in Thread : frame[th].id = j /\ x = <<"execute", th>>
    BY <1>7 DEF IsPlace, Apart, InHeap, Occurs, OnThread, Scheduling
  <2> QED
    BY <1>2, <2>1 DEF Once, HeapOnce, ThreadOnce, CallOnce, Threads, Calls
<1>8. CASE Scheduling(j)
  <2>1. \A x : IsPlace(x) => \E c \in Client : /\ handler[c].id = j
                                               /\ handler[c].pc = "schedule"
                                               /\ x = <<"call", c>>
    BY <1>8 DEF IsPlace, Apart, InHeap, Occurs, OnThread, Scheduling
  <2> QED
    BY <1>2, <2>1 DEF Once, HeapOnce, ThreadOnce, CallOnce, Threads, Calls
<1>9. IsPlace(p) => \/ InHeap(j) \/ Occurs(j, loop.batch) \/ Dispatching(j)
                    \/ Occurs(j, queue) \/ OnThread(j) \/ Scheduling(j)
  BY DEF IsPlace, InHeap, Occurs, OnThread, Scheduling
<1> QED
  BY <1>2, <1>3, <1>4, <1>5, <1>6, <1>7, <1>8, <1>9

\* Appending an id that a sequence does not hold.
LEMMA AppendOnce ==
  ASSUME NEW s \in Seq(Job), NEW j \in Job, NEW k \in Job,
         AtMostOnce(k, s), k = j => ~Occurs(k, s)
  PROVE  AtMostOnce(k, Append(s, j))
BY AppendProperties DEF AtMostOnce, Occurs

\* Taking the head of a sequence that holds it once takes it away.
LEMMA TailOnce ==
  ASSUME NEW s \in Seq(Job), s # <<>>, NEW k \in Job, AtMostOnce(k, s)
  PROVE  /\ Head(s) \in Job /\ Tail(s) \in Seq(Job)
         /\ Occurs(Head(s), s)
         /\ AtMostOnce(k, Tail(s))
         /\ Occurs(k, Tail(s)) => Occurs(k, s) /\ k # Head(s)
<1>1. /\ Len(s) \in Nat /\ Len(s) # 0
      /\ Tail(s) \in Seq(Job) /\ Len(Tail(s)) = Len(s) - 1
      /\ \A i \in 1 .. Len(Tail(s)) : Tail(s)[i] = s[i + 1]
      /\ Head(s) = s[1] /\ Head(s) \in Job
  BY HeadTailProperties, LenProperties, EmptySeq
<1>2. \A i \in 1 .. Len(Tail(s)) : i + 1 \in 1 .. Len(s) /\ i + 1 # 1
  BY <1>1
<1>3. 1 \in 1 .. Len(s)
  BY <1>1
<1>4. AtMostOnce(k, Tail(s))
  <2> SUFFICES ASSUME NEW m \in 1 .. Len(Tail(s)), NEW n \in 1 .. Len(Tail(s)),
                      Tail(s)[m] = k, Tail(s)[n] = k
               PROVE  m = n
    BY DEF AtMostOnce
  <2>1. m + 1 = n + 1
    BY <1>1, <1>2 DEF AtMostOnce
  <2> QED
    BY <1>1, <2>1
<1>5. Occurs(k, Tail(s)) => Occurs(k, s) /\ k # Head(s)
  BY <1>1, <1>2, <1>3 DEF Occurs, AtMostOnce
<1> QED
  BY <1>1, <1>3, <1>4, <1>5 DEF Occurs

\* Pushing an entry for a job that has none.
LEMMA PushOnce ==
  ASSUME TypeOK, NEW j \in Job, NEW t \in Time, Push(j, t), NEW k \in Job,
         HeapOnce(k), k = j => ~InHeap(k)
  PROVE  HeapOnce(k)' /\ (InHeap(k)' => InHeap(k) \/ k = j)
<1>1. heap[j] \in [Time -> Nat] /\ heap' = [heap EXCEPT ![j][t] = @ + 1]
  BY DEF TypeOK, Push
<1>2. CASE k = j
  <2>1. \A u \in Time : heap[j][u] = 0
    BY <1>1, <1>2 DEF InHeap
  <2>2. \A u \in Time : heap'[j][u] = IF u = t THEN 1 ELSE 0
    BY <1>1, <2>1 DEF TypeOK
  <2> QED
    BY <1>2, <2>2 DEF HeapOnce
<1>3. CASE k # j
  BY <1>1, <1>3 DEF TypeOK, HeapOnce, InHeap
<1> QED
  BY <1>2, <1>3

\* Popping the entry of a job that has one.
LEMMA PopOnce ==
  ASSUME TypeOK, NEW j \in Job, NEW t \in Time, heap[j][t] > 0,
         heap' = [heap EXCEPT ![j][t] = @ - 1], NEW k \in Job, HeapOnce(k)
  PROVE  HeapOnce(k)' /\ (InHeap(k)' => InHeap(k) /\ k # j)
<1>1. heap[j] \in [Time -> Nat]
  BY DEF TypeOK
<1>2. CASE k = j
  <2>1. \A u \in Time : heap'[j][u] = IF u = t THEN heap[j][t] - 1 ELSE heap[j][u]
    BY <1>1 DEF TypeOK
  <2>2. \A u \in Time : heap'[j][u] = 0
    BY <1>1, <1>2, <2>1 DEF HeapOnce
  <2> QED
    BY <1>2, <2>2 DEF HeapOnce, InHeap
<1>3. CASE k # j
  BY <1>1, <1>3 DEF TypeOK, HeapOnce, InHeap
<1> QED
  BY <1>2, <1>3

\* A part of the state that a step leaves alone holds the same jobs.
LEMMA SameParts ==
  ASSUME NEW k \in Job
  PROVE  /\ heap' = heap =>
              (HeapOnce(k)' <=> HeapOnce(k)) /\ (InHeap(k)' <=> InHeap(k))
         /\ loop'.batch = loop.batch =>
              /\ AtMostOnce(k, loop.batch)' <=> AtMostOnce(k, loop.batch)
              /\ Occurs(k, loop.batch)' <=> Occurs(k, loop.batch)
         /\ loop'.pc = loop.pc /\ loop'.id = loop.id =>
              (Dispatching(k)' <=> Dispatching(k))
         /\ queue' = queue =>
              /\ AtMostOnce(k, queue)' <=> AtMostOnce(k, queue)
              /\ Occurs(k, queue)' <=> Occurs(k, queue)
         /\ frame' = frame =>
              (ThreadOnce(k)' <=> ThreadOnce(k)) /\ (OnThread(k)' <=> OnThread(k))
         /\ handler' = handler =>
              (CallOnce(k)' <=> CallOnce(k)) /\ (Scheduling(k)' <=> Scheduling(k))
BY DEF HeapOnce, InHeap, Dispatching, ThreadOnce, OnThread, Threads, CallOnce,
       Scheduling, Calls

\* A thread outside execute takes a job, or one inside moves on or returns.
LEMMA FramePlaces ==
  ASSUME TypeOK, IdleHasNoJob, NEW th \in Thread, NEW f \in Frame,
         frame' = [frame EXCEPT ![th] = f],
         NEW k \in Job, ThreadOnce(k),
         f.id = k => frame[th].id = k \/ ~OnThread(k)
  PROVE  /\ ThreadOnce(k)'
         /\ OnThread(k)' <=> f.id = k \/ (OnThread(k) /\ frame[th].id # k)
BY DEF TypeOK, ThreadOnce, OnThread, Threads

\* A handler takes up a call of create_job, or its call moves on or returns.
LEMMA CallPlaces ==
  ASSUME TypeOK, NEW c \in Client, NEW h \in Handler,
         handler' = [handler EXCEPT ![c] = h],
         NEW k \in Job, CallOnce(k), h.id = k /\ h.pc = "schedule" => ~Scheduling(k)
  PROVE  /\ CallOnce(k)'
         /\ Scheduling(k)' => (h.id = k /\ h.pc = "schedule") \/ Scheduling(k)
         /\ handler[c].id = k /\ handler[c].pc = "schedule" /\ h.pc # "schedule"
              => ~Scheduling(k)'
BY DEF TypeOK, CallOnce, Scheduling, Calls

\* A step takes up no job that nothing held.
NoneTakenUp == \A k \in Job : Held(k)' => Held(k)

\* The unheld jobs stay unheld where no job is taken up, and none is given such a
\* status while it is held.
LEMMA Rearranged ==
  ASSUME PlaceInv, up', IdleHasNoJob',
         \A k \in Job : Once(k)' /\ Apart(k)' /\ (Held(k)' => Held(k)),
         \A k \in Job : db'[k].status \in {"unused", "Completed", "Failed"} =>
           db[k].status \in {"unused", "Completed", "Failed"} \/ ~Held(k)'
  PROVE  PlaceInv' /\ up' /\ NoneTakenUp
BY DEF PlaceInv, DownIsEmpty, EndedIsUnheld, NoneTakenUp

\* Only an update of the status to Completed or Failed ends a job.
LEMMA EndingWrites ==
  ASSUME TypeOK, NEW j \in Job, NEW k \in Job,
         db'[k].status \in {"unused", "Completed", "Failed"},
         db[k].status \notin {"unused", "Completed", "Failed"}
  PROVE  /\ db' # db
         /\ \A s \in JobStatus : db' = UpdateStatus(db, j, s) =>
              k = j /\ s \in {"Completed", "Failed"}
         /\ \A t \in Time : db' # UpdateNextRun(db, j, t)
         /\ \A n \in Nat : db' # UpdateRetryCount(db, j, n)
         /\ db' # Remove(db, j)
<1> db \in [Job -> Row]
  BY DEF TypeOK
<1>0. "Active" \in JobStatus /\ 0 \in Time /\ 0 \in Nat
  BY ModelAssumption DEF JobStatus, Time, ModelAssumption
<1>1. \A s \in JobStatus : db' = UpdateStatus(db, j, s) =>
        k = j /\ s \in {"Completed", "Failed"}
  <2> SUFFICES ASSUME NEW s \in JobStatus, db' = UpdateStatus(db, j, s)
               PROVE  k = j /\ s \in {"Completed", "Failed"}
    OBVIOUS
  <2>1. db'[k].status = IF k = j /\ Present(db, j) THEN s ELSE db[k].status
    BY <1>0, TableStatus
  <2> QED
    BY <2>1 DEF JobStatus
<1>2. \A t \in Time : UpdateNextRun(db, j, t)[k].status = db[k].status
  BY <1>0, TableStatus
<1>3. \A n \in Nat : UpdateRetryCount(db, j, n)[k].status = db[k].status
  BY <1>0, TableStatus
<1>4. Remove(db, j)[k].status \in {"removed", db[k].status}
  BY <1>0, TableStatus
<1> QED
  BY <1>1, <1>2, <1>3, <1>4

\* The loop thread takes a job from the heap to due_ids, and from there to a
\* call of execute, or of dispatch and then to the pool, or drops it.
LEMMA LoopPlaces ==
  ASSUME TypeOK, PlaceInv, LoopStep
  PROVE  PlaceInv' /\ up' /\ NoneTakenUp
<1> USE DEF Apart, Once, Held
<1>0. /\ loop.batch \in Seq(Job) /\ queue \in Seq(Job) /\ Loop \in Thread
      /\ \A k \in Job : Once(k) /\ Apart(k)
      /\ IdleHasNoJob /\ handler' = handler
  BY DEF PlaceInv, TypeOK, LoopState, Thread, LoopStep, LoopLock, LoopPop,
         LoopUnlock, LoopSkip, LoopExecute, LoopDispatch, LoopAgain, MarkRunning,
         Submit
<1>1. up'
  <2>1. up' = up
    BY DEF LoopStep, LoopLock, LoopPop, LoopUnlock, LoopSkip, LoopExecute,
           LoopDispatch, LoopAgain, MarkRunning, Submit
  <2>2. ~up => ~LoopStep
    BY DEF PlaceInv, DownIsEmpty, LoopStart, EmptyHeap, HasDue, AtEach, LoopStep,
           LoopLock, LoopPop, LoopUnlock, LoopSkip, LoopExecute, LoopDispatch,
           LoopAgain, MarkRunning, Submit
  <2> QED
    BY <2>1, <2>2 DEF TypeOK
<1>2. ASSUME IdleHasNoJob', db' = db,
             \A k \in Job : Once(k)' /\ Apart(k)' /\ (Held(k)' => Held(k))
      PROVE  PlaceInv' /\ up' /\ NoneTakenUp
  BY <1>1, <1>2, Rearranged
<1>3. frame' = frame => IdleHasNoJob'
  BY <1>0 DEF IdleHasNoJob
<1>4. ASSUME loop.batch # <<>>, loop'.batch = Tail(loop.batch), NEW k \in Job
      PROVE  /\ AtMostOnce(k, loop.batch)'
             /\ Head(loop.batch) \in Job /\ Occurs(Head(loop.batch), loop.batch)
             /\ Occurs(k, loop.batch)' => Occurs(k, loop.batch) /\ k # Head(loop.batch)
  BY <1>0, <1>4, TailOnce
<1>5. CASE LoopLock \/ LoopUnlock \/ LoopAgain
  <2>1. /\ db' = db /\ heap' = heap /\ queue' = queue /\ frame' = frame
        /\ loop'.batch = loop.batch
    BY <1>5 DEF LoopLock, LoopUnlock, LoopAgain, TypeOK, LoopState
  <2>2. loop.pc \notin {"mark", "submit"} /\ loop'.pc \notin {"mark", "submit"}
    BY <1>5 DEF LoopLock, LoopUnlock, LoopAgain, AtEach, TypeOK, LoopState
  <2>3. \A k \in Job : ~Dispatching(k) /\ ~Dispatching(k)'
    BY <2>2 DEF Dispatching
  <2> QED
    BY <1>0, <1>2, <1>3, <2>1, <2>3, SameParts
<1>6. CASE LoopPop
  <2> PICK j \in Job, t \in Time :
        /\ heap[j][t] > 0
        /\ heap' = [heap EXCEPT ![j][t] = @ - 1]
        /\ loop' = [loop EXCEPT !.batch = Append(@, j)]
    BY <1>6 DEF LoopPop, Earliest
  <2>1. /\ db' = db /\ queue' = queue /\ frame' = frame
        /\ loop'.batch = Append(loop.batch, j)
        /\ loop'.pc = loop.pc /\ loop'.id = loop.id
    BY <1>6 DEF LoopPop, TypeOK, LoopState
  <2>2. InHeap(j)
    BY DEF InHeap
  <2>3. ASSUME NEW k \in Job
        PROVE  Once(k)' /\ Apart(k)' /\ (Held(k)' => Held(k))
    <3>1. HeapOnce(k)' /\ (InHeap(k)' => InHeap(k) /\ k # j)
      BY <1>0, PopOnce
    <3>2. k = j => ~Occurs(k, loop.batch)
      BY <1>0, <2>2
    <3>3. AtMostOnce(k, loop.batch)' /\ (Occurs(k, loop.batch)' <=> Occurs(k, loop.batch) \/ k = j)
      BY <1>0, <2>1, <3>2, AppendOnce, OccursAppend
    <3> QED
      BY <1>0, <2>1, <2>2, <3>1, <3>3, SameParts
  <2> QED
    BY <1>2, <1>3, <2>1, <2>3
<1>7. CASE LoopSkip
  <2>1. /\ db' = db /\ heap' = heap /\ queue' = queue /\ frame' = frame
        /\ loop.batch # <<>> /\ loop'.batch = Tail(loop.batch)
        /\ loop'.pc = loop.pc /\ loop'.id = loop.id
    BY <1>7 DEF LoopSkip, TypeOK, LoopState
  <2> QED
    BY <1>0, <1>2, <1>3, <1>4, <2>1, SameParts
<1>8. CASE LoopExecute
  <2> DEFINE j == Head(loop.batch)
  <2>1. /\ db' = db /\ heap' = heap /\ queue' = queue
        /\ loop.batch # <<>> /\ loop'.batch = Tail(loop.batch)
        /\ loop'.pc = loop.pc /\ loop'.id = loop.id
        /\ frame' = [frame EXCEPT ![Loop] = ExecuteCall(j)]
        /\ frame[Loop].pc = "idle"
    BY <1>8 DEF LoopExecute, AtEach, TypeOK, LoopState
  <2>2. j \in Job
    BY <1>0, <2>1, HeadTailProperties
  <2>3. ExecuteCall(j) \in Frame /\ ExecuteCall(j).id = j /\ ExecuteCall(j).pc = "reread"
    BY <2>2, CallTypes DEF ExecuteCall
  <2>4. frame[Loop].id = NoJob /\ IdleHasNoJob'
    BY <1>0, <2>1, <2>3 DEF IdleHasNoJob, TypeOK
  <2>5. ASSUME NEW k \in Job
        PROVE  Once(k)' /\ Apart(k)' /\ (Held(k)' => Held(k))
    <3>1. frame[Loop].id # k
      BY <2>4, SystemAssumption DEF SystemAssumption
    <3>2. k = j => ~OnThread(k)
      BY <1>0, <1>4, <2>1
    <3>3. ThreadOnce(k)' /\ (OnThread(k)' <=> j = k \/ OnThread(k))
      BY <1>0, <2>1, <2>2, <2>3, <3>1, <3>2, FramePlaces
    <3> HIDE DEF j
    <3>4. /\ Occurs(j, loop.batch) /\ AtMostOnce(k, loop.batch)'
          /\ Occurs(k, loop.batch)' => Occurs(k, loop.batch) /\ k # j
      BY <1>4, <2>1 DEF j
    <3> QED
      BY <1>0, <2>1, <2>2, <3>3, <3>4, SameParts
  <2> QED
    BY <1>2, <2>1, <2>4, <2>5
<1>9. CASE LoopDispatch
  <2> DEFINE j == Head(loop.batch)
  <2>1. /\ db' = db /\ heap' = heap /\ queue' = queue /\ frame' = frame
        /\ loop.batch # <<>> /\ loop'.batch = Tail(loop.batch)
        /\ loop.pc = "each" /\ loop'.pc = "mark" /\ loop'.id = j
    BY <1>9 DEF LoopDispatch, AtEach, TypeOK, LoopState
  <2>2. ASSUME NEW k \in Job
        PROVE  Once(k)' /\ Apart(k)' /\ (Held(k)' => Held(k))
    <3>1. Dispatching(k)' <=> k = j
      BY <2>1 DEF Dispatching
    <3> QED
      BY <1>0, <1>4, <2>1, <3>1, SameParts
  <2> QED
    BY <1>2, <1>3, <2>1, <2>2
<1>10. CASE MarkRunning
  <2>1. /\ heap' = heap /\ queue' = queue /\ frame' = frame
        /\ loop'.batch = loop.batch
        /\ loop.pc = "mark" /\ loop'.pc = "submit" /\ loop'.id = loop.id
        /\ loop.id \in Job
    BY <1>10 DEF MarkRunning, TypeOK, LoopState
  <2>2. \A k \in Job : Dispatching(k)' <=> Dispatching(k)
    BY <2>1 DEF Dispatching
  <2>3. \A k \in Job : db'[k].status \in {"unused", "Completed", "Failed"} =>
                         db[k].status \in {"unused", "Completed", "Failed"}
    BY <1>10, <2>1 DEF MarkRunning, UpdateStatus, TypeOK, Row
  <2> QED
    BY <1>0, <1>1, <1>3, <2>1, <2>2, <2>3, SameParts, Rearranged
<1>11. CASE Submit
  <2>1. /\ db' = db /\ heap' = heap /\ frame' = frame
        /\ loop'.batch = loop.batch
        /\ loop.pc = "submit" /\ loop'.pc = "each" /\ loop.id \in Job
        /\ queue' = Append(queue, loop.id)
    BY <1>11 DEF Submit, TypeOK, LoopState
  <2>2. ASSUME NEW k \in Job
        PROVE  Once(k)' /\ Apart(k)' /\ (Held(k)' => Held(k))
    <3>1. (Dispatching(k) <=> k = loop.id) /\ ~Dispatching(k)'
      BY <2>1 DEF Dispatching
    <3>2. AtMostOnce(k, queue)' /\ (Occurs(k, queue)' <=> Occurs(k, queue) \/ k = loop.id)
      BY <1>0, <2>1, <3>1, AppendOnce, OccursAppend
    <3> QED
      BY <1>0, <2>1, <3>1, <3>2, SameParts
  <2> QED
    BY <1>2, <1>3, <2>1, <2>2
<1> QED
  BY <1>5, <1>6, <1>7, <1>8, <1>9, <1>10, <1>11 DEF LoopStep

\* A worker takes a call from the queue.
LEMMA WorkerPlaces ==
  ASSUME TypeOK, PlaceInv, NEW w \in Worker, WorkerTake(w)
  PROVE  PlaceInv' /\ up' /\ NoneTakenUp
<1> USE DEF Apart, Once, Held
<1> DEFINE j == Head(queue)
<1>1. /\ queue \in Seq(Job) /\ queue # <<>> /\ queue' = Tail(queue)
      /\ w \in Thread /\ frame[w].pc = "idle"
      /\ frame' = [frame EXCEPT ![w] = ExecuteCall(j)]
      /\ UNCHANGED <<db, up, heap, loop, handler>>
      /\ \A k \in Job : Once(k) /\ Apart(k)
      /\ IdleHasNoJob
  BY DEF WorkerTake, TypeOK, Thread, PlaceInv
<1>2. up'
  BY <1>1 DEF PlaceInv, DownIsEmpty
<1>3. \A k \in Job : /\ AtMostOnce(k, queue)' /\ j \in Job /\ Occurs(j, queue)
                     /\ Occurs(k, queue)' => Occurs(k, queue) /\ k # j
  BY <1>1, TailOnce
<1>4. j \in Job
  BY <1>1, HeadTailProperties
<1>5. ExecuteCall(j) \in Frame /\ ExecuteCall(j).id = j /\ ExecuteCall(j).pc = "reread"
  BY <1>4, CallTypes DEF ExecuteCall
<1>6. frame[w].id = NoJob /\ IdleHasNoJob'
  BY <1>1, <1>5 DEF IdleHasNoJob, TypeOK
<1> HIDE DEF j
<1>7. ASSUME NEW k \in Job
      PROVE  Once(k)' /\ Apart(k)' /\ (Held(k)' => Held(k))
  <2>1. frame[w].id # k
    BY <1>6, SystemAssumption DEF SystemAssumption
  <2>2. k = j => Occurs(k, queue) /\ ~OnThread(k)
    BY <1>1, <1>3
  <2>3. ThreadOnce(k)' /\ (OnThread(k)' <=> j = k \/ OnThread(k))
    BY <1>1, <1>5, <2>1, <2>2, FramePlaces
  <2> QED
    BY <1>1, <1>3, <2>2, <2>3, SameParts
<1> QED
  BY <1>1, <1>2, <1>6, <1>7, Rearranged

\* A step of execute, or an answer of the runner, changes the frame of its thread,
\* the table and the heap, and nothing else; the thread keeps its job or returns.
LEMMA ExecuteMoves ==
  ASSUME TypeOK, NEW th \in Thread, ExecuteStep(th) \/ RunnerReturns(th)
  PROVE  /\ frame[th].pc # "idle" /\ frame[th].id \in Job
         /\ UNCHANGED <<now, up, loop, queue, handler, calls, crashes>>
         /\ \E f \in Frame : /\ frame' = [frame EXCEPT ![th] = f]
                             /\ f.id = frame[th].id \/ f = NoFrame
                             /\ f.pc = "idle" => f = NoFrame
<1> DEFINE j == frame[th].id
<1>1. /\ frame[th].pc # "idle" /\ j \in Job /\ frame[th] \in Frame
      /\ UNCHANGED <<now, up, loop, queue, handler, calls, crashes>>
  <2>1. /\ frame[th].pc # "idle"
        /\ UNCHANGED <<now, up, loop, queue, handler, calls, crashes>>
    BY DEF ExecuteStep, RunnerReturns, Reread, Repause, RunStart, RunSucceed,
       RunFail, Complete, Fail, SetActive, SetNext, ResetCount, CountRetry,
       SetRetryNext, SetRetryActive, Reschedule, Write, WriteAndReturn
  <2> QED
    BY <2>1 DEF TypeOK
<1>2. NoFrame \in Frame /\ NoFrame.id = NoJob /\ NoFrame.pc = "idle"
  BY ModelAssumption DEF NoFrame, Frame, ExecPc, Time, ModelAssumption
<1>3. \E f \in Frame : /\ frame' = [frame EXCEPT ![th] = f]
                       /\ f.id = j \/ f = NoFrame
                       /\ f.pc = "idle" => f = NoFrame
  <2>1. CASE Repause(th) \/ Complete(th) \/ Fail(th) \/ Reschedule(th)
    BY <1>2, <2>1 DEF Repause, Complete, Fail, Reschedule, WriteAndReturn
  <2>2. CASE Reread(th)
    <3> DEFINE pc == AfterReread(j, db[j])
               f == [frame[th] EXCEPT !.pc = pc, !.count = db[j].retry_count]
    <3>1. pc \in {"return", "repause", "fail", "start"}
      BY DEF AfterReread
    <3>2. pc = "return" => frame' = [frame EXCEPT ![th] = NoFrame]
      BY <2>2 DEF Reread
    <3>3. pc # "return" => frame' = [frame EXCEPT ![th] = f]
      BY <2>2 DEF Reread
    <3>4. pc # "return" => f \in Frame /\ f.id = j /\ f.pc # "idle"
      BY <1>1, <3>1 DEF Frame, ExecPc, TypeOK, Row
    <3> QED
      BY <1>2, <3>2, <3>3, <3>4
  <2>3. CASE RunSucceed(th)
    <3>1. PICK n \in NextRuns(j, now) :
            IF IsLast(j, n)
            THEN Goto(th, "complete")
            ELSE frame' = [frame EXCEPT ![th] = [@ EXCEPT !.pc = "set_active", !.next = n]]
      BY <2>3 DEF RunSucceed
    <3>2. n \in Time \/ IsLast(j, n)
      BY <1>1, NextRunsTypes DEF IsLast, TypeOK
    <3>3. CASE IsLast(j, n)
      <4>1. [frame[th] EXCEPT !.pc = "complete"] \in Frame
        BY <1>1 DEF Frame, ExecPc
      <4> QED
        BY <1>1, <3>1, <3>3, <4>1 DEF TypeOK, Frame
    <3>4. CASE ~IsLast(j, n)
      <4>1. [frame[th] EXCEPT !.pc = "set_active", !.next = n] \in Frame
        BY <1>1, <3>2, <3>4 DEF Frame, ExecPc
      <4>2. frame' = [frame EXCEPT ![th] = [frame[th] EXCEPT !.pc = "set_active", !.next = n]]
        BY <3>1, <3>4
      <4> QED
        BY <1>1, <4>1, <4>2 DEF Frame
    <3> QED
      BY <3>3, <3>4
  <2>4. CASE SetRetryNext(th)
    <3> DEFINE at == now + RetryDelay[j]
    <3>1. now \in 0 .. MaxNow /\ RetryDelay[j] \in 0 .. MaxSpan
      BY <1>1, ModelAssumption DEF TypeOK, ModelAssumption
    <3>2. at \in Time
      BY <3>1, ModelAssumption DEF Time, ModelAssumption
    <3>3. frame' = [frame EXCEPT ![th] = [frame[th] EXCEPT !.pc = "set_retry_active", !.next = at]]
      BY <2>4 DEF SetRetryNext
    <3> HIDE DEF at
    <3>4. [frame[th] EXCEPT !.pc = "set_retry_active", !.next = at] \in Frame
      BY <1>1, <3>2 DEF Frame, ExecPc
    <3> QED
      BY <1>1, <3>3, <3>4 DEF Frame
  <2>5. CASE \/ RunStart(th) \/ RunFail(th) \/ SetActive(th) \/ SetNext(th)
             \/ ResetCount(th) \/ CountRetry(th) \/ SetRetryActive(th)
    <3>1. PICK pc \in ExecPc \ {"idle"} : frame' = [frame EXCEPT ![th].pc = pc]
      BY <2>5 DEF RunStart, RunFail, SetActive, SetNext, ResetCount, CountRetry,
         SetRetryActive, Write, ExecPc
    <3>2. [frame[th] EXCEPT !.pc = pc] \in Frame
      BY <1>1 DEF Frame
    <3> QED
      BY <1>1, <3>1, <3>2 DEF Frame, TypeOK
  <2> QED
    BY <2>1, <2>2, <2>3, <2>4, <2>5 DEF ExecuteStep, RunnerReturns
<1> QED
  BY <1>1, <1>3

\* A step of execute, or an answer of the runner, moves a thread on, ends its
\* call, or turns the call into an entry of the heap.
LEMMA ExecutePlaces ==
  ASSUME TypeOK, PlaceInv, NEW th \in Thread,
         ExecuteStep(th) \/ RunnerReturns(th)
  PROVE  PlaceInv' /\ up' /\ NoneTakenUp
<1> USE DEF Apart, Once, Held
<1> DEFINE j == frame[th].id
<1>1. /\ frame[th].pc # "idle" /\ j \in Job /\ frame[th] \in Frame
      /\ UNCHANGED <<up, loop, queue, handler>>
      /\ \A k \in Job : Once(k) /\ Apart(k)
      /\ IdleHasNoJob
  BY ExecuteMoves DEF TypeOK, PlaceInv
<1>2. up'
  BY <1>1 DEF PlaceInv, DownIsEmpty, TypeOK
<1>3. NoFrame \in Frame /\ NoFrame.id = NoJob /\ NoFrame.pc = "idle"
  BY ModelAssumption DEF NoFrame, Frame, ExecPc, Time, ModelAssumption
<1>4. OnThread(j)
  BY <1>1 DEF OnThread
<1>5. ASSUME NEW f \in Frame, frame' = [frame EXCEPT ![th] = f],
             f.id = j \/ f = NoFrame, f.pc = "idle" => f = NoFrame
      PROVE  /\ IdleHasNoJob'
             /\ \A k \in Job : /\ ThreadOnce(k)'
                               /\ OnThread(k)' => OnThread(k)
                               /\ f = NoFrame /\ k = j => ~OnThread(k)'
  <2>1. IdleHasNoJob'
    BY <1>1, <1>3, <1>5 DEF IdleHasNoJob, TypeOK
  <2>2. ASSUME NEW k \in Job
        PROVE  ThreadOnce(k)' /\ (OnThread(k)' <=> f.id = k \/ (OnThread(k) /\ j # k))
    <3>1. f.id = k => j = k
      BY <1>3, <1>5, SystemAssumption DEF SystemAssumption
    <3> QED
      BY <1>1, <1>5, <3>1, FramePlaces
  <2>3. NoJob \notin Job
    BY SystemAssumption DEF SystemAssumption
  <2> QED
    BY <1>3, <1>4, <1>5, <2>1, <2>2, <2>3
<1>6. ASSUME NEW f \in Frame, frame' = [frame EXCEPT ![th] = f],
             f.id = j \/ f = NoFrame, f.pc = "idle" => f = NoFrame, heap' = heap,
             \A k \in Job : db'[k].status \in {"unused", "Completed", "Failed"} =>
               db[k].status \in {"unused", "Completed", "Failed"} \/ (f = NoFrame /\ k = j)
      PROVE  PlaceInv' /\ up' /\ NoneTakenUp
  <2>1. IdleHasNoJob'
    BY <1>5, <1>6
  <2>2. \A k \in Job : ThreadOnce(k)' /\ (OnThread(k)' => OnThread(k))
    BY <1>5, <1>6
  <2>3. \A k \in Job : f = NoFrame /\ k = j => ~OnThread(k)'
    BY <1>5, <1>6
  <2>4. \A k \in Job : Once(k)' /\ Apart(k)' /\ (Held(k)' => Held(k))
    BY <1>1, <1>6, <2>2, SameParts
  <2> HIDE DEF j
  <2>5. ASSUME NEW k \in Job, f = NoFrame, k = j PROVE ~Held(k)'
    <3>1. Apart(k) /\ OnThread(k) /\ ~OnThread(k)'
      BY <1>1, <1>4, <2>3, <2>5
    <3> QED
      BY <1>1, <1>6, <3>1, SameParts
  <2>6. \A k \in Job : db'[k].status \in {"unused", "Completed", "Failed"} =>
          db[k].status \in {"unused", "Completed", "Failed"} \/ ~Held(k)'
    BY <1>6, <2>5
  <2> HIDE DEF Held, Once, Apart
  <2> QED
    BY <1>2, <2>1, <2>4, <2>6, Rearranged
<1>7. ASSUME NEW k \in Job, db'[k].status \in {"unused", "Completed", "Failed"},
             db[k].status \notin {"unused", "Completed", "Failed"}
      PROVE  k = j /\ (Complete(th) \/ Fail(th))
  <2>1. \/ db' = db
        \/ \E s \in JobStatus : /\ db' = UpdateStatus(db, j, s)
                                /\ s \in {"Completed", "Failed"} =>
                                     Complete(th) \/ Fail(th)
        \/ \E t \in Time : db' = UpdateNextRun(db, j, t)
        \/ \E n \in Nat : db' = UpdateRetryCount(db, j, n)
    <3>1. CASE SetRetryNext(th)
      <4>1. now \in 0 .. MaxNow /\ RetryDelay[j] \in 0 .. MaxSpan
        BY <1>1, ModelAssumption DEF TypeOK, ModelAssumption
      <4>2. now + RetryDelay[j] \in Time
        BY <4>1, ModelAssumption DEF Time, ModelAssumption
      <4> QED
        BY <3>1, <4>2 DEF SetRetryNext
    <3>2. CASE ~SetRetryNext(th)
      <4>1. frame[th].count + 1 \in Nat /\ frame[th].next \in Time
        BY <1>1 DEF Frame
      <4> QED
        BY <3>2, <4>1 DEF ExecuteStep, RunnerReturns, Reread, Repause, RunStart,
           RunSucceed, RunFail, Complete, Fail, SetActive, SetNext, ResetCount,
           CountRetry, SetRetryActive, Reschedule, Write, WriteAndReturn, JobStatus
    <3> QED
      BY <3>1, <3>2
  <2> HIDE DEF j
  <2> QED
    BY <1>1, <1>7, <2>1, EndingWrites
<1>8. CASE Reschedule(th)
  <2>1. Push(j, frame[th].next) /\ frame[th].next \in Time /\ db' = db
        /\ frame' = [frame EXCEPT ![th] = NoFrame]
    BY <1>1, <1>8 DEF Reschedule, Frame
  <2>2. IdleHasNoJob'
    BY <1>3, <1>5, <2>1
  <2>3. ASSUME NEW k \in Job
        PROVE  Once(k)' /\ Apart(k)' /\ (Held(k)' => Held(k))
    <3>1. HeapOnce(k)' /\ (InHeap(k)' => InHeap(k) \/ k = j)
      BY <1>1, <1>4, <2>1, PushOnce
    <3>2. ThreadOnce(k)' /\ (OnThread(k)' => OnThread(k) /\ k # j)
      BY <1>3, <1>5, <2>1
    <3> QED
      BY <1>1, <1>4, <3>1, <3>2, SameParts
  <2> QED
    BY <1>2, <2>1, <2>2, <2>3, Rearranged
<1>9. CASE ~Reschedule(th)
  <2>1. heap' = heap
    BY <1>9 DEF ExecuteStep, RunnerReturns, Reread, Repause, RunStart, RunSucceed,
       RunFail, Complete, Fail, SetActive, SetNext, ResetCount, CountRetry,
       SetRetryNext, SetRetryActive, Write, WriteAndReturn
  <2>2. Complete(th) \/ Fail(th) => frame' = [frame EXCEPT ![th] = NoFrame]
    BY DEF Complete, Fail, WriteAndReturn
  <2>4. PICK f \in Frame : /\ frame' = [frame EXCEPT ![th] = f]
                           /\ f.id = j \/ f = NoFrame
                           /\ f.pc = "idle" => f = NoFrame
    BY ExecuteMoves
  <2>5. Complete(th) \/ Fail(th) => f = NoFrame
    BY <2>2, <2>4 DEF TypeOK
  <2> QED
    BY <1>6, <1>7, <2>1, <2>4, <2>5
<1> QED
  BY <1>8, <1>9

\* A step takes up no job, unless it creates it.
OnlyNewTakenUp == \A k \in Job : Held(k)' => Held(k) \/ db[k].status = "unused"

\* Without resume_job, a handler takes up a job when create_job has saved it and
\* hands it to the scheduler; no other call does.
LEMMA HandlerPlaces ==
  ASSUME "resume" \notin Ops, TypeOK, PlaceInv, NEW c \in Client,
         HandlerBegin(c) \/ HandlerStep(c)
  PROVE  /\ PlaceInv' /\ up' /\ OnlyNewTakenUp
         /\ NoneTakenUp \/ \E j \in Job : CreateSave(c, j)
<1> USE DEF Apart, Once, Held
<1>1. /\ UNCHANGED <<loop, queue, frame>>
      /\ \A k \in Job : Once(k) /\ Apart(k)
      /\ IdleHasNoJob
  BY DEF HandlerBegin, HandlerStep, CreateSave, PauseFind, ResumeFind, DeleteFind,
         CallSchedule, PauseWrite, ResumeWrite, DeleteRemove, PlaceInv
<1>2. up'
  BY DEF PlaceInv, DownIsEmpty, HandlerBegin, HandlerStep, CreateSave, PauseFind,
         ResumeFind, DeleteFind, BeginCall, CallSchedule, PauseWrite, ResumeWrite,
         DeleteRemove, TypeOK
<1>3. NoHandler \in Handler /\ NoHandler.pc = "idle"
  BY ModelAssumption DEF NoHandler, Handler, HandlerPc, Time, ModelAssumption
<1>4. ASSUME NEW h \in Handler, handler' = [handler EXCEPT ![c] = h],
             h.pc \notin {"schedule", "resume"}
      PROVE  /\ IdleHasNoJob'
             /\ \A k \in Job : CallOnce(k)' /\ (Scheduling(k)' => Scheduling(k))
  BY <1>1, <1>4, CallPlaces DEF IdleHasNoJob, TypeOK
<1>5. ASSUME NEW h \in Handler, handler' = [handler EXCEPT ![c] = h],
             h.pc \notin {"schedule", "resume"}, heap' = heap,
             \A k \in Job : db'[k].status \in {"unused", "Completed", "Failed"} =>
               db[k].status \in {"unused", "Completed", "Failed"}
      PROVE  PlaceInv' /\ up' /\ NoneTakenUp
  <2>1. \A k \in Job : Once(k)' /\ Apart(k)' /\ (Held(k)' => Held(k))
    BY <1>1, <1>4, <1>5, SameParts
  <2> QED
    BY <1>2, <1>4, <1>5, <2>1, Rearranged
<1>6. ASSUME NEW j \in Job, CreateSave(c, j)
      PROVE  PlaceInv' /\ up' /\ OnlyNewTakenUp
  <2>1. PICK n \in NextRuns(j, now) \ {NoTime} :
          /\ db' = Save(db, j, n)
          /\ handler' = [handler EXCEPT ![c] = [pc |-> "schedule", id |-> j, next |-> n]]
    BY <1>6 DEF CreateSave, BeginCall
  <2> DEFINE h == [pc |-> "schedule", id |-> j, next |-> n]
  <2>2. n \in Time
    BY NextRunsTypes DEF TypeOK
  <2>3. h \in Handler /\ h.pc = "schedule" /\ h.id = j
    BY <2>2 DEF Handler, HandlerPc
  <2>4. ~Held(j) /\ heap' = heap
    BY <1>6 DEF CreateSave, PlaceInv, EndedIsUnheld
  <2> HIDE DEF h
  <2>5. ASSUME NEW k \in Job
        PROVE  Once(k)' /\ Apart(k)' /\ (Held(k)' => Held(k) \/ k = j)
    <3>1. CallOnce(k)' /\ (Scheduling(k)' => k = j \/ Scheduling(k))
      BY <1>1, <2>1, <2>3, <2>4, CallPlaces DEF h
    <3> QED
      BY <1>1, <2>4, <3>1, SameParts
  <2>6. IdleHasNoJob'
    BY <1>1, <2>1, <2>3 DEF IdleHasNoJob, TypeOK, h
  <2>7. /\ db'[j].status = "Active"
        /\ \A k \in Job : k # j => db'[k] = db[k]
    BY <2>1 DEF Save, TypeOK
  <2>8. EndedIsUnheld'
    BY <2>5, <2>7 DEF PlaceInv, EndedIsUnheld
  <2> QED
    BY <1>2, <1>6, <2>5, <2>6, <2>8 DEF PlaceInv, DownIsEmpty, OnlyNewTakenUp, CreateSave
<1>7. ASSUME NEW j \in Job, PauseFind(c, j) \/ DeleteFind(c, j) PROVE PlaceInv' /\ up' /\ NoneTakenUp
  <2>1. PICK h \in {[NoHandler EXCEPT !.pc = "pause", !.id = j],
                    [NoHandler EXCEPT !.pc = "delete", !.id = j]} :
          handler' = [handler EXCEPT ![c] = h] /\ db' = db /\ heap' = heap
    BY <1>7 DEF PauseFind, DeleteFind, BeginCall
  <2>2. h \in Handler /\ h.pc \notin {"schedule", "resume"}
    BY <1>3 DEF NoHandler, Handler, HandlerPc
  <2> QED
    BY <1>5, <2>1, <2>2
<1>8. ASSUME NEW j \in Job, ResumeFind(c, j) PROVE FALSE
  BY <1>8 DEF ResumeFind, BeginCall
<1>9. ASSUME ResumeWrite(c) PROVE FALSE
  BY <1>1, <1>9 DEF ResumeWrite, IdleHasNoJob
<1>10. ASSUME PauseWrite(c) \/ DeleteRemove(c) PROVE PlaceInv' /\ up' /\ NoneTakenUp
  <2>1. /\ handler' = [handler EXCEPT ![c] = NoHandler] /\ heap' = heap
        /\ handler[c].id \in Job
    BY <1>10 DEF PauseWrite, DeleteRemove, TypeOK
  <2>2. \A k \in Job : db'[k].status \in {"unused", "Completed", "Failed"} =>
                         db[k].status \in {"unused", "Completed", "Failed"}
    BY <1>10, <2>1, EndingWrites DEF PauseWrite, DeleteRemove, JobStatus
  <2> QED
    BY <1>3, <1>5, <2>1, <2>2
<1>11. ASSUME CallSchedule(c) PROVE PlaceInv' /\ up' /\ NoneTakenUp
  <2> DEFINE j == handler[c].id
  <2>1. /\ handler[c].pc = "schedule" /\ j \in Job /\ handler[c].next \in Time
        /\ Push(j, handler[c].next) /\ db' = db
        /\ handler' = [handler EXCEPT ![c] = NoHandler]
    BY <1>11 DEF CallSchedule, TypeOK, Handler
  <2>2. Scheduling(j)
    BY <2>1 DEF Scheduling
  <2>3. ASSUME NEW k \in Job
        PROVE  Once(k)' /\ Apart(k)' /\ (Held(k)' => Held(k))
    <3>1. HeapOnce(k)' /\ (InHeap(k)' => InHeap(k) \/ k = j)
      BY <1>1, <2>1, <2>2, PushOnce
    <3>2. CallOnce(k)' /\ (Scheduling(k)' => Scheduling(k) /\ k # j)
      BY <1>1, <1>3, <2>1, CallPlaces
    <3> QED
      BY <1>1, <2>2, <3>1, <3>2, SameParts
  <2> QED
    BY <1>2, <1>3, <1>4, <2>1, <2>3, Rearranged
<1>12. NoneTakenUp => OnlyNewTakenUp
  BY DEF NoneTakenUp, OnlyNewTakenUp
<1> QED
  BY <1>6, <1>7, <1>8, <1>9, <1>10, <1>11, <1>12 DEF HandlerBegin, HandlerStep

\* A restart finds every place empty and loads each row once.
LEMMA ProcessPlaces ==
  ASSUME TypeOK, PlaceInv, Tick \/ Boot \/ Crash
  PROVE  /\ PlaceInv'
         /\ \A k \in Job : Held(k)' => Held(k) \/ (Boot /\ Reloaded(k))
         /\ Crash => \A k \in Job : ~Held(k)'
<1>0. ~(Tick /\ Crash) /\ ~(Boot /\ Crash)
  BY DEF Tick, Boot, Crash
<1>1. CASE Tick
  <2>1. UNCHANGED <<db, up, heap, loop, queue, frame, handler>>
    BY <1>1 DEF Tick
  <2> QED
    BY <1>0, <1>1, <2>1, SameParts DEF PlaceInv, Once, Apart, Held, DownIsEmpty,
                                       IdleHasNoJob, EndedIsUnheld
<1>2. ASSUME loop' = LoopStart, queue' = <<>>, NEW k \in Job,
             \A th \in Thread : frame'[th].id = NoJob,
             \A c \in Client : handler'[c].pc = "idle"
      PROVE  /\ AtMostOnce(k, loop.batch)' /\ AtMostOnce(k, queue)'
             /\ ThreadOnce(k)' /\ CallOnce(k)'
             /\ ~Occurs(k, loop.batch)' /\ ~Dispatching(k)' /\ ~Occurs(k, queue)'
             /\ ~OnThread(k)' /\ ~Scheduling(k)'
  <2>1. loop'.batch = <<>> /\ loop'.pc = "wait"
    BY <1>2 DEF LoopStart
  <2>2. \A i \in 1 .. Len(<<>>) : FALSE
    BY EmptySeq
  <2>3. NoJob # k
    BY SystemAssumption DEF SystemAssumption
  <2> QED
    BY <1>2, <2>1, <2>2, <2>3 DEF AtMostOnce, ThreadOnce, CallOnce, Occurs, Dispatching,
       OnThread, Scheduling, Threads, Calls
<1>3. CASE Boot
  <2>1. /\ loop' = LoopStart /\ queue' = <<>> /\ db' = db /\ up'
        /\ \A th \in Thread : frame'[th].id = NoJob
        /\ \A c \in Client : handler'[c].pc = "idle"
        /\ IdleHasNoJob'
    BY <1>3 DEF Boot, PlaceInv, DownIsEmpty, IdleHasNoJob
  <2>2. ASSUME NEW k \in Job
        PROVE  HeapOnce(k)' /\ (InHeap(k)' => Reloaded(k))
    <3>1. \A t \in Time : heap'[k][t] = IF Reloaded(k) /\ db[k].next_run = t THEN 1 ELSE 0
      BY <1>3 DEF Boot
    <3> QED
      BY <3>1 DEF HeapOnce, InHeap
  <2>3. \A k \in Job : Reloaded(k) => db'[k].status \notin {"unused", "Completed", "Failed"}
    BY <2>1 DEF Reloaded
  <2>4. \A k \in Job : Once(k)' /\ Apart(k)' /\ (Held(k)' => Reloaded(k))
    BY <1>2, <2>1, <2>2 DEF Once, Apart, Held
  <2>5. EndedIsUnheld'
    BY <2>3, <2>4 DEF EndedIsUnheld
  <2>6. PlaceInv'
    BY <2>1, <2>4, <2>5 DEF PlaceInv, DownIsEmpty
  <2> QED
    BY <1>0, <1>3, <2>4, <2>6
<1>4. CASE Crash
  <2>1. /\ loop' = LoopStart /\ queue' = <<>> /\ heap' = EmptyHeap
        /\ \A th \in Thread : frame'[th].id = NoJob /\ frame'[th].pc = "idle"
        /\ \A c \in Client : handler'[c].pc = "idle"
    BY <1>4 DEF Crash, NoFrame, NoHandler
  <2>2. \A k \in Job : HeapOnce(k)' /\ ~InHeap(k)'
    BY <2>1 DEF EmptyHeap, HeapOnce, InHeap
  <2> QED
    BY <1>2, <2>1, <2>2 DEF PlaceInv, Once, Apart, Held, DownIsEmpty, IdleHasNoJob,
                            EndedIsUnheld
<1> QED
  BY <1>1, <1>3, <1>4

LEMMA InitPlaces == Init => PlaceInv
<1> SUFFICES ASSUME Init PROVE PlaceInv
  OBVIOUS
<1>1. loop.batch = <<>> /\ loop.pc = "wait" /\ queue = <<>>
      /\ (\A th \in Thread : frame[th].id = NoJob /\ frame[th].pc = "idle")
      /\ \A c \in Client : handler[c].pc = "idle"
  BY DEF Init, LoopStart, NoFrame, NoHandler
<1>2. \A i \in 1 .. Len(<<>>) : FALSE
  BY EmptySeq
<1>3. \A k \in Job : NoJob # k /\ \A t \in Time : heap[k][t] = 0
  BY SystemAssumption DEF SystemAssumption, Init, EmptyHeap
<1>4. ASSUME NEW k \in Job PROVE ~Held(k) /\ Once(k) /\ Apart(k)
  BY <1>1, <1>2, <1>3 DEF Once, HeapOnce, AtMostOnce, ThreadOnce, CallOnce, Apart, Held,
     InHeap, Occurs, Dispatching, OnThread, Scheduling, Threads, Calls
<1> QED
  BY <1>1, <1>4 DEF Init, PlaceInv, DownIsEmpty, IdleHasNoJob, EndedIsUnheld

\* The invariant holds, as long as nobody calls resume_job.
LEMMA PlacesInvariant ==
  ASSUME "resume" \notin Ops
  PROVE  Spec => []PlaceInv
<1>1. TypeOK /\ PlaceInv /\ [Next]_vars => PlaceInv'
  <2> SUFFICES ASSUME TypeOK, PlaceInv, [Next]_vars PROVE PlaceInv'
    OBVIOUS
  <2>1. CASE UNCHANGED vars
    <3>1. UNCHANGED <<db, up, heap, loop, queue, frame, handler>>
      BY <2>1 DEF vars
    <3> QED
      BY <3>1, SameParts DEF PlaceInv, Once, Apart, Held, DownIsEmpty, IdleHasNoJob,
                             EndedIsUnheld
  <2> QED
    BY <2>1, ProcessPlaces, LoopPlaces, WorkerPlaces, ExecutePlaces, HandlerPlaces
       DEF Next
<1> QED
  BY <1>1, InitPlaces, TypeCorrect, PTL DEF Spec

(***************************************************************************)
(* As long as nobody calls resume_job, a job is in at most one place: one  *)
(* entry, one queued call or one run, whatever the interleaving and across *)
(* restarts.  So no two threads ever run one job at once.                  *)
(***************************************************************************)
THEOREM JobInOnePlace ==
  ASSUME "resume" \notin Ops
  PROVE  Spec => []OnePlace
<1>1. TypeOK /\ PlaceInv => OnePlace
  BY OneKindOnce DEF PlaceInv, OnePlace
<1> QED
  BY <1>1, PlacesInvariant, TypeCorrect, PTL

-----------------------------------------------------------------------------
(* What each place knows of a job's run time.                              *)

\* The table keeps whole seconds.
RowsInSeconds == \A j \in Job : ToTimeT(db[j].next_run) = db[j].next_run

\* An entry of job j was popped, and the runner has not answered yet.
Popped(j) ==
  \/ Occurs(j, loop.batch) \/ Dispatching(j) \/ Occurs(j, queue)
  \/ \E th \in Thread : frame[th].id = j /\ frame[th].pc \in {"reread", "start", "running"}

\* Where a time is about to be pushed for job j, it is the time of its row; a
\* popped job is due.
Knows(j) ==
  Present(db, j) =>
    /\ \A t \in Time : heap[j][t] > 0 => db[j].next_run = ToTimeT(t)
    /\ \A c \in Client : handler[c].id = j /\ handler[c].pc = "schedule"
                           => db[j].next_run = ToTimeT(handler[c].next)
    /\ \A th \in Thread :
         /\ frame[th].id = j
         /\ frame[th].pc \in {"reset_count", "set_retry_active", "reschedule"}
         => db[j].next_run = ToTimeT(frame[th].next)
    /\ Popped(j) => db[j].next_run <= now

TimeInv ==
  /\ RowsInSeconds
  /\ loop.at <= now
  /\ \A j \in Job : Knows(j)

LEMMA MultipleHasNoRest ==
  ASSUME NEW q \in Nat, NEW s \in Nat \ {0}
  PROVE  (s * q) % s = 0
OBVIOUS

\* What is cut to whole seconds stays as it is when it is cut again.
LEMMA ToTimeTTwice ==
  ASSUME NEW t \in Time
  PROVE  ToTimeT(ToTimeT(t)) = ToTimeT(t)
<1> DEFINE q == t \div Second
<1>1. t \in Nat /\ Second \in Nat \ {0}
  BY ModelAssumption DEF ModelAssumption, Time
<1>2. q \in Nat /\ ToTimeT(t) = Second * q
  BY <1>1 DEF ToTimeT
<1> HIDE DEF q
<1>3. (Second * q) % Second = 0
  BY <1>1, <1>2, MultipleHasNoRest
<1>4. ToTimeT(t) \in Nat
  BY ToTimeTBounds, ModelAssumption DEF Time, ModelAssumption
<1>5. ToTimeT(ToTimeT(t)) = ToTimeT(t) - (ToTimeT(t) % Second)
  BY DEF ToTimeT
<1> QED
  BY <1>2, <1>3, <1>4, <1>5

\* Job k's row is there only if it was, and for the same time.
SameTime(k) == Present(db', k) => Present(db, k) /\ db'[k].next_run = db[k].next_run

\* What a table operation on job j does to job k's run time.
LEMMA TableTimes ==
  ASSUME TypeOK, NEW j \in Job, NEW k \in Job
  PROVE  /\ db' = db => SameTime(k)
         /\ \A s \in JobStatus : db' = UpdateStatus(db, j, s) => SameTime(k)
         /\ \A n \in Nat : db' = UpdateRetryCount(db, j, n) => SameTime(k)
         /\ db' = Remove(db, j) => SameTime(k)
         /\ \A t \in Time : db' = UpdateNextRun(db, j, t) =>
              IF k = j THEN Present(db', k) => db'[k].next_run = ToTimeT(t)
              ELSE SameTime(k)
         /\ \A t \in Time : db' = Save(db, j, t) =>
              IF k = j THEN db'[k].next_run = ToTimeT(t) ELSE SameTime(k)
<1> USE DEF SameTime, Present, Row
<1> db \in [Job -> Row]
  BY DEF TypeOK
<1>1. \A s \in JobStatus : db' = UpdateStatus(db, j, s) => SameTime(k)
  BY DEF UpdateStatus
<1>2. \A n \in Nat : db' = UpdateRetryCount(db, j, n) => SameTime(k)
  BY DEF UpdateRetryCount
<1>3. db' = Remove(db, j) => SameTime(k)
  BY DEF Remove, Vacant, JobStatus
<1>4. \A t \in Time : db' = UpdateNextRun(db, j, t) =>
        IF k = j THEN Present(db', k) => db'[k].next_run = ToTimeT(t)
        ELSE SameTime(k)
  BY DEF UpdateNextRun
<1>5. \A t \in Time : db' = Save(db, j, t) =>
        IF k = j THEN db'[k].next_run = ToTimeT(t) ELSE SameTime(k)
  BY DEF Save
<1> QED
  BY <1>1, <1>2, <1>3, <1>4, <1>5

\* execute writes to the row of its own job, and to one column at a time.
LEMMA ExecuteWrites ==
  ASSUME TypeOK, NEW th \in Thread, ExecuteStep(th) \/ RunnerReturns(th)
  PROVE  \/ db' = db
         \/ \E s \in JobStatus : db' = UpdateStatus(db, frame[th].id, s)
         \/ \E n \in Nat : db' = UpdateRetryCount(db, frame[th].id, n)
         \/ \E t \in Time : db' = UpdateNextRun(db, frame[th].id, t)
<1>1. frame[th].id \in Job /\ frame[th] \in Frame /\ frame[th].count + 1 \in Nat
  BY ExecuteMoves DEF TypeOK, Frame
<1>2. CASE SetRetryNext(th)
  <2>1. now \in 0 .. MaxNow /\ RetryDelay[frame[th].id] \in 0 .. MaxSpan
    BY <1>1, ModelAssumption DEF TypeOK, ModelAssumption
  <2>2. now + RetryDelay[frame[th].id] \in Time
    BY <2>1, ModelAssumption DEF Time, ModelAssumption
  <2> QED
    BY <1>2, <2>2 DEF SetRetryNext
<1>3. CASE ~SetRetryNext(th)
  BY <1>1, <1>3 DEF ExecuteStep, RunnerReturns, Reread, Repause, RunStart,
     RunSucceed, RunFail, Complete, Fail, SetActive, SetNext, ResetCount,
     CountRetry, SetRetryActive, Reschedule, Write, WriteAndReturn, JobStatus, Frame
<1> QED
  BY <1>2, <1>3

\* A step writes to the table by one operation of the repository, or not at all.
LEMMA TableSteps ==
  ASSUME TypeOK, [Next]_vars
  PROVE  \/ db' = db
         \/ \E j \in Job :
              \/ \E s \in JobStatus : db' = UpdateStatus(db, j, s)
              \/ \E n \in Nat : db' = UpdateRetryCount(db, j, n)
              \/ \E t \in Time : db' = UpdateNextRun(db, j, t)
              \/ \E t \in Time : db[j].status = "unused" /\ db' = Save(db, j, t)
              \/ db' = Remove(db, j)
<1>1. CASE UNCHANGED vars \/ Tick \/ Boot \/ Crash \/ \E w \in Worker : WorkerTake(w)
  BY <1>1 DEF vars, Tick, Boot, Crash, WorkerTake
<1>2. CASE LoopStep
  <2>1. loop.pc = "mark" => loop.id \in Job
    BY DEF TypeOK
  <2> QED
    BY <1>2, <2>1 DEF LoopStep, LoopLock, LoopPop, LoopUnlock, LoopSkip, LoopExecute,
       LoopDispatch, LoopAgain, MarkRunning, Submit, JobStatus
<1>3. ASSUME NEW th \in Thread, ExecuteStep(th) \/ RunnerReturns(th)
      PROVE  \/ db' = db
             \/ \E s \in JobStatus : db' = UpdateStatus(db, frame[th].id, s)
             \/ \E n \in Nat : db' = UpdateRetryCount(db, frame[th].id, n)
             \/ \E t \in Time : db' = UpdateNextRun(db, frame[th].id, t)
  BY <1>3, ExecuteWrites
<1>4. ASSUME NEW c \in Client, HandlerBegin(c) PROVE
        \/ db' = db
        \/ \E j \in Job, t \in Time : db[j].status = "unused" /\ db' = Save(db, j, t)
  <2>1. CASE db' # db
    <3>1. PICK j \in Job : CreateSave(c, j)
      BY <1>4, <2>1 DEF HandlerBegin, PauseFind, ResumeFind, DeleteFind
    <3>2. NextRuns(j, now) \ {NoTime} \subseteq Time
      BY NextRunsTypes DEF TypeOK
    <3> QED
      BY <3>1, <3>2 DEF CreateSave
  <2> QED
    BY <2>1
<1>5. ASSUME NEW c \in Client, HandlerStep(c) PROVE
        \/ db' = db
        \/ \E j \in Job : \/ \E s \in JobStatus : db' = UpdateStatus(db, j, s)
                          \/ db' = Remove(db, j)
  <2>1. handler[c].pc # "idle" => handler[c].id \in Job
    BY DEF TypeOK
  <2> QED
    BY <1>5, <2>1 DEF HandlerStep, CallSchedule, PauseWrite, ResumeWrite,
       DeleteRemove, JobStatus
<1>6. ASSUME NEW th \in Thread, ExecuteStep(th) \/ RunnerReturns(th) PROVE frame[th].id \in Job
  BY <1>6, ExecuteMoves
<1> QED
  BY <1>1, <1>2, <1>3, <1>4, <1>5, <1>6 DEF Next

\* No step leaves a time in the table that is not a whole second.
LEMMA SecondsStay ==
  ASSUME TypeOK, RowsInSeconds, [Next]_vars
  PROVE  RowsInSeconds'
<1> SUFFICES ASSUME NEW k \in Job PROVE ToTimeT(db'[k].next_run) = db'[k].next_run
  BY DEF RowsInSeconds
<1> db \in [Job -> Row]
  BY DEF TypeOK
<1>1. ToTimeT(db[k].next_run) = db[k].next_run
  BY DEF RowsInSeconds
<1>2. 0 \in Time
  BY ModelAssumption DEF Time, ModelAssumption
<1>3. ToTimeT(0) = 0
  BY <1>2, ToTimeTBounds DEF Time
<1>4. ASSUME NEW j \in Job, NEW t \in Time, db' = UpdateNextRun(db, j, t) \/ db' = Save(db, j, t)
      PROVE  db'[k].next_run = db[k].next_run \/ db'[k].next_run = ToTimeT(t)
  BY <1>4 DEF UpdateNextRun, Save, Row
<1>5. ASSUME NEW j \in Job, NEW s \in JobStatus, db' = UpdateStatus(db, j, s)
      PROVE  db'[k].next_run = db[k].next_run
  BY <1>5 DEF UpdateStatus, Row
<1>6. ASSUME NEW j \in Job, NEW n \in Nat, db' = UpdateRetryCount(db, j, n)
      PROVE  db'[k].next_run = db[k].next_run
  BY <1>6 DEF UpdateRetryCount, Row
<1>7. ASSUME NEW j \in Job, db' = Remove(db, j)
      PROVE  db'[k].next_run \in {db[k].next_run, 0}
  BY <1>7 DEF Remove, Row, Vacant
<1>8. \A t \in Time : ToTimeT(ToTimeT(t)) = ToTimeT(t)
  BY ToTimeTTwice
<1> QED
  BY <1>1, <1>3, <1>4, <1>5, <1>6, <1>7, <1>8, TableSteps

\* What is known of a job stays true where its row keeps its time and no place
\* takes it up.
LEMMA KnowsStays ==
  ASSUME TypeOK, NEW k \in Job, Knows(k), SameTime(k), now' \in {now, now + 1},
         \A t \in Time : heap'[k][t] > 0 => heap[k][t] > 0,
         \A c \in Client : handler'[c].id = k /\ handler'[c].pc = "schedule" =>
           /\ handler[c].id = k /\ handler[c].pc = "schedule"
           /\ handler'[c].next = handler[c].next,
         \A th \in Thread :
           /\ frame'[th].id = k
           /\ frame'[th].pc \in {"reset_count", "set_retry_active", "reschedule"}
           => frame'[th] = frame[th],
         Popped(k)' => Popped(k)
  PROVE  Knows(k)'
<1> SUFFICES ASSUME Present(db, k)' PROVE Knows(k)'
  BY DEF Knows
<1>1. Present(db, k) /\ db'[k].next_run = db[k].next_run
  BY DEF SameTime, Present
<1>2. db[k].next_run \in Int /\ now \in Int
  BY ModelAssumption DEF TypeOK, Row, Time, ModelAssumption
<1>3. db[k].next_run <= now => db[k].next_run <= now'
  BY <1>2
<1> HIDE DEF Popped
<1> QED
  BY <1>1, <1>3 DEF Knows

\* Nothing else holds the job of a thread inside execute.
LEMMA OnlyThere ==
  ASSUME PlaceInv, NEW th \in Thread, NEW j \in Job, frame[th].id = j
  PROVE  /\ ~InHeap(j) /\ ~Occurs(j, loop.batch) /\ ~Dispatching(j)
         /\ ~Occurs(j, queue) /\ ~Scheduling(j)
         /\ \A x \in Thread : frame[x].id = j => x = th
<1>1. OnThread(j)
  BY DEF OnThread
<1> QED
  BY <1>1 DEF PlaceInv, Once, Apart, ThreadOnce, Threads

\* The steps of execute that touch what it knows of its job's run time.
LEMMA ExecuteTimes ==
  ASSUME TypeOK, NEW th \in Thread, ExecuteStep(th) \/ RunnerReturns(th)
  PROVE  /\ frame'[th].pc \in {"reread", "start", "running"} =>
              frame[th].pc \in {"reread", "start"} /\ db' = db
         /\ frame'[th].pc \in {"reset_count", "set_retry_active", "reschedule"} =>
              \/ /\ frame'[th].next \in Time
                 /\ db' = UpdateNextRun(db, frame[th].id, frame'[th].next)
              \/ /\ frame[th].pc \in {"reset_count", "set_retry_active"}
                 /\ frame'[th].next = frame[th].next
                 /\ \/ db' = UpdateStatus(db, frame[th].id, "Active")
                    \/ db' = UpdateRetryCount(db, frame[th].id, 0)
<1> DEFINE Goal ==
      /\ frame'[th].pc \in {"reread", "start", "running"} =>
           frame[th].pc \in {"reread", "start"} /\ db' = db
      /\ frame'[th].pc \in {"reset_count", "set_retry_active", "reschedule"} =>
           \/ /\ frame'[th].next \in Time
              /\ db' = UpdateNextRun(db, frame[th].id, frame'[th].next)
           \/ /\ frame[th].pc \in {"reset_count", "set_retry_active"}
              /\ frame'[th].next = frame[th].next
              /\ \/ db' = UpdateStatus(db, frame[th].id, "Active")
                 \/ db' = UpdateRetryCount(db, frame[th].id, 0)
<1>1. /\ frame \in [Thread -> Frame] /\ frame[th] \in Frame /\ frame[th].id \in Job
      /\ frame[th].next \in Time
  BY ExecuteMoves DEF TypeOK, Frame
<1>2. CASE Repause(th) \/ Complete(th) \/ Fail(th) \/ Reschedule(th)
  BY <1>1, <1>2 DEF Repause, Complete, Fail, Reschedule, WriteAndReturn, NoFrame
<1>3. CASE Reread(th)
  <2>1. AfterReread(frame[th].id, db[frame[th].id]) \in {"return", "repause", "fail", "start"}
    BY DEF AfterReread
  <2>2. CASE AfterReread(frame[th].id, db[frame[th].id]) = "return"
    BY <1>1, <1>3, <2>2 DEF Reread, NoFrame
  <2>3. CASE AfterReread(frame[th].id, db[frame[th].id]) # "return"
    <3>1. frame'[th].pc = AfterReread(frame[th].id, db[frame[th].id]) /\ db' = db
      BY <1>1, <1>3, <2>3 DEF Reread, Frame
    <3> QED
      BY <1>3, <2>1, <3>1 DEF Reread
  <2> QED
    BY <2>2, <2>3
<1>4. CASE RunStart(th) \/ RunFail(th) \/ CountRetry(th) \/ SetActive(th)
  BY <1>1, <1>4 DEF RunStart, RunFail, CountRetry, SetActive, Write, Frame
<1>5. CASE RunSucceed(th)
  <2>1. frame'[th].pc \in {"complete", "set_active"}
    BY <1>1, <1>5 DEF RunSucceed, Frame
  <2> QED
    BY <2>1
<1>6. CASE SetNext(th) \/ ResetCount(th) \/ SetRetryActive(th)
  BY <1>1, <1>6 DEF SetNext, ResetCount, SetRetryActive, Write, Frame
<1>7. CASE SetRetryNext(th)
  <2> DEFINE at == now + RetryDelay[frame[th].id]
  <2>1. now \in 0 .. MaxNow /\ RetryDelay[frame[th].id] \in 0 .. MaxSpan
    BY <1>1, ModelAssumption DEF TypeOK, ModelAssumption
  <2>2. at \in Time
    BY <2>1, ModelAssumption DEF Time, ModelAssumption
  <2>3. /\ db' = UpdateNextRun(db, frame[th].id, at)
        /\ frame' = [frame EXCEPT ![th] = [frame[th] EXCEPT !.pc = "set_retry_active", !.next = at]]
    BY <1>7 DEF SetRetryNext
  <2> HIDE DEF at
  <2>4. frame'[th].next = at /\ frame'[th].pc = "set_retry_active"
    BY <1>1, <2>3 DEF Frame
  <2> QED
    BY <2>2, <2>3, <2>4
<1>8. Goal
  BY <1>2, <1>3, <1>4, <1>5, <1>6, <1>7 DEF ExecuteStep, RunnerReturns
<1> QED
  BY <1>8

\* What is known of every job after a step of execute.
LEMMA ExecuteKnows ==
  ASSUME TypeOK, PlaceInv, PlaceInv', \A k \in Job : Knows(k), NEW th \in Thread,
         ExecuteStep(th) \/ RunnerReturns(th), NEW k \in Job
  PROVE  Knows(k)'
<1> DEFINE j == frame[th].id
<1>1. /\ j \in Job /\ frame \in [Thread -> Frame] /\ frame[th].next \in Time
      /\ UNCHANGED <<now, up, loop, queue, handler>>
  BY ExecuteMoves DEF TypeOK, Frame
<1>2. PICK f \in Frame : frame' = [frame EXCEPT ![th] = f] /\ (f.id = j \/ f = NoFrame)
  BY ExecuteMoves
<1>3. NoFrame.id \notin Job
  BY SystemAssumption DEF NoFrame, SystemAssumption
<1>4. \A x \in Thread : x # th => frame'[x] = frame[x]
  BY <1>1, <1>2
<1>5. frame'[th].id = k => k = j
  BY <1>1, <1>2, <1>3
<1>6. Popped(k)' <=> \/ Occurs(k, loop.batch) \/ Dispatching(k) \/ Occurs(k, queue)
                     \/ \E x \in Thread : /\ frame'[x].id = k
                                          /\ frame'[x].pc \in {"reread", "start", "running"}
  BY <1>1 DEF Popped, Occurs, Dispatching
<1>7. \A t \in Time : heap'[k][t] > 0 => heap[k][t] > 0 \/ (k = j /\ Reschedule(th))
  <2>1. CASE Reschedule(th)
    BY <1>1, <2>1 DEF Reschedule, Push, TypeOK
  <2>2. CASE ~Reschedule(th)
    BY <2>2 DEF ExecuteStep, RunnerReturns, Reread, Repause, RunStart, RunSucceed,
       RunFail, Complete, Fail, SetActive, SetNext, ResetCount, CountRetry,
       SetRetryNext, SetRetryActive, Write, WriteAndReturn
  <2> QED
    BY <2>1, <2>2
<1> HIDE DEF j
<1>8. CASE k # j
  <2>1. SameTime(k)
    <3>1. \/ db' = db
          \/ \E s \in JobStatus : db' = UpdateStatus(db, j, s)
          \/ \E n \in Nat : db' = UpdateRetryCount(db, j, n)
          \/ \E t \in Time : db' = UpdateNextRun(db, j, t)
      BY ExecuteWrites DEF j
    <3> QED
      BY <1>1, <1>8, <3>1, TableTimes
  <2>2. Popped(k)' => Popped(k)
    BY <1>4, <1>5, <1>6, <1>8 DEF Popped
  <2>3. \A x \in Thread : frame'[x].id = k => frame'[x] = frame[x]
    BY <1>4, <1>5, <1>8
  <2> QED
    BY <1>1, <1>7, <1>8, <2>1, <2>2, <2>3, KnowsStays
<1>9. CASE k = j
  <2>1. /\ ~InHeap(j) /\ ~Occurs(j, loop.batch) /\ ~Dispatching(j)
        /\ ~Occurs(j, queue) /\ ~Scheduling(j)
        /\ \A x \in Thread : frame[x].id = j => x = th
    BY <1>1, OnlyThere DEF j
  <2>2. \A x \in Thread : frame'[x].id = j => x = th
    BY <1>4, <2>1
  <2> SUFFICES ASSUME Present(db, k)' PROVE Knows(k)'
    BY DEF Knows
  <2>3. Knows(j) /\ (Popped(j) <=> frame[th].pc \in {"reread", "start", "running"})
    BY <1>1, <2>1 DEF Popped, j
  <2>4. ~Scheduling(k)'
    BY <1>1, <1>9, <2>1 DEF Scheduling
  <2>5. ASSUME NEW t \in Time, heap'[k][t] > 0 PROVE db'[k].next_run = ToTimeT(t)
    <3>1. heap[j][t] <= 0 /\ Reschedule(th)
      BY <1>7, <1>9, <2>1, <2>5 DEF InHeap, TypeOK
    <3>2. t = frame[th].next /\ db' = db /\ frame[th].pc = "reschedule"
      BY <1>1, <1>9, <2>5, <3>1 DEF Reschedule, Push, TypeOK, j
    <3>3. Present(db, j)
      BY <1>9, <3>2 DEF Present
    <3> QED
      BY <1>1, <1>9, <2>3, <3>2, <3>3 DEF Knows, j
  <2>6. ASSUME frame'[th].pc \in {"reset_count", "set_retry_active", "reschedule"}
        PROVE  db'[k].next_run = ToTimeT(frame'[th].next)
    <3>1. CASE frame'[th].next \in Time /\ db' = UpdateNextRun(db, j, frame'[th].next)
      BY <1>1, <1>9, <3>1, TableTimes DEF Present
    <3>2. CASE /\ frame[th].pc \in {"reset_count", "set_retry_active"}
               /\ frame'[th].next = frame[th].next
               /\ \/ db' = UpdateStatus(db, j, "Active")
                  \/ db' = UpdateRetryCount(db, j, 0)
      <4>1. SameTime(k)
        BY <1>1, <1>9, <3>2, TableTimes DEF JobStatus
      <4>2. Present(db, j) /\ db'[k].next_run = db[j].next_run
        BY <1>9, <4>1 DEF SameTime, Present
      <4> QED
        BY <1>1, <1>9, <2>3, <3>2, <4>2 DEF Knows, j
    <3> QED
      BY <2>6, <3>1, <3>2, ExecuteTimes DEF j
  <2>7. ASSUME Popped(k)' PROVE db'[k].next_run <= now'
    <3>1. frame'[th].pc \in {"reread", "start", "running"}
      BY <1>6, <1>9, <2>1, <2>2, <2>7
    <3>2. frame[th].pc \in {"reread", "start"} /\ db' = db
      BY <3>1, ExecuteTimes
    <3> QED
      BY <1>1, <1>9, <2>3, <3>2 DEF Knows, Present
  <2> HIDE DEF Popped
  <2> QED
    BY <1>9, <2>2, <2>4, <2>5, <2>6, <2>7 DEF Knows, Scheduling
<1> QED
  BY <1>8, <1>9

\* The loop pops an entry when its time has come; no other step of the loop takes
\* up a job.
LEMMA LoopKnows ==
  ASSUME TypeOK, PlaceInv, TimeInv, LoopStep
  PROVE  loop'.at <= now' /\ \A k \in Job : Knows(k)'
<1>1. /\ loop \in LoopState /\ loop.batch \in Seq(Job) /\ queue \in Seq(Job)
      /\ Loop \in Thread /\ now \in 0 .. MaxNow /\ loop.at \in 0 .. MaxNow
      /\ frame \in [Thread -> Frame]
      /\ UNCHANGED <<now, handler>>
  BY DEF TypeOK, LoopState, Thread, LoopStep, LoopLock, LoopPop, LoopUnlock, LoopSkip,
         LoopExecute, LoopDispatch, LoopAgain, MarkRunning, Submit
<1>2. loop.at <= now /\ \A k \in Job : Knows(k)
  BY DEF TimeInv
<1>3. loop'.at <= now'
  <2>1. now \in Nat
    BY <1>1, ModelAssumption DEF ModelAssumption
  <2>2. loop'.at \in {loop.at, now, 0}
    BY <1>1 DEF LoopState, LoopStep, LoopLock, LoopPop, LoopUnlock, LoopSkip,
         LoopExecute, LoopDispatch, LoopAgain, MarkRunning, Submit
  <2> QED
    BY <1>1, <1>2, <2>1, <2>2
<1>4. ASSUME NEW k \in Job PROVE SameTime(k)
  <2>1. CASE MarkRunning
    <3>1. loop.id \in Job /\ "Running" \in JobStatus /\ db' = UpdateStatus(db, loop.id, "Running")
      BY <2>1 DEF MarkRunning, TypeOK, JobStatus
    <3> QED
      BY <3>1, TableTimes
  <2>2. CASE ~MarkRunning
    <3>1. db' = db
      BY <2>2 DEF LoopStep, LoopLock, LoopPop, LoopUnlock, LoopSkip, LoopExecute,
         LoopDispatch, LoopAgain, Submit
    <3> QED
      BY <3>1, TableTimes
  <2> QED
    BY <2>1, <2>2
<1>5. \A k \in Job : \A x \in Thread :
        /\ frame'[x].id = k
        /\ frame'[x].pc \in {"reset_count", "set_retry_active", "reschedule"}
        => frame'[x] = frame[x]
  <2>1. CASE LoopExecute
    <3>1. frame' = [frame EXCEPT ![Loop] = ExecuteCall(Head(loop.batch))]
      BY <2>1 DEF LoopExecute
    <3> QED
      BY <1>1, <3>1 DEF ExecuteCall
  <2>2. CASE ~LoopExecute
    BY <2>2 DEF LoopStep, LoopLock, LoopPop, LoopUnlock, LoopSkip, LoopDispatch,
         LoopAgain, MarkRunning, Submit
  <2> QED
    BY <2>1, <2>2
<1>6. ASSUME ~LoopPop, NEW k \in Job, Popped(k)' PROVE Popped(k)
  <2>1. CASE LoopLock \/ LoopUnlock \/ LoopAgain \/ MarkRunning
    <3>1. queue' = queue /\ frame' = frame /\ loop'.batch = loop.batch
      BY <1>1, <2>1 DEF LoopLock, LoopUnlock, LoopAgain, MarkRunning, LoopState
    <3>2. Dispatching(k)' => Dispatching(k)
      BY <1>1, <2>1 DEF LoopLock, LoopUnlock, LoopAgain, AtEach, MarkRunning,
                        Dispatching, LoopState
    <3> QED
      BY <1>6, <3>1, <3>2 DEF Popped, Occurs
  <2>2. ASSUME loop.batch # <<>>, loop'.batch = Tail(loop.batch)
        PROVE  /\ Occurs(Head(loop.batch), loop.batch)
               /\ Occurs(k, loop.batch)' => Occurs(k, loop.batch)
    BY <1>1, <2>2, TailOnce DEF PlaceInv, Once
  <2>3. CASE LoopSkip
    <3>1. /\ queue' = queue /\ frame' = frame /\ loop'.pc = loop.pc /\ loop'.id = loop.id
          /\ loop.batch # <<>> /\ loop'.batch = Tail(loop.batch)
      BY <1>1, <2>3 DEF LoopSkip, LoopState
    <3> QED
      BY <1>6, <2>2, <3>1 DEF Popped, Occurs, Dispatching
  <2>4. CASE LoopExecute
    <3>1. /\ queue' = queue /\ loop'.pc = loop.pc /\ loop'.id = loop.id
          /\ loop.batch # <<>> /\ loop'.batch = Tail(loop.batch)
          /\ frame' = [frame EXCEPT ![Loop] = ExecuteCall(Head(loop.batch))]
      BY <1>1, <2>4 DEF LoopExecute, LoopState
    <3>2. \A x \in Thread : frame'[x] = frame[x] \/ frame'[x].id = Head(loop.batch)
      BY <1>1, <3>1 DEF ExecuteCall
    <3>3. Occurs(k, queue)' = Occurs(k, queue) /\ Dispatching(k)' = Dispatching(k)
      BY <3>1 DEF Occurs, Dispatching
    <3> QED
      BY <1>6, <2>2, <3>1, <3>2, <3>3 DEF Popped
  <2>5. CASE LoopDispatch
    <3>1. /\ queue' = queue /\ frame' = frame /\ loop'.id = Head(loop.batch)
          /\ loop.batch # <<>> /\ loop'.batch = Tail(loop.batch)
      BY <1>1, <2>5 DEF LoopDispatch, LoopState
    <3>2. Dispatching(k)' => k = Head(loop.batch)
      BY <3>1 DEF Dispatching
    <3>3. Occurs(k, queue)' = Occurs(k, queue)
      BY <3>1 DEF Occurs
    <3> QED
      BY <1>6, <2>2, <3>1, <3>2, <3>3 DEF Popped
  <2>6. CASE Submit
    <3>1. /\ frame' = frame /\ loop'.pc = "each" /\ loop'.batch = loop.batch
          /\ queue' = Append(queue, loop.id) /\ loop.pc = "submit" /\ loop.id \in Job
      BY <1>1, <2>6 DEF Submit, LoopState, TypeOK
    <3>2. Occurs(k, queue)' => Occurs(k, queue) \/ Dispatching(k)
      BY <1>1, <3>1, OccursAppend DEF Dispatching
    <3>3. ~Dispatching(k)' /\ Occurs(k, loop.batch)' = Occurs(k, loop.batch)
      BY <3>1 DEF Dispatching, Occurs
    <3> QED
      BY <1>6, <3>1, <3>2, <3>3 DEF Popped
  <2> QED
    BY <1>6, <2>1, <2>3, <2>4, <2>5, <2>6 DEF LoopStep
<1>7. ASSUME ~LoopPop, NEW k \in Job PROVE Knows(k)'
  <2>1. heap' = heap
    BY <1>7 DEF LoopStep, LoopLock, LoopUnlock, LoopSkip, LoopExecute, LoopDispatch,
       LoopAgain, MarkRunning, Submit
  <2> QED
    BY <1>1, <1>2, <1>4, <1>5, <1>6, <1>7, <2>1, KnowsStays
<1>8. ASSUME LoopPop, NEW k \in Job PROVE Knows(k)'
  <2> PICK j \in Job, t \in Time :
        /\ heap[j][t] > 0 /\ t <= loop.at
        /\ heap' = [heap EXCEPT ![j][t] = @ - 1]
        /\ loop' = [loop EXCEPT !.batch = Append(@, j)]
    BY <1>8 DEF LoopPop, Earliest, Poppable
  <2>1. /\ queue' = queue /\ frame' = frame /\ db' = db
        /\ loop'.batch = Append(loop.batch, j) /\ loop'.pc = loop.pc /\ loop'.id = loop.id
    BY <1>1, <1>8 DEF LoopPop, LoopState
  <2>2. Popped(k)' => Popped(k) \/ k = j
    <3>1. Occurs(k, loop.batch)' => Occurs(k, loop.batch) \/ k = j
      BY <1>1, <2>1, OccursAppend
    <3> QED
      BY <2>1, <3>1 DEF Popped, Occurs, Dispatching
  <2>3. \A u \in Time : heap'[k][u] > 0 => heap[k][u] > 0
    <3>1. heap[j] \in [Time -> Nat] /\ heap \in [Job -> [Time -> Nat]]
      BY DEF TypeOK
    <3> QED
      BY <3>1
  <2>4. k = j /\ Present(db, k) => db[k].next_run <= now'
    <3>1. /\ ToTimeT(t) <= t /\ ToTimeT(t) \in Int /\ t \in Int
          /\ now \in Int /\ loop.at \in Int
      <4>1. ToTimeT(t) \in Time /\ ToTimeT(t) <= t
        BY ToTimeTBounds
      <4>2. \A u \in Time : u \in Int
        BY DEF Time
      <4> QED
        BY <1>1, <4>1, <4>2
    <3>2. k = j /\ Present(db, k) => db[k].next_run = ToTimeT(t)
      BY <1>2 DEF Knows
    <3> QED
      BY <1>1, <1>2, <3>1, <3>2
  <2>5. Present(db, k) => /\ Knows(k)
                          /\ Popped(k)' => db[k].next_run <= now'
    BY <1>1, <1>2, <2>2, <2>4 DEF Knows
  <2> HIDE DEF Popped
  <2> QED
    BY <1>1, <2>1, <2>3, <2>5 DEF Knows, Present
<1> QED
  BY <1>3, <1>7, <1>8

\* A worker takes up a job that was popped.
LEMMA WorkerKnows ==
  ASSUME TypeOK, PlaceInv, TimeInv, NEW w \in Worker, WorkerTake(w), NEW k \in Job
  PROVE  Knows(k)'
<1>1. /\ queue \in Seq(Job) /\ queue # <<>> /\ queue' = Tail(queue)
      /\ w \in Thread /\ frame \in [Thread -> Frame]
      /\ frame' = [frame EXCEPT ![w] = ExecuteCall(Head(queue))]
      /\ UNCHANGED <<db, now, heap, loop, handler>>
  BY DEF WorkerTake, TypeOK, Thread
<1>2. Occurs(Head(queue), queue) /\ (Occurs(k, queue)' => Occurs(k, queue))
  BY <1>1, TailOnce DEF PlaceInv, Once
<1>3. \A x \in Thread : \/ frame'[x] = frame[x]
                        \/ frame'[x].id = Head(queue) /\ frame'[x].pc = "reread"
  BY <1>1 DEF ExecuteCall
<1>4. Popped(k)' => Popped(k)
  BY <1>1, <1>2, <1>3 DEF Popped, Occurs, Dispatching
<1>5. SameTime(k) /\ Knows(k)
  BY <1>1, TableTimes DEF TimeInv
<1> QED
  BY <1>1, <1>3, <1>4, <1>5, KnowsStays

\* create_job saves the time that it hands to the scheduler; the other handlers
\* move no job's time.
LEMMA HandlerKnows ==
  ASSUME TypeOK, PlaceInv, PlaceInv', \A k \in Job : Knows(k), NEW c \in Client,
         HandlerBegin(c) \/ HandlerStep(c), NEW k \in Job
  PROVE  Knows(k)'
<1>1. /\ handler \in [Client -> Handler] /\ heap \in [Job -> [Time -> Nat]]
      /\ UNCHANGED <<now, loop, queue, frame>>
  BY DEF TypeOK, HandlerBegin, HandlerStep, CreateSave, PauseFind, ResumeFind,
         DeleteFind, CallSchedule, PauseWrite, ResumeWrite, DeleteRemove
<1>2. Popped(k)' => Popped(k)
  BY <1>1 DEF Popped, Occurs, Dispatching
<1>3. ASSUME heap' = heap, SameTime(k),
             \A d \in Client : handler'[d].pc = "schedule" => handler'[d] = handler[d]
      PROVE  Knows(k)'
  BY <1>1, <1>2, <1>3, KnowsStays
<1>4. ASSUME NEW j \in Job, CreateSave(c, j) PROVE Knows(k)'
  <2>1. PICK n \in NextRuns(j, now) \ {NoTime} :
          /\ db' = Save(db, j, n)
          /\ handler' = [handler EXCEPT ![c] = [pc |-> "schedule", id |-> j, next |-> n]]
          /\ heap' = heap
    BY <1>4 DEF CreateSave, BeginCall
  <2>2. n \in Time
    BY NextRunsTypes DEF TypeOK
  <2>3. \A d \in Client : d # c => handler'[d] = handler[d]
    BY <1>1, <2>1
  <2>4. handler'[c].id = j /\ handler'[c].next = n
    BY <1>1, <2>1
  <2>5. CASE k = j
    <3>1. ~Held(j)
      BY <1>4 DEF CreateSave, PlaceInv, EndedIsUnheld
    <3>2. /\ \A t \in Time : ~(heap'[k][t] > 0)
          /\ \A d \in Client : handler'[d].id = k /\ handler'[d].pc = "schedule" => d = c
          /\ \A x \in Thread : frame'[x].id # k
          /\ ~Popped(k)
      BY <1>1, <2>1, <2>3, <2>5, <3>1
         DEF Held, InHeap, Scheduling, OnThread, Popped
    <3>3. db'[k].next_run = ToTimeT(n)
      BY <2>1, <2>2, <2>5, TableTimes
    <3> HIDE DEF Popped
    <3> QED
      BY <1>2, <2>4, <3>2, <3>3 DEF Knows
  <2>6. CASE k # j
    <3>1. SameTime(k)
      BY <2>1, <2>2, <2>6, TableTimes
    <3> QED
      BY <1>1, <1>2, <2>1, <2>3, <2>4, <2>6, <3>1, KnowsStays
  <2> QED
    BY <2>5, <2>6
<1>5. ASSUME NEW j \in Job, PauseFind(c, j) \/ ResumeFind(c, j) \/ DeleteFind(c, j)
      PROVE  Knows(k)'
  <2>1. db' = db /\ heap' = heap
    BY <1>5 DEF PauseFind, ResumeFind, DeleteFind
  <2>2. \A d \in Client : handler'[d].pc = "schedule" => handler'[d] = handler[d]
    <3>1. CASE ResumeFind(c, j)
      BY <1>1, <3>1 DEF ResumeFind, BeginCall
    <3>2. CASE PauseFind(c, j)
      BY <1>1, <3>2 DEF PauseFind, BeginCall, NoHandler
    <3>3. CASE DeleteFind(c, j)
      BY <1>1, <3>3 DEF DeleteFind, BeginCall, NoHandler
    <3> QED
      BY <1>5, <3>1, <3>2, <3>3
  <2> QED
    BY <1>3, <2>1, <2>2, TableTimes
<1>6. CASE CallSchedule(c)
  <2>1. /\ handler[c].pc = "schedule" /\ handler[c].id \in Job /\ handler[c].next \in Time
        /\ heap' = [heap EXCEPT ![handler[c].id][handler[c].next] = @ + 1] /\ db' = db
        /\ handler' = [handler EXCEPT ![c] = NoHandler]
    BY <1>6 DEF CallSchedule, Push, TypeOK, Handler
  <2>2. \A d \in Client : handler'[d].pc = "schedule" => handler'[d] = handler[d]
    BY <1>1, <2>1 DEF NoHandler
  <2>3. ASSUME NEW t \in Time, heap'[k][t] > 0
        PROVE  heap[k][t] > 0 \/ (k = handler[c].id /\ t = handler[c].next)
    <3>1. heap[handler[c].id] \in [Time -> Nat]
      BY <1>1, <2>1
    <3> QED
      BY <1>1, <2>1, <2>3, <3>1
  <2> HIDE DEF Popped
  <2> QED
    BY <1>1, <1>2, <2>1, <2>2, <2>3 DEF Knows, Present
<1>7. CASE ResumeWrite(c)
  BY <1>7 DEF ResumeWrite, PlaceInv, IdleHasNoJob
<1>8. CASE PauseWrite(c) \/ DeleteRemove(c)
  <2>1. /\ handler[c].id \in Job /\ heap' = heap
        /\ \/ db' = UpdateStatus(db, handler[c].id, "Paused")
           \/ db' = Remove(db, handler[c].id)
        /\ handler' = [handler EXCEPT ![c] = NoHandler]
    BY <1>8 DEF PauseWrite, DeleteRemove, TypeOK
  <2>2. \A d \in Client : handler'[d].pc = "schedule" => handler'[d] = handler[d]
    BY <1>1, <2>1 DEF NoHandler
  <2>3. SameTime(k)
    BY <2>1, TableTimes DEF JobStatus
  <2> QED
    BY <1>3, <2>1, <2>2, <2>3
<1> QED
  BY <1>4, <1>5, <1>6, <1>7, <1>8 DEF HandlerBegin, HandlerStep

\* A restart loads each row at the time it holds.
LEMMA ProcessKnows ==
  ASSUME TypeOK, PlaceInv, TimeInv, Tick \/ Boot \/ Crash, NEW k \in Job
  PROVE  Knows(k)'
<1>1. SameTime(k) /\ Knows(k)
  <2>1. db' = db
    BY DEF Tick, Boot, Crash
  <2> QED
    BY <2>1, TableTimes DEF TimeInv
<1>2. CASE Tick
  <2>1. UNCHANGED <<db, heap, loop, queue, frame, handler>> /\ now' = now + 1
    BY <1>2 DEF Tick
  <2>2. Popped(k)' => Popped(k)
    BY <2>1 DEF Popped, Occurs, Dispatching
  <2> QED
    BY <1>1, <2>1, <2>2, KnowsStays
<1>3. ASSUME loop' = LoopStart, queue' = <<>>, NEW j \in Job,
             \A th \in Thread : frame'[th].pc = "idle"
      PROVE  ~Popped(j)'
  <2>1. loop'.batch = <<>> /\ loop'.pc = "wait"
    BY <1>3 DEF LoopStart
  <2>2. \A i \in 1 .. Len(<<>>) : FALSE
    BY EmptySeq
  <2> QED
    BY <1>3, <2>1, <2>2 DEF Popped, Occurs, Dispatching
<1>4. CASE Boot
  <2>1. /\ loop' = LoopStart /\ queue' = <<>> /\ db' = db
        /\ \A th \in Thread : frame'[th].pc = "idle"
        /\ \A c \in Client : handler'[c].pc = "idle"
    BY <1>4 DEF Boot, PlaceInv, DownIsEmpty
  <2>2. \A t \in Time : heap'[k][t] > 0 => db[k].next_run = t
    BY <1>4 DEF Boot
  <2>3. ToTimeT(db[k].next_run) = db[k].next_run
    BY DEF TimeInv, RowsInSeconds
  <2>4. ~Popped(k)'
    BY <1>3, <2>1
  <2> HIDE DEF Popped
  <2> QED
    BY <2>1, <2>2, <2>3, <2>4 DEF Knows
<1>5. CASE Crash
  <2>1. /\ loop' = LoopStart /\ queue' = <<>> /\ heap' = EmptyHeap
        /\ \A th \in Thread : frame'[th].pc = "idle"
        /\ \A c \in Client : handler'[c].pc = "idle"
    BY <1>5 DEF Crash, NoFrame, NoHandler
  <2>2. \A t \in Time : ~(heap'[k][t] > 0)
    BY <2>1 DEF EmptyHeap
  <2>3. ~Popped(k)'
    BY <1>3, <2>1
  <2> HIDE DEF Popped
  <2> QED
    BY <2>1, <2>2, <2>3 DEF Knows
<1> QED
  BY <1>2, <1>4, <1>5

LEMMA InitTimes == Init => TimeInv
<1> SUFFICES ASSUME Init PROVE TimeInv
  OBVIOUS
<1>1. 0 \in Time /\ 0 \in 0 .. MaxNow
  BY ModelAssumption DEF Time, ModelAssumption
<1>2. ToTimeT(0) = 0
  BY <1>1, ToTimeTBounds DEF Time
<1>3. \A j \in Job : ~Present(db, j) /\ db[j].next_run = 0
  BY DEF Init, Vacant, Present, JobStatus
<1> QED
  BY <1>2, <1>3 DEF Init, TimeInv, RowsInSeconds, Knows, LoopStart

\* What the places know of run times, as long as nobody calls resume_job.
LEMMA TimesInvariant ==
  ASSUME "resume" \notin Ops
  PROVE  Spec => []TimeInv
<1>1. TypeOK /\ PlaceInv /\ PlaceInv' /\ TimeInv /\ [Next]_vars => TimeInv'
  <2> SUFFICES ASSUME TypeOK, PlaceInv, PlaceInv', TimeInv, [Next]_vars PROVE TimeInv'
    OBVIOUS
  <2>1. RowsInSeconds'
    BY SecondsStay DEF TimeInv
  <2>2. \A k \in Job : Knows(k)
    BY DEF TimeInv
  <2>3. now' \in {now, now + 1}
    BY DEF Next, vars, Tick, Boot, Crash, LoopStep, LoopLock, LoopPop, LoopUnlock,
       LoopSkip, LoopExecute, LoopDispatch, LoopAgain, MarkRunning, Submit, WorkerTake,
       ExecuteStep, RunnerReturns, Reread, Repause, RunStart, RunSucceed, RunFail,
       Complete, Fail, SetActive, SetNext, ResetCount, CountRetry, SetRetryNext,
       SetRetryActive, Reschedule, Write, WriteAndReturn, HandlerBegin, HandlerStep,
       CreateSave, PauseFind, ResumeFind, DeleteFind, CallSchedule, PauseWrite,
       ResumeWrite, DeleteRemove
  <2>4. ~LoopStep => loop'.at <= now'
    <3>1. loop.at \in Nat /\ now \in Nat /\ loop.at <= now
      BY ModelAssumption DEF TypeOK, LoopState, TimeInv, ModelAssumption
    <3>2. ~LoopStep => loop' = loop \/ loop' = LoopStart
      BY DEF Next, vars, Tick, Boot, Crash, WorkerTake, ExecuteStep, RunnerReturns,
         Reread, Repause, RunStart, RunSucceed, RunFail, Complete, Fail, SetActive,
         SetNext, ResetCount, CountRetry, SetRetryNext, SetRetryActive, Reschedule,
         Write, WriteAndReturn, HandlerBegin, HandlerStep, CreateSave, PauseFind,
         ResumeFind, DeleteFind, CallSchedule, PauseWrite, ResumeWrite, DeleteRemove
    <3> QED
      BY <2>3, <3>1, <3>2 DEF LoopStart
  <2>5. loop'.at <= now'
    BY <2>4, LoopKnows
  <2>6. ASSUME NEW k \in Job PROVE Knows(k)'
    <3>1. CASE UNCHANGED vars
      <4>1. UNCHANGED <<db, now, heap, loop, queue, frame, handler>>
        BY <3>1 DEF vars
      <4> QED
        BY <2>2, <4>1 DEF Knows, Popped, Occurs, Dispatching, Present
    <3> QED
      BY <2>2, <3>1, ProcessKnows, LoopKnows, WorkerKnows, ExecuteKnows, HandlerKnows
         DEF Next
  <2> QED
    BY <2>1, <2>5, <2>6 DEF TimeInv
<1> QED
  BY <1>1, InitTimes, PlacesInvariant, TypeCorrect, PTL DEF Spec

(***************************************************************************)
(* As long as nobody calls resume_job, the heap is a working copy of the   *)
(* table: whatever the interleaving of loop, workers and handlers, an      *)
(* entry's time is the next_run_time of its job's row, in whole seconds.   *)
(***************************************************************************)
THEOREM HeapIsCopyOfTable ==
  ASSUME "resume" \notin Ops
  PROVE  Spec => []HeapAgreesWithTable
<1>1. TimeInv => HeapAgreesWithTable
  BY DEF TimeInv, Knows, HeapAgreesWithTable
<1> QED
  BY <1>1, TimesInvariant, PTL

(***************************************************************************)
(* As long as nobody calls resume_job, no job is run before the time its   *)
(* row holds: between the pop of its entry and the runner's answer nobody  *)
(* moves that time.                                                        *)
(***************************************************************************)
THEOREM NoRunIsEarly ==
  ASSUME "resume" \notin Ops
  PROVE  Spec => []RunsWhenDue
<1>1. TypeOK /\ TimeInv => RunsWhenDue
  BY DEF TypeOK, TimeInv, Knows, Popped, RunsWhenDue
<1> QED
  BY <1>1, TimesInvariant, TypeCorrect, PTL

-----------------------------------------------------------------------------
(* Ended jobs.                                                             *)

\* Only who holds a job, or creates it, makes it live.
LEMMA HeldWakes ==
  ASSUME TypeOK, IdleHasNoJob, [Next]_vars, NEW k \in Job,
         ~Live(k), Live(k)', db[k].status # "unused"
  PROVE  Held(k)
<1> SUFFICES ASSUME ~Held(k) PROVE FALSE
  OBVIOUS
<1>1. db' # db
  BY DEF Live
<1>2. ASSUME NEW s \in JobStatus, NEW j \in Job, db' = UpdateStatus(db, j, s)
      PROVE  k = j /\ s \in {"Active", "Running"}
  <2>1. k = j
    BY <1>2, WriteLive
  <2> QED
    BY <1>2, <2>1, WriteDead
<1>3. CASE LoopStep
  <2>1. loop.id \in Job /\ loop.pc = "mark" /\ db' = UpdateStatus(db, loop.id, "Running")
    BY <1>1, <1>3 DEF LoopStep, LoopLock, LoopPop, LoopUnlock, LoopSkip, LoopExecute,
       LoopDispatch, LoopAgain, MarkRunning, Submit, TypeOK
  <2> QED
    BY <1>2, <2>1 DEF Held, Dispatching, JobStatus
<1>4. ASSUME NEW th \in Thread, ExecuteStep(th) \/ RunnerReturns(th) PROVE FALSE
  <2>1. frame[th].id \in Job /\ frame[th].id # k
    BY <1>4, ExecuteMoves DEF Held, OnThread
  <2> QED
    BY <1>1, <1>4, <2>1, ExecuteWrites, WriteLive
<1>5. ASSUME NEW c \in Client, HandlerBegin(c) PROVE FALSE
  <2>1. PICK j \in Job : CreateSave(c, j)
    BY <1>1, <1>5 DEF HandlerBegin, PauseFind, ResumeFind, DeleteFind
  <2>2. NextRuns(j, now) \ {NoTime} \subseteq Time
    BY NextRunsTypes DEF TypeOK
  <2> QED
    BY <2>1, <2>2, WriteLive DEF CreateSave
<1>6. ASSUME NEW c \in Client, HandlerStep(c) PROVE FALSE
  <2>1. ~ResumeWrite(c)
    BY DEF ResumeWrite, IdleHasNoJob
  <2>2. /\ handler[c].id \in Job
        /\ \/ db' = UpdateStatus(db, handler[c].id, "Paused")
           \/ db' = Remove(db, handler[c].id)
    BY <1>1, <1>6, <2>1 DEF HandlerStep, CallSchedule, PauseWrite, DeleteRemove, TypeOK
  <2>3. db' # Remove(db, handler[c].id)
    BY <2>2, WriteLive, WriteDead
  <2> QED
    BY <1>2, <2>2, <2>3 DEF JobStatus
<1> QED
  BY <1>1, <1>3, <1>4, <1>5, <1>6
     DEF Next, vars, Tick, Boot, Crash, WorkerTake

(***************************************************************************)
(* As long as nobody calls resume_job, a job that has completed or failed  *)
(* never becomes active or running again: when it ended, nothing was left  *)
(* in the process that would have acted on it.                             *)
(***************************************************************************)
THEOREM EndedJobStaysEnded ==
  ASSUME "resume" \notin Ops
  PROVE  Spec => TerminalIsFinal
<1>1. TypeOK /\ PlaceInv /\ [Next]_vars =>
        [\A j \in Job : db[j].status \in {"Completed", "Failed"} => ~Live(j)']_vars
  <2> SUFFICES ASSUME TypeOK, PlaceInv, [Next]_vars, NEW j \in Job,
                      db[j].status \in {"Completed", "Failed"}
               PROVE  ~Live(j)'
    OBVIOUS
  <2>1. ~Held(j) /\ IdleHasNoJob
    BY DEF PlaceInv, EndedIsUnheld
  <2>2. ~Live(j)
    BY DEF Live
  <2> QED
    BY <2>1, <2>2, HeldWakes
<1> QED
  BY <1>1, PlacesInvariant, TypeCorrect, PTL DEF Spec, TerminalIsFinal

=============================================================================
