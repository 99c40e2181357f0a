-------------------------- MODULE SchedulerProofs ---------------------------
(***************************************************************************)
(* Theorems about SchedulerThread, for every set of entries, every due     *)
(* time and every bound.                                                   *)
(***************************************************************************)
EXTENDS SchedulerThread, SequenceTheorems, TLAPS

(***************************************************************************)
(* Type correctness, with what connects the loop to its owner: the loop    *)
(* thread exists exactly between start and the join of stop, running_ is   *)
(* set exactly until stop begins, and due_ids is empty wherever the loop   *)
(* does not use it.                                                        *)
(***************************************************************************)
THEOREM ThreadTypeCorrect == Spec => []TypeOK
<1>1. Init => TypeOK
  <2> SUFFICES ASSUME Init PROVE TypeOK
    OBVIOUS
  <2>1. 0 \in 0 .. MaxNow /\ <<>> \in Seq(Entry)
    BY ThreadAssumption, EmptySeq DEF ThreadAssumption
  <2> QED
    BY <2>1 DEF Init, TypeOK, LoopPc, OwnerPc
<1>2. TypeOK /\ [Next]_vars => TypeOK'
  <2> SUFFICES ASSUME TypeOK, [Next]_vars PROVE TypeOK'
    OBVIOUS
  <2> USE ThreadAssumption DEF ThreadAssumption, TypeOK, LoopPc, OwnerPc
  <2>1. ASSUME Tick PROVE TypeOK'
    BY <2>1 DEF Tick
  <2>2. ASSUME NEW e \in Entry, Schedule(e) PROVE TypeOK'
    BY <2>2 DEF Schedule, Woken
  <2>3. ASSUME Poke PROVE TypeOK'
    BY <2>3 DEF Poke, Woken
  <2>4. ASSUME Load \/ Start PROVE TypeOK'
    <3>1. CASE Load
      BY <3>1 DEF Load
    <3>2. CASE Start
      BY <3>2 DEF Start
    <3> QED
      BY <2>4, <3>1, <3>2
  <2>5. ASSUME StopFlag \/ StopStep PROVE TypeOK'
    <3>1. CASE StopFlag
      BY <3>1 DEF StopFlag
    <3>2. CASE StopNotify
      BY <3>2 DEF StopNotify, Woken
    <3>3. CASE StopJoin
      BY <3>3 DEF StopJoin
    <3> QED
      BY <2>5, <3>1, <3>2, <3>3 DEF StopStep
  <2>6. ASSUME LoopHead \/ LookEmpty \/ Relock \/ BlockUntil \/ Timeout \/ EachDone
        PROVE  TypeOK'
    BY <2>6 DEF LoopHead, LookEmpty, Relock, BlockUntil, Timeout, EachDone, WaitTest,
                Goto, Keep
  <2>7. ASSUME Block \/ LookEarly \/ LookDue PROVE TypeOK'
    <3>1. CASE Block
      BY <3>1 DEF Block, Goto
    <3>2. CASE LookEarly
      BY <3>2 DEF LookEarly, Goto
    <3>3. CASE LookDue
      BY <3>3 DEF LookDue, Goto
    <3> QED
      BY <2>7, <3>1, <3>2, <3>3
  <2>8. ASSUME PopDue PROVE TypeOK'
    <3>1. PICK e \in Entry : heap' = heap \ {e} /\ batch' = Append(batch, e)
      BY <2>8 DEF PopDue
    <3>2. batch' \in Seq(Entry)
      BY <3>1, AppendProperties
    <3> QED
      BY <2>8, <3>1, <3>2 DEF PopDue
  <2>9. ASSUME Unlock PROVE TypeOK'
    BY <2>9 DEF Unlock, Goto, Keep
  <2>10. ASSUME Fire PROVE TypeOK'
    <3>1. Head(batch) \in Entry /\ Tail(batch) \in Seq(Entry)
      BY <2>10, HeadTailProperties DEF Fire
    <3> QED
      BY <2>10, <3>1 DEF Fire
  <2>11. ASSUME SpuriousWake PROVE TypeOK'
    BY <2>11 DEF SpuriousWake, Goto, Keep, Woken
  <2>12. ASSUME UNCHANGED vars PROVE TypeOK'
    BY <2>12 DEF vars
  <2> QED
    BY <2>1, <2>2, <2>3, <2>4, <2>5, <2>6, <2>7, <2>8, <2>9, <2>10, <2>11, <2>12
       DEF Next, LoopStep
<1> QED
  BY <1>1, <1>2, PTL DEF Spec

-----------------------------------------------------------------------------
(***************************************************************************)
(* No notification of schedule is lost.  From the look at the heap to the  *)
(* wait the loop holds the mutex, so nothing is pushed in between, and a   *)
(* push while it waits wakes it: it never sleeps longer than to the        *)
(* earliest entry, and without a limit only on an empty heap.              *)
(***************************************************************************)
THEOREM ThreadSleepsUntilTheTop == Spec => []SleepsUntilTheTop
<1>1. Init => SleepsUntilTheTop
  BY DEF Init, SleepsUntilTheTop
<1>2. TypeOK /\ SleepsUntilTheTop /\ [Next]_vars => SleepsUntilTheTop'
  <2> SUFFICES ASSUME TypeOK, SleepsUntilTheTop, [Next]_vars
               PROVE  SleepsUntilTheTop'
    OBVIOUS
  <2> USE DEF TypeOK, SleepsUntilTheTop, IsTop
  <2>1. ASSUME NEW e \in Entry, Schedule(e) PROVE SleepsUntilTheTop'
    BY <2>1 DEF Schedule, Woken, Inside
  <2>2. ASSUME Poke \/ StopNotify PROVE SleepsUntilTheTop'
    BY <2>2 DEF Poke, StopNotify, Woken
  <2>3. ASSUME Tick \/ Load \/ Start \/ StopFlag \/ StopJoin
        PROVE  SleepsUntilTheTop'
    BY <2>3 DEF Tick, Load, Start, StopFlag, StopJoin
  <2>4. ASSUME LookEmpty \/ Relock PROVE SleepsUntilTheTop'
    BY <2>4 DEF LookEmpty, Relock, WaitTest, Goto, Keep
  <2>5. ASSUME LookEarly PROVE SleepsUntilTheTop'
    BY <2>5 DEF LookEarly, Goto
  <2>6. ASSUME Block \/ BlockUntil PROVE SleepsUntilTheTop'
    BY <2>6 DEF Block, BlockUntil, Goto, Keep
  <2>7. ASSUME LoopHead \/ Timeout \/ LookDue \/ Unlock \/ EachDone \/ SpuriousWake
        PROVE  SleepsUntilTheTop'
    BY <2>7 DEF LoopHead, Timeout, LookDue, Unlock, EachDone, SpuriousWake, Woken,
                Goto, Keep
  <2>8. ASSUME PopDue \/ Fire PROVE SleepsUntilTheTop'
    BY <2>8 DEF PopDue, Fire
  <2>9. ASSUME UNCHANGED vars PROVE SleepsUntilTheTop'
    BY <2>9 DEF vars
  <2> QED
    BY <2>1, <2>2, <2>3, <2>4, <2>5, <2>6, <2>7, <2>8, <2>9
       DEF Next, LoopStep, StopStep
<1> QED
  BY <1>1, <1>2, ThreadTypeCorrect, PTL DEF Spec

(***************************************************************************)
(* After stop has notified, the loop is in the wait without a limit only   *)
(* if it got there after running_ had been cleared: the notification takes *)
(* it out of the wait, and Block is the only way in.                       *)
(***************************************************************************)
THEOREM ThreadOnlyLateMissesTheStop == Spec => []OnlyLateMissesTheStop
<1>1. Init => OnlyLateMissesTheStop
  BY DEF Init, OnlyLateMissesTheStop
<1>2. TypeOK /\ OnlyLateMissesTheStop /\ [Next]_vars => OnlyLateMissesTheStop'
  <2> SUFFICES ASSUME TypeOK, OnlyLateMissesTheStop, [Next]_vars
               PROVE  OnlyLateMissesTheStop'
    OBVIOUS
  <2> USE DEF TypeOK, OnlyLateMissesTheStop
  <2>1. ASSUME Tick \/ Poke \/ Load \/ Start \/ StopFlag PROVE OnlyLateMissesTheStop'
    BY <2>1 DEF Tick, Poke, Load, Start, StopFlag, Woken
  <2>2. ASSUME NEW e \in Entry, Schedule(e) PROVE OnlyLateMissesTheStop'
    BY <2>2 DEF Schedule, Woken
  <2>3. ASSUME StopStep PROVE OnlyLateMissesTheStop'
    BY <2>3 DEF StopStep, StopNotify, StopJoin, Woken
  <2>4. ASSUME Block PROVE OnlyLateMissesTheStop'
    BY <2>4 DEF Block, Goto
  <2>5. ASSUME LoopHead \/ LookEmpty \/ Relock \/ LookEarly \/ BlockUntil \/ Timeout
               \/ LookDue \/ Unlock \/ EachDone \/ SpuriousWake
        PROVE  OnlyLateMissesTheStop'
    BY <2>5 DEF LoopHead, LookEmpty, Relock, LookEarly, BlockUntil, Timeout, LookDue,
                Unlock, EachDone, SpuriousWake, WaitTest, Woken, Goto, Keep
  <2>6. ASSUME PopDue \/ Fire PROVE OnlyLateMissesTheStop'
    BY <2>6 DEF PopDue, Fire
  <2>7. ASSUME UNCHANGED vars PROVE OnlyLateMissesTheStop'
    BY <2>7 DEF vars
  <2> QED
    BY <2>1, <2>2, <2>3, <2>4, <2>5, <2>6, <2>7 DEF Next, LoopStep
<1> QED
  BY <1>1, <1>2, ThreadTypeCorrect, PTL DEF Spec

-----------------------------------------------------------------------------
(***************************************************************************)
(* What the refinement rests on: the loop pops against a clock it has read *)
(* in the past, and load_from_repository finds a scheduler that has not    *)
(* taken an entry yet.                                                     *)
(***************************************************************************)
PopsInThePast ==
  /\ pc = "pop" => at <= now
  /\ owner = "new" => heap = {} /\ fired = {}

LEMMA PopsInThePastHolds == Spec => []PopsInThePast
<1>1. Init => PopsInThePast
  BY DEF Init, PopsInThePast
<1>2. TypeOK /\ PopsInThePast /\ [Next]_vars => PopsInThePast'
  <2> SUFFICES ASSUME TypeOK, PopsInThePast, [Next]_vars PROVE PopsInThePast'
    OBVIOUS
  <2> USE ThreadAssumption DEF ThreadAssumption, TypeOK, PopsInThePast
  <2>1. ASSUME Tick PROVE PopsInThePast'
    BY <2>1 DEF Tick
  <2>2. ASSUME NEW e \in Entry, Schedule(e) PROVE PopsInThePast'
    BY <2>2 DEF Schedule, Woken
  <2>3. ASSUME Poke \/ Load \/ Start PROVE PopsInThePast'
    BY <2>3 DEF Poke, Load, Start, Woken
  <2>4. ASSUME StopFlag \/ StopNotify \/ StopJoin PROVE PopsInThePast'
    BY <2>4 DEF StopFlag, StopNotify, StopJoin, Woken
  <2>5. ASSUME LoopStep \/ Fire \/ SpuriousWake PROVE PopsInThePast'
    <3>1. CASE LookDue
      BY <3>1 DEF LookDue, Goto
    <3>2. CASE PopDue \/ Fire
      BY <3>2 DEF PopDue, Fire
    <3>3. CASE LoopHead \/ LookEmpty \/ Relock \/ Block \/ LookEarly \/ BlockUntil
               \/ Timeout \/ Unlock \/ EachDone \/ SpuriousWake
      BY <3>3 DEF LoopHead, LookEmpty, Relock, Block, LookEarly, BlockUntil, Timeout,
                  Unlock, EachDone, SpuriousWake, WaitTest, Goto, Keep, Woken
    <3> QED
      BY <2>5, <3>1, <3>2, <3>3 DEF LoopStep
  <2>6. ASSUME UNCHANGED vars PROVE PopsInThePast'
    BY <2>6 DEF vars
  <2> QED
    BY <2>1, <2>2, <2>3, <2>4, <2>5, <2>6 DEF Next, StopStep
<1> QED
  BY <1>1, <1>2, ThreadTypeCorrect, PTL DEF Spec

(***************************************************************************)
(* The thread implements the timer queue: schedule and load add, the pop   *)
(* takes, the for loop hands over, and every step of the mutex, the        *)
(* condition variable, start and stop leaves the entries alone.  So an     *)
(* entry is handed over once, not before its time, the earlier first.      *)
(***************************************************************************)
THEOREM ThreadImplementsTimerQueue == Spec => ImplementsTimerQueue
<1>1. Init => Timer!Init
  BY DEF Init, Timer!Init
<1>2. TypeOK /\ PopsInThePast /\ [Next]_vars => [Timer!Next]_(Timer!tvars)
  <2> SUFFICES ASSUME TypeOK, PopsInThePast, Next
               PROVE  Timer!Next \/ UNCHANGED <<now, heap, batch, fired>>
    BY DEF vars, Timer!tvars
  <2>1. ASSUME Tick PROVE Timer!Tick
    BY <2>1 DEF Tick, Timer!Tick
  <2>2. ASSUME NEW e \in Entry, Schedule(e) PROVE Timer!Add({e})
    BY <2>2 DEF Schedule, Fresh, InBatch, Timer!Add, Timer!IsTaken
  <2>3. ASSUME Load PROVE Timer!Add(Stored)
    <3>1. batch = <<>>
      BY <2>3 DEF Load, TypeOK
    <3>2. heap = {} /\ fired = {} /\ heap' = Stored /\ UNCHANGED <<now, batch, fired>>
      BY <2>3 DEF Load, PopsInThePast
    <3>3. \A e : ~Timer!IsTaken(e)
      BY <3>1, EmptySeq DEF Timer!IsTaken
    <3> QED
      BY <3>2, <3>3 DEF Timer!Add
  <2>4. ASSUME PopDue PROVE \E e \in Entry : Timer!Take(e)
    <3>1. PICK e \in Entry : /\ IsTop(e)
                             /\ Due[e] <= at
                             /\ heap' = heap \ {e}
                             /\ batch' = Append(batch, e)
      BY <2>4 DEF PopDue
    <3>2. Due[e] <= now
      BY <2>4, <3>1, ThreadAssumption DEF PopDue, PopsInThePast, TypeOK, ThreadAssumption
    <3> QED
      BY <2>4, <3>1, <3>2 DEF PopDue, IsTop, Timer!Take
  <2>5. ASSUME Fire PROVE Timer!Fire
    BY <2>5 DEF Fire, Timer!Fire
  <2>6. ASSUME Poke \/ Start \/ StopFlag \/ StopStep
        PROVE  UNCHANGED <<now, heap, batch, fired>>
    BY <2>6 DEF Poke, Start, StopFlag, StopStep, StopNotify, StopJoin
  <2>7. ASSUME LoopHead \/ LookEmpty \/ Relock \/ Block \/ LookEarly \/ BlockUntil
               \/ Timeout \/ LookDue \/ Unlock \/ EachDone \/ SpuriousWake
        PROVE  UNCHANGED <<now, heap, batch, fired>>
    BY <2>7 DEF LoopHead, LookEmpty, Relock, Block, LookEarly, BlockUntil, Timeout,
                LookDue, Unlock, EachDone, SpuriousWake, WaitTest, Goto, Keep
  <2>8. Stored \in SUBSET Entry
    BY ThreadAssumption DEF ThreadAssumption
  <2> QED
    BY <2>1, <2>2, <2>3, <2>4, <2>5, <2>6, <2>7, <2>8 DEF Next, LoopStep, Timer!Next
<1> QED
  BY <1>1, <1>2, ThreadTypeCorrect, PopsInThePastHolds, PTL
     DEF Spec, ImplementsTimerQueue, Timer!Spec

=============================================================================
