----------------------------- MODULE TaskQueue ------------------------------
(***************************************************************************)
(* What a thread pool promises: a queue of tasks and workers that take     *)
(* them in the order of submission, each task once.                        *)
(***************************************************************************)
EXTENDS Sequences, Naturals

CONSTANTS
  Task,    \* the tasks that may be submitted, each at most once
  Worker,  \* the threads of the pool
  NoTask   \* what an idle worker holds

VARIABLES
  queue,  \* submitted and not taken, oldest first
  held,   \* the task each worker runs
  done    \* the tasks that have run

qvars == <<queue, held, done>>

Init ==
  /\ queue = <<>>
  /\ held = [w \in Worker |-> NoTask]
  /\ done = {}

Queued(t) == \E i \in 1 .. Len(queue) : queue[i] = t
Fresh(t)  == ~Queued(t) /\ t \notin done /\ \A w \in Worker : held[w] # t

Submit(t) ==
  /\ Fresh(t)
  /\ queue' = Append(queue, t)
  /\ UNCHANGED <<held, done>>

Take(w) ==
  /\ held[w] = NoTask
  /\ queue # <<>>
  /\ held' = [held EXCEPT ![w] = Head(queue)]
  /\ queue' = Tail(queue)
  /\ UNCHANGED done

Finish(w) ==
  /\ held[w] # NoTask
  /\ done' = done \cup {held[w]}
  /\ held' = [held EXCEPT ![w] = NoTask]
  /\ UNCHANGED queue

Next ==
  \/ \E t \in Task : Submit(t)
  \/ \E w \in Worker : Take(w) \/ Finish(w)

Spec == Init /\ [][Next]_qvars

(***************************************************************************)
(* If a worker stays free, or tasks end, the oldest task is taken.         *)
(***************************************************************************)
FairSpec ==
  /\ Spec
  /\ WF_qvars(\E w \in Worker : Take(w))
  /\ \A w \in Worker : WF_qvars(Finish(w))

=============================================================================
