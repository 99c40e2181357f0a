----------------------------- MODULE TimerQueue -----------------------------
(***************************************************************************)
(* What the scheduler's thread promises: an entry is handed over once, not *)
(* before its time, the earlier before the later, and, once it has been    *)
(* taken, without fail.                                                    *)
(***************************************************************************)
EXTENDS Naturals, Sequences

CONSTANTS
  Entry,   \* the entries that may be added, each at most once
  Due,     \* the time of each entry
  MaxNow   \* bound: the clock stops here

VARIABLES
  now,      \* the clock
  pending,  \* entries added and not taken
  taken,    \* entries taken and not yet handed over, in the order of taking
  fired     \* entries handed over

tvars == <<now, pending, taken, fired>>

Init ==
  /\ now = 0
  /\ pending = {}
  /\ taken = <<>>
  /\ fired = {}

Tick ==
  /\ now < MaxNow
  /\ now' = now + 1
  /\ UNCHANGED <<pending, taken, fired>>

IsTaken(e) == \E i \in 1 .. Len(taken) : taken[i] = e

Add(S) ==
  /\ \A e \in S : e \notin pending \cup fired /\ ~IsTaken(e)
  /\ pending' = pending \cup S
  /\ UNCHANGED <<now, taken, fired>>

\* An entry is taken only if its time has come and no other is earlier.
Take(e) ==
  /\ e \in pending
  /\ Due[e] <= now
  /\ \A o \in pending : Due[e] <= Due[o]
  /\ pending' = pending \ {e}
  /\ taken' = Append(taken, e)
  /\ UNCHANGED <<now, fired>>

Fire ==
  /\ taken # <<>>
  /\ fired' = fired \cup {Head(taken)}
  /\ taken' = Tail(taken)
  /\ UNCHANGED <<now, pending>>

Next ==
  \/ Tick
  \/ \E S \in SUBSET Entry : Add(S)
  \/ \E e \in Entry : Take(e)
  \/ Fire

Spec == Init /\ [][Next]_tvars

\* What has been taken is handed over.
TakenIsFired == WF_tvars(Fire)

=============================================================================
