------------------------- MODULE MCSchedulerThread --------------------------
(* An instance of SchedulerThread for TLC: three entries, two of them due  *)
(* at the same time.                                                       *)
EXTENDS SchedulerThread, TLC

CONSTANTS e1, e2, e3

MCDue == (e1 :> 2) @@ (e2 :> 1) @@ (e3 :> 1)

=============================================================================
