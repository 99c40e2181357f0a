---------------------------- MODULE MCJobHistory ----------------------------
(* Instances of JobHistory for TLC: two jobs, an interval and a one_time.  *)
EXTENDS JobHistory, TLC

CONSTANTS j1, j2

MCKind       == (j1 :> "interval") @@ (j2 :> "one_time")
MCPeriod     == (j1 :> Second) @@ (j2 :> Second)
MCRunAt      == (j1 :> Second) @@ (j2 :> Second)
MCMaxRetries == (j1 :> 1) @@ (j2 :> -1)
MCRetryDelay == (j1 :> 0) @@ (j2 :> Second)

=============================================================================
