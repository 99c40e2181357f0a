---------------------------- MODULE MCJobSystem -----------------------------
(* Instances of JobSystem for TLC: two jobs, an interval and a one_time.   *)
EXTENDS JobProperties, TLC

CONSTANTS j1, j2

MCKind       == (j1 :> "interval") @@ (j2 :> "one_time")
MCKindCron   == (j1 :> "cron")     @@ (j2 :> "one_time")
MCPeriod     == (j1 :> Second) @@ (j2 :> Second)
MCRunAt      == (j1 :> Second) @@ (j2 :> Second)
MCMaxRetries == (j1 :> 1) @@ (j2 :> 0)
MCRetryDelay == (j1 :> 0) @@ (j2 :> Second)

=============================================================================
