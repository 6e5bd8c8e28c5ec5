------------------------------ MODULE MCWatchdog ------------------------------
(* One or two lanes whose runs are scheduled or manual.                          *)
EXTENDS Watchdog, TLC

CONSTANTS
    sentinel, comprehensive,    \* lanes
    r1, r2,                     \* scheduled runs of the sentinel lane
    m,                          \* a manual run between them
    workflow, once              \* passes

AllRuns ==
       (r1 :> [lane |-> sentinel, started |-> 0, finished |-> 0, qualifies |-> TRUE])
    @@ (m :> [lane |-> sentinel, started |-> 1, finished |-> 1, qualifies |-> FALSE])
    @@ (r2 :> [lane |-> sentinel, started |-> 2, finished |-> 2, qualifies |-> TRUE])

Runs == [r \in Run |-> AllRuns[r]]
Gaps == [l \in Lane |-> IF l = sentinel THEN 1 ELSE 2]

=============================================================================
