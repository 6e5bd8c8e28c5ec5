---------------------------- MODULE MCPublication ----------------------------
(* Two lanes, each with a published bootstrap record, and the runs that follow. *)
(* A run with several results is one whose content the scenario leaves open:    *)
(* whichever is sealed first is the run's.                                      *)
EXTENDS Publication, TLC

CONSTANTS
    sentinel, comprehensive,        \* lanes
    s0, s1, s2, c0, c1,             \* runs, by lane and start time
    S0, S1, S2, C0, C1, C1clean,    \* what they sealed
    S1late,                         \* sealed again under a run_id already used
    C0last, C1onLast,               \* a baseline sealed after what it is compared with
    C1boot,                         \* a second bootstrap of its lane
    S1one,                          \* a run that confirms one drift only
    C1unattributed, C1foreign,      \* origin not attested, attested to another
    workflow, once,                 \* passes
    f1, f2                          \* drifts: of a shared and of a sentinel-only case

Runs == {s0, s1, s2, c0, c1}
RunLane == [r \in Runs |-> IF r \in {c0, c1} THEN comprehensive ELSE sentinel]
RunStart == [r \in Runs |-> CASE r \in {s0, c0} -> 0 [] r \in {s1, c1} -> 1 [] OTHER -> 2]
BothSeeded == {S0, C0}
SentinelSeeded == {S0}

Bootstrap(r, sealed) ==
    [run |-> r, sealed_at |-> sealed, intact |-> TRUE, conformant |-> TRUE,
     origin |-> "allowed", state |-> "bootstrap", baseline |-> None,
     confirmed |-> {}, covered |-> {}]

Compared(r, sealed, baseline, covered, confirmed) ==
    [Bootstrap(r, sealed) EXCEPT !.state = "compared", !.baseline = baseline,
                                 !.covered = covered, !.confirmed = confirmed]

AllBodies ==
       (S0 :> Bootstrap(s0, 0))
    @@ (C0 :> Bootstrap(c0, 0))
    @@ (S1 :> Compared(s1, 1, S0, {f1, f2}, {f1, f2}))
    @@ (S2 :> Compared(s2, 3, S0, {f1, f2}, {}))
    @@ (C1 :> Compared(c1, 2, C0, {f1}, {f1}))
    @@ (C1clean :> Compared(c1, 2, C0, {f1}, {}))
    @@ (S1late :> Compared(s1, 4, S0, {f1, f2}, {}))
    @@ (C0last :> Bootstrap(c0, 4))
    @@ (C1onLast :> Compared(c1, 2, C0last, {f1}, {f1}))
    @@ (S1one :> Compared(s1, 1, S0, {f1}, {f1}))
    @@ (C1boot :> Bootstrap(c1, 2))
    @@ (C1unattributed :> [Compared(c1, 2, C0last, {f1}, {f1}) EXCEPT !.origin = "unavailable"])
    @@ (C1foreign :> [Compared(c1, 2, C0last, {f1}, {f1}) EXCEPT !.origin = "foreign"])

Bodies == [x \in Result |-> AllBodies[x]]

=============================================================================
