------------------------------- MODULE Watchdog -------------------------------
(***************************************************************************)
(* The watchdog pass (runtime_platform/benchmark/publisher/watchdog.py,    *)
(* health.py): missed-run issues by gap arithmetic, then the health-status *)
(* comment.  It reads the receipts that the sweeps of Publication write,   *)
(* and keeps what it remembers between passes in the tracker alone: the    *)
(* stamps and markers of its own comments.                                 *)
(***************************************************************************)
EXTENDS Naturals, Sequences, FiniteSets

CONSTANTS
    Pass,           \* passes that may run at once: the workflow's, a local one
    Local,          \* those of them that somebody runs by hand; bound: once each
    Lane, Run,
    None,           \* "no such thing"
    RunInfo,        \* [Run -> RunFacts]
    Seeded,         \* runs that are published at the start
    MaxGap,         \* [Lane -> Nat]: lanes.<lane>.max_gap_hours
    Interval,       \* watchdog.missed_run_comment_interval_hours
    MaxScanned,     \* MAX_RECORDS_SCANNED
    SweepOutcome,   \* what --sweep-report may show: a successful full pass, or not
    Horizon,        \* bound: the clock stops here
    MaxMoves,       \* bound: changes of the manifest's expected_from
    MaxFailures     \* bound: passes that end early

RunFacts ==
    [lane : Lane,
     started : Nat,         \* run_sort_key
     finished : Nat,
     qualifies : BOOLEAN]   \* intact, verified and trigger: scheduled

ASSUME NoneIsNothing == None \notin Run \cup Nat

ASSUME ConstantTypes ==
    /\ Local \subseteq Pass
    /\ RunInfo \in [Run -> RunFacts]
    /\ Seeded \subseteq {r \in Run : RunInfo[r].finished = 0} /\ IsFiniteSet(Seeded)
    /\ MaxGap \in [Lane -> Nat]
    /\ Interval \in Nat \ {0}
    /\ MaxScanned \in Nat \ {0}
    /\ SweepOutcome \subseteq BOOLEAN
    /\ {Horizon, MaxMoves, MaxFailures} \subseteq Nat

\* run_sort_key orders the runs of a lane strictly.
ASSUME DistinctKeys ==
    \A q, r \in Run : RunInfo[q].lane = RunInfo[r].lane /\ RunInfo[q].started = RunInfo[r].started
                          => q = r

VARIABLES
    now,            \* the clock, in hours
    receipted,      \* runs that are published
    expected,       \* per lane: the manifest's expected_from
    moves,          \* changes of expected_from so far
    issues,         \* missed-run issues, by number
    health,         \* status comments of the publisher, oldest first
    failures,       \* passes that ended early so far
    pc, loc         \* per pass: the call it is about to make, and what it has read

world == <<now, receipted, expected, moves>>
tracker == <<issues, health>>
vars == <<world, tracker, failures, pc, loc>>

Instant == Nat \cup {None}

Issue ==
    [lane : Lane,
     reference : Nat,       \* where the body says the gap starts
     stamps : Seq(Nat),     \* notice stamps: of the body, then of the comments
     resolved : [Run -> Nat],   \* comments with the run's resolved marker
     closed : {"no", "resolved", "duplicate"}]

LaneState == {"OVERDUE", "not activated", "on schedule", "awaiting first run"}

Status ==
    [rows : [Lane -> [state : LaneState, record : Run \cup {None}, issue : Nat]],
     last : Instant]        \* last successful publication sweep

Locals ==
    [now : Nat,
     sweep_ok : BOOLEAN,    \* --sweep-report shows a successful full, real pass
     expected : [Lane -> Instant],
     unread : SUBSET Lane,  \* lanes whose receipts are still to be read
     record : [Lane -> Run \cup {None}],
     open : [Lane -> SUBSET Nat],   \* as listed at the start of reconciliation
     todo : SUBSET Lane,    \* lanes still to reconcile
     lane : Lane \cup {None},
     left : SUBSET Nat,     \* issues of the lane still to close
     kept : Nat,
     opened : BOOLEAN,
     result : [Lane -> Nat],        \* the lane's open issue after this pass, or 0
     last : Instant]        \* what the status comment said when it was read

Label ==
    {"idle", "status", "list", "judge", "create", "relist", "extras", "stamps", "notice",
     "scan", "resolution", "close", "publish", "done"}

\* The stores and what a pass has read keep their types; an alarm always names
\* the instant that its gap is measured from.
TypeOK ==
    /\ now \in 0..Horizon
    /\ receipted \subseteq Run
    /\ expected \in [Lane -> Instant]
    /\ moves \in 0..MaxMoves
    /\ issues \in Seq(Issue)
    /\ health \in Seq(Status)
    /\ failures \in 0..MaxFailures
    /\ pc \in [Pass -> Label]
    /\ loc \in [Pass -> Locals]

Fresh ==
    [now |-> 0, sweep_ok |-> FALSE, expected |-> [l \in Lane |-> None], unread |-> {},
     record |-> [l \in Lane |-> None], open |-> [l \in Lane |-> {}], todo |-> {},
     lane |-> None, left |-> {}, kept |-> 0, opened |-> FALSE,
     result |-> [l \in Lane |-> 0], last |-> None]

Init ==
    /\ now = 0
    /\ receipted = Seeded
    /\ expected = [l \in Lane |-> None]
    /\ moves = 0
    /\ issues = <<>>
    /\ health = <<>>
    /\ failures = 0
    /\ pc = [p \in Pass |-> "idle"]
    /\ loc = [p \in Pass |-> Fresh]

Ended(p) == IF p \in Local THEN "done" ELSE "idle"
Enter(p, label) == pc' = [pc EXCEPT ![p] = label]
Remember(p, v) == loc' = [loc EXCEPT ![p] = v]

-----------------------------------------------------------------------------
(* The gap rule: reads only. *)

\* `run_watchdog`: the manifest and the clock are read once, at the start.
StartPass(p) ==
    /\ pc[p] = "idle"
    /\ \E ok \in SweepOutcome :
        Remember(p, [Fresh EXCEPT !.now = now, !.sweep_ok = ok, !.expected = expected,
                                  !.unread = Lane, !.todo = Lane])
    /\ Enter(p, "status")
    /\ UNCHANGED <<world, tracker, failures>>

LaneReceipts(l) == {r \in receipted : RunInfo[r].lane = l}
Newer(S, r) == {q \in S : RunInfo[q].started > RunInfo[r].started}

\* `_published_run_ids`: the newest MAX_RECORDS_SCANNED receipts, whatever they are.
Scanned(l) == {r \in LaneReceipts(l) : Cardinality(Newer(LaneReceipts(l), r)) < MaxScanned}
Qualified(S) == {r \in S : RunInfo[r].qualifies}

\* Mutant: a manual run satisfies the gap.
AnyRecord(l) ==
    IF Scanned(l) = {} THEN None ELSE CHOOSE r \in Scanned(l) : Newer(Scanned(l), r) = {}

\* The first of them that is verified and scheduled.
LatestRecord(l) ==
    LET found == Qualified(Scanned(l)) IN
    IF found = {} THEN None ELSE CHOOSE r \in found : Newer(found, r) = {}

ReadLane(p) ==
    /\ pc[p] = "status"
    /\ \E l \in loc[p].unread :
        /\ Remember(p, [loc[p] EXCEPT !.unread = @ \ {l}, !.record[l] = LatestRecord(l)])
        /\ Enter(p, IF loc[p].unread = {l} THEN "list" ELSE "status")
    /\ UNCHANGED <<world, tracker, failures>>

\* LaneStatus, of the lane as this pass has read it.
FromRecord(p, l) ==
    /\ loc[p].record[l] # None
    /\ loc[p].expected[l] # None => RunInfo[loc[p].record[l]].finished >= loc[p].expected[l]

Reference(p, l) ==
    IF FromRecord(p, l) THEN RunInfo[loc[p].record[l]].finished ELSE loc[p].expected[l]

Overdue(p, l) ==
    Reference(p, l) # None /\ loc[p].now > Reference(p, l) + MaxGap[l]

-----------------------------------------------------------------------------
(* Reconcile the missed-run issues, lane by lane. *)

OpenIssues(l) == {n \in DOMAIN issues : issues[n].lane = l /\ issues[n].closed = "no"}

Lowest(S) == CHOOSE n \in S : \A m \in S : n <= m

\* Mutant: an issue is the lane's only if it is about the gap at hand.
ListSameGap(p) ==
    /\ pc[p] = "list"
    /\ Remember(p, [loc[p] EXCEPT !.open = [l \in Lane |->
           {n \in OpenIssues(l) : issues[n].reference = Reference(p, l)}]])
    /\ Enter(p, "judge")
    /\ UNCHANGED <<world, tracker, failures>>

\* Mutant: the listing has closed issues too.
ListAllStates(p) ==
    /\ pc[p] = "list"
    /\ Remember(p, [loc[p] EXCEPT !.open = [l \in Lane |->
           {n \in DOMAIN issues : issues[n].lane = l}]])
    /\ Enter(p, "judge")
    /\ UNCHANGED <<world, tracker, failures>>

\* `_open_by_lane`, once for all lanes.
ListIssues(p) ==
    /\ pc[p] = "list"
    /\ Remember(p, [loc[p] EXCEPT !.open = [l \in Lane |-> OpenIssues(l)]])
    /\ Enter(p, "judge")
    /\ UNCHANGED <<world, tracker, failures>>

\* The lane in hand is reconciled; `n` is its open issue, or 0.
Reconciled(p, l, n) ==
    /\ Enter(p, "judge")
    /\ Remember(p, [loc[p] EXCEPT !.todo = @ \ {l}, !.result[l] = n, !.lane = None,
                                  !.left = {}, !.kept = 0, !.opened = FALSE])

LowestOrZero(S) == IF S = {} THEN 0 ELSE Lowest(S)

\* Mutant: every lane that is not overdue has its issues closed.
CloseUnlessOverdue(p) ==
    /\ pc[p] = "judge"
    /\ \E l \in loc[p].todo :
        LET listed == loc[p].open[l] IN
        CASE Overdue(p, l) /\ listed = {} ->
                Enter(p, "create") /\ Remember(p, [loc[p] EXCEPT !.lane = l])
          [] Overdue(p, l) /\ listed # {} ->
                /\ Enter(p, "extras")
                /\ Remember(p, [loc[p] EXCEPT !.lane = l, !.kept = Lowest(listed),
                                              !.left = listed \ {Lowest(listed)}])
          [] ~ Overdue(p, l) /\ listed # {} ->
                Enter(p, "scan") /\ Remember(p, [loc[p] EXCEPT !.lane = l, !.left = listed])
          [] OTHER -> Reconciled(p, l, LowestOrZero(listed))
    /\ UNCHANGED <<world, tracker, failures>>

\* Mutant: a lane that awaits its first run is reported without its open issue.
ForgetAwaiting(p) ==
    /\ pc[p] = "judge"
    /\ \E l \in loc[p].todo :
        LET listed == loc[p].open[l] IN
        CASE Overdue(p, l) /\ listed = {} ->
                Enter(p, "create") /\ Remember(p, [loc[p] EXCEPT !.lane = l])
          [] Overdue(p, l) /\ listed # {} ->
                /\ Enter(p, "extras")
                /\ Remember(p, [loc[p] EXCEPT !.lane = l, !.kept = Lowest(listed),
                                              !.left = listed \ {Lowest(listed)}])
          [] ~ Overdue(p, l) /\ FromRecord(p, l) /\ listed # {} ->
                Enter(p, "scan") /\ Remember(p, [loc[p] EXCEPT !.lane = l, !.left = listed])
          [] OTHER -> Reconciled(p, l, 0)
    /\ UNCHANGED <<world, tracker, failures>>

\* `reconcile_missed_runs`: a lane that is not activated, or awaits its first
\* run, keeps its open issues.
Judge(p) ==
    /\ pc[p] = "judge"
    /\ \E l \in loc[p].todo :
        LET listed == loc[p].open[l] IN
        CASE Overdue(p, l) /\ listed = {} ->
                Enter(p, "create") /\ Remember(p, [loc[p] EXCEPT !.lane = l])
          [] Overdue(p, l) /\ listed # {} ->
                /\ Enter(p, "extras")
                /\ Remember(p, [loc[p] EXCEPT !.lane = l, !.kept = Lowest(listed),
                                              !.left = listed \ {Lowest(listed)}])
          [] ~ Overdue(p, l) /\ FromRecord(p, l) /\ listed # {} ->
                Enter(p, "scan") /\ Remember(p, [loc[p] EXCEPT !.lane = l, !.left = listed])
          [] OTHER -> Reconciled(p, l, LowestOrZero(listed))
    /\ UNCHANGED <<world, tracker, failures>>

\* `create_issue`: the body carries the stamp of this pass.
OpenIssue(p) ==
    LET l == loc[p].lane IN
    /\ pc[p] = "create"
    /\ issues' = Append(issues, [lane |-> l, reference |-> Reference(p, l),
                                 stamps |-> <<loc[p].now>>,
                                 resolved |-> [r \in Run |-> 0], closed |-> "no"])
    /\ Remember(p, [loc[p] EXCEPT !.kept = Len(issues) + 1, !.opened = TRUE])
    /\ Enter(p, "relist")
    /\ UNCHANGED <<world, health, failures>>

\* The listing after the create, which falls back on the created issue.
Relist(p) ==
    LET listed == OpenIssues(loc[p].lane)
        kept == IF listed = {} THEN loc[p].kept ELSE Lowest(listed)
    IN  /\ pc[p] = "relist"
        /\ Remember(p, [loc[p] EXCEPT !.kept = kept, !.left = listed \ {kept}])
        /\ Enter(p, "extras")
        /\ UNCHANGED <<world, tracker, failures>>

Closed(i, how) == [i EXCEPT !.closed = IF @ = "no" THEN how ELSE @]
Close(n, how) == issues' = [issues EXCEPT ![n] = Closed(issues[n], how)]

\* `_close_extras`: a pointer comment and `close_issue`.
CloseExtra(p) ==
    /\ pc[p] = "extras"
    /\ loc[p].left # {}
    /\ Close(Lowest(loc[p].left), "duplicate")
    /\ Remember(p, [loc[p] EXCEPT !.left = @ \ {Lowest(@)}])
    /\ UNCHANGED <<world, health, failures, pc>>

\* Mutant: extra issues are left open unless this pass has created one.
KeepExtras(p) ==
    /\ pc[p] = "extras"
    /\ loc[p].left = {} \/ ~ loc[p].opened
    /\ IF loc[p].opened
       THEN Reconciled(p, loc[p].lane, loc[p].kept)
       ELSE Enter(p, "stamps") /\ UNCHANGED loc
    /\ UNCHANGED <<world, tracker, failures>>

\* A lane whose issue was created now needs no notice.
ExtrasDone(p) ==
    /\ pc[p] = "extras"
    /\ loc[p].left = {}
    /\ IF loc[p].opened
       THEN Reconciled(p, loc[p].lane, loc[p].kept)
       ELSE Enter(p, "stamps") /\ UNCHANGED loc
    /\ UNCHANGED <<world, tracker, failures>>

\* Mutant: only the stamp of the issue's body counts.
BodyStampOnly(p) ==
    LET stamps == issues[loc[p].kept].stamps IN
    stamps # <<>> => loc[p].now >= stamps[1] + Interval

NoticeDue(p) ==
    \A i \in DOMAIN issues[loc[p].kept].stamps :
        loc[p].now >= issues[loc[p].kept].stamps[i] + Interval

\* `_notice_due`: the last stamp of the issue's body and comments.
ReadStamps(p) ==
    /\ pc[p] = "stamps"
    /\ IF NoticeDue(p)
       THEN Enter(p, "notice") /\ UNCHANGED loc
       ELSE Reconciled(p, loc[p].lane, loc[p].kept)
    /\ UNCHANGED <<world, tracker, failures>>

PostNotice(p) ==
    /\ pc[p] = "notice"
    /\ issues' = [issues EXCEPT ![loc[p].kept].stamps = Append(@, loc[p].now)]
    /\ Reconciled(p, loc[p].lane, loc[p].kept)
    /\ UNCHANGED <<world, health, failures>>

-----------------------------------------------------------------------------
(* `_resolve` the issues of a lane that has recovered, lowest number first. *)

\* Mutant: the resolution is commented without looking for its marker.
ResolveAgain(p) ==
    /\ pc[p] = "scan"
    /\ Enter(p, "resolution")
    /\ UNCHANGED <<world, tracker, failures, loc>>

\* Mutant: an issue whose resolution has been commented counts as closed.
SkipAnnounced(p) ==
    LET n == Lowest(loc[p].left)
        r == loc[p].record[loc[p].lane]
    IN  /\ pc[p] = "scan"
        /\ CASE issues[n].resolved[r] = 0 -> Enter(p, "resolution") /\ UNCHANGED loc
             [] issues[n].resolved[r] > 0 /\ loc[p].left = {n} -> Reconciled(p, loc[p].lane, 0)
             [] OTHER -> Remember(p, [loc[p] EXCEPT !.left = @ \ {n}]) /\ UNCHANGED pc
        /\ UNCHANGED <<world, tracker, failures>>

\* `find_marked_comment` for the record's resolution.
ScanResolved(p) ==
    LET n == Lowest(loc[p].left)
        r == loc[p].record[loc[p].lane]
    IN  /\ pc[p] = "scan"
        /\ Enter(p, IF issues[n].resolved[r] > 0 THEN "close" ELSE "resolution")
        /\ UNCHANGED <<world, tracker, failures, loc>>

CommentResolved(p) ==
    LET n == Lowest(loc[p].left)
        r == loc[p].record[loc[p].lane]
    IN  /\ pc[p] = "resolution"
        /\ issues' = [issues EXCEPT ![n].resolved[r] = @ + 1]
        /\ Enter(p, "close")
        /\ UNCHANGED <<world, health, failures, loc>>

CloseResolved(p) ==
    LET n == Lowest(loc[p].left) IN
    /\ pc[p] = "close"
    /\ Close(n, "resolved")
    /\ IF loc[p].left = {n}
       THEN Reconciled(p, loc[p].lane, 0)
       ELSE Enter(p, "scan") /\ Remember(p, [loc[p] EXCEPT !.left = @ \ {n}])
    /\ UNCHANGED <<world, health, failures>>

-----------------------------------------------------------------------------
(* The health-status comment. *)

\* `_refresh_health`: `find_status` takes the oldest comment of the publisher.
ReadHealth(p) ==
    /\ pc[p] = "judge"
    /\ loc[p].todo = {}
    /\ Remember(p, [loc[p] EXCEPT !.kept = IF health = <<>> THEN 0 ELSE 1,
                                  !.last = IF health = <<>> THEN None ELSE health[1].last])
    /\ Enter(p, "publish")
    /\ UNCHANGED <<world, tracker, failures>>

\* `previous_sweep` keeps what the comment said unless this sweep succeeded.
LastSweep(p) == IF loc[p].sweep_ok THEN loc[p].now ELSE loc[p].last

StateOf(p, l) ==
    CASE Overdue(p, l) -> "OVERDUE"
      [] Reference(p, l) = None -> "not activated"
      [] ~ Overdue(p, l) /\ FromRecord(p, l) -> "on schedule"
      [] OTHER -> "awaiting first run"

StatusBody(p) ==
    [rows |-> [l \in Lane |-> [state |-> StateOf(p, l), record |-> loc[p].record[l],
                               issue |-> loc[p].result[l]]],
     last |-> LastSweep(p)]

\* Created, edited in place, or left when no fact has changed.
PublishHealth(p) ==
    /\ pc[p] = "publish"
    /\ health' = IF loc[p].kept = 0 THEN Append(health, StatusBody(p))
                 ELSE [health EXCEPT ![loc[p].kept] = StatusBody(p)]
    /\ Enter(p, Ended(p))
    /\ Remember(p, Fresh)
    /\ UNCHANGED <<world, issues, failures>>

-----------------------------------------------------------------------------
(* A pass aborts on the first failure; the clock, the sweeps and maintainers. *)

\* A call that took effect while its answer was lost is the call followed by this.
Abort(p) ==
    /\ pc[p] \notin {"idle", "done"}
    /\ failures < MaxFailures
    /\ failures' = failures + 1
    /\ Enter(p, Ended(p))
    /\ Remember(p, Fresh)
    /\ UNCHANGED <<world, tracker>>

Tick ==
    /\ now < Horizon
    /\ now' = now + 1
    /\ UNCHANGED <<receipted, expected, moves, tracker, failures, pc, loc>>

\* A sweep publishes a run, at any time after it finished.
Publish(r) ==
    /\ r \notin receipted
    /\ RunInfo[r].finished <= now
    /\ receipted' = receipted \cup {r}
    /\ UNCHANGED <<now, expected, moves, tracker, failures, pc, loc>>

\* A maintainer activates a lane, deactivates it, or moves its expected_from.
MoveExpected(l) ==
    /\ moves < MaxMoves
    /\ moves' = moves + 1
    /\ \E t \in (0..Horizon) \cup {None} : expected' = [expected EXCEPT ![l] = t]
    /\ UNCHANGED <<now, receipted, tracker, failures, pc, loc>>

PassStep(p) ==
    \/ StartPass(p) \/ ReadLane(p) \/ ListIssues(p) \/ Judge(p)
    \/ OpenIssue(p) \/ Relist(p) \/ CloseExtra(p) \/ ExtrasDone(p)
    \/ ReadStamps(p) \/ PostNotice(p)
    \/ ScanResolved(p) \/ CommentResolved(p) \/ CloseResolved(p)
    \/ ReadHealth(p) \/ PublishHealth(p)

Next ==
    \/ \E p \in Pass : PassStep(p) \/ Abort(p)
    \/ Tick
    \/ \E r \in Run : Publish(r)
    \/ \E l \in Lane : MoveExpected(l)

Spec == Init /\ [][Next]_vars

\* The workflow's schedule starts a pass again and again, and its passes go on to
\* their end; nothing is assumed of a pass that somebody runs by hand.
FairSpec == Spec /\ \A p \in Pass \ Local : WF_vars(PassStep(p))

-----------------------------------------------------------------------------
(* Properties of passes that run one at a time. *)

\* A lane's notices are at least the interval apart, from the issue's opening on,
\* although passes die after a post and the next one knows of it from the
\* tracker alone.
NoticeRate ==
    \A n \in DOMAIN issues :
        \A i, j \in DOMAIN issues[n].stamps :
            i < j => issues[n].stamps[j] >= issues[n].stamps[i] + Interval

\* A pass that dies between the resolution comment and the close is repeated
\* without a second comment for the same record.
ResolvedOnce == \A n \in DOMAIN issues : \A r \in Run : issues[n].resolved[r] <= 1

\* An issue is closed as resolved only by a scheduled record that finished after
\* the point its gap was measured from, so no manual run, no record of before
\* the activation and no move of `expected_from` ever clears an alarm.
RecoveredByNewRecord ==
    [][\A n \in DOMAIN issues :
          issues[n].closed = "no" /\ issues'[n].closed = "resolved" =>
              \E r \in receipted :
                  /\ RunInfo[r].lane = issues[n].lane /\ RunInfo[r].qualifies
                  /\ RunInfo[r].finished > issues[n].reference
                  /\ issues[n].resolved[r] > 0]_vars

\* One open alarm per lane, although a pass may die anywhere and the reference
\* of the lane may have moved since its alarm was opened.
OneAlarm == \A l \in Lane : Cardinality(OpenIssues(l)) <= 1

\* When the status comment is written, the alarm it names for a lane is the open
\* one, and it calls a lane overdue or on schedule only with or without an alarm.
\* The last successful sweep it names never goes back, and is never lost by passes
\* whose own sweep failed.
StatusIsTrue ==
    [][health' # health =>
          /\ \A l \in Lane :
                /\ health'[1].rows[l].issue = LowestOrZero(OpenIssues(l))
                /\ health'[1].rows[l].state = "OVERDUE" => OpenIssues(l) # {}
                /\ health'[1].rows[l].state = "on schedule" => OpenIssues(l) = {}
          /\ health # <<>> /\ health[1].last # None =>
                health'[1].last # None /\ health'[1].last >= health[1].last]_vars

-----------------------------------------------------------------------------
(* Liveness, under FairSpec, for passes that may overlap. *)

\* The lane as it is now, not as a pass has read it.
Due(l) ==
    LET found == Qualified(LaneReceipts(l))
        r == IF found = {} THEN None ELSE CHOOSE q \in found : Newer(found, q) = {}
        fromRecord == /\ r # None
                      /\ expected[l] # None => RunInfo[r].finished >= expected[l]
        reference == IF fromRecord THEN RunInfo[r].finished ELSE expected[l]
    IN  [overdue |-> reference # None /\ now > reference + MaxGap[l],
         recovered |-> fromRecord /\ ~ (now > reference + MaxGap[l])]

\* A lane that stays overdue gets an alarm: a run that never happened is seen.
EventuallyAlarmed ==
    \A l \in Lane : Due(l).overdue ~> OpenIssues(l) # {} \/ ~ Due(l).overdue

\* A lane that stays recovered has no open alarm in the end.
EventuallyCleared ==
    \A l \in Lane : Due(l).recovered ~> OpenIssues(l) = {} \/ ~ Due(l).recovered

\* Issues that overlapping passes opened twice, one of which died before its
\* listing, collapse into one while the lane stays overdue.
ExtrasCollapse ==
    \A l \in Lane :
        Cardinality(OpenIssues(l)) > 1 /\ Due(l).overdue
            ~> Cardinality(OpenIssues(l)) <= 1 \/ ~ Due(l).overdue

=============================================================================
