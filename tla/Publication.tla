----------------------------- MODULE Publication -----------------------------
(***************************************************************************)
(* The publication sweep (runtime_platform/benchmark/publisher/sweep.py,   *)
(* history.py, lifecycle.py) over its three remote stores: the staging     *)
(* refs, the create-only history branch and the issue tracker.  One action *)
(* per remote call that writes, or whose answer is used after a later      *)
(* call; a pass may fail or die between any two of them.                   *)
(*                                                                         *)
(* A Result is one sealed file and stands for its content hash: two        *)
(* results of one run are the same run_id with different content.          *)
(***************************************************************************)
EXTENDS Naturals, Sequences, FiniteSets

CONSTANTS
    Pass,           \* sweeps that may run at once: the workflow's, a local --once
    Lane, Run, Result, Fingerprint,
    None,           \* "no such thing"
    LaneOf,         \* [Run -> Lane]
    StartedAt,      \* [Run -> Nat]: run_sort_key
    Body,           \* [Result -> ResultBody]: what the sealed file says
    Seeded,         \* results published before the behaviour starts
    Unloadable,     \* runs whose stored record a later validate_record rejects
    MaxNewIssues,   \* publication.max_new_issues_per_run
    MaxFailures,    \* bound: failed calls and dead passes
    Dispatched,     \* bound: runs a maintainer dispatches a sweep for
    Ageing,         \* bound: runs whose receipt gets 30 days old
    Maintainer      \* bound: which of "close" and "keep-open" maintainers do

ResultBody ==
    [run : Run,
     sealed_at : Nat,
     intact : BOOLEAN,              \* parses, and content_sha256 matches the body
     conformant : BOOLEAN,          \* passes the other gates of check_record
     origin : {"allowed", "unavailable", "foreign"},
     state : {"bootstrap", "compared", "incomparable"},
     baseline : Result \cup {None}, \* the record (run and hash) it was compared with
     confirmed : SUBSET Fingerprint,
     covered : SUBSET Fingerprint]  \* fingerprints of the evaluated, comparable cases

ASSUME NoneIsNothing == None \notin Run \cup Result \cup [Lane -> Run \cup {None}]

ASSUME FinitelyManyRuns == IsFiniteSet(Run)

ASSUME ConstantTypes ==
    /\ LaneOf \in [Run -> Lane]
    /\ StartedAt \in [Run -> Nat]
    /\ Body \in [Result -> ResultBody]
    /\ Seeded \subseteq Result
    /\ Dispatched \subseteq Run
    /\ Ageing \subseteq Run
    /\ MaxNewIssues \in Nat
    /\ MaxFailures \in Nat

\* run_sort_key orders the runs of a lane strictly (start time, then commit).
ASSUME DistinctKeys ==
    \A q, r \in Run : LaneOf[q] = LaneOf[r] /\ StartedAt[q] = StartedAt[r] => q = r

\* The lane's published bootstraps, one result per run, need no baseline.
ASSUME SeededBootstraps ==
    \A x \in Seeded :
        /\ Body[x].intact /\ Body[x].conformant /\ Body[x].origin = "allowed"
        /\ Body[x].state = "bootstrap"
        /\ \A y \in Seeded : LaneOf[Body[y].run] = LaneOf[Body[x].run] => y = x

\* What validate_record enforces between the fields of a conformant result.
ASSUME ConformantBodies ==
    \A x \in Result : Body[x].conformant =>
        /\ Body[x].confirmed \subseteq Body[x].covered
        /\ (Body[x].state = "compared") = (Body[x].baseline # None)
        /\ Body[x].state # "compared" => Body[x].covered = {}
        /\ Body[x].baseline # None =>
               LaneOf[Body[Body[x].baseline].run] = LaneOf[Body[x].run]

RunOf(x) == Body[x].run
LaneOfResult(x) == LaneOf[Body[x].run]

VARIABLES
    handoff,    \* per run: the result at the tip of its staging ref
    pushed,     \* results that have been sealed and pushed
    aged,       \* runs whose receipt is at least STAGING_RETENTION_DAYS old
    records,    \* per run: records/<lane>/<yyyy>/<run_id>.json
    receipts,   \* per run: the result its receipt names (record_sha256)
    pointers,   \* per lane: the run its baselines/<lane>.json names
    issues,     \* drift issues, by number
    evidence,   \* per run: evidence comments on the lane's tracking issue
    deferred,   \* per run: drifts the report of its publication defers
    failures,   \* calls failed so far
    pc,         \* per pass: the call it is about to make
    todo,       \* per pass: candidates left, loaded when the pass started
    cur,        \* per pass: the candidate being processed
    loc         \* per pass: what it has read and done for that candidate

staging == <<handoff, pushed, aged>>
history == <<records, receipts, pointers>>
tracker == <<issues, evidence>>
vars == <<staging, history, tracker, deferred, failures, pc, todo, cur, loc>>

Issue ==
    [fp : Fingerprint,
     by : Run,                      \* the run whose applied marker the body carries
     closed : {"no", "resolved", "duplicate", "maintainer"},
     keep_open : BOOLEAN,
     applied : [Run -> Nat]]        \* publisher comments with the run's applied marker

Locals ==
    [accept : BOOLEAN,              \* --accept-unattributed
     existing : Result \cup {None}, \* the stored record, as read
     pointer : BOOLEAN,             \* the commit also carries baselines/<lane>.json
     views : [Lane -> Run \cup {None}] \cup {None},
     open : [Fingerprint -> Nat],   \* lowest open issue at the listing, 0 for none
     left : SUBSET Fingerprint,     \* drifts, then open issues, still to handle
     fp : Fingerprint \cup {None},
     issue : Nat,
     extras : SUBSET Nat,           \* duplicates still to close
     opened : Nat,
     deferred : SUBSET Fingerprint]

Fresh ==
    [accept |-> FALSE, existing |-> None, pointer |-> FALSE, views |-> None,
     open |-> [f \in Fingerprint |-> 0], left |-> {}, fp |-> None, issue |-> 0,
     extras |-> {}, opened |-> 0, deferred |-> {}]

Label ==
    {"idle", "pick", "record", "receipt", "delete", "validate", "persist", "views",
     "list", "confirm", "scan", "comment", "relist", "close_extra",
     "resolve", "fresh", "resolution_scan", "resolution", "close",
     "evidence", "announce", "write_receipt"}

StoreTypes ==
    /\ handoff \in [Run -> Result \cup {None}]
    /\ pushed \subseteq Result
    /\ aged \subseteq Run
    /\ records \in [Run -> Result \cup {None}]
    /\ receipts \in [Run -> Result \cup {None}]
    /\ pointers \in [Lane -> Run \cup {None}]
    /\ issues \in Seq(Issue)
    /\ evidence \in [Run -> Nat]
    /\ deferred \in [Run -> SUBSET Fingerprint]
    /\ failures \in 0..MaxFailures

PassTypes ==
    /\ pc \in [Pass -> Label]
    /\ todo \in [Pass -> SUBSET Result]
    /\ cur \in [Pass -> Result \cup {None}]
    /\ loc \in [Pass -> Locals]

\* The stores and what a pass holds in its local variables keep their types; an
\* issue always carries the applied marker of the run that opened it.
TypeOK == StoreTypes /\ PassTypes

SeededResult(r) ==
    IF \E x \in Seeded : RunOf(x) = r THEN CHOOSE x \in Seeded : RunOf(x) = r ELSE None

SeededPointer(l) ==
    IF \E x \in Seeded : LaneOfResult(x) = l
    THEN RunOf(CHOOSE x \in Seeded : LaneOfResult(x) = l) ELSE None

Init ==
    /\ handoff = [r \in Run |-> None]
    /\ pushed = Seeded
    /\ aged = {}
    /\ records = [r \in Run |-> SeededResult(r)]
    /\ receipts = [r \in Run |-> SeededResult(r)]
    /\ pointers = [l \in Lane |-> SeededPointer(l)]
    /\ issues = <<>>
    /\ evidence = [r \in Run |-> IF SeededResult(r) = None THEN 0 ELSE 1]
    /\ deferred = [r \in Run |-> {}]
    /\ failures = 0
    /\ pc = [p \in Pass |-> "idle"]
    /\ todo = [p \in Pass |-> {}]
    /\ cur = [p \in Pass |-> None]
    /\ loc = [p \in Pass |-> Fresh]

-----------------------------------------------------------------------------
(* Steps of a pass. *)

Enter(p, label) == pc' = [pc EXCEPT ![p] = label]

Remember(p, v) == loc' = [loc EXCEPT ![p] = v]

\* `_process` returned or raised: on to the next candidate.
Leave(p) ==
    /\ Enter(p, "pick")
    /\ cur' = [cur EXCEPT ![p] = None]
    /\ loc' = [loc EXCEPT ![p] = [Fresh EXCEPT !.accept = loc[p].accept]]

RunAt(p) == RunOf(cur[p])

\* `run_sweep`: list the staging refs and read every handoff.
StartSweep(p) ==
    /\ pc[p] = "idle"
    /\ todo' = [todo EXCEPT ![p] = {handoff[r] : r \in Run} \ {None}]
    /\ Enter(p, "pick")
    /\ UNCHANGED <<staging, history, tracker, deferred, failures, cur, loc>>

\* The same with --run-id, alone or with --accept-unattributed.
Dispatch(p) ==
    /\ pc[p] = "idle"
    /\ \E r \in Dispatched :
        /\ handoff[r] # None
        /\ todo' = [todo EXCEPT ![p] = {handoff[r]}]
    /\ Enter(p, "pick")
    /\ \E accept \in BOOLEAN : Remember(p, [loc[p] EXCEPT !.accept = accept])
    /\ UNCHANGED <<staging, history, tracker, deferred, failures, cur>>

\* Candidates in ascending `sealed_at`.
NextCandidate(p) ==
    /\ pc[p] = "pick"
    /\ \E x \in todo[p] :
        /\ \A y \in todo[p] : Body[x].sealed_at <= Body[y].sealed_at
        /\ todo' = [todo EXCEPT ![p] = @ \ {x}]
        /\ cur' = [cur EXCEPT ![p] = x]
    /\ Enter(p, "record")
    /\ UNCHANGED <<staging, history, tracker, deferred, failures, loc>>

EndSweep(p) ==
    /\ pc[p] = "pick"
    /\ todo[p] = {}
    /\ Enter(p, "idle")
    /\ loc' = [loc EXCEPT ![p] = Fresh]
    /\ UNCHANGED <<staging, history, tracker, deferred, failures, todo, cur>>

ReadRecord(p) ==
    /\ pc[p] = "record"
    /\ Remember(p, [loc[p] EXCEPT !.existing = records[RunAt(p)]])
    /\ Enter(p, "receipt")
    /\ UNCHANGED <<staging, history, tracker, deferred, failures, todo, cur>>

\* Mutant: a run with a receipt is skipped, however old its staging ref.
SkipPublished(p) ==
    /\ pc[p] = "receipt"
    /\ receipts[RunAt(p)] # None /\ Body[cur[p]].intact
    /\ Leave(p)
    /\ UNCHANGED <<staging, history, tracker, deferred, failures, todo>>

\* A receipted run is never re-gated. It is refused as a conflict when the
\* stored record or the receipt names other content, and its staging ref is
\* due for deletion once the receipt is old enough.
ReceiptFound(p) ==
    /\ pc[p] = "receipt"
    /\ receipts[RunAt(p)] # None /\ Body[cur[p]].intact
    /\ IF /\ loc[p].existing = cur[p]
          /\ receipts[RunAt(p)] = cur[p]
          /\ RunAt(p) \in aged
       THEN Enter(p, "delete") /\ UNCHANGED <<cur, loc>>
       ELSE Leave(p)
    /\ UNCHANGED <<staging, history, tracker, deferred, failures, todo>>

ReceiptMissing(p) ==
    /\ pc[p] = "receipt"
    /\ ~ (receipts[RunAt(p)] # None /\ Body[cur[p]].intact)
    /\ Enter(p, "validate")
    /\ UNCHANGED <<staging, history, tracker, deferred, failures, todo, cur, loc>>

\* `delete_staging_ref` deletes by name, whatever the ref holds by now.
DeleteStagingRef(p) ==
    /\ pc[p] = "delete"
    /\ handoff' = [handoff EXCEPT ![RunAt(p)] = None]
    /\ Leave(p)
    /\ UNCHANGED <<pushed, aged, history, tracker, deferred, failures, todo>>

-----------------------------------------------------------------------------
(* Validate and persist. *)

\* Mutant: a record that exists already is a conflict, even with the same hash.
RefuseExisting(p) ==
    LET x == cur[p] IN
    /\ Body[x].intact /\ Body[x].conformant
    /\ loc[p].existing = None
    /\ \/ Body[x].origin = "allowed"
       \/ Body[x].origin = "unavailable" /\ loc[p].accept
    /\ Body[x].baseline # None => records[RunOf(Body[x].baseline)] = Body[x].baseline

\* check_record, conflict, attest_origin and load_baseline. The origin of a
\* record already in history is not attested again.
Gates(p) ==
    LET x == cur[p] IN
    /\ Body[x].intact /\ Body[x].conformant
    /\ loc[p].existing \in {None, x}
    /\ loc[p].existing = None =>
           \/ Body[x].origin = "allowed"
           \/ Body[x].origin = "unavailable" /\ loc[p].accept
    /\ Body[x].baseline # None => records[RunOf(Body[x].baseline)] = Body[x].baseline

\* The lane has no baselines/<lane>.json yet.
FirstBootstrap(x) == Body[x].state = "bootstrap" /\ pointers[LaneOfResult(x)] = None

Validate(p) ==
    /\ pc[p] = "validate"
    /\ Gates(p)
    /\ IF loc[p].existing = None
       THEN /\ Enter(p, "persist")
            /\ Remember(p, [loc[p] EXCEPT !.pointer = FirstBootstrap(cur[p])])
       ELSE Enter(p, "views") /\ UNCHANGED loc
    /\ UNCHANGED <<staging, history, tracker, deferred, failures, todo, cur>>

Refuse(p) ==
    /\ pc[p] = "validate"
    /\ ~ Gates(p)
    /\ Leave(p)
    /\ UNCHANGED <<staging, history, tracker, deferred, failures, todo>>

\* The commit is create-only and lands both of its files or neither.
Paths(p) ==
    /\ records[RunAt(p)] = None
    /\ loc[p].pointer => pointers[LaneOfResult(cur[p])] = None

\* Mutant: the commit replaces a path that exists.
PersistAnyway(p) ==
    /\ pc[p] = "persist"
    /\ records' = [records EXCEPT ![RunAt(p)] = cur[p]]
    /\ pointers' = IF loc[p].pointer
                   THEN [pointers EXCEPT ![LaneOfResult(cur[p])] = RunAt(p)]
                   ELSE pointers
    /\ Enter(p, "views")
    /\ UNCHANGED <<staging, receipts, tracker, deferred, failures, todo, cur, loc>>

Persist(p) ==
    /\ pc[p] = "persist"
    /\ Paths(p)
    /\ records' = [records EXCEPT ![RunAt(p)] = cur[p]]
    /\ pointers' = IF loc[p].pointer
                   THEN [pointers EXCEPT ![LaneOfResult(cur[p])] = RunAt(p)]
                   ELSE pointers
    /\ Enter(p, "views")
    /\ UNCHANGED <<staging, receipts, tracker, deferred, failures, todo, cur, loc>>

\* PathExistsError: another pass was faster; the run is retried next sweep.
PersistExists(p) ==
    /\ pc[p] = "persist"
    /\ ~ Paths(p)
    /\ Leave(p)
    /\ UNCHANGED <<staging, history, tracker, deferred, failures, todo>>

-----------------------------------------------------------------------------
(* Reconcile: which records the decisions are made from. *)

\* `latest_published_run_id`: the lane's newest run that has a receipt.
Published(l) == {r \in Run : LaneOf[r] = l /\ receipts[r] # None}
Latest(l) ==
    IF Published(l) = {} THEN None
    ELSE CHOOSE r \in Published(l) : \A q \in Published(l) : StartedAt[q] <= StartedAt[r]

Superseded(r) ==
    LET newest == Latest(LaneOf[r]) IN newest # None /\ StartedAt[newest] > StartedAt[r]

Loadable(l) ==
    Latest(l) # None => Latest(l) \notin Unloadable /\ records[Latest(l)] # None

\* The lane of the record itself is represented by the record.
ViewsFor(r) ==
    IF \A l \in Lane \ {LaneOf[r]} : Loadable(l)
    THEN [l \in Lane |-> IF l = LaneOf[r] THEN r ELSE Latest(l)]
    ELSE None

\* Mutants: a record that touches no issue is not announced, and a superseded
\* record still drives the issues.
AnnounceOnlyDrifts(p) ==
    /\ pc[p] = "views"
    /\ IF Superseded(RunAt(p)) \/ Body[cur[p]].state # "compared"
       THEN Enter(p, "write_receipt") /\ UNCHANGED loc
       ELSE /\ Enter(p, "list")
            /\ Remember(p, [loc[p] EXCEPT !.views = ViewsFor(RunAt(p))])
    /\ UNCHANGED <<staging, history, tracker, deferred, failures, todo, cur>>

OldRecordsAct(p) ==
    /\ pc[p] = "views"
    /\ IF Body[cur[p]].state # "compared"
       THEN Enter(p, "evidence") /\ UNCHANGED loc
       ELSE /\ Enter(p, "list")
            /\ Remember(p, [loc[p] EXCEPT !.views = ViewsFor(RunAt(p))])
    /\ UNCHANGED <<staging, history, tracker, deferred, failures, todo, cur>>

LaneViews(p) ==
    /\ pc[p] = "views"
    /\ IF Superseded(RunAt(p)) \/ Body[cur[p]].state # "compared"
       THEN Enter(p, "evidence") /\ UNCHANGED loc
       ELSE /\ Enter(p, "list")
            /\ Remember(p, [loc[p] EXCEPT !.views = ViewsFor(RunAt(p))])
    /\ UNCHANGED <<staging, history, tracker, deferred, failures, todo, cur>>

Lowest(S) == CHOOSE n \in S : \A m \in S : n <= m
LowestOrZero(S) == IF S = {} THEN 0 ELSE Lowest(S)

OpenIssues(f) == {n \in DOMAIN issues : issues[n].fp = f /\ issues[n].closed = "no"}

\* Mutant: the run recognises only the issues it opened itself.
ListOwnIssues(p) ==
    LET own(f) == {n \in OpenIssues(f) : issues[n].by = RunAt(p)} IN
    /\ pc[p] = "list"
    /\ Remember(p, [loc[p] EXCEPT !.open = [f \in Fingerprint |-> LowestOrZero(own(f))],
                                !.left = Body[cur[p]].confirmed])
    /\ Enter(p, "confirm")
    /\ UNCHANGED <<staging, history, tracker, deferred, failures, todo, cur>>

\* `_publisher_issues(ctx, "open", None)`: the only listing the decisions use.
ListIssues(p) ==
    /\ pc[p] = "list"
    /\ Remember(p, [loc[p] EXCEPT !.open = [f \in Fingerprint |-> LowestOrZero(OpenIssues(f))],
                                !.left = Body[cur[p]].confirmed])
    /\ Enter(p, "confirm")
    /\ UNCHANGED <<staging, history, tracker, deferred, failures, todo, cur>>

-----------------------------------------------------------------------------
(* Reconcile: the drifts the record confirms. *)

\* A comment with the run's applied marker, and a close, which a closed issue
\* does not show again.
Marked(i, r) == [i EXCEPT !.applied[r] = @ + 1]
Closed(i, how) == [i EXCEPT !.closed = IF @ = "no" THEN how ELSE @]

Mark(n, r) == issues' = [issues EXCEPT ![n] = Marked(issues[n], r)]
Close(n, how) == issues' = [issues EXCEPT ![n] = Closed(issues[n], how)]

CreatedBy(n, r) == n # 0 /\ issues[n].by = r

\* `f` is handled; the next drift of the record is taken up.
Handled(p, f) ==
    /\ Enter(p, "confirm")
    /\ Remember(p, [loc[p] EXCEPT !.left = @ \ {f}, !.fp = None, !.issue = 0, !.extras = {}])

\* `_touch_open_issue`, its test of the issue body: an issue this run opened
\* needs no comment from it.
TouchOpen(p) ==
    /\ pc[p] = "confirm"
    /\ \E f \in loc[p].left :
        /\ loc[p].open[f] # 0
        /\ IF CreatedBy(loc[p].open[f], RunAt(p))
           THEN Handled(p, f)
           ELSE /\ Enter(p, "scan")
                /\ Remember(p, [loc[p] EXCEPT !.fp = f, !.issue = loc[p].open[f]])
    /\ UNCHANGED <<staging, history, tracker, deferred, failures, todo, cur>>

Defer(p) ==
    /\ pc[p] = "confirm"
    /\ \E f \in loc[p].left :
        /\ loc[p].open[f] = 0
        /\ loc[p].opened >= MaxNewIssues
        /\ Remember(p, [loc[p] EXCEPT !.left = @ \ {f}, !.deferred = @ \cup {f}])
    /\ UNCHANGED <<staging, history, tracker, deferred, failures, pc, todo, cur>>

\* Mutant: the body of a new issue lacks the run's applied marker.
OpenUnmarked(p) ==
    /\ pc[p] = "confirm"
    /\ \E f \in loc[p].left :
        /\ loc[p].open[f] = 0
        /\ loc[p].opened < MaxNewIssues
        /\ issues' = Append(issues, [fp |-> f, by |-> None, closed |-> "no",
                                     keep_open |-> FALSE, applied |-> [r \in Run |-> 0]])
        /\ Remember(p, [loc[p] EXCEPT !.fp = f, !.issue = Len(issues) + 1, !.opened = @ + 1])
    /\ Enter(p, "relist")
    /\ UNCHANGED <<staging, history, evidence, deferred, failures, todo, cur>>

\* `_open_issue`: `create_issue`, whose body carries this run's applied marker.
OpenIssue(p) ==
    /\ pc[p] = "confirm"
    /\ \E f \in loc[p].left :
        /\ loc[p].open[f] = 0
        /\ loc[p].opened < MaxNewIssues
        /\ issues' = Append(issues, [fp |-> f, by |-> RunAt(p), closed |-> "no",
                                     keep_open |-> FALSE, applied |-> [r \in Run |-> 0]])
        /\ Remember(p, [loc[p] EXCEPT !.fp = f, !.issue = Len(issues) + 1, !.opened = @ + 1])
    /\ Enter(p, "relist")
    /\ UNCHANGED <<staging, history, evidence, deferred, failures, todo, cur>>

\* The re-list after a create, of `_close_duplicates`. The listing falls back on
\* the created issue when it shows no open issue of the fingerprint, and only
\* pairs that involve the created issue are collapsed.
Relist(p) ==
    LET created == loc[p].issue
        listed == OpenIssues(loc[p].fp)
        kept == Lowest(IF listed = {} THEN {created} ELSE listed)
        extra == IF kept = created THEN listed \ {kept}
                 ELSE (listed \cap {created}) \ {kept}
    IN  /\ pc[p] = "relist"
        /\ IF extra # {}
           THEN /\ Enter(p, "close_extra")
                /\ Remember(p, [loc[p] EXCEPT !.issue = kept, !.extras = extra])
           ELSE IF kept = created \/ CreatedBy(kept, RunAt(p))
           THEN Handled(p, loc[p].fp)
           ELSE /\ Enter(p, "scan")
                /\ Remember(p, [loc[p] EXCEPT !.issue = kept])
        /\ UNCHANGED <<staging, history, tracker, deferred, failures, todo, cur>>

\* A pointer comment and `close_issue` on a duplicate, then the kept issue is
\* touched unless it is this run's own.
CloseExtra(p) ==
    LET n == Lowest(loc[p].extras) IN
    /\ pc[p] = "close_extra"
    /\ Close(n, "duplicate")
    /\ IF loc[p].extras # {n}
       THEN Remember(p, [loc[p] EXCEPT !.extras = @ \ {n}]) /\ UNCHANGED pc
       ELSE IF CreatedBy(loc[p].issue, RunAt(p))
       THEN Handled(p, loc[p].fp)
       ELSE /\ Enter(p, "scan")
            /\ Remember(p, [loc[p] EXCEPT !.extras = {}])
    /\ UNCHANGED <<staging, history, evidence, deferred, failures, todo, cur>>

\* Mutant: the comment is posted without looking for the marker.
CommentAgain(p) ==
    /\ pc[p] = "scan"
    /\ Enter(p, "comment")
    /\ UNCHANGED <<staging, history, tracker, deferred, failures, todo, cur, loc>>

\* `_touch_open_issue`: `list_comments`, then a recurrence comment.
ScanComments(p) ==
    /\ pc[p] = "scan"
    /\ IF issues[loc[p].issue].applied[RunAt(p)] > 0
       THEN Handled(p, loc[p].fp)
       ELSE Enter(p, "comment") /\ UNCHANGED loc
    /\ UNCHANGED <<staging, history, tracker, deferred, failures, todo, cur>>

Comment(p) ==
    /\ pc[p] = "comment"
    /\ Mark(loc[p].issue, RunAt(p))
    /\ Handled(p, loc[p].fp)
    /\ UNCHANGED <<staging, history, evidence, deferred, failures, todo, cur>>

\* Closing is skipped when a lane's view could not be loaded. It goes through
\* the fingerprints of the listing that the record does not confirm.
ConfirmDone(p) ==
    /\ pc[p] = "confirm"
    /\ loc[p].left = {}
    /\ IF loc[p].views = None
       THEN Enter(p, "evidence") /\ UNCHANGED loc
       ELSE /\ Enter(p, "resolve")
            /\ Remember(p, [loc[p] EXCEPT
                  !.left = {f \in Fingerprint : loc[p].open[f] # 0} \ Body[cur[p]].confirmed])
    /\ UNCHANGED <<staging, history, tracker, deferred, failures, todo, cur>>

-----------------------------------------------------------------------------
(* Reconcile: `_resolve` the open issues the record does not confirm. *)

\* The record a view stands for: the pass holds its own, the others are stored.
ViewRecord(p, l) ==
    IF loc[p].views[l] = RunAt(p) THEN cur[p] ELSE records[loc[p].views[l]]

Covers(x, f) == Body[x].state = "compared" /\ f \in Body[x].covered

CoveringLanes(p, f) ==
    {l \in Lane : loc[p].views[l] # None /\ Covers(ViewRecord(p, l), f)}

\* Mutants: the record's own lane decides alone; a view without coverage blocks.
OwnLaneResolves(p, f) ==
    LET l == LaneOf[RunAt(p)] IN
    l \in CoveringLanes(p, f) /\ f \notin Body[ViewRecord(p, l)].confirmed

EveryLaneMustCover(p, f) ==
    \A l \in Lane : l \in CoveringLanes(p, f) /\ f \notin Body[ViewRecord(p, l)].confirmed

Resolvable(p, f) ==
    /\ CoveringLanes(p, f) # {}
    /\ \A l \in CoveringLanes(p, f) : f \notin Body[ViewRecord(p, l)].confirmed

\* The open issue `f` of the listing is dealt with.
Settled(p, f) ==
    /\ Enter(p, "resolve")
    /\ Remember(p, [loc[p] EXCEPT !.left = @ \ {f}, !.fp = None, !.issue = 0])

StartResolve(p) ==
    /\ pc[p] = "resolve"
    /\ \E f \in loc[p].left :
        IF Resolvable(p, f)
        THEN /\ Enter(p, "fresh")
             /\ Remember(p, [loc[p] EXCEPT !.fp = f, !.issue = loc[p].open[f]])
        ELSE Settled(p, f)
    /\ UNCHANGED <<staging, history, tracker, deferred, failures, todo, cur>>

ResolveDone(p) ==
    /\ pc[p] = "resolve"
    /\ loc[p].left = {}
    /\ Enter(p, "evidence")
    /\ UNCHANGED <<staging, history, tracker, deferred, failures, todo, cur, loc>>

\* `get_issue`: the issue as it is now, closed or labelled keep-open since.
GetIssue(p) ==
    /\ pc[p] = "fresh"
    /\ IF issues[loc[p].issue].closed # "no" \/ issues[loc[p].issue].keep_open
       THEN Settled(p, loc[p].fp)
       ELSE Enter(p, "resolution_scan") /\ UNCHANGED loc
    /\ UNCHANGED <<staging, history, tracker, deferred, failures, todo, cur>>

ScanResolution(p) ==
    /\ pc[p] = "resolution_scan"
    /\ Enter(p, IF issues[loc[p].issue].applied[RunAt(p)] > 0 THEN "close" ELSE "resolution")
    /\ UNCHANGED <<staging, history, tracker, deferred, failures, todo, cur, loc>>

CommentResolution(p) ==
    /\ pc[p] = "resolution"
    /\ Mark(loc[p].issue, RunAt(p))
    /\ Enter(p, "close")
    /\ UNCHANGED <<staging, history, evidence, deferred, failures, todo, cur, loc>>

CloseIssue(p) ==
    /\ pc[p] = "close"
    /\ Close(loc[p].issue, "resolved")
    /\ Settled(p, loc[p].fp)
    /\ UNCHANGED <<staging, history, evidence, deferred, failures, todo, cur>>

-----------------------------------------------------------------------------
(* Announce and receipt. *)

\* Mutant: the evidence comment is posted without looking for the run marker.
AlwaysAnnounce(p) ==
    /\ pc[p] = "evidence"
    /\ Enter(p, "announce")
    /\ UNCHANGED <<staging, history, tracker, deferred, failures, todo, cur, loc>>

FindEvidence(p) ==
    /\ pc[p] = "evidence"
    /\ Enter(p, IF evidence[RunAt(p)] > 0 THEN "write_receipt" ELSE "announce")
    /\ UNCHANGED <<staging, history, tracker, deferred, failures, todo, cur, loc>>

Announce(p) ==
    /\ pc[p] = "announce"
    /\ evidence' = [evidence EXCEPT ![RunAt(p)] = @ + 1]
    /\ Enter(p, "write_receipt")
    /\ UNCHANGED <<staging, history, issues, deferred, failures, todo, cur, loc>>

\* PathExistsError is swallowed: another pass has written the receipt.
WriteReceipt(p) ==
    /\ pc[p] = "write_receipt"
    /\ receipts' = IF receipts[RunAt(p)] = None
                   THEN [receipts EXCEPT ![RunAt(p)] = cur[p]] ELSE receipts
    /\ deferred' = [deferred EXCEPT ![RunAt(p)] = loc[p].deferred]
    /\ Leave(p)
    /\ UNCHANGED <<staging, records, pointers, tracker, failures, todo>>

-----------------------------------------------------------------------------
(* Failures: a call raises and only this run is lost, or the pass itself ends *)
(* (HTTP 401 or 403, a foreign author, the job's timeout).  A call that took  *)
(* effect while its answer was lost is the call followed by one of these.     *)

FailRun(p) ==
    /\ pc[p] \notin {"idle", "pick"}
    /\ failures < MaxFailures
    /\ failures' = failures + 1
    /\ Leave(p)
    /\ UNCHANGED <<staging, history, tracker, deferred, todo>>

Abort(p) ==
    /\ pc[p] # "idle"
    /\ failures < MaxFailures
    /\ failures' = failures + 1
    /\ Enter(p, "idle")
    /\ todo' = [todo EXCEPT ![p] = {}]
    /\ cur' = [cur EXCEPT ![p] = None]
    /\ loc' = [loc EXCEPT ![p] = Fresh]
    /\ UNCHANGED <<staging, history, tracker, deferred>>

-----------------------------------------------------------------------------
(* The others: execution runs, the clock and maintainers. *)

passes == <<failures, pc, todo, cur, loc>>

\* `seal_to_ref`: a plain push of an orphan commit, refused while the ref exists.
Seal(x) ==
    /\ x \notin pushed
    /\ handoff[RunOf(x)] = None
    /\ handoff' = [handoff EXCEPT ![RunOf(x)] = x]
    /\ pushed' = pushed \cup {x}
    /\ UNCHANGED <<aged, history, tracker, deferred, passes>>

Age(r) ==
    /\ r \in Ageing \ aged
    /\ receipts[r] # None
    /\ aged' = aged \cup {r}
    /\ UNCHANGED <<handoff, pushed, history, tracker, deferred, passes>>

MaintainerCloses(n) ==
    /\ "close" \in Maintainer
    /\ issues[n].closed = "no"
    /\ Close(n, "maintainer")
    /\ UNCHANGED <<staging, history, evidence, deferred, passes>>

KeepOpen(n) ==
    /\ "keep-open" \in Maintainer
    /\ ~ issues[n].keep_open
    /\ issues' = [issues EXCEPT ![n] = [@ EXCEPT !.keep_open = TRUE]]
    /\ UNCHANGED <<staging, history, evidence, deferred, passes>>

-----------------------------------------------------------------------------
PassStep(p) ==
    \/ StartSweep(p) \/ NextCandidate(p) \/ EndSweep(p)
    \/ ReadRecord(p) \/ ReceiptFound(p) \/ ReceiptMissing(p) \/ DeleteStagingRef(p)
    \/ Validate(p) \/ Refuse(p) \/ Persist(p) \/ PersistExists(p)
    \/ LaneViews(p) \/ ListIssues(p)
    \/ TouchOpen(p) \/ Defer(p) \/ OpenIssue(p) \/ Relist(p) \/ CloseExtra(p)
    \/ ScanComments(p) \/ Comment(p) \/ ConfirmDone(p)
    \/ StartResolve(p) \/ GetIssue(p) \/ ScanResolution(p) \/ CommentResolution(p)
    \/ CloseIssue(p) \/ ResolveDone(p)
    \/ FindEvidence(p) \/ Announce(p) \/ WriteReceipt(p)

Next ==
    \/ \E p \in Pass : PassStep(p) \/ Dispatch(p) \/ FailRun(p) \/ Abort(p)
    \/ \E x \in Result : Seal(x)
    \/ \E r \in Run : Age(r)
    \/ \E n \in DOMAIN issues : MaintainerCloses(n) \/ KeepOpen(n)

Spec == Init /\ [][Next]_vars

\* A pass that has started goes on to its end, and the workflow's schedule
\* starts a full sweep again and again, whatever else is dispatched meanwhile.
Fairness ==
    \A p \in Pass : WF_vars(PassStep(p)) /\ SF_vars(StartSweep(p))

FairSpec == Spec /\ Fairness

-----------------------------------------------------------------------------
(* Properties that hold whatever passes overlap. *)

RecordsSound ==
    \A r \in Run : records[r] # None =>
        LET x == records[r] IN
        /\ RunOf(x) = r
        /\ Body[x].intact /\ Body[x].conformant /\ Body[x].origin # "foreign"
        /\ Body[x].baseline # None => records[RunOf(Body[x].baseline)] = Body[x].baseline

PointersSound ==
    \A l \in Lane : pointers[l] # None =>
        /\ LaneOf[pointers[l]] = l
        /\ records[pointers[l]] # None
        /\ Body[records[pointers[l]]].state = "bootstrap"

ReceiptsSound ==
    \A r \in Run : /\ receipts[r] # None => receipts[r] = records[r] /\ evidence[r] > 0
                   /\ evidence[r] > 0 => records[r] # None

IssuesSound ==
    \A n \in DOMAIN issues :
        /\ records[issues[n].by] # None
        /\ issues[n].fp \in Body[records[issues[n].by]].confirmed
        /\ \A r \in Run : issues[n].applied[r] > 0 => records[r] # None

\* The three stores agree although they are written by separate calls: a record
\* passed every gate and its baseline is recorded, a bootstrap pointer names a
\* recorded bootstrap of its lane, nothing public was said of a run before its
\* record, a receipt stands for the recorded content after its evidence, and an
\* issue is about a drift that the recorded run that opened it confirms.
HistorySound == RecordsSound /\ PointersSound /\ ReceiptsSound /\ IssuesSound

Contract == INSTANCE PublicationContract WITH
    Owner <- [x \in Result |-> RunOf(x)],
    Baseline <- [x \in Result |-> Body[x].baseline],
    Admissible <- {x \in Result : /\ Body[x].intact /\ Body[x].conformant
                                  /\ Body[x].origin # "foreign"},
    FirstContent <- [r \in Run |-> SeededResult(r)],
    FirstReference <- [l \in Lane |-> SeededPointer(l)],
    Bootstrap <- {x \in Result : Body[x].state = "bootstrap"},
    content <- records,
    reference <- pointers,
    announced <- {r \in Run : evidence[r] > 0},
    published <- receipts,
    old <- aged,
    staged <- {r \in Run : handoff[r] # None}

\* The sweep keeps the promises of PublicationContract, with passes that
\* overlap, fail between any two calls and are run again.
KeepsContract == Contract!Spec

-----------------------------------------------------------------------------
(* Properties of passes that run one at a time, as the workflow's concurrency *)
(* group makes them.                                                          *)

\* No pass is running and every recorded run has been followed up.
AtRest ==
    /\ \A p \in Pass : pc[p] = "idle"
    /\ \A r \in Run : records[r] # None => receipts[r] # None

LatestIs(l, state) == Latest(l) # None /\ Body[records[Latest(l)]].state = state
LatestCovers(l, f) == Latest(l) # None /\ Covers(records[Latest(l)], f)
LatestConfirms(l, f) == LatestCovers(l, f) /\ f \in Body[records[Latest(l)]].confirmed

\* A run retried after a failure never posts its evidence comment again.
EvidenceOncePerRun == \A r \in Run : evidence[r] <= 1

\* However often a run is retried, an issue carries its applied marker at most
\* once: in the body of an issue it opened, or in one comment.
AppliedOnce ==
    \A n \in DOMAIN issues : \A r \in Run :
        issues[n].applied[r] + (IF issues[n].by = r THEN 1 ELSE 0) <= 1

\* One open issue per fingerprint, over the runs of all lanes and their retries.
OneOpenIssue == \A f \in Fingerprint : \A m, n \in OpenIssues(f) : m = n

\* A drift that a lane's latest published record confirms has an open issue once
\* the sweeps are at rest: neither a record of another lane, nor an older record
\* processed late, nor a failed and retried run has closed it for good. Excepted
\* are drifts its report defers, and issues maintainers closed after that run
\* had opened or commented on them.
RegressionVisible ==
    AtRest =>
        \A l \in Lane, f \in Fingerprint :
            LatestConfirms(l, f) /\ f \notin deferred[Latest(l)] =>
                \E n \in DOMAIN issues :
                    /\ issues[n].fp = f
                    /\ \/ issues[n].closed = "no"
                       \/ /\ issues[n].closed = "maintainer"
                          /\ \/ issues[n].by = Latest(l)
                             \/ issues[n].applied[Latest(l)] > 0

\* Conversely, at rest no issue is left open for a drift that some lane's latest
\* record covers and none confirms, in whatever order the lanes' records were
\* published and retried, and although some of them were processed while another
\* lane's latest record could not be loaded. It needs the latest record of every
\* lane to be loadable by now, and that of a lane with compared records to be one:
\* only these records resolve issues. A lane without any must have had loadable
\* ones all along, as none of its records makes up for a resolution skipped.
NoStaleIssue ==
    /\ AtRest
    /\ \A l \in Lane : Loadable(l)
    /\ \A l \in Lane :
          \/ LatestIs(l, "compared")
          \/ \A r \in Published(l) : Body[records[r]].state # "compared" /\ r \notin Unloadable
    => \A f \in Fingerprint, n \in DOMAIN issues :
           issues[n].fp = f /\ issues[n].closed = "no" /\ ~ issues[n].keep_open =>
               \/ \A l \in Lane : ~ LatestCovers(l, f)
               \/ \E l \in Lane : LatestConfirms(l, f)

\* When an issue is closed as resolved, at that moment the record in hand is not
\* older than its lane's newest published one, no covering lane confirms the
\* drift, some lane covers it, and every other lane's latest record is loadable.
ResolvedBy(p, n) ==
    LET own == LaneOf[RunAt(p)]
        f == issues[n].fp
    IN  /\ pc[p] = "close"
        /\ ~ Superseded(RunAt(p))
        /\ Body[cur[p]].state = "compared" /\ f \notin Body[cur[p]].confirmed
        /\ \A l \in Lane \ {own} : ~ LatestConfirms(l, f) /\ Loadable(l)
        /\ Covers(cur[p], f) \/ \E l \in Lane \ {own} : LatestCovers(l, f)

ResolutionJustified ==
    [][\A n \in DOMAIN issues :
          issues[n].closed = "no" /\ issues'[n].closed = "resolved" =>
              \E p \in Pass : ResolvedBy(p, n)]_vars

\* A superseded record, published late or again, opens no issue and comments on none.
SupersededIsSilent ==
    [][/\ \A n \in DOMAIN issues : \A r \in Run :
             issues'[n].applied[r] # issues[n].applied[r] => ~ Superseded(r)
       /\ \A n \in DOMAIN issues' \ DOMAIN issues : ~ Superseded(issues'[n].by)]_vars

-----------------------------------------------------------------------------
(* Liveness, under FairSpec: failures are bounded, so outages end. *)

Sound(x) ==
    /\ Body[x].intact /\ Body[x].conformant /\ Body[x].origin = "allowed"
    /\ records[RunOf(x)] \in {None, x}

Available(x) ==
    \/ x = None
    \/ records[RunOf(x)] = x
    \/ handoff[RunOf(x)] = x /\ Sound(x) /\ Body[x].baseline = None

\* A sealed result whose gates hold is published in the end, whatever failed on
\* the way and even when its baseline is sealed beside it and sorts after it.
EventuallyPublished ==
    \A x \in Result :
        handoff[RunOf(x)] = x /\ Sound(x) /\ Available(Body[x].baseline)
            ~> receipts[RunOf(x)] = x

\* The staging ref of a published run is deleted once its receipt is old enough.
EventuallyRetired ==
    \A r \in Run :
        handoff[r] # None /\ handoff[r] = receipts[r] /\ r \in aged ~> handoff[r] = None

=============================================================================
