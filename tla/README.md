# Formal models of the repository's stateful parts

TLA+ modules, TLC configurations and TLAPS proofs for the parts of this repository
in which several actors meet or state outlives a call: the release pipeline
(`scripts/release/`), claims on issues (`scripts/governance/`), the routing of tests
(`scripts/validation/ci_test_route.py`), the sandbox (`scripts/sandbox/`), the
publication of sealed benchmark results with its watchdog
(`runtime_platform/benchmark/publisher/`), and the threads and child processes of the
benchmark's concurrency experiment. Paths below are relative to the
repository; `publisher/` is short for `runtime_platform/benchmark/publisher/`.

To repeat a check, in this directory:

    tlc -workers 2 -config ReleasePipeline.cfg MCReleasePipeline.tla
    tlapm TestRoute_proofs.tla

## 1. Inventory

The repository is a code-review skill (prompts, policies, corpora) with Python
around it: a release pipeline, the governance of issues and pull requests, the
repository's own validation, a sandbox for checks on reviewed code, and a benchmark
that measures the skill with the machinery that publishes its results.

| Component | State it keeps | Operations | Meets | Hard behaviours | What makes it correct |
| --- | --- | --- | --- | --- | --- |
| Release pipeline (`scripts/release/`, `release-publish.yml`) | `main`, source tags, the distribution repository and its tags, GitHub Releases | plan, prepare, push, tag, distribute, finalize, verify, recover | pull requests that merge, maintainers who dispatch a run, four remotes | a job stops anywhere and another finishes it; `main` moves; a rebuild differs | one version at a time, the same build everywhere, each change in one version's notes, an end |
| Claim governance (`scripts/governance/claim_issue.py`, `claim-issue.yml`) | the bot's comments (receipts, checkpoints, restrictions), the label `claimed` | claim, unclaim, replay, restrict | commenters, triage, repeated runs | three writes per command, a run stops between them; replay of old receipts; restrictions across issues | a claim is kept until released by someone who may; a restriction holds and is not lengthened; the label says what the record says |
| Test routing (`scripts/validation/ci_test_route.py`, `validate.yml`) | none of its own: the base, the pull request, the evidence of the last passing tests | scan, merge scans, classify, run a tier | authors, the required test job | deletions, renamed references, generated names, scans that fail; a test left out that would have failed | no test is left out that sees a change; more changes never run less |
| Sandbox (`scripts/sandbox/`) | the disposable copy, the child processes or the container of one call | detect, copy, launch, poll, kill, verify, remove | the command's processes, the docker daemon, the clock, the reviewed tree | processes that detach, hold pipes, fork during a sweep; limits that race with the exit | it returns, leaves nothing it knew of, and reports the truth |
| Publication sweep (`publisher/sweep.py`, `history.py`, `lifecycle.py`, `validation.py`, `markers.py`) | none of its own: staging refs, history branch, issue tracker | per candidate: validate, persist, reconcile issues, announce, receipt, retire the ref | seal, history branch, tracker, maintainers, a second sweep | a death between any two remote writes; retries recognise earlier work by markers only; out-of-order publication; decisions on records read earlier | one content per run for ever; evidence and comments once; an issue open exactly while a lane's latest record confirms the drift |
| History branch (`publisher/github_api.py`) | the commits of `benchmark-history` | `commit_files`, reads | sweeps | several REST calls per commit, the branch moves in between | create-only, all files of a commit or none |
| Watchdog and health (`publisher/watchdog.py`, `health.py`) | missed-run issues, the status comment | gather, open/notify/resolve per lane, refresh the status | receipts of the sweep, the manifest, the clock | passes that die between calls and remember through the tracker; the reference of a gap moves | an alarm exactly while a lane is overdue; notices at a bounded rate |
| Seal (`scripts/benchmark_seal.py` of the benchmark) | one staging ref per run | push an orphan commit, read back | sweep | push accepted, read-back lost | a run's first sealed content is the one published |
| Lane run and drift evaluation | files of one session | run fixtures, compare with the baseline, seal | seal | long sequential job | the drift decision follows its definition |
| Fixture workers (`benchmark_concurrency_workers.py`, `benchmark_termination.py`) | slots, live children, cancel flag | run an arm, stop all | threads, child processes | a child started while the stop is under way; a signal in the middle of another exception; process groups below process groups | nothing runs and nothing changes any more when the evidence is sealed; slots are not shared; it ends |
| Reference algorithms (`runtime_platform/benchmark/reference/`) | none | matching, duplicates, selection, metrics | reports | data | equal to their definitions |
| Packaging, the other validation, security and metadata checks | none | read a checkout, report | — | none | data |

### How the modelled parts interact

Five systems share this repository and meet only in `main`: test routing decides
what runs before a pull request merges; the merge triggers the release workflow,
which sees merged pull requests and nothing of how they were tested; claims live in
the issue tracker; a sandboxed check is one call; the concurrency experiment is one process with its
children. They are modelled one by one. In the benchmark's publication several parts meet:

An execution run ends with a *seal*: one push of an orphan commit to the staging
ref `claude/benchmark-result-<run>`. Every two hours the workflow runs a *sweep*
over all staging refs, and then a *watchdog* pass. For each candidate the sweep
writes a *record* (for a lane's first bootstrap together with the lane's
*baseline pointer*) to the create-only history branch, opens, comments on and
closes *drift issues*, posts the run's *evidence comment*, and writes the
*receipt* that makes the run published. Retirement deletes the staging ref once
the receipt is 30 days old. The watchdog reads the receipts, the manifest and the
clock and keeps missed-run issues and one status comment. The workflow's
concurrency group makes its passes run one at a time, but a maintainer may run
`--once` beside it; so both situations are checked, each for what it must satisfy.

## 2. Modules

| Module | Models | State and actions |
| --- | --- | --- |
| `ReleasePolicy` | pure rules of a release: which paths are shipped, what a pull request declares, which entries the notes get, the version bump | operators only |
| `ReleaseContract` | what a version goes through | `official`, `current`; `Begin`, `Advance`, `Release` |
| `ReleasePipeline` | the jobs of `release-publish.yml` and the commands they call | section "Release, step by step" |
| `IssueClaims` | `claim_issue.py` and the steps of `claim-issue.yml` | the comments with commands and the bot's own (`bot`); `Comment`, `Start`, `PersistReceipt`, `Checkpoint`, `ApplyLabel`, `Stop`, `Triage`, `Tick` |
| `TestSelection` | the router as a function: scans, the merged graph, the index of consumers, kinds, tiers and the modules that run | operators only |
| `TestRoute` | pull requests that are edited, routed, tested and merged | `main`, `head`, `ci`, and `proved`: what each test module saw when it last passed; `Edit`, `Route`, `Pass`, `Fail`, `Merge` |
| `SandboxRun` | one call of the runner with the processes it starts | section "Sandbox, step by step" |
| `FixtureWorkers` | one arm of the concurrency experiment: threads, children, the signal | section "Fixture workers, step by step" |
| `CreateOnlyStore` | the promise of `HistoryStore.commit_files` (`publisher/ports.py`) | `store`; `Create` adds absent paths in one step |
| `HistoryBranch` | `GitHubHistoryStore.commit_files` call by call | `log` is the branch (the trees of its commits); per writer `pc`, `base` (the head read), `files`, `unchecked`. `ReadHead`, `CheckAbsent`, `PathExists`, `UpdateRef`, `RefRefused`, `Fail` |
| `PublicationContract` | what a sealed run is promised | recorded content, lane reference, announced, published and retired runs |
| `Publication` | the sweep over staging refs, history and tracker, with seals, ageing receipts and maintainers | see below |
| `Watchdog` | the watchdog pass and the status comment | `now`, `receipted`, `expected` (the manifest), `issues`, `health`; per pass `pc` and `loc` |
| `MC…` | instances for TLC | pull requests, issues, trees, processes, fixtures, lanes, runs |
| `…_proofs` | theorems | see section 6 |

`Publication` is refined by nothing and uses the *result* of `HistoryBranch`: a
commit is one action, guarded by the absence of its paths, which is what
`CreateOnly` shows of the calls behind it. `Publication` in turn is shown to
implement `PublicationContract`, as `ReleasePipeline` is shown to implement
`ReleaseContract`. `Watchdog` sees of the sweep the receipts only (`Publish`).

### Release, step by step

`main` is a sequence of commits (a pull request's or a release's), a tag or a
distribution commit is a position in its sequence, and an asset is the build it came from.
`run.at` names the step the workflow run is about to take. The concurrency group keeps one run
in progress and one waiting (`waiting`).

| Code | Actions |
| --- | --- |
| a push to `main`; `workflow_dispatch`; an author who edits a description | `Merge`, `Dispatch`, `EditBody` |
| job `plan` (`commands/planning.py`): `unfinished_release`, worthiness, preflight | `Start`, `Plan`, `PreflightFails` |
| job `publish`: regenerate the changelog on the checked-out `main`, commit, push, tag | `Prepare`, `PushMain`, `PushTag`, `HandOver` |
| job `recover-tag` | `RecoverTag`, `ConfirmTag` |
| job `distribute` (`distribution.py`) | `Resolve`, `PushDistribution`, `PushDistributionTag`, `VerifyDistribution` |
| job `finalize` (`finalization.py`) | `Finalize`, `Upload`, `UploadBreaks`, `Undraft`, `VerifyRelease` |
| any step fails, the run ends | `Fail` |

A build's outcome is a choice from `Builds`: the files a commit is built to and the bytes of the
archives, which two runs need not reproduce. `Attached` are the archives the workflow
passes, `Archives` those the manifest names at the tag: equal up to v2, different today (section 5).
A description may be edited before its pull request is merged and at any time after it (`Edits`: an unusable one is mended, a fix comes
to declare a breaking change). `planned` and `preview` in a commit are history: how long `main` was and which notes were composed when
`plan` decided the version. The notes are composed anew by `Prepare`, the version is not (section 5): `VersionCoversPlan` says what is promised.
Abstracted: the changed paths of a pull
request are a set, so a change that a later one reverts still counts; `release-verify`'s
comparison with the tip of `main`, the repository settings that preflight reads, and the
exemption of versions older than finalization are left out.

### Claims, step by step

A command comment is a member of `Commands`; `Start` reads the issue's comments and plans, as
`plan` of `claim_issue.py` does, from the newest checkpoint before the first receipt and the
receipts after it, with the restrictions and transitions of all the issues' comments in the
window. `Course` is that loop: what holds after each command id, as a function over the ids. `PersistReceipt`, `Checkpoint` and `ApplyLabel` are the workflow's steps, and `Stop`
is a run that ends between them; it may be repeated (`failed`). The workflow's concurrency group
serializes the runs. Comments that are edited or deleted are left out.

### Routing, step by step

A file's text is what the scans tell apart: the test files it `uses` (imports, loads, reads), what it
`mentions`, how it refers to documents, whether it walks the workflows, whether it loads computed
names (`opaque`), and whether it parses. `TestSelection` computes from two trees what `ci_test_route.py`
computes: `scan_tests`, `merge_scans`, `affected_closure`, the kinds of paths, `classify`, `Tier`, the modules
that run. Independently of all that, `TestRoute!View` says which files a test module
reads when it runs. `NothingEscapes` relates the two through `proved`, across any number of pull requests.

What `View` leaves out is outside the router's promise: FAST runs drop integration consumers of
documents and of top-level files by design; a file that names a document as a fact only
(`FactOnly`) does not read it. `GuardsApart` (no test is built on a guard) and `ScanGuard` (the guard of
`tests/unit/governance/test_partial_routing.py:500-505` fails when the scan has gaps) are read off the
repository's tests. One pull request is open at a time: a merge that the base overtook is not modelled.

### Sandbox, step by step

| Code | Actions |
| --- | --- |
| `capability.py`, `runner.py` up to the launch | `Detect`, `Prepare`, `Launch` |
| `process_exec.py`: the burst of listings, the poll loop, a read | `Burst`, `BurstEnds`, `Poll`, `Read` |
| the kill: group, last sweep, tracked descendants | `KillGroup`, `Sweep("sweep", "kill")`, `KillTracked` |
| `docker_runner.py`: `docker rm -f` | `ForceRemove` |
| fingerprint, outcome, removal of the copy | `Verify` |
| the launcher or docker's client and daemon | `Begin`, `ExecFails`, `LauncherFails`, `ContainerExits` |
| the command | `Fork`, `Detach`, `CloseStreams`, `Exit`, `Write`, `Grow` |
| the clock, an editor of the reviewed tree | `Tick`, `EditSource` |

One pipe stands for the two streams, and growth is looked at in `Poll`. What is printed is one of two words, told apart by what
`runner.py` 49–55 looks at: the launcher's line about exec as the first of stderr with nothing on stdout (`"line"`), or anything else (`"text"`);
text once printed, a later line no longer counts. A command that was executed may print that line, and exit with the launcher's code
(`Codes`). `began` is history, which `_launch_failure` does not see.

Under docker the daemon goes through `creating`, `created` and `starting` by itself, also when its client was killed. The client may print the notice
of an image pull before that, and may end without its container (`LauncherFails`). `ForceRemove` is `docker rm -f`, whose exit code
nobody looks at: it comes too early for a container that is still being created (`early`), is refused (`refused`), gets no answer in 15 seconds and
raises (`late`), or finds no `docker` any more and ends as unavailable (`missing`). `Return` removes the copy with `ignore_errors=True`, so after a command
was executed, or may still be, the copy may stay. `Prepare` runs before the `try` whose `finally` removes the copy.

A listing sees the descendants of `main` and of the processes it knew (`_expand_descendants`), so a process whose parent died before any listing
saw it is missed: under seatbelt it can survive, and `NothingTrackedRemains` says exactly so. Left out: reuse of process ids, the granularity of the
fingerprint, and a kill of the launcher by somebody outside the run.

### Fixture workers, step by step

| Code | Actions |
| --- | --- |
| `task`, `run_fixture_child` (`benchmark_concurrency_workers.py`), per thread | `Take`, `GetSlot`, `Start`, `StartFails`, `Register`, `TimesOut`, `WaitFails`, `ChildEnded`, `Record`, `Escape` |
| `run_arm` and `LiveChildren.stop_all`, main thread | `Await`, `Cancel`, `ShutDown`, `Snapshot`, `StopOne`, `StoppedOne`, `StopEnds`, `Join` |
| `run` of `run_concurrency_experiment.py` after the arm | `Snapshot` to `StopEnds` once more, `Seal` |
| `terminate_on_signal` in the experiment | `Signal`: moves the main thread to where `Terminated` is caught next |
| a child (`run_benchmark.py`, `run_in_own_group`) | `ForkCli`, `HoldCli`, `CliEnds`, `CliTimesOut`, `CliStopped`, `CleanUp`, `Exit`, `Crash` |
| `stop_process_tree` | `SendTerm` (in the actions that stop), `Kill`, and the wait for the end |

A child is in a process group of its own and so is the review CLI below it, so the parent's SIGKILL reaches the
child alone. What SIGTERM does depends on where the child is (`Signalled`): a CLI that is held is stopped;
one that is being forked, or stopped for a timeout already, is left (`missed`). The graces are compared and not counted
(`GraceCovers`). The scratch directory is listed after every child that its task did not raise for, and may hold something however the child ended.
`Escape` is an exception outside of the inner `try` (343–358): of the line logged before it or of the listing in line 359, after which nothing of the fixture is on
record (`lost`), or of the line logged last. The thread does not set the cancel event then; the main thread does when it gets to the future.
Left out: a second arm, the resource sampler, the isolation audit, verification of a child's output, processes that the review CLI itself leaves in the background, and a
process that does not end within `KILL_WAIT_S` of its SIGKILL. The signal is modelled up to the end of the arm, where the handler is in force;
afterwards the process dies of it.

### Publication, step by step

A pass `p` carries what the Python functions hold in local variables: `pc[p]`
names the remote call it is about to make, `todo[p]` the candidates read when the
sweep started, `cur[p]` the candidate in hand and `loc[p]` what it has read for it.
There is one action for every remote call that writes and for every read whose
answer is used after a later call.

| Code | Actions |
| --- | --- |
| `run_sweep`, `_load_candidates` | `StartSweep`, `Dispatch` (`--run-id`, with or without `--accept-unattributed`), `NextCandidate`, `EndSweep` |
| `_process`, `_published` | `ReadRecord`, `ReceiptFound`, `ReceiptMissing`, `DeleteStagingRef` |
| `parse_handoff`, `check_record`, `attest_origin`, `load_baseline` | `Gates`: `Validate`, `Refuse` |
| `history.persist` | `Persist`, `PersistExists` |
| `history.lane_views` | `LaneViews` |
| `lifecycle.reconcile`: confirm | `ListIssues`, `TouchOpen`, `Defer`, `OpenIssue`, `Relist`, `CloseExtra`, `ScanComments`, `Comment`, `ConfirmDone` |
| `lifecycle.reconcile`: resolve | `StartResolve`, `GetIssue`, `ScanResolution`, `CommentResolution`, `CloseIssue`, `ResolveDone` |
| `_announce`, receipt | `FindEvidence`, `Announce`, `WriteReceipt` |
| a call raises for this run; the pass ends | `FailRun`; `Abort` |
| `seal_to_ref`, the clock, maintainers | `Seal`, `Age`, `MaintainerCloses`, `KeepOpen` |

A *Result* stands for the hash of one sealed file: its fields are the constant
`Body`, so two results of one run are one `run_id` with different content. Drifts
are a small set of fingerprints and a record is the set it confirms and the set
it covers. A call that took effect while its answer was lost is the action
followed by `FailRun` or `Abort`.

### Abstractions to know of

* The several reads of `lane_views` are one step. Receipts and records only ever
  appear, so a split read could see a later mix of the same growing stores.
* The drifts of a record are handled in any order, and candidates in ascending
  `sealed_at`, as in the code, with ties in any order.
* `candidate.refusal` (a handoff that does not parse) is `intact = FALSE`.
* A pointer comment on a duplicate is part of the close that follows it.
* Not modelled: dry runs, unreadable receipt or baseline files, issue bodies edited
  by maintainers, the counts in the status comment.
* In `Watchdog` the lanes are reconciled in any order.

## 3. Runs

Each run is one question. "Mutants" in the modules (operators whose comment
starts with that word) are plausible bugs of the definition that follows them; every
property of a passing run is violated when one of them replaces its definition.

| Run | Instance | Shows |
| --- | --- | --- |
| `release` | a fix whose description is edited twice, the cutover of the integration branch with a feature, documents and a sync; 2 archives; 3 builds; 2 failures | section "properties" below; the refinement `KeepsContract`; `EventuallyOfficial` |
| `release_stuck` | as above, no failure, one build, one archive attached of two | section 5 |
| `claims` | a contributor who churns, another, a maintainer; 2 issues, one already labelled by hand; 3 commands, 1 failure, clock to 2 | claims kept, restrictions, label |
| `test_route` | 6 test files (helper, unit and integration test, data, guard, scanner), one path of each other area, up to 2 further texts per file, 3 edits | `NothingEscapes`, `AddingNeverLowers` |
| `sandbox` | 3 processes; hosts with none, one or two primitives; one read, one second, one failing call | `NothingTrackedRemains`, `OutcomeIsTrue`, `EventuallyReturns` |
| `workers` | 2 threads, 2 fixtures, the graces of the code, one fault or crash, one signal, fair | `StopMissesOnlyStarting`, `SealedIsTrue`, `OrphansExplained`, `EventuallySealed` |
| `history_branch` | 3 writers, 2 paths, 2 contents, symmetric | lookups made at different moments are sound where they matter (`ChecksHold`), and the branch implements `CreateOnlyStore` (`CreateOnly`) |
| `publication_serial` | one pass, 2 lanes with published bootstraps, 3 further runs (one with three possible contents, one of them a second bootstrap), 2 drifts, 1 new issue per run, 2 failures, one lane's bootstrap unloadable, a maintainer who closes issues and dispatches a sweep for one run ahead of older ones | see the properties below |
| `publication_overlap` | 2 passes at once, 4 results, 1 failure | `HistorySound` and the refinement `KeepsContract` survive overlap |
| `publication_liveness` | one fair pass, results that are late copies, unattributed or foreign, or sorted before their baseline; 1 failure; a dispatched run | `EventuallyPublished`, `EventuallyRetired` |
| `watchdog_serial` | one pass, 2 lanes, 2 scheduled runs and a manual one, 5 instants, a moving `expected_from`, a scan window of 2, 1 failure | alarms, notices and status agree with the receipts |
| `watchdog_liveness` | a fair pass and a local one that overlap, 1 lane, 1 failure | alarms come, go and collapse |

The properties that say most:

* `OfficialIsDistributed`: an official Release, the source tag, the distribution commit and every archive
  come from one build of one commit, whatever was interrupted and rebuilt. `ShippedOnce`: a release-worthy pull request
  is in the notes of the first version after it and of no other, also when it merged between plan and
  release commit. `VersionCoversPlan`: a version is bumped as far as the notes that its plan showed ask, and those had an entry of everything merged
  by then that the version is the first to follow, across recoveries and refused pushes. `KeepsContract`: no version starts before the last is official.
* `KeptUntilReleased`: the recorded claimant of an issue changes only through a release by someone who may,
  over replays and repeated runs. `LabelFollowsState`: once an issue's last run went through, label and record agree.
  `CooldownBlocks`, `CooldownNotExtended`: a restriction is effective on every issue and is never stacked.
* `NothingEscapes`: for every module that a merge left out, what it would read is what it read when it last
  passed. `AddingNeverLowers` compares a change with every part of it.
* `NothingTrackedRemains`, `OutcomeIsTrue`, `EventuallyReturns`: about a call whatever its command does and prints. They name what may be
  left behind (a process no listing saw, a container whose removal did not take effect, a copy that could not be deleted) and when an
  outcome misleads: `unavailable` for a command that was executed only if it imitated the launcher or docker was gone at the
  removal, `failed` for one that could not be executed only if something was printed first, the tree changed or a budget ran out.
* `SealedIsTrue`: sealed evidence is final, nothing runs beside it unless the signal came while the threads were waited for after another
  exception, and no fault, kill or signal ends in evidence that says complete. Every fixture that was started is in it, except for one whose task
  raised in its first log line or in the listing of its scratch directory. What complete says of processes is about the child and its review CLI. `StopMissesOnlyStarting` and `OrphansExplained`
  name all that outlives a stop, and all that outlives a child.
* `HistorySound`: three stores written by separate calls agree at every instant. A
  record passed every gate and its baseline is recorded; nothing public is
  said of a run before its record; a receipt stands for the recorded content and comes after
  the evidence; an issue is about a drift that the recorded run that opened it confirms.
* `RegressionVisible` and `NoStaleIssue`: at rest the open issues are what the
  lanes' latest published records say, in both directions, whatever the order of
  publication and the retries. The exceptions each names (deferred drifts,
  issues maintainers closed, lanes whose latest record is not a comparison or
  cannot be loaded) are those of the code. `NoStaleIssue` asks more of a lane without compared
  records, that its earlier ones could be loaded too: a resolution that is skipped for a lane is made up for by
  that lane's next comparison only.
* `ResolutionJustified`, `SupersededIsSilent`: no step closes or comments on an
  issue with a record that is not current.
* `EvidenceOncePerRun`, `AppliedOnce`, `OneOpenIssue`: idempotence by markers.
* `RecoveredByNewRecord`: only a scheduled record newer than the gap clears an
  alarm; `NoticeRate`, `ResolvedOnce`, `OneAlarm`: passes that die and are
  repeated neither repeat a notice nor open a second alarm; `StatusIsTrue`:
  the status comment tells the truth of the tracker and keeps the last successful sweep.

`TypeOK` of a module says what shape its state has. It is a property of `publication_serial`, and in every module
with proofs it is proved, with what a proof of it needs besides.

### Bounds

`MaxFailures` bounds failed calls and dead passes: one failure puts a retry at
every point of the protocol, and two (in `publication_serial`) let the retry fail
as well. `MaxNewIssues = 1` with two drifts makes the cap bite. Two lanes are all
the scheduled lanes the code has. Three runs in order, with results that confirm
and results that do not, give a confirmed drift, its resolution and its
recurrence, a superseded record and a decision that needs both lanes; the second bootstrap of a lane
gives one whose latest record resolves nothing. In `Watchdog` the
`Horizon` is several gaps and notice intervals long, and `MaxMoves` lets the
reference move after an alarm. Every bound is a named constant with the comment "bound".

In `release` two failures let a recovery fail as well, and three builds tell a rebuild with other files from one with
other archive bytes; the version that is out at first is of one of them. One description goes through both kinds of edit, so that it can change between any
two steps of a job; the cutover has a child of every kind the notes distinguish. In `claims` three commands are a claim, its release and the claim that meets the
restriction (`Threshold` 2); the cooldown outlasts the clock's horizon and the churn window. In `test_route`
three edits give a change, its merge, and a deletion or a reference dropped and added
over the next pull requests. In `sandbox` a third process is one that is orphaned before a listing; one failing call is the refused, late or missing
removal, a failed listing or a copy that cannot be made.
In `workers` two threads and two fixtures let one task raise or be stopped while the other is
anywhere in its course, and a busy or slow thread leaves a fixture in the queue.

Deadlock is checked where the code's schedule never ends (`release`, the benchmark). `claims`, `test_route`, `sandbox` and `workers` stop
when their bounds are used up or the call or the experiment has ended, and say so in their configurations.

### Fairness

`ReleasePipeline!FairSpec`: a job that has started goes on (`WF` of `Job`), a maintainer dispatches a run when none waits, as
`docs/RELEASE.md` tells them to; failures are bounded, and nobody has to merge or to edit a description.
`SandboxRun!FairSpec`: time passes, the runner's own steps return (each remote call has a timeout), and the burst
of listings ends; nothing is assumed of the command, which may never exit.
`FixtureWorkers!FairSpec`: the threads and the main thread run on, a wait for a child has a timeout (`TimesOut` is one of the
thread's steps), a grace ends in SIGKILL (`WF` of `Kill`), and a child that was told to stop takes the bounded time of its own
`stop_process_tree`. Of a child that was not told nothing is assumed.
`Publication!FairSpec`: a pass that has started goes on (`WF` of `PassStep`), since it
is straight-line code with bounded timeouts, and the workflow's cron starts a full
sweep again and again, whatever is dispatched in between (`SF` of `StartSweep`:
a dispatched pass disables it for a while). Failures are bounded, so liveness
says: once calls stop failing, the run is published. `Watchdog!FairSpec` assumes
the same of scheduled passes and nothing of a pass that somebody runs by hand.
Seals, maintainers, the clock and publications have no fairness.

## 4. Which run stands for which schedule

The properties of section 3 that speak of markers and of the latest record hold for passes
one at a time, which is what `concurrency: benchmark-publish` in
`.github/workflows/benchmark-publish.yml` gives; the theorems about them have the hypothesis
`OnePass` (any two passes are the same one). With a local `--once` beside
the workflow, marker lookups and posts of two passes interleave; then
`HistorySound` and the contract still hold (and are proved for any number of
passes), while duplicates may appear, as
`drift-issue-lifecycle-and-recovery.md` case 9 accepts in part.

## 5. Where code and documents differ

The first of these is a run, which prints the sequence of steps.

* **`release_stuck`**: `docs/RELEASE.md` 499–503 says of recovery "Every failure before finalization is finished for the
  **same** version by running **Release publish** via `workflow_dispatch` on `main`". The job attaches two archives
  (`release-publish.yml` 661–662, 674–675; pinned by `tests/policy/release/test_release_publish_workflow.py` 486–487) and
  `finalization.py` 83–88 asks for every archive of `scripts/packaging/package-manifest.json`, which names eleven. The first
  release of such a version is never official, and no later one can start. The passing run `release` has `Attached = Archives`, as
  it was while there were two skills.

The others were met while modelling and are not kept as runs.

*Scanners.* `docs/validation-routing/partial-tier-model.md` 147–149 says that "A genuine whole-tree reader (for
example the layout guards) is therefore selected by most test changes, which costs a few modules, never
correctness", and `policies/validation-and-clean-exit.md` 94–95 that the registered `DOCS_SCANNER_MODULES`
stay "because they scan every tracked file". A partial run takes the scanners in only when a document is
among the changes (`ci_test_route.py` 1066), so a change of tests alone merges without them. `NothingEscapes`
is therefore stated for the other modules.

*Release.* `docs/RELEASE.md` 86–88 says that the "version bump is decided from the **Keep a Changelog category** of every pending entry", 115 that
"the **highest** bump wins", and 176–177 that "Release intent is read when the release is planned". The job `publish` reads `main` and the
descriptions again (`release-publish.yml` 207–211, `changelog_generation.py` 86–102) and keeps the version that was planned. An edit of a merged
pull request's description between the two, or a merge, puts an entry of a higher category, `Breaking` even, into the notes of a patch version. A form of
`VersionCoversPlan` that asks a bump for the notes of the release commit instead of those that the plan showed is violated in 8 steps.

*Sandbox.* `docker_runner.py` 3–6 says that the container is "force-removed after every run by name, so a client-side kill on timeout can never leave a live
container behind". `docker rm -f` is run unchecked (22–29): when the daemon refuses, or has not created the container yet, it stays
and the call returns an ordinary result. `runner.py` 7 says "A payload the launcher could not exec is `unavailable`, never `failed`". The inference (27–55) wants
the launcher's line first: after the notice of an image pull, a command that cannot be executed is `failed`. So is one whose launcher ended
otherwise (docker's 125, bwrap without namespaces). In the other direction a command that ran, prints that line and ends with the code is `unavailable`, and
so is one that ran when docker is gone at the removal (142–147). `OutcomeIsTrue` and `NothingTrackedRemains` name these cases.

*Workers.* `benchmark_concurrency_workers.py` 319 says of `run_arm` that a caller which passes the result "keeps whatever finished even when this raises,
so an abort never loses evidence". The listing of the scratch directory (359) and the START line (341) are outside of the `try` that records a
fixture (343–358): when the listing raises, the outcome of a child that ran is in no evidence. The arm is not called complete then: the
exception `lost` of `SealedIsTrue`.

Line 383 says of a stop "no new fixture starts, queued ones are dropped, and the
running children are stopped". A thread between its look at the cancel event (331) and the registration of its child (195) is
missed by both: the child starts after `stop_all` has read the set, and the join waits for it up to its full time limit. It is in the
sealed evidence all the same (`SealedIsTrue`), and `StopMissesOnlyStarting` says that nothing else is missed. A signal that raises before
line 383 has set the event, while another exception is handled, leaves the queue as well. `run_in_own_group` says that
its "whole process group dies on timeout or termination" (`benchmark_termination.py` 128); a signal between the return of
`Popen` and the `try`, or while a timeout is being handled, leaves the group alive: the exceptions of `OrphansExplained`.

*Claims.* An `/unclaim` during a restriction: `CONTRIBUTING.md` 66–71 says that
"`/unclaim` remains available"; but the replay judges old receipts by the
restrictions in force now (`claim_issue.py` 235–247). Someone who claims one issue, then another with which the churn limit is
reached, and releases the first, has their first claim replayed as restricted: the release finds no claimant, and the label
stays until a maintainer's command.

*Publication.* The quotes are from
`runtime_platform/benchmark/scheduled-operations/drift-issue-lifecycle-and-recovery.md`:

* The cap on new issues: "Per published run: at most `max_new_issues` (5) new drift
  issues" (130). The counter of `lifecycle.reconcile` lives for one attempt, so a run
  that failed after it opened issues opens more when it is retried.
* A second copy: "A retry finds the open fingerprint and takes the comment
  branch" (189), "no step whose retry can publish a second copy" (200–201). The retry looks at
  open issues only: one that a maintainer closed in between is opened a second
  time, by the same run.
* Duplicates: "Duplicate open issues collapse to the lowest number"
  (`publication-cli.md` 151) and case 9 (193). The listing that collapses them
  follows a create only. If the creating pass dies before it, the next runs take the
  "touch" branch, comment on the lowest and leave the other open.
* An overlap: it "can duplicate an evidence comment … or, rarely,
  an issue" (193), and an issue is closed only when every covering lane's
  latest published record does not confirm it (112–116). `lane_views` sees records with a
  receipt and is read before the issues are closed, so a record that the other pass has
  reconciled and not yet receipted does not keep its issue open. At rest
  the issue of a drift that a latest record confirms is closed. The lane's next run
  that confirms the drift opens a new issue.

## 6. Proofs

| Theorem | Module | Says |
| --- | --- | --- |
| `LeavingOutIsSafe` | `TestRoute_proofs` | `Spec => []NothingEscapes` |
| `AddingIsMonotone` | `TestRoute_proofs` | `Spec => []AddingNeverLowers` |
| `RouteTypeCorrect` | `TestRoute_proofs` | `Spec => []TypeOK` |
| `OfficialReleasesAreDistributed` | `ReleasePipeline_proofs` | `Spec => []OfficialIsDistributed` |
| `FlowKeepsContract` | `ReleasePipeline_proofs` | `Spec => KeepsContract`, the refinement |
| `ReleaseTypeCorrect` | `ReleasePipeline_proofs` | `Spec => []TypeOK` |
| `ShippedOnceHolds` | `ReleasePipeline_proofs` | under `OwnNotes`: `Spec => []ShippedOnce` |
| `VersionCoversPlanHolds` | `ReleasePipeline_proofs` | under `OwnNotes`, `AfterPolicy`: `Spec => []VersionCoversPlan` |
| `ClaimsTypeCorrect` | `IssueClaims_proofs` | `Spec => []TypeOK` |
| `CooldownNotExtendedHolds` | `IssueClaims_proofs` | `Spec => []CooldownNotExtended` |
| `CooldownBlocksHolds` | `IssueClaims_proofs` | `Spec => CooldownBlocks` |
| `KeptUntilReleasedHolds` | `IssueClaims_proofs` | `Spec => KeptUntilReleased` |
| `LabelFollowsStateHolds` | `IssueClaims_proofs` | `Spec => []LabelFollowsState` |
| `OutcomesAreTrue` | `SandboxRun_proofs` | `Spec => []OutcomeIsTrue` |
| `NothingIsLeft` | `SandboxRun_proofs` | `Spec => []NothingTrackedRemains` |
| `SandboxTypeCorrect` | `SandboxRun_proofs` | `Spec => []TypeOK` |
| `SealedEvidenceIsTrue` | `FixtureWorkers_proofs` | `GraceCovers => (Spec => []SealedIsTrue)` |
| `StopMissesOnlyTheStarting` | `FixtureWorkers_proofs` | `GraceCovers => (Spec => []StopMissesOnlyStarting)` |
| `OrphansAreExplained` | `FixtureWorkers_proofs` | `GraceCovers => (Spec => []OrphansExplained)` |
| `WorkersTypeCorrect` | `FixtureWorkers_proofs` | `GraceCovers => (Spec => []TypeOK)` |
| `TypeCorrect` | `Publication_proofs` | `Spec => [](TypeOK /\ InHand)` |
| `HistoryStaysSound` | `Publication_proofs` | `Spec => []HistorySound` |
| `SweepKeepsContract` | `Publication_proofs` | `Spec => KeepsContract`, the refinement |
| `EvidenceOncePerRunHolds` | `Publication_proofs` | under `OnePass`: `Spec => []EvidenceOncePerRun` |
| `AppliedOnceHolds` | `Publication_proofs` | under `OnePass`: `Spec => []AppliedOnce` |
| `OneOpenIssueHolds` | `Publication_proofs` | under `OnePass`: `Spec => []OneOpenIssue` |
| `SupersededIsSilentHolds` | `Publication_proofs` | under `OnePass`: `Spec => SupersededIsSilent` |
| `ResolutionJustifiedHolds` | `Publication_proofs` | under `OnePass`: `Spec => ResolutionJustified` |
| `RegressionVisibleHolds` | `Publication_proofs` | under `OnePass`: `Spec => []RegressionVisible` |
| `NoStaleIssueHolds` | `Publication_proofs` | under `OnePass`: `Spec => []NoStaleIssue` |
| `TypeCorrect` | `Watchdog_proofs` | `Spec => []TypeOK` |
| `NoticeRateHolds` | `Watchdog_proofs` | under `OnePass`: `Spec => []NoticeRate` |
| `ResolvedOnceHolds` | `Watchdog_proofs` | under `OnePass`: `Spec => []ResolvedOnce` |
| `OneAlarmHolds` | `Watchdog_proofs` | under `OnePass`: `Spec => []OneAlarm` |
| `RecoveredByNewRecordHolds` | `Watchdog_proofs` | under `OnePass`: `Spec => RecoveredByNewRecord` |
| `StatusIsTrueHolds` | `Watchdog_proofs` | under `OnePass`: `Spec => StatusIsTrue` |
| `LookupsHold` | `HistoryBranch_proofs` | `Spec => [](TypeOK /\ ChecksHold)` |
| `BranchIsCreateOnly` | `HistoryBranch_proofs` | `Spec => CreateOnly`, the refinement |

They hold for every value of the constants that satisfies the named `ASSUME`s of
the modules and the hypothesis the table names. In `Publication` and `Watchdog` that is any lanes, runs, results, number of
overlapping passes (`OnePass` where it says so) and number of failures. The assumptions say that `None` is none of the values it stands beside, that the runs are
finitely many, the types of the constants, that `run_sort_key` orders a lane's
runs strictly, that the results published at the start are bootstraps that pass the
gates, and what `validate_record` enforces between the fields of a conformant
result.

`OnePass` is the concurrency group of `benchmark-publish.yml`; the properties under it are false without it (section 4),
and the runs `publication_serial` and `watchdog_serial` are instances of it.

*Routing.* The theorems hold for every repository: any paths, areas, texts, drafts and number of edits. They
assume `RouteAssumption` (the kinds of paths are what their areas say; a package initialiser is no guard), `DraftAssumption` and
`GuardsApart`. `NothingEscapes` is not inductive: a route is decided in one step and used at the merge. The
invariant `Sound` adds that base and head are free of uses of guards, and `RouteInForce`: a job's route is
that of the present change, with an evidence that may have failed in part. The core is `LeftOut`: when a path's kind does not
force FULL and a module is not selected, the module's view has nothing of the change. It goes by the
closure: `SurfaceClosed` says that the affected modules contain everything that reaches a changed file in either
tree (`GraphOfBoth`: an edge dropped at the head is still the base's), so what reaches none is closed under references
(`UntouchedIsClosed`), and `ReachSame` that its reach is the same in both trees. Closures are defined as the least closed
set, not by recursion, which is what lets the provers reason about them.
*AddingNeverLowers* follows from the monotonicity of kinds, surfaces and companions (`PartNeedsNoMore`,
`AddingRunsMore`).

*Release.* The theorems hold for every set of pull requests, archives and builds and every number of failures, under
`PipelineAssumption`: the archives a job attaches are among those of the manifest, the first version is
a version and its build one that occurs, edits are from one intent to another, a description's intent is a category or none, and `None` is no version or record of one. A step of `finalize` relies on what `distribute` did some steps before, so the invariant
`Inv` of `ReleasePipeline_proofs` carries it: from `dist-tag` on the tag is the commit in hand, from `finalize` on the tagged
distribution commit is the job's build, and while it uploads every asset of the Release is of the job's build (`RunHolds`).
`OfficialLacksNone` then says that an upload never reaches an official Release.
The refinement needs `Order`: versions rise along `main` (`MainInOrder`), tags are on the commit of their version
(`TagsInOrder`), and only the last release commit may lack its tag or its Release (`OneBehind`, by the last tagged and the last release
commit). `plan` looks at the latest tag alone, and `AllOut` shows that this is enough: when it finds nothing unfinished, every version is
out. Between `plan` and the push nothing can begin another version (`RunInOrder`), so the push is a `Begin`. Every
other step is an `Advance`, a `Release` or leaves the contract's state alone (`QuietStep`).

Its `TypeOK` says that every tag names a commit of its own version; the build in hand is typed with it (`RunTyped`), since it becomes a
distribution commit and assets several steps later.

*Release notes.* `ShippedOnce` and `VersionCoversPlan` are about what pull requests write by hand as well, so they need two
hypotheses that nothing in the release code enforces, and that the run's instance satisfies (`MCReleasePipeline` asserts them). `OwnNotes`: a hand-written
bullet is about the pull request it came with or a change that one brings along, no two pull requests bring the same change along, and a
squashed commit worth a release names its pull request. `AfterPolicy`: the release that was forced to be a patch is behind. `NotesInv` says that
each release commit has notes of all the merges it is the first to follow and of no other, and that the commit
about to be pushed has them as long as `main` stands where the job found it, which is when its push is accepted. It is not enough to say so of the release commits:
the notes are made two steps before the push, and a merge between makes them incomplete, with a push that is refused. `CoversInv` carries the bump from the plan, made on an
earlier `main`, to the release commit: the version covers the notes of the plan (`Covers`), those had an entry of everything merged by then (`Shows`), and
what was planned for is still unshipped when the commit is pushed. Nothing is assumed of descriptions, which may be edited at any step.

*Sandbox.* For every set of processes and hosts, all budgets and any number of failures; the assumption gives the constants their types and says that `None` is none
of the named values. The invariant adds what each stage has done so far: nothing runs before the launch (`NothingYet`); the main process has ended once it was
stopped, and none of its group is alive if that is what ended it (`MainStops`); no process outlives a PID namespace, and a container is there under docker
only (`Contained`); a command that was not executed did not succeed, and the launcher's code comes with something printed (`Launched`); before the command
there is the launcher alone (`Begun`); the listed processes are dead after the last kill, and a container is gone unless its removal says why not (`Swept`); and an exit that counts as one came within the
budgets (`WithinBudget`). `began` and `removal` are history: no step of the runner reads them but `Return`, for what may be left of the copy.

*Fixture workers.* For any fixtures, any number of threads, slots and faults, and graces of which the parent's is the longest
(`GraceCovers`, which the code's 15, 5 and 3 seconds satisfy). The invariant says of each child what is behind it (`Sound`), of each fixture that
it is queued, with one thread, or through, and that a running child is with a thread (`Owned`), that what
has run is with a thread, on record, or lost with a future that raised (`Recorded`), and how far the main thread is (`Course`): during a stop the cancel event is set, so
what runs is still to be stopped or was starting; from the join on, nothing is left to run unless the signal broke it
off. `OwnStepKeeps` and `MainStepKeeps` reduce every step to what it changes.

*Claims.* For any actors, issues, commands, thresholds and durations, and any number of stopped runs; the assumptions are the types of the
constants and what `None` is not. Three invariants build on each other. `CooldownInv`: the restriction a run has in hand still
agrees with every one in force, and the claims it has in hand are of nobody restricted (`InHand`), because no other run posts and the clock does not
tick between its reading and its posts; so restrictions neither stack nor miss a claim. `ReplayInv` says what a checkpoint *is*: on an issue none of
whose commenters has been restricted (`Contested`, which never becomes false again), a checkpoint is what the receipts posted before it
come to when they are answered in the order of the comments (`ComesTo`, defined without the replay). There the replay never
starts from a checkpoint (`AnchorFree`: a checkpoint has its own receipt before it, so none lies before the first receipt), and a new receipt changes the
outcome from its own position on; that a claimant is lost by a release that came later, or by the late answer to an
earlier comment, follows. `LabelInv` adds that a label not there from the beginning has an accepted claim among the receipts (`LabelHasClaim`), so that a
run which finds no claimant has seen the release and may take the label off, however many runs stopped before doing it.
The replay is recursive. `CourseExists` and `CourseSteps` show that the function it defines takes the steps it says, by least
counterexample (`Induction`), and whatever holds of the course is shown in the same way.

*Watchdog.* `TypeInv` holds for any passes: a pass acts on a lane, an issue and a record it has read. Each property then has the invariant that carries the
readings of the only pass to the call that uses them, while the sweep publishes, the manifest moves and the clock goes on: the stamps it goes by are on the issue (`NoticeInv`); the record has no comment yet when one is
due and has it at the close (`ResolvedInv`); what was listed of a lane still to do is what is open (`AlarmInv`). `RecoveredByNewRecord`
needs the judgement in hand (`JudgedInv`) and that an alarm was late when it was opened, hence is for every later pass (`GapInv`), so that
a record which makes the lane on schedule is newer than the alarm's reference. `StatusIsTrue` needs the rows already judged to
stay true while others are handled (`RowsInv`), and the last sweep the comment names to be no later than the clock (`LastInv`).

*Type correctness* of the sweep needs `InHand`: a pass between two calls has the candidate, the
view, the fingerprint and the issue number that its label needs. Without it the
indices `issues[loc[p].issue]` and `records[RunAt(p)]` would be outside their domains.

*HistorySound* is not inductive: a pass writes from what it read several calls
before. The invariant `Inv` adds, per label, what no other pass can have undone
(`PassSound`): from `views` on the record in hand is the stored one; at `persist`
the gates and the baseline still hold; at `write_receipt` the evidence is posted; at `delete`
the receipt is old. `Grows` collects what every step leaves standing (records
and receipts are never replaced, evidence never goes), so that a step of one pass
keeps the readings of the others. One step per action shows `Inv'`.
`CandidatesStaged` and `StagingSound` say that a run
without a record still has its staging ref, which the refinement needs: the contract
records staged runs only.

*Single sweeps.* Each layer rests on those before it. `RunsInv`: a pass that works for a run finds it without a receipt and, when it is about to announce,
without evidence; it decides about issues only for a comparison that is not superseded. `IssuesInv`: the listing a pass made at
the start of its reconciliation stays true of the drifts still to do, although maintainers close issues meanwhile, and what it is about to comment on has
no marker of its run; so markers and open issues are single. `ViewsInv`: the views are those of the latest records until the pass is
through, since nobody else publishes. `VisibleInv`: what a latest record confirms and does not defer has an issue, unless a newer record is there that may have resolved it, and a
pass has touched what it has handled of its own drifts. `StaleInv`: an open issue that the latest records refute waits for a recorded run that is not
published yet, whose pass still has it in its listing (`Pending`, `Settling`).
The attempt to prove the last one showed an earlier form of `NoStaleIssue` to be false: a lane
whose only records are bootstraps resolves nothing, so an issue whose resolution was skipped while that lane could not be loaded stays open
when it can be loaded again. The property now asks for what the code gives, and the run has such a lane.

*BranchIsCreateOnly* rests on `ChecksHold`: a writer whose head is still the tip has looked up
absent paths, so its update is a `Create`; a writer that has been overtaken is refused by
the fast-forward rule, however stale its lookups.

Only model-checked are the liveness properties: `EventuallyPublished`, `EventuallyRetired`, `EventuallyAlarmed`, `EventuallyCleared`,
`ExtrasCollapse`, `EventuallyOfficial`, `EventuallyReturns` and `EventuallySealed`. They need `ENABLED` and fairness,
which the prover does not support. Every other property of a passing run is a theorem.
Where a proof needs induction (the least issue number, the newest receipt, the course of a replay) it takes a
least counterexample from the well-foundedness of `<` on the naturals or of strict inclusion on finite sets, since the library's induction rules are
beyond the installed provers.

## 7. Not modelled

Listed with reasons in `PROJECT.json`: the publisher's rendering, its public-log filter and its
in-memory double; the benchmark's execution side but for the fixture workers, and the reference algorithms; the label
projection of issue forms; and the sequential checks of a checkout (packaging, links, descriptions, the threat model, skill
metadata), which keep no state between calls. How text is parsed into references (`ci_test_route.py`, changelogs) is
abstracted to what it yields.

Hazards without a property: the keep-open race and doubled notices of overlapping
passes (nothing is promised there), the 30-receipt window, a permanently failing
candidate that starves younger ones, the cap and the second copy of section 5, and the seal's lost read-back.

## 8. Plan

Done: 1. `CreateOnlyStore`, `HistoryBranch` and their refinement proof.
2. `Publication`, `PublicationContract`, their runs and proofs. 3. `Watchdog` and its runs.
4. `ReleasePolicy`, `ReleaseContract`, `ReleasePipeline`. 5. `IssueClaims`. 6. `TestSelection`, `TestRoute` and their proofs.
7. `SandboxRun` and its proofs. 8. `ReleasePipeline_proofs`.
9. `FixtureWorkers`, its run and its proofs. 10. `Watchdog_proofs`. 11. `ShippedOnce` and `VersionCoversPlan` as theorems.
12. The single-pass theorems of `Publication_proofs`. 13. `IssueClaims_proofs`.

Next: 14. The split read of `lane_views` in place of the one step, with `HistorySound` proved over it. 15. Properties of passes that overlap which still
hold: what a second pass can and cannot duplicate. 16. The hazards without a property: the cap over retries and the 30-receipt window as bounds that do hold.
