--------------------------- MODULE FixtureWorkers ---------------------------
(* One arm of the concurrency experiment: threads that each wait for a child   *)
(* process per fixture, the main thread that waits for the threads, and a      *)
(* signal that may reach it anywhere. A child runs a review CLI in a process   *)
(* group of its own, which only the child stops.                               *)
(* Code: run_arm, run_fixture_child and LiveChildren of                        *)
(* benchmark_concurrency_workers.py, benchmark_termination.py and run of       *)
(* run_concurrency_experiment.py.                                              *)
EXTENDS Naturals, Sequences

CONSTANTS
    Fixture, Order,                     \* the fixtures, in the order of their submission
    Worker, Slot,                       \* threads of the pool, and as many scratch slots
    ParentGrace, ChildGrace, KillWait,  \* seconds
    MaxFaults,                          \* bound: calls that raise, children that crash
    None

ASSUME WorkersAssumption ==
    /\ Order \in Seq(Fixture) /\ \A f \in Fixture : \E k \in DOMAIN Order : Order[k] = f
    /\ \A j, k \in DOMAIN Order : Order[j] = Order[k] => j = k
    /\ ParentGrace \in Nat /\ ChildGrace \in Nat /\ KillWait \in Nat /\ MaxFaults \in Nat
    /\ None \notin Fixture \union Slot
    /\ Order # <<>> /\ None # "ok" /\ None \notin [status : {"ok", "failed"}, leftovers : BOOLEAN]

VARIABLES
    queue,      \* submitted fixtures no thread has taken
    future,     \* per fixture: "pending", "running", "done", "raised" or "cancelled"
    slots,      \* free scratch slots
    task,       \* per thread: [at, fixture, slot, raises]
    child,      \* per fixture: [at, cli, ended, missed], its process and the CLI below it
    children,   \* LiveChildren: fixtures whose child is registered
    cancel,     \* the event that keeps threads from starting fixtures
    main,       \* main thread: [at, next, todo, now, raised, stopped, late, starting]
    outcomes,   \* ArmResult.outcomes: per fixture [status, leftovers], or None
    lost,       \* history: fixtures whose task raised where nothing records it
    evidence,   \* what is sealed: [complete, outcomes], or None
    signalled,  \* the signal has come: later ones are ignored
    faults

pool == <<queue, future, slots>>
vars == <<pool, task, child, children, cancel, main, outcomes, lost, evidence, signalled, faults>>

Idle == [at |-> "idle", fixture |-> None, slot |-> None, raises |-> FALSE]
Unborn == [at |-> "none", cli |-> FALSE, ended |-> None, missed |-> FALSE]

Gone(f) == child[f].at = "gone"
Alive == {f \in Fixture : child[f].at \notin {"none", "gone"}}

\* Tasks past the look at `cancel` whose child is not registered yet.
Starting == {task[w].fixture : w \in {v \in Worker : task[v].at \in {"checked", "slot", "spawned"}}}

-----------------------------------------------------------------------------
(* A child: run_benchmark.py with its review CLI, run by run_in_own_group.     *)

Become(f, at, cli) == child' = [child EXCEPT ![f].at = at, ![f].cli = cli]

\* Popen returns before the `try` that stops the CLI is entered.
ForkCli(f) == child[f].at = "working" /\ Become(f, "forked", TRUE)
HoldCli(f) == child[f].at = "forked" /\ Become(f, "reviewing", TRUE)
CliEnds(f) == child[f].at = "reviewing" /\ Become(f, "working", FALSE)

\* The review takes too long: the CLI's group is stopped.
CliTimesOut(f) == child[f].at = "reviewing" /\ Become(f, "ending", TRUE)
CliStopped(f) == child[f].at = "ending" /\ Become(f, "working", FALSE)

\* `Terminated` was raised while the CLI was held: stopped, then the child unwinds.
CleanUp(f) == child[f].at = "cleanup" /\ Become(f, "unwinding", FALSE)

End(f, how) == child' = [child EXCEPT ![f].at = "gone", ![f].ended = how]

Exit(f) ==
    \/ child[f].at = "working" /\ End(f, "ok")
    \/ child[f].at = "working" /\ End(f, "failed")
    \/ child[f].at = "unwinding" /\ End(f, "terminated")

Child(f) ==
    /\ ForkCli(f) \/ HoldCli(f) \/ CliEnds(f) \/ CliTimesOut(f) \/ CliStopped(f) \/ CleanUp(f) \/ Exit(f)
    /\ UNCHANGED <<pool, task, children, cancel, main, outcomes, lost, evidence, signalled, faults>>

\* SIGKILL from elsewhere: nothing of the child runs any more.
Crash(f) ==
    /\ f \in Alive /\ faults < MaxFaults /\ faults' = faults + 1
    /\ End(f, "crash")
    /\ UNCHANGED <<pool, task, children, cancel, main, outcomes, lost, evidence, signalled>>

-----------------------------------------------------------------------------
(* stop_process_tree: SIGTERM, a wait, SIGKILL.                                *)

\* What SIGTERM does to a child. It is caught: a CLI that is held is stopped, one
\* that is being forked or stopped already is left. A second signal is ignored.
Signalled(c) ==
    CASE c.at = "reviewing" -> [c EXCEPT !.at = "cleanup"]
      [] c.at \in {"working", "forked", "ending"} -> [c EXCEPT !.at = "unwinding", !.missed = c.cli]
      [] OTHER -> c

SendTerm(f) == child' = [child EXCEPT ![f] = Signalled(@)]

\* Mutant: no wait for the child's own cleanup.
GraceTooShort == FALSE

\* The parent waits longer than a child takes to stop its CLI.
GraceCovers == ParentGrace > ChildGrace + KillWait

Stopping(f) == main.now = f \/ \E w \in Worker : task[w].at = "reaping" /\ task[w].fixture = f

\* Mutant: no escalation.
KillNever(f) == FALSE /\ UNCHANGED vars

\* A child that has not unwound when the grace ends is killed; its CLI is in
\* another group.
Kill(f) ==
    /\ Stopping(f)
    /\ child[f].at = "unwinding" \/ (child[f].at = "cleanup" /\ ~ GraceCovers)
    /\ End(f, "killed")
    /\ UNCHANGED <<pool, task, children, cancel, main, outcomes, lost, evidence, signalled, faults>>

-----------------------------------------------------------------------------
(* A thread: task and run_fixture_child.                                       *)

Take(w) ==
    LET f == Head(queue) IN
    /\ task[w] = Idle /\ queue # <<>>
    /\ queue' = Tail(queue)
    /\ IF cancel
       THEN future' = [future EXCEPT ![f] = "done"] /\ UNCHANGED task
       ELSE /\ future' = [future EXCEPT ![f] = "running"]
            /\ task' = [task EXCEPT ![w] = [Idle EXCEPT !.at = "checked", !.fixture = f]]
    /\ UNCHANGED <<slots, child, children, cancel, main, outcomes, lost, evidence, signalled, faults>>

GetSlot(w) ==
    /\ task[w].at = "checked"
    /\ \E s \in slots :
        /\ slots' = slots \ {s}
        /\ task' = [task EXCEPT ![w].at = "slot", ![w].slot = s]
    /\ UNCHANGED <<queue, future, child, children, cancel, main, outcomes, lost, evidence, signalled, faults>>

Start(w) ==
    /\ task[w].at = "slot"
    /\ child' = [child EXCEPT ![task[w].fixture].at = "working"]
    /\ task' = [task EXCEPT ![w].at = "spawned"]
    /\ UNCHANGED <<pool, children, cancel, main, outcomes, lost, evidence, signalled, faults>>

\* The workspace or the process cannot be created.
StartFails(w) ==
    /\ task[w].at = "slot" /\ faults < MaxFaults /\ faults' = faults + 1
    /\ task' = [task EXCEPT ![w].at = "record", ![w].raises = TRUE]
    /\ UNCHANGED <<pool, child, children, cancel, main, outcomes, lost, evidence, signalled>>

\* Mutant: the child is not added to LiveChildren.
RegisterNothing(w) ==
    /\ task[w].at = "spawned"
    /\ task' = [task EXCEPT ![w].at = "waiting"]
    /\ UNCHANGED <<pool, child, children, cancel, main, outcomes, lost, evidence, signalled, faults>>

Register(w) ==
    /\ task[w].at = "spawned"
    /\ children' = children \union {task[w].fixture}
    /\ task' = [task EXCEPT ![w].at = "waiting"]
    /\ UNCHANGED <<pool, child, cancel, main, outcomes, lost, evidence, signalled, faults>>

\* communicate raises: its time is up, or it fails.
TimesOut(w) ==
    /\ task[w].at = "waiting" /\ ~ Gone(task[w].fixture)
    /\ SendTerm(task[w].fixture)
    /\ task' = [task EXCEPT ![w].at = "reaping"]
    /\ UNCHANGED <<pool, children, cancel, main, outcomes, lost, evidence, signalled, faults>>

WaitFails(w) ==
    /\ task[w].at = "waiting" /\ faults < MaxFaults /\ faults' = faults + 1
    /\ SendTerm(task[w].fixture)
    /\ task' = [task EXCEPT ![w].at = "reaping", ![w].raises = TRUE]
    /\ UNCHANGED <<pool, children, cancel, main, outcomes, lost, evidence, signalled>>

ChildEnded(w) ==
    /\ task[w].at \in {"waiting", "reaping"} /\ Gone(task[w].fixture)
    /\ children' = children \ {task[w].fixture}
    /\ task' = [task EXCEPT ![w].at = "record"]
    /\ UNCHANGED <<pool, child, cancel, main, outcomes, lost, evidence, signalled, faults>>

Verdict(c) == IF c.ended = "ok" THEN "ok" ELSE "failed"

\* The listing of the scratch directory finds leftovers or not, however the child
\* ended.
Outcome(w, left) == [status |-> IF task[w].raises THEN "failed" ELSE Verdict(child[task[w].fixture]),
                     leftovers |-> left]

Leave(w, how) ==
    /\ future' = [future EXCEPT ![task[w].fixture] = how]
    /\ slots' = slots \union {task[w].slot}
    /\ task' = [task EXCEPT ![w] = Idle]
    /\ UNCHANGED <<queue, child, children, main, evidence, signalled>>

\* A child's task that raises is on record too, and keeps the others from starting.
Record(w) ==
    /\ task[w].at = "record"
    /\ \E left \in BOOLEAN :
        /\ left => ~ task[w].raises
        /\ outcomes' = [outcomes EXCEPT ![task[w].fixture] = Outcome(w, left)]
    /\ cancel' = (cancel \/ task[w].raises)
    /\ Leave(w, IF task[w].raises THEN "raised" ELSE "done")
    /\ UNCHANGED <<lost, faults>>

\* What is outside of the inner try raises: the line logged before it, the listing
\* of the scratch directory, or the line logged once the outcome is on record. The
\* other threads go on until the main thread gets to this future.
Escape(w) ==
    /\ task[w].at \in {"slot", "record"} /\ ~ task[w].raises
    /\ faults < MaxFaults /\ faults' = faults + 1
    /\ \/ lost' = lost \union {task[w].fixture} /\ outcomes' = outcomes
       \/ /\ task[w].at = "record" /\ lost' = lost
          /\ \E left \in BOOLEAN : outcomes' = [outcomes EXCEPT ![task[w].fixture] = Outcome(w, left)]
    /\ Leave(w, "raised")
    /\ cancel' = cancel

Thread(w) ==
    \/ Take(w) \/ GetSlot(w) \/ Start(w) \/ StartFails(w) \/ Register(w)
    \/ TimesOut(w) \/ WaitFails(w) \/ ChildEnded(w) \/ Record(w) \/ Escape(w)

-----------------------------------------------------------------------------
(* The main thread: run_arm, and what run does after it.                       *)

MainOnly == UNCHANGED <<task, children, outcomes, lost, faults>>

\* The results are waited for in the order of submission.
Await ==
    /\ main.at = "await"
    /\ \/ /\ future[Order[main.next]] = "done"
          /\ main' = IF main.next = Len(Order) THEN [main EXCEPT !.at = "join"]
                     ELSE [main EXCEPT !.next = @ + 1]
       \/ /\ future[Order[main.next]] = "raised"
          /\ main' = [main EXCEPT !.at = "cancel", !.raised = TRUE]
    /\ MainOnly /\ UNCHANGED <<pool, child, cancel, evidence, signalled>>

Cancel ==
    /\ main.at = "cancel" /\ cancel' = TRUE
    /\ main' = [main EXCEPT !.at = "shutdown"]
    /\ MainOnly /\ UNCHANGED <<pool, child, evidence, signalled>>

ShutDown ==
    /\ main.at = "shutdown" /\ queue' = <<>>
    /\ future' = [f \in Fixture |-> IF \E k \in DOMAIN queue : queue[k] = f THEN "cancelled" ELSE future[f]]
    /\ main' = [main EXCEPT !.at = "snapshot"]
    /\ MainOnly /\ UNCHANGED <<slots, child, cancel, evidence, signalled>>

\* stop_all, in run_arm and once more in run: the children registered now.
Snapshot ==
    /\ main.at \in {"snapshot", "last"}
    /\ main' = [main EXCEPT !.at = IF main.at = "last" THEN "laststop" ELSE "stop",
                            !.todo = children, !.starting = Starting, !.stopped = FALSE]
    /\ MainOnly /\ UNCHANGED <<pool, child, cancel, evidence, signalled>>

StopOne ==
    /\ main.at \in {"stop", "laststop"} /\ main.now = None
    /\ \E f \in main.todo : main' = [main EXCEPT !.now = f] /\ SendTerm(f)
    /\ MainOnly /\ UNCHANGED <<pool, cancel, evidence, signalled>>

StoppedOne ==
    /\ main.now # None /\ Gone(main.now)
    /\ main' = [main EXCEPT !.now = None, !.todo = @ \ {main.now}]
    /\ MainOnly /\ UNCHANGED <<pool, child, cancel, evidence, signalled>>

StopEnds ==
    /\ main.at \in {"stop", "laststop"} /\ main.todo = {}
    /\ main' = [main EXCEPT !.at = IF main.at = "stop" THEN "join" ELSE "seal", !.stopped = TRUE]
    /\ MainOnly /\ UNCHANGED <<pool, child, cancel, evidence, signalled>>

\* Mutant: the pool is left without waiting for its threads.
LeavePool ==
    /\ main.at = "join"
    /\ main' = [main EXCEPT !.at = "last"]
    /\ MainOnly /\ UNCHANGED <<pool, child, cancel, evidence, signalled>>

Quiescent == queue = <<>> /\ \A w \in Worker : task[w] = Idle

\* The end of `with ThreadPoolExecutor`.
Join ==
    /\ main.at = "join" /\ Quiescent
    /\ main' = [main EXCEPT !.at = "last"]
    /\ MainOnly /\ UNCHANGED <<pool, child, cancel, evidence, signalled>>

\* The first signal raises `Terminated` in the main thread, where it is: in the
\* body, in the handler of another exception, or while it waits for the threads.
Signal ==
    /\ ~ signalled /\ signalled' = TRUE
    /\ \/ main.at = "await" /\ main' = [main EXCEPT !.at = "cancel", !.raised = TRUE]
       \/ /\ main.at \in {"cancel", "shutdown", "snapshot", "stop"}
          /\ main' = [main EXCEPT !.at = "join", !.todo = {}, !.now = None, !.raised = TRUE]
       \/ main.at = "join" /\ main' = [main EXCEPT !.at = "last", !.raised = TRUE, !.late = ~ Quiescent]
    /\ MainOnly /\ UNCHANGED <<pool, child, cancel, evidence>>

\* The arm is complete: not interrupted, every fixture reviewed, nothing left behind.
Complete ==
    /\ ~ main.raised
    /\ \A f \in Fixture : outcomes[f] # None /\ outcomes[f].status = "ok" /\ ~ outcomes[f].leftovers

Seal ==
    /\ main.at = "seal"
    /\ evidence' = [complete |-> Complete, outcomes |-> outcomes]
    /\ main' = [main EXCEPT !.at = "sealed"]
    /\ MainOnly /\ UNCHANGED <<pool, child, cancel, signalled>>

Main ==
    \/ Await \/ Cancel \/ ShutDown \/ Snapshot \/ StopOne \/ StoppedOne \/ StopEnds
    \/ Join \/ Seal

-----------------------------------------------------------------------------
Init ==
    /\ queue = Order /\ future = [f \in Fixture |-> "pending"] /\ slots = Slot
    /\ task = [w \in Worker |-> Idle] /\ child = [f \in Fixture |-> Unborn]
    /\ children = {} /\ cancel = FALSE
    /\ main = [at |-> "await", next |-> 1, todo |-> {}, now |-> None,
               raised |-> FALSE, stopped |-> FALSE, late |-> FALSE, starting |-> {}]
    /\ outcomes = [f \in Fixture |-> None] /\ lost = {} /\ evidence = None
    /\ signalled = FALSE /\ faults = 0

Next ==
    \/ Main \/ Signal
    \/ \E w \in Worker : Thread(w)
    \/ \E f \in Fixture : Child(f) \/ Crash(f) \/ Kill(f)

Spec == Init /\ [][Next]_vars

\* The parent's steps are taken, its waits end, and a child that was told to stop
\* stops its CLI in bounded time. Nothing else is assumed of a child.
FairSpec ==
    /\ Spec /\ WF_vars(Main)
    /\ \A w \in Worker : WF_vars(Thread(w))
    /\ \A f \in Fixture : WF_vars(Kill(f)) /\ WF_vars(Child(f) /\ CleanUp(f))

-----------------------------------------------------------------------------
(* Properties.                                                                 *)

\* Shapes of the state; what each stage of the main thread relies on is in
\* FixtureWorkers_proofs.
TaskAt == {"idle", "checked", "slot", "spawned", "waiting", "reaping", "record"}
ChildAt == {"none", "working", "forked", "reviewing", "ending", "cleanup", "unwinding", "gone"}
TaskState == [at : TaskAt, fixture : Fixture \union {None}, slot : Slot \union {None}, raises : BOOLEAN]
ChildState == [at : ChildAt, cli : BOOLEAN, missed : BOOLEAN,
               ended : {None, "ok", "failed", "terminated", "killed", "crash"}]
MainAt == {"await", "cancel", "shutdown", "snapshot", "stop", "join", "last", "laststop", "seal", "sealed"}
MainState == [at : MainAt, next : 1 .. Len(Order), todo : SUBSET Fixture, now : Fixture \union {None},
              raised : BOOLEAN, stopped : BOOLEAN, late : BOOLEAN, starting : SUBSET Fixture]

TypeOK ==
    /\ queue \in Seq(Fixture) /\ slots \subseteq Slot /\ children \subseteq Fixture /\ lost \subseteq Fixture
    /\ future \in [Fixture -> {"pending", "running", "done", "raised", "cancelled"}]
    /\ task \in [Worker -> TaskState]
    /\ \A w \in Worker : task[w].at \in {"idle", "checked"} \/ task[w].slot \in Slot
    /\ child \in [Fixture -> ChildState]
    /\ main \in MainState
    /\ outcomes \in [Fixture -> [status : {"ok", "failed"}, leftovers : BOOLEAN] \union {None}]
    /\ cancel \in BOOLEAN /\ signalled \in BOOLEAN /\ faults \in 0 .. MaxFaults

\* What is still running when stop_all has gone through is a child that was not
\* registered when it looked: its thread had passed the look at `cancel`.
StopMissesOnlyStarting ==
    main.stopped => Alive \subseteq main.starting

\* What is sealed is final and true. It says complete only of an arm in which every
\* fixture ran to its own end and left no review CLI behind; and it is sealed when no
\* child runs any more and no thread has anything to add, so that every fixture whose
\* child was started, or could not be, is in it, but for one whose task raised in its
\* first line or in the listing of its scratch directory; the arm is not complete
\* then. Only a signal that comes while threads are waited for after another exception
\* seals earlier.
SealedIsTrue ==
    evidence # None =>
        /\ evidence.complete => \A f \in Fixture : Gone(f) /\ child[f].ended = "ok" /\ ~ child[f].cli
        /\ ~ main.late =>
               /\ Alive = {} /\ Quiescent /\ evidence.outcomes = outcomes
               /\ \A f \in Fixture : child[f].at # "none" \/ future[f] = "raised" =>
                                      outcomes[f] # None \/ (f \in lost /\ ~ evidence.complete)

\* A review CLI outlives its child only when the child crashed, or was told to stop
\* between the fork and the hold of its CLI or while it was stopping it: never
\* because the parent killed the child too early.
OrphansExplained ==
    \A f \in Fixture : Gone(f) /\ child[f].cli => child[f].missed \/ child[f].ended = "crash"

\* The experiment ends and seals, whatever its children do.
EventuallySealed == <>(evidence # None)

=============================================================================
