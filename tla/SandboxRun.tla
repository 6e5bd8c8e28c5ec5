----------------------------- MODULE SandboxRun -----------------------------
(* One check that runs in the sandbox: the runner copies the reviewed tree,    *)
(* starts the command behind the strongest isolation the host has, reads what  *)
(* it prints until its streams close or a budget is used up, stops whatever it *)
(* started, compares the reviewed tree and removes the copy. The command's     *)
(* processes fork, detach, close their streams and exit meanwhile, print what  *)
(* they like and end with any code.                                            *)
(* Code: runner.py, process_exec.py, the primitives and workspace.py.          *)
EXTENDS Naturals

CONSTANTS
    Process,        \* processes of the command on the host
    main,           \* the one that the runner starts
    Hosts,          \* sets of primitives a host may have
    None,
    MaxOutput,      \* max_output_bytes, in reads
    Deadline,       \* wall_clock_seconds
    MaxGrowth,      \* max_filesystem_growth_bytes
    MaxFailures     \* bound: calls to ps, docker and the file system that fail

Primitive == {"docker", "macos-seatbelt", "linux-bwrap"}
Codes == {"0", "1", "launch"}   \* success, none, the launcher's code when it cannot exec
Ends == Codes \union {"killed"}
Budget == {"time", "growth", "output"}
Result == {"executed", "failed", "unavailable", "raised"}
Word == {"line", "text"}        \* the launcher's line about exec and no stdout, anything else
Container == {"none", "creating", "created", "starting", "running"}
Removal == {"done", "early", "refused", "late", "missing"}

ASSUME SandboxAssumption ==
    /\ main \in Process
    /\ None \notin Process \union Primitive \union Ends \union Budget \union Result
                \union Word \union Removal
    /\ Hosts \subseteq SUBSET Primitive
    /\ {MaxOutput, Deadline, MaxGrowth, MaxFailures} \subseteq Nat

VARIABLES
    host,       \* the primitives this host has
    stage,      \* where the runner is
    primitive,
    procs,      \* the command's live processes: [parent, group, holds]
    container,  \* docker: what the daemon has of the container
    began,      \* history: the command itself was executed
    status,     \* how main ended: its exit code, "killed", or None
    said,       \* what has been printed so far, as a Word
    pipe,       \* something waits in the streams
    got,        \* reads done
    known,      \* known_descendants
    limit,      \* the budget that ended the run, or None
    grown, clock,
    edited,     \* the reviewed tree has changed since its fingerprint was taken
    workspace,  \* the disposable copy exists
    removal,    \* history: how docker rm -f ended
    result,
    failures

payload == <<procs, container, began, status, said, pipe, grown>>
runner == <<stage, primitive, got, known, limit, workspace, removal, result>>
vars == <<host, payload, runner, clock, edited, failures>>

Live == DOMAIN procs
Without(dead) ==        \* orphans are inherited by init
    [p \in Live \ dead |-> [procs[p] EXCEPT !.parent = IF @ \in dead THEN None ELSE @]]

\* Processes in a PID namespace go with its first one.
Namespaced == primitive = "linux-bwrap"
Dying(dead) == IF Namespaced /\ main \in dead THEN Live ELSE dead

Kill(dead) ==
    /\ procs' = Without(Dying(dead))
    /\ status' = IF main \in Dying(dead) /\ main \in Live THEN "killed" ELSE status

-----------------------------------------------------------------------------
(* The command. Under docker, main is the client: the command is in the       *)
(* container, which the client waits for and which outlives a killed client.   *)

Reading == {"burst", "poll", "read"}
Started == stage \in Reading \union {"group", "sweep", "kill", "remove", "verify"}
OnHost == primitive # "docker"
Others == <<host, runner, clock, edited, failures>>

Says(word) ==
    /\ pipe' = TRUE
    /\ said' = IF said = "text" THEN said ELSE word

Fork(p, q) ==
    /\ OnHost /\ began /\ p \in Live /\ q \in Process \ (Live \union known \union {main})
    /\ procs' = [r \in Live \union {q} |->
                    IF r = q THEN [procs[p] EXCEPT !.parent = p] ELSE procs[r]]
    /\ UNCHANGED <<Others, container, began, status, said, pipe, grown>>

\* setsid: not for the leader of a group.
Detach(p) ==
    /\ OnHost /\ began /\ p \in Live \ {procs[q].group : q \in Live}
    /\ procs' = [procs EXCEPT ![p].group = p]
    /\ UNCHANGED <<Others, container, began, status, said, pipe, grown>>

CloseStreams(p) ==
    /\ OnHost /\ began /\ p \in Live /\ procs[p].holds
    /\ procs' = [procs EXCEPT ![p].holds = FALSE]
    /\ UNCHANGED <<Others, container, began, status, said, pipe, grown>>

Exit(p, code) ==
    /\ OnHost /\ began /\ p \in Live
    /\ procs' = Without(Dying({p}))
    /\ status' = IF p = main THEN code ELSE status
    /\ UNCHANGED <<Others, container, began, said, pipe, grown>>

Running == IF OnHost THEN began /\ Live # {} ELSE container = "running"

\* The command prints what it likes, and the client before there is a container:
\* it pulls the image. What comes after the last read is not looked at.
Write(word) ==
    /\ stage \in Reading
    /\ Running \/ (~ OnHost /\ container = "none" /\ word = "text")
    /\ \E p \in Live : procs[p].holds
    /\ Says(word)
    /\ UNCHANGED <<Others, procs, container, began, status, grown>>

Grow ==
    /\ stage \in Reading /\ Running /\ grown <= MaxGrowth
    /\ grown' = grown + 1
    /\ UNCHANGED <<Others, procs, container, began, status, said, pipe>>

\* The launcher executes the command. Docker's client asks the daemon for the
\* container and for its start, which the daemon goes on with by itself.
Begin ==
    /\ IF OnHost THEN main \in Live /\ ~ began /\ container' = container
       ELSE \/ container = "none" /\ main \in Live /\ container' = "creating"
            \/ container = "creating" /\ container' = "created"
            \/ container = "created" /\ main \in Live /\ container' = "starting"
            \/ container = "starting" /\ container' = "running"
    /\ began' = (began \/ OnHost \/ container' = "running")
    /\ UNCHANGED <<Others, procs, status, said, pipe, grown>>

\* The command cannot be executed: the launcher prints its line about it and
\* exits with its code.
ExecFails ==
    /\ IF OnHost THEN main \in Live /\ ~ began ELSE container = "starting"
    /\ container' = "none"
    /\ procs' = Without({main})
    /\ IF main \in Live THEN status' = "launch" /\ Says("line")
       ELSE UNCHANGED <<status, said, pipe>>
    /\ UNCHANGED <<Others, began, grown>>

\* Something else is wrong with the launcher: no namespaces, or the client (exit
\* 125, or it loses the daemon) ends without its container.
LauncherFails ==
    /\ main \in Live /\ (OnHost => ~ began)
    /\ procs' = Without({main})
    /\ status' = "1" /\ Says("text")
    /\ UNCHANGED <<Others, container, began, grown>>

\* --rm takes the container away, and the client exits as the command did.
ContainerExits(code) ==
    /\ ~ OnHost /\ container = "running"
    /\ container' = "none"
    /\ procs' = Without({main})
    /\ status' = IF main \in Live THEN code ELSE status
    /\ UNCHANGED <<Others, began, said, pipe, grown>>

Command ==
    /\ Started
    /\ \/ \E p \in Process : CloseStreams(p) \/ Detach(p) \/ (\E q \in Process : Fork(p, q))
       \/ \E code \in Codes : ContainerExits(code) \/ \E p \in Process : Exit(p, code)
       \/ (\E word \in Word : Write(word)) \/ Grow
       \/ Begin \/ ExecFails \/ LauncherFails

-----------------------------------------------------------------------------
(* Around the run.                                                             *)

Tick ==
    /\ Started /\ clock < Deadline
    /\ clock' = clock + 1
    /\ UNCHANGED <<host, payload, runner, edited, failures>>

\* At any time of the run: it is not looked at before the end.
EditSource ==
    /\ stage = "verify" /\ ~ edited
    /\ edited' = TRUE
    /\ UNCHANGED <<host, payload, runner, clock, failures>>

-----------------------------------------------------------------------------
(* The runner.                                                                 *)

\* rmtree with its errors ignored: it leaves a directory that the command made
\* such that it cannot be emptied, and may not end with what is still written to.
Return(outcome) ==
    /\ result' = outcome
    /\ workspace' \in (IF began \/ container # "none" THEN BOOLEAN ELSE {FALSE})
    /\ stage' = "done"

Fails == failures < MaxFailures /\ failures' = failures + 1

\* The strongest isolation the host has.
Detected ==
    CASE "docker" \in host -> "docker"
      [] "docker" \notin host /\ "macos-seatbelt" \in host -> "macos-seatbelt"
      [] host = {"linux-bwrap"} -> "linux-bwrap"
      [] OTHER -> None

Detect ==
    /\ stage = "detect"
    /\ primitive' = Detected
    /\ IF primitive' = None THEN Return("unavailable")
       ELSE stage' = "prepare" /\ UNCHANGED <<result, workspace>>
    /\ UNCHANGED <<host, payload, got, known, limit, removal, clock, edited, failures>>

\* The copy is made before the try whose finally removes it.
Prepare ==
    /\ stage = "prepare"
    /\ \/ /\ workspace' = TRUE /\ stage' = "launch"
          /\ UNCHANGED <<result, failures>>
       \/ /\ Fails
          /\ result' = "raised" /\ stage' = "done"
          /\ workspace' \in BOOLEAN
    /\ UNCHANGED <<host, payload, primitive, got, known, limit, removal, clock, edited>>

\* The primitive may have gone since it was detected, or cannot be started.
Launch ==
    /\ stage = "launch"
    /\ \/ /\ procs' = [p \in {main} |-> [parent |-> None, group |-> main, holds |-> TRUE]]
          /\ known' = {main} /\ stage' = "burst"
          /\ UNCHANGED <<result, workspace, failures>>
       \/ /\ Fails
          /\ Return("unavailable") \/ Return("raised")
          /\ UNCHANGED <<procs, known>>
    /\ UNCHANGED <<host, container, began, status, said, pipe, grown,
                   primitive, got, limit, removal, clock, edited>>

\* One listing of the processes: everything below a tracked one joins.
Below(S) == S \union {p \in Live : procs[p].parent \in S}
_expand_descendants == Below(Below(Below(known)))

Sweep(from, to) ==
    /\ stage = from /\ stage' = to
    /\ \/ known' = _expand_descendants /\ failures' = failures
       \/ Fails /\ known' = known
    /\ UNCHANGED <<host, payload, primitive, got, limit, workspace, removal, result, clock, edited>>

\* Tight listings for half a second, or as long as main lives.
Burst == main \in Live /\ Sweep("burst", "burst")
BurstEnds ==
    /\ stage = "burst" /\ stage' = "poll"
    /\ UNCHANGED <<host, payload, primitive, got, known, limit, workspace, removal, result,
                   clock, edited, failures>>

Stop(why) == limit' = why /\ stage' = "group"

\* Mutant: the budget of time is looked at when the streams have something to say.
DeadlineOnData ==
    \/ /\ stage = "poll"
       /\ \/ clock = Deadline /\ pipe /\ Stop("time")
          \/ clock < Deadline /\ grown > MaxGrowth /\ Stop("growth")
       /\ UNCHANGED <<host, payload, primitive, got, known, workspace, removal, result, clock,
                      edited, failures>>
    \/ (clock < Deadline \/ ~ pipe) /\ Sweep("poll", "read")

\* The top of the loop: the deadline, once a second the growth, then a sweep.
Poll ==
    \/ /\ stage = "poll"
       /\ \/ clock = Deadline /\ Stop("time")
          \/ clock < Deadline /\ grown > MaxGrowth /\ Stop("growth")
       /\ UNCHANGED <<host, payload, primitive, got, known, workspace, removal, result, clock,
                      edited, failures>>
    \/ clock < Deadline /\ Sweep("poll", "read")

\* What waits, the end of the streams, or nothing for a quarter of a second.
Read ==
    /\ stage = "read"
    /\ pipe' = FALSE
    /\ \/ /\ pipe
          /\ got' = got + 1
          /\ IF got' > MaxOutput THEN Stop("output") ELSE stage' = "poll" /\ limit' = limit
       \/ /\ ~ pipe /\ got' = got
          /\ IF \E p \in Live : procs[p].holds THEN stage' = "poll" /\ limit' = limit
             ELSE Stop(None)
    /\ UNCHANGED <<host, procs, container, began, status, said, grown, primitive, known,
                   workspace, removal, result, clock, edited, failures>>

\* Mutant: only main is killed.
KillMain ==
    /\ stage = "group" /\ stage' = "sweep"
    /\ Kill(Live \intersect {main})
    /\ UNCHANGED <<host, container, began, said, pipe, grown, primitive, got, known, limit,
                   workspace, removal, result, clock, edited, failures>>

\* The group of main, when main has not ended before.
KillGroup ==
    /\ stage = "group" /\ stage' = "sweep"
    /\ Kill(IF main \in Live THEN {p \in Live : procs[p].group = main} ELSE {})
    /\ UNCHANGED <<host, container, began, said, pipe, grown, primitive, got, known, limit,
                   workspace, removal, result, clock, edited, failures>>

KillTracked ==
    /\ stage = "kill"
    /\ stage' = IF primitive = "docker" THEN "remove" ELSE "verify"
    /\ Kill(Live \intersect known)
    /\ UNCHANGED <<host, container, began, said, pipe, grown, primitive, got, known, limit,
                   workspace, removal, result, clock, edited, failures>>

\* docker rm -f, whose exit code is not looked at: it finds no container that is
\* still being created, and the daemon may refuse. The call raises if there is no
\* answer in time or no docker any more.
ForceRemove ==
    /\ stage = "remove"
    /\ \/ /\ IF container = "creating" THEN removal' = "early" /\ container' = container
             ELSE removal' = "done" /\ container' = "none"
          /\ stage' = "verify" /\ UNCHANGED <<workspace, result, failures>>
       \/ /\ Fails /\ container' = container
          /\ \/ removal' = "refused" /\ stage' = "verify" /\ UNCHANGED <<workspace, result>>
             \/ removal' = "late" /\ Return("raised")
             \/ removal' = "missing" /\ Return("unavailable")
    /\ UNCHANGED <<host, procs, began, status, said, pipe, grown, primitive, got, known, limit,
                   clock, edited>>

\* The exit code, the first line of stderr and the empty stdout say that the
\* command did not start: the launcher's, or what looks like it.
_launch_failure == status = "launch" /\ said = "line"

\* Mutant: how main ended decides, whatever budget ran out.
StatusAlone ==
    CASE edited -> "failed"
      [] ~ edited /\ _launch_failure -> "unavailable"
      [] OTHER -> IF status = "0" THEN "executed" ELSE "failed"

Outcome ==
    CASE edited \/ limit # None -> "failed"
      [] ~ edited /\ limit = None /\ _launch_failure -> "unavailable"
      [] OTHER -> IF status = "0" THEN "executed" ELSE "failed"

\* The reviewed tree is compared, the result made and the copy removed.
Verify ==
    /\ stage = "verify"
    /\ Return(Outcome)
    /\ UNCHANGED <<host, payload, primitive, got, known, limit, removal, clock, edited, failures>>

Run ==
    \/ Detect \/ Prepare \/ Launch \/ Burst \/ BurstEnds \/ Poll \/ Read
    \/ KillGroup \/ Sweep("sweep", "kill") \/ KillTracked \/ ForceRemove \/ Verify

Init ==
    /\ host \in Hosts
    /\ stage = "detect" /\ primitive = None
    /\ procs = [p \in {} |-> None] /\ container = "none" /\ began = FALSE
    /\ status = None /\ said = None /\ removal = None
    /\ pipe = FALSE /\ got = 0 /\ known = {} /\ limit = None
    /\ grown = 0 /\ clock = 0 /\ edited = FALSE
    /\ workspace = FALSE /\ result = None /\ failures = 0

Next == Run \/ Command \/ Tick \/ EditSource

Spec == Init /\ [][Next]_vars

\* Time passes, the runner's calls return, and the burst of listings ends after
\* half a second. Nothing is assumed of the command.
FairSpec == Spec /\ WF_vars(Tick) /\ WF_vars(Run) /\ WF_vars(BurstEnds)

-----------------------------------------------------------------------------
(* Properties.                                                               *)

Stage == {"detect", "prepare", "launch", "burst", "poll", "read", "group", "sweep", "kill",
          "remove", "verify", "done"}

\* The variables are of their types: the live processes are some of the
\* command's, each with a parent, a group and whether it holds the streams.
TypeOK ==
    /\ host \in Hosts /\ stage \in Stage /\ primitive \in Primitive \union {None}
    /\ Live \subseteq Process /\ known \subseteq Process
    /\ procs \in [Live -> [parent : Process \union {None}, group : Process, holds : BOOLEAN]]
    /\ container \in Container /\ status \in Ends \union {None} /\ said \in Word \union {None}
    /\ pipe \in BOOLEAN /\ got \in Nat /\ grown \in Nat /\ clock \in Nat /\ failures \in Nat
    /\ limit \in Budget \union {None} /\ result \in Result \union {None}
    /\ began \in BOOLEAN /\ edited \in BOOLEAN /\ workspace \in BOOLEAN
    /\ removal \in Removal \union {None}

\* When the run has returned, none of the command's processes that a listing saw
\* is alive, others only on the primitive that has no PID namespace, and none of
\* main's group if main was alive when it was stopped. A container is left only if
\* its removal came too early, was refused, or raised. The copy is left only if
\* the command was executed or may still be, or if making the copy was what raised.
NothingTrackedRemains ==
    stage = "done" =>
        /\ Live \intersect known = {}
        /\ Live # {} => primitive = "macos-seatbelt"
        /\ status = "killed" => \A p \in Live : procs[p].group # main
        /\ container # "none" => removal \in {"early", "refused", "late", "missing"}
        /\ workspace => began \/ container # "none" \/ (result = "raised" /\ known = {})

\* "executed" says that the command was executed and ended by itself with success,
\* within its budgets and over an unchanged tree. A command that was executed is
\* "unavailable" only if it printed the launcher's line and nothing on stdout and
\* exited with the launcher's code, or if docker was gone when its container had
\* to be removed. One that the launcher could not execute is "failed" only if the
\* tree changed, a budget ran out, or something was printed before that line.
OutcomeIsTrue ==
    /\ result = "executed" => began /\ status = "0" /\ ~ edited /\ got <= MaxOutput /\ limit = None
    /\ result = "unavailable" /\ began => _launch_failure \/ removal = "missing"
    /\ result = "failed" /\ ~ began /\ status = "launch" => edited \/ limit # None \/ said = "text"

\* A check returns, whatever the command does: it forks, holds its streams open
\* after it has ended, or never ends.
EventuallyReturns == stage = "launch" ~> stage = "done"
=============================================================================
