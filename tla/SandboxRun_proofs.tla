------------------------- MODULE SandboxRun_proofs -------------------------
(* Proofs about SandboxRun, for every set of processes and hosts and for every  *)
(* budget.                                                                     *)
EXTENDS SandboxRun, TLAPS

-----------------------------------------------------------------------------
(* The invariant.                                                              *)

Early == {"detect", "prepare", "launch"}
Stopped == {"sweep", "kill", "remove", "verify", "done"}

\* Nothing runs before the launch, and a command is behind some primitive.
NothingYet ==
    /\ stage \in Early => Live = {} /\ known = {} /\ status = None /\ container = "none" /\ ~ began
    /\ primitive = None => Live = {} /\ container = "none" /\ ~ began /\ stage \in {"detect", "done"}
    /\ stage = "detect" => primitive = None

\* The group of main is stopped once and main is never started again.
MainStops ==
    /\ stage \in Stopped => main \notin Live
    /\ main \in Live => procs[main].group = main
    /\ status = "killed" => main \notin Live /\ \A p \in Live : procs[p].group # main

\* How far the primitive keeps the command's processes together.
Contained ==
    /\ primitive = "linux-bwrap" /\ main \notin Live => Live = {}
    /\ primitive = "docker" => Live \subseteq {main}
    /\ primitive # "docker" => container = "none" /\ stage # "remove"

\* A command that was not executed did not succeed, and the launcher's code comes
\* with something printed.
Launched == ~ began => status # "0" /\ (status = "launch" => said # None)

\* Before the command there is the launcher alone.
Begun == (container = "running" => began) /\ (~ began => Live \subseteq {main})

\* What the steps after the kill leave behind.
Swept ==
    /\ stage \in {"remove", "verify", "done"} => Live \intersect known = {}
    /\ stage \notin {"verify", "done"} => removal = None
    /\ removal = "done" => container = "none"
    /\ stage \in {"verify", "done"} /\ removal = None => container = "none"
    /\ stage = "done" /\ workspace => began \/ container # "none" \/ (result = "raised" /\ known = {})

\* A budget is the reason of the end unless the reads stayed within theirs.
WithinBudget ==
    /\ limit = None => got <= MaxOutput
    /\ stage \in Early \union Reading => limit = None
    /\ stage # "done" => result = None

Inv ==
    /\ TypeOK /\ NothingYet /\ MainStops /\ Contained /\ Launched /\ Begun
    /\ Swept /\ WithinBudget /\ OutcomeIsTrue

USE SandboxAssumption
    DEF Primitive, Codes, Ends, Budget, Result, Stage, Word, Container, Removal, Reading, _launch_failure

-----------------------------------------------------------------------------
(* Processes that go.                                                          *)

\* Those that are left are what they were, but for orphans' parents.
LEMMA WithoutKeeps ==
    ASSUME TypeOK, NEW dead
    PROVE  /\ DOMAIN Without(dead) = Live \ dead
           /\ Without(dead) \in [Live \ dead -> [parent : Process \union {None}, group : Process, holds : BOOLEAN]]
           /\ \A p \in Live \ dead : Without(dead)[p].group = procs[p].group
<1>1. ASSUME NEW p \in Live \ dead
      PROVE  /\ Without(dead)[p] \in [parent : Process \union {None}, group : Process, holds : BOOLEAN]
             /\ Without(dead)[p].group = procs[p].group
  <2>1. procs[p] \in [parent : Process \union {None}, group : Process, holds : BOOLEAN]
    BY DEF TypeOK
  <2>2. Without(dead)[p] = [procs[p] EXCEPT !.parent = IF @ \in dead THEN None ELSE @]
    BY DEF Without
  <2> QED
    BY <2>1, <2>2
<1> QED
  BY <1>1 DEF Without

\* The same, of the step that takes them away.
LEMMA WithoutNext ==
    ASSUME TypeOK, NEW dead, procs' = Without(dead)
    PROVE  /\ Live' = Live \ dead
           /\ procs' \in [Live' -> [parent : Process \union {None}, group : Process, holds : BOOLEAN]]
           /\ \A p \in Live' : procs'[p].group = procs[p].group
<1>1. Live' = Live \ dead
  <2>1. Live' = DOMAIN procs'
    BY DEF Live
  <2> QED
    BY <2>1, WithoutKeeps
<1> QED
  BY <1>1, WithoutKeeps

LEMMA InitInv == Init => Inv
<1> SUFFICES ASSUME Init PROVE Inv
  OBVIOUS
<1> USE DEF Init, Live
<1>1. TypeOK
  BY DEF TypeOK
<1>2. NothingYet /\ MainStops /\ Contained /\ Launched /\ Begun
  BY DEF NothingYet, MainStops, Contained, Launched, Begun, Early, Stopped
<1>3. Swept /\ WithinBudget /\ OutcomeIsTrue
  BY DEF Swept, WithinBudget, OutcomeIsTrue
<1> QED
  BY <1>1, <1>2, <1>3 DEF Inv

-----------------------------------------------------------------------------
(* The command.                                                                *)

\* A step that takes only processes away, and how main ended with it.
LEMMA SomeGo ==
    ASSUME Inv, NEW dead \in SUBSET Live, Started, container' \in Container,
           procs' = Without(dead), primitive = "linux-bwrap" /\ main \in dead => dead = Live,
           status' \in Ends \union {None}, status' = "killed" => status = "killed",
           Launched', container' # "none" => container' = container,
           pipe' \in BOOLEAN, said' \in Word \union {None},
           UNCHANGED <<Others, began, grown>>
    PROVE  Inv'
<1> USE DEF Inv, runner, Others
<1>1. /\ Live' = Live \ dead
      /\ procs' \in [Live' -> [parent : Process \union {None}, group : Process, holds : BOOLEAN]]
      /\ \A p \in Live' : procs'[p].group = procs[p].group
  BY WithoutNext
<1>2. TypeOK'
  BY <1>1 DEF TypeOK
<1>3. NothingYet'
  BY <1>1 DEF NothingYet, Started, Early, Contained
<1>4. MainStops'
  BY <1>1 DEF MainStops, TypeOK
<1>5. Contained' /\ Begun'
  BY <1>1 DEF Contained, Begun
<1>6. Swept' /\ WithinBudget' /\ OutcomeIsTrue'
  BY <1>1 DEF Swept, WithinBudget, OutcomeIsTrue, Started, TypeOK
<1> QED
  BY <1>2, <1>3, <1>4, <1>5, <1>6

\* A step that leaves the processes and the runner alone.
LEMMA SameProcesses ==
    ASSUME Inv, Started, UNCHANGED <<host, procs, status, runner>>,
           pipe' \in BOOLEAN, grown' \in Nat, clock' \in Nat, failures' \in Nat, edited' \in BOOLEAN,
           began' \in BOOLEAN, began => began', said' \in Word \union {None}, said # None => said' # None,
           container' \in Container, container = "none" /\ main \notin Live => container' = "none",
           primitive # "docker" => container' = container, container' = "running" => began'
    PROVE  Inv'
<1> USE DEF Inv, runner, Live
<1>1. TypeOK'
  BY DEF TypeOK
<1>2. NothingYet' /\ MainStops' /\ Contained' /\ Launched' /\ Begun'
  BY DEF NothingYet, MainStops, Contained, Launched, Begun, Started, Early
<1>3. Swept' /\ WithinBudget' /\ OutcomeIsTrue'
  BY DEF Swept, WithinBudget, OutcomeIsTrue, Started, MainStops, Stopped
<1> QED
  BY <1>1, <1>2, <1>3

\* A step of the processes on the host that keeps those of main's group in it and
\* adds none that was there before.
LEMMA SomeCome ==
    ASSUME Inv, Started, OnHost, began, Live # {},
           NEW new \in SUBSET (Process \ (known \union {main})), Live' = Live \union new,
           procs' \in [Live' -> [parent : Process \union {None}, group : Process, holds : BOOLEAN]],
           main \in Live => procs'[main].group = main,
           (\A p \in Live : procs[p].group # main) => \A p \in Live' \ {main} : procs'[p].group # main,
           UNCHANGED <<Others, container, began, status, said, pipe, grown>>
    PROVE  Inv'
<1> USE DEF Inv, runner, Others
<1>1. TypeOK'
  BY DEF TypeOK
<1>2. NothingYet' /\ Launched' /\ Begun'
  BY DEF NothingYet, Launched, Begun, Started, Early
<1>3. MainStops'
  BY DEF MainStops
<1>4. Contained'
  BY DEF Contained, OnHost
<1>5. Swept' /\ WithinBudget' /\ OutcomeIsTrue'
  BY DEF Swept, WithinBudget, OutcomeIsTrue, Started
<1> QED
  BY <1>1, <1>2, <1>3, <1>4, <1>5

LEMMA CommandInv == Inv /\ Command => Inv'
<1> SUFFICES ASSUME Inv, Command PROVE Inv'
  OBVIOUS
<1> USE DEF Inv
<1>0. Started
  BY DEF Command
<1>1. ASSUME NEW p \in Process, CloseStreams(p) PROVE Inv'
  <2>1. /\ Live' = Live \union {} /\ Live # {}
        /\ procs' \in [Live' -> [parent : Process \union {None}, group : Process, holds : BOOLEAN]]
        /\ \A q \in Live : procs'[q].group = procs[q].group
    <3>1. Live' = Live /\ Live # {} /\ procs' = [procs EXCEPT ![p] = [procs[p] EXCEPT !.holds = FALSE]]
      BY <1>1 DEF CloseStreams, Live
    <3>2. \A q \in Live : procs[q] \in [parent : Process \union {None}, group : Process, holds : BOOLEAN]
      BY DEF TypeOK
    <3>3. \A q \in Live : /\ procs'[q] \in [parent : Process \union {None}, group : Process, holds : BOOLEAN]
                          /\ procs'[q].group = procs[q].group
      <4>1. p \in DOMAIN procs
        BY <1>1 DEF CloseStreams, Live
      <4>2. /\ procs[p] \in [parent : Process \union {None}, group : Process, holds : BOOLEAN]
            /\ [procs[p] EXCEPT !.holds = FALSE] \in [parent : Process \union {None}, group : Process, holds : BOOLEAN]
            /\ [procs[p] EXCEPT !.holds = FALSE].group = procs[p].group
        <5>1. procs[p] \in [parent : Process \union {None}, group : Process, holds : BOOLEAN]
          BY <3>2, <4>1 DEF Live
        <5>2. [procs[p] EXCEPT !.holds = FALSE].group = procs[p].group
          BY <5>1
        <5>3. [procs[p] EXCEPT !.holds = FALSE] \in [parent : Process \union {None}, group : Process, holds : BOOLEAN]
          BY <5>1
        <5> QED
          BY <5>1, <5>2, <5>3
      <4>3. \A q \in Live : procs'[q] = IF q = p THEN [procs[p] EXCEPT !.holds = FALSE] ELSE procs[q]
        BY <3>1, <4>1 DEF Live
      <4> QED
        BY <3>2, <4>2, <4>3
    <3>4. procs' = [q \in Live |-> procs'[q]]
      <4>1. procs = [q \in Live |-> procs[q]]
        BY DEF TypeOK
      <4> QED
        BY <3>1, <4>1
    <3> QED
      BY <3>1, <3>3, <3>4
  <2>2. (main \in Live => procs'[main].group = main)
        /\ ((\A q \in Live : procs[q].group # main) => \A q \in Live' \ {main} : procs'[q].group # main)
    BY <2>1 DEF MainStops
  <2> QED
    BY <1>0, <1>1, <2>1, <2>2, SomeCome DEF CloseStreams
<1>2. ASSUME NEW p \in Process, Detach(p) PROVE Inv'
  <2>1. p # main
    BY <1>2 DEF Detach, MainStops
  <2>2. /\ Live' = Live \union {} /\ Live # {}
        /\ procs' \in [Live' -> [parent : Process \union {None}, group : Process, holds : BOOLEAN]]
        /\ \A q \in Live : procs'[q].group = IF q = p THEN p ELSE procs[q].group
    BY <1>2 DEF Detach, Live, TypeOK
  <2> QED
    BY <1>0, <1>2, <2>1, <2>2, SomeCome DEF Detach, MainStops
<1>3. ASSUME NEW p \in Process, NEW q \in Process, Fork(p, q) PROVE Inv'
  <2>1. procs[p] \in [parent : Process \union {None}, group : Process, holds : BOOLEAN]
    BY <1>3 DEF Fork, TypeOK
  <2>2. /\ [procs[p] EXCEPT !.parent = p] \in [parent : Process \union {None}, group : Process, holds : BOOLEAN]
        /\ [procs[p] EXCEPT !.parent = p].group = procs[p].group
    BY <2>1
  <2>3. /\ Live' = Live \union {q} /\ Live # {}
        /\ \A r \in Live' : procs'[r] = IF r = q THEN [procs[p] EXCEPT !.parent = p] ELSE procs[r]
    BY <1>3 DEF Fork, Live
  <2>4. procs' \in [Live' -> [parent : Process \union {None}, group : Process, holds : BOOLEAN]]
    BY <1>3, <2>2, <2>3 DEF Fork, TypeOK, Live
  <2>5. /\ main \in Live => procs'[main].group = main
        /\ (\A r \in Live : procs[r].group # main) => \A r \in Live' \ {main} : procs'[r].group # main
    BY <1>3, <2>2, <2>3 DEF Fork, MainStops
  <2>6. {q} \in SUBSET (Process \ (known \union {main}))
    BY <1>3 DEF Fork
  <2> QED
    BY <1>0, <1>3, <2>3, <2>4, <2>5, <2>6, SomeCome DEF Fork
<1>4. ASSUME ~ OnHost, procs' = Without({main}), UNCHANGED <<Others, began, grown>>,
             container' = "none" \/ container' = container,
             pipe' \in BOOLEAN, said' \in Word \union {None}, Launched', status' \in Codes \union {status}
      PROVE  Inv'
  <2> DEFINE dead == Live \intersect {main}
  <2>1. Live \subseteq {main}
    BY <1>4 DEF Contained, OnHost
  <2>2. Without({main}) = Without(dead)
    <3>1. CASE main \in Live
      BY <3>1 DEF Without
    <3>2. CASE main \notin Live
      BY <2>1, <3>2 DEF Without
    <3> QED
      BY <3>1, <3>2
  <2>3. dead \subseteq Live /\ container' \in Container /\ status' \in Ends \union {None}
    BY <1>4 DEF TypeOK
  <2> HIDE DEF dead
  <2> QED
    BY <1>0, <1>4, <2>2, <2>3, SomeGo DEF OnHost
<1>5. ASSUME NEW code \in Codes, ContainerExits(code) PROVE Inv'
  <2>1. began
    BY <1>5 DEF ContainerExits, Begun
  <2> QED
    BY <1>4, <1>5, <2>1 DEF ContainerExits, TypeOK, Launched, Others
<1>6. ASSUME OnHost, NEW p \in Live, NEW code \in Codes, procs' = Without(Dying({p})),
             UNCHANGED <<Others, container, began, grown>>,
             pipe' \in BOOLEAN, said' \in Word \union {None}, Launched', status' \in {code, status}
      PROVE  Inv'
  <2> DEFINE dead == Dying({p})
  <2>1. dead \subseteq Live /\ (primitive = "linux-bwrap" /\ main \in dead => dead = Live)
    BY <1>6 DEF Dying, Namespaced
  <2> HIDE DEF dead
  <2>2. procs' = Without(dead) /\ status' \in Ends \union {None} /\ container' \in Container
    BY <1>6 DEF dead, TypeOK
  <2> QED
    BY <1>0, <1>6, <2>1, <2>2, SomeGo
<1>7. ASSUME NEW code \in Codes, NEW p \in Process, Exit(p, code) PROVE Inv'
  <2>1. Launched' /\ p \in Live /\ status' \in {code, status}
    BY <1>7 DEF Exit, Launched
  <2> QED
    BY <1>6, <1>7, <2>1 DEF Exit, TypeOK
<1>8. ASSUME ExecFails \/ LauncherFails PROVE Inv'
  <2>1. /\ pipe' \in BOOLEAN /\ said' \in Word \union {None} /\ Launched'
        /\ status' \in {"1", "launch", status} /\ procs' = Without({main})
        /\ UNCHANGED <<Others, began, grown>>
    BY <1>8 DEF ExecFails, LauncherFails, Says, TypeOK, Launched
  <2>2. CASE OnHost
    <3>1. main \in Live /\ Dying({main}) = {main} /\ container' = container
      BY <1>8, <2>2 DEF ExecFails, LauncherFails, Dying, OnHost, Contained, Begun
    <3> QED
      BY <1>6, <2>1, <2>2, <3>1
  <2>3. CASE ~ OnHost
    <3>1. container' = "none" \/ container' = container
      BY <1>8 DEF ExecFails, LauncherFails
    <3> QED
      BY <1>4, <2>1, <2>3, <3>1
  <2> QED
    BY <2>2, <2>3
<1>9. ASSUME (\E word \in Word : Write(word)) \/ Grow PROVE Inv'
  <2>1. /\ pipe' \in BOOLEAN
        /\ said' \in Word \union {None} /\ (said # None => said' # None)
        /\ grown' \in Nat /\ UNCHANGED <<Others, procs, container, began, status>>
    <3>1. CASE Grow
      BY <3>1 DEF Grow, TypeOK
    <3>2. ASSUME NEW word \in Word, Write(word)
          PROVE  /\ pipe' \in BOOLEAN
                 /\ said' \in Word \union {None} /\ (said # None => said' # None)
                 /\ grown' \in Nat /\ UNCHANGED <<Others, procs, container, began, status>>
      BY <3>2 DEF Write, Says, TypeOK
    <3> QED
      BY <1>9, <3>1, <3>2
  <2> QED
    BY <1>0, <2>1, SameProcesses DEF TypeOK, Begun, Others
<1>10. ASSUME Begin PROVE Inv'
  BY <1>0, <1>10, SameProcesses DEF Begin, TypeOK, OnHost, Others
<1> QED
  BY <1>1, <1>2, <1>3, <1>5, <1>7, <1>8, <1>9, <1>10 DEF Command

-----------------------------------------------------------------------------
(* The runner.                                                                 *)

\* What every end of the call has in common.
LEMMA ReturnEnds ==
    ASSUME NEW outcome, Return(outcome)
    PROVE  /\ result' = outcome /\ stage' = "done"
           /\ workspace' \in BOOLEAN
           /\ workspace' => began \/ container # "none"
<1>1. CASE began \/ container # "none"
  BY <1>1 DEF Return
<1>2. CASE ~ (began \/ container # "none")
  BY <1>2 DEF Return
<1> QED
  BY <1>1, <1>2

\* What the runner does before there is a command.
LEMMA EarlyInv == Inv /\ (Detect \/ Prepare \/ Launch) => Inv'
<1> SUFFICES ASSUME Inv, Detect \/ Prepare \/ Launch PROVE Inv'
  OBVIOUS
<1> USE DEF Inv, payload, Early, Reading, Stopped
<1>1. CASE Detect
  <2>1. Detected \in Primitive \union {None}
    BY DEF Detected
  <2>2. TypeOK'
    <3>1. CASE primitive' = None
      BY <1>1, <2>1, <3>1, ReturnEnds DEF Detect, TypeOK, Live
    <3>2. CASE primitive' # None
      BY <1>1, <2>1, <3>2 DEF Detect, TypeOK, Live
    <3> QED
      BY <3>1, <3>2
  <2>3. NothingYet' /\ MainStops' /\ Contained' /\ Launched' /\ Begun'
    BY <1>1, <2>1, ReturnEnds DEF Detect, NothingYet, MainStops, Contained, Launched, Begun, Live
  <2>4. Swept' /\ WithinBudget' /\ OutcomeIsTrue'
    BY <1>1, <2>1, ReturnEnds DEF Detect, NothingYet, Swept, WithinBudget, OutcomeIsTrue, Live
  <2> QED
    BY <2>2, <2>3, <2>4
<1>2. CASE Prepare
  <2>0. failures' \in Nat /\ result' \in {result, "raised"} /\ stage' \in {"launch", "done"}
    BY <1>2 DEF Prepare, Fails, TypeOK
  <2>4. workspace' \in BOOLEAN
    <3>1. workspace' = TRUE \/ workspace' \in BOOLEAN
      BY <1>2 DEF Prepare
    <3> QED
      BY <3>1
  <2>1. TypeOK'
    <3>1. UNCHANGED <<host, payload, primitive, got, known, limit, removal, clock, edited>>
      BY <1>2 DEF Prepare
    <3> QED
      BY <2>0, <2>4, <3>1 DEF TypeOK, Live
  <2>3. NothingYet' /\ MainStops' /\ Contained' /\ Launched' /\ Begun'
    BY <1>2, <2>0 DEF Prepare, NothingYet, MainStops, Contained, Launched, Begun, Live
  <2>2. Swept' /\ WithinBudget' /\ OutcomeIsTrue'
    BY <1>2 DEF Prepare, NothingYet, Swept, WithinBudget, OutcomeIsTrue, Live
  <2> QED
    BY <2>1, <2>2, <2>3
<1>3. CASE Launch
  <2>1. CASE stage' = "burst"
    <3>1. /\ procs' = [p \in {main} |-> [parent |-> None, group |-> main, holds |-> TRUE]]
          /\ known' = {main} /\ UNCHANGED <<result, workspace, failures>>
      BY <1>3, <2>1 DEF Launch, Return
    <3>2. Live' = {main} /\ procs'[main].group = main
      BY <3>1 DEF Live
    <3>3. TypeOK'
      BY <1>3, <2>1, <3>1, <3>2 DEF Launch, TypeOK
    <3>4. NothingYet' /\ MainStops' /\ Contained' /\ Launched' /\ Begun'
      BY <1>3, <2>1, <3>1, <3>2 DEF Launch, NothingYet, MainStops, Contained, Launched, Begun
    <3>5. Swept' /\ WithinBudget' /\ OutcomeIsTrue'
      BY <1>3, <2>1, <3>1 DEF Launch, Swept, WithinBudget, OutcomeIsTrue
    <3> QED
      BY <3>3, <3>4, <3>5
  <2>2. CASE stage' # "burst"
    <3>1. /\ Return("unavailable") \/ Return("raised")
          /\ UNCHANGED <<procs, known>>
          /\ failures' = failures + 1 /\ failures' \in Nat
      BY <1>3, <2>2 DEF Launch, Fails, TypeOK
    <3>2. TypeOK'
      BY <1>3, <3>1, ReturnEnds DEF Launch, TypeOK, Live
    <3>3. NothingYet' /\ MainStops' /\ Contained' /\ Launched' /\ Begun'
      BY <1>3, <3>1, ReturnEnds DEF Launch, NothingYet, MainStops, Contained, Launched, Begun, Live
    <3>4. Swept' /\ WithinBudget' /\ OutcomeIsTrue'
      BY <1>3, <3>1, ReturnEnds DEF Launch, NothingYet, Swept, WithinBudget, OutcomeIsTrue, Live
    <3> QED
      BY <3>2, <3>3, <3>4
  <2> QED
    BY <2>1, <2>2
<1> QED
  BY <1>1, <1>2, <1>3

\* A listing tracks processes of the command only.
LEMMA ListingTracks == TypeOK => _expand_descendants \subseteq Process
BY DEF TypeOK, _expand_descendants, Below

\* A listing before the kill: it changes what is tracked and nothing else.
LEMMA SweepInv ==
    ASSUME Inv, NEW from, NEW to, Sweep(from, to),
           <<from, to>> \in {<<"burst", "burst">>, <<"poll", "read">>, <<"sweep", "kill">>}
    PROVE  Inv'
<1> USE DEF Inv, payload, Early, Reading, Stopped
<1>1. /\ from \in Reading \union {"sweep"} /\ to \in Reading \union {"kill"}
      /\ from = "sweep" <=> to = "kill"
  OBVIOUS
<1>2. TypeOK'
  BY <1>1, ListingTracks DEF Sweep, Fails, TypeOK, Live
<1>3. NothingYet' /\ MainStops' /\ Contained' /\ Launched' /\ Begun'
  BY <1>1 DEF Sweep, NothingYet, MainStops, Contained, Launched, Begun, Live
<1>4. Swept' /\ WithinBudget' /\ OutcomeIsTrue'
  BY <1>1 DEF Sweep, Swept, WithinBudget, OutcomeIsTrue, Live
<1> QED
  BY <1>2, <1>3, <1>4

\* The loop that reads.
LEMMA ReadingInv == Inv /\ (Burst \/ BurstEnds \/ Poll \/ Read) => Inv'
<1> SUFFICES ASSUME Inv, Burst \/ BurstEnds \/ Poll \/ Read PROVE Inv'
  OBVIOUS
<1> USE DEF Inv, payload, Early, Reading, Stopped
<1>1. CASE Burst
  BY <1>1, SweepInv DEF Burst
<1>2. ASSUME stage \in Reading, stage' \in Reading \union {"group"},
             UNCHANGED <<host, procs, container, began, status, said, grown, primitive, known, workspace,
                         removal, result, clock, edited, failures>>,
             pipe' \in BOOLEAN, got' \in Nat, limit' \in Budget \union {None},
             stage' \in Reading => limit' = None, limit' = None => got' <= MaxOutput
      PROVE  Inv'
  <2>1. TypeOK'
    BY <1>2 DEF TypeOK, Live
  <2>2. NothingYet' /\ MainStops' /\ Contained' /\ Launched' /\ Begun'
    BY <1>2 DEF NothingYet, MainStops, Contained, Launched, Begun, Live
  <2>3. Swept' /\ WithinBudget' /\ OutcomeIsTrue'
    BY <1>2 DEF Swept, WithinBudget, OutcomeIsTrue, Live
  <2> QED
    BY <2>1, <2>2, <2>3
<1>3. CASE BurstEnds
  BY <1>2, <1>3 DEF BurstEnds, TypeOK, WithinBudget
<1>4. CASE Poll
  <2>1. CASE Sweep("poll", "read")
    BY <2>1, SweepInv
  <2>2. CASE ~ Sweep("poll", "read")
    BY <1>2, <1>4, <2>2 DEF Poll, Stop, TypeOK
  <2> QED
    BY <2>1, <2>2
<1>5. CASE Read
  <2>1. pipe' = FALSE /\ got \in Nat /\ MaxOutput \in Nat /\ limit = None /\ got <= MaxOutput
    BY <1>5 DEF TypeOK, Read, WithinBudget
  <2>2. CASE pipe
    <3>1. /\ got' = got + 1 /\ stage = "read" /\ stage' \in {"poll", "group"}
          /\ IF got' > MaxOutput THEN limit' = "output" /\ stage' = "group" ELSE limit' = None
      BY <1>5, <2>1, <2>2 DEF Read, Stop
    <3>2. got' \in Nat /\ limit' \in Budget \union {None} /\ (limit' = None => got' <= MaxOutput)
          /\ (stage' \in Reading => limit' = None)
      BY <2>1, <3>1
    <3> QED
      BY <1>2, <1>5, <2>1, <3>1, <3>2 DEF Read
  <2>3. CASE ~ pipe
    <3>1. got' = got /\ stage = "read" /\ limit' = None /\ stage' \in {"poll", "group"}
      BY <1>5, <2>1, <2>3 DEF Read, Stop
    <3> QED
      BY <1>2, <1>5, <2>1, <3>1 DEF Read
  <2> QED
    BY <1>5, <2>2, <2>3 DEF Read
<1> QED
  BY <1>1, <1>3, <1>4, <1>5

\* The kill: first main's group, if main is alive, and then what is tracked.
LEMMA KillInv == Inv /\ (KillGroup \/ KillTracked) => Inv'
<1> SUFFICES ASSUME Inv, KillGroup \/ KillTracked PROVE Inv'
  OBVIOUS
<1> USE DEF Inv, Early, Reading, Stopped
<1>1. CASE KillGroup
  <2> DEFINE target == IF main \in Live THEN {p \in Live : procs[p].group = main} ELSE {}
             dead == Dying(target)
  <2>1. /\ procs' = Without(dead)
        /\ status' = IF main \in dead /\ main \in Live THEN "killed" ELSE status
        /\ stage = "group" /\ stage' = "sweep"
        /\ UNCHANGED <<host, container, began, said, pipe, grown, primitive, got, known, limit, workspace,
                       removal, result, clock, edited, failures>>
    BY <1>1 DEF KillGroup, Kill
  <2>2. /\ target \subseteq dead /\ dead \subseteq Live
        /\ main \in Live => main \in target
        /\ main \in Live => \A p \in Live \ dead : procs[p].group # main
    BY DEF Dying, MainStops
  <2>3. primitive = "linux-bwrap" => Live \ dead = {}
    BY <2>2 DEF Dying, Namespaced, Contained
  <2> HIDE DEF target, dead
  <2>4. /\ Live' = Live \ dead
        /\ procs' \in [Live' -> [parent : Process \union {None}, group : Process, holds : BOOLEAN]]
        /\ \A p \in Live' : procs'[p].group = procs[p].group
    BY <2>1, WithoutNext
  <2>5. TypeOK'
    BY <2>1, <2>4 DEF TypeOK
  <2>6. MainStops'
    BY <2>1, <2>2, <2>4 DEF MainStops
  <2>7. NothingYet' /\ Contained' /\ Launched' /\ Begun'
    BY <2>1, <2>2, <2>3, <2>4 DEF NothingYet, Contained, Launched, Begun
  <2>8. Swept' /\ WithinBudget' /\ OutcomeIsTrue'
    BY <2>1, <2>4 DEF Swept, WithinBudget, OutcomeIsTrue
  <2> QED
    BY <2>5, <2>6, <2>7, <2>8
<1>2. CASE KillTracked
  <2>1. main \notin Live /\ stage = "kill"
    BY <1>2 DEF KillTracked, MainStops
  <2> DEFINE dead == Dying(Live \intersect known)
  <2>2. dead = Live \intersect known
    BY <2>1 DEF Dying
  <2>3. /\ procs' = Without(dead) /\ status' = status
        /\ stage' = IF primitive = "docker" THEN "remove" ELSE "verify"
        /\ UNCHANGED <<host, container, began, said, pipe, grown, primitive, got, known, limit, workspace,
                       removal, result, clock, edited, failures>>
    BY <1>2, <2>1 DEF KillTracked, Kill
  <2> HIDE DEF dead
  <2>4. /\ Live' = Live \ dead
        /\ procs' \in [Live' -> [parent : Process \union {None}, group : Process, holds : BOOLEAN]]
        /\ \A p \in Live' : procs'[p].group = procs[p].group
    BY <2>3, WithoutNext
  <2>5. TypeOK'
    BY <2>1, <2>3, <2>4 DEF TypeOK
  <2>6. NothingYet' /\ MainStops' /\ Contained' /\ Launched' /\ Begun'
    BY <2>1, <2>2, <2>3, <2>4 DEF NothingYet, MainStops, Contained, Launched, Begun
  <2>7. Swept' /\ WithinBudget' /\ OutcomeIsTrue'
    BY <2>1, <2>2, <2>3, <2>4 DEF Swept, WithinBudget, OutcomeIsTrue, Contained
  <2> QED
    BY <2>5, <2>6, <2>7
<1> QED
  BY <1>1, <1>2

\* The removal of the container, and the end.
LEMMA EndInv == Inv /\ (ForceRemove \/ Verify) => Inv'
<1> SUFFICES ASSUME Inv, ForceRemove \/ Verify PROVE Inv'
  OBVIOUS
<1> USE DEF Inv, payload, Early, Reading, Stopped
<1>1. CASE ForceRemove
  <2>1. TypeOK'
    <3>1. failures' \in Nat
      BY <1>1 DEF ForceRemove, Fails, TypeOK
    <3>2. CASE stage' = "verify"
      BY <1>1, <3>1, <3>2, ReturnEnds DEF ForceRemove, TypeOK, Live
    <3>3. CASE stage' # "verify"
      BY <1>1, <3>1, <3>3, ReturnEnds DEF ForceRemove, TypeOK, Live
    <3> QED
      BY <3>2, <3>3
  <2>2. NothingYet' /\ MainStops' /\ Contained' /\ Launched' /\ Begun'
    BY <1>1, ReturnEnds DEF ForceRemove, NothingYet, MainStops, Contained, Launched, Begun, Live
  <2>3. Swept' /\ WithinBudget' /\ OutcomeIsTrue'
    BY <1>1, ReturnEnds DEF ForceRemove, Swept, WithinBudget, OutcomeIsTrue, Live
  <2> QED
    BY <2>1, <2>2, <2>3
<1>2. CASE Verify
  <2>1. /\ Outcome \in Result
        /\ Outcome = "executed" => status = "0" /\ ~ edited /\ limit = None
        /\ Outcome = "unavailable" => _launch_failure
        /\ Outcome = "failed" => edited \/ limit # None \/ ~ _launch_failure
    BY DEF Outcome, TypeOK
  <2>2. TypeOK'
    BY <1>2, <2>1, ReturnEnds DEF Verify, TypeOK, Live
  <2>3. NothingYet' /\ MainStops' /\ Contained' /\ Launched' /\ Begun'
    BY <1>2, ReturnEnds DEF Verify, NothingYet, MainStops, Contained, Launched, Begun, Live
  <2>4. Swept' /\ WithinBudget' /\ OutcomeIsTrue'
    BY <1>2, <2>1, ReturnEnds DEF Verify, Swept, WithinBudget, OutcomeIsTrue, Launched, TypeOK, Live
  <2> QED
    BY <2>2, <2>3, <2>4
<1> QED
  BY <1>1, <1>2

LEMMA StepInv == Inv /\ [Next]_vars => Inv'
<1> SUFFICES ASSUME Inv, [Next]_vars PROVE Inv'
  OBVIOUS
<1>1. CASE Run
  BY <1>1, EarlyInv, ReadingInv, KillInv, SweepInv, EndInv DEF Run
<1>2. CASE Command
  BY <1>2, CommandInv
<1>3. CASE Tick
  BY <1>3, SameProcesses DEF Tick, payload, Inv, TypeOK, Begun
<1>5. CASE EditSource
  BY <1>5, SameProcesses DEF EditSource, Started, payload, Inv, TypeOK, Begun
<1>4. CASE UNCHANGED vars
  BY <1>4 DEF vars, payload, runner, Inv, TypeOK, NothingYet, MainStops, Contained, Launched, Begun,
              Swept, WithinBudget, OutcomeIsTrue, Live
<1> QED
  BY <1>1, <1>2, <1>3, <1>4, <1>5 DEF Next

LEMMA AlwaysInv == Spec => []Inv
BY InitInv, StepInv, PTL DEF Spec

-----------------------------------------------------------------------------
(* The theorems.                                                               *)

\* The variables keep their types.
THEOREM SandboxTypeCorrect == Spec => []TypeOK
BY AlwaysInv, PTL DEF Inv

\* "executed" and "unavailable" say what happened, whatever the command did and
\* whichever budget ran out beside its exit (runner.py, process_exec.py).
THEOREM OutcomesAreTrue == Spec => []OutcomeIsTrue
BY AlwaysInv, PTL DEF Inv

\* Nothing that the runner tracked outlives the call, and what may outlive it
\* does so on the primitives and in the cases that the property names.
THEOREM NothingIsLeft == Spec => []NothingTrackedRemains
<1>1. Inv => NothingTrackedRemains
  BY DEF Inv, TypeOK, NothingYet, MainStops, Contained, Swept, Stopped, NothingTrackedRemains
<1> QED
  BY <1>1, AlwaysInv, PTL
=============================================================================
