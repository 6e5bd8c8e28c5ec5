---------------------------- MODULE IssueClaims ----------------------------
(* Who has claimed which issue. The bot keeps no database: a serialized        *)
(* workflow answers each /claim and /unclaim comment by replaying the receipts *)
(* it wrote under earlier commands of the issue, then writes a receipt, a      *)
(* checkpoint comment and the `claimed` label, and may stop between any two.   *)
(* Churn in ownership restricts an actor, across issues, until a cooldown ends.*)
(* Code: src/scripts/governance/claim_issue.py and claim-issue.yml.            *)
EXTENDS Naturals, Sequences, FiniteSetsExt

CONSTANTS
    Issue,          \* issues of the repository
    Actor,          \* who comments
    Maintainer,     \* actors with association OWNER, MEMBER or COLLABORATOR
    None,
    Threshold,      \* --churn-threshold
    Window,         \* --churn-window-seconds
    Cooldown,       \* --cooldown-seconds
    MaxCommands,    \* bound: comments with a command
    MaxFailures,    \* bound: runs that stop early, and re-runs of them
    Commands,       \* bound: who may comment what where, [actor, issue, verb]
    Triaged,        \* issues that may be closed or lose `help wanted`
    Labelled,       \* issues someone labelled `claimed` by hand before
    Horizon         \* bound on the clock

ASSUME ClaimAssumption ==
    /\ Maintainer \subseteq Actor
    /\ Commands \subseteq [actor : Actor, issue : Issue, verb : {"claim", "unclaim"}]
    /\ Triaged \subseteq Issue /\ Labelled \subseteq Issue
    /\ {Threshold, Window, Cooldown} \subseteq Nat \ {0}
    /\ {MaxCommands, MaxFailures, Horizon} \subseteq Nat

\* What a checkpoint says, and a restriction.
State == [claimant : Actor \union {None}, through : 0 .. MaxCommands]
Restriction == [actor : Actor, until : 0 .. Horizon + Cooldown, notified : BOOLEAN]

ASSUME NoneIsNothing == None \notin Actor \union Nat \union State \union Restriction

VARIABLES
    commands,   \* comments that hold a command, their position is the comment id
    pending,    \* ids of commands whose workflow run has not started
    bot,        \* comments of github-actions[bot], in the order they were posted
    claimed,    \* per issue: it has the label `claimed`
    open,       \* per issue: open and labelled `help wanted` or `good first issue`
    clock,
    run,        \* the run in progress: its stage and what it planned
    failed,     \* ids of commands whose run stopped early and may be re-run
    failures,
    settled     \* history: issues whose last run went through to its end

vars == <<commands, pending, bot, claimed, open, clock, run, failed, failures, settled>>
queue == <<commands, pending>>

Larger(a, b) == IF a < b THEN b ELSE a
Idle == [stage |-> "idle"]

-----------------------------------------------------------------------------
(* What the bot's comments say.                                              *)

Comments(i) == {k \in DOMAIN bot : bot[k].issue = i}

\* The synthetic receipt of the command at hand joins the posted ones; several
\* receipts of one command are one.
Receipts(i, c) == ({bot[k].receipt : k \in Comments(i)} \ {None}) \union {c}

Checkpoints(i) == {bot[k].state : k \in {j \in Comments(i) : bot[j].state # None}}

\* The newest checkpoint that ends before the first receipt.
ReplayAnchor(i, first) ==
    LET anchors == {s \in Checkpoints(i) : s.through < first} IN
    IF anchors = {} THEN [claimant |-> None, through |-> 0, trusted |-> FALSE]
    ELSE LET s == CHOOSE t \in anchors : \A u \in anchors : u.through <= t.through
         IN [claimant |-> s.claimant, through |-> s.through, trusted |-> TRUE]

\* Mutant: the repository's comments are read back over the churn window only.
ReadChurnWindow(i) ==
    {bot[k] : k \in {j \in DOMAIN bot : bot[j].issue = i \/ bot[j].at + Window >= clock}}

\* Every comment of the issue, and the repository's over the longer of the two.
History(i) ==
    {bot[k] : k \in {j \in DOMAIN bot :
        bot[j].issue = i \/ bot[j].at + Larger(Window, Cooldown) >= clock}}

\* Command ids whose change of ownership is on record, each at its first mention.
Transitions(i) == UNION {{[id |-> d, at |-> b.at] : d \in b.transitions} : b \in History(i)}
Recorded(i) == {t.id : t \in Transitions(i)}
At(i, d) == Min({t.at : t \in {u \in Transitions(i) : u.id = d}})

Restrictions(i) == {b.restriction : b \in {h \in History(i) : h.restriction # None}}

\* Of the restrictions that still run, the one that ends last; of those, one
\* whose actor has been told, since that marker was posted later.
ActiveRestriction(a, restrictions) ==
    LET active == {r \in restrictions : r.actor = a /\ r.until > clock} IN
    IF active = {} THEN None
    ELSE CHOOSE r \in active : \A q \in active :
             q.until < r.until \/ (q.until = r.until /\ (q.notified => r.notified))

-----------------------------------------------------------------------------
(* Replay.                                                                   *)

Quiet(s, d) == [s EXCEPT !.through = d, !.blocked = FALSE, !.post = TRUE]

\* Mutant: a claim retried during a cooldown adds another one to it.
StackCooldown(s, d, i) ==
    LET actor == commands[d].actor
        active == ActiveRestriction(actor, Restrictions(i))
        next == Quiet(s, d) IN
    CASE active # None ->
            [next EXCEPT !.restriction = [active EXCEPT !.notified = TRUE,
                                                        !.until = @ + Cooldown],
                         !.post = ~ active.notified, !.blocked = TRUE]
      [] active = None /\ (~ commands[d].open \/ s.claimant # None) -> next
      [] OTHER -> [next EXCEPT !.claimant = actor,
                               !.fresh = IF d \in Recorded(i) THEN @ ELSE @ \union {d}]

ReplayClaim(s, d, i) ==
    LET actor == commands[d].actor
        active == ActiveRestriction(actor, Restrictions(i))
        next == Quiet(s, d) IN
    CASE active # None ->
            [next EXCEPT !.restriction = [active EXCEPT !.notified = TRUE],
                         !.post = ~ active.notified, !.blocked = TRUE]
      [] active = None /\ (~ commands[d].open \/ s.claimant # None) -> next
      [] OTHER -> [next EXCEPT !.claimant = actor,
                               !.fresh = IF d \in Recorded(i) THEN @ ELSE @ \union {d}]

\* Mutant: whoever asks may release a claim.
ReleaseAnyway(s, d, i) ==
    [Quiet(s, d) EXCEPT !.claimant = None, !.authorized = TRUE,
        !.fresh = IF s.claimant = None \/ d \in Recorded(i) THEN @ ELSE @ \union {d}]

\* The claimant or a maintainer releases; anyone else is told why not.
ReplayUnclaim(s, d, i) ==
    LET actor == commands[d].actor IN
    IF actor = s.claimant \/ actor \in Maintainer
    THEN [Quiet(s, d) EXCEPT !.claimant = None, !.authorized = TRUE,
             !.fresh = IF s.claimant = None \/ d \in Recorded(i) THEN @ ELSE @ \union {d}]
    ELSE Quiet(s, d)

Answer(s, d, i) ==
    IF commands[d].verb = "claim" THEN ReplayClaim(s, d, i) ELSE ReplayUnclaim(s, d, i)

\* The commands of ids, in the order they were posted: what holds after each.
Course(start, ids, i) ==
    LET after[d \in 0 .. Len(commands)] ==
            IF d = 0 THEN start
            ELSE IF d \in ids THEN Answer(after[d - 1], d, i) ELSE after[d - 1]
    IN after

Replay(i, c) ==
    LET ids == Receipts(i, c)
        anchor == ReplayAnchor(i, Min(ids))
        start == [claimant |-> anchor.claimant, through |-> anchor.through,
                  authorized |-> anchor.trusted /\ anchor.claimant = None,
                  fresh |-> {}, restriction |-> None, post |-> TRUE, blocked |-> FALSE]
    IN Course(start, {d \in ids : d > anchor.through}, i)[Len(commands)]

-----------------------------------------------------------------------------
(* The plan of a run.                                                        *)

ByActor(ids, a) == {d \in ids : commands[d].actor = a}

\* Changes of ownership by a in the window, with the ones this run adds.
RecentCount(i, fresh, a) ==
    Cardinality({d \in ByActor(Recorded(i), a) : At(i, d) + Window >= clock})
      + Cardinality(ByActor(fresh, a))

\* Whoever changes ownership too often is restricted, unless restricted already.
\* When one run restricts several actors, only the last of them gets a marker.
Sanction(i, s) ==
    LET over == {d \in s.fresh :
                    /\ RecentCount(i, s.fresh, commands[d].actor) >= Threshold
                    /\ ActiveRestriction(commands[d].actor, Restrictions(i)) = None}
        first(d) == \A e \in ByActor(over, commands[d].actor) : d <= e
    IN IF over = {} THEN s.restriction
       ELSE [actor |-> commands[Max({d \in over : first(d)})].actor,
             until |-> clock + Cooldown, notified |-> FALSE]

\* Mutant: the label goes only when this run is the one that releases the claim.
RemoveWhenFresh(i, c) ==
    LET s == Replay(i, c) IN
    [stage |-> "receipt", issue |-> i, command |-> c,
     persist |-> ~ s.blocked, post |-> s.post,
     state |-> [claimant |-> s.claimant, through |-> s.through],
     transitions |-> s.fresh, restriction |-> Sanction(i, s),
     add |-> s.claimant # None /\ ~ claimed[i],
     remove |-> s.claimant = None /\ claimed[i] /\ \E d \in s.fresh : commands[d].verb = "unclaim"]

Plan(i, c) ==
    LET s == Replay(i, c) IN
    [stage |-> "receipt", issue |-> i, command |-> c,
     persist |-> ~ s.blocked, post |-> s.post,
     state |-> [claimant |-> s.claimant, through |-> s.through],
     transitions |-> s.fresh, restriction |-> Sanction(i, s),
     add |-> s.claimant # None /\ ~ claimed[i],
     remove |-> s.claimant = None /\ claimed[i] /\ s.authorized]

-----------------------------------------------------------------------------
(* Contributors and maintainers.                                             *)

\* A command carries the issue's state and eligibility of the moment it is posted.
Comment(c) ==
    /\ Len(commands) < MaxCommands
    /\ commands' = Append(commands, [issue |-> c.issue, actor |-> c.actor, verb |-> c.verb,
                                     open |-> open[c.issue]])
    /\ pending' = pending \union {Len(commands) + 1}
    /\ UNCHANGED <<bot, claimed, open, clock, run, failed, failures, settled>>

Triage(i) ==
    /\ i \in Triaged /\ open[i]
    /\ open' = [open EXCEPT ![i] = FALSE]
    /\ UNCHANGED <<queue, bot, claimed, clock, run, failed, failures, settled>>

\* A unit of the clock is minutes, a run lasts seconds: none spans a tick.
Tick ==
    /\ clock < Horizon
    /\ run = Idle
    /\ clock' = clock + 1
    /\ UNCHANGED <<queue, bot, claimed, open, run, failed, failures, settled>>

-----------------------------------------------------------------------------
(* The workflow: one run at a time in the whole repository, in any order of   *)
(* the commands waiting.                                                      *)

Start(c) ==
    /\ run = Idle
    /\ c \in pending \union failed
    /\ run' = Plan(commands[c].issue, c)
    /\ pending' = pending \ {c}
    /\ failed' = failed \ {c}
    /\ settled' = settled \ {commands[c].issue}
    /\ UNCHANGED <<commands, bot, claimed, open, clock, failures>>

Posted == [issue |-> run.issue, at |-> clock, receipt |-> None, state |-> None,
           transitions |-> {}, restriction |-> None]

PersistReceipt ==
    /\ run.stage = "receipt"
    /\ bot' = IF run.persist THEN Append(bot, [Posted EXCEPT !.receipt = run.command]) ELSE bot
    /\ run' = [run EXCEPT !.stage = "checkpoint"]
    /\ UNCHANGED <<queue, claimed, open, clock, failed, failures, settled>>

Checkpoint ==
    /\ run.stage = "checkpoint"
    /\ bot' = IF run.post
              THEN Append(bot, [Posted EXCEPT !.state = run.state,
                                              !.transitions = run.transitions,
                                              !.restriction = run.restriction])
              ELSE bot
    /\ run' = [run EXCEPT !.stage = "label"]
    /\ UNCHANGED <<queue, claimed, open, clock, failed, failures, settled>>

ApplyLabel ==
    /\ run.stage = "label"
    /\ claimed' = [claimed EXCEPT ![run.issue] = (@ \/ run.add) /\ ~ run.remove]
    /\ settled' = settled \union {run.issue}
    /\ run' = Idle
    /\ UNCHANGED <<queue, bot, open, clock, failed, failures>>

\* A step of the job fails: what it wrote before stays, and a maintainer may
\* run the job again, later and with what it reads then.
Stop ==
    /\ run # Idle
    /\ failures < MaxFailures
    /\ failures' = failures + 1
    /\ failed' = failed \union {run.command}
    /\ run' = Idle
    /\ UNCHANGED <<queue, bot, claimed, open, clock, settled>>

Init ==
    /\ commands = <<>> /\ pending = {} /\ bot = <<>>
    /\ claimed = [i \in Issue |-> i \in Labelled]
    /\ open = [i \in Issue |-> TRUE]
    /\ clock = 0 /\ run = Idle /\ failed = {} /\ failures = 0
    /\ settled = {}

Next ==
    \/ \E c \in Commands : Comment(c)
    \/ \E i \in Issue : Triage(i)
    \/ Tick
    \/ \E c \in pending \union failed : Start(c)
    \/ PersistReceipt \/ Checkpoint \/ ApplyLabel \/ Stop

Spec == Init /\ [][Next]_vars

-----------------------------------------------------------------------------
(* Properties.                                                               *)

CommandIds == 1 .. Len(commands)
UserComment == [issue : Issue, actor : Actor, verb : {"claim", "unclaim"}, open : BOOLEAN]
BotComment == [issue : Issue, at : 0 .. Horizon, receipt : CommandIds \union {None},
               state : State \union {None}, transitions : SUBSET CommandIds,
               restriction : Restriction \union {None}]
Plans == [stage : {"receipt", "checkpoint", "label"}, issue : Issue, command : CommandIds,
          persist : BOOLEAN, post : BOOLEAN, state : State, transitions : SUBSET CommandIds,
          restriction : Restriction \union {None}, add : BOOLEAN, remove : BOOLEAN]

\* The variables have the types their readers expect.
TypeOK ==
    /\ commands \in Seq(UserComment)
    /\ Len(commands) <= MaxCommands
    /\ pending \subseteq CommandIds /\ failed \subseteq CommandIds
    /\ bot \in Seq(BotComment)
    /\ claimed \in [Issue -> BOOLEAN] /\ settled \subseteq Issue
    /\ open \in [Issue -> BOOLEAN]
    /\ clock \in 0 .. Horizon /\ failures \in 0 .. MaxFailures
    /\ run \in {Idle} \union Plans

Posts(i) == {k \in Comments(i) : bot[k].state # None}
LastPost(i) == Max(Posts(i))
Holder(i) == IF Posts(i) = {} THEN None ELSE bot[LastPost(i)].state.claimant
Contested(i) == \E k \in DOMAIN bot :
    /\ bot[k].restriction # None
    /\ \E d \in CommandIds : commands[d].issue = i /\ commands[d].actor = bot[k].restriction.actor

MayRelease(d, holder) ==
    /\ commands[d].verb = "unclaim"
    /\ commands[d].actor \in Maintainer \union {holder}

\* The claimant on record of an issue loses it only to an /unclaim of their own
\* or of a maintainer that came after, whatever runs failed or were repeated, or
\* when an earlier comment is answered late (comments count in their own order).
\* It is not promised once a commenter of the issue has been restricted.
KeptUntilReleased ==
    [][\A i \in Issue :
        (/\ Holder(i) # None /\ Holder(i)' # Holder(i) /\ ~ Contested(i)) =>
            \E k \in Comments(i)' : /\ k > LastPost(i) \/ bot'[k].receipt # None
                                    /\ bot'[k].receipt \in CommandIds
                                    /\ \/ MayRelease(bot'[k].receipt, Holder(i)) /\ bot'[k].receipt > bot[LastPost(i)].state.through
                                       \/ k > LastPost(i) /\ bot'[k].receipt < bot[LastPost(i)].state.through]_vars

\* An actor whose cooldown runs changes no ownership by a /claim, on any issue.
CooldownBlocks ==
    [][\A k \in DOMAIN bot' \ DOMAIN bot : \A d \in bot'[k].transitions :
        commands[d].verb = "claim" =>
            ~ \E m \in DOMAIN bot : /\ bot[m].restriction # None
                                    /\ bot[m].restriction.actor = commands[d].actor
                                    /\ bot[m].restriction.until > clock]_vars

\* A cooldown is never extended: a later marker of the same actor repeats the
\* end of the first, or is posted after it.
CooldownNotExtended ==
    \A k, m \in {j \in DOMAIN bot : bot[j].restriction # None} :
        (/\ k < m
         /\ bot[k].restriction.actor = bot[m].restriction.actor
         /\ bot[k].restriction.until # bot[m].restriction.until)
            => bot[m].at >= bot[k].restriction.until

\* When the last run on an issue went through, the label says what the last
\* checkpoint says, even if earlier runs stopped between the two: a claimed
\* issue has it, and only a label that was there before any claim outlives one.
LabelFollowsState ==
    \A i \in settled : ~ Contested(i) =>
        /\ Holder(i) # None => claimed[i]
        /\ claimed[i] => Holder(i) # None \/ i \in Labelled

=============================================================================
