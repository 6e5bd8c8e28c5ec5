-------------------------- MODULE ReleasePipeline --------------------------
(* How a version is released. A workflow run plans a version, commits and tags *)
(* it, publishes the built tree to the distribution repository, and makes the  *)
(* GitHub Release official last. Any step may fail; a run started by hand      *)
(* finishes what the last one left. main moves while a run is under way.       *)
(* Code: finalization.py, distribution.py and commands/ of release_lib, wired  *)
(* by release-publish.yml, which runs one at a time and keeps one waiting.     *)
EXTENDS ReleasePolicy, SequencesExt, FiniteSetsExt

CONSTANTS
    Baseline, BaselineBuild,    \* the version that is released at first, and its build
    Archives,       \* archives of a version, by the package manifest at its tag
    Attached,       \* archives the finalize job names
    Trees, Zips,    \* what a build of one commit may come out as: its files, its archives
    Builds,         \* [tree, zip], the outcomes that occur
    Untitled,       \* pull requests whose description lacks its intent at first
    Edits,          \* [pr, from, to], the changes that descriptions may see
    MaxFailures     \* bound: steps that fail for a reason outside the model

ASSUME PipelineAssumption ==
    /\ Attached \subseteq Archives
    /\ Builds \subseteq [tree : Trees, zip : Zips]
    /\ Untitled \subseteq Pr /\ Edits \subseteq [pr : Pr, from : Intent, to : Intent]
    /\ Baseline \in Version /\ BaselineBuild \in Builds
    /\ \A p \in Pr : Pull[p].intent \in Intent
    /\ None \notin Version
    /\ None \notin [version : Version, stage : {"committed", "tagged", "distributed"}]
    /\ None \notin [stage : {"tag", "finalize"}, version : Version, sha : Nat]
    /\ MaxFailures \in Nat

VARIABLES
    main,       \* commits of main: a pull request, or a release with its notes;
                \* planned, preview are history: main and the notes as plan saw them
    tags,       \* source tags: a version's commit, its position in main
    dist,       \* commits of the distribution's main: [version, source, tree]
    distTags,   \* distribution tags: a version's commit, its position in dist
    releases,   \* GitHub Releases by version: [draft, assets], assets by name
    body,       \* per pull request the intent its description declares
    waiting,    \* the event whose run waits for the one in progress
    run,        \* the run in progress
    failures,
    refused     \* history: some build was refused for differing from what is published

vars == <<main, tags, dist, distTags, releases, body, waiting, run, failures, refused>>
remote == <<dist, distTags>>
source == <<main, tags>>

Idle == [at |-> "idle"]
\* A function with one more entry; an entry that is there stays.
Adding(f, x, e) == [y \in DOMAIN f \union {x} |-> IF y \in DOMAIN f THEN f[y] ELSE e]

Commits == 1 .. Len(main)
ChangeCommit(p) == [pr |-> p, version |-> None, notes |-> {}, planned |-> 0, preview |-> {}]

-----------------------------------------------------------------------------
(* What the repositories say of a version.                                     *)

latest_release_tag == CHOOSE v \in DOMAIN tags : \A w \in DOMAIN tags : ~ Newer(w, v)

\* The pull requests of main from a commit on.
Since(sha) == {main[k].pr : k \in {j \in Commits : j > sha /\ main[j].pr # None}}
UpTo(sha) == {main[k].pr : k \in {j \in Commits : j <= sha /\ main[j].pr # None}}

\* A release commit newer than the baseline that never got its tag.
Untagged(v) == {k \in Commits : /\ k > tags[v]
                                /\ main[k].version # None /\ Newer(main[k].version, v)}

IsTagged(v) == v \in DOMAIN distTags

IsOfficial(v) ==
    /\ v \in DOMAIN releases /\ ~ releases[v].draft
    /\ Archives \subseteq DOMAIN releases[v].assets

\* Mutant: only a release commit without a tag counts as unfinished.
UntaggedRelease ==
    LET v == latest_release_tag IN
    IF Untagged(v) = {} THEN None
    ELSE [stage |-> "tag", version |-> main[Min(Untagged(v))].version, sha |-> Min(Untagged(v))]

unfinished_release ==
    LET v == latest_release_tag IN
    IF Untagged(v) # {}
    THEN [stage |-> "tag", version |-> main[Min(Untagged(v))].version, sha |-> Min(Untagged(v))]
    ELSE IF IsTagged(v) /\ IsOfficial(v) THEN None
    ELSE [stage |-> "finalize", version |-> v, sha |-> tags[v]]

\* `## Unreleased` on main: hand-written since the last release commit.
OnDisk == Curated({main[k].pr : k \in {j \in Commits :
              main[j].pr # None /\ \A r \in Commits : main[r].version # None => r < j}})
generate_changelog(v) == compose_unreleased(OnDisk, Entries(Since(tags[v]), UpTo(tags[v]), body))
GenerationFails(v) ==
    \/ Problems(Since(tags[v]), UpTo(tags[v]), body) # {}
    \/ Ambiguous(OnDisk)

\* CHANGELOG.md has a section of the version: its release commit is on main.
HasSection(version) == \E c \in ToSet(main) : c.version = version

\* The tag is the release commit, and main still has it.
SourceHolds(v, sha) == v \in DOMAIN tags /\ tags[v] = sha /\ sha \in Commits

-----------------------------------------------------------------------------
(* Around the workflow.                                                        *)

Merge(p) ==
    /\ Pull[p].base = "main" /\ p \notin UpTo(Len(main))
    /\ main' = Append(main, ChangeCommit(p))
    /\ waiting' = "push"
    /\ UNCHANGED <<tags, remote, releases, body, run, failures, refused>>

Dispatch ==
    /\ waiting = None
    /\ waiting' = "workflow_dispatch"
    /\ UNCHANGED <<source, remote, releases, body, run, failures, refused>>

\* A description is edited, before the merge or at any time after it: one that was
\* unusable is put right, one that was right declares another category.
EditBody(p) ==
    /\ \E edit \in Edits : /\ edit.pr = p /\ edit.from = body[p]
                         /\ body' = [body EXCEPT ![p] = edit.to]
    /\ UNCHANGED <<source, remote, releases, waiting, run, failures, refused>>

\* A step of the job in progress fails: a push is rejected, the API is down.
Fail ==
    /\ run # Idle /\ failures < MaxFailures
    /\ failures' = failures + 1
    /\ run' = Idle
    /\ UNCHANGED <<source, remote, releases, body, waiting, refused>>

-----------------------------------------------------------------------------
(* plan.                                                                       *)

Start ==
    /\ run = Idle /\ waiting # None
    /\ run' = [at |-> "plan", event |-> waiting]
    /\ waiting' = None
    /\ UNCHANGED <<source, remote, releases, body, failures, refused>>

Quiet == UNCHANGED <<source, remote, releases, body, waiting, failures, refused>>

\* Nothing to release: a run started by hand publishes the latest tag again.
NoRelease == IF run.event = "workflow_dispatch"
             THEN [at |-> "resolve", version |-> None] ELSE Idle

Plan ==
    LET v == latest_release_tag
        unfinished == unfinished_release
        unreleased == generate_changelog(v)
        impact == IF migration_forced_impact(v) # None THEN migration_forced_impact(v)
                  ELSE classify_semver_impact(unreleased)
        version == derive_next_version(v, impact)
    IN
    /\ run.at = "plan"
    /\ run' = CASE unfinished # None /\ run.event = "workflow_dispatch" ->
                    [at |-> IF unfinished.stage = "tag" THEN "recover" ELSE "resolve",
                     version |-> unfinished.version, sha |-> unfinished.sha]
                [] unfinished # None /\ run.event # "workflow_dispatch" -> Idle
                [] unfinished = None /\ (\A p \in Since(tags[v]) : ~ ReleaseWorthy(Pull[p].paths)) -> NoRelease
                [] OTHER ->
                    IF GenerationFails(v) THEN Idle
                    ELSE IF unreleased = {} THEN NoRelease
                    ELSE IF HasSection(version) THEN NoRelease
                    ELSE [at |-> "prepare", version |-> version, baseline |-> v,
                          planned |-> Len(main), preview |-> unreleased]
    /\ Quiet

-----------------------------------------------------------------------------
(* publish.                                                                    *)

PreflightFails ==
    \/ run.version \in DOMAIN tags
    \/ \A p \in Since(tags[run.baseline]) : ~ ReleaseWorthy(Pull[p].paths)
    \/ generate_changelog(run.baseline) = {}

\* `## Unreleased` becomes the section of the version.
ReleaseCommit(notes) ==
    [pr |-> None, version |-> run.version, notes |-> notes,
     planned |-> run.planned, preview |-> run.preview]

\* Mutant: the notes are those of the plan.
PrepareAsPlanned ==
    /\ run.at = "prepare"
    /\ \E build \in Builds :
        run' = [at |-> "push", version |-> run.version, build |-> build, base |-> Len(main),
                commit |-> ReleaseCommit(compose_unreleased(OnDisk,
                               Entries(Since(tags[run.baseline]) \ Since(run.planned),
                                       UpTo(tags[run.baseline]), body)))]
    /\ Quiet

\* The notes are those of main and of the descriptions as this job finds them, not
\* as plan did; the version is the one of the plan.
Prepare ==
    /\ run.at = "prepare"
    /\ \E build \in Builds :
        run' = IF GenerationFails(run.baseline) \/ PreflightFails THEN Idle
               ELSE [at |-> "push", version |-> run.version, build |-> build, base |-> Len(main),
                     commit |-> ReleaseCommit(generate_changelog(run.baseline))]
    /\ Quiet

\* Never forced: main that has moved rejects it.
PushMain ==
    /\ run.at = "push"
    /\ IF Len(main) # run.base
       THEN run' = Idle /\ main' = main
       ELSE /\ main' = Append(main, run.commit)
            /\ run' = [at |-> "tag", version |-> run.version, build |-> run.build, sha |-> Len(main) + 1]
    /\ UNCHANGED <<tags, remote, releases, body, waiting, failures, refused>>

PushTag ==
    /\ run.at = "tag"
    /\ IF Len(main) # run.sha \/ run.version \in DOMAIN tags
       THEN run' = Idle /\ tags' = tags
       ELSE /\ tags' = Adding(tags, run.version, run.sha)
            /\ run' = [run EXCEPT !.at = "handover"]
    /\ UNCHANGED <<main, remote, releases, body, waiting, failures, refused>>

\* release-verify: the tag is there, and main is exactly the release commit.
HandOver ==
    /\ run.at = "handover"
    /\ run' = IF SourceHolds(run.version, run.sha) /\ Len(main) = run.sha
              THEN [run EXCEPT !.at = "distribute"] ELSE Idle
    /\ Quiet

-----------------------------------------------------------------------------
(* recover-tag: tags the release commit the plan named, and never moves a tag. *)

\* Mutant: a tag that is missing is not created.
ConfirmTag ==
    /\ run.at = "recover"
    /\ run' = IF SourceHolds(run.version, run.sha) THEN [run EXCEPT !.at = "resolve"] ELSE Idle
    /\ UNCHANGED <<source, remote, releases, body, waiting, failures, refused>>

RecoverTag ==
    /\ run.at = "recover"
    /\ LET v == run.version
           holds == IF v \in DOMAIN tags THEN SourceHolds(v, run.sha)
                    ELSE run.sha \in Commits /\ main[run.sha].version = v
       IN /\ tags' = IF holds /\ v \notin DOMAIN tags THEN Adding(tags, v, run.sha) ELSE tags
          /\ run' = IF holds THEN [run EXCEPT !.at = "resolve"] ELSE Idle
    /\ UNCHANGED <<main, remote, releases, body, waiting, failures, refused>>

-----------------------------------------------------------------------------
(* distribute.                                                                 *)

\* A recovery takes the latest tag, which must be the version plan reported, and
\* builds it again.
Resolve ==
    LET v == latest_release_tag IN
    /\ run.at = "resolve"
    /\ \E build \in Builds :
        run' = IF run.version \notin {None, v} THEN Idle
               ELSE [at |-> "distribute", version |-> v, sha |-> tags[v], build |-> build]
    /\ Quiet

\* The files of the build, with the version and commit that DISTRIBUTION.json names.
DistCommit == [version |-> run.version, source |-> run.sha, tree |-> run.build.tree]

\* The hashes of its files and its trailers are those of this build.
Carries(commit) == commit = DistCommit

\* Idempotent and never forced: an existing tag is compared, a commit that an
\* earlier run left is tagged, and older content never goes on top of newer.
PushDistribution ==
    LET tagged == IsTagged(run.version)
        published == IF tagged THEN dist[distTags[run.version]] ELSE Last(dist)
        step == CASE ~ SourceHolds(run.version, run.sha) -> "stop"
                  [] SourceHolds(run.version, run.sha) /\ Carries(published) ->
                        IF tagged THEN "check" ELSE "dist-tag"
                  [] OTHER -> IF tagged \/ Newer(published.version, run.version)
                              THEN "refuse" ELSE "push"
    IN
    /\ run.at = "distribute"
    /\ dist' = IF step = "push" THEN Append(dist, DistCommit) ELSE dist
    /\ run' = CASE step \in {"stop", "refuse"} -> Idle
                [] step \in {"push", "dist-tag"} -> [run EXCEPT !.at = "dist-tag"]
                [] OTHER -> [run EXCEPT !.at = "check"]
    /\ refused' = (refused \/ step = "refuse")
    /\ UNCHANGED <<source, distTags, releases, body, waiting, failures>>

PushDistributionTag ==
    /\ run.at = "dist-tag"
    /\ distTags' = Adding(distTags, run.version, Len(dist))
    /\ run' = [run EXCEPT !.at = "check"]
    /\ UNCHANGED <<source, dist, releases, body, waiting, failures, refused>>

\* distribution-verify, from a fresh clone.
VerifyDistribution ==
    /\ run.at = "check"
    /\ run' = IF IsTagged(run.version) /\ Carries(dist[distTags[run.version]])
              THEN [run EXCEPT !.at = "finalize"] ELSE Idle
    /\ Quiet

-----------------------------------------------------------------------------
(* finalize. Creating a Release is a draft, its uploads, then publication.     *)

Asset(uploaded) == [source |-> run.sha, build |-> run.build, uploaded |-> uploaded]
Missing == Attached \ DOMAIN releases[run.version].assets

\* Mutant: the digests of the assets a Release has already are not compared.
NameMismatched(r) == ~ DOMAIN r.assets \subseteq Attached

\* An asset that is not of this build, or only half uploaded: the Release is left as it is.
Mismatched(r) == ~ DOMAIN r.assets \subseteq Attached \/ \E a \in DOMAIN r.assets : r.assets[a] # Asset(TRUE)

Finalize ==
    /\ run.at = "finalize"
    /\ CASE ~ SourceHolds(run.version, run.sha) ->
                run' = Idle /\ UNCHANGED <<releases, refused>>
         [] SourceHolds(run.version, run.sha) /\ run.version \notin DOMAIN releases ->
                /\ releases' = Adding(releases, run.version, [draft |-> TRUE, assets |-> <<>>])
                /\ run' = [run EXCEPT !.at = "upload"] /\ refused' = refused
         [] OTHER ->
                /\ run' = IF Mismatched(releases[run.version]) THEN Idle ELSE [run EXCEPT !.at = "upload"]
                /\ refused' = (refused \/ run' = Idle) /\ releases' = releases
    /\ UNCHANGED <<source, remote, body, waiting, failures>>

Upload(a) ==
    /\ run.at = "upload" /\ a \in Missing
    /\ releases' = [releases EXCEPT ![run.version].assets = Adding(@, a, Asset(TRUE))]
    /\ UNCHANGED <<source, remote, body, waiting, run, failures, refused>>

\* An upload that breaks off leaves an asset in a state that is not "uploaded".
UploadBreaks(a) ==
    /\ run.at = "upload" /\ a \in Missing /\ failures < MaxFailures
    /\ releases' = [releases EXCEPT ![run.version].assets = Adding(@, a, Asset(FALSE))]
    /\ run' = Idle /\ failures' = failures + 1
    /\ UNCHANGED <<source, remote, body, waiting, refused>>

Undraft ==
    /\ run.at = "upload" /\ Missing = {}
    /\ releases' = [releases EXCEPT ![run.version] = [draft |-> FALSE, assets |-> @.assets]]
    /\ run' = [run EXCEPT !.at = "verify"]
    /\ UNCHANGED <<source, remote, body, waiting, failures, refused>>

\* The last check decides the colour of the run, and nothing else.
VerifyRelease ==
    /\ run.at = "verify"
    /\ run' = Idle
    /\ Quiet

-----------------------------------------------------------------------------
Init ==
    /\ main = <<[pr |-> None, version |-> Baseline, notes |-> {}, planned |-> 0, preview |-> {}]>>
    /\ tags = [v \in {Baseline} |-> 1]
    /\ dist = <<[version |-> Baseline, source |-> 1, tree |-> BaselineBuild.tree]>>
    /\ releases = [v \in {Baseline} |-> [draft |-> FALSE, assets |-> [a \in Archives |->
                      [source |-> 1, build |-> BaselineBuild, uploaded |-> TRUE]]]]
    /\ distTags = [v \in {Baseline} |-> 1]
    /\ body = [p \in Pr |-> IF p \in Untitled THEN "unusable" ELSE Pull[p].intent]
    /\ waiting = None /\ run = Idle /\ failures = 0 /\ refused = FALSE

Job == Start \/ Plan \/ Prepare \/ PushMain \/ PushTag \/ HandOver \/ RecoverTag
        \/ Resolve \/ PushDistribution \/ PushDistributionTag \/ VerifyDistribution
        \/ Finalize \/ (\E a \in Attached : Upload(a)) \/ Undraft \/ VerifyRelease

Next ==
    \/ \E p \in Pr : Merge(p) \/ EditBody(p)
    \/ Dispatch \/ Job \/ Fail \/ (\E a \in Attached : UploadBreaks(a))

Spec == Init /\ [][Next]_vars

\* Runs make progress, and a maintainer starts one by hand whenever none waits.
\* Nobody has to merge or to edit anything.
FairSpec == Spec /\ WF_vars(Job) /\ WF_vars(Dispatch)

-----------------------------------------------------------------------------
(* Properties.                                                               *)

ReleaseCommits == {k \in Commits : main[k].version # None}
Stage == {"idle", "plan", "prepare", "push", "tag", "handover", "recover", "resolve", "distribute",
          "dist-tag", "check", "finalize", "upload", "verify"}

\* The variables are of their types: every tag of either repository names a
\* commit of its own version, and every asset an archive of a build.
TypeOK ==
    /\ \A k \in Commits : main[k].pr \in Pr \/ (main[k].pr = None /\ main[k].version # None)
    /\ \A v \in DOMAIN tags : tags[v] \in Commits /\ main[tags[v]].version = v
    /\ \A c \in ToSet(dist) : c.source \in Commits /\ c.tree \in Trees
    /\ \A v \in DOMAIN distTags : distTags[v] \in DOMAIN dist /\ dist[distTags[v]].version = v
    /\ \A v \in DOMAIN releases : /\ releases[v].draft \in BOOLEAN
                                  /\ DOMAIN releases[v].assets \subseteq Archives
                                  /\ \A a \in DOMAIN releases[v].assets :
                                        releases[v].assets[a].build \in Builds
    /\ body \in [Pr -> Intent] /\ waiting \in {None, "push", "workflow_dispatch"}
    /\ run.at \in Stage /\ failures \in 0 .. MaxFailures /\ refused \in BOOLEAN

\* An official Release is of a version the distribution repository has, built
\* from the commit of its source tag; its archives are the archives of one build
\* of that commit, the one whose files are distributed, whatever runs were
\* interrupted and whatever their rebuilds came out as.
OfficialIsDistributed ==
    \A v \in DOMAIN releases :
        LET r == releases[v] IN
        ~ r.draft =>
            /\ v \in DOMAIN distTags /\ v \in DOMAIN tags
            /\ dist[distTags[v]].source = tags[v]
            /\ DOMAIN r.assets = Attached \union (IF v = Baseline THEN Archives ELSE {})
            /\ \A a, b \in DOMAIN r.assets : r.assets[a] = r.assets[b]
            /\ \A a \in DOMAIN r.assets : /\ r.assets[a].source = tags[v] /\ r.assets[a].uploaded
                                         /\ r.assets[a].build.tree = dist[distTags[v]].tree

\* What a commit of main brings that has to be in the notes of some version.
Brought(k) == {c \in {main[k].pr} \union {d \in Pull[main[k].pr].children :
                                            Pull[d].base = IntegrationBranch /\ ~ Pull[d].sync} :
                  ReleaseWorthy(Pull[c].paths)}
Following(k) == {r \in ReleaseCommits : r > k /\ \A q \in ReleaseCommits : q > k => r <= q}

\* A release-worthy pull request is in the notes of the first version whose commit
\* comes after it, and of no other: not lost when it is merged between the plan
\* and the release commit, not repeated when a release is recovered.
ShippedOnce ==
    \A k \in Commits \ ReleaseCommits : \A p \in Brought(k) :
        {r \in ReleaseCommits : \E e \in main[r].notes : e.pr = p} = Following(k)

Bump(v, w) == IF w[1] > v[1] THEN "major" ELSE IF w[2] > v[2] THEN "minor" ELSE "patch"

\* A version is bumped at least as far as asks any entry of the notes that its plan
\* showed, and the plan showed one of everything that was merged by then and that the
\* version is the first to follow. (What is merged or declared anew between the plan
\* and the release commit is in its notes but does not count.)
VersionCoversPlan ==
    \A r \in ReleaseCommits \ {1} :
        LET last == main[Max({q \in ReleaseCommits : q < r})].version IN
        /\ \A e \in main[r].preview :
              ImpactRank[SubsectionImpact[e.category]] <= ImpactRank[Bump(last, main[r].version)]
        /\ \A k \in {j \in Commits \ ReleaseCommits : j <= main[r].planned /\ Following(j) = {r}} :
              \A p \in Brought(k) : \E e \in main[r].preview : e.pr = p

\* The last two rest on what pull requests say beyond this flow.
\* The changes that a pull request of main may be the one to write about.
Branch(p) == {c \in Pull[p].children : Pull[c].base = IntegrationBranch}
Owned(p) == {p} \union Branch(p)

\* A hand-written bullet is about the pull request it came with, or about what that
\* one brings along; no two bring the same change along; and a squashed commit that
\* is worth a release names its pull request and makes the cutover worth one.
OwnNotes ==
    /\ \A p \in Pr : \A b \in Pull[p].bullets : b.pr \in Pr => b.pr \in Owned(p)
    /\ \A p, q \in Pr : \A c \in Branch(p) \cap Branch(q) : p = q \/ Pull[c].sync
    /\ \A p \in Pr : \A c \in Branch(p) :
          ~ Pull[c].sync /\ ReleaseWorthy(Pull[c].paths) =>
              Pull[c].named /\ ReleaseWorthy(Pull[p].paths)

\* The release that was forced to be a patch is behind.
AfterPolicy == PrePolicy \in Version /\ Newer(Baseline, PrePolicy)

\* The versions that are out, the others, and how far one has come.
Out == {v \in DOMAIN releases : IsOfficial(v)}
Pending == {main[k].version : k \in ReleaseCommits} \ Out
Reached(v) == IF v \in DOMAIN distTags THEN "distributed"
              ELSE IF v \in DOMAIN tags THEN "tagged" ELSE "committed"
UnderWay == IF Pending = {} THEN None
            ELSE LET v == CHOOSE w \in Pending : TRUE IN [version |-> v, stage |-> Reached(v)]

OneAtATime == INSTANCE ReleaseContract WITH
    Released <- {Baseline}, official <- Out, current <- UnderWay

\* The flow implements its contract: one version at a time goes through the
\* stages in their order, and a version that stopped is never overtaken.
KeepsContract == OneAtATime!Spec

\* A version whose commit is on main gets its official Release, unless a rebuild
\* was refused because it differs from what is published already.
EventuallyOfficial == (Pending # {}) ~> (Pending = {} \/ refused)

\* What docs/RELEASE.md says of recovery: every failure is finished for the same
\* version by a run started by hand.
RecoveryFinishes == EventuallyOfficial

=============================================================================
