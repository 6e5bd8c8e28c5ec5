----------------------- MODULE ReleasePipeline_proofs -----------------------
(* Proofs about ReleasePipeline, for every set of pull requests, archives and  *)
(* builds, and for every number of failures.                                   *)
EXTENDS ReleasePipeline, WellFoundedInduction, TLAPS

-----------------------------------------------------------------------------
(* The invariant.                                                              *)

Published == {"dist-tag", "check", "finalize", "upload", "verify"}
Building == {"tag", "handover", "distribute"} \union Published

\* Records and functions have their fields and domains, whatever is in them.
Shaped ==
    /\ run.at \in Building =>
           run = [at |-> run.at, version |-> run.version, sha |-> run.sha, build |-> run.build]
    /\ run.at = "recover" => run = [at |-> "recover", version |-> run.version, sha |-> run.sha]
    /\ releases = [v \in DOMAIN releases |-> [draft |-> releases[v].draft,
                                              assets |-> releases[v].assets]]

\* The distribution has commits, and its tags are on them.
Distribution ==
    /\ \E S : dist \in Seq(S)
    /\ Len(dist) >= 1
    /\ \A v \in DOMAIN distTags : distTags[v] \in 1 .. Len(dist)

\* What a job knows of the version it works on: the tag is the commit it builds,
\* the commit it pushed is the last, the distribution has its files, and the
\* Release it uploads to has nothing but its archives.
RunHolds ==
    /\ run.at \in Published => run.version \in DOMAIN tags /\ tags[run.version] = run.sha
    /\ run.at = "dist-tag" => run.version \notin DOMAIN distTags /\ dist[Len(dist)] = DistCommit
    /\ run.at \in {"finalize", "upload"} =>
           run.version \in DOMAIN distTags /\ dist[distTags[run.version]] = DistCommit
    /\ run.at = "upload" => /\ run.version \in DOMAIN releases
                            /\ DOMAIN releases[run.version].assets \subseteq Attached
                            /\ \A a \in DOMAIN releases[run.version].assets :
                                  releases[run.version].assets[a] = Asset(TRUE)

\* The version released at first stays so.
BaselineIsOut == Baseline \in DOMAIN releases /\ ~ releases[Baseline].draft

Inv == Shaped /\ Distribution /\ RunHolds /\ BaselineIsOut /\ OfficialIsDistributed

-----------------------------------------------------------------------------
(* Steps that leave the distribution and the Releases alone.                   *)

\* Tags are only added.
TagsKept == \A v \in DOMAIN tags : v \in DOMAIN tags' /\ tags'[v] = tags[v]

LEMMA Frame ==
    ASSUME Inv, UNCHANGED <<dist, distTags, releases>>, TagsKept, Shaped', RunHolds'
    PROVE  Inv'
<1>1. Distribution' /\ BaselineIsOut'
  BY DEF Inv, Distribution, BaselineIsOut
<1>2. OfficialIsDistributed'
  BY DEF Inv, OfficialIsDistributed, TagsKept
<1> QED
  BY <1>1, <1>2 DEF Inv

\* A job that is not past the distribution, or that goes back to nothing.
LEMMA Fresh ==
    ASSUME Inv, UNCHANGED <<dist, distTags, releases>>, TagsKept, run'.at \notin Published,
           run'.at \in Building =>
               run' = [at |-> run'.at, version |-> run'.version, sha |-> run'.sha, build |-> run'.build],
           run'.at = "recover" => run' = [at |-> "recover", version |-> run'.version, sha |-> run'.sha]
    PROVE  Inv'
<1>1. Shaped'
  BY DEF Inv, Shaped
<1>2. RunHolds'
  BY DEF RunHolds, Published
<1> QED
  BY <1>1, <1>2, Frame

\* A step around the workflow.
LEMMA SameRun ==
    ASSUME Inv, UNCHANGED <<run, tags, remote, releases>>
    PROVE  Inv'
<1> USE DEF remote
<1>1. Shaped' /\ RunHolds' /\ TagsKept
  BY DEF Inv, Shaped, RunHolds, TagsKept, DistCommit, Asset
<1> QED
  BY <1>1, Frame

LEMMA AroundInv ==
    ASSUME Inv, Dispatch \/ Fail \/ Start \/ VerifyRelease \/ \E p \in Pr : Merge(p) \/ EditBody(p)
    PROVE  Inv'
<1>1. CASE Dispatch \/ \E p \in Pr : Merge(p) \/ EditBody(p)
  BY <1>1, SameRun DEF Dispatch, Merge, EditBody, source
<1>2. CASE Fail \/ Start \/ VerifyRelease
  <2>1. run'.at \in {"idle", "plan"} /\ UNCHANGED <<tags, dist, distTags, releases>>
    BY <1>2 DEF Fail, Start, VerifyRelease, Quiet, source, remote, Idle
  <2> QED
    BY <2>1, Fresh DEF TagsKept, Published, Building
<1> QED
  BY <1>1, <1>2

\* plan, and publish up to the tag.
LEMMA PublishInv ==
    ASSUME Inv, Plan \/ Prepare \/ PushMain \/ PushTag \/ HandOver
    PROVE  Inv'
<1> USE DEF Idle, Published, Building, source, remote
<1>1. CASE Plan
  <2>1. UNCHANGED <<tags, dist, distTags, releases>>
    BY <1>1 DEF Plan, Quiet
  <2>2. /\ run'.at \in {"idle", "recover", "resolve", "prepare"}
        /\ run'.at = "recover" => run' = [at |-> "recover", version |-> run'.version, sha |-> run'.sha]
    BY <1>1 DEF Plan, NoRelease
  <2> QED
    BY <2>1, <2>2, Fresh DEF TagsKept
<1>2. CASE Prepare
  <2>1. run'.at \in {"idle", "push"} /\ UNCHANGED <<tags, dist, distTags, releases>>
    BY <1>2 DEF Prepare, Quiet
  <2> QED
    BY <2>1, Fresh DEF TagsKept
<1>3. CASE PushMain
  <2>1. /\ UNCHANGED <<tags, dist, distTags, releases>>
        /\ \/ run' = Idle
           \/ run' = [at |-> "tag", version |-> run.version, build |-> run.build, sha |-> Len(main) + 1]
    BY <1>3 DEF PushMain
  <2> QED
    BY <2>1, Fresh DEF TagsKept
<1>4. CASE PushTag
  <2>1. /\ UNCHANGED <<dist, distTags, releases>>
        /\ run = [at |-> "tag", version |-> run.version, sha |-> run.sha, build |-> run.build]
    BY <1>4 DEF PushTag, Inv, Shaped
  <2>2. run' = Idle \/ run' = [run EXCEPT !.at = "handover"]
    BY <1>4 DEF PushTag
  <2>3. TagsKept
    BY <1>4 DEF PushTag, TagsKept, Adding
  <2> QED
    BY <2>1, <2>2, <2>3, Fresh
<1>5. CASE HandOver
  <2>1. /\ UNCHANGED <<tags, dist, distTags, releases>>
        /\ run = [at |-> "handover", version |-> run.version, sha |-> run.sha, build |-> run.build]
        /\ run' = Idle \/ run' = [run EXCEPT !.at = "distribute"]
    BY <1>5 DEF HandOver, Quiet, Inv, Shaped
  <2> QED
    BY <2>1, Fresh DEF TagsKept
<1> QED
  BY <1>1, <1>2, <1>3, <1>4, <1>5

\* recover-tag, and a recovery that builds again.
LEMMA RecoverInv ==
    ASSUME Inv, RecoverTag \/ Resolve
    PROVE  Inv'
<1> USE DEF Idle, Published, Building, source, remote
<1>1. CASE RecoverTag
  <2>1. /\ UNCHANGED <<dist, distTags, releases>>
        /\ run = [at |-> "recover", version |-> run.version, sha |-> run.sha]
        /\ run' = Idle \/ run' = [run EXCEPT !.at = "resolve"]
    BY <1>1 DEF RecoverTag, Inv, Shaped
  <2>2. TagsKept
    BY <1>1 DEF RecoverTag, TagsKept, Adding
  <2> QED
    BY <2>1, <2>2, Fresh
<1>2. CASE Resolve
  <2>1. UNCHANGED <<tags, dist, distTags, releases>>
    BY <1>2 DEF Resolve, Quiet
  <2>2. /\ run'.at \in {"idle", "distribute"}
        /\ run'.at = "distribute" =>
               run' = [at |-> run'.at, version |-> run'.version, sha |-> run'.sha, build |-> run'.build]
    BY <1>2 DEF Resolve
  <2> QED
    BY <2>1, <2>2, Fresh DEF TagsKept
<1> QED
  BY <1>1, <1>2

-----------------------------------------------------------------------------
(* distribute.                                                                 *)

\* The distribution's main grows at its end.
LEMMA DistributionGrows ==
    ASSUME Distribution, NEW c, dist' = Append(dist, c), distTags' = distTags
    PROVE  /\ Distribution'
           /\ Len(dist') = Len(dist) + 1 /\ dist'[Len(dist')] = c
           /\ \A k \in 1 .. Len(dist) : dist'[k] = dist[k]
<1>1. PICK S : dist \in Seq(S)
  BY DEF Distribution
<1>2. dist \in Seq(S \union {c}) /\ Len(dist) \in Nat
  BY <1>1
<1>3. /\ dist' \in Seq(S \union {c})
      /\ Len(dist') = Len(dist) + 1 /\ dist'[Len(dist')] = c
      /\ \A k \in 1 .. Len(dist) : dist'[k] = dist[k]
  BY <1>2
<1>4. \E T : dist' \in Seq(T)
  BY <1>3
<1>5. Len(dist') >= 1 /\ \A v \in DOMAIN distTags' : distTags'[v] \in 1 .. Len(dist')
  BY <1>2, <1>3 DEF Distribution
<1> QED
  BY <1>3, <1>4, <1>5 DEF Distribution

\* The job's record but for the step it is at.
LEMMA SameWork ==
    ASSUME Inv, run.at \in Building, NEW step, run' = [run EXCEPT !.at = step]
    PROVE  /\ run' = [at |-> step, version |-> run.version, sha |-> run.sha, build |-> run.build]
           /\ run'.at = step /\ run'.version = run.version /\ run'.sha = run.sha /\ run'.build = run.build
           /\ DistCommit' = DistCommit /\ Asset(TRUE)' = Asset(TRUE)
<1>1. run = [at |-> run.at, version |-> run.version, sha |-> run.sha, build |-> run.build]
  BY DEF Inv, Shaped
<1>2. run' = [at |-> step, version |-> run.version, sha |-> run.sha, build |-> run.build]
  BY <1>1
<1> QED
  BY <1>2 DEF DistCommit, Asset

LEMMA PushDistributionInv ==
    ASSUME Inv, PushDistribution
    PROVE  Inv'
<1> USE DEF Inv, source, Building, Published
<1>1. run.at = "distribute" /\ UNCHANGED <<tags, distTags, releases>>
  BY DEF PushDistribution
<1>2. CASE run' = Idle /\ dist' = dist
  BY <1>1, <1>2, Fresh DEF TagsKept, Idle
<1>3. CASE run' = [run EXCEPT !.at = "check"] /\ dist' = dist /\ SourceHolds(run.version, run.sha)
  <2>1. RunHolds'
    BY <1>1, <1>3, SameWork DEF RunHolds, SourceHolds
  <2>2. Shaped'
    BY <1>1, <1>3, SameWork DEF Shaped
  <2> QED
    BY <1>1, <1>3, <2>1, <2>2, Frame DEF TagsKept
<1>4. CASE /\ run' = [run EXCEPT !.at = "dist-tag"] /\ dist' = dist
           /\ SourceHolds(run.version, run.sha) /\ ~ IsTagged(run.version) /\ Carries(Last(dist))
  <2>1. RunHolds'
    BY <1>1, <1>4, SameWork DEF RunHolds, SourceHolds, IsTagged, Carries, Last
  <2>2. Shaped'
    BY <1>1, <1>4, SameWork DEF Shaped
  <2> QED
    BY <1>1, <1>4, <2>1, <2>2, Frame DEF TagsKept
<1>5. CASE /\ run' = [run EXCEPT !.at = "dist-tag"] /\ dist' = Append(dist, DistCommit)
           /\ SourceHolds(run.version, run.sha) /\ ~ IsTagged(run.version)
  <2>1. /\ Distribution'
        /\ dist'[Len(dist')] = DistCommit
        /\ \A k \in 1 .. Len(dist) : dist'[k] = dist[k]
    BY <1>1, <1>5, DistributionGrows
  <2>2. RunHolds'
    BY <1>1, <1>5, <2>1, SameWork DEF RunHolds, SourceHolds, IsTagged
  <2>3. Shaped' /\ BaselineIsOut'
    BY <1>1, <1>5, SameWork DEF Shaped, BaselineIsOut
  <2>4. OfficialIsDistributed'
    BY <1>1, <2>1 DEF OfficialIsDistributed, Distribution
  <2> QED
    BY <2>1, <2>2, <2>3, <2>4
<1>6. SourceHolds(run.version, run.sha) \/ (run' = Idle /\ dist' = dist)
  BY DEF PushDistribution
<1>7. ASSUME SourceHolds(run.version, run.sha), IsTagged(run.version)
      PROVE  dist' = dist /\ (run' = Idle \/ run' = [run EXCEPT !.at = "check"])
  BY <1>7 DEF PushDistribution
<1>8. ASSUME SourceHolds(run.version, run.sha), ~ IsTagged(run.version)
      PROVE  \/ run' = Idle /\ dist' = dist
             \/ run' = [run EXCEPT !.at = "dist-tag"] /\ dist' = dist /\ Carries(Last(dist))
             \/ run' = [run EXCEPT !.at = "dist-tag"] /\ dist' = Append(dist, DistCommit)
  BY <1>8 DEF PushDistribution
<1> QED
  BY <1>2, <1>3, <1>4, <1>5, <1>6, <1>7, <1>8

LEMMA TagDistributionInv ==
    ASSUME Inv, PushDistributionTag \/ VerifyDistribution
    PROVE  Inv'
<1> USE DEF Inv, source, remote, Building, Published
<1>1. CASE PushDistributionTag
  <2>1. /\ run.at = "dist-tag" /\ run' = [run EXCEPT !.at = "check"]
        /\ UNCHANGED <<tags, dist, releases>>
        /\ distTags' = Adding(distTags, run.version, Len(dist))
        /\ Len(dist) \in Nat
    BY <1>1 DEF PushDistributionTag, Distribution
  <2>2. /\ DOMAIN distTags' = DOMAIN distTags \union {run.version}
        /\ \A v \in DOMAIN distTags : distTags'[v] = distTags[v]
        /\ \A v \in DOMAIN distTags' : distTags'[v] \in 1 .. Len(dist)
    BY <2>1 DEF Adding, Distribution
  <2>3. Distribution' /\ BaselineIsOut'
    BY <2>1, <2>2 DEF Distribution, BaselineIsOut
  <2>4. Shaped' /\ RunHolds'
    BY <2>1, SameWork DEF Shaped, RunHolds
  <2>5. OfficialIsDistributed'
    BY <2>1, <2>2 DEF OfficialIsDistributed
  <2> QED
    BY <2>3, <2>4, <2>5
<1>2. CASE VerifyDistribution
  <2>1. UNCHANGED <<tags, dist, distTags, releases>>
    BY <1>2 DEF VerifyDistribution, Quiet
  <2>2. CASE run' = Idle
    BY <2>1, <2>2, Fresh DEF TagsKept, Idle
  <2>3. CASE /\ run.at = "check" /\ run' = [run EXCEPT !.at = "finalize"]
             /\ IsTagged(run.version) /\ Carries(dist[distTags[run.version]])
    <3>1. Shaped' /\ RunHolds'
      BY <2>1, <2>3, SameWork DEF Shaped, RunHolds, IsTagged, Carries
    <3> QED
      BY <2>1, <3>1, Frame DEF TagsKept
  <2> QED
    BY <1>2, <2>2, <2>3 DEF VerifyDistribution
<1> QED
  BY <1>1, <1>2

-----------------------------------------------------------------------------
(* finalize.                                                                   *)

LEMMA FinalizeInv ==
    ASSUME Inv, Finalize
    PROVE  Inv'
<1> USE DEF Inv, source, remote, Building, Published
<1> DEFINE v == run.version
<1>1. run.at = "finalize" /\ UNCHANGED <<tags, dist, distTags>>
  BY DEF Finalize
<1>2. CASE run' = Idle /\ releases' = releases
  BY <1>1, <1>2, Fresh DEF TagsKept, Idle
<1>3. CASE /\ v \notin DOMAIN releases /\ run' = [run EXCEPT !.at = "upload"]
           /\ releases' = Adding(releases, v, [draft |-> TRUE, assets |-> <<>>])
  <2>1. /\ DOMAIN releases' = DOMAIN releases \union {v}
        /\ releases'[v] = [draft |-> TRUE, assets |-> <<>>]
        /\ \A w \in DOMAIN releases : releases'[w] = releases[w]
    BY <1>3 DEF Adding
  <2>2. releases' = [w \in DOMAIN releases' |-> [draft |-> releases'[w].draft, assets |-> releases'[w].assets]]
    <3>1. \A w \in DOMAIN releases' :
              releases'[w] = [draft |-> releases'[w].draft, assets |-> releases'[w].assets]
      BY <2>1 DEF Shaped
    <3>2. releases' = [w \in DOMAIN releases' |-> releases'[w]]
      BY <1>3 DEF Adding
    <3> QED
      BY <3>1, <3>2
  <2>3. Shaped'
    BY <1>1, <1>3, <2>2, SameWork DEF Shaped
  <2>4. RunHolds'
    <3>1. DOMAIN releases'[v].assets = {}
      BY <2>1
    <3> QED
      BY <1>1, <1>3, <2>1, <3>1, SameWork DEF RunHolds
  <2>5. Distribution' /\ BaselineIsOut'
    BY <1>1, <2>1 DEF Distribution, BaselineIsOut
  <2>6. OfficialIsDistributed'
    BY <1>1, <2>1 DEF OfficialIsDistributed
  <2> QED
    BY <2>3, <2>4, <2>5, <2>6
<1>4. CASE /\ v \in DOMAIN releases /\ run' = [run EXCEPT !.at = "upload"] /\ releases' = releases
           /\ ~ Mismatched(releases[v])
  <2>1. Shaped' /\ RunHolds'
    BY <1>1, <1>4, SameWork DEF Shaped, RunHolds, Mismatched
  <2> QED
    BY <1>1, <1>4, <2>1, Frame DEF TagsKept
<1> QED
  BY <1>2, <1>3, <1>4 DEF Finalize

\* The Release of the version at hand, changed in a field.
LEMMA OneRelease ==
    ASSUME Shaped, NEW v \in DOMAIN releases, NEW r,
           r = [draft |-> r.draft, assets |-> r.assets], releases' = [releases EXCEPT ![v] = r]
    PROVE  /\ DOMAIN releases' = DOMAIN releases /\ releases'[v] = r
           /\ \A w \in DOMAIN releases \ {v} : releases'[w] = releases[w]
           /\ releases' = [w \in DOMAIN releases' |-> [draft |-> releases'[w].draft,
                                                      assets |-> releases'[w].assets]]
<1>1. /\ DOMAIN releases' = DOMAIN releases /\ releases'[v] = r
      /\ \A w \in DOMAIN releases \ {v} : releases'[w] = releases[w]
  OBVIOUS
<1>2. \A w \in DOMAIN releases : releases[w] = [draft |-> releases[w].draft, assets |-> releases[w].assets]
  BY DEF Shaped
<1>3. \A w \in DOMAIN releases' : releases'[w] = [draft |-> releases'[w].draft, assets |-> releases'[w].assets]
  BY <1>1, <1>2
<1>4. releases' = [w \in DOMAIN releases' |-> releases'[w]]
  OBVIOUS
<1> QED
  BY <1>1, <1>3, <1>4

\* An official Release has all its archives already.
LEMMA OfficialLacksNone ==
    ASSUME Inv, run.at = "upload", NEW a \in Missing
    PROVE  releases[run.version].draft
BY PipelineAssumption DEF Inv, RunHolds, OfficialIsDistributed, Missing

LEMMA UploadInv ==
    ASSUME Inv, NEW a \in Attached, Upload(a) \/ UploadBreaks(a)
    PROVE  Inv'
<1> USE DEF Inv, source, remote, Building, Published
<1> DEFINE v == run.version
           old == releases[v]
<1>1. PICK b \in {Asset(TRUE), Asset(FALSE)} :
          /\ releases' = [releases EXCEPT ![v].assets = Adding(@, a, b)]
          /\ \/ b = Asset(TRUE) /\ run' = run
             \/ run' = Idle
  BY DEF Upload, UploadBreaks
<1>2. run.at = "upload" /\ a \in Missing /\ UNCHANGED <<tags, dist, distTags>>
  BY DEF Upload, UploadBreaks
<1>3. v \in DOMAIN releases /\ old.draft /\ a \notin DOMAIN old.assets
  BY <1>2, OfficialLacksNone DEF RunHolds, Missing
<1> DEFINE new == [draft |-> old.draft, assets |-> Adding(old.assets, a, b)]
<1>4. releases' = [releases EXCEPT ![v] = new]
  <2>1. old = [draft |-> old.draft, assets |-> old.assets]
    BY <1>3 DEF Shaped
  <2>2. releases' = [releases EXCEPT ![v] = [old EXCEPT !.assets = Adding(old.assets, a, b)]]
    BY <1>1
  <2>3. [old EXCEPT !.assets = Adding(old.assets, a, b)] = new
    BY <2>1
  <2> QED
    BY <2>2, <2>3
<1>5. /\ DOMAIN releases' = DOMAIN releases /\ releases'[v] = new
      /\ \A w \in DOMAIN releases \ {v} : releases'[w] = releases[w]
      /\ releases' = [w \in DOMAIN releases' |-> [draft |-> releases'[w].draft, assets |-> releases'[w].assets]]
  BY <1>3, <1>4, OneRelease
<1>6. Shaped'
  <2>1. CASE run' = Idle
    BY <1>5, <2>1 DEF Shaped, Idle
  <2>2. CASE run' = run
    BY <1>5, <2>2 DEF Shaped
  <2> QED
    BY <1>1, <2>1, <2>2
<1>7. RunHolds'
  <2>1. CASE run' = Idle
    BY <2>1 DEF Idle, RunHolds
  <2>2. CASE b = Asset(TRUE) /\ run' = run
    <3>1. /\ DOMAIN new.assets = DOMAIN old.assets \union {a}
          /\ \A x \in DOMAIN new.assets : new.assets[x] = Asset(TRUE)
      BY <1>2, <2>2 DEF Adding, RunHolds
    <3>2. Asset(TRUE)' = Asset(TRUE) /\ DistCommit' = DistCommit
      BY <2>2 DEF Asset, DistCommit
    <3> QED
      BY <1>2, <1>3, <1>5, <2>2, <3>1, <3>2 DEF RunHolds
  <2> QED
    BY <1>1, <2>1, <2>2
<1>8. Distribution' /\ BaselineIsOut'
  BY <1>2, <1>3, <1>5 DEF Distribution, BaselineIsOut
<1>9. OfficialIsDistributed'
  BY <1>2, <1>3, <1>5 DEF OfficialIsDistributed
<1> QED
  BY <1>6, <1>7, <1>8, <1>9

LEMMA UndraftInv ==
    ASSUME Inv, Undraft
    PROVE  Inv'
<1> USE DEF Inv, source, remote, Building, Published
<1> DEFINE v == run.version
           old == releases[v]
           new == [draft |-> FALSE, assets |-> old.assets]
<1>1. /\ run.at = "upload" /\ run' = [run EXCEPT !.at = "verify"] /\ Missing = {}
      /\ releases' = [releases EXCEPT ![v] = [draft |-> FALSE, assets |-> @.assets]] /\ UNCHANGED <<tags, dist, distTags>>
      /\ v \in DOMAIN releases
  BY DEF Undraft, RunHolds
<1>2. releases' = [releases EXCEPT ![v] = new]
  BY <1>1
<1>3. /\ DOMAIN releases' = DOMAIN releases /\ releases'[v] = new
      /\ \A w \in DOMAIN releases \ {v} : releases'[w] = releases[w]
      /\ releases' = [w \in DOMAIN releases' |-> [draft |-> releases'[w].draft, assets |-> releases'[w].assets]]
  BY <1>1, <1>2, OneRelease
<1>4. Shaped'
  BY <1>1, <1>3, SameWork DEF Shaped
<1>5. RunHolds'
  BY <1>1, SameWork DEF RunHolds
<1>6. Distribution' /\ BaselineIsOut'
  BY <1>1, <1>3 DEF Distribution, BaselineIsOut
<1>7. DOMAIN old.assets = Attached
  BY <1>1 DEF RunHolds, Missing
<1>8. /\ v \in DOMAIN tags /\ tags[v] = run.sha
      /\ v \in DOMAIN distTags /\ dist[distTags[v]] = DistCommit
      /\ \A a \in DOMAIN old.assets : old.assets[a] = Asset(TRUE)
  BY <1>1 DEF RunHolds
<1>9. v = Baseline => Attached = Attached \union Archives
  BY <1>7 DEF BaselineIsOut, OfficialIsDistributed
<1>10. OfficialIsDistributed'
  BY <1>1, <1>3, <1>7, <1>8, <1>9 DEF OfficialIsDistributed, DistCommit, Asset
<1> QED
  BY <1>4, <1>5, <1>6, <1>10

-----------------------------------------------------------------------------
(* The theorem.                                                                *)

LEMMA InitInv == Init => Inv
<1> SUFFICES ASSUME Init PROVE Inv
  OBVIOUS
<1>1. PICK build :
          /\ dist = <<[version |-> Baseline, source |-> 1, tree |-> build.tree]>>
          /\ releases = [v \in {Baseline} |-> [draft |-> FALSE,
                          assets |-> [a \in Archives |-> [source |-> 1, build |-> build, uploaded |-> TRUE]]]]
  BY DEF Init
<1>2. run.at = "idle" /\ DOMAIN tags = {Baseline} /\ tags[Baseline] = 1
      /\ DOMAIN distTags = {Baseline} /\ distTags[Baseline] = 1
  BY DEF Init, Idle
<1>3. Shaped /\ RunHolds /\ BaselineIsOut
  BY <1>1, <1>2 DEF Shaped, RunHolds, BaselineIsOut, Building, Published
<1>4. dist \in Seq({[version |-> Baseline, source |-> 1, tree |-> build.tree]}) /\ Len(dist) = 1
  BY <1>1
<1>5. Distribution
  <2>1. \E S : dist \in Seq(S)
    BY <1>4
  <2> QED
    BY <1>2, <1>4, <2>1 DEF Distribution
<1>6. OfficialIsDistributed
  <2>1. /\ DOMAIN releases = {Baseline} /\ DOMAIN releases[Baseline].assets = Archives
        /\ \A a \in Archives : releases[Baseline].assets[a]
                                = [source |-> 1, build |-> build, uploaded |-> TRUE]
    BY <1>1
  <2>2. dist[1].source = 1 /\ dist[1].tree = build.tree
    BY <1>1
  <2>3. Archives = Attached \union Archives
    BY PipelineAssumption
  <2> QED
    BY <1>2, <2>1, <2>2, <2>3 DEF OfficialIsDistributed
<1> QED
  BY <1>3, <1>5, <1>6 DEF Inv

LEMMA StepInv == Inv /\ [Next]_vars => Inv'
<1> SUFFICES ASSUME Inv, [Next]_vars PROVE Inv'
  OBVIOUS
<1>1. CASE UNCHANGED vars
  BY <1>1, SameRun DEF vars, remote
<1>2. CASE Job
  BY <1>2, AroundInv, PublishInv, RecoverInv, PushDistributionInv, TagDistributionInv, FinalizeInv,
     UploadInv, UndraftInv DEF Job
<1>3. CASE Next /\ ~ Job
  BY <1>3, AroundInv, UploadInv DEF Next
<1> QED
  BY <1>1, <1>2, <1>3

\* An official Release, the source tag, the distribution and every archive are of
\* one build of one commit, whatever was interrupted, repeated or built anew
\* (finalization.py, distribution.py).
THEOREM OfficialReleasesAreDistributed == Spec => []OfficialIsDistributed
BY InitInv, StepInv, PTL DEF Spec, Inv

-----------------------------------------------------------------------------
(* ReleasePipeline implements ReleaseContract: one version at a time goes from *)
(* its commit to its tag, to the distribution and to its Release, whatever is  *)
(* interrupted, merged meanwhile or finished by hand.                          *)

\* The versions on main are each newer than the one before.
MainInOrder ==
    /\ \E S : main \in Seq(S)
    /\ \A k \in ReleaseCommits : main[k].version \in Version
    /\ \A k, l \in ReleaseCommits : k < l => Newer(main[l].version, main[k].version)

\* A tag is on the commit of its version, and the source repository has it first.
TagsInOrder ==
    /\ \A v \in DOMAIN tags : tags[v] \in ReleaseCommits /\ main[tags[v]].version = v
    /\ DOMAIN distTags \subseteq DOMAIN tags

\* The last release commit that has its tag, and the last one: the same, or the
\* one after. What comes before the last is released.
Ends(T, L) ==
    /\ T \in ReleaseCommits /\ L \in ReleaseCommits /\ T <= L
    /\ \A k \in ReleaseCommits : k <= T \/ k = L
    /\ \A k \in ReleaseCommits : k < L => main[k].version \in Out
    /\ main[T].version \in DOMAIN tags
    /\ T # L => main[L].version \notin DOMAIN tags

OneBehind == \E T, L \in ReleaseCommits : Ends(T, L)

\* A new version is prepared when all others are out, and is newer; the commit to
\* be tagged is the commit of the version.
RunInOrder ==
    /\ run.at \in {"prepare", "push"} =>
           /\ Pending = {} /\ run.version \in Version
           /\ \A k \in ReleaseCommits : Newer(run.version, main[k].version)
    /\ run.at = "push" => run.commit.version = run.version
    /\ run.at = "tag" => run.sha \in ReleaseCommits /\ main[run.sha].version = run.version
    /\ run.at = "recover" => run.version \in Version

Order == MainInOrder /\ TagsInOrder /\ OneBehind /\ RunInOrder

-----------------------------------------------------------------------------
(* Versions.                                                                   *)

LEMMA NewerOrder ==
    ASSUME NEW u \in Version, NEW v \in Version, NEW w \in Version
    PROVE  /\ ~ Newer(u, u)
           /\ Newer(u, v) /\ Newer(v, w) => Newer(u, w)
           /\ ~ (Newer(u, v) /\ Newer(v, u))
BY DEF Version, Newer

LEMMA NextIsNewer ==
    ASSUME NEW v \in Version, NEW impact
    PROVE  /\ derive_next_version(v, impact) \in Version
           /\ Newer(derive_next_version(v, impact), v)
BY DEF derive_next_version, Newer, Version

-----------------------------------------------------------------------------
(* What the invariant says of a state.                                         *)

LEMMA NoneIsNoVersion == None \notin Version
BY PipelineAssumption

LEMMA CommitsAreNat ==
    ASSUME MainInOrder
    PROVE  Len(main) \in Nat /\ ReleaseCommits \subseteq 1 .. Len(main)
<1>1. PICK S : main \in Seq(S)
  BY DEF MainInOrder
<1> QED
  BY <1>1 DEF ReleaseCommits, Commits

\* A version is on main once.
LEMMA OneCommit ==
    ASSUME MainInOrder, NEW k \in ReleaseCommits, NEW l \in ReleaseCommits,
           main[k].version = main[l].version
    PROVE  k = l
<1>1. k \in Nat /\ l \in Nat
  BY CommitsAreNat
<1>2. main[k].version \in Version /\ main[l].version \in Version
  BY DEF MainInOrder
<1>3. ~ Newer(main[k].version, main[l].version) /\ ~ Newer(main[l].version, main[k].version)
  BY <1>2, NewerOrder
<1> QED
  BY <1>1, <1>3 DEF MainInOrder

\* What is out is distributed and tagged.
LEMMA OutIsTagged ==
    ASSUME Inv, TagsInOrder, NEW v \in Out
    PROVE  v \in DOMAIN distTags /\ v \in DOMAIN tags
BY DEF Inv, OfficialIsDistributed, Out, IsOfficial

\* Only the last release commit may lack its tag.
LEMMA UntaggedIsLast ==
    ASSUME Inv, MainInOrder, TagsInOrder, NEW T, NEW L, Ends(T, L),
           NEW k \in ReleaseCommits, main[k].version \notin DOMAIN tags
    PROVE  k = L /\ T # L
<1>1. k \in Nat /\ T \in Nat /\ L \in Nat
  BY CommitsAreNat DEF Ends
<1>2. ~ k < L
  BY OutIsTagged DEF Ends
<1>3. k # T
  BY DEF Ends
<1> QED
  BY <1>1, <1>2, <1>3 DEF Ends

\* Only the last release commit may have a version that is not out.
LEMMA PendingIsLast ==
    ASSUME MainInOrder, NEW T, NEW L, Ends(T, L), NEW v \in Pending
    PROVE  v = main[L].version /\ Pending = {v}
<1>1. \A w \in Pending : w = main[L].version
  <2> SUFFICES ASSUME NEW w \in Pending PROVE w = main[L].version
    OBVIOUS
  <2>1. PICK k \in ReleaseCommits : w = main[k].version /\ w \notin Out
    BY DEF Pending
  <2>2. k \in Nat /\ L \in Nat /\ T \in Nat
    BY CommitsAreNat DEF Ends
  <2>3. ~ k < L
    BY <2>1 DEF Ends
  <2> QED
    BY <2>1, <2>2, <2>3 DEF Ends
<1> QED
  BY <1>1

\* The version under way is the one that is not out.
Shown ==
    /\ \A v \in Pending : UnderWay = [version |-> v, stage |-> Reached(v)]
    /\ Pending # {} => UnderWay # None

LEMMA PendingIsShown == MainInOrder /\ OneBehind => Shown
<1> SUFFICES ASSUME MainInOrder, OneBehind PROVE Shown
  OBVIOUS
<1>1. PICK T, L \in ReleaseCommits : Ends(T, L)
  BY DEF OneBehind
<1>2. ASSUME NEW v \in Pending
      PROVE  UnderWay = [version |-> v, stage |-> Reached(v)] /\ UnderWay # None
  <2>1. Pending = {v} /\ v \in Version
    BY <1>1, <1>2, PendingIsLast DEF Pending, MainInOrder
  <2>2. (CHOOSE w \in Pending : TRUE) = v
    BY <2>1
  <2>3. UnderWay = [version |-> v, stage |-> Reached(v)]
    BY <2>1, <2>2 DEF UnderWay
  <2>4. UnderWay \in [version : Version, stage : {"committed", "tagged", "distributed"}]
    BY <2>1, <2>3 DEF Reached
  <2> QED
    BY <2>3, <2>4, PipelineAssumption
<1> QED
  BY <1>2 DEF Shown

\* The latest tag is of the last tagged release commit.
LEMMA LatestTag ==
    ASSUME MainInOrder, TagsInOrder, NEW T, NEW L, Ends(T, L)
    PROVE  latest_release_tag = main[T].version /\ tags[latest_release_tag] = T
<1> DEFINE t == main[T].version
<1>1. \A w \in DOMAIN tags : w = t \/ Newer(t, w)
  <2> SUFFICES ASSUME NEW w \in DOMAIN tags PROVE w = t \/ Newer(t, w)
    OBVIOUS
  <2>1. tags[w] \in ReleaseCommits /\ main[tags[w]].version = w
    BY DEF TagsInOrder
  <2>2. tags[w] \in Nat /\ T \in Nat
    BY <2>1, CommitsAreNat DEF Ends
  <2>3. tags[w] <= T
    BY <2>1 DEF Ends
  <2> QED
    BY <2>1, <2>2, <2>3 DEF MainInOrder, Ends
<1>2. \A w \in DOMAIN tags : w \in Version
  BY DEF TagsInOrder, MainInOrder
<1>3. t \in DOMAIN tags
  BY DEF Ends
<1>4. \A w \in DOMAIN tags : ~ Newer(w, t)
  BY <1>1, <1>2, <1>3, NewerOrder
<1>5. latest_release_tag \in DOMAIN tags /\ ~ Newer(t, latest_release_tag)
  BY <1>3, <1>4 DEF latest_release_tag
<1>6. latest_release_tag = t
  BY <1>1, <1>5
<1>7. tags[t] = T
  BY <1>3, OneCommit DEF TagsInOrder, Ends
<1> QED
  BY <1>6, <1>7

\* The release commits after the latest tag: the last one, if it has no tag.
LEMMA UntaggedIs ==
    ASSUME MainInOrder, TagsInOrder, NEW T, NEW L, Ends(T, L)
    PROVE  Untagged(latest_release_tag) = IF T = L THEN {} ELSE {L}
<1>1. latest_release_tag = main[T].version /\ tags[latest_release_tag] = T
  BY LatestTag
<1>2. Untagged(latest_release_tag) = {k \in ReleaseCommits : k > T /\ Newer(main[k].version, main[T].version)}
  BY <1>1 DEF Untagged, ReleaseCommits
<1>3. \A k \in ReleaseCommits : k \in Nat
  BY CommitsAreNat
<1>4. \A k \in ReleaseCommits : k > T <=> (k = L /\ T # L)
  BY <1>3 DEF Ends
<1>5. T # L => Newer(main[L].version, main[T].version)
  BY <1>3 DEF MainInOrder, Ends
<1> QED
  BY <1>2, <1>4, <1>5 DEF Ends

-----------------------------------------------------------------------------
(* Steps that bring no version further.                                        *)

\* main may grow by a pull request, and Releases change that are not out.
Quietly ==
    /\ \E S : main' \in Seq(S)
    /\ ReleaseCommits' = ReleaseCommits
    /\ \A k \in ReleaseCommits : main'[k].version = main[k].version
    /\ UNCHANGED <<tags, distTags>> /\ Out' = Out

\* The run is as it was, or at a step that RunInOrder does not constrain.
Unbound == run' = run \/ run'.at \notin {"prepare", "push", "tag", "recover"}

LEMMA QuietFacts ==
    ASSUME Order, Quietly
    PROVE  /\ MainInOrder' /\ TagsInOrder' /\ OneBehind'
           /\ Pending' = Pending /\ UnderWay' = UnderWay
<1>1. MainInOrder'
  BY DEF Order, MainInOrder, Quietly
<1>2. TagsInOrder'
  BY DEF Order, TagsInOrder, Quietly
<1>3. OneBehind'
  <2>1. PICK T, L \in ReleaseCommits : Ends(T, L)
    BY DEF Order, OneBehind
  <2>2. Ends(T, L)'
    BY <2>1 DEF Ends, Quietly
  <2> QED
    BY <2>1, <2>2 DEF OneBehind, Quietly
<1>4. Pending' = Pending
  BY DEF Pending, Quietly
<1>5. UnderWay' = UnderWay
  BY <1>4 DEF UnderWay, Reached, Quietly
<1> QED
  BY <1>1, <1>2, <1>3, <1>4, <1>5

LEMMA QuietStep ==
    ASSUME Order, Quietly, Unbound
    PROVE  Order' /\ UNCHANGED <<Out, UnderWay>>
<1>1. RunInOrder'
  <2>1. CASE run' = run
    BY <2>1, QuietFacts DEF Order, RunInOrder, Quietly
  <2>2. CASE run'.at \notin {"prepare", "push", "tag", "recover"}
    BY <2>2 DEF RunInOrder
  <2> QED
    BY <2>1, <2>2 DEF Unbound
<1> QED
  BY <1>1, QuietFacts DEF Order, Quietly

\* Nothing but the run changes.
LEMMA NothingMoves ==
    ASSUME Order, UNCHANGED <<main, tags, distTags, releases>>
    PROVE  Quietly
BY DEF Order, MainInOrder, Quietly, ReleaseCommits, Commits, Out, IsOfficial

LEMMA MergeStep ==
    ASSUME Order, NEW p \in Pr, Merge(p)
    PROVE  Order' /\ UNCHANGED <<Out, UnderWay>>
<1>1. PICK S : main \in Seq(S)
  BY DEF Order, MainInOrder
<1> DEFINE c == ChangeCommit(p)
<1>2. main \in Seq(S \union {c}) /\ main' = Append(main, c) /\ Len(main) \in Nat
  BY <1>1 DEF Merge
<1>3. /\ main' \in Seq(S \union {c}) /\ Len(main') = Len(main) + 1 /\ main'[Len(main) + 1] = c
      /\ \A k \in 1 .. Len(main) : main'[k] = main[k]
  BY <1>2
<1>4. c.version = None
  BY DEF ChangeCommit
<1>5. ReleaseCommits' = ReleaseCommits
  BY <1>2, <1>3, <1>4 DEF ReleaseCommits, Commits
<1>6. \E T : main' \in Seq(T)
  BY <1>3
<1>7. Quietly
  BY <1>2, <1>3, <1>5, <1>6 DEF Quietly, ReleaseCommits, Commits, Merge, remote, Out, IsOfficial
<1> QED
  BY <1>7, QuietStep DEF Unbound, Merge

LEMMA AroundStep ==
    ASSUME Order, Dispatch \/ Fail \/ Start \/ VerifyRelease \/ \E p \in Pr : EditBody(p)
    PROVE  Order' /\ UNCHANGED <<Out, UnderWay>>
<1>1. UNCHANGED <<main, tags, distTags, releases>>
  BY DEF Dispatch, Fail, Start, VerifyRelease, EditBody, Quiet, source, remote
<1>2. Unbound
  BY DEF Dispatch, Fail, Start, VerifyRelease, EditBody, Unbound, Idle
<1> QED
  BY <1>1, <1>2, NothingMoves, QuietStep

LEMMA PassingStep ==
    ASSUME Inv, Order, HandOver \/ Resolve \/ PushDistribution \/ VerifyDistribution
    PROVE  Order' /\ UNCHANGED <<Out, UnderWay>>
<1>1. UNCHANGED <<main, tags, distTags, releases>>
  BY DEF HandOver, Resolve, PushDistribution, VerifyDistribution, Quiet, source, remote
<1>2. CASE HandOver
  <2>1. run' = Idle \/ run'.at = "distribute"
    BY <1>2, SameWork DEF HandOver, Building
  <2> QED
    BY <1>1, <2>1, NothingMoves, QuietStep DEF Unbound, Idle
<1>3. CASE Resolve
  <2>1. run'.at \in {"idle", "distribute"}
    BY <1>3 DEF Resolve, Idle
  <2> QED
    BY <1>1, <2>1, NothingMoves, QuietStep DEF Unbound
<1>4. CASE PushDistribution
  <2>1. run.at = "distribute"
    BY <1>4 DEF PushDistribution
  <2>2. run' = Idle \/ run' = [run EXCEPT !.at = "dist-tag"] \/ run' = [run EXCEPT !.at = "check"]
    BY <1>4 DEF PushDistribution
  <2>3. run.at \in Building
    BY <2>1 DEF Building
  <2>4. run'.at \in {"idle", "dist-tag", "check"}
    <3>1. CASE run' = Idle
      BY <3>1 DEF Idle
    <3>2. CASE run' = [run EXCEPT !.at = "dist-tag"]
      BY <2>3, <3>2, SameWork
    <3>3. CASE run' = [run EXCEPT !.at = "check"]
      BY <2>3, <3>3, SameWork
    <3> QED
      BY <2>2, <3>1, <3>2, <3>3
  <2> QED
    BY <1>1, <2>4, NothingMoves, QuietStep DEF Unbound
<1>5. CASE VerifyDistribution
  <2>1. run' = Idle \/ run'.at = "finalize"
    BY <1>5, SameWork DEF VerifyDistribution, Building, Published
  <2> QED
    BY <1>1, <2>1, NothingMoves, QuietStep DEF Unbound, Idle
<1> QED
  BY <1>2, <1>3, <1>4, <1>5

\* A draft is not out, with whatever assets.
LEMMA DraftStep ==
    ASSUME Inv, Order, Finalize \/ \E a \in Attached : Upload(a) \/ UploadBreaks(a)
    PROVE  Order' /\ UNCHANGED <<Out, UnderWay>>
<1> DEFINE v == run.version
<1>1. UNCHANGED <<main, tags, distTags>>
  BY DEF Finalize, Upload, UploadBreaks, source, remote
<1>2. CASE Finalize
  <2>1. \/ releases' = releases
        \/ v \notin DOMAIN releases /\ releases' = Adding(releases, v, [draft |-> TRUE, assets |-> <<>>])
    BY <1>2 DEF Finalize
  <2>2. Out' = Out
    BY <2>1 DEF Out, IsOfficial, Adding
  <2>3. run' = Idle \/ run'.at = "upload"
    BY <1>2, SameWork DEF Finalize, Building, Published
  <2> QED
    BY <1>1, <2>2, <2>3, QuietStep DEF Unbound, Quietly, Idle, Order, MainInOrder, ReleaseCommits, Commits
<1>3. CASE \E a \in Attached : Upload(a) \/ UploadBreaks(a)
  <2>1. PICK a \in Missing, b \in {Asset(TRUE), Asset(FALSE)} :
            releases' = [releases EXCEPT ![v].assets = Adding(@, a, b)]
    BY <1>3 DEF Upload, UploadBreaks
  <2>2. run.at = "upload" /\ (run' = run \/ run' = Idle)
    BY <1>3 DEF Upload, UploadBreaks
  <2>3. v \in DOMAIN releases /\ releases[v].draft
    BY <2>1, <2>2, OfficialLacksNone DEF Inv, RunHolds
  <2>4. DOMAIN releases' = DOMAIN releases /\ \A w \in DOMAIN releases \ {v} : releases'[w] = releases[w]
    BY <2>1
  <2>5. releases'[v].draft
    <3>1. releases[v] = [draft |-> releases[v].draft, assets |-> releases[v].assets]
      BY <2>3 DEF Inv, Shaped
    <3>2. releases'[v] = [releases[v] EXCEPT !.assets = Adding(releases[v].assets, a, b)]
      BY <2>1, <2>3
    <3> QED
      BY <2>3, <3>1, <3>2
  <2>6. Out' = Out
    BY <2>3, <2>4, <2>5 DEF Out, IsOfficial
  <2> QED
    BY <1>1, <2>2, <2>6, QuietStep DEF Unbound, Quietly, Idle, Order, MainInOrder, ReleaseCommits, Commits
<1> QED
  BY <1>2, <1>3

-----------------------------------------------------------------------------
(* plan and prepare: a new version only when every other one is out.           *)

\* What is not unfinished is released in full.
LEMMA AllOut ==
    ASSUME Inv, MainInOrder, TagsInOrder, NEW T, NEW L, Ends(T, L), unfinished_release = None
    PROVE  /\ Pending = {} /\ latest_release_tag \in Version
           /\ \A k \in ReleaseCommits :
                  main[k].version = latest_release_tag \/ Newer(latest_release_tag, main[k].version)
<1> DEFINE v == latest_release_tag
<1>1. v = main[T].version /\ Untagged(v) = IF T = L THEN {} ELSE {L}
  BY LatestTag, UntaggedIs
<1>2. Untagged(v) = {} /\ IsOfficial(v)
  <2>1. v \in Version /\ main[L].version \in Version /\ T \in Nat /\ L \in Nat /\ tags[v] = T
    BY <1>1, CommitsAreNat, LatestTag DEF MainInOrder, Ends
  <2>2. /\ [stage |-> "tag", version |-> main[L].version, sha |-> L] # None
        /\ [stage |-> "finalize", version |-> v, sha |-> T] # None
    BY <2>1, PipelineAssumption
  <2>3. Untagged(v) = {}
    <3>1. SUFFICES ASSUME Untagged(v) = {L} PROVE FALSE
      BY <1>1
    <3>2. Min(Untagged(v)) = L
      BY <2>1, <3>1 DEF Min
    <3> QED
      BY <2>2, <3>1, <3>2 DEF unfinished_release
  <2> QED
    BY <2>1, <2>2, <2>3 DEF unfinished_release
<1>3. T = L
  BY <1>1, <1>2
<1>4. v \in Out
  BY <1>2 DEF Out, IsOfficial
<1>5. Pending = {}
  BY <1>1, <1>3, <1>4, PendingIsLast DEF Pending
<1>6. \A k \in ReleaseCommits : k \in Nat /\ k <= T
  BY <1>3, CommitsAreNat DEF Ends
<1>7. v \in Version /\ \A k \in ReleaseCommits : main[k].version = v \/ Newer(v, main[k].version)
  BY <1>1, <1>6 DEF MainInOrder, Ends
<1> QED
  BY <1>5, <1>7

LEMMA PlanStep ==
    ASSUME Inv, Order, Plan
    PROVE  Order' /\ UNCHANGED <<Out, UnderWay>>
<1> DEFINE v == latest_release_tag
<1>1. UNCHANGED <<main, tags, distTags, releases>>
  BY DEF Plan, Quiet, source, remote
<1>2. PICK T, L \in ReleaseCommits : Ends(T, L)
  BY DEF Order, OneBehind
<1>3. CASE run'.at \notin {"prepare", "recover"}
  <2>1. run'.at \in {"idle", "recover", "resolve", "prepare"}
    BY DEF Plan, NoRelease, Idle
  <2> QED
    BY <1>1, <1>3, <2>1, NothingMoves, QuietStep DEF Unbound
<1>4. CASE run'.at = "recover"
  <2>1. unfinished_release # None /\ unfinished_release.stage = "tag" /\ run'.version = unfinished_release.version
    BY <1>4 DEF Plan, NoRelease, Idle
  <2>2. Untagged(v) = {L}
    BY <1>2, <2>1, UntaggedIs DEF unfinished_release, Order
  <2>3. Min(Untagged(v)) = L
    BY <2>2, CommitsAreNat DEF Min, Order
  <2>4. run'.version = main[L].version
    BY <2>1, <2>2, <2>3 DEF unfinished_release
  <2>5. RunInOrder'
    BY <1>4, <2>4 DEF RunInOrder, Order, MainInOrder
  <2> QED
    BY <1>1, <2>5, NothingMoves, QuietFacts DEF Order, Quietly
<1>5. CASE run'.at = "prepare"
  <2>1. /\ unfinished_release = None
        /\ \E impact : run'.version = derive_next_version(v, impact)
    BY <1>5 DEF Plan, NoRelease, Idle
  <2>2. /\ Pending = {} /\ v \in Version
        /\ \A k \in ReleaseCommits : main[k].version = v \/ Newer(v, main[k].version)
    BY <1>2, <2>1, AllOut DEF Order
  <2>3. run'.version \in Version /\ Newer(run'.version, v)
    BY <2>1, <2>2, NextIsNewer
  <2>4. \A k \in ReleaseCommits : main[k].version \in Version
    BY DEF Order, MainInOrder
  <2>5. \A k \in ReleaseCommits : Newer(run'.version, main[k].version)
    BY <2>2, <2>3, <2>4, NewerOrder
  <2>6. Quietly
    BY <1>1, NothingMoves
  <2>7. Pending' = {} /\ \A k \in ReleaseCommits' : Newer(run'.version, main'[k].version)
    BY <2>2, <2>5, <2>6, QuietFacts DEF Quietly
  <2>8. RunInOrder'
    BY <1>5, <2>3, <2>7 DEF RunInOrder
  <2> QED
    BY <2>6, <2>8, QuietFacts DEF Order, Quietly
<1> QED
  BY <1>3, <1>4, <1>5

LEMMA PrepareStep ==
    ASSUME Order, Prepare
    PROVE  Order' /\ UNCHANGED <<Out, UnderWay>>
<1>1. UNCHANGED <<main, tags, distTags, releases>> /\ run.at = "prepare"
  BY DEF Prepare, Quiet, source, remote
<1>2. CASE run' = Idle
  BY <1>1, <1>2, NothingMoves, QuietStep DEF Unbound, Idle
<1>3. CASE run' # Idle
  <2>1. run'.at = "push" /\ run'.version = run.version /\ run'.commit.version = run.version
    BY <1>3 DEF Prepare, ReleaseCommit
  <2>2. /\ Pending = {} /\ run.version \in Version
        /\ \A k \in ReleaseCommits : Newer(run.version, main[k].version)
    BY <1>1 DEF Order, RunInOrder
  <2>3. Quietly
    BY <1>1, NothingMoves
  <2>4. Pending' = {} /\ \A k \in ReleaseCommits' : Newer(run'.version, main'[k].version)
    BY <2>1, <2>2, <2>3, QuietFacts DEF Quietly
  <2>5. RunInOrder'
    BY <2>1, <2>2, <2>4 DEF RunInOrder
  <2> QED
    BY <2>3, <2>5, QuietFacts DEF Order, Quietly
<1> QED
  BY <1>2, <1>3

-----------------------------------------------------------------------------
(* Steps that bring a version further.                                         *)

LEMMA PushMainStep ==
    ASSUME Inv, Order, PushMain
    PROVE  Order' /\ (OneAtATime!Begin \/ UNCHANGED <<Out, UnderWay>>)
<1> DEFINE c == run.commit
<1>0. PICK n : n = Len(main) + 1
  OBVIOUS
<1>1. UNCHANGED <<tags, distTags, releases>> /\ run.at = "push"
  BY DEF PushMain, remote
<1>2. CASE run' = Idle /\ main' = main
  BY <1>1, <1>2, NothingMoves, QuietStep DEF Unbound, Idle
<1>3. CASE /\ main' = Append(main, c)
           /\ run' = [at |-> "tag", version |-> run.version, build |-> run.build, sha |-> n]
  <2>1. /\ Pending = {} /\ run.version \in Version /\ c.version = run.version
        /\ \A k \in ReleaseCommits : Newer(run.version, main[k].version)
    BY <1>1 DEF Order, RunInOrder
  <2>2. PICK S : main \in Seq(S)
    BY DEF Order, MainInOrder
  <2>3. main \in Seq(S \union {c}) /\ Len(main) \in Nat
    BY <2>2
  <2>4. /\ main' \in Seq(S \union {c}) /\ Len(main') = n /\ main'[n] = c
        /\ \A k \in 1 .. Len(main) : main'[k] = main[k]
    BY <1>0, <1>3, <2>3
  <2>5. ReleaseCommits \subseteq 1 .. Len(main)
    BY CommitsAreNat DEF Order
  <2>6. /\ ReleaseCommits' = ReleaseCommits \union {n}
        /\ \A k \in ReleaseCommits : main'[k].version = main[k].version
        /\ main'[n].version = run.version
    BY <1>0, <2>1, <2>3, <2>4, NoneIsNoVersion DEF ReleaseCommits, Commits
  <2>7. Out' = Out
    BY <1>1 DEF Out, IsOfficial
  <2>8. \A w \in DOMAIN tags : w # run.version
    <3> SUFFICES ASSUME run.version \in DOMAIN tags PROVE FALSE
      OBVIOUS
    <3>1. Newer(run.version, run.version)
      BY <2>1 DEF Order, TagsInOrder
    <3> QED
      BY <2>1, <3>1, NewerOrder
  <2>9. run.version \notin DOMAIN distTags /\ run.version \notin Out
    BY <2>8, OutIsTagged DEF Order, TagsInOrder
  <2>10. MainInOrder'
    <3>1. \E T : main' \in Seq(T)
      BY <2>4
    <3>2. \A k \in ReleaseCommits' : main'[k].version \in Version
      BY <2>1, <2>6 DEF Order, MainInOrder
    <3>3. ASSUME NEW k \in ReleaseCommits', NEW l \in ReleaseCommits', k < l
          PROVE  Newer(main'[l].version, main'[k].version)
      <4>1. k \in ReleaseCommits
        BY <1>0, <2>3, <2>5, <2>6, <3>3
      <4>2. CASE l = n
        BY <2>1, <2>6, <4>1, <4>2
      <4>3. CASE l \in ReleaseCommits
        BY <2>6, <3>3, <4>1, <4>3 DEF Order, MainInOrder
      <4> QED
        BY <2>6, <4>2, <4>3
    <3> QED
      BY <3>1, <3>2, <3>3 DEF MainInOrder
  <2>11. TagsInOrder'
    BY <1>1, <2>6 DEF Order, TagsInOrder
  <2>12. OneBehind'
    <3>1. PICK T, L \in ReleaseCommits : Ends(T, L)
      BY DEF Order, OneBehind
    <3>2. \A k \in ReleaseCommits : main[k].version \in Out
      BY <2>1 DEF Pending
    <3>3. T = L
      BY <3>1, <3>2, OutIsTagged DEF Order, Ends
    <3>4. Ends(T, n)'
      BY <1>0, <1>1, <2>3, <2>5, <2>6, <2>7, <2>8, <3>1, <3>2, <3>3 DEF Ends
    <3> QED
      BY <2>6, <3>4 DEF OneBehind
  <2>13. RunInOrder'
    BY <1>3, <2>6 DEF RunInOrder
  <2>14. UnderWay = None
    BY <2>1 DEF UnderWay
  <2>15. run.version \in Pending'
    BY <2>6, <2>7, <2>9 DEF Pending
  <2>16. Shown'
    BY <2>10, <2>12, PendingIsShown, PTL
  <2>17. /\ UnderWay' = [version |-> run.version, stage |-> "committed"]
         /\ UnderWay' # None
    BY <1>1, <1>3, <2>8, <2>9, <2>15, <2>16 DEF Shown, Reached
  <2> QED
    BY <2>7, <2>9, <2>10, <2>11, <2>12, <2>13, <2>14, <2>17 DEF Order, OneAtATime!Begin
<1> QED
  BY <1>0, <1>2, <1>3 DEF PushMain

\* A release commit that has no tag gets it.
LEMMA TagStep ==
    ASSUME Inv, Order, NEW sha \in ReleaseCommits, main[sha].version \notin DOMAIN tags,
           tags' = Adding(tags, main[sha].version, sha), UNCHANGED <<main, distTags, releases>>,
           run'.at \notin {"prepare", "push", "tag", "recover"}
    PROVE  Order' /\ OneAtATime!Advance
<1>0. PICK v : v = main[sha].version
  OBVIOUS
<1>1. /\ DOMAIN tags' = DOMAIN tags \union {v} /\ tags'[v] = sha
      /\ \A w \in DOMAIN tags : tags'[w] = tags[w]
  BY <1>0 DEF Adding
<1>2. PICK T, L \in ReleaseCommits : Ends(T, L)
  BY DEF Order, OneBehind
<1>3. sha = L /\ T # L
  BY <1>2, UntaggedIsLast DEF Order
<1>4. ReleaseCommits' = ReleaseCommits /\ Out' = Out /\ Pending' = Pending
  BY DEF ReleaseCommits, Commits, Out, IsOfficial, Pending
<1>5. MainInOrder' /\ RunInOrder'
  BY DEF Order, MainInOrder, RunInOrder, ReleaseCommits, Commits
<1>6. TagsInOrder'
  BY <1>0, <1>1, <1>4 DEF Order, TagsInOrder
<1>7. OneBehind'
  <2>1. L \in Nat /\ \A k \in ReleaseCommits : k \in Nat
    BY CommitsAreNat DEF Order
  <2>2. Ends(L, L)'
    BY <1>0, <1>1, <1>2, <1>3, <1>4, <2>1 DEF Ends
  <2> QED
    BY <1>2, <1>4, <2>2 DEF OneBehind
<1>8. v \in Pending /\ v \notin DOMAIN distTags
  BY <1>0, OutIsTagged DEF Pending, Order, TagsInOrder
<1>9. UnderWay = [version |-> v, stage |-> "committed"] /\ UnderWay # None
  BY <1>0, <1>8, PendingIsShown DEF Shown, Reached, Order
<1>10. Shown'
  BY <1>5, <1>7, PendingIsShown, PTL
<1>11. UnderWay' = [version |-> v, stage |-> "tagged"]
  BY <1>1, <1>4, <1>8, <1>10 DEF Shown, Reached
<1> QED
  BY <1>4, <1>5, <1>6, <1>7, <1>9, <1>11 DEF Order, OneAtATime!Advance

LEMMA PushTagStep ==
    ASSUME Inv, Order, PushTag
    PROVE  Order' /\ (OneAtATime!Advance \/ UNCHANGED <<Out, UnderWay>>)
<1>1. UNCHANGED <<main, distTags, releases>> /\ run.at = "tag"
  BY DEF PushTag, remote
<1>2. run.sha \in ReleaseCommits /\ main[run.sha].version = run.version
  BY <1>1 DEF Order, RunInOrder
<1>3. CASE run' = Idle /\ tags' = tags
  BY <1>1, <1>3, NothingMoves, QuietStep DEF Unbound, Idle
<1>4. CASE /\ run.version \notin DOMAIN tags /\ tags' = Adding(tags, run.version, run.sha)
           /\ run' = [run EXCEPT !.at = "handover"]
  <2>1. run'.at = "handover"
    BY <1>1, <1>4, SameWork DEF Building
  <2> QED
    BY <1>1, <1>2, <1>4, <2>1, TagStep
<1> QED
  BY <1>3, <1>4 DEF PushTag

LEMMA RecoverTagStep ==
    ASSUME Inv, Order, RecoverTag
    PROVE  Order' /\ (OneAtATime!Advance \/ UNCHANGED <<Out, UnderWay>>)
<1>1. UNCHANGED <<main, distTags, releases>> /\ run.at = "recover"
  BY DEF RecoverTag, remote
<1>2. run.version \in Version
  BY <1>1 DEF Order, RunInOrder
<1>3. run = [at |-> "recover", version |-> run.version, sha |-> run.sha]
  BY <1>1 DEF Inv, Shaped
<1>4. run' = Idle \/ run' = [run EXCEPT !.at = "resolve"]
  BY DEF RecoverTag
<1>5. run'.at \in {"idle", "resolve"}
  BY <1>3, <1>4 DEF Idle
<1>6. CASE tags' = tags
  BY <1>1, <1>5, <1>6, NothingMoves, QuietStep DEF Unbound
<1>7. CASE /\ run.version \notin DOMAIN tags /\ tags' = Adding(tags, run.version, run.sha)
           /\ run.sha \in Commits /\ main[run.sha].version = run.version
  <2>1. run.sha \in ReleaseCommits
    BY <1>2, <1>7, NoneIsNoVersion DEF ReleaseCommits
  <2> QED
    BY <1>1, <1>5, <1>7, <2>1, TagStep
<1> QED
  BY <1>6, <1>7 DEF RecoverTag

LEMMA DistributionTagStep ==
    ASSUME Inv, Order, PushDistributionTag
    PROVE  Order' /\ OneAtATime!Advance
<1>0. PICK v : v = run.version
  OBVIOUS
<1>1. /\ UNCHANGED <<main, tags, releases>> /\ run.at = "dist-tag"
      /\ distTags' = Adding(distTags, v, Len(dist)) /\ run' = [run EXCEPT !.at = "check"]
  BY <1>0 DEF PushDistributionTag, source
<1>2. v \in DOMAIN tags /\ v \notin DOMAIN distTags
  BY <1>0, <1>1 DEF Inv, RunHolds, Published
<1>3. DOMAIN distTags' = DOMAIN distTags \union {v}
  BY <1>1 DEF Adding
<1>4. ReleaseCommits' = ReleaseCommits /\ Out' = Out /\ Pending' = Pending
  BY <1>1 DEF ReleaseCommits, Commits, Out, IsOfficial, Pending
<1>5. MainInOrder'
  BY <1>1 DEF Order, MainInOrder, ReleaseCommits, Commits
<1>6. TagsInOrder'
  BY <1>1, <1>2, <1>3, <1>4 DEF Order, TagsInOrder
<1>7. OneBehind'
  <2>1. PICK T, L \in ReleaseCommits : Ends(T, L)
    BY DEF Order, OneBehind
  <2>2. Ends(T, L)'
    BY <1>1, <1>4, <2>1 DEF Ends
  <2> QED
    BY <1>4, <2>1, <2>2 DEF OneBehind
<1>8. RunInOrder'
  <2>1. run'.at = "check"
    BY <1>1, SameWork DEF Building, Published
  <2> QED
    BY <2>1 DEF RunInOrder
<1>9. v \in Pending
  <2>1. v \notin Out
    BY <1>2, OutIsTagged DEF Order
  <2>2. tags[v] \in ReleaseCommits /\ main[tags[v]].version = v
    BY <1>2 DEF Order, TagsInOrder
  <2> QED
    BY <2>1, <2>2 DEF Pending
<1>10. UnderWay = [version |-> v, stage |-> "tagged"] /\ UnderWay # None
  BY <1>2, <1>9, PendingIsShown DEF Shown, Reached, Order
<1>11. Shown'
  BY <1>5, <1>7, PendingIsShown, PTL
<1>12. UnderWay' = [version |-> v, stage |-> "distributed"]
  BY <1>3, <1>4, <1>9, <1>11 DEF Shown, Reached
<1> QED
  BY <1>4, <1>5, <1>6, <1>7, <1>8, <1>10, <1>12 DEF Order, OneAtATime!Advance

\* Only the Release that is made official can come to be out.
LEMMA UndraftStep ==
    ASSUME Inv, Order, Undraft
    PROVE  Order' /\ (OneAtATime!Release \/ UNCHANGED <<Out, UnderWay>>)
<1>0. PICK v : v = run.version
  OBVIOUS
<1>1. /\ UNCHANGED <<main, tags, distTags>> /\ run.at = "upload" /\ run' = [run EXCEPT !.at = "verify"]
      /\ releases' = [releases EXCEPT ![v] = [draft |-> FALSE, assets |-> @.assets]]
  BY <1>0 DEF Undraft, source, remote
<1>2. v \in DOMAIN releases /\ v \in DOMAIN distTags /\ v \in DOMAIN tags
  BY <1>0, <1>1 DEF Inv, RunHolds, Published
<1>3. /\ DOMAIN releases' = DOMAIN releases
      /\ releases'[v] = [draft |-> FALSE, assets |-> releases[v].assets]
      /\ \A w \in DOMAIN releases \ {v} : releases'[w] = releases[w]
  BY <1>1, <1>2
<1>4. Unbound
  BY <1>1, SameWork DEF Building, Published, Unbound
<1>5. CASE Out' = Out
  BY <1>1, <1>4, <1>5, QuietStep DEF Quietly, Order, MainInOrder, ReleaseCommits, Commits
<1>6. CASE Out' # Out
  <2>1. v \notin Out /\ Out' = Out \union {v}
    BY <1>2, <1>3, <1>6 DEF Out, IsOfficial
  <2>2. ReleaseCommits' = ReleaseCommits
    BY <1>1 DEF ReleaseCommits, Commits
  <2>3. v \in Pending
    <3>1. tags[v] \in ReleaseCommits /\ main[tags[v]].version = v
      BY <1>2 DEF Order, TagsInOrder
    <3> QED
      BY <2>1, <3>1 DEF Pending
  <2>4. PICK T, L \in ReleaseCommits : Ends(T, L)
    BY DEF Order, OneBehind
  <2>5. Pending = {v}
    BY <2>3, <2>4, PendingIsLast DEF Order
  <2>6. Pending' = {}
    BY <1>1, <2>1, <2>2, <2>5 DEF Pending
  <2>7. UnderWay = [version |-> v, stage |-> "distributed"] /\ UnderWay # None
    BY <1>2, <2>3, PendingIsShown DEF Shown, Reached, Order
  <2>8. UnderWay' = None
    BY <2>6 DEF UnderWay
  <2>9. MainInOrder' /\ TagsInOrder'
    BY <1>1, <2>2 DEF Order, MainInOrder, TagsInOrder
  <2>10. OneBehind'
    <3>1. Ends(T, L)'
      BY <1>1, <2>1, <2>2, <2>4 DEF Ends
    <3> QED
      BY <2>2, <2>4, <3>1 DEF OneBehind
  <2>11. RunInOrder'
    BY <1>1, SameWork DEF RunInOrder, Building, Published
  <2> QED
    BY <2>1, <2>7, <2>8, <2>9, <2>10, <2>11 DEF Order, OneAtATime!Release
<1> QED
  BY <1>5, <1>6

-----------------------------------------------------------------------------
(* The theorem.                                                                *)

LEMMA InitOrder == Init => Order /\ OneAtATime!Init
<1> SUFFICES ASSUME Init PROVE Order /\ OneAtATime!Init
  OBVIOUS
<1> DEFINE c == [pr |-> None, version |-> Baseline, notes |-> {}, planned |-> 0, preview |-> {}]
<1>1. main = <<c>> /\ main \in Seq({c}) /\ Len(main) = 1 /\ main[1].version = Baseline
  BY DEF Init
<1>2. DOMAIN tags = {Baseline} /\ tags[Baseline] = 1 /\ DOMAIN distTags = {Baseline} /\ run.at = "idle"
  BY DEF Init, Idle
<1>3. ReleaseCommits = {1} /\ Baseline \in Version
  BY <1>1, PipelineAssumption DEF ReleaseCommits, Commits
<1>4. Out = {Baseline}
  BY DEF Init, Out, IsOfficial
<1>5. MainInOrder
  <2>1. \E S : main \in Seq(S)
    BY <1>1
  <2> QED
    BY <1>1, <1>3, <2>1 DEF MainInOrder
<1>6. TagsInOrder /\ RunInOrder
  BY <1>1, <1>2, <1>3 DEF TagsInOrder, RunInOrder
<1>7. OneBehind
  <2>1. Ends(1, 1)
    BY <1>1, <1>2, <1>3, <1>4 DEF Ends
  <2> QED
    BY <1>3, <2>1 DEF OneBehind
<1>8. Pending = {}
  BY <1>1, <1>3, <1>4 DEF Pending
<1> QED
  BY <1>4, <1>5, <1>6, <1>7, <1>8 DEF Order, OneAtATime!Init, UnderWay

LEMMA StepOrder ==
    Inv /\ Order /\ [Next]_vars =>
        /\ Order'
        /\ [OneAtATime!Begin \/ OneAtATime!Advance \/ OneAtATime!Release]_<<Out, UnderWay>>
<1> SUFFICES ASSUME Inv, Order, [Next]_vars
             PROVE  /\ Order'
                    /\ [OneAtATime!Begin \/ OneAtATime!Advance \/ OneAtATime!Release]_<<Out, UnderWay>>
  OBVIOUS
<1>1. CASE UNCHANGED vars
  <2>1. UNCHANGED <<main, tags, distTags, releases>> /\ Unbound
    BY <1>1 DEF vars, Unbound
  <2> QED
    BY <2>1, NothingMoves, QuietStep
<1>2. CASE Job
  <2>1. CASE Start \/ VerifyRelease
    BY <2>1, AroundStep
  <2>2. CASE Plan \/ Prepare
    BY <2>2, PlanStep, PrepareStep
  <2>3. CASE PushMain \/ PushTag \/ RecoverTag
    BY <2>3, PushMainStep, PushTagStep, RecoverTagStep
  <2>4. CASE HandOver \/ Resolve \/ PushDistribution \/ VerifyDistribution
    BY <2>4, PassingStep
  <2>5. CASE PushDistributionTag \/ Undraft
    BY <2>5, DistributionTagStep, UndraftStep
  <2>6. CASE Finalize \/ \E a \in Attached : Upload(a)
    BY <2>6, DraftStep
  <2> QED
    BY <1>2, <2>1, <2>2, <2>3, <2>4, <2>5, <2>6 DEF Job
<1>3. CASE (\E p \in Pr : Merge(p) \/ EditBody(p)) \/ Dispatch \/ Fail
  BY <1>3, MergeStep, AroundStep
<1>4. CASE \E a \in Attached : UploadBreaks(a)
  BY <1>4, DraftStep
<1> QED
  BY <1>1, <1>2, <1>3, <1>4 DEF Next

\* The release flow implements its contract for every set of pull requests,
\* archives and builds and any number of failures: a version is begun only when
\* none is under way, goes through the stages in their order, and is not overtaken
\* (finalization.py, commands/, release-publish.yml).
THEOREM FlowKeepsContract == Spec => KeepsContract
<1>1. Init => Inv /\ Order /\ OneAtATime!Init
  BY InitInv, InitOrder
<1>2. Inv /\ Order /\ [Next]_vars =>
        /\ Inv' /\ Order'
        /\ [OneAtATime!Begin \/ OneAtATime!Advance \/ OneAtATime!Release]_<<Out, UnderWay>>
  BY StepInv, StepOrder
<1> QED
  BY <1>1, <1>2, PTL DEF Spec, KeepsContract, OneAtATime!Spec

-----------------------------------------------------------------------------
(* Types. What a job carries is typed with the state, as it becomes a commit,  *)
(* a tag or an asset some steps later.                                         *)

MainTyped == \A k \in Commits : main[k].pr \in Pr \/ (main[k].pr = None /\ main[k].version # None)
TagsTyped == \A v \in DOMAIN tags : tags[v] \in Commits /\ main[tags[v]].version = v
DistTyped ==
    /\ \A k \in 1 .. Len(dist) : dist[k].source \in Commits /\ dist[k].tree \in Trees
    /\ \A v \in DOMAIN distTags : distTags[v] \in 1 .. Len(dist) /\ dist[distTags[v]].version = v
ReleasesTyped ==
    \A v \in DOMAIN releases : /\ releases[v].draft \in BOOLEAN
                               /\ DOMAIN releases[v].assets \subseteq Archives
                               /\ \A a \in DOMAIN releases[v].assets :
                                     releases[v].assets[a].build \in Builds
RestTyped ==
    /\ body \in [Pr -> Intent] /\ waiting \in {None, "push", "workflow_dispatch"}
    /\ run.at \in Stage /\ failures \in 0 .. MaxFailures /\ refused \in BOOLEAN

\* The build in hand is one there can be, and the commit in hand is a release commit.
RunTyped ==
    /\ run.at \in Building \union {"push"} => run.build \in Builds
    /\ run.at = "push" => run.commit.pr = None

Typed == MainTyped /\ TagsTyped /\ DistTyped /\ ReleasesTyped /\ RestTyped /\ RunTyped

LEMMA TypedIsTypeOK ==
    ASSUME Inv, Typed
    PROVE  TypeOK
<1>1. PICK S : dist \in Seq(S)
  BY DEF Inv, Distribution
<1>2. DOMAIN dist = 1 .. Len(dist) /\ ToSet(dist) = {dist[k] : k \in DOMAIN dist}
  BY <1>1 DEF ToSet
<1>3. \A c \in ToSet(dist) : c.source \in Commits /\ c.tree \in Trees
  BY <1>2 DEF Typed, DistTyped
<1> QED
  BY <1>2, <1>3 DEF Typed, MainTyped, TagsTyped, DistTyped, ReleasesTyped, RestTyped, TypeOK

LEMMA InitTyped == Init => Typed
<1> SUFFICES ASSUME Init PROVE Typed
  OBVIOUS
<1>1. Len(main) = 1 /\ main[1].version = Baseline /\ main[1].pr = None
  BY DEF Init
<1>2. Commits = {1} /\ Baseline # None
  BY <1>1, PipelineAssumption DEF Commits
<1>3. MainTyped /\ TagsTyped
  BY <1>1, <1>2 DEF Init, MainTyped, TagsTyped
<1>4. PICK build \in Builds :
        /\ dist = <<[version |-> Baseline, source |-> 1, tree |-> build.tree]>>
        /\ releases = [v \in {Baseline} |-> [draft |-> FALSE,
                          assets |-> [a \in Archives |-> [source |-> 1, build |-> build, uploaded |-> TRUE]]]]
  BY PipelineAssumption DEF Init
<1>5. build.tree \in Trees
  BY PipelineAssumption
<1>6. DistTyped
  BY <1>2, <1>4, <1>5 DEF Init, DistTyped
<1>7. ReleasesTyped
  BY <1>4 DEF ReleasesTyped
<1>8. RestTyped
  <2>1. body \in [Pr -> Intent]
    BY PipelineAssumption DEF Init, Intent
  <2>2. failures \in 0 .. MaxFailures
    BY PipelineAssumption DEF Init
  <2> QED
    BY <2>1, <2>2 DEF Init, Idle, RestTyped, Stage
<1>9. RunTyped
  BY DEF Init, Idle, RunTyped, Building, Published
<1> QED
  BY <1>3, <1>6, <1>7, <1>8, <1>9 DEF Typed

\* A longer main keeps what is said of its commits.
LEMMA LongerMain ==
    ASSUME MainInOrder, Typed, NEW c, main' = Append(main, c), c.pr \in Pr \/ (c.pr = None /\ c.version # None),
           UNCHANGED <<tags, dist, distTags>>
    PROVE  MainTyped' /\ TagsTyped' /\ DistTyped'
<1>1. PICK S : main \in Seq(S)
  BY DEF MainInOrder
<1>2. /\ Len(main') = Len(main) + 1 /\ Len(main) \in Nat
      /\ \A k \in 1 .. Len(main) : main'[k] = main[k]
      /\ main'[Len(main) + 1] = c
  BY <1>1
<1>3. Commits' = Commits \union {Len(main) + 1} /\ \A k \in Commits : main'[k] = main[k]
  BY <1>2 DEF Commits
<1> QED
  BY <1>2, <1>3 DEF Typed, MainTyped, TagsTyped, DistTyped

LEMMA AroundTyped ==
    ASSUME Inv, Order, Typed, Dispatch \/ Fail \/ Start \/ VerifyRelease \/ \E p \in Pr : Merge(p) \/ EditBody(p)
    PROVE  Typed'
<1> USE DEF source, remote
<1>1. CASE \E p \in Pr : Merge(p)
  <2>1. PICK p \in Pr : Merge(p)
    BY <1>1
  <2>2. MainTyped' /\ TagsTyped' /\ DistTyped'
    BY <2>1, LongerMain DEF Merge, ChangeCommit, Order
  <2> QED
    BY <2>1, <2>2 DEF Merge, Typed, ReleasesTyped, RestTyped, RunTyped
<1>2. CASE \E p \in Pr : EditBody(p)
  <2>1. PICK p \in Pr : EditBody(p)
    BY <1>2
  <2>2. body' \in [Pr -> Intent]
    BY <2>1, PipelineAssumption DEF EditBody, Typed, RestTyped
  <2> QED
    BY <2>1, <2>2 DEF EditBody, Typed, MainTyped, TagsTyped, DistTyped, ReleasesTyped, RestTyped, RunTyped, Commits
<1>3. CASE Dispatch
  BY <1>3 DEF Dispatch, Typed, MainTyped, TagsTyped, DistTyped, ReleasesTyped, RestTyped, RunTyped, Commits
<1>4. CASE Fail \/ Start \/ VerifyRelease
  <2>1. UNCHANGED <<main, tags, dist, distTags, releases, body, refused>>
    BY <1>4 DEF Fail, Start, VerifyRelease, Quiet
  <2>2. run'.at \in {"idle", "plan"}
    BY <1>4 DEF Fail, Start, VerifyRelease, Idle
  <2>3. waiting' \in {None, "push", "workflow_dispatch"}
    BY <1>4 DEF Fail, Start, VerifyRelease, Quiet, Typed, RestTyped
  <2>4. failures' \in 0 .. MaxFailures
    BY <1>4, PipelineAssumption DEF Fail, Start, VerifyRelease, Quiet, Typed, RestTyped
  <2> QED
    BY <2>1, <2>2, <2>3, <2>4 DEF Typed, MainTyped, TagsTyped, DistTyped, ReleasesTyped, RestTyped, RunTyped,
       Commits, Stage, Building, Published
<1> QED
  BY <1>1, <1>2, <1>3, <1>4

\* A step of a job that writes no remote.
LEMMA ReadingTyped ==
    ASSUME Typed, UNCHANGED <<main, tags, dist, distTags, releases, body, waiting, failures>>,
           run'.at \in Stage, refused' \in BOOLEAN,
           run'.at \in Building \union {"push"} => run'.build \in Builds,
           run'.at = "push" => run'.commit.pr = None
    PROVE  Typed'
BY DEF Typed, MainTyped, TagsTyped, DistTyped, ReleasesTyped, RestTyped, RunTyped, Commits

LEMMA PlanTyped ==
    ASSUME Inv, Typed, Plan \/ Prepare \/ HandOver \/ Resolve \/ VerifyDistribution
    PROVE  Typed'
<1> USE DEF source, remote, Quiet, Building, Published, Stage
<1>1. UNCHANGED <<main, tags, dist, distTags, releases, body, waiting, failures>> /\ refused' \in BOOLEAN
  BY DEF Plan, Prepare, HandOver, Resolve, VerifyDistribution, Typed, RestTyped
<1>2. CASE Plan
  <2>1. run'.at \in {"idle", "recover", "resolve", "prepare"}
    BY <1>2 DEF Plan, NoRelease, Idle
  <2> QED
    BY <1>1, <2>1, ReadingTyped
<1>3. CASE Prepare
  <2>1. PICK build \in Builds : run' = Idle \/ \E n : run' = [at |-> "push", version |-> run.version,
                build |-> build, base |-> Len(main), commit |-> ReleaseCommit(n)]
    BY <1>3 DEF Prepare
  <2>2. /\ run'.at \in {"idle", "push"}
        /\ run'.at = "push" => run'.build \in Builds /\ run'.commit.pr = None
    BY <2>1 DEF Idle, ReleaseCommit
  <2> QED
    BY <1>1, <2>2, ReadingTyped
<1>4. CASE HandOver \/ VerifyDistribution
  <2>1. /\ run'.at \in {"idle", "distribute", "finalize"}
        /\ run'.at # "idle" => run'.build = run.build /\ run.at \in Building
    BY <1>4 DEF HandOver, VerifyDistribution, Idle, Inv, Shaped
  <2>2. run'.at # "idle" => run'.build \in Builds
    BY <2>1 DEF Typed, RunTyped
  <2> QED
    BY <1>1, <2>1, <2>2, ReadingTyped
<1>5. CASE Resolve
  <2>1. /\ run'.at \in {"idle", "distribute"}
        /\ run'.at # "idle" => run'.build \in Builds
    BY <1>5 DEF Resolve, Idle
  <2> QED
    BY <1>1, <2>1, ReadingTyped
<1> QED
  BY <1>2, <1>3, <1>4, <1>5

LEMMA PushMainTyped ==
    ASSUME Order, Typed, PushMain
    PROVE  Typed'
<1> USE DEF source, remote, Building, Published, Stage
<1>1. CASE Len(main) # run.base
  <2>1. run'.at = "idle" /\ UNCHANGED <<main, tags, dist, distTags, releases, body, waiting, failures, refused>>
    BY <1>1 DEF PushMain, Idle
  <2> QED
    BY <2>1, ReadingTyped DEF Typed, RestTyped
<1>2. CASE Len(main) = run.base
  <2>1. run.commit.pr = None /\ run.commit.version # None
    BY NoneIsNoVersion DEF PushMain, Typed, RunTyped, Order, RunInOrder
  <2>2. MainTyped' /\ TagsTyped' /\ DistTyped'
    BY <1>2, <2>1, LongerMain DEF PushMain, Order
  <2>3. /\ run'.at = "tag" /\ run'.build = run.build /\ run.at = "push"
        /\ UNCHANGED <<releases, body, waiting, failures, refused>>
    BY <1>2 DEF PushMain
  <2>4. RunTyped'
    BY <2>3 DEF Typed, RunTyped
  <2> QED
    BY <2>2, <2>3, <2>4 DEF Typed, ReleasesTyped, RestTyped
<1> QED
  BY <1>1, <1>2

\* A version's tag is put on its commit.
LEMMA PushTagTyped ==
    ASSUME Inv, Order, Typed, PushTag \/ RecoverTag
    PROVE  Typed'
<1> USE DEF source, remote, Building, Published, Stage
<1>1. UNCHANGED <<main, dist, distTags, releases, body, waiting, failures, refused>>
  BY DEF PushTag, RecoverTag
<1>2. \/ tags' = tags
      \/ /\ tags' = Adding(tags, run.version, run.sha)
         /\ run.sha \in Commits /\ main[run.sha].version = run.version
  <2>1. CASE PushTag
    BY <2>1 DEF PushTag, Order, RunInOrder, ReleaseCommits
  <2>2. CASE RecoverTag
    BY <2>2 DEF RecoverTag
  <2> QED
    BY <2>1, <2>2
<1>3. TagsTyped'
  <2>1. CASE tags' = tags
    BY <1>1, <2>1 DEF Typed, TagsTyped, Commits
  <2>2. CASE tags' # tags
    BY <1>1, <1>2, <2>2 DEF Typed, TagsTyped, Commits, Adding
  <2> QED
    BY <2>1, <2>2
<1>4. /\ run'.at \in {"idle", "handover", "resolve"}
      /\ run'.at = "handover" => run'.build = run.build /\ run.at = "tag"
  <2>1. CASE PushTag
    BY <2>1 DEF PushTag, Idle, Inv, Shaped
  <2>2. CASE RecoverTag
    BY <2>2 DEF RecoverTag, Idle
  <2> QED
    BY <2>1, <2>2
<1> QED
  BY <1>1, <1>3, <1>4 DEF Typed, MainTyped, DistTyped, ReleasesTyped, RestTyped, RunTyped, Commits

\* The distribution gets a commit of a build, then its tag.
LEMMA DistributeTyped ==
    ASSUME Inv, Typed, PushDistribution \/ PushDistributionTag
    PROVE  Typed'
<1> USE DEF source, remote, Building, Published, Stage
<1>1. PICK S : dist \in Seq(S)
  BY DEF Inv, Distribution
<1>2. run.build \in Builds /\ run.build.tree \in Trees
  BY PipelineAssumption DEF PushDistribution, PushDistributionTag, Typed, RunTyped
<1>3. CASE PushDistribution
  <2>1. /\ UNCHANGED <<main, tags, distTags, releases, body, waiting, failures>>
        /\ run'.at \in {"idle", "dist-tag", "check"}
        /\ run'.at # "idle" => run'.build = run.build
        /\ refused' \in BOOLEAN
    BY <1>3 DEF PushDistribution, Idle, Typed, RestTyped
  <2>2. dist' = dist \/ (dist' = Append(dist, DistCommit) /\ run.sha \in Commits)
    BY <1>3 DEF PushDistribution, SourceHolds
  <2>3. DistTyped'
    <3>1. CASE dist' = dist
      BY <2>1, <3>1 DEF Typed, DistTyped, Commits
    <3>2. CASE dist' = Append(dist, DistCommit) /\ run.sha \in Commits
      <4>1. /\ Len(dist') = Len(dist) + 1 /\ Len(dist) \in Nat
            /\ \A k \in 1 .. Len(dist) : dist'[k] = dist[k]
            /\ dist'[Len(dist) + 1] = DistCommit
        BY <1>1, <3>2
      <4>2. DistCommit.source \in Commits /\ DistCommit.tree \in Trees
        BY <1>2, <3>2 DEF DistCommit
      <4>3. \A k \in 1 .. Len(dist') : k \in 1 .. Len(dist) \/ k = Len(dist) + 1
        BY <4>1
      <4>4. \A k \in 1 .. Len(dist') : dist'[k].source \in Commits /\ dist'[k].tree \in Trees
        BY <4>1, <4>2, <4>3 DEF Typed, DistTyped
      <4>5. \A v \in DOMAIN distTags : /\ distTags[v] \in 1 .. Len(dist')
                                       /\ dist'[distTags[v]].version = v
        BY <4>1 DEF Typed, DistTyped
      <4> QED
        BY <2>1, <4>4, <4>5 DEF DistTyped, Commits
    <3> QED
      BY <2>2, <3>1, <3>2
  <2> QED
    BY <1>2, <2>1, <2>3 DEF Typed, MainTyped, TagsTyped, ReleasesTyped, RestTyped, RunTyped, Commits
<1>4. CASE PushDistributionTag
  <2>1. /\ UNCHANGED <<main, tags, dist, releases, body, waiting, failures, refused>>
        /\ run' = [run EXCEPT !.at = "check"] /\ run.at = "dist-tag"
        /\ distTags' = Adding(distTags, run.version, Len(dist))
    BY <1>4 DEF PushDistributionTag
  <2>2. dist[Len(dist)].version = run.version /\ Len(dist) \in 1 .. Len(dist)
    BY <1>1, <2>1 DEF Inv, RunHolds, Distribution, DistCommit
  <2>3. DistTyped'
    BY <2>1, <2>2 DEF Typed, DistTyped, Adding, Commits
  <2>4. run'.at = "check" /\ run'.build = run.build
    BY <2>1, <1>2 DEF Inv, Shaped
  <2> QED
    BY <1>2, <2>1, <2>3, <2>4 DEF Typed, MainTyped, TagsTyped, ReleasesTyped, RestTyped, RunTyped, Commits
<1> QED
  BY <1>3, <1>4

\* A Release gets archives of the build in hand.
LEMMA FinalizeTyped ==
    ASSUME Inv, Typed, Finalize \/ Undraft \/ \E a \in Attached : Upload(a) \/ UploadBreaks(a)
    PROVE  Typed'
<1> USE DEF source, remote, Building, Published, Stage
<1>1. UNCHANGED <<main, tags, dist, distTags, body, waiting>> /\ run.build \in Builds
  BY DEF Finalize, Undraft, Upload, UploadBreaks, Typed, RunTyped
<1>2. /\ run'.at \in Stage /\ run'.at # "push"
      /\ run'.at \in Building => run'.build = run.build
  <2>1. run' = run \/ run' = Idle \/ run' = [run EXCEPT !.at = "upload"] \/ run' = [run EXCEPT !.at = "verify"]
    BY DEF Finalize, Undraft, Upload, UploadBreaks
  <2>2. run.at \in {"finalize", "upload"}
    BY DEF Finalize, Undraft, Upload, UploadBreaks
  <2>3. run = [at |-> run.at, version |-> run.version, sha |-> run.sha, build |-> run.build]
    BY <2>2 DEF Inv, Shaped
  <2> QED
    BY <2>1, <2>2, <2>3 DEF Idle
<1>3. failures' \in 0 .. MaxFailures /\ refused' \in BOOLEAN
  <2>1. \/ failures' = failures
        \/ failures < MaxFailures /\ failures' = failures + 1
    BY DEF Finalize, Undraft, Upload, UploadBreaks
  <2>2. MaxFailures \in Nat /\ failures \in 0 .. MaxFailures /\ refused \in BOOLEAN
    BY PipelineAssumption DEF Typed, RestTyped
  <2>3. refused' = refused \/ refused' \in BOOLEAN
    BY DEF Finalize, Undraft, Upload, UploadBreaks
  <2> QED
    BY <2>1, <2>2, <2>3
<1>4. ReleasesTyped'
  <2>1. CASE Finalize
    <3>1. \/ releases' = releases
          \/ releases' = Adding(releases, run.version, [draft |-> TRUE, assets |-> <<>>])
      BY <2>1 DEF Finalize
    <3>2. DOMAIN <<>> = {}
      OBVIOUS
    <3>3. CASE releases' = Adding(releases, run.version, [draft |-> TRUE, assets |-> <<>>])
      <4> DEFINE e == [draft |-> TRUE, assets |-> <<>>]
      <4>1. e.draft \in BOOLEAN /\ DOMAIN e.assets = {}
        BY <3>2
      <4> HIDE DEF e
      <4> QED
        BY <3>3, <4>1 DEF Typed, ReleasesTyped, Adding, e
    <3> QED
      BY <3>1, <3>3 DEF Typed, ReleasesTyped
  <2>2. CASE Undraft
    <3>1. releases' = [releases EXCEPT ![run.version] = [draft |-> FALSE, assets |-> @.assets]]
      BY <2>2 DEF Undraft
    <3> QED
      BY <3>1 DEF Typed, ReleasesTyped
  <2>3. CASE \E a \in Attached : Upload(a) \/ UploadBreaks(a)
    <3>1. PICK a \in Attached, u \in BOOLEAN : releases' =
              [releases EXCEPT ![run.version].assets = Adding(@, a, Asset(u))]
      BY <2>3 DEF Upload, UploadBreaks
    <3>2. a \in Archives /\ Asset(u).build = run.build
      BY PipelineAssumption DEF Asset
    <3>3. SUFFICES ASSUME NEW v \in DOMAIN releases'
                   PROVE  /\ releases'[v].draft \in BOOLEAN
                          /\ DOMAIN releases'[v].assets \subseteq Archives
                          /\ \A b \in DOMAIN releases'[v].assets : releases'[v].assets[b].build \in Builds
      BY DEF ReleasesTyped
    <3>4. v \in DOMAIN releases
      BY <3>1
    <3>5. /\ releases[v].draft \in BOOLEAN
          /\ DOMAIN releases[v].assets \subseteq Archives
          /\ \A b \in DOMAIN releases[v].assets : releases[v].assets[b].build \in Builds
      BY <3>4 DEF Typed, ReleasesTyped
    <3>6. CASE v # run.version
      BY <3>1, <3>4, <3>5, <3>6
    <3>7. CASE v = run.version
      <4>1. releases[v] = [draft |-> releases[v].draft, assets |-> releases[v].assets]
        BY <3>4 DEF Inv, Shaped
      <4>2. /\ releases'[v].draft = releases[v].draft
            /\ releases'[v].assets = Adding(releases[v].assets, a, Asset(u))
        BY <3>1, <3>4, <3>7, <4>1
      <4> QED
        BY <1>1, <3>2, <3>5, <4>2 DEF Adding
    <3> QED
      BY <3>6, <3>7
  <2> QED
    BY <2>1, <2>2, <2>3
<1> QED
  BY <1>1, <1>2, <1>3, <1>4 DEF Typed, MainTyped, TagsTyped, DistTyped, RestTyped, RunTyped, Commits

LEMMA StepTyped == Inv /\ Order /\ Typed /\ [Next]_vars => Typed'
<1> SUFFICES ASSUME Inv, Order, Typed, [Next]_vars PROVE Typed'
  OBVIOUS
<1>1. CASE UNCHANGED vars
  BY <1>1 DEF vars, Typed, MainTyped, TagsTyped, DistTyped, ReleasesTyped, RestTyped, RunTyped, Commits
<1>2. CASE Next
  BY <1>2, AroundTyped, PlanTyped, PushMainTyped, PushTagTyped, DistributeTyped, FinalizeTyped DEF Next, Job
<1> QED
  BY <1>1, <1>2

\* Every tag of the source and of the distribution names a commit of its own version,
\* and every asset of a Release is an archive of a build, for any pull requests,
\* archives, builds and failures (commands/, distribution.py, finalization.py).
THEOREM ReleaseTypeCorrect == Spec => []TypeOK
<1>1. Init => Inv /\ Order /\ Typed
  BY InitInv, InitOrder, InitTyped
<1>2. (Inv /\ Order /\ Typed) /\ [Next]_vars => (Inv /\ Order /\ Typed)'
  BY StepInv, StepOrder, StepTyped
<1>3. Inv /\ Order /\ Typed => TypeOK
  BY TypedIsTypeOK
<1> QED
  BY <1>1, <1>2, <1>3, PTL DEF Spec

-----------------------------------------------------------------------------
(* The notes of a version, and the version they give. Pull requests of which   *)
(* one writes about another, or that bring the same change twice, can break    *)
(* both; so can the one migration that forces a patch.                         *)

\* The merges of main, those since the last release commit, and those of a release.
Changes == {k \in Commits : main[k].pr # None}
Open(k) == \A r \in ReleaseCommits : r < k
OpenChanges == {k \in Changes : Open(k)}
ShippedBy(r) == {k \in Changes : Following(k) = {r}}
Tip(T) == T \in ReleaseCommits /\ \A r \in ReleaseCommits : r <= T

\* main is release commits and pull requests based on it, each merged once.
Merged ==
    /\ 1 \in ReleaseCommits /\ main[1].version = Baseline
    /\ \A k \in Commits : main[k].pr = None <=> k \in ReleaseCommits
    /\ \A k \in Changes : main[k].pr \in Pr /\ Pull[main[k].pr].base = "main"
    /\ \A k, l \in Changes : main[k].pr = main[l].pr => k = l
    /\ DOMAIN body = Pr

\* Notes are of some merges: of nothing else, and of all they bring.
From(N, K) == \A e \in N : e.pr \in Pr => \E k \in K : e.pr \in Owned(main[k].pr)
Full(N, K) == \A k \in K : \A p \in Brought(k) : \E e \in N : e.pr = p

\* A release commit has the notes of the merges it is the first to follow.
NotesKept == \A r \in ReleaseCommits :
    From(main[r].notes, ShippedBy(r)) /\ Full(main[r].notes, ShippedBy(r))

\* So has the one to be pushed, as long as main has not moved.
RunNotes ==
    /\ run.at = "prepare" => run.baseline \in DOMAIN tags /\ Tip(tags[run.baseline])
    /\ run.at = "push" =>
          /\ run.base \in Nat /\ run.base <= Len(main) /\ run.commit.pr = None
          /\ run.base = Len(main) =>
                From(run.commit.notes, OpenChanges) /\ Full(run.commit.notes, OpenChanges)

NotesInv == Merged /\ NotesKept /\ RunNotes

-----------------------------------------------------------------------------
(* What the changelog is generated to be.                                      *)

\* What a merge brings is of one merge only.
LEMMA OneOwner ==
    ASSUME OwnNotes, Merged, NEW j \in Changes, NEW k \in Changes,
           NEW p \in Brought(k), p \in Owned(main[j].pr)
    PROVE  j = k
<1> DEFINE P == main[k].pr
           Q == main[j].pr
<1>1. /\ P \in Pr /\ Q \in Pr /\ Pull[P].base # IntegrationBranch /\ Pull[Q].base # IntegrationBranch
      /\ P = Q => j = k
  BY DEF Merged, IntegrationBranch
<1>2. p = P \/ (p \in Branch(P) /\ ~ Pull[p].sync)
  BY DEF Brought, Branch
<1>3. p = Q \/ p \in Branch(Q)
  BY DEF Owned
<1> HIDE DEF P, Q
<1>4. P = Q
  BY <1>1, <1>2, <1>3 DEF OwnNotes, Branch
<1> QED
  BY <1>1, <1>4

LEMMA OpenNotes ==
    ASSUME OwnNotes, Merged, MainInOrder, NEW v, Tip(tags[v]), ~ GenerationFails(v)
    PROVE  /\ \A e \in generate_changelog(v) :
                 /\ e.category \in Category
                 /\ e.pr \in Pr => \E k \in OpenChanges : e.pr \in Owned(main[k].pr)
           /\ \A k \in OpenChanges :
                 /\ Pull[main[k].pr].bullets \subseteq generate_changelog(v)
                 /\ \A p \in Brought(k) :
                       /\ p \in Pr /\ body[p] \in Category
                       /\ (\A b \in Pull[main[k].pr].bullets : b.pr # p) =>
                              Entry(p, body) \in generate_changelog(v)
                       /\ \A e \in generate_changelog(v) : e.pr = p =>
                              \/ e \in Pull[main[k].pr].bullets
                              \/ /\ e = Entry(p, body)
                                 /\ \A b \in Pull[main[k].pr].bullets : b.pr # p
<1> DEFINE N == generate_changelog(v)
           prs == Since(tags[v])
           shipped == UpTo(tags[v])
           folded == Folded(prs, shipped, body)
           entries == Entries(prs, shipped, body)
<1>1. \A k \in Commits : k > tags[v] <=> Open(k)
  BY CommitsAreNat DEF Tip, Open, Commits
<1>2. \A q : q \in prs <=> \E k \in OpenChanges : q = main[k].pr
  BY <1>1 DEF Since, OpenChanges, Changes
<1>3. \A b : b \in OnDisk <=> \E k \in OpenChanges : b \in Pull[main[k].pr].bullets
  BY DEF OnDisk, Curated, OpenChanges, Changes, Open, ReleaseCommits
<1>4. \A q \in prs \union shipped : q \in Pr /\ Pull[q].base # IntegrationBranch
  BY DEF Since, UpTo, Merged, Changes, IntegrationBranch
<1>5. /\ Uncovered(prs, body) = {} /\ Uncovered(folded, body) = {}
      /\ \A b \in OnDisk : b.category \in Category
  BY DEF GenerationFails, Problems, Ambiguous
<1>6. /\ \A e \in N : e \in OnDisk \/ (e \in entries /\ \A c \in OnDisk : c.pr # e.pr)
      /\ OnDisk \subseteq N
      /\ \A e \in entries : (\A c \in OnDisk : c.pr # e.pr) => e \in N
  BY DEF generate_changelog, compose_unreleased
<1>7. \A c \in folded : \E p \in prs : c \in Branch(p)
  BY DEF Folded, Children, Branch
<1>8. \A e \in entries : /\ e = Entry(e.pr, body) /\ e.pr \in prs \union folded
                         /\ ReleaseWorthy(Pull[e.pr].paths)
  BY DEF Entries, Entry
<1>9. \A q \in prs \union folded : ReleaseWorthy(Pull[q].paths) =>
          Entry(q, body) \in entries /\ body[q] \in Category
  BY <1>5 DEF Entries, Uncovered, ShipsEntry
<1>10. \A q : Entry(q, body).pr = q /\ Entry(q, body).category = body[q]
  BY DEF Entry
<1>11. \A k \in OpenChanges : \A p \in Brought(k) : p \in Pr /\ p \in prs \union folded
  <2> SUFFICES ASSUME NEW k \in OpenChanges, NEW p \in Brought(k)
               PROVE  p \in Pr /\ p \in prs \union folded
    OBVIOUS
  <2> DEFINE P == main[k].pr
  <2>1. P \in prs /\ P \in Pr
    BY <1>2, <1>4
  <2>2. CASE p = P
    BY <2>1, <2>2
  <2>3. CASE p \in Branch(P) /\ ~ Pull[p].sync
    <3>1. p \in Pr
      BY <2>1, <2>3, PolicyAssumption DEF Branch
    <3>2. Pull[p].named /\ ReleaseWorthy(Pull[P].paths)
      BY <2>1, <2>3 DEF OwnNotes, Brought
    <3>3. p \notin prs \union shipped
      BY <1>4, <2>3 DEF Branch
    <3>4. p \in Children(P, prs, shipped)
      BY <2>3, <3>2, <3>3 DEF Children, Branch
    <3>5. p \in folded
      BY <1>5, <2>1, <3>2, <3>4 DEF Folded
    <3> QED
      BY <3>1, <3>5
  <2> QED
    BY <2>2, <2>3 DEF Brought, Branch
<1> HIDE DEF N, prs, shipped, folded, entries
<1>12. ASSUME NEW e \in N
       PROVE  /\ e.category \in Category
              /\ e.pr \in Pr => \E k \in OpenChanges : e.pr \in Owned(main[k].pr)
  <2>1. CASE e \in OnDisk
    BY <1>2, <1>3, <1>4, <1>5, <2>1 DEF OwnNotes
  <2>2. CASE e \in entries
    <3>1. e.category = body[e.pr] /\ body[e.pr] \in Category
      BY <1>8, <1>9, <1>10, <2>2
    <3>2. \E p \in prs : e.pr \in Owned(p)
      BY <1>7, <1>8, <2>2 DEF Owned
    <3> QED
      BY <1>2, <3>1, <3>2
  <2> QED
    BY <1>6, <2>1, <2>2
<1>13. ASSUME NEW k \in OpenChanges
       PROVE  Pull[main[k].pr].bullets \subseteq N
  BY <1>3, <1>6
<1>14. ASSUME NEW k \in OpenChanges, NEW p \in Brought(k)
       PROVE  /\ p \in Pr /\ body[p] \in Category
              /\ (\A b \in Pull[main[k].pr].bullets : b.pr # p) => Entry(p, body) \in N
              /\ \A e \in N : e.pr = p =>
                     \/ e \in Pull[main[k].pr].bullets
                     \/ e = Entry(p, body) /\ \A b \in Pull[main[k].pr].bullets : b.pr # p
  <2>1. p \in Pr /\ Entry(p, body) \in entries /\ body[p] \in Category
    BY <1>9, <1>11 DEF Brought
  <2>2. \A b \in OnDisk : b.pr = p => b \in Pull[main[k].pr].bullets
    <3> SUFFICES ASSUME NEW b \in OnDisk, b.pr = p PROVE b \in Pull[main[k].pr].bullets
      OBVIOUS
    <3>1. PICK j \in OpenChanges : b \in Pull[main[j].pr].bullets
      BY <1>3
    <3>2. p \in Owned(main[j].pr)
      BY <2>1, <3>1, <1>2, <1>4 DEF OwnNotes
    <3> QED
      BY <3>1, <3>2, OneOwner DEF OpenChanges
  <2>3. (\A b \in Pull[main[k].pr].bullets : b.pr # p) => Entry(p, body) \in N
    BY <1>6, <1>10, <2>1, <2>2
  <2>4. ASSUME NEW e \in N, e.pr = p
        PROVE  \/ e \in Pull[main[k].pr].bullets
               \/ e = Entry(p, body) /\ \A b \in Pull[main[k].pr].bullets : b.pr # p
    BY <1>3, <1>6, <1>8, <2>2, <2>4
  <2> QED
    BY <2>1, <2>3, <2>4
<1> QED
  BY <1>12, <1>13, <1>14 DEF N

-----------------------------------------------------------------------------
(* ShippedOnce.                                                                *)

LEMMA InitNotes == Init => NotesInv
<1> SUFFICES ASSUME Init PROVE NotesInv
  OBVIOUS
<1> DEFINE c == [pr |-> None, version |-> Baseline, notes |-> {}, planned |-> 0, preview |-> {}]
<1>1. main = <<c>> /\ Len(main) = 1 /\ main[1] = c /\ run.at = "idle" /\ DOMAIN body = Pr
  BY DEF Init, Idle
<1>2. Commits = {1} /\ ReleaseCommits = {1} /\ Changes = {}
  BY <1>1, PipelineAssumption DEF Commits, ReleaseCommits, Changes
<1>3. Merged /\ RunNotes
  BY <1>1, <1>2 DEF Merged, RunNotes
<1>4. NotesKept
  BY <1>1, <1>2 DEF NotesKept, ShippedBy, From, Full
<1> QED
  BY <1>3, <1>4 DEF NotesInv

\* Steps that leave main alone, and the run where its notes are not its concern.
LEMMA SameMain ==
    ASSUME UNCHANGED main
    PROVE  /\ UNCHANGED <<Commits, ReleaseCommits, Changes, OpenChanges>>
           /\ \A k : Following(k)' = Following(k) /\ ShippedBy(k)' = ShippedBy(k)
           /\ \A k : Brought(k)' = Brought(k) /\ Tip(k)' = Tip(k)
BY DEF Commits, ReleaseCommits, Changes, OpenChanges, Open, Following, ShippedBy, Brought, Tip

LEMMA SameMainNotes ==
    ASSUME NotesInv, UNCHANGED main, DOMAIN body' = DOMAIN body
    PROVE  Merged' /\ NotesKept' /\ \A N, K : From(N, K)' = From(N, K) /\ Full(N, K)' = Full(N, K)
<1>1. \A N, K : From(N, K)' = From(N, K) /\ Full(N, K)' = Full(N, K)
  BY SameMain DEF From, Full
<1>2. Merged' /\ NotesKept'
  BY <1>1, SameMain DEF NotesInv, Merged, NotesKept
<1> QED
  BY <1>1, <1>2

\* A step that is no step of plan, publish or a merge.
Elsewhere ==
    /\ UNCHANGED main /\ DOMAIN body' = DOMAIN body
    /\ (run' = run /\ tags' = tags) \/ run'.at \notin {"prepare", "push"}

LEMMA ElsewhereNotes ==
    ASSUME NotesInv, Elsewhere
    PROVE  NotesInv'
<1>1. Merged' /\ NotesKept'
  BY SameMainNotes DEF Elsewhere
<1>2. RunNotes'
  <2>1. CASE run' = run /\ tags' = tags
    BY <2>1, SameMain, SameMainNotes DEF NotesInv, RunNotes, Elsewhere
  <2>2. CASE run'.at \notin {"prepare", "push"}
    BY <2>2 DEF RunNotes
  <2> QED
    BY <2>1, <2>2 DEF Elsewhere
<1> QED
  BY <1>1, <1>2 DEF NotesInv

\* main grows by a commit.
LEMMA Grown ==
    ASSUME MainInOrder, NEW c, main' = Append(main, c)
    PROVE  /\ Len(main) \in Nat /\ Len(main') = Len(main) + 1 /\ main'[Len(main) + 1] = c
           /\ Commits' = Commits \union {Len(main) + 1}
           /\ \A k \in Commits : k \in Nat /\ k < Len(main) + 1
           /\ \A k \in Commits : main'[k] = main[k] /\ Brought(k)' = Brought(k)
<1>1. PICK S : main \in Seq(S)
  BY DEF MainInOrder
<1>2. main \in Seq(S \union {c}) /\ Len(main) \in Nat
  BY <1>1
<1>3. /\ Len(main') = Len(main) + 1 /\ main'[Len(main) + 1] = c
      /\ \A k \in 1 .. Len(main) : main'[k] = main[k]
  BY <1>2
<1> QED
  BY <1>2, <1>3 DEF Commits, Brought

\* A merge is shipped by none of the releases there are.
LEMMA MergeGrows ==
    ASSUME Order, Merged, NEW p \in Pr, Merge(p), NEW n, n = Len(main) + 1
    PROVE  /\ main'[n].pr = p /\ Len(main') = n
           /\ Changes' = Changes \union {n} /\ n \notin Commits
           /\ ReleaseCommits' = ReleaseCommits /\ OpenChanges' = OpenChanges \union {n}
           /\ \A r : ShippedBy(r)' = ShippedBy(r) /\ Tip(r)' = Tip(r)
<1> DEFINE c == ChangeCommit(p)
<1>1. main' = Append(main, c) /\ c.pr = p /\ c.version = None /\ p # None
  BY PolicyAssumption DEF Merge, ChangeCommit
<1> HIDE DEF c
<1>2. /\ Len(main) \in Nat /\ Len(main') = n /\ main'[n] = c /\ Commits' = Commits \union {n}
      /\ n \notin Commits /\ \A k \in Commits : k \in Nat /\ k < n /\ main'[k] = main[k]
  <2>1. MainInOrder
    BY DEF Order
  <2>2. /\ Len(main) \in Nat /\ Len(main') = n /\ main'[n] = c /\ Commits' = Commits \union {n}
        /\ \A k \in Commits : k \in Nat /\ k < n /\ main'[k] = main[k]
    BY <1>1, <2>1, Grown
  <2> QED
    BY <2>2
<1>3. ReleaseCommits' = ReleaseCommits /\ Changes' = Changes \union {n}
  BY <1>1, <1>2 DEF ReleaseCommits, Changes
<1>4. \A k \in ReleaseCommits \union Changes : k \in Commits /\ k \in Nat /\ k < n
  BY <1>2 DEF ReleaseCommits, Changes
<1>5. \A k : Following(k)' = Following(k) /\ Tip(k)' = Tip(k) /\ Open(k)' = Open(k)
  BY <1>3 DEF Following, Tip, Open
<1>6. Following(n) = {} /\ Open(n)
  BY <1>2, <1>4 DEF Following, Open
<1> QED
  BY <1>1, <1>2, <1>3, <1>5, <1>6 DEF ShippedBy, OpenChanges

\* A release commit is the first to follow every merge that was open.
LEMMA PushGrows ==
    ASSUME Order, Merged, RunNotes, PushMain, main' # main, NEW n, n = Len(main) + 1
    PROVE  /\ main'[n] = run.commit /\ run.base = Len(main)
           /\ Changes' = Changes /\ n \notin Commits
           /\ ReleaseCommits' = ReleaseCommits \union {n}
           /\ \A r \in ReleaseCommits : r \in Nat /\ r < n /\ ShippedBy(r)' = ShippedBy(r)
           /\ ShippedBy(n)' = OpenChanges
<1>1. /\ main' = Append(main, run.commit) /\ run.base = Len(main) /\ run.at = "push"
      /\ run.commit.pr = None /\ run.commit.version # None
  BY NoneIsNoVersion DEF PushMain, RunNotes, Order, RunInOrder
<1>2. /\ Len(main) \in Nat /\ Len(main') = n /\ main'[n] = run.commit /\ Commits' = Commits \union {n}
      /\ n \notin Commits /\ \A k \in Commits : k \in Nat /\ k < n /\ main'[k] = main[k]
  <2>1. MainInOrder
    BY DEF Order
  <2>2. /\ Len(main) \in Nat /\ Len(main') = n /\ main'[n] = run.commit /\ Commits' = Commits \union {n}
        /\ \A k \in Commits : k \in Nat /\ k < n /\ main'[k] = main[k]
    BY <1>1, <2>1, Grown
  <2> QED
    BY <2>2
<1>3. ReleaseCommits' = ReleaseCommits \union {n} /\ Changes' = Changes
  BY <1>1, <1>2 DEF ReleaseCommits, Changes
<1>4. \A k \in ReleaseCommits \union Changes : k \in Commits /\ k \in Nat /\ k < n
  BY <1>2 DEF ReleaseCommits, Changes
<1>5. ASSUME NEW k \in Changes, Open(k)
      PROVE  Following(k) = {} /\ Following(k)' = {n}
  BY <1>2, <1>3, <1>4, <1>5 DEF Following, Open
<1>6. ASSUME NEW k \in Changes, ~ Open(k)
      PROVE  Following(k)' = Following(k) /\ n \notin Following(k)
  <2>1. PICK s \in ReleaseCommits : s > k
    BY <1>4, <1>6 DEF Open, Merged, Changes
  <2> QED
    BY <1>2, <1>3, <1>4, <2>1 DEF Following
<1>7. ASSUME NEW r \in ReleaseCommits
      PROVE  ShippedBy(r)' = ShippedBy(r)
  <2>1. r # n
    BY <1>4
  <2>2. \A k \in Changes : Following(k)' = {r} <=> Following(k) = {r}
    BY <2>1, <1>5, <1>6
  <2> QED
    BY <1>3, <2>2 DEF ShippedBy
<1>8. ShippedBy(n)' = OpenChanges
  BY <1>3, <1>5, <1>6 DEF ShippedBy, OpenChanges
<1> QED
  BY <1>1, <1>2, <1>3, <1>4, <1>7, <1>8

LEMMA MergeNotes ==
    ASSUME NotesInv, Order, NEW p \in Pr, Merge(p)
    PROVE  NotesInv'
<1>0. PICK n : n = Len(main) + 1
  OBVIOUS
<1>1. /\ main'[n].pr = p /\ Len(main') = n
      /\ Changes' = Changes \union {n} /\ n \notin Commits
      /\ ReleaseCommits' = ReleaseCommits /\ OpenChanges' = OpenChanges \union {n}
      /\ \A r : ShippedBy(r)' = ShippedBy(r) /\ Tip(r)' = Tip(r)
  BY <1>0, MergeGrows DEF NotesInv
<1>2. /\ Len(main) \in Nat /\ Commits' = Commits \union {n}
      /\ \A k \in Commits : k \in Nat /\ k < n /\ main'[k] = main[k] /\ Brought(k)' = Brought(k)
  BY <1>0, Grown DEF Order, Merge
<1>3. UNCHANGED <<tags, body, run>> /\ p \notin UpTo(Len(main)) /\ Pull[p].base = "main" /\ p # None
  BY PolicyAssumption DEF Merge
<1>4. \A k \in Changes : main[k].pr # p
  BY <1>0, <1>2, <1>3 DEF UpTo, Changes
<1>5. Changes \subseteq Commits /\ ReleaseCommits \subseteq Commits
  BY DEF Changes, ReleaseCommits
<1>6. Merged'
  BY <1>1, <1>2, <1>3, <1>4, <1>5 DEF NotesInv, Merged
<1>7. NotesKept'
  <2>1. \A r : ShippedBy(r) \subseteq Commits
    BY <1>5 DEF ShippedBy
  <2> QED
    BY <1>1, <1>2, <1>5, <2>1 DEF NotesInv, NotesKept, From, Full
<1>8. RunNotes'
  BY <1>0, <1>1, <1>2, <1>3 DEF NotesInv, RunNotes
<1> QED
  BY <1>6, <1>7, <1>8 DEF NotesInv

LEMMA PushMainNotes ==
    ASSUME NotesInv, Order, PushMain
    PROVE  NotesInv'
<1>0. PICK n : n = Len(main) + 1
  OBVIOUS
<1>1. run'.at \notin {"prepare", "push"} /\ UNCHANGED <<tags, body>>
  BY DEF PushMain, Idle
<1>2. CASE main' = main
  BY <1>1, <1>2, ElsewhereNotes DEF Elsewhere
<1>3. CASE main' # main
  <2>1. /\ main'[n] = run.commit /\ run.base = Len(main)
        /\ Changes' = Changes /\ n \notin Commits
        /\ ReleaseCommits' = ReleaseCommits \union {n}
        /\ \A r \in ReleaseCommits : r \in Nat /\ r < n /\ ShippedBy(r)' = ShippedBy(r)
        /\ ShippedBy(n)' = OpenChanges
    BY <1>0, <1>3, PushGrows DEF NotesInv
  <2>2. /\ Len(main) \in Nat /\ Commits' = Commits \union {n}
        /\ \A k \in Commits : k \in Nat /\ k < n /\ main'[k] = main[k] /\ Brought(k)' = Brought(k)
    BY <1>0, <1>3, Grown DEF Order, PushMain
  <2>3. /\ run.commit.pr = None
        /\ From(run.commit.notes, OpenChanges) /\ Full(run.commit.notes, OpenChanges)
    BY <2>1 DEF NotesInv, RunNotes, PushMain
  <2>4. Changes \subseteq Commits /\ ReleaseCommits \subseteq Commits
    BY DEF Changes, ReleaseCommits
  <2>5. Merged'
    BY <1>1, <2>1, <2>2, <2>3, <2>4 DEF NotesInv, Merged
  <2>6. \A r : ShippedBy(r) \subseteq Commits
    BY <2>4 DEF ShippedBy
  <2>7. OpenChanges \subseteq Commits
    BY <2>4 DEF OpenChanges
  <2>8. ASSUME NEW r \in ReleaseCommits
        PROVE  From(main[r].notes, ShippedBy(r))' /\ Full(main[r].notes, ShippedBy(r))'
    BY <2>1, <2>2, <2>4, <2>6 DEF NotesInv, NotesKept, From, Full
  <2>9. From(main[n].notes, ShippedBy(n))' /\ Full(main[n].notes, ShippedBy(n))'
    BY <2>1, <2>2, <2>3, <2>7 DEF From, Full
  <2>10. NotesKept'
    BY <2>1, <2>8, <2>9 DEF NotesKept
  <2>11. RunNotes'
    BY <1>1 DEF RunNotes
  <2> QED
    BY <2>5, <2>10, <2>11 DEF NotesInv
<1> QED
  BY <1>2, <1>3

LEMMA PlanPrepares ==
    ASSUME Inv, Order, Plan, run'.at = "prepare", NEW v, v = latest_release_tag
    PROVE  /\ run'.baseline = v /\ run'.planned = Len(main) /\ run'.preview = generate_changelog(v)
           /\ run'.version = derive_next_version(v,
                  IF migration_forced_impact(v) # None THEN migration_forced_impact(v)
                  ELSE classify_semver_impact(generate_changelog(v)))
           /\ v \in DOMAIN tags /\ Tip(tags[v]) /\ main[tags[v]].version = v
           /\ ~ GenerationFails(v) /\ generate_changelog(v) # {}
<1>1. /\ run'.baseline = v /\ run'.planned = Len(main) /\ run'.preview = generate_changelog(v)
      /\ run'.version = derive_next_version(v,
             IF migration_forced_impact(v) # None THEN migration_forced_impact(v)
             ELSE classify_semver_impact(generate_changelog(v)))
      /\ unfinished_release = None /\ ~ GenerationFails(v) /\ generate_changelog(v) # {}
  BY DEF Plan, NoRelease, Idle
<1>2. PICK T, L \in ReleaseCommits : Ends(T, L)
  BY DEF Order, OneBehind
<1>3. v = main[T].version /\ tags[v] = T /\ v \in DOMAIN tags
  BY <1>2, LatestTag DEF Order, Ends
<1>4. \A k \in ReleaseCommits : main[k].version = v \/ Newer(v, main[k].version)
  BY <1>1, <1>2, AllOut DEF Order
<1>5. Tip(T)
  <2> SUFFICES ASSUME NEW k \in ReleaseCommits PROVE k <= T
    BY <1>2 DEF Ends, Tip
  <2>1. k \in Nat /\ T \in Nat /\ v \in Version /\ main[k].version \in Version
    BY <1>3, CommitsAreNat DEF Order, MainInOrder
  <2>2. ~ Newer(main[k].version, v)
    BY <1>4, <2>1, NewerOrder
  <2> QED
    BY <1>3, <2>1, <2>2 DEF Order, MainInOrder
<1> QED
  BY <1>1, <1>3, <1>5

LEMMA PlanNotes ==
    ASSUME NotesInv, Inv, Order, Plan
    PROVE  NotesInv'
<1>1. UNCHANGED <<main, tags, body>> /\ run'.at # "push"
  BY DEF Plan, NoRelease, Idle, Quiet, source
<1>2. Merged' /\ NotesKept'
  BY <1>1, SameMainNotes
<1>3. RunNotes'
  <2>1. CASE run'.at = "prepare"
    <3>1. run'.baseline \in DOMAIN tags /\ Tip(tags[run'.baseline])
      BY <2>1, PlanPrepares
    <3> QED
      BY <1>1, <2>1, <3>1, SameMain DEF RunNotes
  <2>2. CASE run'.at # "prepare"
    BY <1>1, <2>2 DEF RunNotes
  <2> QED
    BY <2>1, <2>2
<1> QED
  BY <1>2, <1>3 DEF NotesInv

\* The notes are generated from main as it is when they are committed.
LEMMA PrepareNotes ==
    ASSUME OwnNotes, NotesInv, Order, Prepare
    PROVE  NotesInv'
<1>1. UNCHANGED <<main, tags, body>> /\ run'.at # "prepare" /\ run.at = "prepare"
  BY DEF Prepare, Idle, Quiet, source
<1>2. Merged' /\ NotesKept' /\ \A N, K : From(N, K)' = From(N, K) /\ Full(N, K)' = Full(N, K)
  BY <1>1, SameMainNotes
<1>3. ASSUME run'.at = "push"
      PROVE  /\ run'.base = Len(main) /\ run'.commit = ReleaseCommit(generate_changelog(run.baseline))
             /\ ~ GenerationFails(run.baseline)
  BY <1>3 DEF Prepare, Idle
<1>4. ASSUME run'.at = "push"
      PROVE  /\ From(run'.commit.notes, OpenChanges) /\ Full(run'.commit.notes, OpenChanges)
             /\ run'.commit.pr = None
  <2> DEFINE N == generate_changelog(run.baseline)
  <2>1. run'.commit.notes = N /\ run'.commit.pr = None /\ ~ GenerationFails(run.baseline)
    BY <1>3, <1>4 DEF ReleaseCommit
  <2>2. Tip(tags[run.baseline]) /\ Merged /\ MainInOrder
    BY <1>1 DEF NotesInv, RunNotes, Order
  <2>3. From(N, OpenChanges)
    BY <2>1, <2>2, OpenNotes DEF From
  <2>4. Full(N, OpenChanges)
    <3> SUFFICES ASSUME NEW k \in OpenChanges, NEW p \in Brought(k)
                 PROVE  \E e \in N : e.pr = p
      BY DEF Full
    <3>1. CASE \A b \in Pull[main[k].pr].bullets : b.pr # p
      <4>1. Entry(p, body) \in N
        BY <2>1, <2>2, <3>1, OpenNotes
      <4> QED
        BY <4>1 DEF Entry
    <3>2. CASE \E b \in Pull[main[k].pr].bullets : b.pr = p
      <4>1. Pull[main[k].pr].bullets \subseteq N
        BY <2>1, <2>2, OpenNotes
      <4> QED
        BY <3>2, <4>1
    <3> QED
      BY <3>1, <3>2
  <2> QED
    BY <2>1, <2>3, <2>4
<1>5. Len(main) \in Nat
  BY CommitsAreNat DEF Order
<1>6. RunNotes'
  BY <1>1, <1>2, <1>3, <1>4, <1>5, SameMain DEF RunNotes
<1> QED
  BY <1>2, <1>6 DEF NotesInv

LEMMA RestElsewhere ==
    ASSUME Inv, DOMAIN body = Pr,
           \/ Dispatch \/ Fail \/ Start \/ PushTag \/ HandOver \/ RecoverTag \/ Resolve
           \/ PushDistribution \/ PushDistributionTag \/ VerifyDistribution
           \/ Finalize \/ Undraft \/ VerifyRelease
           \/ (\E a \in Attached : Upload(a) \/ UploadBreaks(a))
           \/ (\E p \in Pr : EditBody(p)) \/ UNCHANGED vars
    PROVE  Elsewhere
<1>1. CASE \E p \in Pr : EditBody(p)
  <2>1. PICK p \in Pr : EditBody(p)
    BY <1>1
  <2>2. UNCHANGED <<main, tags, run>> /\ DOMAIN body' = DOMAIN body
    BY <2>1 DEF EditBody, source
  <2> QED
    BY <2>2 DEF Elsewhere
<1>2. CASE UNCHANGED vars
  BY <1>2 DEF vars, Elsewhere
<1>3. CASE Dispatch \/ (\E a \in Attached : Upload(a))
  BY <1>3 DEF Dispatch, Upload, source, Elsewhere
<1>4. CASE Fail \/ Start \/ VerifyRelease \/ Resolve \/ \E a \in Attached : UploadBreaks(a)
  <2>1. UNCHANGED <<main, body>>
    BY <1>4 DEF Fail, Start, VerifyRelease, Resolve, UploadBreaks, Quiet, source
  <2>2. run'.at \notin {"prepare", "push"}
    <3>1. CASE Resolve
      BY <3>1 DEF Resolve, Idle
    <3>2. CASE Start
      BY <3>2 DEF Start
    <3>3. CASE Fail \/ VerifyRelease \/ \E a \in Attached : UploadBreaks(a)
      <4>1. run' = Idle
        BY <3>3 DEF Fail, VerifyRelease, UploadBreaks
      <4> QED
        BY <4>1 DEF Idle
    <3> QED
      BY <1>4, <3>1, <3>2, <3>3
  <2> QED
    BY <2>1, <2>2 DEF Elsewhere
<1>5. CASE RecoverTag
  <2>1. run = [at |-> "recover", version |-> run.version, sha |-> run.sha]
    BY <1>5 DEF RecoverTag, Inv, Shaped
  <2>2. run' = Idle \/ run' = [run EXCEPT !.at = "resolve"]
    BY <1>5 DEF RecoverTag
  <2>3. run'.at \in {"idle", "resolve"}
    BY <2>1, <2>2 DEF Idle
  <2> QED
    BY <1>5, <2>3 DEF RecoverTag, Elsewhere
<1>6. CASE PushTag \/ HandOver \/ PushDistribution \/ PushDistributionTag \/ VerifyDistribution
              \/ Finalize \/ Undraft
  <2>1. UNCHANGED <<main, body>> /\ run.at \in Building
    BY <1>6 DEF PushTag, HandOver, PushDistribution, PushDistributionTag, VerifyDistribution,
                Finalize, Undraft, Quiet, source, Building, Published
  <2>2. \/ run' = Idle
        \/ \E step \in {"handover", "distribute", "dist-tag", "check", "finalize", "upload", "verify"} :
              run' = [run EXCEPT !.at = step]
    BY <1>6 DEF PushTag, HandOver, PushDistribution, PushDistributionTag, VerifyDistribution,
                Finalize, Undraft
  <2>3. CASE run' = Idle
    BY <2>1, <2>3 DEF Elsewhere, Idle
  <2>4. CASE run' # Idle
    <3>1. run'.at \in {"handover", "distribute", "dist-tag", "check", "finalize", "upload", "verify"}
      BY <2>1, <2>2, <2>4, SameWork
    <3> QED
      BY <2>1, <3>1 DEF Elsewhere
  <2> QED
    BY <2>3, <2>4
<1> QED
  BY <1>1, <1>2, <1>3, <1>4, <1>5, <1>6

LEMMA NotesStep ==
    ASSUME OwnNotes, NotesInv, Inv, Order, [Next]_vars
    PROVE  NotesInv'
<1>1. CASE Plan \/ Prepare \/ PushMain \/ \E p \in Pr : Merge(p)
  BY <1>1, PlanNotes, PrepareNotes, PushMainNotes, MergeNotes
<1>2. CASE Elsewhere
  BY <1>2, ElsewhereNotes
<1>3. DOMAIN body = Pr
  BY DEF NotesInv, Merged
<1> QED
  BY <1>1, <1>2, <1>3, RestElsewhere DEF Next, Job

LEMMA NotesInvHolds ==
    ASSUME OwnNotes
    PROVE  Spec => [](Inv /\ Order /\ NotesInv)
<1>1. Init => Inv /\ Order /\ NotesInv
  BY InitInv, InitOrder, InitNotes
<1>2. (Inv /\ Order /\ NotesInv) /\ [Next]_vars => (Inv /\ Order /\ NotesInv)'
  BY StepInv, StepOrder, NotesStep
<1> QED
  BY <1>1, <1>2, PTL DEF Spec

\* For every set of pull requests that write about themselves alone: each change
\* is in the notes of the first version that follows it and of no other, whatever
\* is merged between the plan and the release commit and whatever is recovered
\* (changelog_generation.py, changelog.py).
THEOREM ShippedOnceHolds ==
    ASSUME OwnNotes
    PROVE  Spec => []ShippedOnce
<1>1. Inv /\ Order /\ NotesInv => ShippedOnce
  <2> SUFFICES ASSUME Order, NotesInv, NEW k \in Commits \ ReleaseCommits, NEW p \in Brought(k)
               PROVE  {r \in ReleaseCommits : \E e \in main[r].notes : e.pr = p} = Following(k)
    BY DEF ShippedOnce
  <2>1. k \in Changes
    BY DEF NotesInv, Merged, Changes
  <2>2. p \in Pr
    BY <2>1, PolicyAssumption DEF NotesInv, Merged, Brought
  <2>3. ASSUME NEW r \in ReleaseCommits, NEW e \in main[r].notes, e.pr = p
        PROVE  r \in Following(k)
    <3>1. PICK j \in ShippedBy(r) : p \in Owned(main[j].pr)
      BY <2>2, <2>3 DEF NotesInv, NotesKept, From
    <3>2. j \in Changes /\ Following(j) = {r}
      BY DEF ShippedBy
    <3>3. j = k
      BY <2>1, <3>1, <3>2, OneOwner DEF NotesInv
    <3> QED
      BY <3>2, <3>3
  <2>4. ASSUME NEW r \in Following(k)
        PROVE  r \in ReleaseCommits /\ \E e \in main[r].notes : e.pr = p
    <3>1. \A s \in ReleaseCommits : s \in Nat
      BY CommitsAreNat DEF Order
    <3>2. Following(k) = {r} /\ r \in ReleaseCommits
      BY <3>1 DEF Following
    <3>3. k \in ShippedBy(r)
      BY <2>1, <3>2 DEF ShippedBy
    <3> QED
      BY <3>2, <3>3 DEF NotesInv, NotesKept, Full
  <2> QED
    BY <2>3, <2>4 DEF Following
<1> QED
  BY <1>1, NotesInvHolds, PTL

-----------------------------------------------------------------------------
(* VersionCoversPlan.                                                          *)

\* An entry asks for no more than the step from one version to the next.
Within(category, v, w) == ImpactRank[SubsectionImpact[category]] <= ImpactRank[Bump(v, w)]
Covers(N, v, w) == \A e \in N : Within(e.category, v, w)

\* Notes have an entry of everything that a merge brings.
Shows(N, k) == \A p \in Brought(k) : \E e \in N : e.pr = p

\* Each release covers what its plan showed, over the release before, and the plan
\* showed what was merged.
CoversKept ==
    /\ \A q, r \in ReleaseCommits :
          q < r /\ (\A s \in ReleaseCommits : s < r => s <= q) =>
              Covers(main[r].preview, main[q].version, main[r].version)
    /\ \A r \in ReleaseCommits : \A k \in ShippedBy(r) :
          k <= main[r].planned => Shows(main[r].preview, k)

\* So does the one under way: what is merged or edited later is not in its plan.
RunCovers ==
    /\ run.at = "prepare" =>
          /\ run.planned \in Nat /\ run.planned <= Len(main)
          /\ Covers(run.preview, run.baseline, run.version)
          /\ \A k \in OpenChanges : k <= run.planned => Shows(run.preview, k)
    /\ run.at = "push" /\ run.base = Len(main) =>
          /\ \A T \in ReleaseCommits :
                Tip(T) => Covers(run.commit.preview, main[T].version, run.commit.version)
          /\ \A k \in OpenChanges : k <= run.commit.planned => Shows(run.commit.preview, k)

CoversInv == CoversKept /\ RunCovers

LEMMA InitCovers == Init => CoversInv
<1> SUFFICES ASSUME Init PROVE CoversInv
  OBVIOUS
<1>1. Len(main) = 1 /\ main[1].version = Baseline /\ main[1].pr = None /\ run.at = "idle"
  BY DEF Init, Idle
<1>2. Commits = {1} /\ ReleaseCommits = {1}
  BY <1>1, PipelineAssumption DEF Commits, ReleaseCommits
<1>3. \A r : ShippedBy(r) = {}
  BY <1>1, <1>2 DEF ShippedBy, Changes
<1> QED
  BY <1>1, <1>2, <1>3 DEF CoversInv, CoversKept, RunCovers

\* The version has the bump it was derived with.
LEMMA BumpDerived ==
    ASSUME NEW v \in Version, NEW i \in {"major", "minor", "patch"}
    PROVE  Bump(v, derive_next_version(v, i)) = i
BY DEF Version, Bump, derive_next_version

LEMMA Impact ==
    ASSUME NEW N, N # {}, \A e \in N : e.category \in Category
    PROVE  /\ classify_semver_impact(N) \in {"major", "minor", "patch"}
           /\ \A e \in N : ImpactRank[SubsectionImpact[e.category]] <= ImpactRank[classify_semver_impact(N)]
<1> DEFINE I == Impacts(N)
<1>1. \A c \in Category : SubsectionImpact[c] \in {"major", "minor", "patch"}
  BY DEF Category, SubsectionImpact
<1>2. I \in SUBSET {"major", "minor", "patch"} /\ I # {}
  BY <1>1 DEF Impacts
<1>3. \A e \in N : SubsectionImpact[e.category] \in I
  BY DEF Impacts
<1> HIDE DEF I
<1>4. ImpactRank["major"] = 3 /\ ImpactRank["minor"] = 2 /\ ImpactRank["patch"] = 1
  BY DEF ImpactRank
<1>5. \E i \in I : \A j \in I : ImpactRank[j] <= ImpactRank[i]
  <2>1. CASE "major" \in I
    BY <1>2, <1>4, <2>1
  <2>2. CASE "major" \notin I /\ "minor" \in I
    BY <1>2, <1>4, <2>2
  <2>3. CASE "major" \notin I /\ "minor" \notin I
    <3>1. I = {"patch"}
      BY <1>2, <2>3
    <3> QED
      BY <1>4, <3>1
  <2> QED
    BY <2>1, <2>2, <2>3
<1>6. classify_semver_impact(N) \in I /\ \A j \in I : ImpactRank[j] <= ImpactRank[classify_semver_impact(N)]
  BY <1>5 DEF classify_semver_impact, I
<1> QED
  BY <1>2, <1>3, <1>6

\* Every version of main is the baseline or newer, so none is the one that forces
\* a patch.
LEMMA NothingForced ==
    ASSUME AfterPolicy, Merged, MainInOrder, NEW r \in ReleaseCommits
    PROVE  migration_forced_impact(main[r].version) = None
<1>1. r \in Nat /\ r >= 1 /\ main[r].version \in Version /\ Baseline \in Version
  BY CommitsAreNat, PipelineAssumption DEF MainInOrder
<1>2. main[r].version = Baseline \/ Newer(main[r].version, Baseline)
  BY <1>1 DEF Merged, MainInOrder
<1>3. Newer(main[r].version, PrePolicy)
  BY <1>1, <1>2, NewerOrder DEF AfterPolicy
<1>4. main[r].version # PrePolicy
  BY <1>1, <1>3, NewerOrder DEF AfterPolicy
<1> QED
  BY <1>4 DEF migration_forced_impact

LEMMA PlanCovers ==
    ASSUME OwnNotes, AfterPolicy, NotesInv, CoversInv, Inv, Order, Plan
    PROVE  RunCovers'
<1>0. PICK v : v = latest_release_tag
  OBVIOUS
<1>1. UNCHANGED main /\ run'.at # "push"
  BY DEF Plan, NoRelease, Idle, Quiet, source
<1>2. ASSUME run'.at = "prepare"
      PROVE  /\ run'.planned \in Nat /\ run'.planned <= Len(main) /\ run'.baseline = v
             /\ Covers(run'.preview, v, run'.version)
             /\ \A k \in OpenChanges : Shows(run'.preview, k)
  <2> DEFINE N == generate_changelog(v)
             impact == classify_semver_impact(N)
  <2>1. /\ run'.baseline = v /\ run'.planned = Len(main) /\ run'.preview = N
        /\ run'.version = derive_next_version(v, IF migration_forced_impact(v) # None
                                                 THEN migration_forced_impact(v) ELSE impact)
        /\ Tip(tags[v]) /\ main[tags[v]].version = v /\ ~ GenerationFails(v) /\ N # {}
    BY <1>0, <1>2, PlanPrepares
  <2>2. Merged /\ MainInOrder /\ Len(main) \in Nat
    BY CommitsAreNat DEF NotesInv, Order
  <2>3. migration_forced_impact(v) = None /\ v \in Version
    BY <2>1, <2>2, NothingForced DEF Tip, MainInOrder
  <2>4. \A e \in N : e.category \in Category
    BY <2>1, <2>2, OpenNotes
  <2>5. \A k \in OpenChanges : Shows(N, k)
    <3> SUFFICES ASSUME NEW k \in OpenChanges, NEW p \in Brought(k)
                 PROVE  \E e \in N : e.pr = p
      BY DEF Shows
    <3>1. /\ Pull[main[k].pr].bullets \subseteq N
          /\ (\A b \in Pull[main[k].pr].bullets : b.pr # p) => Entry(p, body) \in N
      BY <2>1, <2>2, OpenNotes
    <3>2. Entry(p, body).pr = p
      BY DEF Entry
    <3> QED
      BY <3>1, <3>2
  <2> HIDE DEF N
  <2>6. /\ impact \in {"major", "minor", "patch"}
        /\ \A e \in N : ImpactRank[SubsectionImpact[e.category]] <= ImpactRank[impact]
    BY <2>1, <2>4, Impact
  <2>7. Bump(v, run'.version) = impact
    BY <2>1, <2>3, <2>6, BumpDerived
  <2>8. Covers(N, v, run'.version)
    BY <2>6, <2>7 DEF Covers, Within
  <2> QED
    BY <2>1, <2>2, <2>5, <2>8
<1>3. \A N, k : Shows(N, k)' <=> Shows(N, k)
  BY <1>1 DEF Shows, Brought
<1>4. ASSUME run'.at = "prepare"
      PROVE  /\ Covers(run.preview, run.baseline, run.version)'
             /\ \A k \in OpenChanges : Shows(run.preview, k)'
  <2>1. PICK N : N = run'.preview
    OBVIOUS
  <2>2. Covers(N, run'.baseline, run'.version) /\ \A k \in OpenChanges : Shows(N, k)'
    BY <1>2, <1>3, <1>4, <2>1
  <2> QED
    BY <2>1, <2>2 DEF Covers, Shows
<1> QED
  BY <1>1, <1>2, <1>4, SameMain DEF RunCovers

\* The release commit has the version and the preview of the plan.
LEMMA PrepareCovers ==
    ASSUME NotesInv, CoversInv, Order, Prepare
    PROVE  RunCovers'
<1>1. UNCHANGED main /\ run'.at # "prepare" /\ run.at = "prepare"
  BY DEF Prepare, Idle, Quiet, source
<1>2. ASSUME run'.at = "push"
      PROVE  /\ run'.commit.version = run.version /\ run'.commit.planned = run.planned
             /\ run'.commit.preview = run.preview
  BY <1>2 DEF Prepare, Idle, ReleaseCommit
<1>3. run.baseline \in DOMAIN tags /\ Tip(tags[run.baseline])
  BY <1>1 DEF NotesInv, RunNotes
<1>4. ASSUME NEW T \in ReleaseCommits, Tip(T)
      PROVE  main[T].version = run.baseline
  <2>1. T = tags[run.baseline]
    BY <1>3, <1>4, CommitsAreNat DEF Tip, Order
  <2> QED
    BY <1>3, <2>1 DEF Order, TagsInOrder
<1>5. ASSUME run'.at = "push", NEW T \in ReleaseCommits, Tip(T)
      PROVE  Covers(run.commit.preview, main[T].version, run.commit.version)'
  <2>1. Covers(run.preview, main[T].version, run.version)
    BY <1>1, <1>4, <1>5 DEF CoversInv, RunCovers
  <2> QED
    BY <1>1, <1>2, <1>5, <2>1 DEF Covers
<1>6. ASSUME run'.at = "push", NEW k \in OpenChanges, k <= run'.commit.planned
      PROVE  Shows(run.commit.preview, k)'
  <2>1. Shows(run.preview, k)
    BY <1>1, <1>2, <1>6 DEF CoversInv, RunCovers
  <2> QED
    BY <1>1, <1>2, <1>6, <2>1 DEF Shows, Brought
<1> QED
  BY <1>1, <1>5, <1>6, SameMain DEF RunCovers

LEMMA ElsewhereCovers ==
    ASSUME NotesInv, CoversInv, Elsewhere
    PROVE  CoversInv'
<1>1. \A N, k : Shows(N, k)' <=> Shows(N, k)
  BY DEF Shows, Brought, Elsewhere
<1>2. CoversKept'
  BY <1>1, SameMain DEF CoversInv, CoversKept, Elsewhere, Covers
<1>3. RunCovers'
  BY <1>1, SameMain DEF CoversInv, RunCovers, Elsewhere, Covers
<1> QED
  BY <1>2, <1>3 DEF CoversInv

LEMMA MergeCovers ==
    ASSUME NotesInv, CoversInv, Order, NEW p \in Pr, Merge(p)
    PROVE  CoversInv'
<1>0. PICK n : n = Len(main) + 1
  OBVIOUS
<1>1. /\ Len(main') = n /\ Changes' = Changes \union {n}
      /\ ReleaseCommits' = ReleaseCommits /\ OpenChanges' = OpenChanges \union {n}
      /\ \A r : ShippedBy(r)' = ShippedBy(r)
  BY <1>0, MergeGrows DEF NotesInv
<1>2. /\ Len(main) \in Nat
      /\ \A k \in Commits : k \in Nat /\ k < n /\ main'[k] = main[k] /\ Brought(k)' = Brought(k)
  BY <1>0, Grown DEF Order, Merge
<1>3. UNCHANGED run
  BY DEF Merge
<1>4. ReleaseCommits \subseteq Commits /\ OpenChanges \subseteq Commits /\ \A r : ShippedBy(r) \subseteq Commits
  BY DEF ReleaseCommits, OpenChanges, ShippedBy, Changes
<1>5. \A k \in Commits : \A N : Shows(N, k)' <=> Shows(N, k)
  BY <1>2 DEF Shows
<1>6. CoversKept'
  BY <1>1, <1>2, <1>4, <1>5 DEF CoversInv, CoversKept, Covers
<1>7. ASSUME run.at = "prepare"
      PROVE  /\ run.planned \in Nat /\ run.planned <= Len(main')
             /\ Covers(run.preview, run.baseline, run.version)
             /\ \A k \in OpenChanges' : k <= run.planned => Shows(run.preview, k)'
  <2>1. /\ run.planned \in Nat /\ run.planned < n
        /\ Covers(run.preview, run.baseline, run.version)
        /\ \A k \in OpenChanges : k <= run.planned => Shows(run.preview, k)
    BY <1>0, <1>2, <1>7 DEF CoversInv, RunCovers
  <2>2. \A k \in OpenChanges' : k <= run.planned => k \in OpenChanges
    BY <1>0, <1>1, <1>2, <2>1
  <2> QED
    BY <1>0, <1>1, <1>2, <1>3, <1>4, <1>5, <2>1, <2>2
<1>8. run.at = "push" => run.base # Len(main')
  BY <1>0, <1>1, <1>2 DEF NotesInv, RunNotes
<1>9. RunCovers'
  BY <1>3, <1>7, <1>8 DEF RunCovers, Covers
<1> QED
  BY <1>6, <1>9 DEF CoversInv

LEMMA PushMainCovers ==
    ASSUME NotesInv, CoversInv, Order, PushMain
    PROVE  CoversInv'
<1>0. PICK n : n = Len(main) + 1
  OBVIOUS
<1>1. run'.at \notin {"prepare", "push"} /\ body' = body /\ run.at = "push"
  BY DEF PushMain, Idle
<1>2. CASE main' = main
  BY <1>1, <1>2, ElsewhereCovers DEF Elsewhere
<1>3. CASE main' # main
  <2>1. /\ main'[n] = run.commit /\ run.base = Len(main)
        /\ ReleaseCommits' = ReleaseCommits \union {n}
        /\ \A r \in ReleaseCommits : r \in Nat /\ r < n /\ ShippedBy(r)' = ShippedBy(r)
        /\ ShippedBy(n)' = OpenChanges
    BY <1>0, <1>3, PushGrows DEF NotesInv
  <2>2. /\ Len(main) \in Nat
        /\ \A k \in Commits : k \in Nat /\ k < n /\ main'[k] = main[k] /\ Brought(k)' = Brought(k)
    BY <1>0, <1>3, Grown DEF Order, PushMain
  <2>3. ReleaseCommits \subseteq Commits /\ OpenChanges \subseteq Commits /\ \A r : ShippedBy(r) \subseteq Commits
    BY DEF ReleaseCommits, OpenChanges, ShippedBy, Changes
  <2>4. ASSUME NEW q \in ReleaseCommits', NEW r \in ReleaseCommits', q < r,
               \A s \in ReleaseCommits' : s < r => s <= q
        PROVE  Covers(main'[r].preview, main'[q].version, main'[r].version)
    <3>1. q \in ReleaseCommits /\ q < n /\ main'[q] = main[q]
      BY <1>0, <2>1, <2>2, <2>3, <2>4
    <3>2. CASE r \in ReleaseCommits
      BY <2>1, <2>2, <2>3, <2>4, <3>1, <3>2 DEF CoversInv, CoversKept
    <3>3. CASE r = n
      <4>1. Tip(q)
        BY <2>1, <2>4, <3>1, <3>3 DEF Tip
      <4>2. Covers(run.commit.preview, main[q].version, run.commit.version)
        BY <1>1, <2>1, <3>1, <4>1 DEF CoversInv, RunCovers
      <4> QED
        BY <2>1, <3>1, <3>3, <4>2
    <3> QED
      BY <2>1, <3>2, <3>3
  <2>5. ASSUME NEW r \in ReleaseCommits', NEW k \in ShippedBy(r)', k <= main'[r].planned
        PROVE  Shows(main'[r].preview, k) /\ k \in Commits
    <3>1. CASE r \in ReleaseCommits
      BY <2>1, <2>2, <2>3, <2>5, <3>1 DEF CoversInv, CoversKept
    <3>2. CASE r = n
      BY <1>1, <2>1, <2>3, <2>5, <3>2 DEF CoversInv, RunCovers
    <3> QED
      BY <2>1, <3>1, <3>2
  <2>6. CoversKept'
    BY <2>2, <2>4, <2>5 DEF CoversKept, Covers, Shows
  <2>7. RunCovers'
    BY <1>1 DEF RunCovers
  <2> QED
    BY <2>6, <2>7 DEF CoversInv
<1> QED
  BY <1>2, <1>3

LEMMA CoversStep ==
    ASSUME OwnNotes, AfterPolicy, NotesInv, CoversInv, Inv, Order, [Next]_vars
    PROVE  CoversInv'
<1>1. CASE Plan \/ Prepare
  <2>1. main' = main
    BY <1>1 DEF Plan, Prepare, Quiet, source
  <2>2. \A N, k : Shows(N, k)' <=> Shows(N, k)
    BY <2>1 DEF Shows, Brought
  <2>3. CoversKept'
    BY <2>1, <2>2, SameMain DEF CoversInv, CoversKept, Covers
  <2> QED
    BY <1>1, <2>3, PlanCovers, PrepareCovers DEF CoversInv
<1>2. CASE PushMain \/ \E p \in Pr : Merge(p)
  BY <1>2, PushMainCovers, MergeCovers
<1>3. CASE Elsewhere
  BY <1>3, ElsewhereCovers
<1>4. DOMAIN body = Pr
  BY DEF NotesInv, Merged
<1> QED
  BY <1>1, <1>2, <1>3, <1>4, RestElsewhere DEF Next, Job

\* The last of some commits, by well-foundedness of their distance from the end.
LEMMA LastExists ==
    ASSUME NEW n \in Nat, NEW S \in SUBSET (1 .. n), S # {}
    PROVE  Max(S) \in S /\ \A s \in S : s <= Max(S)
<1> DEFINE D == {n - s : s \in S}
<1>1. D \in SUBSET Nat /\ D # {}
  OBVIOUS
<1>2. PICK d \in D : \A m \in D : ~ (<<m, d>> \in OpToRel(<, Nat))
  BY <1>1, NatLessThanWellFounded, WFMin, Zenon
<1>3. \A m \in D : ~ (m < d)
  BY <1>1, <1>2, Zenon DEF OpToRel
<1>4. \E t \in S : \A s \in S : t >= s
  <2>1. PICK t \in S : d = n - t
    BY DEF D
  <2>2. \A s \in S : ~ (n - s < n - t)
    BY <1>3, <2>1
  <2> QED
    BY <2>2
<1>5. Max(S) \in S /\ \A s \in S : Max(S) >= s
  BY <1>4 DEF Max
<1> QED
  BY <1>5

\* For such pull requests, and with the migration behind: a version is bumped as far
\* as asks any entry that its plan showed, and the plan showed all that was merged by
\* then, although the release commit is made later, of main and descriptions that may
\* have changed (semver_policy.py, changelog_generation.py).
THEOREM VersionCoversPlanHolds ==
    ASSUME OwnNotes, AfterPolicy
    PROVE  Spec => []VersionCoversPlan
<1>1. Init => CoversInv
  BY InitCovers
<1>2. (Inv /\ Order /\ NotesInv) /\ CoversInv /\ [Next]_vars => CoversInv'
  BY CoversStep
<1>3. Order /\ NotesInv /\ CoversInv => VersionCoversPlan
  <2> SUFFICES ASSUME Order, NotesInv, CoversInv, NEW r \in ReleaseCommits \ {1}
               PROVE  /\ Covers(main[r].preview,
                                main[Max({q \in ReleaseCommits : q < r})].version, main[r].version)
                      /\ \A k \in Commits \ ReleaseCommits :
                            k <= main[r].planned /\ Following(k) = {r} => Shows(main[r].preview, k)
    BY DEF VersionCoversPlan, Covers, Within, Shows
  <2> DEFINE before == {q \in ReleaseCommits : q < r}
  <2>1. Len(main) \in Nat /\ ReleaseCommits \subseteq 1 .. Len(main) /\ 1 \in before
    BY CommitsAreNat DEF Order, NotesInv, Merged
  <2>2. Max(before) \in before /\ \A s \in before : s <= Max(before)
    BY <2>1, LastExists
  <2>3. \A k \in Commits \ ReleaseCommits : Following(k) = {r} => k \in ShippedBy(r)
    BY DEF NotesInv, Merged, ShippedBy, Changes
  <2> QED
    BY <2>2, <2>3 DEF CoversInv, CoversKept
<1> QED
  BY <1>1, <1>2, <1>3, NotesInvHolds, PTL DEF Spec

=============================================================================
