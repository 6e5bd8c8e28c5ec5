--------------------------- MODULE ReleasePolicy ---------------------------
(* What a set of merged pull requests releases: which of them are worth a      *)
(* release, the entry each one declares, the changelog they add up to and the  *)
(* version that follows. Pure operators; ReleasePipeline says when they run.   *)
(* Code: classification.py, release_intent.py, changelog_generation.py,        *)
(* changelog.py, semver_policy.py, semver_version.py of release_lib.           *)
EXTENDS Naturals, Sequences, FiniteSets

CONSTANTS
    Pr,             \* pull requests
    Pull,           \* per pull request what does not change once it is merged:
                    \* [paths, intent, named, base, sync, children, bullets]
    PrePolicy,      \* PRE_POLICY_BASELINE_TAG
    None

IntegrationBranch == "release/v3"

ASSUME PolicyAssumption ==
    /\ None \notin Pr
    /\ \A p \in Pr : Pull[p].children \subseteq Pr

-----------------------------------------------------------------------------
(* Classification. A path is its tree, and whether it is a packaging file or a *)
(* README, which are told apart inside a tree.                                 *)

NonReleaseTrees == [tests |-> "tests", docs |-> "docs", policies |-> "repo-policy",
                    github |-> "ci", scripts |-> "repo-maintenance"]
NonReleaseRootFiles == [changelog |-> "changelog", readme |-> "docs", license |-> "repo-maintenance"]
ReleaseWorthyCategories == {"skill-content", "shared-runtime", "packaging"}

classify_path(path) ==
    CASE path.file = "packaging" -> "packaging"
      [] path.file # "packaging" /\ path.tree \in {"skills", "shared"} /\ path.file = "readme" -> "docs"
      [] path.tree = "skills" /\ path.file = "other" -> "skill-content"
      [] path.tree = "shared" /\ path.file = "other" -> "shared-runtime"
      [] path.tree \in DOMAIN NonReleaseTrees /\ path.file # "packaging" -> NonReleaseTrees[path.tree]
      [] path.tree = "root" /\ path.file \in DOMAIN NonReleaseRootFiles -> NonReleaseRootFiles[path.file]
      [] OTHER -> "unknown"

ReleaseWorthy(paths) == \E path \in paths : classify_path(path) \in ReleaseWorthyCategories

-----------------------------------------------------------------------------
(* Release intent. A description declares a category, "none" for no release,   *)
(* or nothing usable.                                                          *)

SubsectionImpact ==
    [Added |-> "minor", Changed |-> "minor", Deprecated |-> "minor", Fixed |-> "patch",
     Security |-> "patch", Removed |-> "major", Breaking |-> "major"]
Category == DOMAIN SubsectionImpact
Intent == Category \union {"none", "unusable"}

ShipsEntry(intent) == intent \in Category

-----------------------------------------------------------------------------
(* The entries of the pull requests merged since the baseline.                 *)

Entry(p, body) == [pr |-> p, category |-> body[p]]

\* A commit that is worth a release and yields no entry stops the release: its
\* subject names no pull request, or the description declares nothing usable.
Uncovered(prs, body) ==
    {p \in prs : ReleaseWorthy(Pull[p].paths) /\ ~ (Pull[p].named /\ ShipsEntry(body[p]))}

\* The pull requests squashed into an integration branch that a cutover brings
\* along: not the ones a baseline has, based elsewhere, or that sync the branch.
Children(p, prs, shipped) ==
    {c \in Pull[p].children \ (prs \union shipped) :
        Pull[c].named /\ Pull[c].base = IntegrationBranch /\ ~ Pull[c].sync}

\* What the release of prs ships besides them.
Folded(prs, shipped, body) ==
    LET covered == {p \in prs : ReleaseWorthy(Pull[p].paths)} \ Uncovered(prs, body)
    IN UNION {Children(p, prs, shipped) : p \in covered}

Problems(prs, shipped, body) ==
    Uncovered(prs, body) \union Uncovered(Folded(prs, shipped, body), body)

Entries(prs, shipped, body) ==
    {Entry(p, body) : p \in {q \in prs \union Folded(prs, shipped, body) :
                                ReleaseWorthy(Pull[q].paths)}}

-----------------------------------------------------------------------------
(* The changelog. Its `## Unreleased` holds hand-written bullets, of a pull    *)
(* request or of none, and takes the generated ones that are not there yet.    *)

Curated(prs) == UNION {Pull[p].bullets : p \in prs}

compose_unreleased(curated, entries) ==
    curated \union {e \in entries : ~ \E c \in curated : c.pr = e.pr}

Ambiguous(unreleased) == \E b \in unreleased : b.category \notin Category

-----------------------------------------------------------------------------
(* The version.                                                                *)

ImpactRank == [patch |-> 1, minor |-> 2, major |-> 3]
Impacts(unreleased) == {SubsectionImpact[b.category] : b \in unreleased}

\* Mutant: the lowest bump wins.
LowestImpact(unreleased) ==
    CHOOSE i \in Impacts(unreleased) : \A j \in Impacts(unreleased) : ImpactRank[i] <= ImpactRank[j]

classify_semver_impact(unreleased) ==
    CHOOSE i \in Impacts(unreleased) : \A j \in Impacts(unreleased) : ImpactRank[j] <= ImpactRank[i]

migration_forced_impact(baseline) == IF baseline = PrePolicy THEN "patch" ELSE None

Version == Nat \X Nat \X Nat

derive_next_version(v, impact) ==
    CASE impact = "major" -> <<v[1] + 1, 0, 0>>
      [] impact = "minor" -> <<v[1], v[2] + 1, 0>>
      [] OTHER -> <<v[1], v[2], v[3] + 1>>

Newer(v, w) ==
    \/ v[1] > w[1]
    \/ v[1] = w[1] /\ v[2] > w[2]
    \/ v[1] = w[1] /\ v[2] = w[2] /\ v[3] > w[3]

=============================================================================
