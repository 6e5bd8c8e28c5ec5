----------------------------- MODULE TestRoute -----------------------------
(* What reaches main when a green test job is enough to merge. The job runs    *)
(* the modules TestSelection picks and takes the others to pass as they did.   *)
(* One pull request is open at a time: main moves only when it is merged.      *)
(* Code: src/scripts/validation/ci_test_route.py and validate.yml.             *)
EXTENDS TestSelection

CONSTANTS
    Draft,      \* bound: per path the texts an author may give it
    Seed,       \* the tree at the start
    MaxEdits    \* bound: edits

ASSUME DraftAssumption ==
    /\ Draft \in [Path -> SUBSET (Text \union {None})]
    /\ Seed \in Tree
    /\ MaxEdits \in Nat

\* A guard may be read by the other guards only: no test is built on one.
ASSUME GuardsApart ==
    \A p \in Path \ Guards : \A text \in (Draft[p] \union {Seed[p]}) \ {None} :
        text.uses \intersect Guards = {}

VARIABLES
    main,       \* the base branch
    head,       \* the tree of the open pull request, merged with main
    ci,         \* its test job: stage and route
    edits,
    proved      \* history: per test module what it saw when it last passed

vars == <<main, head, ci, edits, proved>>

Changed == {p \in Path : main[p] # head[p]}

-----------------------------------------------------------------------------
(* What a test module sees of a tree.                                        *)

\* The test files it reaches: what it executes or reads, present or not, and
\* what those execute or read. A guard, and a file that loads by computed
\* names, may read all of them.
References(tree, f) ==
    IF f \notin Python \/ tree[f] = None THEN {}
    ELSE IF tree[f].opaque \/ f \in Guards THEN Tests
    ELSE tree[f].uses \union Inits[f]

Reach(tree, m) ==
    Closure(Tests, {e \in Tests \X Tests : e[2] \in References(tree, e[1])}, {m})

\* What a file names, and what it walks. A file that reads the source of the
\* router or of a scanner does not read what they name.
Names(tree, f) ==
    IF tree[f] = None THEN {}
    ELSE tree[f].mentions \union (IF tree[f].workflows THEN Workflows ELSE {})
                          \union (IF tree[f].docs = "computed" THEN DocsTree ELSE {})

\* What a module reads: the files it reaches, the programs, the workflows that its
\* code names, and, as far as FAST runs it, the allowlisted files and the
\* documents that those files or programs name. A scanner reads every file.
View(tree, m) ==
    LET reach == Reach(tree, m)
        named(files) == UNION {Names(tree, f) : f \in files \ (RouterFiles \union Scanners)}
    IN IF m \in Scanners THEN Path
       ELSE reach \union Programs
         \union (Workflows \intersect UNION {Names(tree, f) : f \in reach \intersect Python})
         \union (IF m \in Dropped THEN {}
                 ELSE Allowlisted
                        \union (DocsTree \intersect named(reach \union (Programs \ FactOnly)))
                        \union (Markdown \intersect named(reach \union Programs)))

Sees(tree, m) == [p \in View(tree, m) |-> tree[p]]

-----------------------------------------------------------------------------
(* The author, the test job and the merge.                                   *)

Idle == [stage |-> "idle"]

\* The author pushes a commit; a job that runs or ran is about another commit.
Edit(p, text) ==
    /\ edits < MaxEdits
    /\ text # head[p]
    /\ head' = [head EXCEPT ![p] = text]
    /\ ci' = Idle
    /\ edits' = edits + 1
    /\ UNCHANGED <<main, proved>>

build_impact_graph == merge_scans(scan_tests(main), scan_tests(head))

\* The graph is built only when a path needs it.
ViewOf(outcome) ==
    [index |-> IF outcome = "no_index" THEN None ELSE consumer_index(head),
     graph |-> IF outcome = "no_graph" \/ ~ \E p \in Changed : Routable(p) THEN None
               ELSE build_impact_graph]

\* The base's router reads both trees. A fetch, a diff or the router that fails
\* leaves FULL; a scan that fails leaves its part of the evidence out.
Route(outcome) ==
    /\ ci.stage = "idle"
    /\ Changed # {}
    /\ ci' = [stage |-> "routed",
              route |-> IF outcome = "failed" THEN RouteTo(Full, {})
                        ELSE classify(Changed, ViewOf(outcome))]
    /\ UNCHANGED <<main, head, edits, proved>>

\* The step of the tier can run: its modules resolve, it has tests, and the
\* scan guard, when it is among them, finds no gap in the scan of the tree.
Runnable(route) ==
    /\ Ran(route, head) # {}
    /\ route.tier = Docs => Scanners \subseteq Modules(head)
    /\ route.modules \subseteq Modules(head)
    /\ ScanGuard \in Ran(route, head) =>
           LET scan == scan_tests(head) IN scan.dynamic = {} /\ scan.problems = {}

\* Nothing here says what the tests check: they may pass or fail.
Pass ==
    /\ ci.stage = "routed"
    /\ Runnable(ci.route)
    /\ ci' = [ci EXCEPT !.stage = "green"]
    /\ UNCHANGED <<main, head, edits, proved>>

Fail ==
    /\ ci.stage = "routed"
    /\ ci' = [ci EXCEPT !.stage = "red"]
    /\ UNCHANGED <<main, head, edits, proved>>

\* The required job is green: the pull request lands, the next one is opened.
Merge ==
    /\ ci.stage = "green"
    /\ main' = head
    /\ proved' = [m \in TestModule |->
                     IF m \in Ran(ci.route, head) THEN Sees(head, m) ELSE proved[m]]
    /\ ci' = Idle
    /\ UNCHANGED <<head, edits>>

Outcomes == {"ok", "failed", "no_index", "no_graph"}

Init ==
    /\ main = Seed
    /\ head = Seed
    /\ ci = Idle
    /\ edits = 0
    /\ proved = [m \in TestModule |-> Sees(Seed, m)]

Next ==
    \/ \E p \in Path : \E text \in Draft[p] : Edit(p, text)
    \/ \E outcome \in Outcomes : Route(outcome)
    \/ Pass \/ Fail
    \/ Merge

Spec == Init /\ [][Next]_vars

-----------------------------------------------------------------------------
(* Properties.                                                               *)

\* Main and the pull request are trees, and a route that PARTIAL or FAST takes
\* names only test modules (Route.tier and Route.modules).
TypeOK ==
    /\ main \in Tree /\ head \in Tree
    /\ \/ ci = Idle
       \/ ci \in [stage : {"routed", "green", "red"},
                  route : [tier : {Docs, Partial, Fast, Full}, modules : SUBSET TestModule]]
    /\ edits \in 0..MaxEdits
    /\ DOMAIN proved = TestModule

\* A module that is left out would have seen nothing new: what every test
\* module of main sees is what it saw when it last passed, however many pull
\* requests, deletions and failed scans lie between (affected_closure, the
\* union of the two graphs, the companions, the escalations to FULL).
\* Whole-tree scanners are left out: a change under tests/ alone is PARTIAL, and
\* PARTIAL takes them in only when the change has documentation as well.
NothingEscapes ==
    \A m \in Modules(main) \ Scanners : proved[m] = Sees(main, m)

\* Adding a path to a change never lowers its tier and never drops a module
\* that ran without it (classify over the union of the surfaces).
AddingNeverLowers ==
    ci.stage = "idle" =>
        \A outcome \in Outcomes \ {"failed"} :
            LET v == ViewOf(outcome)
                more == classify(Changed, v)
            IN \A paths \in (SUBSET Changed) \ {{}} :
                LET less == classify(paths, v) IN
                /\ TierRank[less.tier] <= TierRank[more.tier]
                /\ Ran(less, head) \subseteq Ran(more, head)
=============================================================================
