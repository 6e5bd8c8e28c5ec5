--------------------------- MODULE TestSelection ---------------------------
(* Which tests a set of changed paths selects. The router reads an index of    *)
(* who reads documentation and a graph of who uses which test file (at the     *)
(* merge base and at the head), and picks a tier: DOCS, PARTIAL with a list of *)
(* modules, FAST, or FULL. Pure operators; TestRoute says when they run.       *)
(* Code: src/scripts/validation/ci_test_route.py.                              *)
EXTENDS Naturals, FiniteSets

CONSTANTS
    Path,           \* files the repository may hold
    Area,           \* per path the rule its name falls under
    Python,         \* paths under tests/ that end in .py
    TestModule,     \* of those, the ones discovery loads as test modules
    Dropped,        \* of those, what FAST omits: integration and benchmark tests
    RouterFiles,    \* ROUTER_FILES
    Guards,         \* TREE_GUARD_MODULES
    ScanGuard,      \* the one that fails when the scan of the tree has a gap
    Scanners,       \* DOCS_SCANNER_MODULES
    Reviewed,       \* REVIEWED_NON_DOCS_ENUMERATORS
    FactOnly,       \* of area "other", what is searched for Markdown names only
    Inits,          \* per path the package __init__ files above it
    Directory,      \* per path its top-level directory under tests/, or None
    None

Tests == {p \in Path : Area[p] = "tests"}
Workflows == {p \in Path : Area[p] = "workflow"}
DocsTree == {p \in Path : Area[p] = "docs"}        \* docs/**/*.md
Markdown == {p \in Path : Area[p] = "markdown"}    \* other .md, unprotected
Allowlisted == {p \in Path : Area[p] = "fast"}     \* FAST_FILES and FAST_DIRS
Programs == {p \in Path : Area[p] \in {"benchmark", "other"}}

\* A file, by what it refers to. A reference is a name: it may be absent.
Text == [uses : SUBSET Tests,     \* test files it imports or reads
         mentions : SUBSET Path,        \* documentation and workflows it names
         docs : {"named", "walks", "computed"}, \* how it reaches documentation
         workflows : BOOLEAN,           \* it mentions the workflows directory
         opaque : BOOLEAN,              \* it loads or reads tests/ by computed names
         form : {"ok", "broken", "unreadable"},
         plain : BOOLEAN,               \* a regular file without a shebang
         rev : Nat]

Tree == [Path -> Text \union {None}]

ASSUME RouteAssumption ==
    /\ None \notin Path /\ None \notin Text
    /\ Area \in [Path -> {"tests", "workflow", "docs", "markdown", "fast", "benchmark", "other"}]
    /\ Python \subseteq Tests /\ TestModule \subseteq Python
    /\ Dropped \subseteq TestModule
    /\ Guards \union Scanners \subseteq TestModule \ Dropped
    /\ ScanGuard \in Guards
    /\ Guards \intersect Scanners = {}
    /\ RouterFiles \subseteq Path
    /\ FactOnly \subseteq {p \in Path : Area[p] = "other"}
    /\ Inits \in [Path -> SUBSET (Tests \ Guards)]

-----------------------------------------------------------------------------
(* The test-impact graph.                                                    *)

Files(tree) == {p \in Tests : tree[p] # None}
Modules(tree) == TestModule \intersect Files(tree)
Sources(tree) == {f \in Python \intersect Files(tree) : tree[f].form = "ok"}

\* The files that f executes or reads: what it names, and its package chain.
Deps(tree, f) == ((tree[f].uses \union Inits[f]) \intersect Files(tree)) \ {f}

\* What loads code or reads tests/ in a form that has no literal root.
Unresolved(tree) == {f \in Sources(tree) : tree[f].opaque}

scan_tests(tree) ==
    [files    |-> Files(tree),
     sources  |-> Sources(tree),
     edges    |-> {e \in Tests \X Tests :
                      e[2] \in Sources(tree) /\ e[1] \in Deps(tree, e[2])},
     dynamic  |-> Unresolved(tree),
     problems |-> (Python \intersect Files(tree)) \ Sources(tree),
     names    |-> {e \in Workflows \X Tests :
                      e[2] \in Sources(tree) /\ e[1] \in tree[e[2]].mentions},
     readers  |-> {f \in Sources(tree) : tree[f].workflows}]

merge_scans(base, h) ==
    [files      |-> base.files \union h.files,
     base_files |-> base.files,
     head_files |-> h.files,
     sources    |-> base.sources \union h.sources,
     edges      |-> base.edges \union h.edges,
     dynamic    |-> base.dynamic \union h.dynamic,
     problems   |-> base.problems \union h.problems,
     names      |-> base.names \union h.names,
     readers    |-> base.readers \union h.readers]

Closed(S, edges, seeds) == seeds \subseteq S /\ \A e \in edges : e[1] \in S => e[2] \in S

\* The least set of files that has the seeds and, with a file, those its edges lead to.
Closure(files, edges, seeds) ==
    CHOOSE S \in SUBSET files :
        /\ Closed(S, edges, seeds)
        /\ \A T \in SUBSET files : Closed(T, edges, seeds) => S \subseteq T

\* Mutant: direct users only.
DirectUsers(graph, seeds) ==
    seeds \union {f \in graph.files : \E p \in seeds : <<p, f>> \in graph.edges}

\* The seeds and their users, the users of those, and so on.
affected_closure(graph, seeds) == Closure(graph.files, graph.edges, seeds)

all_test_modules(graph) == graph.head_files \intersect TestModule

GraphUsable(graph) ==
    /\ graph # None
    /\ graph.problems = {}
    /\ graph.head_files # {} /\ graph.sources # {}

-----------------------------------------------------------------------------
(* The surface of a path that a test or a workflow lies at.                  *)

\* A path of the tree of tests, or a workflow: what the graph can answer for.
Routable(p) == Area[p] \in {"tests", "workflow"}

\* Where the search for users starts.
Seeds(p, graph) ==
    IF Area[p] = "tests" THEN {p}
    ELSE {f \in graph.files : <<p, f>> \in graph.names} \union graph.readers

Surface(p, graph) ==
    affected_closure(graph, Seeds(p, graph)) \intersect all_test_modules(graph)

\* A test path that may be answered at all: a file of either tree, not one the
\* router keeps for FULL, in a directory under tests/ that the base has.
Known(p, graph) ==
    /\ p \notin RouterFiles
    /\ p \in graph.files
    /\ Directory[p] # None => \E f \in graph.base_files : Directory[f] = Directory[p]

Resolved(p, graph) ==
    /\ GraphUsable(graph)
    /\ Area[p] = "tests" => Known(p, graph)
    /\ Seeds(p, graph) # {}
    /\ affected_closure(graph, Seeds(p, graph)) \intersect graph.dynamic = {}
    /\ Surface(p, graph) # {}

-----------------------------------------------------------------------------
(* The index of who reads documentation.                                     *)

Consumers(tree) ==
    {f \in Tests \union Workflows \union Programs : tree[f] # None} \ RouterFiles

\* Reads docs/ in a way the scan cannot resolve, or walks trees unreviewed.
Wildcard(tree) ==
    {f \in Consumers(tree) \ (Scanners \union FactOnly) :
        \/ tree[f].docs = "computed"
        \/ tree[f].docs = "walks" /\ f \notin Reviewed}

\* Markdown outside docs/ that a consumer's literals can name.
GeneralRefs(tree) == Markdown \intersect UNION {tree[f].mentions : f \in Consumers(tree)}

\* What consumers name under docs/.
DocsRefs(tree) == DocsTree \intersect UNION {tree[f].mentions : f \in Consumers(tree) \ FactOnly}

\* Not plain documentation: an executable, a link, a script.
OddModes(tree) == {p \in Markdown : tree[p] # None /\ ~ tree[p].plain}

consumer_index(tree) ==
    [scanned    |-> Consumers(tree) # {},
     unreadable |-> {f \in Consumers(tree) : tree[f].form = "unreadable"},
     wildcard   |-> Wildcard(tree),
     refs       |-> DocsRefs(tree) \union GeneralRefs(tree),
     odd        |-> OddModes(tree)]

IndexUsable(index) ==
    index # None /\ index.scanned /\ index.unreadable = {} /\ index.wildcard = {}

-----------------------------------------------------------------------------
(* Classification.                                                           *)

Docs == "docs"  Partial == "partial"  Fast == "fast"  Full == "full"
TierRank == [docs |-> 1, partial |-> 2, fast |-> 3, full |-> 4]

\* The kind of a path that is neither a test nor a workflow.
PathKind(p, index) ==
    IF /\ Area[p] \in {"docs", "markdown"}
       /\ Area[p] = "markdown" => index # None
    THEN IF ~ IndexUsable(index) THEN "unverified"
         ELSE IF p \in index.odd THEN "other"
         ELSE IF p \in index.refs THEN "consumed" ELSE "pure"
    ELSE IF Area[p] = "fast" THEN "allowlist" ELSE "other"

Kind(p, v) ==
    IF ~ Routable(p) THEN PathKind(p, v.index)
    ELSE IF Resolved(p, v.graph) THEN "tests" ELSE "unresolved"

Forces == {"unverified", "other", "unresolved"}

Kinds(paths, v) == {Kind(p, v) : p \in paths}
Surfaces(paths, v) == UNION {Surface(p, v.graph) : p \in {q \in paths : Routable(q)}}

Companions(kinds) ==
    Guards \union (IF kinds \intersect {"pure", "consumed"} # {} THEN Scanners ELSE {})

\* A registered companion is gone, or nothing would be left out.
Unbounded(kinds, surface, v) ==
    /\ "tests" \in kinds
    /\ \/ ~ (surface \union Companions(kinds)) \subseteq all_test_modules(v.graph)
       \/ all_test_modules(v.graph) \subseteq surface

RouteTo(tier, modules) == [tier |-> tier, modules |-> modules]

\* Mutant: FAST takes a test change in without the modules it drops.
FastAlone(kinds, surface) ==
    IF kinds = {"pure"} THEN RouteTo(Docs, {})
    ELSE IF kinds \intersect {"consumed", "allowlist"} = {}
         THEN RouteTo(Partial, surface \union Companions(kinds))
         ELSE RouteTo(Fast, {})

is_fast_dropped(modules) == modules \intersect Dropped

Tier(kinds, surface) ==
    IF kinds = {"pure"} THEN RouteTo(Docs, {})
    ELSE IF kinds \intersect {"consumed", "allowlist"} = {}
         THEN RouteTo(Partial, surface \union Companions(kinds))
         ELSE RouteTo(Fast, is_fast_dropped(surface))

classify(paths, v) ==
    LET kinds == Kinds(paths, v)
        surface == Surfaces(paths, v) IN
    IF paths = {} \/ kinds \intersect Forces # {} \/ Unbounded(kinds, surface, v)
    THEN RouteTo(Full, {})
    ELSE Tier(kinds, surface)

fast_suite == TestModule \ is_fast_dropped(TestModule)

\* The modules of the tree that the tier's step runs.
Ran(route, tree) ==
    Modules(tree) \intersect
        (CASE route.tier = Docs -> Scanners
           [] route.tier = Partial -> route.modules
           [] route.tier = Fast -> fast_suite \union route.modules
           [] route.tier = Full -> TestModule)

=============================================================================
