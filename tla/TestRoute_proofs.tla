-------------------------- MODULE TestRoute_proofs --------------------------
(* Proofs about TestRoute, for every set of files, whatever they refer to.     *)
EXTENDS TestRoute, TLAPS

-----------------------------------------------------------------------------
(* The closure, and what a module reaches.                                     *)

\* Closure is the least closed set that holds the seeds.
LEMMA ClosureLeast ==
    ASSUME NEW files, NEW edges, NEW seeds \in SUBSET files,
           \A e \in edges : e[2] \in files
    PROVE  /\ Closure(files, edges, seeds) \in SUBSET files
           /\ Closed(Closure(files, edges, seeds), edges, seeds)
           /\ \A T \in SUBSET files :
                  Closed(T, edges, seeds) => Closure(files, edges, seeds) \subseteq T
<1> DEFINE Least == {x \in files : \A T \in SUBSET files : Closed(T, edges, seeds) => x \in T}
<1>1. Least \in SUBSET files
  OBVIOUS
<1>2. Closed(Least, edges, seeds)
  <2>1. seeds \subseteq Least
    BY DEF Closed
  <2>2. ASSUME NEW e \in edges, e[1] \in Least
        PROVE  e[2] \in Least
    <3>1. \A T \in SUBSET files : Closed(T, edges, seeds) => e[2] \in T
      BY <2>2 DEF Closed
    <3> QED
      BY <3>1
  <2> HIDE DEF Least
  <2> QED
    BY <2>1, <2>2 DEF Closed
<1>3. \A T \in SUBSET files : Closed(T, edges, seeds) => Least \subseteq T
  OBVIOUS
<1> HIDE DEF Least
<1>4. \E S \in SUBSET files :
        /\ Closed(S, edges, seeds)
        /\ \A T \in SUBSET files : Closed(T, edges, seeds) => S \subseteq T
  BY <1>1, <1>2, <1>3
<1> QED
  BY <1>4 DEF Closure

RefersTo(tree) == {e \in Tests \X Tests : e[2] \in References(tree, e[1])}

\* A set of files that are the same in both trees and refer to none outside it
\* holds all that its members reach, and they reach the same in both.
LEMMA ReachSame ==
    ASSUME NEW K \in SUBSET Tests, NEW m \in K,
           \A f \in K : main[f] = head[f],
           \A f \in K : References(head, f) \intersect Tests \subseteq K
    PROVE  Reach(main, m) = Reach(head, m) /\ Reach(head, m) \subseteq K
<1> DEFINE H == RefersTo(head)
           B == RefersTo(main)
<1>1. \A f \in K : References(main, f) = References(head, f)
  BY DEF References
<1>2. /\ Reach(head, m) = Closure(Tests, H, {m}) /\ Reach(main, m) = Closure(Tests, B, {m})
      /\ \A e \in H : e[1] \in Tests /\ e[2] \in Tests /\ e[2] \in References(head, e[1])
      /\ \A e \in B : e[1] \in Tests /\ e[2] \in Tests /\ e[2] \in References(main, e[1])
  BY DEF Reach, RefersTo
<1>3. /\ Reach(head, m) \in SUBSET Tests /\ Closed(Reach(head, m), H, {m})
      /\ \A T \in SUBSET Tests : Closed(T, H, {m}) => Reach(head, m) \subseteq T
  <2>1. {m} \in SUBSET Tests /\ \A e \in H : e[2] \in Tests
    BY <1>2
  <2> HIDE DEF H, B
  <2>2. /\ Closure(Tests, H, {m}) \in SUBSET Tests /\ Closed(Closure(Tests, H, {m}), H, {m})
        /\ \A T \in SUBSET Tests : Closed(T, H, {m}) => Closure(Tests, H, {m}) \subseteq T
    BY <2>1, ClosureLeast, Zenon
  <2> QED
    BY <1>2, <2>2
<1>4. /\ Reach(main, m) \in SUBSET Tests /\ Closed(Reach(main, m), B, {m})
      /\ \A T \in SUBSET Tests : Closed(T, B, {m}) => Reach(main, m) \subseteq T
  <2>1. {m} \in SUBSET Tests /\ \A e \in B : e[2] \in Tests
    BY <1>2
  <2> HIDE DEF H, B
  <2>2. /\ Closure(Tests, B, {m}) \in SUBSET Tests /\ Closed(Closure(Tests, B, {m}), B, {m})
        /\ \A T \in SUBSET Tests : Closed(T, B, {m}) => Closure(Tests, B, {m}) \subseteq T
    BY <2>1, ClosureLeast, Zenon
  <2> QED
    BY <1>2, <2>2
<1>5. Closed(K, H, {m}) /\ Closed(K, B, {m})
  BY <1>1, <1>2 DEF Closed
<1>6. Reach(head, m) \subseteq K /\ Reach(main, m) \subseteq K
  BY <1>3, <1>4, <1>5
<1>7. ASSUME NEW f \in K, NEW g
      PROVE  <<f, g>> \in B <=> <<f, g>> \in H
  BY <1>1 DEF RefersTo
<1>8. /\ \A e \in B : e = <<e[1], e[2]>>
      /\ \A e \in H : e = <<e[1], e[2]>>
  BY DEF RefersTo
<1> HIDE DEF H, B
<1>9. Closed(Reach(head, m), B, {m})
  BY <1>3, <1>6, <1>7, <1>8 DEF Closed
<1>10. Closed(Reach(main, m), H, {m})
  BY <1>4, <1>6, <1>7, <1>8 DEF Closed
<1> QED
  BY <1>3, <1>4, <1>6, <1>9, <1>10

-----------------------------------------------------------------------------
(* Routes.                                                                     *)

LEMMA TierNames ==
    /\ Docs = "docs" /\ Partial = "partial" /\ Fast = "fast" /\ Full = "full"
    /\ \A tier, modules : RouteTo(tier, modules).tier = tier /\ RouteTo(tier, modules).modules = modules
  BY DEF Docs, Partial, Fast, Full, RouteTo

\* What each tier runs of a tree.
LEMMA RanByTier ==
    ASSUME NEW tree, NEW modules
    PROVE  /\ Ran(RouteTo(Docs, modules), tree) = Modules(tree) \intersect Scanners
           /\ Ran(RouteTo(Partial, modules), tree) = Modules(tree) \intersect modules
           /\ Ran(RouteTo(Fast, modules), tree) = Modules(tree) \intersect (fast_suite \union modules)
           /\ Ran(RouteTo(Full, modules), tree) = Modules(tree) \intersect TestModule
  BY TierNames DEF Ran

LEMMA SurfacesAreModules ==
    ASSUME NEW paths, NEW v
    PROVE  Surfaces(paths, v) \subseteq TestModule
  BY DEF Surfaces, Surface, all_test_modules

\* The companions are modules that FAST runs.
LEMMA CompanionsRun ==
    ASSUME NEW kinds
    PROVE  Companions(kinds) \subseteq TestModule /\ Companions(kinds) \subseteq fast_suite
  BY RouteAssumption DEF Companions, fast_suite, is_fast_dropped

\* The tier of a change that FULL does not take.
LEMMA TierCases ==
    ASSUME NEW kinds, NEW surface
    PROVE  /\ kinds = {"pure"} => Tier(kinds, surface) = RouteTo(Docs, {})
           /\ kinds # {"pure"} /\ kinds \intersect {"consumed", "allowlist"} = {} =>
                  Tier(kinds, surface) = RouteTo(Partial, surface \union Companions(kinds))
           /\ kinds \intersect {"consumed", "allowlist"} # {} =>
                  Tier(kinds, surface) = RouteTo(Fast, is_fast_dropped(surface))
  BY DEF Tier

LEMMA TierIsATier ==
    ASSUME NEW paths, NEW v
    PROVE  /\ classify(paths, v) \in [tier : {Docs, Partial, Fast, Full}, modules : SUBSET TestModule]
           /\ classify(paths, v).tier \in {Docs, Partial, Fast, Full}
<1> DEFINE kinds == Kinds(paths, v)
           surface == Surfaces(paths, v)
<1>1. classify(paths, v) = RouteTo(Full, {}) \/ classify(paths, v) = Tier(kinds, surface)
  BY DEF classify
<1>2. surface \subseteq TestModule /\ Companions(kinds) \subseteq TestModule
  BY SurfacesAreModules, CompanionsRun
<1> HIDE DEF kinds, surface
<1>3. is_fast_dropped(surface) \subseteq TestModule
  BY <1>2 DEF is_fast_dropped
<1>4. \/ Tier(kinds, surface) = RouteTo(Docs, {})
      \/ Tier(kinds, surface) = RouteTo(Partial, surface \union Companions(kinds))
      \/ Tier(kinds, surface) = RouteTo(Fast, is_fast_dropped(surface))
  BY TierCases
<1>5. \E tier \in {Docs, Partial, Fast, Full}, modules \in SUBSET TestModule :
        classify(paths, v) = RouteTo(tier, modules)
  BY <1>1, <1>2, <1>3, <1>4
<1> QED
  BY <1>5 DEF RouteTo

\* A change that FULL does not take, and part of it.
LEMMA PartNeedsNoMore ==
    ASSUME NEW v, NEW Q, NEW P \in SUBSET Q, P # {},
           ~ (Q = {} \/ Kinds(Q, v) \intersect Forces # {} \/ Unbounded(Kinds(Q, v), Surfaces(Q, v), v))
    PROVE  /\ Kinds(P, v) \subseteq Kinds(Q, v) /\ Kinds(P, v) # {}
           /\ Surfaces(P, v) \subseteq Surfaces(Q, v)
           /\ Companions(Kinds(P, v)) \subseteq Companions(Kinds(Q, v))
           /\ classify(P, v) = Tier(Kinds(P, v), Surfaces(P, v))
<1>1. Kinds(P, v) \subseteq Kinds(Q, v) /\ Kinds(P, v) # {}
  BY DEF Kinds
<1>2. Surfaces(P, v) \subseteq Surfaces(Q, v)
  BY DEF Surfaces
<1>3. Companions(Kinds(P, v)) \subseteq Companions(Kinds(Q, v))
  BY <1>1 DEF Companions
<1>4. ~ Unbounded(Kinds(P, v), Surfaces(P, v), v)
  BY <1>1, <1>2, <1>3 DEF Unbounded
<1> QED
  BY <1>1, <1>2, <1>3, <1>4 DEF classify

LEMMA AddingRunsMore ==
    ASSUME NEW v, NEW Q, NEW P \in SUBSET Q, P # {}, NEW tree
    PROVE  /\ TierRank[classify(P, v).tier] <= TierRank[classify(Q, v).tier]
           /\ Ran(classify(P, v), tree) \subseteq Ran(classify(Q, v), tree)
<1> DEFINE forced == Q = {} \/ Kinds(Q, v) \intersect Forces # {} \/ Unbounded(Kinds(Q, v), Surfaces(Q, v), v)
<1>0. /\ TierRank[Docs] = 1 /\ TierRank[Partial] = 2 /\ TierRank[Fast] = 3 /\ TierRank[Full] = 4
  BY TierNames DEF TierRank
<1>1. CASE forced
  <2>1. classify(Q, v) = RouteTo(Full, {})
    BY <1>1 DEF classify
  <2>2. TierRank[classify(P, v).tier] \in 1 .. 4
    BY <1>0, TierIsATier
  <2>3. Ran(classify(P, v), tree) \subseteq Modules(tree) \intersect TestModule
    BY DEF Ran, Modules
  <2> QED
    BY <1>0, <2>1, <2>2, <2>3, TierNames, RanByTier
<1>2. CASE ~ forced
  <2> DEFINE p == Kinds(P, v)  q == Kinds(Q, v)  s == Surfaces(P, v)  t == Surfaces(Q, v)
  <2>1. /\ p \subseteq q /\ p # {} /\ s \subseteq t
        /\ Companions(p) \subseteq Companions(q)
        /\ classify(P, v) = Tier(p, s) /\ classify(Q, v) = Tier(q, t)
    BY <1>2, PartNeedsNoMore DEF classify
  <2>2. t \subseteq TestModule /\ Companions(q) \subseteq fast_suite
    BY SurfacesAreModules, CompanionsRun
  <2> HIDE DEF p, q, s, t
  <2>3. is_fast_dropped(s) \subseteq is_fast_dropped(t) /\ t \subseteq fast_suite \union is_fast_dropped(t)
    BY <2>1, <2>2 DEF is_fast_dropped, fast_suite
  <2>4. Scanners \subseteq fast_suite
    BY RouteAssumption DEF fast_suite, is_fast_dropped
  <2>5. CASE q \intersect {"consumed", "allowlist"} # {}
    <3>1. Tier(q, t) = RouteTo(Fast, is_fast_dropped(t))
      BY <2>5, TierCases
    <3>2. Tier(p, s) \in {RouteTo(Docs, {}), RouteTo(Partial, s \union Companions(p)),
                          RouteTo(Fast, is_fast_dropped(s))}
      BY TierCases
    <3> QED
      BY <1>0, <2>1, <2>2, <2>3, <2>4, <3>1, <3>2, TierNames, RanByTier
  <2>6. CASE q # {"pure"} /\ q \intersect {"consumed", "allowlist"} = {}
    <3>1. Tier(q, t) = RouteTo(Partial, t \union Companions(q))
      BY <2>6, TierCases
    <3>2. CASE p = {"pure"}
      <4>1. Scanners \subseteq Companions(q)
        BY <2>1, <3>2 DEF Companions
      <4>2. Tier(p, s) = RouteTo(Docs, {})
        BY <3>2, TierCases
      <4> QED
        BY <1>0, <2>1, <3>1, <4>1, <4>2, TierNames, RanByTier
    <3>3. CASE p # {"pure"}
      <4>1. Tier(p, s) = RouteTo(Partial, s \union Companions(p))
        BY <2>1, <2>6, <3>3, TierCases
      <4> QED
        BY <1>0, <2>1, <3>1, <4>1, TierNames, RanByTier
    <3> QED
      BY <3>2, <3>3
  <2>7. CASE q = {"pure"}
    <3>1. p = {"pure"}
      BY <2>1, <2>7
    <3>2. Tier(p, s) = RouteTo(Docs, {}) /\ Tier(q, t) = RouteTo(Docs, {})
      BY <2>7, <3>1, TierCases
    <3> QED
      BY <1>0, <2>1, <3>2, TierNames
  <2> QED
    BY <2>5, <2>6, <2>7
<1> QED
  BY <1>1, <1>2

\* Adding a path to a change never lowers the tier and never drops a module, in
\* every repository and whichever scans fail (classify).
THEOREM AddingIsMonotone == Spec => []AddingNeverLowers
<1>1. AddingNeverLowers
  <2> SUFFICES ASSUME NEW outcome \in Outcomes \ {"failed"},
                      NEW paths \in (SUBSET Changed) \ {{}}
               PROVE  LET v == ViewOf(outcome)
                          more == classify(Changed, v)
                          less == classify(paths, v)
                      IN  /\ TierRank[less.tier] <= TierRank[more.tier]
                          /\ Ran(less, head) \subseteq Ran(more, head)
    BY DEF AddingNeverLowers
  <2> QED
    BY AddingRunsMore
<1> QED
  BY <1>1, PTL

-----------------------------------------------------------------------------
(* What a green job that leaves a module out has shown.                        *)

\* Main and head are trees whose files outside Guards refer to no guard.
GuardFree(tree) ==
    /\ tree \in Tree
    /\ \A p \in Path \ Guards : tree[p] # None => tree[p].uses \intersect Guards = {}

\* The edges, names and readers of the graph are those of main and of head.
LEMMA GraphOfBoth ==
    LET g == build_impact_graph IN
    /\ g.files = Files(main) \union Files(head) /\ g.head_files = Files(head)
    /\ g.problems = scan_tests(main).problems \union scan_tests(head).problems
    /\ \A q, f : /\ <<q, f>> \in scan_tests(main).edges \/ <<q, f>> \in scan_tests(head).edges
                 => <<q, f>> \in g.edges
    /\ \A w, f : <<w, f>> \in scan_tests(head).names => <<w, f>> \in g.names
    /\ \A f : f \in scan_tests(head).readers => f \in g.readers
    /\ \A e \in g.edges : e[2] \in g.files
    /\ g.readers \subseteq g.files
<1>1. scan_tests(main).files = Files(main) /\ scan_tests(head).files = Files(head)
  BY DEF scan_tests
<1>2. \A e \in scan_tests(main).edges : e[2] \in Files(main)
  BY DEF scan_tests, Sources
<1>3. \A e \in scan_tests(head).edges : e[2] \in Files(head)
  BY DEF scan_tests, Sources
<1>4. scan_tests(main).readers \subseteq Files(main) /\ scan_tests(head).readers \subseteq Files(head)
  BY DEF scan_tests, Sources
<1> QED
  BY <1>1, <1>2, <1>3, <1>4 DEF build_impact_graph, merge_scans

\* The closure of a changed path that the graph can answer for.
LEMMA SurfaceClosed ==
    ASSUME NEW p \in Path, Routable(p), Resolved(p, build_impact_graph)
    PROVE  LET C == affected_closure(build_impact_graph, Seeds(p, build_impact_graph)) IN
           /\ Seeds(p, build_impact_graph) \subseteq C
           /\ \A q, f : q \in C /\ <<q, f>> \in build_impact_graph.edges => f \in C
<1> DEFINE g == build_impact_graph
<1>1. Seeds(p, g) \in SUBSET g.files
  <2>1. CASE Area[p] = "tests"
    BY <2>1 DEF Seeds, Resolved, Known
  <2>2. CASE Area[p] # "tests"
    BY <2>2, GraphOfBoth DEF Seeds
  <2> QED
    BY <2>1, <2>2
<1>2. \A e \in g.edges : e[2] \in g.files
  BY GraphOfBoth
<1> DEFINE C == affected_closure(g, Seeds(p, g))
<1>3. Closed(C, g.edges, Seeds(p, g))
  <2> HIDE DEF g
  <2>1. Closed(Closure(g.files, g.edges, Seeds(p, g)), g.edges, Seeds(p, g))
    BY <1>1, <1>2, ClosureLeast, Zenon
  <2> QED
    BY <2>1 DEF affected_closure
<1> QED
  <2> HIDE DEF g, C
  <2>1. Seeds(p, g) \subseteq C
    BY <1>3 DEF Closed
  <2>2. ASSUME NEW q, NEW f, q \in C, <<q, f>> \in g.edges
        PROVE  f \in C
    BY <1>3, <2>2 DEF Closed
  <2> QED
    BY <2>1, <2>2 DEF C, g

\* The test files that no changed path has in its closure.
Untouched ==
    {f \in Tests \ Guards :
        \A p \in Changed : Routable(p) =>
            f \notin affected_closure(build_impact_graph, Seeds(p, build_impact_graph))}

\* When every changed path is resolved and the head has no gap, such files are
\* the same in both trees, refer to no others, and name no changed workflow.
LEMMA UntouchedIsClosed ==
    ASSUME GuardFree(head), GraphUsable(build_impact_graph),
           \A p \in Changed : Routable(p) => Resolved(p, build_impact_graph),
           scan_tests(head).dynamic = {}
    PROVE  /\ \A f \in Untouched : main[f] = head[f]
           /\ \A f \in Untouched : References(head, f) \intersect Tests \subseteq Untouched
           /\ \A f \in Untouched \intersect Python :
                  Workflows \intersect Changed \intersect Names(head, f) = {}
<1> DEFINE g == build_impact_graph
           Hit(p) == affected_closure(g, Seeds(p, g))
<1>1. ASSUME NEW f \in Untouched
      PROVE  main[f] = head[f]
  <2>1. f \in Path /\ Area[f] = "tests"
    BY DEF Untouched, Tests
  <2>2. ASSUME f \in Changed
        PROVE  FALSE
    <3>1. Routable(f) /\ f \in Seeds(f, g)
      BY <2>1 DEF Routable, Seeds
    <3>2. f \in Hit(f)
      BY <2>1, <2>2, <3>1, SurfaceClosed
    <3> QED
      BY <2>2, <3>1, <3>2 DEF Untouched
  <2> QED
    BY <2>1, <2>2 DEF Changed
<1>2. ASSUME NEW f \in Untouched \intersect Python, head[f] # None
      PROVE  /\ f \in Sources(head) /\ f \in Sources(main) /\ ~ head[f].opaque
             /\ References(head, f) = head[f].uses \union Inits[f]
             /\ f \notin Guards
  <2>1. main[f] = head[f] /\ f \in Tests \ Guards
    BY <1>1 DEF Untouched
  <2>2. f \in Files(head) /\ f \in Files(main)
    BY <1>2, <2>1 DEF Files
  <2>3. f \in Sources(head)
    BY <2>2, GraphOfBoth DEF GraphUsable, scan_tests
  <2>4. f \in Sources(main)
    BY <2>1, <2>2, <2>3 DEF Sources
  <2>5. ~ head[f].opaque
    BY <2>3 DEF scan_tests, Unresolved
  <2> QED
    BY <1>2, <2>1, <2>3, <2>4, <2>5 DEF References
<1>3. ASSUME NEW f \in Untouched, NEW q \in References(head, f) \intersect Tests
      PROVE  q \in Untouched
  <2>1. f \in Python /\ head[f] # None
    BY <1>3 DEF References
  <2>2. /\ f \in Sources(head) /\ f \in Sources(main) /\ f \in Tests \ Guards
        /\ q \in head[f].uses \union Inits[f]
    BY <1>2, <2>1 DEF Untouched
  <2>3. q \notin Guards
    <3>1. f \in Path \ Guards
      BY <2>2 DEF Tests
    <3> QED
      BY <2>1, <2>2, <3>1, RouteAssumption DEF GuardFree
  <2>4. ASSUME NEW p \in Changed, Routable(p), q \in Hit(p)
        PROVE  FALSE
    <3>1. p \in Path /\ Resolved(p, g)
      BY <2>4 DEF Changed
    <3>2. Hit(p) \subseteq Files(main) \union Files(head)
      <4>1. Seeds(p, g) \in SUBSET g.files /\ \A e \in g.edges : e[2] \in g.files
        BY <3>1, GraphOfBoth DEF Seeds, Resolved, Known
      <4> HIDE DEF g
      <4>2. Closure(g.files, g.edges, Seeds(p, g)) \in SUBSET g.files
        BY <4>1, ClosureLeast, Zenon
      <4> QED
        BY <4>2, GraphOfBoth DEF affected_closure, g
    <3>3. f \notin Hit(p)
      BY <2>4 DEF Untouched
    <3>4. q # f
      BY <2>4, <3>3
    <3>5. <<q, f>> \in g.edges
      <4>1. q \in Files(main) => q \in Deps(main, f)
        BY <1>1, <2>2, <3>4 DEF Deps
      <4>2. q \in Files(head) => q \in Deps(head, f)
        BY <2>2, <3>4 DEF Deps
      <4>3. q \in Files(main) => <<q, f>> \in scan_tests(main).edges
        BY <2>2, <4>1 DEF scan_tests
      <4>4. q \in Files(head) => <<q, f>> \in scan_tests(head).edges
        BY <2>2, <4>2 DEF scan_tests
      <4> QED
        BY <2>4, <3>2, <4>3, <4>4, GraphOfBoth
    <3>6. f \in Hit(p)
      BY <2>4, <3>1, <3>5, SurfaceClosed
    <3> QED
      BY <3>3, <3>6
  <2> QED
    BY <2>3, <2>4 DEF Untouched
<1>4. ASSUME NEW f \in Untouched \intersect Python,
             NEW w \in Workflows \intersect Changed, w \in Names(head, f)
      PROVE  FALSE
  <2>1. head[f] # None
    BY <1>4 DEF Names
  <2>2. f \in Sources(head) /\ f \in Tests
    BY <1>2, <2>1 DEF Untouched
  <2>3. w \in Path /\ Routable(w) /\ Area[w] = "workflow"
    BY DEF Workflows, Routable
  <2>4. w \notin DocsTree
    BY <2>3 DEF DocsTree
  <2>5. w \in head[f].mentions \/ head[f].workflows
    BY <1>4, <2>1, <2>4 DEF Names
  <2>6. CASE w \in head[f].mentions
    <3>1. <<w, f>> \in scan_tests(head).names
      BY <2>2, <2>6 DEF scan_tests
    <3>2. <<w, f>> \in g.names
      BY <3>1, GraphOfBoth
    <3>3. f \in g.files
      BY <2>2, GraphOfBoth DEF Sources
    <3> QED
      <4>1. f \in Seeds(w, g)
        BY <2>3, <3>2, <3>3 DEF Seeds
      <4>2. f \in Hit(w)
        BY <2>3, <4>1, SurfaceClosed
      <4> QED
        BY <2>3, <4>2 DEF Untouched
  <2>7. CASE head[f].workflows
    <3>1. f \in scan_tests(head).readers
      BY <2>2, <2>7 DEF scan_tests
    <3>2. f \in g.readers
      BY <3>1, GraphOfBoth
    <3>3. f \in Seeds(w, g)
      BY <2>3, <3>2 DEF Seeds
    <3>4. f \in Hit(w)
      BY <2>3, <3>3, SurfaceClosed
    <3> QED
      BY <2>3, <3>4 DEF Untouched
  <2> QED
    BY <2>5, <2>6, <2>7
<1> QED
  BY <1>1, <1>3, <1>4

-----------------------------------------------------------------------------
(* Documents.                                                                  *)

\* A changed document that counts as pure is named by no file that a module
\* reaches and by no program.
LEMMA PureIsUnnamed ==
    ASSUME NEW outcome, NEW c \in DocsTree \union Markdown,
           Kind(c, ViewOf(outcome)) = "pure",
           NEW f \in Tests \union Programs, f \notin RouterFiles \union Scanners,
           c \in DocsTree => f \notin FactOnly
    PROVE  c \notin Names(head, f)
<1> DEFINE v == ViewOf(outcome)
           i == consumer_index(head)
<1>1. c \in Path /\ Area[c] \in {"docs", "markdown"} /\ ~ Routable(c)
  BY DEF DocsTree, Markdown, Routable
<1>2. PathKind(c, v.index) = "pure"
  BY <1>1 DEF Kind
<1>3. IndexUsable(v.index) /\ c \notin v.index.refs
  BY <1>1, <1>2 DEF PathKind
<1>4. v.index = i
  <2>1. v.index # None
    BY <1>3 DEF IndexUsable
  <2> QED
    BY <2>1 DEF ViewOf
<1>5. Wildcard(head) = {} /\ c \notin DocsRefs(head) \union GeneralRefs(head)
  BY <1>3, <1>4 DEF IndexUsable, consumer_index
<1>6. SUFFICES ASSUME c \in Names(head, f)
               PROVE  FALSE
  OBVIOUS
<1>7. head[f] # None /\ f \in Consumers(head)
  BY <1>6 DEF Names, Consumers
<1>8. c \notin Workflows
  BY <1>1 DEF Workflows
<1>9. c \in head[f].mentions \/ (head[f].docs = "computed" /\ c \in DocsTree)
  BY <1>6, <1>7, <1>8 DEF Names
<1>10. CASE c \in head[f].mentions
  <2>1. CASE c \in Markdown
    BY <1>5, <1>7, <1>10, <2>1 DEF GeneralRefs
  <2>2. CASE c \in DocsTree
    BY <1>5, <1>7, <1>10, <2>2 DEF DocsRefs
  <2> QED
    BY <2>1, <2>2
<1>11. CASE head[f].docs = "computed" /\ c \in DocsTree
  BY <1>5, <1>7, <1>11 DEF Wildcard
<1> QED
  BY <1>9, <1>10, <1>11

-----------------------------------------------------------------------------
(* A module that is left out.                                                  *)

\* The facts the tier of a green route gives about a module it leaves out.
LEMMA LeftOut ==
    ASSUME NEW outcome, Changed # {},
           NEW m \in Modules(head) \ Scanners,
           Runnable(classify(Changed, ViewOf(outcome))),
           m \notin Ran(classify(Changed, ViewOf(outcome)), head)
    PROVE  LET v == ViewOf(outcome) IN
           /\ \A p \in Changed : Kind(p, v) \notin Forces
           /\ m \notin Dropped => \A p \in Changed : Kind(p, v) \notin {"consumed", "allowlist"}
           /\ (\E p \in Changed : Routable(p)) =>
                  /\ v.graph = build_impact_graph /\ GraphUsable(build_impact_graph)
                  /\ m \notin Guards /\ m \notin Surfaces(Changed, v)
                  /\ scan_tests(head).dynamic = {}
<1> DEFINE v == ViewOf(outcome)
           kinds == Kinds(Changed, v)
           surface == Surfaces(Changed, v)
           route == classify(Changed, v)
<1>1. m \in TestModule /\ m \in Modules(head)
  BY DEF Modules
<1>2. route # RouteTo(Full, {})
  BY <1>1, RanByTier
<1>3. /\ kinds \intersect Forces = {} /\ ~ Unbounded(kinds, surface, v)
      /\ route = Tier(kinds, surface)
  BY <1>2 DEF classify
<1>4. \A p \in Changed : Kind(p, v) \in kinds
  BY DEF Kinds
<1>5. m \in fast_suite \/ m \in Dropped
  BY <1>1 DEF fast_suite, is_fast_dropped
<1>6. m \notin Dropped => kinds \intersect {"consumed", "allowlist"} = {}
  <2>1. SUFFICES ASSUME m \notin Dropped, kinds \intersect {"consumed", "allowlist"} # {}
                 PROVE  FALSE
    OBVIOUS
  <2>2. route = RouteTo(Fast, is_fast_dropped(surface))
    BY <1>3, <2>1, TierCases
  <2> QED
    BY <1>1, <1>5, <2>1, <2>2, RanByTier
<1>7. ASSUME NEW p \in Changed, Routable(p)
      PROVE  /\ v.graph = build_impact_graph /\ GraphUsable(build_impact_graph)
             /\ m \notin Guards /\ m \notin surface
             /\ scan_tests(head).dynamic = {}
  <2>1. Kind(p, v) = "tests" /\ Resolved(p, v.graph)
    BY <1>3, <1>4, <1>7 DEF Kind, Forces
  <2>2. GraphUsable(v.graph) /\ v.graph = build_impact_graph
    BY <2>1 DEF Resolved, GraphUsable, ViewOf
  <2>3. "tests" \in kinds /\ kinds # {"pure"}
    BY <1>4, <2>1
  <2>4. Companions(kinds) \subseteq all_test_modules(v.graph)
    BY <1>3, <2>3 DEF Unbounded
  <2>5. Guards \subseteq Modules(head) /\ Guards \subseteq Companions(kinds)
    BY <2>2, <2>4, GraphOfBoth DEF Companions, all_test_modules, Modules
  <2>6. ScanGuard \in Ran(route, head) /\ m \notin Guards /\ m \notin surface
    <3>1. CASE kinds \intersect {"consumed", "allowlist"} = {}
      <4>1. route = RouteTo(Partial, surface \union Companions(kinds))
        BY <1>3, <2>3, <3>1, TierCases
      <4> QED
        BY <1>1, <2>5, <4>1, RanByTier, RouteAssumption
    <3>2. CASE kinds \intersect {"consumed", "allowlist"} # {}
      <4>1. route = RouteTo(Fast, is_fast_dropped(surface))
        BY <1>3, <3>2, TierCases
      <4>2. m \in Dropped /\ m \notin is_fast_dropped(surface)
        BY <1>1, <1>6, <3>2, <4>1, RanByTier
      <4>3. Guards \subseteq fast_suite /\ m \notin Guards
        BY <4>2, RouteAssumption DEF fast_suite, is_fast_dropped
      <4> QED
        BY <2>5, <4>1, <4>2, <4>3, RanByTier, RouteAssumption DEF is_fast_dropped
    <3> QED
      BY <3>1, <3>2
  <2>7. scan_tests(head).dynamic = {}
    BY <2>6 DEF Runnable
  <2> QED
    BY <2>2, <2>6, <2>7
<1> QED
  BY <1>3, <1>4, <1>6, <1>7

\* A module that a green job leaves out sees of head what it sees of main.
LEMMA NothingNew ==
    ASSUME GuardFree(main), GuardFree(head), NEW outcome, Changed # {},
           NEW m \in Modules(head) \ Scanners,
           Runnable(classify(Changed, ViewOf(outcome))),
           m \notin Ran(classify(Changed, ViewOf(outcome)), head)
    PROVE  m \in Modules(main) /\ Sees(main, m) = Sees(head, m)
<1> DEFINE v == ViewOf(outcome)
<1>1. /\ \A p \in Changed : Kind(p, v) \notin Forces
      /\ m \notin Dropped => \A p \in Changed : Kind(p, v) \notin {"consumed", "allowlist"}
  BY LeftOut
<1>2. m \in TestModule /\ m \in Tests /\ head[m] # None /\ m \notin Scanners
  BY DEF Modules, Files
<1>3. \E K \in SUBSET Tests :
        /\ m \in K
        /\ \A f \in K : main[f] = head[f]
        /\ \A f \in K : References(head, f) \intersect Tests \subseteq K
        /\ \A f \in K \intersect Python : Workflows \intersect Changed \intersect Names(head, f) = {}
  <2>1. CASE \E p \in Changed : Routable(p)
    <3>1. /\ v.graph = build_impact_graph /\ GraphUsable(build_impact_graph)
          /\ m \notin Guards /\ m \notin Surfaces(Changed, v)
          /\ scan_tests(head).dynamic = {}
      BY <2>1, LeftOut
    <3>2. \A p \in Changed : Routable(p) => Resolved(p, build_impact_graph)
      BY <1>1, <3>1 DEF Kind, Forces
    <3>3. m \in Untouched
      <4>1. m \in all_test_modules(build_impact_graph)
        BY <1>2, GraphOfBoth DEF all_test_modules, Files
      <4>2. \A p \in Changed : Routable(p) =>
                m \notin affected_closure(build_impact_graph, Seeds(p, build_impact_graph))
        BY <3>1, <4>1 DEF Surfaces, Surface
      <4> QED
        BY <1>2, <3>1, <4>2 DEF Untouched
    <3>4. Untouched \in SUBSET Tests
      BY DEF Untouched
    <3> QED
      BY <3>1, <3>2, <3>3, <3>4, UntouchedIsClosed
  <2>2. CASE ~ \E p \in Changed : Routable(p)
    <3>1. \A f \in Tests : main[f] = head[f]
      BY <2>2 DEF Tests, Changed, Routable
    <3>2. Workflows \intersect Changed = {}
      BY <2>2 DEF Workflows, Routable
    <3> QED
      BY <1>2, <3>1, <3>2
  <2> QED
    BY <2>1, <2>2
<1>4. PICK K \in SUBSET Tests :
        /\ m \in K
        /\ \A f \in K : main[f] = head[f]
        /\ \A f \in K : References(head, f) \intersect Tests \subseteq K
        /\ \A f \in K \intersect Python : Workflows \intersect Changed \intersect Names(head, f) = {}
  BY <1>3
<1>5. Reach(main, m) = Reach(head, m) /\ Reach(head, m) \subseteq K
  BY <1>4, ReachSame
<1>6. \A c \in Programs : main[c] = head[c]
  BY <1>1 DEF Programs, Changed, Kind, PathKind, Forces, Routable
<1>7. \A f \in Reach(head, m) \union Programs :
        main[f] = head[f] /\ Names(main, f) = Names(head, f)
  BY <1>4, <1>5, <1>6 DEF Names
<1>8. m \in Modules(main)
  BY <1>2, <1>4 DEF Modules, Files
<1>9. View(main, m) = View(head, m)
  BY <1>5, <1>7 DEF View
<1>10. ASSUME NEW c \in View(head, m)
       PROVE  main[c] = head[c]
  <2>1. CASE c \in Reach(head, m) \union Programs
    BY <1>7, <2>1
  <2>2. CASE c \in Workflows /\ \E f \in Reach(head, m) \intersect Python : c \in Names(head, f)
    BY <1>4, <1>5, <2>2 DEF Workflows, Changed
  <2>3. CASE m \notin Dropped /\ c \in Allowlisted
    BY <1>1, <2>3 DEF Allowlisted, Changed, Kind, PathKind, Routable
  <2>4. CASE /\ m \notin Dropped /\ c \in DocsTree
             /\ \E f \in (Reach(head, m) \union (Programs \ FactOnly)) \ (RouterFiles \union Scanners) :
                    c \in Names(head, f)
    <3>1. PICK f \in (Reach(head, m) \union (Programs \ FactOnly)) \ (RouterFiles \union Scanners) :
                  c \in Names(head, f)
      BY <2>4
    <3>2. f \in Tests \union Programs /\ f \notin FactOnly
      BY <1>5, <3>1, RouteAssumption DEF Tests
    <3>3. Kind(c, v) # "pure"
      BY <2>4, <3>1, <3>2, PureIsUnnamed
    <3>4. c \in Path /\ Area[c] = "docs"
      BY <2>4 DEF DocsTree
    <3> QED
      BY <1>1, <2>4, <3>3, <3>4 DEF Changed, Kind, PathKind, Routable, Forces
  <2>5. CASE /\ m \notin Dropped /\ c \in Markdown
             /\ \E f \in (Reach(head, m) \union Programs) \ (RouterFiles \union Scanners) :
                    c \in Names(head, f)
    <3>1. PICK f \in (Reach(head, m) \union Programs) \ (RouterFiles \union Scanners) :
                  c \in Names(head, f)
      BY <2>5
    <3>2. f \in Tests \union Programs /\ c \notin DocsTree
      BY <1>5, <2>5, <3>1 DEF DocsTree, Markdown
    <3>3. Kind(c, v) # "pure"
      BY <2>5, <3>1, <3>2, PureIsUnnamed
    <3>4. c \in Path /\ Area[c] = "markdown"
      BY <2>5 DEF Markdown
    <3> QED
      BY <1>1, <2>5, <3>3, <3>4 DEF Changed, Kind, PathKind, Routable, Forces
  <2> QED
    BY <1>2, <2>1, <2>2, <2>3, <2>4, <2>5 DEF View
<1> QED
  BY <1>8, <1>9, <1>10 DEF Sees

-----------------------------------------------------------------------------
(* The invariant.                                                              *)

\* A route that is in force was made from the trees as they are, and a green job
\* had its step run.
RouteInForce ==
    ci.stage \in {"routed", "green"} =>
        /\ Changed # {}
        /\ \/ ci.route = RouteTo(Full, {})
           \/ \E outcome \in Outcomes : ci.route = classify(Changed, ViewOf(outcome))
        /\ ci.stage = "green" => Runnable(ci.route)

Sound ==
    /\ GuardFree(main) /\ GuardFree(head)
    /\ TypeOK
    /\ RouteInForce
    /\ NothingEscapes

LEMMA SoundInit == Init => Sound
<1> SUFFICES ASSUME Init
             PROVE  Sound
  OBVIOUS
<1>1. GuardFree(Seed)
  BY DraftAssumption, GuardsApart DEF GuardFree, Tree
<1>2. TypeOK
  BY <1>1, DraftAssumption DEF Init, TypeOK, Idle, GuardFree
<1>3. RouteInForce
  BY DEF Init, RouteInForce, Idle
<1>4. NothingEscapes
  BY DEF Init, NothingEscapes, Modules
<1> QED
  BY <1>1, <1>2, <1>3, <1>4 DEF Sound, Init

\* What a step that leaves both trees alone keeps.
LEMMA SameTrees ==
    ASSUME Sound, UNCHANGED <<main, head, proved, edits>>
    PROVE  /\ GuardFree(main)' /\ GuardFree(head)' /\ NothingEscapes'
           /\ main' \in Tree /\ head' \in Tree /\ edits' \in 0..MaxEdits /\ DOMAIN proved' = TestModule
           /\ Changed' = Changed /\ \A outcome : ViewOf(outcome)' = ViewOf(outcome)
           /\ \A route : Runnable(route)' <=> Runnable(route)
<1>1. Changed' = Changed
  BY DEF Changed
<1>2. \A outcome : ViewOf(outcome)' = ViewOf(outcome)
  BY <1>1 DEF ViewOf, build_impact_graph
<1>3. \A route : Runnable(route)' <=> Runnable(route)
  BY DEF Runnable
<1>4. NothingEscapes'
  BY DEF Sound, NothingEscapes
<1> QED
  BY <1>1, <1>2, <1>3, <1>4 DEF Sound, TypeOK, GuardFree

LEMMA RoutesAreTyped ==
    ASSUME NEW route, \/ route = RouteTo(Full, {})
                      \/ \E paths, v : route = classify(paths, v)
    PROVE  route \in [tier : {Docs, Partial, Fast, Full}, modules : SUBSET TestModule]
  BY TierIsATier DEF RouteTo

LEMMA SoundStep == Sound /\ [Next]_vars => Sound'
<1> SUFFICES ASSUME Sound, [Next]_vars
             PROVE  Sound'
  OBVIOUS
<1> USE DEF Sound
<1>1. ASSUME NEW p \in Path, NEW text \in Draft[p], Edit(p, text)
      PROVE  Sound'
  <2>1. /\ head' = [head EXCEPT ![p] = text] /\ main' = main /\ proved' = proved
        /\ ci' = Idle /\ edits' = edits + 1 /\ edits < MaxEdits
    BY <1>1 DEF Edit
  <2>2. text \in Text \union {None}
    BY DraftAssumption
  <2>3. GuardFree(head')
    <3>1. head' \in Tree
      BY <2>1, <2>2 DEF GuardFree, Tree
    <3>2. ASSUME NEW q \in Path \ Guards, head'[q] # None
          PROVE  head'[q].uses \intersect Guards = {}
      BY <2>1, <3>2, GuardsApart DEF GuardFree, Tree
    <3> QED
      BY <3>1, <3>2 DEF GuardFree
  <2>4. TypeOK'
    BY <2>1, <2>3, DraftAssumption DEF TypeOK, Idle, GuardFree
  <2>5. RouteInForce'
    BY <2>1 DEF RouteInForce, Idle
  <2>6. NothingEscapes'
    BY <2>1 DEF NothingEscapes
  <2> QED
    BY <2>1, <2>3, <2>4, <2>5, <2>6
<1>2. ASSUME NEW outcome \in Outcomes, Route(outcome)
      PROVE  Sound'
  <2>1. /\ UNCHANGED <<main, head, proved, edits>> /\ Changed # {}
        /\ \E route : /\ ci' = [stage |-> "routed", route |-> route]
                      /\ route = RouteTo(Full, {}) \/ route = classify(Changed, ViewOf(outcome))
    BY <1>2 DEF Route
  <2>2. /\ GuardFree(main)' /\ GuardFree(head)' /\ NothingEscapes'
        /\ main' \in Tree /\ head' \in Tree /\ edits' \in 0..MaxEdits /\ DOMAIN proved' = TestModule
        /\ Changed' = Changed /\ ViewOf(outcome)' = ViewOf(outcome)
    BY <2>1, SameTrees
  <2>3. RouteInForce'
    BY <2>1, <2>2 DEF RouteInForce
  <2>4. TypeOK'
    <3>1. PICK route : /\ ci' = [stage |-> "routed", route |-> route]
                       /\ route = RouteTo(Full, {}) \/ route = classify(Changed, ViewOf(outcome))
      BY <2>1
    <3>2. route \in [tier : {Docs, Partial, Fast, Full}, modules : SUBSET TestModule]
      BY <3>1, RoutesAreTyped
    <3>3. ci' \in [stage : {"routed", "green", "red"},
                   route : [tier : {Docs, Partial, Fast, Full}, modules : SUBSET TestModule]]
      BY <3>1, <3>2
    <3> QED
      BY <2>2, <3>3 DEF TypeOK
  <2> QED
    BY <2>2, <2>3, <2>4
<1>3. CASE Pass
  <2>1. /\ UNCHANGED <<main, head, proved, edits>> /\ ci.stage = "routed"
        /\ ci' = [ci EXCEPT !.stage = "green"] /\ Runnable(ci.route)
    BY <1>3 DEF Pass
  <2>2. /\ GuardFree(main)' /\ GuardFree(head)' /\ NothingEscapes'
        /\ main' \in Tree /\ head' \in Tree /\ edits' \in 0..MaxEdits /\ DOMAIN proved' = TestModule
        /\ Changed' = Changed /\ \A outcome : ViewOf(outcome)' = ViewOf(outcome)
        /\ Runnable(ci.route)' <=> Runnable(ci.route)
    BY <2>1, SameTrees
  <2>3. ci'.route = ci.route /\ ci'.stage = "green"
    BY <2>1 DEF TypeOK, Idle
  <2>4. RouteInForce'
    BY <2>1, <2>2, <2>3 DEF RouteInForce
  <2>5. TypeOK'
    BY <2>1, <2>2, <2>3 DEF TypeOK, Idle
  <2> QED
    BY <2>2, <2>4, <2>5
<1>4. CASE Fail
  <2>1. /\ UNCHANGED <<main, head, proved, edits>> /\ ci.stage = "routed"
        /\ ci' = [ci EXCEPT !.stage = "red"]
    BY <1>4 DEF Fail
  <2>2. /\ GuardFree(main)' /\ GuardFree(head)' /\ NothingEscapes'
        /\ main' \in Tree /\ head' \in Tree /\ edits' \in 0..MaxEdits /\ DOMAIN proved' = TestModule
    BY <2>1, SameTrees
  <2>3. ci'.route = ci.route /\ ci'.stage = "red"
    BY <2>1 DEF TypeOK, Idle
  <2>4. RouteInForce'
    BY <2>3 DEF RouteInForce
  <2>5. TypeOK'
    BY <2>1, <2>2, <2>3 DEF TypeOK, Idle
  <2> QED
    BY <2>2, <2>4, <2>5
<1>5. CASE Merge
  <2>1. /\ ci.stage = "green" /\ main' = head /\ head' = head /\ ci' = Idle /\ edits' = edits
        /\ proved' = [m \in TestModule |->
                         IF m \in Ran(ci.route, head) THEN Sees(head, m) ELSE proved[m]]
    BY <1>5 DEF Merge
  <2>2. GuardFree(main)' /\ GuardFree(head)'
    BY <2>1 DEF GuardFree
  <2>3. TypeOK'
    BY <2>1 DEF TypeOK, Idle
  <2>4. RouteInForce'
    BY <2>1 DEF RouteInForce, Idle
  <2>5. ASSUME NEW m \in Modules(head) \ Scanners
        PROVE  proved'[m] = Sees(head, m)
    <3>1. m \in TestModule
      BY DEF Modules
    <3>2. CASE m \in Ran(ci.route, head)
      BY <2>1, <3>1, <3>2
    <3>3. CASE m \notin Ran(ci.route, head)
      <4>1. ci.route # RouteTo(Full, {})
        BY <3>1, <3>3, RanByTier
      <4>2. PICK outcome \in Outcomes : ci.route = classify(Changed, ViewOf(outcome))
        BY <2>1, <4>1 DEF RouteInForce
      <4>3. Runnable(ci.route) /\ Changed # {}
        BY <2>1 DEF RouteInForce
      <4>4. m \in Modules(main) /\ Sees(main, m) = Sees(head, m)
        BY <3>3, <4>2, <4>3, NothingNew
      <4>5. proved[m] = Sees(main, m)
        BY <4>4 DEF NothingEscapes
      <4> QED
        BY <2>1, <3>1, <3>3, <4>4, <4>5
    <3> QED
      BY <3>2, <3>3
  <2>6. NothingEscapes'
    BY <2>1, <2>5 DEF NothingEscapes
  <2> QED
    BY <2>2, <2>3, <2>4, <2>6
<1>6. CASE UNCHANGED vars
  <2>1. UNCHANGED <<main, head, proved, edits>> /\ ci' = ci
    BY <1>6 DEF vars
  <2>2. /\ GuardFree(main)' /\ GuardFree(head)' /\ NothingEscapes'
        /\ main' \in Tree /\ head' \in Tree
        /\ Changed' = Changed /\ \A outcome : ViewOf(outcome)' = ViewOf(outcome)
        /\ \A route : Runnable(route)' <=> Runnable(route)
    BY <2>1, SameTrees
  <2>3. TypeOK'
    BY <2>1 DEF TypeOK
  <2>4. RouteInForce'
    BY <2>1, <2>2 DEF RouteInForce
  <2> QED
    BY <2>2, <2>3, <2>4
<1> QED
  BY <1>1, <1>2, <1>3, <1>4, <1>5, <1>6 DEF Next

\* A test module that no job ran on a change would have seen nothing new: what it
\* sees of main is what it saw when it last passed, in every repository whose
\* companions are no libraries, over any number of pull requests, deletions and
\* failed scans (affected_closure, merge_scans, classify).
THEOREM LeavingOutIsSafe == Spec => []NothingEscapes
<1>1. Sound => NothingEscapes
  BY DEF Sound
<1> QED
  BY SoundInit, SoundStep, <1>1, PTL DEF Spec

\* The trees, the route and the history have their types, and the modules that a
\* route names are test modules.
THEOREM RouteTypeCorrect == Spec => []TypeOK
<1>1. Sound => TypeOK
  BY DEF Sound
<1> QED
  BY SoundInit, SoundStep, <1>1, PTL DEF Spec
=============================================================================
