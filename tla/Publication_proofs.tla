-------------------------- MODULE Publication_proofs --------------------------
(***************************************************************************)
(* Proofs about the publication sweep, for any number of lanes, runs,      *)
(* results and failures.  First for any number of overlapping passes: its  *)
(* types, HistorySound and the refinement of PublicationContract, from one *)
(* inductive invariant.  HistorySound alone is not inductive: a pass       *)
(* writes from what it read several calls earlier, so the invariant says,  *)
(* label by label, which of these readings no other pass can have undone.  *)
(* Then, from the section on single sweeps on, for passes one at a time.   *)
(***************************************************************************)
EXTENDS Publication, WellFoundedInduction, SequenceTheorems, FiniteSetTheorems, TLAPS

-----------------------------------------------------------------------------
(* Lemmas about the operators of the model. *)

Less == {ss \in Nat \X Nat : ss[1] < ss[2]}

\* `<` on the naturals is well-founded, as the library states it for a relation.
LEMMA LessWellFounded == IsWellFoundedOn(Less, Nat)
BY NatLessThanWellFounded DEF Less, OpToRel

\* "Lowest number first": a set of issue numbers has a lowest one, and it is
\* what the CHOOSE of Lowest returns.
LEMMA LowestIsMin ==
    ASSUME NEW S, S \subseteq Nat, S # {}
    PROVE  Lowest(S) \in S /\ \A m \in S : Lowest(S) <= m
<1>1. PICK n \in S : \A m \in S : ~ (<<m, n>> \in Less)
  BY LessWellFounded, WFMin
<1>2. ASSUME NEW m \in S PROVE n <= m
  <2>1. m \in Nat /\ n \in Nat OBVIOUS
  <2>2. CASE m < n
    <3>1. <<m, n>> \in Nat \X Nat BY <2>1
    <3>2. <<m, n>>[1] = m /\ <<m, n>>[2] = n OBVIOUS
    <3>3. <<m, n>> \in Less BY <2>2, <3>1, <3>2 DEF Less
    <3> QED BY <1>1, <3>3
  <2> QED BY <2>1, <2>2
<1> QED BY <1>2 DEF Lowest

\* What a sealed file says is typed, and its lane is the lane of its run.
LEMMA BodyType ==
    ASSUME NEW x \in Result
    PROVE  /\ Body[x] \in ResultBody
           /\ RunOf(x) \in Run
           /\ LaneOfResult(x) \in Lane
BY ConstantTypes DEF RunOf, LaneOfResult, ResultBody

\* A pass starts a candidate with typed locals.
LEMMA FreshType == Fresh \in Locals
BY DEF Fresh, Locals

\* The issues an issue listing returns are issue numbers.
LEMMA OpenIssuesAreNumbers ==
    ASSUME issues \in Seq(Issue), NEW f
    PROVE  OpenIssues(f) \subseteq DOMAIN issues /\ DOMAIN issues \subseteq Nat
BY DEF OpenIssues

-----------------------------------------------------------------------------
(* Type correctness. *)

\* The seeded stores and idle passes are typed.
LEMMA TypeInit == Init => TypeOK
<1> SUFFICES ASSUME Init PROVE TypeOK
  OBVIOUS
<1>1. \A r \in Run : SeededResult(r) \in Result \cup {None}
  <2> TAKE r \in Run
  <2>1. CASE \E x \in Seeded : RunOf(x) = r
    BY <2>1, ConstantTypes DEF SeededResult
  <2>2. CASE ~ \E x \in Seeded : RunOf(x) = r
    BY <2>2 DEF SeededResult
  <2> QED BY <2>1, <2>2
<1>2. pointers \in [Lane -> Run \cup {None}]
  <2>1. ASSUME NEW l \in Lane, \E x \in Seeded : LaneOfResult(x) = l
        PROVE  RunOf(CHOOSE x \in Seeded : LaneOfResult(x) = l) \in Run
    BY <2>1, BodyType, ConstantTypes
  <2> QED BY <2>1 DEF Init, SeededPointer
<1>3. /\ handoff \in [Run -> Result \cup {None}]
      /\ pushed \subseteq Result
      /\ aged \subseteq Run
      /\ deferred \in [Run -> SUBSET Fingerprint]
      /\ failures \in 0..MaxFailures
      /\ evidence \in [Run -> Nat]
  BY ConstantTypes DEF Init
<1>4. records \in [Run -> Result \cup {None}] /\ receipts \in [Run -> Result \cup {None}]
  BY <1>1 DEF Init
<1>5. /\ pc \in [Pass -> Label]
      /\ todo \in [Pass -> SUBSET Result]
      /\ cur \in [Pass -> Result \cup {None}]
      /\ loc \in [Pass -> Locals]
  BY FreshType DEF Init, Label
<1>6. issues \in Seq(Issue)
  BY DEF Init
<1> QED BY <1>2, <1>3, <1>4, <1>5, <1>6 DEF TypeOK, StoreTypes, PassTypes

\* Some run of a set of runs is at least as late as all of them.
LEMMA NewestExists ==
    ASSUME NEW S, S \subseteq Run, S # {}
    PROVE  \E r \in S : \A q \in S : StartedAt[q] <= StartedAt[r]
<1> DEFINE HasNewest(A) == \E r \in A : \A q \in A : StartedAt[q] <= StartedAt[r]
           Bad == {A \in SUBSET Run : A # {} /\ ~ HasNewest(A)}
<1>1. IsWellFoundedOn(StrictSubsetOrdering(Run), SUBSET Run)
  BY FinitelyManyRuns, FS_FiniteSubsetsOfFinite, FS_StrictSubsetOrderingWellFounded
<1>2. Bad = {}
  <2> SUFFICES ASSUME Bad # {} PROVE FALSE
    OBVIOUS
  <2>1. PICK A \in Bad : \A B \in Bad : ~ (<<B, A>> \in StrictSubsetOrdering(Run))
    <3> HIDE DEF Bad
    <3> Bad \subseteq SUBSET Run BY DEF Bad
    <3> QED BY <1>1, WFMin
  <2>2. PICK r \in A : TRUE
    OBVIOUS
  <2>3. /\ A \subseteq Run /\ r \in Run /\ ~ HasNewest(A)
        /\ \A q \in Run : StartedAt[q] \in Nat
    BY ConstantTypes
  <2>4. CASE A = {r}
    BY <2>3, <2>4
  <2>5. CASE A # {r}
    <3> DEFINE B == A \ {r}
    <3>1. B \in SUBSET Run /\ B # {} /\ A \in SUBSET Run /\ B \subseteq A /\ B # A
      BY <2>2, <2>3, <2>5
    <3>2. <<B, A>> \in StrictSubsetOrdering(Run)
      <4> HIDE DEF B
      <4>1. <<B, A>> \in (SUBSET Run) \X (SUBSET Run) BY <3>1
      <4>2. <<B, A>>[1] = B /\ <<B, A>>[2] = A OBVIOUS
      <4> QED BY <3>1, <4>1, <4>2 DEF StrictSubsetOrdering
    <3>3. B \notin Bad
      BY <2>1, <3>2
    <3>4. PICK q \in B : \A x \in B : StartedAt[x] <= StartedAt[q]
      BY <3>1, <3>3
    <3>5. CASE StartedAt[q] <= StartedAt[r]
      <4>1. \A x \in A : StartedAt[x] <= StartedAt[r]
        BY <2>3, <3>4, <3>5
      <4> QED BY <2>2, <2>3, <4>1
    <3>6. CASE ~ (StartedAt[q] <= StartedAt[r])
      <4>1. \A x \in A : StartedAt[x] <= StartedAt[q]
        BY <2>3, <3>4, <3>6
      <4> QED BY <2>3, <3>4, <4>1
    <3> QED BY <3>5, <3>6
  <2> QED BY <2>4, <2>5
<1> QED BY <1>2

\* A lane with receipts has a newest published run, which Latest returns.
LEMMA LatestIsNewest ==
    ASSUME NEW l, Published(l) # {}
    PROVE  Latest(l) \in Published(l) /\ \A q \in Published(l) : StartedAt[q] <= StartedAt[Latest(l)]
<1>1. \E r \in Published(l) : \A q \in Published(l) : StartedAt[q] <= StartedAt[r]
  BY NewestExists DEF Published
<1> QED BY <1>1 DEF Latest

\* The lane's latest run is a run: it has a newest receipt or none.
LEMMA LatestType == ASSUME NEW l PROVE Latest(l) \in Run \cup {None}
BY LatestIsNewest DEF Published, Latest

\* What a pass has read and done is typed, field by field.
LEMMA LocType ==
    ASSUME PassTypes, NEW p \in Pass
    PROVE  /\ loc[p] \in Locals
           /\ loc[p].accept \in BOOLEAN
           /\ loc[p].existing \in Result \cup {None}
           /\ loc[p].pointer \in BOOLEAN
           /\ loc[p].views \in [Lane -> Run \cup {None}] \cup {None}
           /\ loc[p].open \in [Fingerprint -> Nat]
           /\ loc[p].left \subseteq Fingerprint
           /\ loc[p].fp \in Fingerprint \cup {None}
           /\ loc[p].issue \in Nat
           /\ loc[p].extras \subseteq Nat
           /\ loc[p].opened \in Nat
           /\ loc[p].deferred \subseteq Fingerprint
BY DEF PassTypes, Locals

\* A pass that is past "pick" holds a result.
InHand == \A p \in Pass : pc[p] \notin {"idle", "pick"} => cur[p] \in Result

\* The three ways a step moves a pass on.
LEMMA RememberType ==
    ASSUME PassTypes, NEW p \in Pass, NEW v \in Locals, Remember(p, v)
    PROVE  loc' \in [Pass -> Locals]
BY DEF PassTypes, Remember

\* Moving on to another label with the same candidate.
LEMMA EnterType ==
    ASSUME PassTypes, InHand, NEW p \in Pass, NEW label \in Label, Enter(p, label),
           UNCHANGED <<todo, cur>>,
           pc[p] \notin {"idle", "pick"},
           loc' \in [Pass -> Locals]
    PROVE  PassTypes' /\ InHand'
BY DEF PassTypes, InHand, Enter

\* Giving up or finishing a candidate.
LEMMA LeaveType ==
    ASSUME PassTypes, InHand, NEW p \in Pass, Leave(p), UNCHANGED todo
    PROVE  PassTypes' /\ InHand'
<1>1. [Fresh EXCEPT !.accept = loc[p].accept] \in Locals
  BY LocType, FreshType DEF Locals
<1> QED BY <1>1 DEF PassTypes, InHand, Leave, Enter, Label

\* Going on to the next drift of the record.
LEMMA HandledType ==
    ASSUME PassTypes, InHand, NEW p \in Pass, NEW f, Handled(p, f),
           UNCHANGED <<todo, cur>>, pc[p] \notin {"idle", "pick"}
    PROVE  PassTypes' /\ InHand'
<1>1. [loc[p] EXCEPT !.left = @ \ {f}, !.fp = None, !.issue = 0, !.extras = {}] \in Locals
  BY LocType DEF Locals
<1> QED BY <1>1, RememberType, EnterType DEF Handled, Label

\* Going on to the next open issue of the listing.
LEMMA SettledType ==
    ASSUME PassTypes, InHand, NEW p \in Pass, NEW f, Settled(p, f),
           UNCHANGED <<todo, cur>>, pc[p] \notin {"idle", "pick"}
    PROVE  PassTypes' /\ InHand'
<1>1. [loc[p] EXCEPT !.left = @ \ {f}, !.fp = None, !.issue = 0] \in Locals
  BY LocType DEF Locals
<1> QED BY <1>1, RememberType, EnterType DEF Settled, Label

\* The ways a step writes the tracker.
LEMMA IssueUpdateType ==
    ASSUME issues \in Seq(Issue), NEW n, NEW v, n \in DOMAIN issues => v \in Issue
    PROVE  [issues EXCEPT ![n] = v] \in Seq(Issue)
<1>1. CASE n \in DOMAIN issues
  BY <1>1, ExceptSeq, LenProperties
<1>2. CASE n \notin DOMAIN issues
  <2>1. issues = [i \in DOMAIN issues |-> issues[i]]
    BY LenProperties
  <2>2. [issues EXCEPT ![n] = v] = issues
    BY <1>2, <2>1
  <2> QED BY <2>2
<1> QED BY <1>1, <1>2

\* A comment with an applied marker.
LEMMA MarkType ==
    ASSUME issues \in Seq(Issue), NEW n, NEW r \in Run, Mark(n, r)
    PROVE  issues' \in Seq(Issue)
<1>1. n \in DOMAIN issues => issues[n] \in Issue
  BY ElementOfSeq, LenProperties
<1>2. ASSUME n \in DOMAIN issues PROVE Marked(issues[n], r) \in Issue
  <2>1. issues[n] \in Issue /\ issues[n].applied \in [Run -> Nat]
    BY <1>1, <1>2 DEF Issue
  <2>2. [issues[n].applied EXCEPT ![r] = @ + 1] \in [Run -> Nat]
    BY <2>1
  <2> QED BY <2>1, <2>2 DEF Issue, Marked
<1> QED BY <1>2, IssueUpdateType DEF Mark

\* A close, by a pass or a maintainer.
LEMMA CloseType ==
    ASSUME issues \in Seq(Issue), NEW n,
           NEW how \in {"duplicate", "resolved", "maintainer"}, Close(n, how)
    PROVE  issues' \in Seq(Issue)
<1>1. n \in DOMAIN issues => issues[n] \in Issue
  BY ElementOfSeq, LenProperties
<1>2. n \in DOMAIN issues => Closed(issues[n], how) \in Issue
  BY <1>1 DEF Issue, Closed
<1> QED BY <1>2, IssueUpdateType DEF Close

\* A step that writes to no store leaves the stores typed.
LEMMA StoresUnchanged ==
    ASSUME StoreTypes, UNCHANGED <<staging, history, tracker, deferred, failures>>
    PROVE  StoreTypes'
BY DEF StoreTypes, staging, history, tracker

\* The steps that write to no store keep the types.
LEMMA ReadStepType ==
    ASSUME TypeOK, InHand, NEW p \in Pass,
           \/ StartSweep(p) \/ Dispatch(p) \/ NextCandidate(p) \/ EndSweep(p)
           \/ ReadRecord(p) \/ ReceiptFound(p) \/ ReceiptMissing(p)
           \/ Validate(p) \/ Refuse(p) \/ PersistExists(p) \/ LaneViews(p) \/ ListIssues(p)
           \/ TouchOpen(p) \/ Defer(p) \/ Relist(p) \/ ScanComments(p) \/ ConfirmDone(p)
           \/ StartResolve(p) \/ GetIssue(p) \/ ScanResolution(p) \/ ResolveDone(p)
           \/ FindEvidence(p)
    PROVE  TypeOK' /\ InHand'
<1> USE DEF TypeOK
<1>0. StoreTypes'
  <2>1. UNCHANGED <<staging, history, tracker, deferred, failures>>
    BY DEF StartSweep, Dispatch, NextCandidate, EndSweep, ReadRecord, ReceiptFound,
           ReceiptMissing, Validate, Refuse, PersistExists, LaneViews, ListIssues,
           TouchOpen, Defer, Relist, ScanComments, ConfirmDone, StartResolve, GetIssue,
           ScanResolution, ResolveDone, FindEvidence
  <2> QED BY <2>1, StoresUnchanged
<1>1. CASE StartSweep(p)
  BY <1>0, <1>1, FreshType DEF StartSweep, StoreTypes, PassTypes, InHand, Enter, Label
<1>2. CASE EndSweep(p)
  BY <1>0, <1>2, FreshType DEF EndSweep, StoreTypes, PassTypes, InHand, Enter, Label
<1>3. CASE NextCandidate(p)
  BY <1>0, <1>3, FreshType DEF NextCandidate, StoreTypes, PassTypes, InHand, Enter, Label
<1>4. CASE ReceiptMissing(p)
  BY <1>0, <1>4, FreshType DEF ReceiptMissing, StoreTypes, PassTypes, InHand, Enter, Label
<1>5. CASE ScanResolution(p)
  BY <1>0, <1>5, FreshType DEF ScanResolution, StoreTypes, PassTypes, InHand, Enter, Label
<1>6. CASE ResolveDone(p)
  BY <1>0, <1>6, FreshType DEF ResolveDone, StoreTypes, PassTypes, InHand, Enter, Label
<1>7. CASE FindEvidence(p)
  BY <1>0, <1>7, FreshType DEF FindEvidence, StoreTypes, PassTypes, InHand, Enter, Label
<1>8. CASE Refuse(p)
  BY <1>0, <1>8, LeaveType DEF Refuse
<1>9. CASE PersistExists(p)
  BY <1>0, <1>9, LeaveType DEF PersistExists
<1>10. CASE Dispatch(p)
  <2>1. PICK accept \in BOOLEAN : Remember(p, [loc[p] EXCEPT !.accept = accept])
    BY <1>10 DEF Dispatch
  <2>2. loc' \in [Pass -> Locals]
    <3>1. [loc[p] EXCEPT !.accept = accept] \in Locals
      BY LocType DEF Locals
    <3> QED BY <2>1, <3>1, RememberType
  <2>3. pc' \in [Pass -> Label] /\ todo' \in [Pass -> SUBSET Result] /\ cur' = cur
    BY <1>10, ConstantTypes DEF Dispatch, StoreTypes, PassTypes, Enter, Label
  <2> QED BY <1>0, <1>10, <2>2, <2>3 DEF Dispatch, PassTypes, InHand, Enter
<1>11. CASE ReadRecord(p)
  <2>1. [loc[p] EXCEPT !.existing = records[RunAt(p)]] \in Locals
    BY <1>11, LocType, BodyType DEF ReadRecord, Locals, StoreTypes, InHand, RunAt
  <2> QED BY <1>0, <1>11, <2>1, RememberType, EnterType DEF ReadRecord, Label
<1>12. CASE ReceiptFound(p)
  <2>1. CASE Leave(p)
    BY <1>0, <1>12, <2>1, LeaveType DEF ReceiptFound
  <2>2. CASE Enter(p, "delete") /\ UNCHANGED <<cur, loc>>
    BY <1>0, <1>12, <2>2, EnterType DEF ReceiptFound, PassTypes, Label
  <2> QED BY <1>12, <2>1, <2>2 DEF ReceiptFound
<1>13. CASE Validate(p)
  <2>1. [loc[p] EXCEPT !.pointer = FirstBootstrap(cur[p])] \in Locals
    <3>1. FirstBootstrap(cur[p]) \in BOOLEAN BY DEF FirstBootstrap
    <3> HIDE DEF FirstBootstrap
    <3> QED BY <3>1, LocType DEF Locals
  <2>2. loc' \in [Pass -> Locals]
    BY <1>13, <2>1, RememberType DEF Validate, PassTypes
  <2> QED BY <1>0, <1>13, <2>2, EnterType DEF Validate, Label
<1>14. CASE LaneViews(p)
  <2>1. ViewsFor(RunAt(p)) \in [Lane -> Run \cup {None}] \cup {None}
    BY <1>14, LatestType, BodyType DEF LaneViews, ViewsFor, InHand, RunAt
  <2>2. [loc[p] EXCEPT !.views = ViewsFor(RunAt(p))] \in Locals
    BY <2>1, LocType DEF Locals
  <2>3. loc' \in [Pass -> Locals]
    BY <1>14, <2>2, RememberType DEF LaneViews, PassTypes
  <2> QED BY <1>0, <1>14, <2>3, EnterType DEF LaneViews, Label
<1>15. CASE ListIssues(p)
  <2>1. \A f \in Fingerprint : LowestOrZero(OpenIssues(f)) \in Nat
    BY OpenIssuesAreNumbers, LowestIsMin DEF LowestOrZero, StoreTypes
  <2>2. Body[cur[p]].confirmed \subseteq Fingerprint
    BY <1>15, BodyType DEF ListIssues, InHand, ResultBody
  <2>3. [loc[p] EXCEPT !.open = [f \in Fingerprint |-> LowestOrZero(OpenIssues(f))],
                       !.left = Body[cur[p]].confirmed] \in Locals
    BY <2>1, <2>2, LocType DEF Locals
  <2> QED BY <1>0, <1>15, <2>3, RememberType, EnterType DEF ListIssues, Label
<1>16. CASE TouchOpen(p)
  <2>1. PICK f \in loc[p].left :
            \/ Handled(p, f)
            \/ Enter(p, "scan") /\ Remember(p, [loc[p] EXCEPT !.fp = f, !.issue = loc[p].open[f]])
    BY <1>16 DEF TouchOpen
  <2>2. [loc[p] EXCEPT !.fp = f, !.issue = loc[p].open[f]] \in Locals
    BY LocType DEF Locals
  <2>3. UNCHANGED <<todo, cur>> /\ pc[p] = "confirm"
    BY <1>16 DEF TouchOpen
  <2> QED BY <1>0, <2>1, <2>2, <2>3, HandledType, RememberType, EnterType DEF Label
<1>17. CASE Defer(p)
  <2>1. PICK f \in loc[p].left :
            Remember(p, [loc[p] EXCEPT !.left = @ \ {f}, !.deferred = @ \cup {f}])
    BY <1>17 DEF Defer
  <2>2. [loc[p] EXCEPT !.left = @ \ {f}, !.deferred = @ \cup {f}] \in Locals
    BY LocType DEF Locals
  <2>3. loc' \in [Pass -> Locals] /\ UNCHANGED <<pc, todo, cur>>
    BY <1>17, <2>1, <2>2, RememberType DEF Defer
  <2> QED BY <1>0, <2>3 DEF PassTypes, InHand
<1>18. CASE Relist(p)
  <2> DEFINE created == loc[p].issue
             listed == OpenIssues(loc[p].fp)
             kept == Lowest(IF listed = {} THEN {created} ELSE listed)
             extra == IF kept = created THEN listed \ {kept}
                      ELSE (listed \cap {created}) \ {kept}
  <2>1. listed \subseteq Nat
    BY OpenIssuesAreNumbers DEF StoreTypes
  <2>2. kept \in Nat /\ extra \subseteq Nat
    BY <2>1, LowestIsMin, LocType
  <2>3. /\ [loc[p] EXCEPT !.issue = kept, !.extras = extra] \in Locals
        /\ [loc[p] EXCEPT !.issue = kept] \in Locals
    <3> HIDE DEF kept, extra
    <3> QED BY <2>2, LocType DEF Locals
  <2>4. \/ Enter(p, "close_extra") /\ Remember(p, [loc[p] EXCEPT !.issue = kept, !.extras = extra])
        \/ Handled(p, loc[p].fp)
        \/ Enter(p, "scan") /\ Remember(p, [loc[p] EXCEPT !.issue = kept])
    BY <1>18 DEF Relist
  <2>5. UNCHANGED <<todo, cur>> /\ pc[p] = "relist"
    BY <1>18 DEF Relist
  <2> HIDE DEF kept, extra
  <2> QED BY <1>0, <2>3, <2>4, <2>5, HandledType, RememberType, EnterType DEF Label
<1>19. CASE ScanComments(p)
  <2>1. CASE Handled(p, loc[p].fp)
    BY <1>0, <1>19, <2>1, HandledType DEF ScanComments
  <2>2. CASE Enter(p, "comment") /\ UNCHANGED loc
    BY <1>0, <1>19, <2>2, EnterType DEF ScanComments, PassTypes, Label
  <2> QED BY <1>19, <2>1, <2>2 DEF ScanComments
<1>20. CASE ConfirmDone(p)
  <2>1. [loc[p] EXCEPT !.left = {f \in Fingerprint : loc[p].open[f] # 0} \ Body[cur[p]].confirmed]
          \in Locals
    BY LocType DEF Locals
  <2>2. loc' \in [Pass -> Locals]
    BY <1>20, <2>1, RememberType DEF ConfirmDone, PassTypes
  <2> QED BY <1>0, <1>20, <2>2, EnterType DEF ConfirmDone, Label
<1>21. CASE StartResolve(p)
  <2>1. PICK f \in loc[p].left :
            \/ Settled(p, f)
            \/ Enter(p, "fresh") /\ Remember(p, [loc[p] EXCEPT !.fp = f, !.issue = loc[p].open[f]])
    BY <1>21 DEF StartResolve
  <2>2. [loc[p] EXCEPT !.fp = f, !.issue = loc[p].open[f]] \in Locals
    BY LocType DEF Locals
  <2>3. UNCHANGED <<todo, cur>> /\ pc[p] = "resolve"
    BY <1>21 DEF StartResolve
  <2> QED BY <1>0, <2>1, <2>2, <2>3, SettledType, RememberType, EnterType DEF Label
<1>22. CASE GetIssue(p)
  <2>1. CASE Settled(p, loc[p].fp)
    BY <1>0, <1>22, <2>1, SettledType DEF GetIssue
  <2>2. CASE Enter(p, "resolution_scan") /\ UNCHANGED loc
    BY <1>0, <1>22, <2>2, EnterType DEF GetIssue, PassTypes, Label
  <2> QED BY <1>22, <2>1, <2>2 DEF GetIssue
<1> QED BY <1>1, <1>2, <1>3, <1>4, <1>5, <1>6, <1>7, <1>8, <1>9, <1>10, <1>11, <1>12, <1>13, <1>14, <1>15, <1>16, <1>17, <1>18, <1>19, <1>20, <1>21, <1>22

\* The steps that write to a store, or fail, keep the types.
LEMMA WriteStepType ==
    ASSUME TypeOK, InHand, NEW p \in Pass,
           \/ DeleteStagingRef(p) \/ Persist(p) \/ OpenIssue(p) \/ CloseExtra(p)
           \/ Comment(p) \/ CommentResolution(p) \/ CloseIssue(p)
           \/ Announce(p) \/ WriteReceipt(p) \/ FailRun(p) \/ Abort(p)
    PROVE  TypeOK' /\ InHand'
<1> USE DEF TypeOK
<1>1. CASE DeleteStagingRef(p)
  <2>1. StoreTypes'
    BY <1>1 DEF DeleteStagingRef, StoreTypes, history, tracker
  <2> QED BY <1>1, <2>1, LeaveType DEF DeleteStagingRef
<1>2. CASE Persist(p)
  <2>1. cur[p] \in Result /\ RunAt(p) \in Run
    BY <1>2, BodyType DEF Persist, InHand, RunAt
  <2>2. StoreTypes'
    BY <1>2, <2>1 DEF Persist, StoreTypes, staging, tracker
  <2> QED BY <1>2, <2>2, EnterType DEF Persist, PassTypes, Label
<1>3. CASE OpenIssue(p)
  <2>1. RunAt(p) \in Run
    BY <1>3, BodyType DEF OpenIssue, InHand, RunAt
  <2>2. PICK f \in loc[p].left :
            /\ issues' = Append(issues, [fp |-> f, by |-> RunAt(p), closed |-> "no",
                                         keep_open |-> FALSE, applied |-> [r \in Run |-> 0]])
            /\ Remember(p, [loc[p] EXCEPT !.fp = f, !.issue = Len(issues) + 1, !.opened = @ + 1])
    BY <1>3 DEF OpenIssue
  <2>3. f \in Fingerprint
    BY LocType
  <2>4. issues' \in Seq(Issue)
    BY <2>1, <2>2, <2>3, AppendProperties DEF Issue, StoreTypes
  <2>5. StoreTypes'
    BY <1>3, <2>4 DEF OpenIssue, StoreTypes, staging, history
  <2>6. Len(issues) + 1 \in Nat /\ loc[p].opened + 1 \in Nat
    BY LenProperties, LocType DEF StoreTypes
  <2>7. [loc[p] EXCEPT !.fp = f, !.issue = Len(issues) + 1, !.opened = @ + 1] \in Locals
    BY <2>3, <2>6, LocType DEF Locals
  <2> QED BY <1>3, <2>2, <2>5, <2>7, RememberType, EnterType DEF OpenIssue, Label
<1>4. CASE CloseExtra(p)
  <2>1. StoreTypes'
    <3>1. issues' \in Seq(Issue)
      BY <1>4, CloseType DEF CloseExtra, StoreTypes
    <3> QED BY <1>4, <3>1 DEF CloseExtra, StoreTypes, staging, history
  <2>2. /\ \A n : [loc[p] EXCEPT !.extras = @ \ {n}] \in Locals
        /\ [loc[p] EXCEPT !.extras = {}] \in Locals
    BY LocType DEF Locals
  <2>3. UNCHANGED <<todo, cur>> /\ pc[p] = "close_extra"
    BY <1>4 DEF CloseExtra
  <2>4. CASE Handled(p, loc[p].fp)
    BY <2>1, <2>3, <2>4, HandledType
  <2>5. CASE /\ Remember(p, [loc[p] EXCEPT !.extras = @ \ {Lowest(loc[p].extras)}])
             /\ UNCHANGED pc
    <3>1. loc' \in [Pass -> Locals]
      BY <2>2, <2>5, RememberType
    <3> QED BY <2>1, <2>3, <2>5, <3>1 DEF PassTypes, InHand
  <2>6. CASE Enter(p, "scan") /\ Remember(p, [loc[p] EXCEPT !.extras = {}])
    BY <2>1, <2>2, <2>3, <2>6, RememberType, EnterType DEF Label
  <2> QED BY <1>4, <2>4, <2>5, <2>6 DEF CloseExtra
<1>5. CASE Comment(p)
  <2>1. RunAt(p) \in Run
    BY <1>5, BodyType DEF Comment, InHand, RunAt
  <2>2. issues' \in Seq(Issue)
    BY <1>5, <2>1, MarkType DEF Comment, StoreTypes
  <2>3. StoreTypes'
    BY <1>5, <2>2 DEF Comment, StoreTypes, staging, history
  <2> QED BY <1>5, <2>3, HandledType DEF Comment
<1>6. CASE CommentResolution(p)
  <2>1. RunAt(p) \in Run
    BY <1>6, BodyType DEF CommentResolution, InHand, RunAt
  <2>2. issues' \in Seq(Issue)
    BY <1>6, <2>1, MarkType DEF CommentResolution, StoreTypes
  <2>3. StoreTypes'
    BY <1>6, <2>2 DEF CommentResolution, StoreTypes, staging, history
  <2> QED BY <1>6, <2>3, EnterType DEF CommentResolution, PassTypes, Label
<1>7. CASE CloseIssue(p)
  <2>1. issues' \in Seq(Issue)
    BY <1>7, CloseType DEF CloseIssue, StoreTypes
  <2>2. StoreTypes'
    BY <1>7, <2>1 DEF CloseIssue, StoreTypes, staging, history
  <2> QED BY <1>7, <2>2, SettledType DEF CloseIssue
<1>8. CASE Announce(p)
  <2>1. RunAt(p) \in Run
    BY <1>8, BodyType DEF Announce, InHand, RunAt
  <2>2. StoreTypes'
    BY <1>8, <2>1 DEF Announce, StoreTypes, staging, history
  <2> QED BY <1>8, <2>2, EnterType DEF Announce, PassTypes, Label
<1>9. CASE WriteReceipt(p)
  <2>1. cur[p] \in Result /\ loc[p].deferred \subseteq Fingerprint
    BY <1>9, LocType DEF WriteReceipt, InHand
  <2>2. StoreTypes'
    BY <1>9, <2>1 DEF WriteReceipt, StoreTypes, staging, tracker
  <2> QED BY <1>9, <2>2, LeaveType DEF WriteReceipt
<1>10. CASE FailRun(p)
  <2>1. StoreTypes'
    BY <1>10, ConstantTypes DEF FailRun, StoreTypes, staging, history, tracker
  <2> QED BY <1>10, <2>1, LeaveType DEF FailRun
<1>11. CASE Abort(p)
  <2>1. StoreTypes'
    BY <1>11, ConstantTypes DEF Abort, StoreTypes, staging, history, tracker
  <2> QED BY <1>11, <2>1, FreshType DEF Abort, PassTypes, InHand, Enter, Label
<1> QED BY <1>1, <1>2, <1>3, <1>4, <1>5, <1>6, <1>7, <1>8, <1>9, <1>10, <1>11

\* The steps of everyone else do not touch a pass.
LEMMA OtherStepType ==
    ASSUME TypeOK, InHand,
           \/ \E x \in Result : Seal(x)
           \/ \E r \in Run : Age(r)
           \/ \E n \in DOMAIN issues : MaintainerCloses(n) \/ KeepOpen(n)
    PROVE  TypeOK' /\ InHand'
<1> USE DEF TypeOK
<1>1. PassTypes' /\ InHand'
  BY DEF Seal, Age, MaintainerCloses, KeepOpen, passes, PassTypes, InHand
<1>2. ASSUME NEW x \in Result, Seal(x) PROVE StoreTypes'
  BY <1>2 DEF Seal, StoreTypes, history, tracker, passes
<1>3. ASSUME NEW r \in Run, Age(r) PROVE StoreTypes'
  BY <1>3 DEF Age, StoreTypes, history, tracker, passes
<1>4. ASSUME NEW n \in DOMAIN issues, MaintainerCloses(n) PROVE StoreTypes'
  <2>1. issues' \in Seq(Issue)
    BY <1>4, CloseType DEF MaintainerCloses, StoreTypes
  <2> QED BY <1>4, <2>1 DEF MaintainerCloses, StoreTypes, staging, history, passes
<1>5. ASSUME NEW n \in DOMAIN issues, KeepOpen(n) PROVE StoreTypes'
  <2>1. issues[n] \in Issue
    BY ElementOfSeq, LenProperties DEF StoreTypes
  <2>2. [issues[n] EXCEPT !.keep_open = TRUE] \in Issue
    BY <2>1 DEF Issue
  <2>3. issues' \in Seq(Issue)
    BY <1>5, <2>2, IssueUpdateType DEF KeepOpen, StoreTypes
  <2> QED BY <1>5, <2>3 DEF KeepOpen, StoreTypes, staging, history, passes
<1> QED BY <1>1, <1>2, <1>3, <1>4, <1>5

\* Every step keeps the types.
LEMMA TypeStep == TypeOK /\ InHand /\ [Next]_vars => TypeOK' /\ InHand'
<1> SUFFICES ASSUME TypeOK, InHand, [Next]_vars PROVE TypeOK' /\ InHand'
  OBVIOUS
<1>1. ASSUME NEW p \in Pass, PassStep(p) \/ Dispatch(p) \/ FailRun(p) \/ Abort(p)
      PROVE  TypeOK' /\ InHand'
  BY <1>1, ReadStepType, WriteStepType DEF PassStep
<1>2. CASE vars' = vars
  BY <1>2 DEF vars, staging, history, tracker, TypeOK, StoreTypes, PassTypes, InHand
<1> QED BY <1>1, <1>2, OtherStepType DEF Next

\* No pass holds a candidate at the start.
LEMMA HandInit == Init => InHand
BY DEF Init, InHand

\* Every variable keeps its type in every behaviour, whatever passes overlap,
\* fail or die: in particular a pass never works on a candidate it does not hold,
\* and the lowest open issue of a listing always exists.
THEOREM TypeCorrect == Spec => [](TypeOK /\ InHand)
BY TypeInit, HandInit, TypeStep, PTL DEF Spec

-----------------------------------------------------------------------------
(* The inductive invariant. *)

\* `x` has passed the gates, and its baseline is still the recorded one.
Admitted(x) ==
    /\ Body[x].intact /\ Body[x].conformant /\ Body[x].origin # "foreign"
    /\ Body[x].baseline # None => records[RunOf(Body[x].baseline)] = Body[x].baseline

Confirming == {"confirm", "scan", "comment", "relist", "close_extra"}
Reconciling ==
    Confirming \cup {"views", "list", "resolve", "fresh", "resolution_scan", "resolution",
                     "close", "evidence", "announce", "write_receipt"}

\* What a pass relies on at each label.
PassSound(p) ==
    /\ pc[p] \in {"receipt", "validate"} /\ loc[p].existing # None =>
           records[RunAt(p)] = loc[p].existing
    /\ pc[p] = "delete" => RunAt(p) \in aged
    /\ pc[p] = "persist" =>
           /\ Admitted(cur[p])
           /\ loc[p].pointer => Body[cur[p]].state = "bootstrap"
    /\ pc[p] \in Reconciling => records[RunAt(p)] = cur[p]
    /\ pc[p] = "write_receipt" => evidence[RunAt(p)] > 0
    /\ pc[p] \in Confirming => loc[p].left \subseteq Body[cur[p]].confirmed

\* A run without a record keeps its staging ref, so it can be tried again.
StillStaged(x) == records[RunOf(x)] = None => handoff[RunOf(x)] # None

CandidatesStaged ==
    \A p \in Pass :
        /\ \A x \in todo[p] : StillStaged(x)
        /\ pc[p] \notin {"idle", "pick"} => StillStaged(cur[p])

StagingSound ==
    /\ \A r \in Run : handoff[r] # None => RunOf(handoff[r]) = r
    /\ \A r \in aged : receipts[r] # None

Inv ==
    /\ TypeOK
    /\ InHand
    /\ HistorySound
    /\ \A p \in Pass : PassSound(p)
    /\ CandidatesStaged
    /\ StagingSound

\* What no step takes back.
Grows ==
    /\ \A r \in Run : records[r] # None => records'[r] = records[r]
    /\ \A r \in Run : receipts[r] # None => receipts'[r] = receipts[r]
    /\ \A r \in Run : evidence[r] > 0 => evidence'[r] > 0
    /\ aged \subseteq aged'
    /\ \A r \in Run : records[r] = None /\ handoff[r] # None => handoff'[r] # None

\* A step of pass `p` moves no other pass.
MovesOnly(p) ==
    /\ pc' = [pc EXCEPT ![p] = pc'[p]]
    /\ todo' = [todo EXCEPT ![p] = todo'[p]]
    /\ cur' = [cur EXCEPT ![p] = cur'[p]]
    /\ loc' = [loc EXCEPT ![p] = loc'[p]]

-----------------------------------------------------------------------------
(* The invariant is inductive. *)

\* The published bootstraps a behaviour starts with satisfy it.
LEMMA InvInit == Init => Inv
<1> SUFFICES ASSUME Init PROVE Inv
  OBVIOUS
<1>1. TypeOK /\ InHand
  BY TypeInit, HandInit
<1>2. ASSUME NEW x \in Seeded
      PROVE  /\ x \in Result /\ RunOf(x) \in Run /\ LaneOf[RunOf(x)] = LaneOfResult(x)
             /\ Body[x].intact /\ Body[x].conformant /\ Body[x].origin # "foreign"
             /\ Body[x].state = "bootstrap" /\ Body[x].baseline = None
  <2>1. x \in Result /\ RunOf(x) \in Run
    BY ConstantTypes, BodyType
  <2>2. Body[x].intact /\ Body[x].conformant /\ Body[x].origin = "allowed" /\ Body[x].state = "bootstrap"
    BY SeededBootstraps
  <2>3. (Body[x].state = "compared") = (Body[x].baseline # None)
    BY <2>1, <2>2, ConformantBodies
  <2> QED BY <2>1, <2>2, <2>3 DEF LaneOfResult, RunOf
<1>3. ASSUME NEW r \in Run, SeededResult(r) # None
      PROVE  SeededResult(r) \in Seeded /\ RunOf(SeededResult(r)) = r
  BY <1>3 DEF SeededResult
<1>4. ASSUME NEW x \in Seeded PROVE SeededResult(RunOf(x)) # None
  <2>1. SeededResult(RunOf(x)) \in Result
    BY <1>2 DEF SeededResult
  <2> QED BY <2>1, NoneIsNothing
<1>5. RecordsSound
  BY <1>2, <1>3 DEF Init, RecordsSound
<1>6. PointersSound
  <2> SUFFICES ASSUME NEW l \in Lane, SeededPointer(l) # None
               PROVE  /\ LaneOf[SeededPointer(l)] = l
                      /\ SeededPointer(l) \in Run
                      /\ SeededResult(SeededPointer(l)) # None
                      /\ Body[SeededResult(SeededPointer(l))].state = "bootstrap"
    BY DEF Init, PointersSound
  <2>1. PICK x \in Seeded : LaneOfResult(x) = l /\ SeededPointer(l) = RunOf(x)
    BY DEF SeededPointer
  <2> QED BY <2>1, <1>2, <1>3, <1>4
<1>7. ReceiptsSound
  BY DEF Init, ReceiptsSound
<1>8. IssuesSound
  BY DEF Init, IssuesSound
<1>9. (\A p \in Pass : PassSound(p)) /\ CandidatesStaged /\ StagingSound
  BY DEF Init, PassSound, CandidatesStaged, StagingSound, Reconciling, Confirming
<1> QED BY <1>1, <1>5, <1>6, <1>7, <1>8, <1>9 DEF Inv, HistorySound

\* A step of one pass does not undo what another pass relies on.
LEMMA OthersSound ==
    ASSUME Inv, Grows, NEW p \in Pass, NEW q \in Pass, q # p, MovesOnly(p)
    PROVE  /\ PassSound(q)'
           /\ \A x \in todo'[q] : StillStaged(x)'
           /\ pc'[q] \notin {"idle", "pick"} => StillStaged(cur[q])'
<1>1. pc'[q] = pc[q] /\ todo'[q] = todo[q] /\ cur'[q] = cur[q] /\ loc'[q] = loc[q]
  BY DEF MovesOnly, Inv, TypeOK, PassTypes
<1>2. todo[q] \subseteq Result /\ (pc[q] \notin {"idle", "pick"} => cur[q] \in Result)
  BY DEF Inv, TypeOK, PassTypes, InHand
<1>3. \A x \in Result : StillStaged(x) => StillStaged(x)'
  BY BodyType DEF StillStaged, Grows
<1>4. PassSound(q)
  BY DEF Inv
<1>5. CASE pc[q] \in {"idle", "pick", "record"}
  BY <1>1, <1>2, <1>3, <1>5 DEF PassSound, Inv, CandidatesStaged, Reconciling, Confirming
<1>6. CASE pc[q] \notin {"idle", "pick", "record"}
  <2>1. cur[q] \in Result /\ RunAt(q) \in Run /\ RunAt(q)' = RunAt(q)
    BY <1>1, <1>2, <1>6, BodyType DEF RunAt
  <2>2. /\ loc[q].existing \in Result \cup {None}
        /\ Admitted(cur[q]) => Admitted(cur[q])'
    BY <1>1, <2>1, LocType, BodyType, NoneIsNothing DEF Admitted, Grows, ResultBody, Inv, TypeOK
  <2>3. PassSound(q)'
    BY <1>1, <1>4, <2>1, <2>2, NoneIsNothing DEF PassSound, Grows
  <2> QED BY <1>1, <1>2, <1>3, <2>3 DEF Inv, CandidatesStaged
<1> QED BY <1>5, <1>6

\* A step that writes to no store keeps the stores sound.
LEMMA QuietStep ==
    ASSUME Inv, UNCHANGED <<staging, history, tracker>>
    PROVE  /\ Grows /\ HistorySound' /\ StagingSound'
           /\ \A x : StillStaged(x)' = StillStaged(x)
<1>1. Grows
  BY DEF Grows, staging, history, tracker
<1>2. RecordsSound' /\ PointersSound' /\ ReceiptsSound' /\ IssuesSound'
  BY DEF Inv, HistorySound, RecordsSound, PointersSound, ReceiptsSound, IssuesSound,
         staging, history, tracker
<1>3. StagingSound'
  BY DEF Inv, StagingSound, staging, history
<1>4. \A x : StillStaged(x)' = StillStaged(x)
  BY DEF StillStaged, staging, history
<1> QED BY <1>1, <1>2, <1>3, <1>4 DEF HistorySound

\* A step of one pass keeps the invariant when that pass stays sound itself.
LEMMA PassInv ==
    ASSUME Inv, TypeOK', InHand', HistorySound', StagingSound', Grows,
           NEW p \in Pass, MovesOnly(p), PassSound(p)',
           \A x \in todo'[p] : StillStaged(x)',
           pc'[p] \notin {"idle", "pick"} => StillStaged(cur[p])'
    PROVE  Inv'
<1>1. \A q \in Pass : PassSound(q)'
  BY OthersSound
<1>2. CandidatesStaged'
  BY OthersSound DEF CandidatesStaged
<1> QED BY <1>1, <1>2 DEF Inv

\* Each action of a pass is a step of that pass alone.
LEMMA MovesOnlyHolds ==
    ASSUME PassTypes, NEW p \in Pass, PassStep(p) \/ Dispatch(p) \/ FailRun(p) \/ Abort(p)
    PROVE  MovesOnly(p)
<1> USE DEF PassTypes, MovesOnly, Enter, Leave, Remember, Handled, Settled
<1>1. CASE StartSweep(p) \/ Dispatch(p) \/ NextCandidate(p) \/ EndSweep(p)
  BY <1>1 DEF StartSweep, Dispatch, NextCandidate, EndSweep
<1>2. CASE ReadRecord(p) \/ ReceiptFound(p) \/ ReceiptMissing(p) \/ DeleteStagingRef(p)
  BY <1>2 DEF ReadRecord, ReceiptFound, ReceiptMissing, DeleteStagingRef
<1>3. CASE Validate(p) \/ Refuse(p) \/ Persist(p) \/ PersistExists(p)
  BY <1>3 DEF Validate, Refuse, Persist, PersistExists
<1>4. CASE LaneViews(p) \/ ListIssues(p)
  BY <1>4 DEF LaneViews, ListIssues
<1>5. CASE TouchOpen(p) \/ Defer(p) \/ OpenIssue(p)
  BY <1>5 DEF TouchOpen, Defer, OpenIssue
<1>6. CASE Relist(p)
  BY <1>6 DEF Relist
<1>7. CASE CloseExtra(p)
  BY <1>7 DEF CloseExtra
<1>8. CASE ScanComments(p) \/ Comment(p) \/ ConfirmDone(p)
  BY <1>8 DEF ScanComments, Comment, ConfirmDone
<1>9. CASE StartResolve(p) \/ GetIssue(p) \/ ScanResolution(p) \/ CommentResolution(p)
           \/ CloseIssue(p) \/ ResolveDone(p)
  BY <1>9 DEF StartResolve, GetIssue, ScanResolution, CommentResolution, CloseIssue, ResolveDone
<1>10. CASE FindEvidence(p) \/ Announce(p) \/ WriteReceipt(p) \/ FailRun(p) \/ Abort(p)
  BY <1>10 DEF FindEvidence, Announce, WriteReceipt, FailRun, Abort
<1> QED BY <1>1, <1>2, <1>3, <1>4, <1>5, <1>6, <1>7, <1>8, <1>9, <1>10 DEF PassStep

\* The steps that write to no store.
ReadSteps(p) ==
    \/ StartSweep(p) \/ Dispatch(p) \/ NextCandidate(p) \/ EndSweep(p)
    \/ ReadRecord(p) \/ ReceiptFound(p) \/ ReceiptMissing(p)
    \/ Validate(p) \/ Refuse(p) \/ PersistExists(p) \/ LaneViews(p) \/ ListIssues(p)
    \/ TouchOpen(p) \/ Defer(p) \/ Relist(p) \/ ScanComments(p) \/ ConfirmDone(p)
    \/ StartResolve(p) \/ GetIssue(p) \/ ScanResolution(p) \/ ResolveDone(p)
    \/ FindEvidence(p) \/ FailRun(p) \/ Abort(p)

\* Steps within the confirming part only drop drifts of the record.
LEMMA ConfirmingSound ==
    ASSUME Inv, NEW p \in Pass, pc[p] \in Confirming, pc'[p] \in Confirming,
           loc'[p].left \subseteq loc[p].left, UNCHANGED <<cur, records>>
    PROVE  PassSound(p)'
BY DEF Inv, PassSound, Confirming, Reconciling, RunAt

\* Steps past the confirming part only need the record they work for.
LEMMA ReconcilingSound ==
    ASSUME Inv, NEW p \in Pass, pc[p] \in Reconciling,
           pc'[p] \in Reconciling \ (Confirming \cup {"write_receipt"}),
           UNCHANGED <<cur, records>>
    PROVE  PassSound(p)'
BY DEF Inv, PassSound, Confirming, Reconciling, RunAt

\* Confirming drifts, a pass works for its recorded result all along.
LEMMA ConfirmingStepSound ==
    ASSUME Inv, NEW p \in Pass,
           \/ TouchOpen(p) \/ Defer(p) \/ OpenIssue(p) \/ Relist(p) \/ CloseExtra(p)
           \/ ScanComments(p) \/ Comment(p)
    PROVE  PassSound(p)'
<1>a. loc[p] \in Locals /\ pc[p] \in Label
  BY LocType DEF Inv, TypeOK, PassTypes
<1>b. \A label : Enter(p, label) => pc'[p] = label
  BY DEF Enter, Inv, TypeOK, PassTypes
<1>c. \A v : Remember(p, v) => loc'[p] = v
  BY DEF Remember, Inv, TypeOK, PassTypes
<1>d. ASSUME NEW f, Handled(p, f)
      PROVE  pc'[p] = "confirm" /\ loc'[p].left \subseteq loc[p].left
  <2>1. [loc[p] EXCEPT !.left = @ \ {f}, !.fp = None, !.issue = 0, !.extras = {}].left
           = loc[p].left \ {f}
    BY <1>a DEF Locals
  <2> QED BY <1>b, <1>c, <1>d, <2>1 DEF Handled
<1> USE <1>a, <1>b, <1>c, <1>d, ConfirmingSound DEF Confirming
<1>1. CASE TouchOpen(p)
  <2>1. PICK f \in loc[p].left :
            \/ Handled(p, f)
            \/ Enter(p, "scan") /\ Remember(p, [loc[p] EXCEPT !.fp = f, !.issue = loc[p].open[f]])
    BY <1>1 DEF TouchOpen
  <2>2. [loc[p] EXCEPT !.fp = f, !.issue = loc[p].open[f]].left = loc[p].left
    BY DEF Locals
  <2>3. pc[p] = "confirm" /\ UNCHANGED <<cur, records>>
    BY <1>1 DEF TouchOpen, history
  <2> QED BY <2>1, <2>2, <2>3
<1>2. CASE Defer(p)
  <2>1. PICK f \in loc[p].left :
            Remember(p, [loc[p] EXCEPT !.left = @ \ {f}, !.deferred = @ \cup {f}])
    BY <1>2 DEF Defer
  <2>2. [loc[p] EXCEPT !.left = @ \ {f}, !.deferred = @ \cup {f}].left \subseteq loc[p].left
    BY DEF Locals
  <2>3. pc[p] = "confirm" /\ UNCHANGED <<pc, cur, records>>
    BY <1>2 DEF Defer, history
  <2> QED BY <2>1, <2>2, <2>3
<1>3. CASE OpenIssue(p)
  <2>1. PICK f \in loc[p].left :
            Remember(p, [loc[p] EXCEPT !.fp = f, !.issue = Len(issues) + 1, !.opened = @ + 1])
    BY <1>3 DEF OpenIssue
  <2>2. [loc[p] EXCEPT !.fp = f, !.issue = Len(issues) + 1, !.opened = @ + 1].left = loc[p].left
    BY DEF Locals
  <2>3. pc[p] = "confirm" /\ Enter(p, "relist") /\ UNCHANGED <<cur, records>>
    BY <1>3 DEF OpenIssue, history
  <2> QED BY <2>1, <2>2, <2>3
<1>4. CASE Relist(p)
  <2>1. \/ Handled(p, loc[p].fp)
        \/ /\ Enter(p, "close_extra") \/ Enter(p, "scan")
           /\ \E n, S : \/ Remember(p, [loc[p] EXCEPT !.issue = n, !.extras = S])
                        \/ Remember(p, [loc[p] EXCEPT !.issue = n])
    BY <1>4 DEF Relist
  <2>2. \A n, S : /\ [loc[p] EXCEPT !.issue = n, !.extras = S].left = loc[p].left
                  /\ [loc[p] EXCEPT !.issue = n].left = loc[p].left
    BY DEF Locals
  <2>3. pc[p] = "relist" /\ UNCHANGED <<cur, records>>
    BY <1>4 DEF Relist, history
  <2>4. CASE Handled(p, loc[p].fp)
    BY <2>3, <2>4
  <2>5. CASE /\ Enter(p, "close_extra") \/ Enter(p, "scan")
             /\ \E n, S : \/ Remember(p, [loc[p] EXCEPT !.issue = n, !.extras = S])
                          \/ Remember(p, [loc[p] EXCEPT !.issue = n])
    <3>1. loc'[p].left = loc[p].left
      <4>1. PICK n, S : \/ Remember(p, [loc[p] EXCEPT !.issue = n, !.extras = S])
                        \/ Remember(p, [loc[p] EXCEPT !.issue = n])
        BY <2>5
      <4>2. CASE Remember(p, [loc[p] EXCEPT !.issue = n, !.extras = S])
        <5>1. loc'[p] = [loc[p] EXCEPT !.issue = n, !.extras = S]
          BY <1>c, <4>2
        <5> QED BY <2>2, <5>1
      <4>3. CASE Remember(p, [loc[p] EXCEPT !.issue = n])
        <5>1. loc'[p] = [loc[p] EXCEPT !.issue = n]
          BY <1>c, <4>3
        <5> QED BY <2>2, <5>1
      <4> QED BY <4>1, <4>2, <4>3
    <3>2. pc'[p] \in {"close_extra", "scan"}
      BY <2>5
    <3> QED BY <2>3, <3>1, <3>2
  <2> QED BY <2>1, <2>4, <2>5
<1>5. CASE CloseExtra(p)
  <2>1. \/ Handled(p, loc[p].fp)
        \/ /\ Enter(p, "scan") \/ UNCHANGED pc
           /\ \E S : Remember(p, [loc[p] EXCEPT !.extras = S])
    BY <1>5 DEF CloseExtra
  <2>2. \A S : [loc[p] EXCEPT !.extras = S].left = loc[p].left
    BY DEF Locals
  <2>3. pc[p] = "close_extra" /\ UNCHANGED <<cur, records>>
    BY <1>5 DEF CloseExtra, history
  <2> QED BY <2>1, <2>2, <2>3
<1>6. CASE ScanComments(p)
  <2>1. pc[p] = "scan" /\ UNCHANGED <<cur, records>>
    BY <1>6 DEF ScanComments, history
  <2> QED BY <1>6, <2>1 DEF ScanComments
<1>7. CASE Comment(p)
  <2>1. pc[p] = "comment" /\ UNCHANGED <<cur, records>>
    BY <1>7 DEF Comment, history
  <2> QED BY <1>7, <2>1 DEF Comment
<1> QED BY <1>1, <1>2, <1>3, <1>4, <1>5, <1>6, <1>7

\* Resolving issues, a pass works for its recorded result all along.
LEMMA ResolvingStepSound ==
    ASSUME Inv, NEW p \in Pass,
           \/ ConfirmDone(p) \/ StartResolve(p) \/ GetIssue(p) \/ ScanResolution(p)
           \/ CommentResolution(p) \/ CloseIssue(p) \/ ResolveDone(p)
    PROVE  PassSound(p)'
<1>0. /\ \A label : Enter(p, label) => pc'[p] = label
      /\ \A f : Settled(p, f) => pc'[p] = "resolve"
  BY DEF Inv, TypeOK, PassTypes, Enter, Settled
<1>1. /\ pc[p] \in {"confirm", "resolve", "fresh", "resolution_scan", "resolution", "close"}
      /\ UNCHANGED <<cur, records>>
  BY DEF ConfirmDone, StartResolve, GetIssue, ScanResolution, CommentResolution, CloseIssue,
         ResolveDone, history
<1>2. pc'[p] \in {"resolve", "fresh", "resolution_scan", "resolution", "close", "evidence"}
  BY <1>0 DEF ConfirmDone, StartResolve, GetIssue, ScanResolution, CommentResolution, CloseIssue,
         ResolveDone
<1> QED BY <1>1, <1>2, ReconcilingSound DEF Reconciling, Confirming

\* What a pass has read before it writes still holds when it goes on.
LEMMA ReadStepSound ==
    ASSUME Inv, NEW p \in Pass, ReadSteps(p)
    PROVE  PassSound(p)'
<1> USE DEF Inv, TypeOK, PassTypes, Enter, Leave, Remember, PassSound, RunAt,
            Reconciling, Confirming
<1>1. CASE StartSweep(p) \/ Dispatch(p) \/ NextCandidate(p) \/ EndSweep(p)
  BY <1>1 DEF StartSweep, Dispatch, NextCandidate, EndSweep
<1>2. CASE ReadRecord(p)
  BY <1>2, LocType DEF ReadRecord, Locals, history
<1>3. CASE ReceiptFound(p)
  BY <1>3 DEF ReceiptFound, history, staging
<1>4. CASE ReceiptMissing(p)
  BY <1>4 DEF ReceiptMissing, history
<1>5. CASE Validate(p)
  <2>1. pc[p] = "validate" /\ UNCHANGED <<cur, records>>
    BY <1>5 DEF Validate, history
  <2>2. CASE loc[p].existing = None
    <3>1. pc'[p] = "persist" /\ loc'[p].pointer = FirstBootstrap(cur[p])
      BY <1>5, <2>2, LocType DEF Validate, Locals
    <3>2. Admitted(cur[p])
      BY <1>5, <2>2 DEF Validate, Gates, Admitted
    <3>3. Admitted(cur[p])'
      BY <2>1, <3>2 DEF Admitted
    <3> QED BY <2>1, <3>1, <3>3 DEF FirstBootstrap
  <2>3. CASE loc[p].existing # None
    <3>1. pc'[p] = "views" /\ records[RunAt(p)] = cur[p]
      BY <1>5, <2>1, <2>3 DEF Validate, Gates
    <3> QED BY <2>1, <3>1
  <2> QED BY <2>2, <2>3
<1>6. CASE Refuse(p) \/ PersistExists(p) \/ FailRun(p) \/ Abort(p)
  BY <1>6 DEF Refuse, PersistExists, FailRun, Abort
<1>7. CASE LaneViews(p)
  BY <1>7 DEF LaneViews, history
<1>8. CASE ListIssues(p)
  <2>1. pc[p] = "list" /\ pc'[p] = "confirm" /\ UNCHANGED <<cur, records>>
    BY <1>8 DEF ListIssues, history
  <2>2. loc'[p].left = Body[cur[p]].confirmed
    BY <1>8, LocType DEF ListIssues, Locals
  <2> QED BY <2>1, <2>2
<1>9. CASE FindEvidence(p)
  BY <1>9 DEF FindEvidence, history, tracker
<1> QED BY <1>1, <1>2, <1>3, <1>4, <1>5, <1>6, <1>7, <1>8, <1>9, ConfirmingStepSound,
           ResolvingStepSound DEF ReadSteps

\* A result whose run is staged or recorded stays so.
LEMMA StagedKept ==
    ASSUME Inv, Grows, NEW x \in Result, StillStaged(x)
    PROVE  StillStaged(x)'
BY BodyType, NoneIsNothing DEF StillStaged, Grows, Inv, TypeOK, StoreTypes

\* Every candidate a pass loads or holds is staged or recorded.
LEMMA CandidatesKept ==
    ASSUME Inv, Grows, NEW p \in Pass,
           PassStep(p) \/ Dispatch(p) \/ FailRun(p) \/ Abort(p)
    PROVE  /\ \A x \in todo'[p] : StillStaged(x)'
           /\ pc'[p] \notin {"idle", "pick"} => StillStaged(cur[p])'
<1>1. /\ todo[p] \subseteq Result /\ \A x \in todo[p] : StillStaged(x)
      /\ pc[p] \notin {"idle", "pick"} => cur[p] \in Result /\ StillStaged(cur[p])
  BY DEF Inv, TypeOK, PassTypes, InHand, CandidatesStaged
<1>2. ASSUME NEW r \in Run, handoff[r] # None
      PROVE  handoff[r] \in Result /\ StillStaged(handoff[r])
  BY <1>2 DEF Inv, StagingSound, StillStaged, TypeOK, StoreTypes
<1>3. CASE StartSweep(p) \/ Dispatch(p)
  <2>1. pc'[p] = "pick"
    BY <1>3 DEF StartSweep, Dispatch, Enter, Inv, TypeOK, PassTypes
  <2>2. todo'[p] \subseteq {handoff[r] : r \in Run} \ {None}
    BY <1>3, ConstantTypes DEF StartSweep, Dispatch, Inv, TypeOK, PassTypes
  <2> QED BY <1>2, <2>1, <2>2, StagedKept
<1>4. CASE NextCandidate(p)
  BY <1>1, <1>4, StagedKept DEF NextCandidate, Inv, TypeOK, PassTypes
<1>5. CASE ~ (StartSweep(p) \/ Dispatch(p) \/ NextCandidate(p))
  <2>1. MovesOnly(p) /\ PassTypes
    BY MovesOnlyHolds DEF Inv, TypeOK
  <2>2. /\ todo'[p] \subseteq todo[p]
        /\ pc'[p] \notin {"idle", "pick"} => cur' = cur /\ pc[p] \notin {"idle", "pick"}
    BY <1>5, <2>1 DEF PassStep, EndSweep, ReadRecord, ReceiptFound, ReceiptMissing, DeleteStagingRef,
       Validate, Refuse, Persist, PersistExists, LaneViews, ListIssues, TouchOpen, Defer, OpenIssue,
       Relist, CloseExtra, ScanComments, Comment, ConfirmDone, StartResolve, GetIssue,
       ScanResolution, CommentResolution, CloseIssue, ResolveDone, FindEvidence, Announce,
       WriteReceipt, FailRun, Abort, Leave, Enter, PassTypes
  <2> QED BY <1>1, <2>2, StagedKept
<1> QED BY <1>3, <1>4, <1>5

\* Only a recorded run is retired.
LEMMA RetireSound ==
    ASSUME Inv, NEW p \in Pass, DeleteStagingRef(p)
    PROVE  PassSound(p)' /\ Grows /\ HistorySound' /\ StagingSound'
<1>1. /\ pc[p] = "delete" /\ cur[p] \in Result /\ RunAt(p) \in aged /\ RunAt(p) \in Run
      /\ handoff' = [handoff EXCEPT ![RunAt(p)] = None]
      /\ UNCHANGED <<pushed, aged, history, tracker>>
  BY BodyType DEF DeleteStagingRef, Inv, PassSound, InHand, RunAt
<1>2. records[RunAt(p)] # None
  BY <1>1 DEF Inv, StagingSound, HistorySound, ReceiptsSound
<1>3. Grows
  BY <1>1, <1>2 DEF Grows, history, tracker, Inv, TypeOK, StoreTypes
<1>4. StagingSound'
  BY <1>1 DEF StagingSound, history, Inv, TypeOK, StoreTypes
<1>5. HistorySound'
  BY <1>1 DEF Inv, HistorySound, RecordsSound, PointersSound, ReceiptsSound, IssuesSound,
              history, tracker
<1>6. PassSound(p)'
  BY DEF DeleteStagingRef, Leave, Enter, PassSound, Inv, TypeOK, PassTypes, Reconciling, Confirming
<1> QED BY <1>3, <1>4, <1>5, <1>6

\* The commit adds a record that every gate admitted to a run that has none, so
\* no record, and no baseline of a record, is lost.
LEMMA PersistSound ==
    ASSUME Inv, NEW p \in Pass, Persist(p)
    PROVE  PassSound(p)' /\ Grows /\ HistorySound' /\ StagingSound'
<1> DEFINE x == cur[p]
           r == RunAt(p)
<1>1. /\ x \in Result /\ r = RunOf(x) /\ r \in Run /\ x # None
      /\ Admitted(x) /\ (loc[p].pointer => Body[x].state = "bootstrap")
  BY BodyType, NoneIsNothing DEF Persist, Inv, PassSound, InHand, RunAt
<1>2. /\ records[r] = None /\ records' = [records EXCEPT ![r] = x]
      /\ UNCHANGED <<staging, receipts, tracker>>
  BY DEF Persist, Paths
<1>3. /\ records'[r] = x
      /\ \A q \in Run : records[q] # None => q # r /\ records'[q] = records[q]
  BY <1>1, <1>2 DEF Inv, TypeOK, StoreTypes
<1>4. RecordsSound'
  <2> SUFFICES ASSUME NEW q \in Run, records'[q] # None
               PROVE  LET y == records'[q] IN
                      /\ RunOf(y) = q
                      /\ Body[y].intact /\ Body[y].conformant /\ Body[y].origin # "foreign"
                      /\ Body[y].baseline # None =>
                            records'[RunOf(Body[y].baseline)] = Body[y].baseline
    BY DEF RecordsSound
  <2>1. ASSUME NEW y \in Result, Body[y].baseline # None,
               records[RunOf(Body[y].baseline)] = Body[y].baseline
        PROVE  records'[RunOf(Body[y].baseline)] = Body[y].baseline
    <3>1. Body[y].baseline \in Result /\ RunOf(Body[y].baseline) \in Run
      BY <2>1, BodyType DEF ResultBody
    <3> QED BY <1>3, <2>1, <3>1
  <2>2. CASE q = r
    BY <1>1, <1>3, <2>1, <2>2 DEF Admitted
  <2>3. CASE q # r
    <3>1. records'[q] = records[q] /\ records[q] \in Result
      BY <1>1, <1>2, <2>3 DEF Inv, TypeOK, StoreTypes
    <3>2. /\ RunOf(records[q]) = q
          /\ Body[records[q]].intact /\ Body[records[q]].conformant
          /\ Body[records[q]].origin # "foreign"
          /\ Body[records[q]].baseline # None =>
                records[RunOf(Body[records[q]].baseline)] = Body[records[q]].baseline
      BY <3>1, NoneIsNothing DEF Inv, HistorySound, RecordsSound
    <3> QED BY <2>1, <3>1, <3>2
  <2> QED BY <2>2, <2>3
<1>5. PointersSound'
  <2> SUFFICES ASSUME NEW l \in Lane, pointers'[l] # None
               PROVE  /\ LaneOf[pointers'[l]] = l
                      /\ records'[pointers'[l]] # None
                      /\ Body[records'[pointers'[l]]].state = "bootstrap"
    BY DEF PointersSound
  <2>1. pointers \in [Lane -> Run \cup {None}] /\ LaneOfResult(x) = LaneOf[r] /\ LaneOf[r] \in Lane
    BY <1>1, BodyType DEF Inv, TypeOK, StoreTypes, LaneOfResult, RunOf
  <2>2. CASE loc[p].pointer /\ l = LaneOf[r]
    <3>1. pointers'[l] = r
      BY <2>1, <2>2 DEF Persist
    <3> QED BY <1>1, <1>3, <2>2, <3>1
  <2>3. CASE ~ (loc[p].pointer /\ l = LaneOf[r])
    <3>1. pointers'[l] = pointers[l] /\ pointers[l] \in Run
      BY <2>1, <2>3 DEF Persist
    <3> QED BY <1>3, <3>1 DEF Inv, HistorySound, PointersSound
  <2> QED BY <2>2, <2>3
<1>6. ReceiptsSound'
  BY <1>1, <1>2, <1>3, NoneIsNothing DEF Inv, HistorySound, ReceiptsSound, tracker
<1>7. IssuesSound'
  <2>1. ASSUME NEW n \in DOMAIN issues PROVE issues[n].by \in Run
    <3>1. issues \in Seq(Issue)
      BY DEF Inv, TypeOK, StoreTypes
    <3>2. issues[n] \in Issue
      BY <3>1, ElementOfSeq, LenProperties
    <3> QED BY <3>2 DEF Issue
  <2> QED BY <1>2, <1>3, <2>1 DEF Inv, HistorySound, IssuesSound, tracker
<1>8. Grows
  BY <1>2, <1>3 DEF Grows, staging, tracker
<1>9. StagingSound'
  BY <1>2 DEF Inv, StagingSound, staging
<1>10. PassSound(p)'
  <2>1. pc'[p] = "views" /\ cur' = cur
    BY DEF Persist, Enter, Inv, TypeOK, PassTypes
  <2> QED BY <1>3, <2>1 DEF PassSound, RunAt, Reconciling, Confirming
<1> QED BY <1>4, <1>5, <1>6, <1>7, <1>8, <1>9, <1>10 DEF HistorySound

\* A comment leaves what the issues are about.
LEMMA MarkSound ==
    ASSUME Inv, NEW n, NEW r \in Run, records[r] # None, Mark(n, r), records' = records
    PROVE  IssuesSound'
<1>1. issues \in Seq(Issue) /\ DOMAIN issues' = DOMAIN issues /\ IssuesSound
  BY DEF Mark, Inv, TypeOK, StoreTypes, HistorySound
<1>2. ASSUME NEW m \in DOMAIN issues
      PROVE  /\ issues'[m].by = issues[m].by /\ issues'[m].fp = issues[m].fp
             /\ \A q \in Run : q # r => issues'[m].applied[q] = issues[m].applied[q]
  <2>1. issues[m] \in Issue
    BY <1>1, ElementOfSeq, LenProperties
  <2>2. issues[m].applied \in [Run -> Nat]
    BY <2>1 DEF Issue
  <2> QED BY <1>1, <2>1, <2>2 DEF Mark, Marked, Issue
<1> QED BY <1>1, <1>2 DEF IssuesSound

\* Closing an issue, by a pass or a maintainer, leaves what it is about.
LEMMA CloseSound ==
    ASSUME Inv, NEW n, NEW how, Close(n, how), records' = records
    PROVE  IssuesSound'
<1>1. issues \in Seq(Issue) /\ DOMAIN issues' = DOMAIN issues /\ IssuesSound
  BY DEF Close, Inv, TypeOK, StoreTypes, HistorySound
<1>2. ASSUME NEW m \in DOMAIN issues
      PROVE  /\ issues'[m].by = issues[m].by /\ issues'[m].fp = issues[m].fp
             /\ issues'[m].applied = issues[m].applied
  <2>1. issues[m] \in Issue
    BY <1>1, ElementOfSeq, LenProperties
  <2> QED BY <1>1, <2>1 DEF Close, Closed, Issue
<1> QED BY <1>1, <1>2 DEF IssuesSound

\* A step that writes issues only.
LEMMA IssueStep ==
    ASSUME Inv, IssuesSound', UNCHANGED <<staging, history, evidence>>
    PROVE  Grows /\ HistorySound' /\ StagingSound'
<1>1. Grows /\ StagingSound'
  BY DEF Grows, StagingSound, Inv, staging, history
<1>2. RecordsSound' /\ PointersSound' /\ ReceiptsSound'
  BY DEF Inv, HistorySound, RecordsSound, PointersSound, ReceiptsSound, history
<1> QED BY <1>1, <1>2 DEF HistorySound

\* A new issue is about a drift its run confirms, and that run is recorded.
LEMMA TrackerStepSound ==
    ASSUME Inv, NEW p \in Pass,
           OpenIssue(p) \/ CloseExtra(p) \/ Comment(p) \/ CommentResolution(p) \/ CloseIssue(p)
    PROVE  PassSound(p)' /\ Grows /\ HistorySound' /\ StagingSound'
<1>1. PassSound(p)'
  BY ConfirmingStepSound, ResolvingStepSound
<1>2. UNCHANGED <<staging, history, evidence>> /\ records' = records
  BY DEF OpenIssue, CloseExtra, Comment, CommentResolution, CloseIssue, history
<1>3. cur[p] \in Result /\ RunAt(p) \in Run /\ records[RunAt(p)] = cur[p] /\ records[RunAt(p)] # None
  BY BodyType, NoneIsNothing DEF OpenIssue, CloseExtra, Comment, CommentResolution, CloseIssue,
     Inv, InHand, PassSound, RunAt, Reconciling, Confirming
<1>4. CASE Comment(p) \/ CommentResolution(p)
  BY <1>1, <1>2, <1>3, <1>4, MarkSound, IssueStep DEF Comment, CommentResolution
<1>5. CASE CloseExtra(p) \/ CloseIssue(p)
  BY <1>1, <1>2, <1>5, CloseSound, IssueStep DEF CloseExtra, CloseIssue
<1>6. CASE OpenIssue(p)
  <2>1. PICK f \in loc[p].left :
            issues' = Append(issues, [fp |-> f, by |-> RunAt(p), closed |-> "no",
                                      keep_open |-> FALSE, applied |-> [r \in Run |-> 0]])
    BY <1>6 DEF OpenIssue
  <2>2. f \in Body[cur[p]].confirmed
    BY <1>6 DEF OpenIssue, Inv, PassSound, Confirming
  <2>3. issues \in Seq(Issue) /\ IssuesSound
    BY DEF Inv, TypeOK, StoreTypes, HistorySound
  <2>4. /\ Len(issues) \in Nat /\ DOMAIN issues = 1..Len(issues)
        /\ DOMAIN issues' = 1..(Len(issues) + 1)
        /\ \A n \in 1..Len(issues) : issues'[n] = issues[n]
        /\ issues'[Len(issues) + 1] = [fp |-> f, by |-> RunAt(p), closed |-> "no",
                                       keep_open |-> FALSE, applied |-> [r \in Run |-> 0]]
    BY <2>1, <2>3
  <2>5. ASSUME NEW n \in DOMAIN issues'
        PROVE  /\ records[issues'[n].by] # None
               /\ issues'[n].fp \in Body[records[issues'[n].by]].confirmed
               /\ \A r \in Run : issues'[n].applied[r] > 0 => records[r] # None
    <3>1. CASE n \in DOMAIN issues
      BY <2>3, <2>4, <3>1 DEF IssuesSound
    <3>2. CASE n \notin DOMAIN issues
      <4>1. n = Len(issues) + 1
        BY <2>4, <3>2
      <4> QED BY <1>3, <2>2, <2>4, <4>1
    <3> QED BY <3>1, <3>2
  <2>6. IssuesSound'
    BY <1>2, <2>5 DEF IssuesSound
  <2> QED BY <1>1, <1>2, <2>6, IssueStep
<1> QED BY <1>4, <1>5, <1>6

\* Evidence is announced for a recorded run only.
LEMMA AnnounceSound ==
    ASSUME Inv, NEW p \in Pass, Announce(p)
    PROVE  PassSound(p)' /\ Grows /\ HistorySound' /\ StagingSound'
<1>1. /\ pc'[p] = "write_receipt" /\ cur' = cur
      /\ UNCHANGED <<staging, history, issues>>
      /\ evidence' = [evidence EXCEPT ![RunAt(p)] = @ + 1]
  BY DEF Announce, Enter, Inv, TypeOK, PassTypes
<1>2. /\ cur[p] \in Result /\ RunAt(p) \in Run /\ records[RunAt(p)] = cur[p]
      /\ records[RunAt(p)] # None
  BY BodyType, NoneIsNothing DEF Announce, Inv, InHand, PassSound, RunAt, Reconciling
<1>3. /\ evidence \in [Run -> Nat] /\ evidence'[RunAt(p)] > 0
      /\ \A r \in Run : evidence[r] > 0 => evidence'[r] > 0
      /\ \A r \in Run : r # RunAt(p) => evidence'[r] = evidence[r]
  BY <1>1, <1>2 DEF Inv, TypeOK, StoreTypes
<1>4. Grows
  BY <1>1, <1>3 DEF Grows, staging, history
<1>5. StagingSound'
  BY <1>1 DEF Inv, StagingSound, staging, history
<1>6. RecordsSound' /\ PointersSound' /\ IssuesSound'
  BY <1>1 DEF Inv, HistorySound, RecordsSound, PointersSound, IssuesSound, history
<1>7. ReceiptsSound'
  BY <1>1, <1>2, <1>3 DEF Inv, HistorySound, ReceiptsSound, history
<1>8. PassSound(p)'
  <2>1. RunAt(p)' = RunAt(p) /\ records' = records
    BY <1>1 DEF RunAt, history
  <2> QED BY <1>1, <1>2, <1>3, <2>1 DEF PassSound, Reconciling, Confirming
<1> QED BY <1>4, <1>5, <1>6, <1>7, <1>8 DEF HistorySound

\* The receipt names the recorded content, which has been announced.
LEMMA ReceiptWriteSound ==
    ASSUME Inv, NEW p \in Pass, WriteReceipt(p)
    PROVE  PassSound(p)' /\ Grows /\ HistorySound' /\ StagingSound'
<1>1. /\ pc'[p] = "pick" /\ UNCHANGED <<staging, records, pointers, tracker>>
      /\ receipts' = IF receipts[RunAt(p)] = None
                     THEN [receipts EXCEPT ![RunAt(p)] = cur[p]] ELSE receipts
  BY DEF WriteReceipt, Leave, Enter, Inv, TypeOK, PassTypes
<1>2. /\ RunAt(p) \in Run /\ records[RunAt(p)] = cur[p] /\ evidence[RunAt(p)] > 0
  BY BodyType DEF WriteReceipt, Inv, InHand, PassSound, RunAt, Reconciling
<1>3. /\ \A r \in Run : receipts[r] # None => receipts'[r] = receipts[r]
      /\ \A r \in Run : \/ receipts'[r] = receipts[r]
                        \/ r = RunAt(p) /\ receipts'[r] = cur[p]
  <2>1. receipts \in [Run -> Result \cup {None}]
    BY DEF Inv, TypeOK, StoreTypes
  <2> QED BY <1>1, <1>2, <2>1
<1>4. Grows
  BY <1>1, <1>3 DEF Grows, staging, tracker
<1>5. StagingSound'
  BY <1>1, <1>3 DEF Inv, StagingSound, staging, TypeOK, StoreTypes
<1>6. RecordsSound' /\ PointersSound' /\ IssuesSound'
  BY <1>1 DEF Inv, HistorySound, RecordsSound, PointersSound, IssuesSound, tracker
<1>7. ReceiptsSound'
  BY <1>1, <1>2, <1>3 DEF Inv, HistorySound, ReceiptsSound, tracker
<1>8. PassSound(p)'
  BY <1>1 DEF PassSound, Reconciling, Confirming
<1> QED BY <1>4, <1>5, <1>6, <1>7, <1>8 DEF HistorySound

\* Every step of a pass keeps the invariant.
LEMMA PassStepInv ==
    ASSUME Inv, NEW p \in Pass, PassStep(p) \/ Dispatch(p) \/ FailRun(p) \/ Abort(p)
    PROVE  Inv'
<1>1. TypeOK' /\ InHand' /\ MovesOnly(p)
  BY ReadStepType, WriteStepType, MovesOnlyHolds DEF Inv, TypeOK, PassStep
<1>2. PassSound(p)' /\ Grows /\ HistorySound' /\ StagingSound'
  <2>1. CASE ReadSteps(p)
    <3>1. UNCHANGED <<staging, history, tracker>>
      BY <2>1 DEF ReadSteps, StartSweep, Dispatch, NextCandidate, EndSweep, ReadRecord,
         ReceiptFound, ReceiptMissing, Validate, Refuse, PersistExists, LaneViews, ListIssues,
         TouchOpen, Defer, Relist, ScanComments, ConfirmDone, StartResolve, GetIssue,
         ScanResolution, ResolveDone, FindEvidence, FailRun, Abort
    <3> QED BY <2>1, <3>1, ReadStepSound, QuietStep
  <2>2. CASE ~ ReadSteps(p)
    BY <2>2, RetireSound, PersistSound, TrackerStepSound, AnnounceSound, ReceiptWriteSound
       DEF PassStep, ReadSteps
  <2> QED BY <2>1, <2>2
<1>3. /\ \A x \in todo'[p] : StillStaged(x)'
      /\ pc'[p] \notin {"idle", "pick"} => StillStaged(cur[p])'
  BY <1>2, CandidatesKept
<1> QED BY <1>1, <1>2, <1>3, PassInv

\* Execution runs, the clock and maintainers leave what the passes rely on.
LEMMA OtherStepInv ==
    ASSUME Inv,
           \/ \E x \in Result : Seal(x)
           \/ \E r \in Run : Age(r)
           \/ \E n \in DOMAIN issues : MaintainerCloses(n) \/ KeepOpen(n)
    PROVE  Inv'
<1>1. TypeOK' /\ InHand'
  BY OtherStepType DEF Inv
<1>2. UNCHANGED <<history, evidence, passes>>
  BY DEF Seal, Age, MaintainerCloses, KeepOpen, tracker
<1>3. Grows /\ HistorySound' /\ StagingSound'
  <2>1. ASSUME NEW x \in Result, Seal(x) PROVE Grows /\ HistorySound' /\ StagingSound'
    <3>1. RunOf(x) \in Run /\ x # None
      BY BodyType, NoneIsNothing
    <3>2. Grows
      BY <2>1, <3>1 DEF Seal, Grows, history, tracker, Inv, TypeOK, StoreTypes
    <3>3. StagingSound'
      BY <2>1, <3>1 DEF Seal, StagingSound, history, Inv, TypeOK, StoreTypes
    <3>4. HistorySound'
      BY <2>1 DEF Seal, Inv, HistorySound, RecordsSound, PointersSound, ReceiptsSound,
                  IssuesSound, history, tracker
    <3> QED BY <3>2, <3>3, <3>4
  <2>2. ASSUME NEW r \in Run, Age(r) PROVE Grows /\ HistorySound' /\ StagingSound'
    <3>1. Grows
      BY <2>2 DEF Age, Grows, history, tracker
    <3>2. StagingSound'
      BY <2>2 DEF Age, StagingSound, history, Inv
    <3>3. HistorySound'
      BY <2>2 DEF Age, Inv, HistorySound, RecordsSound, PointersSound, ReceiptsSound,
                  IssuesSound, history, tracker
    <3> QED BY <3>1, <3>2, <3>3
  <2>3. ASSUME NEW n \in DOMAIN issues, MaintainerCloses(n)
        PROVE  Grows /\ HistorySound' /\ StagingSound'
    <3>1. UNCHANGED <<staging, history, evidence>> /\ records' = records
      BY <2>3 DEF MaintainerCloses, history
    <3> QED BY <2>3, <3>1, CloseSound, IssueStep DEF MaintainerCloses
  <2>4. ASSUME NEW n \in DOMAIN issues, KeepOpen(n)
        PROVE  Grows /\ HistorySound' /\ StagingSound'
    <3>1. UNCHANGED <<staging, history, evidence>> /\ records' = records
      BY <2>4 DEF KeepOpen, history
    <3>2. issues \in Seq(Issue) /\ DOMAIN issues' = DOMAIN issues /\ IssuesSound
      BY <2>4 DEF KeepOpen, Inv, TypeOK, StoreTypes, HistorySound
    <3>3. ASSUME NEW m \in DOMAIN issues
          PROVE  /\ issues'[m].by = issues[m].by /\ issues'[m].fp = issues[m].fp
                 /\ issues'[m].applied = issues[m].applied
      <4>1. issues[m] \in Issue
        BY <3>2, ElementOfSeq, LenProperties
      <4> QED BY <2>4, <3>2, <4>1 DEF KeepOpen, Issue
    <3>4. IssuesSound'
      BY <3>1, <3>2, <3>3 DEF IssuesSound
    <3> QED BY <3>1, <3>4, IssueStep
  <2> QED BY <2>1, <2>2, <2>3, <2>4
<1>4. \A x \in Result : StillStaged(x) => StillStaged(x)'
  BY <1>3, StagedKept
<1>5. CandidatesStaged'
  BY <1>2, <1>4 DEF CandidatesStaged, passes, Inv, TypeOK, PassTypes, InHand
<1>6. \A p \in Pass : PassSound(p)'
  <2> TAKE p \in Pass
  <2>1. UNCHANGED <<pc, cur, loc, records, evidence>> /\ aged \subseteq aged' /\ PassSound(p)
    BY <1>2, <1>3 DEF passes, history, Grows, Inv
  <2> QED BY <2>1 DEF PassSound, RunAt, Admitted
<1> QED BY <1>1, <1>3, <1>5, <1>6 DEF Inv

\* Every step of the system keeps the invariant.
LEMMA InvStep == Inv /\ [Next]_vars => Inv'
<1> SUFFICES ASSUME Inv, [Next]_vars PROVE Inv'
  OBVIOUS
<1>1. CASE vars' = vars
  <2>1. UNCHANGED <<staging, history, tracker>> /\ UNCHANGED <<pc, todo, cur, loc>>
    BY <1>1 DEF vars
  <2>2. TypeOK' /\ InHand'
    BY TypeStep DEF Inv
  <2>3. HistorySound' /\ StagingSound' /\ CandidatesStaged'
    BY <2>1, QuietStep DEF Inv, CandidatesStaged
  <2>4. \A p \in Pass : PassSound(p)'
    BY <2>1 DEF Inv, PassSound, RunAt, Admitted, staging, history, tracker
  <2> QED BY <2>2, <2>3, <2>4 DEF Inv
<1> QED BY <1>1, PassStepInv, OtherStepInv DEF Next

\* Whatever passes overlap, fail or die, and whatever is sealed meanwhile, the
\* records, pointers, receipts and issues agree.
THEOREM HistoryStaysSound == Spec => []HistorySound
<1>1. Inv => HistorySound
  BY DEF Inv
<1> QED BY <1>1, InvInit, InvStep, PTL DEF Spec

-----------------------------------------------------------------------------
(* The sweep implements its contract. *)

\* The seeded stores are where the contract starts.
LEMMA ContractInit == Init => Contract!Init
<1> SUFFICES ASSUME Init PROVE Contract!Init
  OBVIOUS
<1>1. {r \in Run : evidence[r] > 0} = {r \in Run : records[r] # None}
  BY DEF Init
<1>2. {r \in Run : handoff[r] # None} = {}
  BY DEF Init
<1> QED BY <1>1, <1>2 DEF Init, Contract!Init

\* A pass without a write is a stutter.
LEMMA ContractStutter ==
    ASSUME UNCHANGED <<handoff, aged, records, receipts, pointers, evidence>>
    PROVE  UNCHANGED Contract!vars
BY DEF Contract!vars

\* Persist records an admissible, staged result on a recorded baseline.
LEMMA ContractRecord ==
    ASSUME Inv, NEW p \in Pass, Persist(p)
    PROVE  Contract!Next
<1>1. /\ cur[p] \in Result /\ RunOf(cur[p]) = RunAt(p) /\ RunAt(p) \in Run
      /\ Admitted(cur[p]) /\ (loc[p].pointer => Body[cur[p]].state = "bootstrap")
      /\ StillStaged(cur[p])
  BY BodyType DEF Persist, Inv, PassSound, InHand, RunAt, CandidatesStaged
<1>2. /\ records[RunAt(p)] = None /\ records' = [records EXCEPT ![RunAt(p)] = cur[p]]
      /\ UNCHANGED <<staging, receipts, tracker>>
      /\ \/ pointers' = pointers
         \/ /\ loc[p].pointer
            /\ pointers[LaneOfResult(cur[p])] = None
            /\ pointers' = [pointers EXCEPT ![LaneOfResult(cur[p])] = RunAt(p)]
  BY DEF Persist, Paths
<1>3. RunAt(p) \in {r \in Run : handoff[r] # None}
  BY <1>1, <1>2 DEF StillStaged
<1>4. LaneOfResult(cur[p]) = LaneOf[RunAt(p)]
  BY <1>1 DEF LaneOfResult, RunOf
<1>5. Contract!Record(cur[p])
  <2>1. Body[cur[p]].baseline # None => Body[cur[p]].baseline \in Result
    BY <1>1, BodyType DEF ResultBody
  <2> QED BY <1>1, <1>2, <1>3, <1>4, <2>1 DEF Contract!Record, Admitted, staging, tracker
<1> QED BY <1>1, <1>5 DEF Contract!Next

\* The evidence comment announces a recorded run.
LEMMA ContractAnnounce ==
    ASSUME Inv, NEW p \in Pass, Announce(p)
    PROVE  Contract!Next
<1>1. /\ RunAt(p) \in Run /\ records[RunAt(p)] # None
  BY BodyType, NoneIsNothing DEF Announce, Inv, InHand, PassSound, RunAt, Reconciling
<1>2. /\ evidence' = [evidence EXCEPT ![RunAt(p)] = @ + 1] /\ UNCHANGED <<staging, history>>
      /\ evidence \in [Run -> Nat]
  BY DEF Announce, Inv, TypeOK, StoreTypes
<1>3. {r \in Run : evidence'[r] > 0} = {r \in Run : evidence[r] > 0} \cup {RunAt(p)}
  BY <1>1, <1>2
<1> QED BY <1>1, <1>2, <1>3 DEF Contract!Next, Contract!Announce, staging, history

\* The receipt publishes an announced run, or finds it published.
LEMMA ContractPublish ==
    ASSUME Inv, NEW p \in Pass, WriteReceipt(p)
    PROVE  Contract!Next \/ UNCHANGED Contract!vars
<1>1. /\ RunAt(p) \in Run /\ records[RunAt(p)] = cur[p] /\ evidence[RunAt(p)] > 0
  BY BodyType DEF WriteReceipt, Inv, InHand, PassSound, RunAt, Reconciling
<1>2. UNCHANGED <<staging, records, pointers, tracker>>
  BY DEF WriteReceipt
<1>3. CASE receipts[RunAt(p)] = None
  BY <1>1, <1>2, <1>3 DEF WriteReceipt, Contract!Next, Contract!Publish, staging, tracker
<1>4. CASE receipts[RunAt(p)] # None
  BY <1>2, <1>4, ContractStutter DEF WriteReceipt, staging, tracker
<1> QED BY <1>3, <1>4

\* Only a run whose receipt is old loses its staging ref.
LEMMA ContractUnstage ==
    ASSUME Inv, NEW p \in Pass, DeleteStagingRef(p)
    PROVE  Contract!Next
<1>1. RunAt(p) \in Run /\ RunAt(p) \in aged
  BY BodyType DEF DeleteStagingRef, Inv, PassSound, InHand, RunAt
<1>2. {r \in Run : handoff'[r] # None} = {r \in Run : handoff[r] # None} \ {RunAt(p)}
  BY <1>1 DEF DeleteStagingRef, Inv, TypeOK, StoreTypes
<1> QED BY <1>1, <1>2 DEF DeleteStagingRef, Contract!Next, Contract!Unstage, history, tracker

\* Every step is a step of the contract or a stutter.
LEMMA ContractStep == Inv /\ [Next]_vars => [Contract!Next]_(Contract!vars)
<1> SUFFICES ASSUME Inv, [Next]_vars PROVE Contract!Next \/ UNCHANGED Contract!vars
  OBVIOUS
<1>1. ASSUME NEW p \in Pass, PassStep(p) \/ Dispatch(p) \/ FailRun(p) \/ Abort(p)
      PROVE  Contract!Next \/ UNCHANGED Contract!vars
  <2>1. CASE Persist(p) \/ Announce(p) \/ WriteReceipt(p) \/ DeleteStagingRef(p)
    BY <2>1, ContractRecord, ContractAnnounce, ContractPublish, ContractUnstage
  <2>2. CASE ~ (Persist(p) \/ Announce(p) \/ WriteReceipt(p) \/ DeleteStagingRef(p))
    <3>1. UNCHANGED <<staging, history, evidence>>
      BY <1>1, <2>2 DEF PassStep, StartSweep, Dispatch, NextCandidate, EndSweep, ReadRecord,
         ReceiptFound, ReceiptMissing, Validate, Refuse, PersistExists, LaneViews, ListIssues,
         TouchOpen, Defer, OpenIssue, Relist, CloseExtra, ScanComments, Comment, ConfirmDone,
         StartResolve, GetIssue, ScanResolution, CommentResolution, CloseIssue, ResolveDone,
         FindEvidence, FailRun, Abort, tracker
    <3> QED BY <3>1, ContractStutter DEF staging, history
  <2> QED BY <2>1, <2>2
<1>2. ASSUME NEW x \in Result, Seal(x) PROVE Contract!Next
  <2>1. /\ RunOf(x) \in Run /\ x # None /\ handoff[RunOf(x)] = None
        /\ handoff' = [handoff EXCEPT ![RunOf(x)] = x]
    BY <1>2, BodyType, NoneIsNothing DEF Seal
  <2>2. /\ RunOf(x) \notin {r \in Run : handoff[r] # None}
        /\ {r \in Run : handoff'[r] # None} = {r \in Run : handoff[r] # None} \cup {RunOf(x)}
    BY <2>1 DEF Inv, TypeOK, StoreTypes
  <2> QED BY <1>2, <2>1, <2>2 DEF Seal, Contract!Next, Contract!Stage, history, tracker
<1>3. ASSUME NEW r \in Run, Age(r) PROVE Contract!Next
  BY <1>3 DEF Age, Contract!Next, Contract!Expire, history, tracker
<1>4. ASSUME NEW n \in DOMAIN issues, MaintainerCloses(n) \/ KeepOpen(n)
      PROVE  UNCHANGED Contract!vars
  BY <1>4, ContractStutter DEF MaintainerCloses, KeepOpen, staging, history
<1>5. CASE vars' = vars
  BY <1>5, ContractStutter DEF vars, staging, history, tracker
<1> QED BY <1>1, <1>2, <1>3, <1>4, <1>5 DEF Next

\* Every behaviour of the sweeps is one the contract allows: the record of a run
\* never changes, nothing is announced before it, no receipt precedes the
\* announcement, and no staging ref goes before its receipt is old.
THEOREM SweepKeepsContract == Spec => KeepsContract
BY InvInit, InvStep, ContractInit, ContractStep, PTL DEF Spec, KeepsContract, Contract!Spec

-----------------------------------------------------------------------------
(***************************************************************************)
(* Sweeps that run one at a time, as the workflow's concurrency group has  *)
(* it.  A pass that works for a run without a receipt (RunsInv) goes by a  *)
(* listing that stays true (IssuesInv) and by views that stay the latest   *)
(* (ViewsInv); so what the published records confirm is visible            *)
(* (VisibleInv), and what they refute is resolved (StaleInv).              *)
(***************************************************************************)

\* One sweep at a time, as the workflow's concurrency group has it.
OnePass == \A p, q \in Pass : p = q

Resolving == {"resolve", "fresh", "resolution_scan", "resolution", "close"}
Finishing == {"evidence", "announce", "write_receipt"}
Acting == {"list"} \cup Confirming \cup Resolving
Working == {"persist", "views"} \cup Acting \cup Finishing

-----------------------------------------------------------------------------
(* What each step does, as far as the properties of single sweeps go. *)

\* What a pass holds, and the record it works for.
LEMMA HandFacts ==
    ASSUME Inv, NEW p \in Pass
    PROVE  /\ pc[p] \in Label
           /\ pc[p] \notin {"idle", "pick"} =>
                 /\ cur[p] \in Result /\ RunAt(p) \in Run /\ LaneOf[RunAt(p)] \in Lane
                 /\ Body[cur[p]].confirmed \subseteq Fingerprint
           /\ pc[p] \in Working \ {"persist"} => records[RunAt(p)] = cur[p]
<1>1. pc[p] \in Label /\ (pc[p] \notin {"idle", "pick"} => cur[p] \in Result)
  BY DEF Inv, TypeOK, PassTypes, InHand
<1>2. cur[p] \in Result => /\ RunAt(p) \in Run /\ LaneOf[RunAt(p)] \in Lane
                           /\ Body[cur[p]].confirmed \subseteq Fingerprint
  BY BodyType, ConstantTypes DEF RunAt, ResultBody
<1>3. pc[p] \in Working \ {"persist"} => records[RunAt(p)] = cur[p]
  BY DEF Inv, PassSound, Working, Acting, Finishing, Resolving, Reconciling, Confirming
<1> QED BY <1>1, <1>2, <1>3

\* An issue on the tracker, field by field.
LEMMA IssueFacts ==
    ASSUME Inv, NEW n \in DOMAIN issues
    PROVE  /\ n \in Nat /\ n # 0
           /\ issues[n].fp \in Fingerprint /\ issues[n].by \in Run
           /\ issues[n].closed \in {"no", "resolved", "duplicate", "maintainer"}
           /\ issues[n].keep_open \in BOOLEAN
           /\ issues[n].applied \in [Run -> Nat]
           /\ records[issues[n].by] # None
           /\ issues[n].fp \in Body[records[issues[n].by]].confirmed
<1>1. issues \in Seq(Issue)
  BY DEF Inv, TypeOK, StoreTypes
<1>2. issues[n] \in Issue /\ n \in Nat /\ n # 0
  BY <1>1, ElementOfSeq, LenProperties
<1>3. IssuesSound
  BY DEF Inv, HistorySound
<1> QED BY <1>2, <1>3 DEF Issue, IssuesSound

\* Where a step leaves the pass that takes it.
LEMMA Moves ==
    ASSUME Inv, NEW p \in Pass
    PROVE  /\ \A label : Enter(p, label) => pc'[p] = label
           /\ \A v : Remember(p, v) => loc'[p] = v
           /\ Leave(p) => pc'[p] = "pick"
BY DEF Inv, TypeOK, PassTypes, Enter, Remember, Leave

\* The listing and the views a pass works from.
KeepsLists(p) == loc'[p].open = loc[p].open /\ loc'[p].views = loc[p].views

\* The drift `f` of the record is handled.
DoneWith(p, f) ==
    /\ pc'[p] = "confirm" /\ loc'[p].left = loc[p].left \ {f}
    /\ loc'[p].deferred = loc[p].deferred /\ KeepsLists(p)

\* The open issue `f` of the listing is dealt with.
SettledWith(p, f) ==
    /\ pc'[p] = "resolve" /\ loc'[p].left = loc[p].left \ {f}
    /\ loc'[p].deferred = loc[p].deferred /\ KeepsLists(p)

\* Issue `n` of the fingerprint `f` is taken up.
TakesUp(p, f, n) ==
    /\ loc'[p].fp = f /\ loc'[p].issue = n
    /\ loc'[p].left = loc[p].left
    /\ loc'[p].deferred = loc[p].deferred /\ KeepsLists(p)

\* The published content and the candidate stay as they are.
Calm == UNCHANGED <<records, receipts, deferred, cur>>

\* The steps that end the work on a drift keep the listing and the views.
LEMMA HandledEffect ==
    ASSUME Inv, NEW p \in Pass, NEW f, Handled(p, f)
    PROVE  DoneWith(p, f)
<1> DEFINE v == [loc[p] EXCEPT !.left = @ \ {f}, !.fp = None, !.issue = 0, !.extras = {}]
<1>1. /\ v.left = loc[p].left \ {f} /\ v.open = loc[p].open /\ v.views = loc[p].views
      /\ v.deferred = loc[p].deferred
  BY LocType DEF Inv, TypeOK, Locals
<1>2. pc'[p] = "confirm" /\ loc'[p] = v
  BY Moves DEF Handled
<1> QED BY <1>1, <1>2 DEF DoneWith, KeepsLists

\* So do those that end the work on an open issue.
LEMMA SettledEffect ==
    ASSUME Inv, NEW p \in Pass, NEW f, Settled(p, f)
    PROVE  SettledWith(p, f)
<1> DEFINE v == [loc[p] EXCEPT !.left = @ \ {f}, !.fp = None, !.issue = 0]
<1>1. /\ v.left = loc[p].left \ {f} /\ v.open = loc[p].open /\ v.views = loc[p].views
      /\ v.deferred = loc[p].deferred
  BY LocType DEF Inv, TypeOK, Locals
<1>2. pc'[p] = "resolve" /\ loc'[p] = v
  BY Moves DEF Settled
<1> QED BY <1>1, <1>2 DEF SettledWith, KeepsLists

\* So does taking up an issue.
LEMMA TakeEffect ==
    ASSUME Inv, NEW p \in Pass, NEW f, NEW n,
           Remember(p, [loc[p] EXCEPT !.fp = f, !.issue = n])
    PROVE  TakesUp(p, f, n)
<1> DEFINE v == [loc[p] EXCEPT !.fp = f, !.issue = n]
<1>1. /\ v.left = loc[p].left /\ v.open = loc[p].open /\ v.views = loc[p].views
      /\ v.deferred = loc[p].deferred /\ v.fp = f /\ v.issue = n
  BY LocType DEF Inv, TypeOK, Locals
<1>2. loc'[p] = v
  BY Moves
<1> QED BY <1>1, <1>2 DEF TakesUp, KeepsLists

\* A drift with an open issue is handled when its run opened that issue; otherwise
\* the comments are read.
LEMMA TouchEffect ==
    ASSUME Inv, NEW p \in Pass, TouchOpen(p)
    PROVE  /\ pc[p] = "confirm" /\ Calm /\ UNCHANGED tracker
           /\ \E f \in loc[p].left :
                 /\ loc[p].open[f] # 0
                 /\ \/ issues[loc[p].open[f]].by = RunAt(p) /\ DoneWith(p, f)
                    \/ /\ issues[loc[p].open[f]].by # RunAt(p) /\ pc'[p] = "scan"
                       /\ TakesUp(p, f, loc[p].open[f])
<1>1. pc[p] = "confirm" /\ Calm /\ UNCHANGED tracker
  BY DEF TouchOpen, Calm, history
<1>2. PICK f \in loc[p].left :
        /\ loc[p].open[f] # 0
        /\ IF CreatedBy(loc[p].open[f], RunAt(p))
           THEN Handled(p, f)
           ELSE /\ Enter(p, "scan")
                /\ Remember(p, [loc[p] EXCEPT !.fp = f, !.issue = loc[p].open[f]])
  BY DEF TouchOpen
<1>3. CreatedBy(loc[p].open[f], RunAt(p)) <=> issues[loc[p].open[f]].by = RunAt(p)
  BY <1>2 DEF CreatedBy
<1> QED BY <1>1, <1>2, <1>3, HandledEffect, TakeEffect, Moves

\* A drift that finds no room is deferred.
LEMMA DeferEffect ==
    ASSUME Inv, NEW p \in Pass, Defer(p)
    PROVE  /\ pc[p] = "confirm" /\ pc'[p] = "confirm" /\ Calm /\ UNCHANGED tracker
           /\ \E f \in loc[p].left :
                 /\ loc'[p].left = loc[p].left \ {f}
                 /\ loc'[p].deferred = loc[p].deferred \cup {f} /\ KeepsLists(p)
<1>1. pc[p] = "confirm" /\ pc'[p] = "confirm" /\ Calm /\ UNCHANGED tracker
  BY DEF Defer, Calm, history
<1>2. PICK f \in loc[p].left :
        Remember(p, [loc[p] EXCEPT !.left = @ \ {f}, !.deferred = @ \cup {f}])
  BY DEF Defer
<1> DEFINE v == [loc[p] EXCEPT !.left = @ \ {f}, !.deferred = @ \cup {f}]
<1>3. /\ v.left = loc[p].left \ {f} /\ v.open = loc[p].open /\ v.views = loc[p].views
      /\ v.deferred = loc[p].deferred \cup {f}
  BY LocType DEF Inv, TypeOK, Locals
<1>4. loc'[p] = v
  BY <1>2, Moves
<1> QED BY <1>1, <1>3, <1>4 DEF KeepsLists

\* Issue `n` is new: `f`, opened by run `r`.
Opened(n, f, r) ==
    /\ DOMAIN issues' = DOMAIN issues \cup {n} /\ n \notin DOMAIN issues
    /\ \A m \in DOMAIN issues : issues'[m] = issues[m]
    /\ issues'[n].fp = f /\ issues'[n].by = r /\ issues'[n].closed = "no"
    /\ ~ issues'[n].keep_open
    /\ \A q \in Run : issues'[n].applied[q] = 0

\* The issue of a drift is created, with the run in its body.
LEMMA OpenEffect ==
    ASSUME Inv, NEW p \in Pass, OpenIssue(p)
    PROVE  /\ pc[p] = "confirm" /\ pc'[p] = "relist" /\ Calm /\ evidence' = evidence
           /\ \E f \in loc[p].left, n \in Nat :
                 /\ loc[p].open[f] = 0
                 /\ Opened(n, f, RunAt(p)) /\ TakesUp(p, f, n)
<1>1. pc[p] = "confirm" /\ pc'[p] = "relist" /\ Calm /\ evidence' = evidence
  BY Moves DEF OpenIssue, Calm, history
<1>2. PICK f \in loc[p].left :
        /\ loc[p].open[f] = 0
        /\ issues' = Append(issues, [fp |-> f, by |-> RunAt(p), closed |-> "no",
                                     keep_open |-> FALSE, applied |-> [r \in Run |-> 0]])
        /\ Remember(p, [loc[p] EXCEPT !.fp = f, !.issue = Len(issues) + 1, !.opened = @ + 1])
  BY DEF OpenIssue
<1> DEFINE n == Len(issues) + 1
           i == [fp |-> f, by |-> RunAt(p), closed |-> "no",
                 keep_open |-> FALSE, applied |-> [r \in Run |-> 0]]
           v == [loc[p] EXCEPT !.fp = f, !.issue = n, !.opened = @ + 1]
<1>3. TakesUp(p, f, n)
  <2>1. /\ v.left = loc[p].left /\ v.open = loc[p].open /\ v.views = loc[p].views
        /\ v.deferred = loc[p].deferred /\ v.fp = f /\ v.issue = n
    BY LocType DEF Inv, TypeOK, Locals
  <2>2. loc'[p] = v
    BY <1>2, Moves
  <2> QED BY <2>1, <2>2 DEF TakesUp, KeepsLists
<1>4. issues \in Seq(Issue)
  BY DEF Inv, TypeOK, StoreTypes
<1>5. /\ Len(issues) \in Nat /\ DOMAIN issues = 1..Len(issues)
      /\ DOMAIN issues' = 1..(Len(issues) + 1)
      /\ \A m \in 1..Len(issues) : issues'[m] = issues[m]
      /\ issues'[Len(issues) + 1] = i
  BY <1>2, <1>4
<1>6. /\ i.fp = f /\ i.by = RunAt(p) /\ i.closed = "no" /\ ~ i.keep_open
      /\ \A q \in Run : i.applied[q] = 0
  OBVIOUS
<1>7. Opened(n, f, RunAt(p))
  BY <1>5, <1>6 DEF Opened
<1> QED BY <1>1, <1>2, <1>3, <1>5, <1>7

\* Issue `n` gets a comment with the marker of run `r`.
Commented(n, r) ==
    /\ DOMAIN issues' = DOMAIN issues
    /\ \A m \in DOMAIN issues :
          /\ issues'[m].fp = issues[m].fp /\ issues'[m].by = issues[m].by
          /\ issues'[m].closed = issues[m].closed /\ issues'[m].keep_open = issues[m].keep_open
          /\ \A q \in Run : issues'[m].applied[q] =
                               IF m = n /\ q = r THEN issues[m].applied[q] + 1
                               ELSE issues[m].applied[q]

\* A comment changes nothing else.
LEMMA MarkEffect ==
    ASSUME Inv, NEW n, NEW r \in Run, Mark(n, r)
    PROVE  Commented(n, r)
<1>1. /\ issues \in Seq(Issue) /\ DOMAIN issues' = DOMAIN issues
      /\ issues' = [issues EXCEPT ![n] = Marked(issues[n], r)]
  BY DEF Mark, Inv, TypeOK, StoreTypes
<1>2. ASSUME NEW m \in DOMAIN issues
      PROVE  /\ issues'[m].fp = issues[m].fp /\ issues'[m].by = issues[m].by
             /\ issues'[m].closed = issues[m].closed /\ issues'[m].keep_open = issues[m].keep_open
             /\ \A q \in Run : issues'[m].applied[q] =
                               IF m = n /\ q = r THEN issues[m].applied[q] + 1
                               ELSE issues[m].applied[q]
  <2>0. issues[m] \in Issue
    BY <1>1, ElementOfSeq, LenProperties
  <2>1. issues[m] \in Issue /\ issues[m].applied \in [Run -> Nat]
    BY <2>0 DEF Issue
  <2>2. CASE m # n
    BY <1>1, <2>2
  <2>3. CASE m = n
    <3>1. issues'[m] = Marked(issues[m], r)
      BY <1>1, <2>3
    <3> DEFINE i == Marked(issues[m], r)
    <3>2. /\ i.fp = issues[m].fp /\ i.by = issues[m].by /\ i.closed = issues[m].closed
          /\ i.keep_open = issues[m].keep_open
          /\ i.applied = [issues[m].applied EXCEPT ![r] = @ + 1]
      BY <2>1 DEF Marked, Issue
    <3> HIDE DEF i
    <3>3. \A q \in Run : i.applied[q] = IF q = r THEN issues[m].applied[q] + 1
                                        ELSE issues[m].applied[q]
      BY <2>1, <3>2
    <3> QED BY <2>3, <3>1, <3>2, <3>3 DEF i
  <2> QED BY <2>2, <2>3
<1> QED BY <1>1, <1>2 DEF Commented

\* The issue `n` is closed, unless it is already.
ClosedAs(n, how) ==
    /\ DOMAIN issues' = DOMAIN issues
    /\ \A m \in DOMAIN issues :
          /\ issues'[m].fp = issues[m].fp /\ issues'[m].by = issues[m].by
          /\ issues'[m].applied = issues[m].applied /\ issues'[m].keep_open = issues[m].keep_open
          /\ issues'[m].closed = IF m = n /\ issues[m].closed = "no" THEN how
                                 ELSE issues[m].closed

\* Neither does a close.
LEMMA CloseEffect ==
    ASSUME Inv, NEW n, NEW how, Close(n, how)
    PROVE  ClosedAs(n, how)
<1>1. /\ issues \in Seq(Issue) /\ DOMAIN issues' = DOMAIN issues
      /\ issues' = [issues EXCEPT ![n] = Closed(issues[n], how)]
  BY DEF Close, Inv, TypeOK, StoreTypes
<1>2. ASSUME NEW m \in DOMAIN issues
      PROVE  /\ issues'[m].fp = issues[m].fp /\ issues'[m].by = issues[m].by
             /\ issues'[m].applied = issues[m].applied
             /\ issues'[m].keep_open = issues[m].keep_open
             /\ issues'[m].closed = IF m = n /\ issues[m].closed = "no" THEN how
                                    ELSE issues[m].closed
  <2>1. issues[m] \in Issue
    BY <1>1, ElementOfSeq, LenProperties
  <2>2. CASE m # n
    BY <1>1, <2>2
  <2>3. CASE m = n
    <3>1. issues'[m] = Closed(issues[m], how)
      BY <1>1, <2>3
    <3> QED BY <2>1, <2>3, <3>1 DEF Closed, Issue
  <2> QED BY <2>2, <2>3
<1> QED BY <1>1, <1>2 DEF ClosedAs

\* The pass looks whether its run is on the issue already, and comments if not.
LEMMA ScanEffect ==
    ASSUME Inv, NEW p \in Pass, ScanComments(p)
    PROVE  /\ pc[p] = "scan" /\ Calm /\ UNCHANGED tracker
           /\ \/ issues[loc[p].issue].applied[RunAt(p)] > 0 /\ DoneWith(p, loc[p].fp)
              \/ /\ ~ (issues[loc[p].issue].applied[RunAt(p)] > 0)
                 /\ pc'[p] = "comment" /\ loc'[p] = loc[p]
<1>1. pc[p] = "scan" /\ Calm /\ UNCHANGED tracker
  BY DEF ScanComments, Calm, history
<1> QED BY <1>1, HandledEffect, Moves DEF ScanComments

\* The recurrence comment.
LEMMA CommentEffect ==
    ASSUME Inv, NEW p \in Pass, Comment(p)
    PROVE  /\ pc[p] = "comment" /\ Calm /\ evidence' = evidence
           /\ Commented(loc[p].issue, RunAt(p)) /\ DoneWith(p, loc[p].fp)
<1>1. pc[p] = "comment" /\ Calm /\ evidence' = evidence
  BY DEF Comment, Calm, history
<1>2. RunAt(p) \in Run
  BY <1>1, HandFacts
<1> QED BY <1>1, <1>2, HandledEffect, MarkEffect DEF Comment

\* With one pass nothing but the created issue is found after a create.
LEMMA RelistEffect ==
    ASSUME Inv, NEW p \in Pass, Relist(p), loc[p].issue \in Nat,
           OpenIssues(loc[p].fp) \subseteq {loc[p].issue}
    PROVE  pc[p] = "relist" /\ Calm /\ UNCHANGED tracker /\ DoneWith(p, loc[p].fp)
<1>1. pc[p] = "relist" /\ Calm /\ UNCHANGED tracker
  BY DEF Relist, Calm, history
<1> DEFINE created == loc[p].issue
           listed == OpenIssues(loc[p].fp)
           kept == Lowest(IF listed = {} THEN {created} ELSE listed)
           extra == IF kept = created THEN listed \ {kept}
                    ELSE (listed \cap {created}) \ {kept}
<1>2. (IF listed = {} THEN {created} ELSE listed) = {created}
  OBVIOUS
<1>3. kept = created
  <2>1. Lowest({created}) \in {created}
    BY LowestIsMin
  <2> QED BY <1>2, <2>1
<1>4. extra = {}
  BY <1>3
<1>5. Handled(p, loc[p].fp)
  <2>1. IF extra # {}
        THEN /\ Enter(p, "close_extra")
             /\ Remember(p, [loc[p] EXCEPT !.issue = kept, !.extras = extra])
        ELSE IF kept = created \/ CreatedBy(kept, RunAt(p))
        THEN Handled(p, loc[p].fp)
        ELSE /\ Enter(p, "scan")
             /\ Remember(p, [loc[p] EXCEPT !.issue = kept])
    BY DEF Relist
  <2> HIDE DEF extra, kept
  <2> QED BY <1>3, <1>4, <2>1
<1> QED BY <1>1, <1>5, HandledEffect

\* The listing is of the open issues, and the drifts of the record are to do.
LEMMA ListEffect ==
    ASSUME Inv, NEW p \in Pass, ListIssues(p)
    PROVE  /\ pc[p] = "list" /\ pc'[p] = "confirm" /\ Calm /\ UNCHANGED tracker
           /\ loc'[p].open = [f \in Fingerprint |-> LowestOrZero(OpenIssues(f))]
           /\ loc'[p].left = Body[cur[p]].confirmed
           /\ loc'[p].views = loc[p].views
<1>1. pc[p] = "list" /\ pc'[p] = "confirm" /\ Calm /\ UNCHANGED tracker
  BY Moves DEF ListIssues, Calm, history
<1> DEFINE o == [f \in Fingerprint |-> LowestOrZero(OpenIssues(f))]
           v == [loc[p] EXCEPT !.open = o, !.left = Body[cur[p]].confirmed]
<1>2. loc'[p] = v
  BY Moves DEF ListIssues
<1>3. v.open = o /\ v.left = Body[cur[p]].confirmed /\ v.views = loc[p].views
  <2> HIDE DEF o
  <2> QED BY LocType DEF Inv, TypeOK, Locals
<1> QED BY <1>1, <1>2, <1>3

\* When a view is missing nothing is closed; otherwise the rest of the listing follows.
LEMMA ConfirmDoneEffect ==
    ASSUME Inv, NEW p \in Pass, ConfirmDone(p)
    PROVE  /\ pc[p] = "confirm" /\ Calm /\ UNCHANGED tracker /\ loc[p].left = {}
           /\ \/ loc[p].views = None /\ pc'[p] = "evidence" /\ loc'[p] = loc[p]
              \/ /\ loc[p].views # None /\ pc'[p] = "resolve"
                 /\ loc'[p].left = {f \in Fingerprint : loc[p].open[f] # 0} \ Body[cur[p]].confirmed
                 /\ loc'[p].deferred = loc[p].deferred /\ KeepsLists(p)
<1>1. pc[p] = "confirm" /\ Calm /\ UNCHANGED tracker /\ loc[p].left = {}
  BY DEF ConfirmDone, Calm, history
<1>2. CASE loc[p].views = None
  BY <1>1, <1>2, Moves DEF ConfirmDone
<1>3. CASE loc[p].views # None
  <2> DEFINE rest == {f \in Fingerprint : loc[p].open[f] # 0} \ Body[cur[p]].confirmed
             v == [loc[p] EXCEPT !.left = rest]
  <2>1. loc'[p] = v /\ pc'[p] = "resolve"
    BY <1>3, Moves DEF ConfirmDone
  <2>2. /\ v.left = rest /\ v.open = loc[p].open /\ v.views = loc[p].views
        /\ v.deferred = loc[p].deferred
    <3> HIDE DEF rest
    <3> QED BY LocType DEF Inv, TypeOK, Locals
  <2> QED BY <1>1, <1>3, <2>1, <2>2 DEF KeepsLists
<1> QED BY <1>2, <1>3

\* An open issue is taken up to be resolved, or left alone.
LEMMA StartEffect ==
    ASSUME Inv, NEW p \in Pass, StartResolve(p)
    PROVE  /\ pc[p] = "resolve" /\ Calm /\ UNCHANGED tracker
           /\ \E f \in loc[p].left :
                 \/ Resolvable(p, f) /\ pc'[p] = "fresh" /\ TakesUp(p, f, loc[p].open[f])
                 \/ ~ Resolvable(p, f) /\ SettledWith(p, f)
<1>1. pc[p] = "resolve" /\ Calm /\ UNCHANGED tracker
  BY DEF StartResolve, Calm, history
<1>2. PICK f \in loc[p].left :
        IF Resolvable(p, f)
        THEN /\ Enter(p, "fresh")
             /\ Remember(p, [loc[p] EXCEPT !.fp = f, !.issue = loc[p].open[f]])
        ELSE Settled(p, f)
  BY DEF StartResolve
<1> QED BY <1>1, <1>2, SettledEffect, TakeEffect, Moves

\* The issue is read again before anything is said on it.
LEMMA GetEffect ==
    ASSUME Inv, NEW p \in Pass, GetIssue(p)
    PROVE  /\ pc[p] = "fresh" /\ Calm /\ UNCHANGED tracker
           /\ \/ /\ issues[loc[p].issue].closed # "no" \/ issues[loc[p].issue].keep_open
                 /\ SettledWith(p, loc[p].fp)
              \/ pc'[p] = "resolution_scan" /\ loc'[p] = loc[p]
<1>1. pc[p] = "fresh" /\ Calm /\ UNCHANGED tracker
  BY DEF GetIssue, Calm, history
<1> QED BY <1>1, SettledEffect, Moves DEF GetIssue

\* The pass looks whether the resolution is announced already.
LEMMA ScanResolutionEffect ==
    ASSUME Inv, NEW p \in Pass, ScanResolution(p)
    PROVE  /\ pc[p] = "resolution_scan" /\ Calm /\ UNCHANGED tracker /\ loc'[p] = loc[p]
           /\ \/ pc'[p] = "close"
              \/ /\ pc'[p] = "resolution"
                 /\ ~ (issues[loc[p].issue].applied[RunAt(p)] > 0)
<1>1. pc[p] = "resolution_scan" /\ Calm /\ UNCHANGED tracker /\ loc'[p] = loc[p]
  BY DEF ScanResolution, Calm, history
<1> QED BY <1>1, Moves DEF ScanResolution

\* The resolution comment.
LEMMA ResolutionEffect ==
    ASSUME Inv, NEW p \in Pass, CommentResolution(p)
    PROVE  /\ pc[p] = "resolution" /\ Calm /\ evidence' = evidence
           /\ Commented(loc[p].issue, RunAt(p))
           /\ pc'[p] = "close" /\ loc'[p] = loc[p]
<1>1. pc[p] = "resolution" /\ Calm /\ evidence' = evidence /\ loc'[p] = loc[p]
  BY DEF CommentResolution, Calm, history
<1>2. RunAt(p) \in Run
  BY <1>1, HandFacts
<1> QED BY <1>1, <1>2, MarkEffect, Moves DEF CommentResolution

\* The close that follows it.
LEMMA CloseIssueEffect ==
    ASSUME Inv, NEW p \in Pass, CloseIssue(p)
    PROVE  /\ pc[p] = "close" /\ Calm /\ evidence' = evidence
           /\ ClosedAs(loc[p].issue, "resolved") /\ SettledWith(p, loc[p].fp)
<1>1. pc[p] = "close" /\ Calm /\ evidence' = evidence
  BY DEF CloseIssue, Calm, history
<1> QED BY <1>1, SettledEffect, CloseEffect DEF CloseIssue

\* Every open issue of the listing is dealt with.
LEMMA ResolveDoneEffect ==
    ASSUME Inv, NEW p \in Pass, ResolveDone(p)
    PROVE  /\ pc[p] = "resolve" /\ pc'[p] = "evidence" /\ Calm /\ UNCHANGED tracker
           /\ loc'[p] = loc[p] /\ loc[p].left = {}
<1>1. pc[p] = "resolve" /\ Calm /\ UNCHANGED tracker /\ loc'[p] = loc[p] /\ loc[p].left = {}
  BY DEF ResolveDone, Calm, history
<1> QED BY <1>1, Moves DEF ResolveDone

\* The views are those of the latest records; other records leave the issues alone.
LEMMA ViewsEffect ==
    ASSUME Inv, NEW p \in Pass, LaneViews(p)
    PROVE  /\ pc[p] = "views" /\ Calm /\ UNCHANGED tracker
           /\ \/ /\ Superseded(RunAt(p)) \/ Body[cur[p]].state # "compared"
                 /\ pc'[p] = "evidence" /\ loc'[p] = loc[p]
              \/ /\ ~ Superseded(RunAt(p)) /\ Body[cur[p]].state = "compared"
                 /\ pc'[p] = "list" /\ loc'[p].views = ViewsFor(RunAt(p))
<1>1. pc[p] = "views" /\ Calm /\ UNCHANGED tracker
  BY DEF LaneViews, Calm, history
<1>2. CASE Superseded(RunAt(p)) \/ Body[cur[p]].state # "compared"
  BY <1>1, <1>2, Moves DEF LaneViews
<1>3. CASE ~ (Superseded(RunAt(p)) \/ Body[cur[p]].state # "compared")
  <2> DEFINE w == ViewsFor(RunAt(p))
             v == [loc[p] EXCEPT !.views = w]
  <2>1. loc'[p] = v /\ pc'[p] = "list"
    BY <1>3, Moves DEF LaneViews
  <2>2. v.views = w
    <3> HIDE DEF w
    <3> QED BY LocType DEF Inv, TypeOK, Locals
  <2> QED BY <1>1, <1>3, <2>1, <2>2
<1> QED BY <1>2, <1>3

\* The evidence comment is posted once its marker is not found, then the receipt
\* is due.
LEMMA EvidenceEffect ==
    ASSUME Inv, NEW p \in Pass, FindEvidence(p) \/ Announce(p)
    PROVE  /\ Calm /\ issues' = issues /\ loc'[p] = loc[p]
           /\ \/ pc[p] = "evidence" /\ evidence' = evidence /\ pc'[p] = "write_receipt"
              \/ /\ pc[p] = "evidence" /\ evidence' = evidence /\ pc'[p] = "announce"
                 /\ ~ (evidence[RunAt(p)] > 0)
              \/ /\ pc[p] = "announce" /\ pc'[p] = "write_receipt"
                 /\ evidence' = [evidence EXCEPT ![RunAt(p)] = @ + 1]
<1>1. CASE FindEvidence(p)
  BY <1>1, Moves DEF FindEvidence, Calm, history, tracker
<1>2. CASE Announce(p)
  BY <1>2, Moves DEF Announce, Calm, history
<1> QED BY <1>1, <1>2

\* The receipt, with what the report defers.
LEMMA ReceiptEffect ==
    ASSUME Inv, NEW p \in Pass, WriteReceipt(p), receipts[RunAt(p)] = None
    PROVE  /\ pc[p] = "write_receipt" /\ pc'[p] = "pick"
           /\ UNCHANGED <<records, issues, evidence>>
           /\ receipts' = [receipts EXCEPT ![RunAt(p)] = cur[p]]
           /\ deferred' = [deferred EXCEPT ![RunAt(p)] = loc[p].deferred]
BY Moves DEF WriteReceipt, tracker

\* The steps that leave a candidate, or lead to its gates.
LEMMA AwayEffect ==
    ASSUME Inv, NEW p \in Pass,
           \/ StartSweep(p) \/ Dispatch(p) \/ NextCandidate(p) \/ EndSweep(p)
           \/ ReadRecord(p) \/ ReceiptFound(p) \/ DeleteStagingRef(p)
           \/ Refuse(p) \/ PersistExists(p) \/ FailRun(p) \/ Abort(p)
    PROVE  /\ pc'[p] \in {"idle", "pick", "record", "receipt", "delete"}
           /\ UNCHANGED <<records, receipts, deferred, issues, evidence>>
<1>1. UNCHANGED <<records, receipts, deferred, issues, evidence>>
  BY DEF StartSweep, Dispatch, NextCandidate, EndSweep, ReadRecord, ReceiptFound,
         DeleteStagingRef, Refuse, PersistExists, FailRun, Abort, history, tracker
<1>2. pc'[p] \in {"idle", "pick", "record", "receipt", "delete"}
  BY Moves DEF StartSweep, Dispatch, NextCandidate, EndSweep, ReadRecord, ReceiptFound,
         DeleteStagingRef, Refuse, PersistExists, FailRun, Abort
<1> QED BY <1>1, <1>2

\* The gates: past them a candidate has no receipt.
LEMMA GatesEffect ==
    ASSUME Inv, NEW p \in Pass, ReceiptMissing(p) \/ Validate(p)
    PROVE  /\ UNCHANGED <<records, receipts, deferred, issues, evidence, cur>>
           /\ \/ /\ pc'[p] = "validate"
                 /\ ~ (receipts[RunAt(p)] # None /\ Body[cur[p]].intact)
              \/ /\ pc[p] = "validate" /\ pc'[p] \in {"persist", "views"}
                 /\ Body[cur[p]].intact
<1>1. CASE ReceiptMissing(p)
  BY <1>1, Moves DEF ReceiptMissing, history, tracker
<1>2. CASE Validate(p)
  <2>1. UNCHANGED <<records, receipts, deferred, issues, evidence, cur>> /\ pc[p] = "validate"
    BY <1>2 DEF Validate, history, tracker
  <2>2. Body[cur[p]].intact
    BY <1>2 DEF Validate, Gates
  <2>3. pc'[p] \in {"persist", "views"}
    BY <1>2, Moves DEF Validate
  <2> QED BY <2>1, <2>2, <2>3
<1> QED BY <1>1, <1>2

\* The commit of the record.
LEMMA PersistEffect ==
    ASSUME Inv, NEW p \in Pass, Persist(p)
    PROVE  /\ pc[p] = "persist" /\ pc'[p] = "views"
           /\ records[RunAt(p)] = None
           /\ records' = [records EXCEPT ![RunAt(p)] = cur[p]]
           /\ UNCHANGED <<receipts, deferred, issues, evidence, cur>>
<1>1. pc[p] = "persist" /\ pc'[p] = "views"
  BY Moves DEF Persist
<1> QED BY <1>1 DEF Persist, Paths, tracker

\* What the others, and maintainers above all, may do to the issues.
Tended ==
    /\ DOMAIN issues' = DOMAIN issues
    /\ \A n \in DOMAIN issues :
          /\ issues'[n].fp = issues[n].fp /\ issues'[n].by = issues[n].by
          /\ issues'[n].applied = issues[n].applied
          /\ issues[n].keep_open => issues'[n].keep_open
          /\ \/ issues'[n].closed = issues[n].closed
             \/ issues[n].closed = "no" /\ issues'[n].closed = "maintainer"

\* The others leave the passes and the published content alone.
LEMMA OthersEffect ==
    ASSUME Inv,
           \/ \E x \in Result : Seal(x)
           \/ \E r \in Run : Age(r)
           \/ \E n \in DOMAIN issues : MaintainerCloses(n) \/ KeepOpen(n)
    PROVE  UNCHANGED <<records, receipts, deferred, evidence, pc, cur, loc>> /\ Tended
<1>1. UNCHANGED <<records, receipts, deferred, evidence, pc, cur, loc>>
  BY DEF Seal, Age, MaintainerCloses, KeepOpen, history, tracker, passes
<1>2. CASE (\E x \in Result : Seal(x)) \/ (\E r \in Run : Age(r))
  <2>1. issues' = issues
    BY <1>2 DEF Seal, Age, tracker
  <2> QED BY <1>1, <2>1 DEF Tended
<1>3. ASSUME NEW n \in DOMAIN issues, MaintainerCloses(n) PROVE Tended
  <2>1. ClosedAs(n, "maintainer")
    BY <1>3, CloseEffect DEF MaintainerCloses
  <2> QED BY <2>1 DEF Tended, ClosedAs
<1>4. ASSUME NEW n \in DOMAIN issues, KeepOpen(n) PROVE Tended
  <2>1. issues \in Seq(Issue)
    BY DEF Inv, TypeOK, StoreTypes
  <2>2. issues' = [issues EXCEPT ![n] = [issues[n] EXCEPT !.keep_open = TRUE]]
    BY <1>4 DEF KeepOpen
  <2>3. ASSUME NEW m \in DOMAIN issues
        PROVE  /\ issues'[m].fp = issues[m].fp /\ issues'[m].by = issues[m].by
               /\ issues'[m].applied = issues[m].applied
               /\ issues[m].keep_open => issues'[m].keep_open
               /\ issues'[m].closed = issues[m].closed
    <3>1. issues[m] \in Issue
      BY <2>1, ElementOfSeq, LenProperties
    <3> QED BY <2>2, <3>1 DEF Issue
  <2> QED BY <2>2, <2>3 DEF Tended
<1> QED BY <1>1, <1>2, <1>3, <1>4

\* The steps that decide about issues and write them.
ActingStep(p) ==
    \/ ListIssues(p) \/ TouchOpen(p) \/ Defer(p) \/ OpenIssue(p) \/ Relist(p) \/ CloseExtra(p)
    \/ ScanComments(p) \/ Comment(p) \/ ConfirmDone(p) \/ StartResolve(p) \/ GetIssue(p)
    \/ ScanResolution(p) \/ CommentResolution(p) \/ CloseIssue(p) \/ ResolveDone(p)

\* They are taken between the listing and the evidence.
LEMMA ActingEffect ==
    ASSUME Inv, NEW p \in Pass, ActingStep(p)
    PROVE  /\ Calm /\ evidence' = evidence
           /\ pc[p] \in Acting /\ pc'[p] \in Acting \cup {"evidence"}
<1> USE DEF Acting, Confirming, Resolving
<1>1. Calm /\ evidence' = evidence
  BY DEF ActingStep, ListIssues, TouchOpen, Defer, OpenIssue, Relist, CloseExtra, ScanComments,
         Comment, ConfirmDone, StartResolve, GetIssue, ScanResolution, CommentResolution,
         CloseIssue, ResolveDone, Calm, history, tracker
<1>2. pc[p] \in Acting
  BY DEF ActingStep, ListIssues, TouchOpen, Defer, OpenIssue, Relist, CloseExtra, ScanComments,
         Comment, ConfirmDone, StartResolve, GetIssue, ScanResolution, CommentResolution,
         CloseIssue, ResolveDone
<1>3. ASSUME NEW f, Handled(p, f) \/ Settled(p, f) PROVE pc'[p] \in Acting
  BY <1>3, Moves DEF Handled, Settled
<1>4. \A label : Enter(p, label) => pc'[p] = label
  BY Moves
<1> SUFFICES pc'[p] \in Acting \cup {"evidence"}
  BY <1>1, <1>2
<1>5. CASE ListIssues(p)
  BY <1>2, <1>3, <1>4, <1>5 DEF ListIssues
<1>6. CASE TouchOpen(p)
  BY <1>2, <1>3, <1>4, <1>6 DEF TouchOpen
<1>7. CASE Defer(p)
  BY <1>2, <1>3, <1>4, <1>7 DEF Defer
<1>8. CASE OpenIssue(p)
  BY <1>2, <1>3, <1>4, <1>8 DEF OpenIssue
<1>9. CASE Relist(p)
  BY <1>2, <1>3, <1>4, <1>9 DEF Relist
<1>10. CASE CloseExtra(p)
  BY <1>2, <1>3, <1>4, <1>10 DEF CloseExtra
<1>11. CASE ScanComments(p)
  BY <1>2, <1>3, <1>4, <1>11 DEF ScanComments
<1>12. CASE Comment(p)
  BY <1>2, <1>3, <1>4, <1>12 DEF Comment
<1>13. CASE ConfirmDone(p)
  BY <1>2, <1>3, <1>4, <1>13 DEF ConfirmDone
<1>14. CASE StartResolve(p)
  BY <1>2, <1>3, <1>4, <1>14 DEF StartResolve
<1>15. CASE GetIssue(p)
  BY <1>2, <1>3, <1>4, <1>15 DEF GetIssue
<1>16. CASE ScanResolution(p)
  BY <1>2, <1>3, <1>4, <1>16 DEF ScanResolution
<1>17. CASE CommentResolution(p)
  BY <1>2, <1>3, <1>4, <1>17 DEF CommentResolution
<1>18. CASE CloseIssue(p)
  BY <1>2, <1>3, <1>4, <1>18 DEF CloseIssue
<1>19. CASE ResolveDone(p)
  BY <1>2, <1>3, <1>4, <1>19 DEF ResolveDone
<1> QED BY <1>1, <1>2, <1>5, <1>6, <1>7, <1>8, <1>9, <1>10, <1>11, <1>12, <1>13, <1>14, <1>15, <1>16, <1>17, <1>18, <1>19 DEF ActingStep

\* What the decisions rest on does not change while the published content does not.
LEMMA CalmViews ==
    ASSUME UNCHANGED <<records, receipts>>
    PROVE  /\ \A l : /\ Latest(l)' = Latest(l) /\ Published(l)' = Published(l)
                     /\ Loadable(l)' = Loadable(l)
           /\ \A l, f : /\ LatestCovers(l, f)' = LatestCovers(l, f)
                        /\ LatestConfirms(l, f)' = LatestConfirms(l, f)
           /\ \A l, s : LatestIs(l, s)' = LatestIs(l, s)
           /\ \A r : Superseded(r)' = Superseded(r) /\ ViewsFor(r)' = ViewsFor(r)
<1>1. \A l : Latest(l)' = Latest(l) /\ Published(l)' = Published(l)
  BY DEF Latest, Published
<1>2. \A l : Loadable(l)' = Loadable(l)
  BY <1>1 DEF Loadable
<1>3. \A l, f : LatestCovers(l, f)' = LatestCovers(l, f)
  BY <1>1 DEF LatestCovers
<1> QED BY <1>1, <1>2, <1>3 DEF LatestConfirms, LatestIs, Superseded, ViewsFor

-----------------------------------------------------------------------------
(* Runs without a receipt: evidence, and records that are not superseded. *)

\* Past the gates a pass works for a run that has no receipt, announces it only
\* when it has no evidence, and decides about issues only for a compared record
\* that is not superseded.
FreshRun(p) ==
    /\ pc[p] = "validate" /\ Body[cur[p]].intact => receipts[RunAt(p)] = None
    /\ pc[p] \in Working => receipts[RunAt(p)] = None
    /\ pc[p] = "announce" => evidence[RunAt(p)] = 0
    /\ pc[p] \in Acting => ~ Superseded(RunAt(p)) /\ Body[cur[p]].state = "compared"

RunsInv ==
    /\ EvidenceOncePerRun
    /\ \A p \in Pass : FreshRun(p)

\* Idle passes satisfy it, and each published bootstrap has its evidence once.
LEMMA RunsInit == Init => RunsInv
BY DEF Init, RunsInv, EvidenceOncePerRun, FreshRun, Working, Acting, Confirming, Resolving, Finishing

\* A step of the only pass keeps it.
LEMMA RunsPassStep ==
    ASSUME Inv, RunsInv, NEW p \in Pass, PassStep(p) \/ Dispatch(p) \/ FailRun(p) \/ Abort(p)
    PROVE  EvidenceOncePerRun' /\ FreshRun(p)'
<1>0. EvidenceOncePerRun /\ FreshRun(p) /\ evidence \in [Run -> Nat]
  BY DEF RunsInv, Inv, TypeOK, StoreTypes
<1> USE DEF Working, Finishing
<1>1. CASE /\ pc'[p] \in {"idle", "pick", "record", "receipt", "delete"}
           /\ evidence' = evidence
  BY <1>0, <1>1 DEF FreshRun, EvidenceOncePerRun, Acting, Confirming, Resolving
<1>2. CASE ReceiptMissing(p) \/ Validate(p)
  <2>1. /\ UNCHANGED <<receipts, evidence, cur>>
        /\ \/ /\ pc'[p] = "validate"
              /\ ~ (receipts[RunAt(p)] # None /\ Body[cur[p]].intact)
           \/ /\ pc[p] = "validate" /\ pc'[p] \in {"persist", "views"}
              /\ Body[cur[p]].intact
    BY <1>2, GatesEffect
  <2>2. RunAt(p)' = RunAt(p)
    BY <2>1 DEF RunAt
  <2> QED BY <1>0, <2>1, <2>2 DEF FreshRun, EvidenceOncePerRun, Acting, Confirming, Resolving
<1>3. CASE Persist(p)
  <2>1. pc[p] = "persist" /\ pc'[p] = "views" /\ UNCHANGED <<receipts, evidence, cur>>
    BY <1>3, PersistEffect
  <2>2. RunAt(p)' = RunAt(p)
    BY <2>1 DEF RunAt
  <2> QED BY <1>0, <2>1, <2>2 DEF FreshRun, EvidenceOncePerRun, Acting, Confirming, Resolving
<1>4. CASE LaneViews(p)
  <2>1. /\ pc[p] = "views" /\ Calm /\ evidence' = evidence
        /\ \/ pc'[p] = "evidence"
           \/ /\ pc'[p] = "list" /\ ~ Superseded(RunAt(p)) /\ Body[cur[p]].state = "compared"
    BY <1>4, ViewsEffect DEF tracker
  <2>2. RunAt(p)' = RunAt(p) /\ Superseded(RunAt(p))' = Superseded(RunAt(p))
    BY <2>1, CalmViews DEF RunAt, Calm
  <2> QED BY <1>0, <2>1, <2>2 DEF FreshRun, EvidenceOncePerRun, Acting, Confirming, Resolving, Calm
<1>5. CASE ActingStep(p)
  <2>1. /\ Calm /\ evidence' = evidence
        /\ pc[p] \in Acting /\ pc'[p] \in Acting \cup {"evidence"}
    BY <1>5, ActingEffect
  <2>2. RunAt(p)' = RunAt(p) /\ Superseded(RunAt(p))' = Superseded(RunAt(p))
    BY <2>1, CalmViews DEF RunAt, Calm
  <2>3. {"validate", "announce"} \cap (Acting \cup {"evidence"}) = {}
    BY DEF Acting, Confirming, Resolving
  <2> QED BY <1>0, <2>1, <2>2, <2>3 DEF FreshRun, EvidenceOncePerRun, Calm
<1>6. CASE FindEvidence(p) \/ Announce(p)
  <2>1. /\ Calm /\ pc[p] \in {"evidence", "announce"} /\ pc'[p] \in {"announce", "write_receipt"}
        /\ RunAt(p) \in Run
    BY <1>6, EvidenceEffect, HandFacts
  <2>2. RunAt(p)' = RunAt(p)
    BY <2>1 DEF RunAt, Calm
  <2>3. \A r \in Run : evidence'[r] <= 1
    <3>1. CASE evidence' = evidence
      BY <1>0, <3>1 DEF EvidenceOncePerRun
    <3>2. CASE evidence' # evidence
      <4>1. evidence[RunAt(p)] = 0 /\ evidence' = [evidence EXCEPT ![RunAt(p)] = @ + 1]
        BY <1>0, <1>6, <3>2, EvidenceEffect DEF FreshRun
      <4> QED BY <1>0, <2>1, <4>1 DEF EvidenceOncePerRun
    <3> QED BY <3>1, <3>2
  <2>4. pc'[p] = "announce" => evidence'[RunAt(p)] = 0
    <3>1. pc'[p] = "announce" => ~ (evidence[RunAt(p)] > 0) /\ evidence' = evidence
      BY <1>6, EvidenceEffect
    <3>2. evidence[RunAt(p)] \in Nat
      BY <1>0, <2>1
    <3> QED BY <3>1, <3>2
  <2> QED BY <1>0, <2>1, <2>2, <2>3, <2>4
       DEF FreshRun, EvidenceOncePerRun, Acting, Confirming, Resolving, Calm
<1>7. CASE WriteReceipt(p)
  <2>1. pc'[p] = "pick" /\ evidence' = evidence
    BY <1>7, Moves DEF WriteReceipt, tracker
  <2> QED BY <1>1, <2>1
<1>8. CASE \/ StartSweep(p) \/ Dispatch(p) \/ NextCandidate(p) \/ EndSweep(p)
           \/ ReadRecord(p) \/ ReceiptFound(p) \/ DeleteStagingRef(p)
           \/ Refuse(p) \/ PersistExists(p) \/ FailRun(p) \/ Abort(p)
  BY <1>1, <1>8, AwayEffect
<1> QED BY <1>2, <1>3, <1>4, <1>5, <1>6, <1>7, <1>8 DEF PassStep, ActingStep

\* Every step keeps it, when there is one pass.
LEMMA RunsStep == OnePass /\ Inv /\ RunsInv /\ [Next]_vars => RunsInv'
<1> SUFFICES ASSUME OnePass, Inv, RunsInv, [Next]_vars PROVE RunsInv'
  OBVIOUS
<1>1. ASSUME NEW p \in Pass, PassStep(p) \/ Dispatch(p) \/ FailRun(p) \/ Abort(p)
      PROVE  RunsInv'
  <2>1. \A q \in Pass : q = p
    BY DEF OnePass
  <2>2. EvidenceOncePerRun' /\ FreshRun(p)'
    BY <1>1, RunsPassStep
  <2> QED BY <2>1, <2>2 DEF RunsInv
<1>2. CASE UNCHANGED <<records, receipts, evidence, pc, cur>>
  BY <1>2, CalmViews DEF RunsInv, EvidenceOncePerRun, FreshRun, RunAt
<1>3. CASE vars' = vars
  BY <1>2, <1>3 DEF vars, history, tracker
<1> QED BY <1>1, <1>2, <1>3, OthersEffect DEF Next

\* A run that is retried never posts its evidence comment again.
THEOREM EvidenceOncePerRunHolds ==
    ASSUME OnePass PROVE Spec => []EvidenceOncePerRun
<1>1. RunsInv => EvidenceOncePerRun
  BY DEF RunsInv
<1>2. Inv /\ RunsInv /\ [Next]_vars => RunsInv'
  BY RunsStep
<1> QED BY <1>1, <1>2, InvInit, InvStep, RunsInit, PTL DEF Spec

\* A pass that has found its record superseded writes to no issue.
LEMMA SilentStep ==
    ASSUME Inv, RunsInv, [Next]_vars
    PROVE  /\ \A n \in DOMAIN issues : \A r \in Run :
                 issues'[n].applied[r] # issues[n].applied[r] => ~ Superseded(r)
           /\ \A n \in DOMAIN issues' \ DOMAIN issues : ~ Superseded(issues'[n].by)
<1>1. ASSUME NEW p \in Pass, OpenIssue(p) \/ Comment(p) \/ CommentResolution(p)
      PROVE  ~ Superseded(RunAt(p))
  <2>1. pc[p] \in Acting
    BY <1>1, ActingEffect DEF ActingStep
  <2> QED BY <2>1 DEF RunsInv, FreshRun
<1>2. ASSUME NEW p \in Pass, OpenIssue(p)
      PROVE  \E n, f : Opened(n, f, RunAt(p))
  BY <1>2, OpenEffect
<1>3. ASSUME NEW p \in Pass, Comment(p) \/ CommentResolution(p)
      PROVE  Commented(loc[p].issue, RunAt(p))
  BY <1>3, CommentEffect, ResolutionEffect
<1>4. ASSUME NEW p \in Pass, CloseExtra(p) \/ CloseIssue(p)
      PROVE  \E n, how : ClosedAs(n, how)
  BY <1>4, CloseEffect DEF CloseExtra, CloseIssue
<1>5. ASSUME NEW p \in Pass, PassStep(p) \/ Dispatch(p) \/ FailRun(p) \/ Abort(p)
      PROVE  \/ OpenIssue(p) \/ Comment(p) \/ CommentResolution(p) \/ CloseExtra(p) \/ CloseIssue(p)
             \/ issues' = issues
  BY <1>5 DEF PassStep, StartSweep, Dispatch, NextCandidate, EndSweep, ReadRecord, ReceiptFound,
     ReceiptMissing, DeleteStagingRef, Validate, Refuse, Persist, PersistExists, LaneViews,
     ListIssues, TouchOpen, Defer, Relist, ScanComments, ConfirmDone, StartResolve, GetIssue,
     ScanResolution, ResolveDone, FindEvidence, Announce, WriteReceipt, FailRun, Abort, tracker
<1>6. ASSUME NEW p \in Pass, PassStep(p) \/ Dispatch(p) \/ FailRun(p) \/ Abort(p)
      PROVE  /\ \A n \in DOMAIN issues : \A r \in Run :
                   issues'[n].applied[r] # issues[n].applied[r] => ~ Superseded(r)
             /\ \A n \in DOMAIN issues' \ DOMAIN issues : ~ Superseded(issues'[n].by)
  <2>1. CASE OpenIssue(p)
    BY <1>1, <1>2, <2>1 DEF Opened
  <2>2. CASE Comment(p) \/ CommentResolution(p)
    BY <1>1, <1>3, <2>2 DEF Commented
  <2>3. CASE CloseExtra(p) \/ CloseIssue(p)
    BY <1>4, <2>3 DEF ClosedAs
  <2> QED BY <1>5, <1>6, <2>1, <2>2, <2>3
<1>7. CASE Tended
  BY <1>7 DEF Tended
<1>8. CASE vars' = vars
  BY <1>8 DEF vars, tracker
<1> QED BY <1>6, <1>7, <1>8, OthersEffect DEF Next

\* A superseded record opens no issue and comments on none.
THEOREM SupersededIsSilentHolds ==
    ASSUME OnePass PROVE Spec => SupersededIsSilent
<1> DEFINE Silent == /\ \A n \in DOMAIN issues : \A r \in Run :
                           issues'[n].applied[r] # issues[n].applied[r] => ~ Superseded(r)
                     /\ \A n \in DOMAIN issues' \ DOMAIN issues : ~ Superseded(issues'[n].by)
<1>1. Inv /\ RunsInv /\ [Next]_vars => [Silent]_vars
  BY SilentStep
<1>2. Inv /\ RunsInv /\ [Next]_vars => RunsInv'
  BY RunsStep
<1>3. Spec => [][Silent]_vars
  <2> HIDE DEF Silent
  <2> QED BY <1>1, <1>2, InvInit, InvStep, RunsInit, PTL DEF Spec
<1> QED BY <1>3 DEF SupersededIsSilent

-----------------------------------------------------------------------------
(* The listing a pass works from, and the issue it has in hand. *)

\* Not closed by a pass.
Standing(n) == issues[n].closed \in {"no", "maintainer"}

\* The listing stays true while a pass works through it: an issue it shows is of
\* its fingerprint, closed by nobody but a maintainer while drifts are confirmed,
\* and a drift it shows no issue of has none. The issues to resolve are issues of
\* the listing that the record does not confirm.
Listed(p) ==
    /\ pc[p] \in Confirming \cup Resolving =>
          \A f \in Fingerprint : loc[p].open[f] # 0 =>
              loc[p].open[f] \in DOMAIN issues /\ issues[loc[p].open[f]].fp = f
    /\ pc[p] \in Confirming =>
          \A f \in Fingerprint :
              /\ loc[p].open[f] # 0 => Standing(loc[p].open[f])
              /\ f \in loc[p].left /\ loc[p].open[f] = 0
                 /\ ~ (pc[p] = "relist" /\ f = loc[p].fp) => OpenIssues(f) = {}
    /\ pc[p] \in Resolving =>
          \A f \in loc[p].left : loc[p].open[f] # 0 /\ f \notin Body[cur[p]].confirmed

Holding == {"scan", "comment", "fresh", "resolution_scan", "resolution", "close"}

\* The issue in hand is the listing's, or the one this run has just created, which is
\* then its fingerprint's only open one. A comment is due where the run is not yet.
InTouch(p) ==
    /\ pc[p] # "close_extra"
    /\ pc[p] \in Holding =>
          loc[p].fp \in loc[p].left /\ loc[p].issue = loc[p].open[loc[p].fp] /\ loc[p].issue # 0
    /\ pc[p] \in {"scan", "comment"} => issues[loc[p].issue].by # RunAt(p)
    /\ pc[p] \in {"comment", "resolution"} => issues[loc[p].issue].applied[RunAt(p)] = 0
    /\ pc[p] = "relist" =>
          /\ loc[p].fp \in loc[p].left /\ loc[p].open[loc[p].fp] = 0
          /\ loc[p].issue \in DOMAIN issues /\ issues[loc[p].issue].fp = loc[p].fp
          /\ issues[loc[p].issue].by = RunAt(p) /\ Standing(loc[p].issue)
          /\ OpenIssues(loc[p].fp) \subseteq {loc[p].issue}

IssuesInv ==
    /\ OneOpenIssue
    /\ AppliedOnce
    /\ \A p \in Pass : Listed(p) /\ InTouch(p)

\* There are no issues at the start.
LEMMA IssuesInit == Init => IssuesInv
BY DEF Init, IssuesInv, OneOpenIssue, AppliedOnce, OpenIssues, Listed, InTouch, Confirming,
       Resolving, Holding

\* Maintainers leave the issues apart, and take none from the passes but by closing it.
LEMMA TendedIssues ==
    ASSUME Inv, IssuesInv, Tended
    PROVE  /\ OneOpenIssue' /\ AppliedOnce'
           /\ \A f : OpenIssues(f)' \subseteq OpenIssues(f)
           /\ \A n \in DOMAIN issues : Standing(n) => Standing(n)'
<1>1. \A f : OpenIssues(f)' \subseteq OpenIssues(f)
  BY DEF Tended, OpenIssues
<1>2. OneOpenIssue'
  BY <1>1 DEF IssuesInv, OneOpenIssue
<1>3. AppliedOnce'
  BY DEF IssuesInv, AppliedOnce, Tended
<1>4. \A n \in DOMAIN issues : Standing(n) => Standing(n)'
  BY DEF Tended, Standing
<1> QED BY <1>1, <1>2, <1>3, <1>4

\* The steps of the others keep it.
LEMMA IssuesOtherStep ==
    ASSUME Inv, IssuesInv, Tended, UNCHANGED <<pc, cur, loc>>
    PROVE  IssuesInv'
<1>1. /\ OneOpenIssue' /\ AppliedOnce'
      /\ \A f : OpenIssues(f)' \subseteq OpenIssues(f)
      /\ \A n \in DOMAIN issues : Standing(n) => Standing(n)'
  BY TendedIssues
<1>2. ASSUME NEW p \in Pass PROVE Listed(p)' /\ InTouch(p)'
  <2>1. Listed(p) /\ InTouch(p)
    BY DEF IssuesInv
  <2>2. /\ loc[p].left \subseteq Fingerprint /\ RunAt(p)' = RunAt(p)
    BY LocType DEF Inv, TypeOK, RunAt
  <2>3. Listed(p)'
    BY <1>1, <2>1, <2>2 DEF Listed, Tended
  <2>4. pc[p] \in Holding => loc[p].issue \in DOMAIN issues
    BY <2>1, <2>2 DEF Listed, InTouch, Holding, Confirming, Resolving
  <2>5. InTouch(p)'
    <3>1. pc[p] \in {"scan", "comment"} => issues'[loc[p].issue].by # RunAt(p)
      BY <2>1, <2>4 DEF InTouch, Tended, Holding
    <3>2. pc[p] \in {"comment", "resolution"} => issues'[loc[p].issue].applied[RunAt(p)] = 0
      BY <2>1, <2>4 DEF InTouch, Tended, Holding
    <3>3. pc[p] = "relist" =>
            /\ loc[p].issue \in DOMAIN issues' /\ issues'[loc[p].issue].fp = loc[p].fp
            /\ issues'[loc[p].issue].by = RunAt(p) /\ Standing(loc[p].issue)'
            /\ OpenIssues(loc[p].fp)' \subseteq {loc[p].issue}
      BY <1>1, <2>1 DEF InTouch, Tended
    <3> QED BY <2>1, <2>2, <3>1, <3>2, <3>3 DEF InTouch
  <2> QED BY <2>3, <2>5
<1> QED BY <1>1, <1>2 DEF IssuesInv

\* Comments leave what the issues are about, who opened them and whether they are open.
SameIssues ==
    /\ DOMAIN issues' = DOMAIN issues
    /\ \A n \in DOMAIN issues :
          /\ issues'[n].fp = issues[n].fp /\ issues'[n].by = issues[n].by
          /\ issues'[n].closed = issues[n].closed

\* A drift is handled.
LEMMA DoneKeeps ==
    ASSUME Inv, IssuesInv, NEW p \in Pass, pc[p] \in Confirming, NEW f, DoneWith(p, f),
           pc[p] = "relist" => f = loc[p].fp, SameIssues
    PROVE  Listed(p)' /\ InTouch(p)'
<1>1. Listed(p) /\ loc[p].left \subseteq Fingerprint
  BY LocType DEF IssuesInv, Inv, TypeOK
<1>2. /\ pc'[p] = "confirm" /\ loc'[p].left = loc[p].left \ {f} /\ loc'[p].open = loc[p].open
  BY DEF DoneWith, KeepsLists
<1>3. \A g : OpenIssues(g)' = OpenIssues(g)
  BY DEF SameIssues, OpenIssues
<1>4. \A n \in DOMAIN issues : Standing(n)' = Standing(n)
  BY DEF SameIssues, Standing
<1>5. Listed(p)'
  BY <1>1, <1>2, <1>3, <1>4 DEF Listed, SameIssues, Confirming, Resolving
<1> QED BY <1>2, <1>5 DEF InTouch, Holding

\* An open issue of the listing is dealt with.
LEMMA SettledKeeps ==
    ASSUME Inv, IssuesInv, NEW p \in Pass, pc[p] \in Resolving, NEW f, SettledWith(p, f),
           cur' = cur,
           DOMAIN issues' = DOMAIN issues, \A n \in DOMAIN issues : issues'[n].fp = issues[n].fp
    PROVE  Listed(p)' /\ InTouch(p)'
<1>1. Listed(p) /\ loc[p].left \subseteq Fingerprint
  BY LocType DEF IssuesInv, Inv, TypeOK
<1>2. /\ pc'[p] = "resolve" /\ loc'[p].left = loc[p].left \ {f} /\ loc'[p].open = loc[p].open
  BY DEF SettledWith, KeepsLists
<1>3. Listed(p)'
  BY <1>1, <1>2 DEF Listed, Confirming, Resolving
<1> QED BY <1>2, <1>3 DEF InTouch, Holding

\* The run of a comment is new to its issue.
LEMMA CommentedOnce ==
    ASSUME Inv, IssuesInv, NEW n \in DOMAIN issues, NEW r \in Run,
           issues[n].by # r, issues[n].applied[r] = 0, Commented(n, r)
    PROVE  OneOpenIssue' /\ AppliedOnce' /\ SameIssues
<1>1. SameIssues
  BY DEF Commented, SameIssues
<1>2. OneOpenIssue'
  BY <1>1 DEF SameIssues, IssuesInv, OneOpenIssue, OpenIssues
<1>3. AppliedOnce'
  BY DEF Commented, IssuesInv, AppliedOnce
<1> QED BY <1>1, <1>2, <1>3

\* An issue that the run in hand has opened is of a drift its record confirms.
LEMMA OwnIsConfirmed ==
    ASSUME Inv, NEW p \in Pass, pc[p] \in Working \ {"persist"}, NEW n \in DOMAIN issues,
           issues[n].by = RunAt(p)
    PROVE  issues[n].fp \in Body[cur[p]].confirmed
BY HandFacts, IssueFacts

\* Confirming drifts keeps it.
LEMMA ConfirmingIssues ==
    ASSUME Inv, IssuesInv, NEW p \in Pass,
           \/ ListIssues(p) \/ TouchOpen(p) \/ Defer(p) \/ OpenIssue(p) \/ Relist(p) \/ CloseExtra(p)
           \/ ScanComments(p) \/ Comment(p) \/ ConfirmDone(p)
    PROVE  OneOpenIssue' /\ AppliedOnce' /\ Listed(p)' /\ InTouch(p)'
<1>0. /\ Listed(p) /\ InTouch(p) /\ OneOpenIssue /\ AppliedOnce
      /\ loc[p].left \subseteq Fingerprint /\ loc[p].issue \in Nat
  BY LocType DEF IssuesInv, Inv, TypeOK
<1>1. ASSUME UNCHANGED tracker
      PROVE  /\ OneOpenIssue' /\ AppliedOnce' /\ SameIssues
             /\ \A f : OpenIssues(f)' = OpenIssues(f)
             /\ \A n : Standing(n)' = Standing(n)
  BY <1>0, <1>1 DEF tracker, OneOpenIssue, AppliedOnce, SameIssues, OpenIssues, Standing
<1>2. CASE ListIssues(p)
  <2>1. /\ pc'[p] = "confirm" /\ Calm /\ UNCHANGED tracker
        /\ loc'[p].open = [f \in Fingerprint |-> LowestOrZero(OpenIssues(f))]
        /\ loc'[p].left = Body[cur[p]].confirmed
    BY <1>2, ListEffect
  <2>2. ASSUME NEW f \in Fingerprint
        PROVE  /\ LowestOrZero(OpenIssues(f)) # 0 => LowestOrZero(OpenIssues(f)) \in OpenIssues(f)
               /\ LowestOrZero(OpenIssues(f)) = 0 => OpenIssues(f) = {}
    <3>1. OpenIssues(f) \subseteq Nat /\ 0 \notin OpenIssues(f)
      BY IssueFacts DEF OpenIssues
    <3>2. OpenIssues(f) # {} => Lowest(OpenIssues(f)) \in OpenIssues(f)
      BY <3>1, LowestIsMin
    <3> QED BY <3>1, <3>2 DEF LowestOrZero
  <2>3. ASSUME NEW f \in Fingerprint
        PROVE  /\ loc'[p].open[f] # 0 => loc'[p].open[f] \in OpenIssues(f)
               /\ loc'[p].open[f] = 0 => OpenIssues(f) = {}
    BY <2>1, <2>2
  <2>4. issues' = issues
    BY <2>1 DEF tracker
  <2>5. Listed(p)'
    BY <1>1, <2>1, <2>3, <2>4 DEF Listed, Standing, OpenIssues, Confirming, Resolving
  <2> QED BY <1>1, <2>1, <2>5 DEF InTouch, Holding
<1>3. CASE TouchOpen(p)
  <2>1. pc[p] = "confirm" /\ Calm /\ UNCHANGED tracker
    BY <1>3, TouchEffect
  <2>2. PICK f \in loc[p].left :
          /\ loc[p].open[f] # 0
          /\ \/ issues[loc[p].open[f]].by = RunAt(p) /\ DoneWith(p, f)
             \/ /\ issues[loc[p].open[f]].by # RunAt(p) /\ pc'[p] = "scan"
                /\ TakesUp(p, f, loc[p].open[f])
    BY <1>3, TouchEffect
  <2>3. CASE DoneWith(p, f)
    BY <1>1, <2>1, <2>3, DoneKeeps DEF Confirming
  <2>4. CASE /\ issues[loc[p].open[f]].by # RunAt(p) /\ pc'[p] = "scan"
             /\ TakesUp(p, f, loc[p].open[f])
    <3>1. /\ loc'[p].open = loc[p].open /\ loc'[p].left = loc[p].left
          /\ loc'[p].fp = f /\ loc'[p].issue = loc[p].open[f]
          /\ issues' = issues /\ RunAt(p)' = RunAt(p)
      BY <2>1, <2>4 DEF TakesUp, KeepsLists, tracker, Calm, RunAt
    <3>2. Listed(p)'
      BY <1>0, <1>1, <2>1, <2>4, <3>1 DEF Listed, Confirming, Resolving
    <3>3. InTouch(p)'
      BY <2>2, <2>4, <3>1 DEF InTouch, Holding
    <3> QED BY <1>1, <2>1, <3>2, <3>3
  <2> QED BY <2>2, <2>3, <2>4
<1>4. CASE Defer(p)
  <2>1. pc[p] = "confirm" /\ pc'[p] = "confirm" /\ Calm /\ UNCHANGED tracker
    BY <1>4, DeferEffect
  <2>2. PICK f \in loc[p].left : loc'[p].left = loc[p].left \ {f} /\ loc'[p].open = loc[p].open
    BY <1>4, DeferEffect DEF KeepsLists
  <2>3. Listed(p)'
    BY <1>0, <1>1, <2>1, <2>2 DEF Listed, SameIssues, Confirming, Resolving
  <2> QED BY <1>1, <2>1, <2>3 DEF InTouch, Holding
<1>5. CASE OpenIssue(p)
  <2>1. pc[p] = "confirm" /\ pc'[p] = "relist" /\ Calm
    BY <1>5, OpenEffect
  <2>2. PICK f \in loc[p].left, n \in Nat :
          loc[p].open[f] = 0 /\ Opened(n, f, RunAt(p)) /\ TakesUp(p, f, n)
    BY <1>5, OpenEffect
  <2>3. OpenIssues(f) = {}
    BY <1>0, <2>1, <2>2 DEF Listed, Confirming
  <2>4. /\ OpenIssues(f)' \subseteq {n}
        /\ \A g : g # f => OpenIssues(g)' = OpenIssues(g)
    BY <2>2, <2>3 DEF Opened, OpenIssues
  <2>5. OneOpenIssue'
    BY <1>0, <2>4 DEF OneOpenIssue
  <2>6. AppliedOnce'
    BY <1>0, <2>2 DEF AppliedOnce, Opened
  <2>7. /\ loc'[p].open = loc[p].open /\ loc'[p].left = loc[p].left
        /\ loc'[p].fp = f /\ loc'[p].issue = n /\ RunAt(p)' = RunAt(p)
    BY <2>1, <2>2 DEF TakesUp, KeepsLists, Calm, RunAt
  <2>8. Listed(p)'
    <3>0. \A m \in DOMAIN issues : /\ m \in DOMAIN issues' /\ issues'[m].fp = issues[m].fp
                                   /\ Standing(m)' = Standing(m)
      BY <2>2 DEF Opened, Standing
    <3>1. \A g \in Fingerprint : loc[p].open[g] # 0 =>
             /\ loc[p].open[g] \in DOMAIN issues' /\ issues'[loc[p].open[g]].fp = g
             /\ Standing(loc[p].open[g])'
      BY <1>0, <2>1, <2>7, <3>0 DEF Listed, Confirming
    <3>2. \A g \in Fingerprint : g \in loc[p].left /\ loc[p].open[g] = 0 /\ g # f => OpenIssues(g)' = {}
      BY <1>0, <2>1, <2>4 DEF Listed, Confirming
    <3> QED BY <2>1, <2>7, <3>1, <3>2 DEF Listed, Confirming, Resolving
  <2>9. InTouch(p)'
    BY <2>1, <2>2, <2>4, <2>7 DEF InTouch, Opened, Standing, Holding
  <2> QED BY <2>5, <2>6, <2>8, <2>9
<1>6. CASE Relist(p)
  <2>1. pc[p] = "relist" /\ Calm /\ UNCHANGED tracker /\ DoneWith(p, loc[p].fp)
    <3>1. pc[p] = "relist"
      BY <1>6 DEF Relist
    <3> QED BY <1>0, <1>6, <3>1, RelistEffect DEF InTouch
  <2> QED BY <1>1, <2>1, DoneKeeps DEF Confirming
<1>7. CASE CloseExtra(p)
  BY <1>0, <1>7 DEF CloseExtra, InTouch
<1>8. CASE ScanComments(p)
  <2>1. pc[p] = "scan" /\ Calm /\ UNCHANGED tracker
    BY <1>8, ScanEffect
  <2>2. CASE DoneWith(p, loc[p].fp)
    BY <1>1, <2>1, <2>2, DoneKeeps DEF Confirming
  <2>3. CASE /\ ~ (issues[loc[p].issue].applied[RunAt(p)] > 0)
             /\ pc'[p] = "comment" /\ loc'[p] = loc[p]
    <3>1. issues' = issues /\ RunAt(p)' = RunAt(p) /\ RunAt(p) \in Run
      BY <2>1, HandFacts DEF tracker, Calm, RunAt
    <3>2. Listed(p)'
      BY <1>0, <1>1, <2>1, <2>3, <3>1 DEF Listed, Confirming, Resolving
    <3>3. loc[p].issue \in DOMAIN issues
      BY <1>0, <2>1 DEF Listed, InTouch, Holding, Confirming
    <3>4. issues[loc[p].issue].applied[RunAt(p)] = 0
      <4>1. issues[loc[p].issue].applied[RunAt(p)] \in Nat
        BY <3>1, <3>3, IssueFacts
      <4> QED BY <2>3, <4>1
    <3>5. InTouch(p)'
      BY <1>0, <2>1, <2>3, <3>1, <3>4 DEF InTouch, Holding
    <3> QED BY <1>1, <2>1, <3>2, <3>5
  <2> QED BY <1>8, <2>2, <2>3, ScanEffect
<1>8a. CASE Comment(p)
  <2>1. /\ pc[p] = "comment" /\ Calm /\ Commented(loc[p].issue, RunAt(p))
        /\ DoneWith(p, loc[p].fp)
    BY <1>8a, CommentEffect
  <2>2. /\ loc[p].issue \in DOMAIN issues /\ RunAt(p) \in Run
        /\ issues[loc[p].issue].by # RunAt(p) /\ issues[loc[p].issue].applied[RunAt(p)] = 0
    BY <1>0, <2>1, HandFacts DEF Listed, InTouch, Holding, Confirming
  <2>3. OneOpenIssue' /\ AppliedOnce' /\ SameIssues
    BY <2>1, <2>2, CommentedOnce
  <2> QED BY <2>1, <2>3, DoneKeeps DEF Confirming
<1>9. CASE ConfirmDone(p)
  <2>1. pc[p] = "confirm" /\ Calm /\ UNCHANGED tracker
    BY <1>9, ConfirmDoneEffect
  <2>2. CASE pc'[p] = "evidence"
    BY <1>1, <2>1, <2>2 DEF Listed, InTouch, Holding, Confirming, Resolving
  <2>3. CASE /\ pc'[p] = "resolve" /\ loc'[p].open = loc[p].open
             /\ loc'[p].left = {f \in Fingerprint : loc[p].open[f] # 0} \ Body[cur[p]].confirmed
    <3>1. issues' = issues /\ cur' = cur
      BY <2>1 DEF tracker, Calm
    <3>2. Listed(p)'
      BY <1>0, <2>1, <2>3, <3>1 DEF Listed, Confirming, Resolving
    <3> QED BY <1>1, <2>1, <2>3, <3>2 DEF InTouch, Holding
  <2> QED BY <1>9, <2>2, <2>3, ConfirmDoneEffect DEF KeepsLists
<1> QED BY <1>2, <1>3, <1>4, <1>5, <1>6, <1>7, <1>8, <1>8a, <1>9

\* Resolving issues keeps it.
LEMMA ResolvingIssues ==
    ASSUME Inv, IssuesInv, NEW p \in Pass,
           \/ StartResolve(p) \/ GetIssue(p) \/ ScanResolution(p) \/ CommentResolution(p)
           \/ CloseIssue(p) \/ ResolveDone(p)
    PROVE  OneOpenIssue' /\ AppliedOnce' /\ Listed(p)' /\ InTouch(p)'
<1>0. /\ Listed(p) /\ InTouch(p) /\ OneOpenIssue /\ AppliedOnce
      /\ loc[p].left \subseteq Fingerprint
  BY LocType DEF IssuesInv, Inv, TypeOK
<1>1. ASSUME UNCHANGED tracker
      PROVE  OneOpenIssue' /\ AppliedOnce' /\ issues' = issues
  BY <1>0, <1>1 DEF tracker, OneOpenIssue, AppliedOnce, OpenIssues
<1>2. CASE StartResolve(p)
  <2>1. pc[p] = "resolve" /\ Calm /\ UNCHANGED tracker
    BY <1>2, StartEffect
  <2>2. PICK f \in loc[p].left : \/ pc'[p] = "fresh" /\ TakesUp(p, f, loc[p].open[f])
                                 \/ SettledWith(p, f)
    BY <1>2, StartEffect
  <2>3. CASE pc'[p] = "fresh" /\ TakesUp(p, f, loc[p].open[f])
    <3>1. /\ loc'[p].open = loc[p].open /\ loc'[p].left = loc[p].left
          /\ loc'[p].fp = f /\ loc'[p].issue = loc[p].open[f]
          /\ issues' = issues /\ cur' = cur
      BY <2>1, <2>3 DEF TakesUp, KeepsLists, tracker, Calm
    <3>2. Listed(p)'
      BY <1>0, <2>1, <2>3, <3>1 DEF Listed, Confirming, Resolving
    <3>3. InTouch(p)'
      BY <1>0, <2>1, <2>2, <2>3, <3>1 DEF InTouch, Listed, Holding, Resolving
    <3> QED BY <1>1, <2>1, <3>2, <3>3
  <2>4. CASE SettledWith(p, f)
    BY <1>1, <2>1, <2>4, SettledKeeps DEF Resolving, Calm
  <2> QED BY <2>2, <2>3, <2>4
<1>3. CASE GetIssue(p)
  <2>1. pc[p] = "fresh" /\ Calm /\ UNCHANGED tracker
    BY <1>3, GetEffect
  <2>2. CASE SettledWith(p, loc[p].fp)
    BY <1>1, <2>1, <2>2, SettledKeeps DEF Resolving, Calm
  <2>3. CASE pc'[p] = "resolution_scan" /\ loc'[p] = loc[p]
    <3>1. Listed(p)'
      BY <1>0, <1>1, <2>1, <2>3 DEF Listed, Confirming, Resolving, Calm
    <3>2. InTouch(p)'
      BY <1>0, <2>1, <2>3 DEF InTouch, Holding
    <3> QED BY <1>1, <2>1, <3>1, <3>2
  <2> QED BY <1>3, <2>2, <2>3, GetEffect
<1>4. CASE ScanResolution(p)
  <2>1. /\ pc[p] = "resolution_scan" /\ Calm /\ UNCHANGED tracker /\ loc'[p] = loc[p]
        /\ RunAt(p) \in Run /\ RunAt(p)' = RunAt(p)
    BY <1>4, ScanResolutionEffect, HandFacts DEF Calm, RunAt
  <2>2. Listed(p)'
    BY <1>0, <1>1, <1>4, <2>1, ScanResolutionEffect DEF Listed, Confirming, Resolving, Calm
  <2>3. loc[p].issue \in DOMAIN issues
    BY <1>0, <2>1 DEF Listed, InTouch, Holding, Resolving
  <2>4. pc'[p] = "resolution" => issues[loc[p].issue].applied[RunAt(p)] = 0
    <3>1. issues[loc[p].issue].applied[RunAt(p)] \in Nat
      BY <2>1, <2>3, IssueFacts
    <3> QED BY <1>4, <3>1, ScanResolutionEffect
  <2>5. InTouch(p)'
    BY <1>0, <1>1, <1>4, <2>1, <2>4, ScanResolutionEffect DEF InTouch, Holding
  <2> QED BY <1>1, <2>1, <2>2, <2>5
<1>5. CASE CommentResolution(p)
  <2>1. /\ pc[p] = "resolution" /\ Calm /\ Commented(loc[p].issue, RunAt(p))
        /\ pc'[p] = "close" /\ loc'[p] = loc[p]
    BY <1>5, ResolutionEffect
  <2>2. /\ loc[p].issue \in DOMAIN issues /\ RunAt(p) \in Run
        /\ issues[loc[p].issue].fp = loc[p].fp /\ loc[p].fp \notin Body[cur[p]].confirmed
        /\ issues[loc[p].issue].applied[RunAt(p)] = 0
    BY <1>0, <2>1, HandFacts DEF Listed, InTouch, Holding, Resolving
  <2>3. issues[loc[p].issue].by # RunAt(p)
    BY <2>1, <2>2, OwnIsConfirmed DEF Working, Acting, Resolving
  <2>4. OneOpenIssue' /\ AppliedOnce' /\ SameIssues
    BY <2>1, <2>2, <2>3, CommentedOnce
  <2>5. Listed(p)'
    BY <1>0, <2>1, <2>4 DEF Listed, SameIssues, Confirming, Resolving, Calm
  <2>6. InTouch(p)'
    BY <1>0, <2>1 DEF InTouch, Holding
  <2> QED BY <2>4, <2>5, <2>6
<1>6. CASE CloseIssue(p)
  <2>1. /\ pc[p] = "close" /\ Calm
        /\ ClosedAs(loc[p].issue, "resolved") /\ SettledWith(p, loc[p].fp)
    BY <1>6, CloseIssueEffect
  <2>2. OneOpenIssue'
    <3>1. \A f : OpenIssues(f)' \subseteq OpenIssues(f)
      BY <2>1 DEF ClosedAs, OpenIssues
    <3> QED BY <1>0, <3>1 DEF OneOpenIssue
  <2>3. AppliedOnce'
    BY <1>0, <2>1 DEF ClosedAs, AppliedOnce
  <2>4. DOMAIN issues' = DOMAIN issues /\ \A n \in DOMAIN issues : issues'[n].fp = issues[n].fp
    BY <2>1 DEF ClosedAs
  <2> QED BY <2>1, <2>2, <2>3, <2>4, SettledKeeps DEF Resolving, Calm
<1>7. CASE ResolveDone(p)
  <2>1. pc'[p] = "evidence" /\ UNCHANGED tracker
    BY <1>7, ResolveDoneEffect
  <2> QED BY <1>1, <2>1 DEF Listed, InTouch, Holding, Confirming, Resolving
<1> QED BY <1>2, <1>3, <1>4, <1>5, <1>6, <1>7

\* The steps outside of these work with no listing.
LEMMA OutsideIssues ==
    ASSUME Inv, IssuesInv, NEW p \in Pass, PassStep(p) \/ Dispatch(p) \/ FailRun(p) \/ Abort(p),
           ~ ActingStep(p)
    PROVE  /\ issues' = issues /\ pc'[p] \notin Confirming \cup Resolving
           /\ pc'[p] = "list" => LaneViews(p)
<1> USE DEF Confirming, Resolving
<1>1. CASE ReceiptMissing(p) \/ Validate(p)
  BY <1>1, GatesEffect
<1>2. CASE Persist(p)
  BY <1>2, PersistEffect
<1>3. CASE LaneViews(p)
  BY <1>3, ViewsEffect DEF tracker
<1>4. CASE FindEvidence(p) \/ Announce(p)
  BY <1>4, EvidenceEffect
<1>5. CASE WriteReceipt(p)
  BY <1>5, Moves DEF WriteReceipt, tracker
<1>6. CASE \/ StartSweep(p) \/ Dispatch(p) \/ NextCandidate(p) \/ EndSweep(p)
           \/ ReadRecord(p) \/ ReceiptFound(p) \/ DeleteStagingRef(p)
           \/ Refuse(p) \/ PersistExists(p) \/ FailRun(p) \/ Abort(p)
  BY <1>6, AwayEffect
<1> QED BY <1>1, <1>2, <1>3, <1>4, <1>5, <1>6 DEF PassStep, ActingStep

\* Every step keeps it, when there is one pass.
LEMMA IssuesStep == OnePass /\ Inv /\ IssuesInv /\ [Next]_vars => IssuesInv'
<1> SUFFICES ASSUME OnePass, Inv, IssuesInv, [Next]_vars PROVE IssuesInv'
  OBVIOUS
<1>1. ASSUME NEW p \in Pass, PassStep(p) \/ Dispatch(p) \/ FailRun(p) \/ Abort(p)
      PROVE  IssuesInv'
  <2>1. OneOpenIssue' /\ AppliedOnce' /\ Listed(p)' /\ InTouch(p)'
    <3>1. CASE ActingStep(p)
      BY <3>1, ConfirmingIssues, ResolvingIssues DEF ActingStep
    <3>2. CASE ~ ActingStep(p)
      <4>1. issues' = issues /\ pc'[p] \notin Confirming \cup Resolving
        BY <1>1, <3>2, OutsideIssues
      <4>2. OneOpenIssue' /\ AppliedOnce'
        BY <4>1 DEF IssuesInv, OneOpenIssue, AppliedOnce, OpenIssues
      <4> QED BY <4>1, <4>2 DEF Listed, InTouch, Holding, Confirming, Resolving
    <3> QED BY <3>1, <3>2
  <2>2. \A q \in Pass : q = p
    BY DEF OnePass
  <2> QED BY <2>1, <2>2 DEF IssuesInv
<1>2. CASE vars' = vars
  <2>1. UNCHANGED <<issues, pc, cur, loc>>
    BY <1>2 DEF vars, tracker
  <2>2. Tended
    BY <2>1 DEF Tended
  <2> QED BY <2>1, <2>2, IssuesOtherStep
<1> QED BY <1>1, <1>2, IssuesOtherStep, OthersEffect DEF Next

\* An issue carries the marker of a run at most once, however often it is retried.
THEOREM AppliedOnceHolds ==
    ASSUME OnePass PROVE Spec => []AppliedOnce
<1>1. IssuesInv => AppliedOnce
  BY DEF IssuesInv
<1>2. Inv /\ IssuesInv /\ [Next]_vars => IssuesInv'
  BY IssuesStep
<1> QED BY <1>1, <1>2, InvInit, InvStep, IssuesInit, PTL DEF Spec

\* A fingerprint has at most one open issue.
THEOREM OneOpenIssueHolds ==
    ASSUME OnePass PROVE Spec => []OneOpenIssue
<1>1. IssuesInv => OneOpenIssue
  BY DEF IssuesInv
<1>2. Inv /\ IssuesInv /\ [Next]_vars => IssuesInv'
  BY IssuesStep
<1> QED BY <1>1, <1>2, InvInit, InvStep, IssuesInit, PTL DEF Spec

-----------------------------------------------------------------------------
(* The views a pass decides from. *)

\* They stay those of the latest records, and what is being resolved is resolvable.
Viewed(p) ==
    /\ pc[p] \in Acting => loc[p].views = ViewsFor(RunAt(p))
    /\ pc[p] \in Resolving => loc[p].views # None
    /\ pc[p] \in {"fresh", "resolution_scan", "resolution", "close"} => Resolvable(p, loc[p].fp)

ViewsInv == \A p \in Pass : Viewed(p)

\* No pass has views at the start.
LEMMA ViewsInit == Init => ViewsInv
BY DEF Init, ViewsInv, Viewed, Acting, Confirming, Resolving

\* A decision depends on the views, the candidate and the records alone.
LEMMA ResolvableSame ==
    ASSUME NEW p, loc'[p].views = loc[p].views, UNCHANGED <<cur, records>>
    PROVE  \A f : Resolvable(p, f)' <=> Resolvable(p, f)
<1>1. \A l : ViewRecord(p, l)' = ViewRecord(p, l)
  BY DEF ViewRecord, RunAt
<1>2. \A f : CoveringLanes(p, f)' = CoveringLanes(p, f)
  BY <1>1 DEF CoveringLanes
<1> QED BY <1>1, <1>2 DEF Resolvable

\* Acting keeps the views.
LEMMA ViewsActing ==
    ASSUME Inv, IssuesInv, ViewsInv, NEW p \in Pass, ActingStep(p)
    PROVE  Viewed(p)'
<1>0. Viewed(p) /\ InTouch(p) /\ loc[p].issue \in Nat
  BY LocType DEF ViewsInv, IssuesInv, Inv, TypeOK
<1>1. Calm /\ pc'[p] \in Acting \cup {"evidence"}
  BY ActingEffect
<1>2. RunAt(p)' = RunAt(p) /\ ViewsFor(RunAt(p))' = ViewsFor(RunAt(p))
  BY <1>1, CalmViews DEF Calm, RunAt
<1>3. ASSUME loc'[p].views = loc[p].views
      PROVE  \A f : Resolvable(p, f)' <=> Resolvable(p, f)
  BY <1>1, <1>3, ResolvableSame DEF Calm
<1> USE DEF Acting, Confirming, Resolving
<1>4. ASSUME NEW f, DoneWith(p, f), pc[p] \in Confirming PROVE Viewed(p)'
  BY <1>0, <1>2, <1>4 DEF Viewed, DoneWith, KeepsLists
<1>5. ASSUME NEW f, SettledWith(p, f), pc[p] \in Resolving PROVE Viewed(p)'
  BY <1>0, <1>2, <1>5 DEF Viewed, SettledWith, KeepsLists
<1>6. CASE ListIssues(p)
  BY <1>0, <1>2, <1>6, ListEffect DEF Viewed
<1>7. CASE TouchOpen(p)
  <2>1. pc[p] = "confirm"
    BY <1>7, TouchEffect
  <2>2. \/ \E f : DoneWith(p, f)
        \/ pc'[p] = "scan" /\ loc'[p].views = loc[p].views
    BY <1>7, TouchEffect DEF TakesUp, KeepsLists
  <2> QED BY <1>0, <1>2, <1>4, <2>1, <2>2 DEF Viewed
<1>8. CASE Defer(p)
  BY <1>0, <1>2, <1>8, DeferEffect DEF Viewed, KeepsLists
<1>9. CASE OpenIssue(p)
  BY <1>0, <1>2, <1>9, OpenEffect DEF Viewed, TakesUp, KeepsLists
<1>10. CASE Relist(p)
  <2>1. pc[p] = "relist"
    BY <1>10 DEF Relist
  <2> QED BY <1>0, <1>4, <1>10, <2>1, RelistEffect DEF InTouch
<1>11. CASE CloseExtra(p)
  BY <1>0, <1>11 DEF CloseExtra, InTouch
<1>12. CASE ScanComments(p)
  BY <1>0, <1>2, <1>4, <1>12, ScanEffect DEF Viewed
<1>13. CASE Comment(p)
  BY <1>4, <1>13, CommentEffect
<1>14. CASE ConfirmDone(p)
  BY <1>0, <1>2, <1>14, ConfirmDoneEffect DEF Viewed, KeepsLists
<1>15. CASE StartResolve(p)
  <2>1. pc[p] = "resolve"
    BY <1>15, StartEffect
  <2>2. PICK f : \/ Resolvable(p, f) /\ pc'[p] = "fresh" /\ TakesUp(p, f, loc[p].open[f])
                 \/ SettledWith(p, f)
    BY <1>15, StartEffect
  <2>3. CASE Resolvable(p, f) /\ pc'[p] = "fresh" /\ TakesUp(p, f, loc[p].open[f])
    <3>1. loc'[p].views = loc[p].views /\ loc'[p].fp = f
      BY <2>3 DEF TakesUp, KeepsLists
    <3>2. Resolvable(p, f)'
      BY <1>3, <2>3, <3>1
    <3>3. Resolvable(p, loc[p].fp)'
      BY <3>1, <3>2
    <3> QED BY <1>0, <1>2, <2>1, <2>3, <3>1, <3>3 DEF Viewed
  <2> QED BY <1>5, <2>1, <2>2, <2>3
<1>16. ASSUME pc[p] \in {"fresh", "resolution_scan", "resolution"}, loc'[p] = loc[p],
              pc'[p] \in {"resolution_scan", "resolution", "close"}
       PROVE  Viewed(p)'
  <2>1. Resolvable(p, loc[p].fp)
    BY <1>0, <1>16 DEF Viewed
  <2>2. Resolvable(p, loc[p].fp)'
    <3> DEFINE f == loc[p].fp
    <3>1. \A g : Resolvable(p, g)' <=> Resolvable(p, g)
      BY <1>3, <1>16
    <3>2. loc'[p].fp = loc[p].fp
      BY <1>16
    <3> QED BY <2>1, <3>1, <3>2
  <2> QED BY <1>0, <1>2, <1>16, <2>2 DEF Viewed
<1>17. CASE GetIssue(p)
  BY <1>5, <1>16, <1>17, GetEffect
<1>18. CASE ScanResolution(p)
  BY <1>16, <1>18, ScanResolutionEffect
<1>19. CASE CommentResolution(p)
  BY <1>16, <1>19, ResolutionEffect
<1>20. CASE CloseIssue(p)
  BY <1>5, <1>20, CloseIssueEffect
<1>21. CASE ResolveDone(p)
  BY <1>21, ResolveDoneEffect DEF Viewed
<1> QED BY <1>6, <1>7, <1>8, <1>9, <1>10, <1>11, <1>12, <1>13, <1>14, <1>15, <1>17, <1>18, <1>19,
           <1>20, <1>21 DEF ActingStep

\* Every step keeps them, when there is one pass.
LEMMA ViewsStep == OnePass /\ Inv /\ IssuesInv /\ ViewsInv /\ [Next]_vars => ViewsInv'
<1> SUFFICES ASSUME OnePass, Inv, IssuesInv, ViewsInv, [Next]_vars PROVE ViewsInv'
  OBVIOUS
<1>1. ASSUME NEW p \in Pass, PassStep(p) \/ Dispatch(p) \/ FailRun(p) \/ Abort(p)
      PROVE  ViewsInv'
  <2>1. CASE ActingStep(p)
    BY <2>1, ViewsActing DEF OnePass, ViewsInv
  <2>2. CASE LaneViews(p)
    <3>1. /\ Calm
          /\ \/ pc'[p] = "evidence"
             \/ pc'[p] = "list" /\ loc'[p].views = ViewsFor(RunAt(p))
      BY <2>2, ViewsEffect
    <3>2. RunAt(p)' = RunAt(p) /\ ViewsFor(RunAt(p))' = ViewsFor(RunAt(p))
      BY <3>1, CalmViews DEF Calm, RunAt
    <3>3. Viewed(p)'
      BY <3>1, <3>2 DEF Viewed, Acting, Confirming, Resolving
    <3> QED BY <3>3 DEF OnePass, ViewsInv
  <2>3. CASE ~ ActingStep(p) /\ ~ LaneViews(p)
    <3>1. pc'[p] \notin Acting
      BY <1>1, <2>3, OutsideIssues DEF Acting
    <3>2. Viewed(p)'
      BY <3>1 DEF Viewed, Acting, Resolving
    <3> QED BY <3>2 DEF OnePass, ViewsInv
  <2> QED BY <2>1, <2>2, <2>3
<1>2. CASE UNCHANGED <<records, receipts, pc, cur, loc>>
  <2>1. ASSUME NEW p \in Pass PROVE Viewed(p)'
    <3>1. Viewed(p) /\ RunAt(p)' = RunAt(p) /\ ViewsFor(RunAt(p))' = ViewsFor(RunAt(p))
      BY <1>2, CalmViews DEF ViewsInv, RunAt
    <3>2. \A f : Resolvable(p, f)' <=> Resolvable(p, f)
      BY <1>2, ResolvableSame
    <3> QED BY <1>2, <3>1, <3>2 DEF Viewed
  <2> QED BY <2>1 DEF ViewsInv
<1>3. CASE vars' = vars
  BY <1>2, <1>3 DEF vars, history
<1> QED BY <1>1, <1>2, <1>3, OthersEffect DEF Next

\* What leaves an issue open: the record in hand or the latest one of another lane
\* confirms its drift, or none of them covers it.
Stays(p, f) ==
    \/ Covers(cur[p], f) /\ f \in Body[cur[p]].confirmed
    \/ \E l \in Lane \ {LaneOf[RunAt(p)]} : LatestConfirms(l, f)
    \/ ~ Covers(cur[p], f) /\ \A l \in Lane \ {LaneOf[RunAt(p)]} : ~ LatestCovers(l, f)

\* `_resolve` decides by the lanes' views what it should by the latest records.
LEMMA Decision ==
    ASSUME Inv, NEW p \in Pass, pc[p] \notin {"idle", "pick"},
           loc[p].views = ViewsFor(RunAt(p)), loc[p].views # None
    PROVE  /\ \A l \in Lane \ {LaneOf[RunAt(p)]} : Loadable(l)
           /\ \A f : Resolvable(p, f) <=> ~ Stays(p, f)
<1> DEFINE r == RunAt(p)
           own == LaneOf[r]
<1>1. r \in Run /\ own \in Lane /\ r # None
  BY HandFacts, NoneIsNothing
<1>2. /\ \A l \in Lane \ {own} : Loadable(l)
      /\ loc[p].views = [l \in Lane |-> IF l = own THEN r ELSE Latest(l)]
  BY DEF ViewsFor
<1>3. loc[p].views[own] = r /\ ViewRecord(p, own) = cur[p]
  BY <1>1, <1>2 DEF ViewRecord
<1>4. ASSUME NEW l \in Lane \ {own}
      PROVE  /\ loc[p].views[l] = Latest(l)
             /\ Latest(l) # None => ViewRecord(p, l) = records[Latest(l)]
  <2>1. loc[p].views[l] = Latest(l)
    BY <1>2
  <2>2. Latest(l) # None => Latest(l) # r
    BY LatestIsNewest DEF Latest, Published
  <2> QED BY <2>1, <2>2 DEF ViewRecord
<1> HIDE DEF r, own
<1>5. ASSUME NEW f
      PROVE  /\ own \in CoveringLanes(p, f) <=> Covers(cur[p], f)
             /\ \A l \in Lane \ {own} : l \in CoveringLanes(p, f) <=> LatestCovers(l, f)
  <2>1. own \in CoveringLanes(p, f) <=> Covers(cur[p], f)
    BY <1>1, <1>3 DEF CoveringLanes
  <2>2. \A l \in Lane \ {own} : l \in CoveringLanes(p, f) <=> LatestCovers(l, f)
    BY <1>4 DEF CoveringLanes, LatestCovers
  <2> QED BY <2>1, <2>2
<1>6. ASSUME NEW f PROVE Resolvable(p, f) <=> ~ Stays(p, f)
  <2>1. CoveringLanes(p, f) \subseteq Lane
    BY DEF CoveringLanes
  <2>2. CoveringLanes(p, f) # {} <=> Covers(cur[p], f) \/ \E l \in Lane \ {own} : LatestCovers(l, f)
    BY <1>1, <1>5, <2>1
  <2>3. (\A l \in CoveringLanes(p, f) : f \notin Body[ViewRecord(p, l)].confirmed)
           <=> /\ ~ (Covers(cur[p], f) /\ f \in Body[cur[p]].confirmed)
               /\ \A l \in Lane \ {own} : ~ LatestConfirms(l, f)
    <3>1. \A l \in Lane \ {own} : LatestCovers(l, f) => ViewRecord(p, l) = records[Latest(l)]
      BY <1>4 DEF LatestCovers
    <3> QED BY <1>1, <1>3, <1>5, <2>1, <3>1 DEF LatestConfirms
  <2> QED BY <2>2, <2>3 DEF Resolvable, Stays, own, r
<1> QED BY <1>2, <1>6 DEF own, r

\* Only the close of a resolution closes an issue as resolved.
LEMMA ResolvedOnlyByClose ==
    ASSUME Inv, RunsInv, IssuesInv, [Next]_vars, NEW n \in DOMAIN issues,
           issues[n].closed = "no", issues'[n].closed = "resolved"
    PROVE  \E p \in Pass : CloseIssue(p) /\ n = loc[p].issue
<1>1. ASSUME NEW p \in Pass, PassStep(p) \/ Dispatch(p) \/ FailRun(p) \/ Abort(p)
      PROVE  CloseIssue(p) /\ n = loc[p].issue
  <2>1. ActingStep(p)
    BY <1>1, OutsideIssues
  <2>2. CASE OpenIssue(p)
    BY <2>2, OpenEffect DEF Opened
  <2>3. CASE Comment(p) \/ CommentResolution(p)
    BY <2>3, CommentEffect, ResolutionEffect DEF Commented
  <2>4. CASE CloseExtra(p)
    BY <2>4 DEF CloseExtra, IssuesInv, InTouch
  <2>5. CASE CloseIssue(p)
    BY <2>5, CloseIssueEffect DEF ClosedAs
  <2>6. CASE issues' = issues
    BY <2>6
  <2> QED BY <2>1, <2>2, <2>3, <2>4, <2>5, <2>6
       DEF ActingStep, ListIssues, TouchOpen, Defer, Relist, ScanComments, ConfirmDone, StartResolve,
           GetIssue, ScanResolution, ResolveDone, tracker
<1>2. ~ Tended
  BY DEF Tended
<1>3. vars' # vars
  BY DEF vars, tracker
<1> QED BY <1>1, <1>2, <1>3, OthersEffect DEF Next

\* What was read before the close still holds at the close.
LEMMA CloseJustified ==
    ASSUME Inv, RunsInv, IssuesInv, ViewsInv, NEW p \in Pass, CloseIssue(p)
    PROVE  ResolvedBy(p, loc[p].issue)
<1>1. pc[p] = "close" /\ Viewed(p) /\ FreshRun(p) /\ Listed(p) /\ InTouch(p)
  BY DEF CloseIssue, ViewsInv, RunsInv, IssuesInv
<1>2. /\ loc[p].views = ViewsFor(RunAt(p)) /\ loc[p].views # None /\ Resolvable(p, loc[p].fp)
  BY <1>1 DEF Viewed, Acting, Resolving
<1>3. /\ \A l \in Lane \ {LaneOf[RunAt(p)]} : Loadable(l)
      /\ ~ Stays(p, loc[p].fp)
  BY <1>1, <1>2, Decision
<1>4. /\ ~ Superseded(RunAt(p)) /\ Body[cur[p]].state = "compared"
  BY <1>1 DEF FreshRun, Acting, Resolving
<1>5. issues[loc[p].issue].fp = loc[p].fp /\ loc[p].fp \notin Body[cur[p]].confirmed
  <2>1. loc[p].left \subseteq Fingerprint
    BY LocType DEF Inv, TypeOK
  <2> QED BY <1>1, <2>1 DEF Listed, InTouch, Holding, Resolving
<1> QED BY <1>1, <1>3, <1>4, <1>5 DEF ResolvedBy, Stays

\* A close as resolved is justified by the records as they are at that moment.
THEOREM ResolutionJustifiedHolds ==
    ASSUME OnePass PROVE Spec => ResolutionJustified
<1> DEFINE Justified == \A n \in DOMAIN issues :
                           issues[n].closed = "no" /\ issues'[n].closed = "resolved" =>
                               \E p \in Pass : ResolvedBy(p, n)
<1>1. Inv /\ RunsInv /\ IssuesInv /\ ViewsInv /\ [Next]_vars => [Justified]_vars
  BY ResolvedOnlyByClose, CloseJustified
<1>2. Inv /\ RunsInv /\ [Next]_vars => RunsInv'
  BY RunsStep
<1>3. Inv /\ IssuesInv /\ [Next]_vars => IssuesInv'
  BY IssuesStep
<1>4. Inv /\ IssuesInv /\ ViewsInv /\ [Next]_vars => ViewsInv'
  BY ViewsStep
<1>5. Spec => [][Justified]_vars
  <2> HIDE DEF Justified
  <2> QED BY <1>1, <1>2, <1>3, <1>4, InvInit, InvStep, RunsInit, IssuesInit, ViewsInit, PTL DEF Spec
<1> QED BY <1>5 DEF ResolutionJustified

-----------------------------------------------------------------------------
(* Drifts that a lane's latest record confirms. *)

\* Run `r` has opened or commented on an issue of `f`, which no pass has closed.
Touched(r, f) ==
    \E n \in DOMAIN issues :
        /\ issues[n].fp = f /\ Standing(n)
        /\ issues[n].by = r \/ issues[n].applied[r] > 0

\* A step leaves standing, with the runs on them, the issues of `f`.
KeepsTouch(f) ==
    \A n \in DOMAIN issues : issues[n].fp = f =>
        /\ n \in DOMAIN issues' /\ issues'[n].fp = f /\ issues'[n].by = issues[n].by
        /\ Standing(n) => Standing(n)'
        /\ \A r \in Run : issues[n].applied[r] > 0 => issues'[n].applied[r] > 0

\* No run of the lane that is newer than `r` has a record.
NoneNewer(r) ==
    \A q \in Run : LaneOf[q] = LaneOf[r] /\ records[q] # None => StartedAt[q] <= StartedAt[r]

\* The latest record is on an issue of each drift it confirms and does not defer,
\* unless a newer record is there that may have resolved it.
Visible ==
    \A l \in Lane, f \in Fingerprint :
        LatestConfirms(l, f) /\ f \notin deferred[Latest(l)] /\ NoneNewer(Latest(l)) =>
            Touched(Latest(l), f)

\* While drifts are confirmed those already handled have their issue, and past that
\* all that are not deferred.
Shown(p) ==
    /\ pc[p] \in Confirming =>
          \A f \in Body[cur[p]].confirmed \ (loc[p].left \cup loc[p].deferred) : Touched(RunAt(p), f)
    /\ pc[p] \in Resolving \cup Finishing =>
          \/ Superseded(RunAt(p)) \/ Body[cur[p]].state # "compared"
          \/ \A f \in Body[cur[p]].confirmed \ loc[p].deferred : Touched(RunAt(p), f)

VisibleInv == Visible /\ \A p \in Pass : Shown(p)

\* A published record is a recorded result of that run; before the behaviour
\* starts there are bootstraps only.
LEMMA LatestFacts ==
    ASSUME Inv, NEW l \in Lane, Latest(l) # None
    PROVE  /\ Latest(l) \in Published(l) /\ Latest(l) \in Run /\ LaneOf[Latest(l)] = l
           /\ receipts[Latest(l)] # None
           /\ records[Latest(l)] = receipts[Latest(l)] /\ records[Latest(l)] \in Result
<1>1. Latest(l) \in Published(l)
  BY LatestIsNewest DEF Latest
<1>2. Latest(l) \in Run /\ LaneOf[Latest(l)] = l /\ receipts[Latest(l)] # None
  BY <1>1 DEF Published
<1>3. records[Latest(l)] = receipts[Latest(l)]
  BY <1>2 DEF Inv, HistorySound, ReceiptsSound
<1>4. receipts[Latest(l)] \in Result
  BY <1>2 DEF Inv, TypeOK, StoreTypes
<1> QED BY <1>1, <1>2, <1>3, <1>4

\* What the seeded history says is a bootstrap.
LEMMA SeededLatest ==
    ASSUME Init, NEW l \in Lane
    PROVE  \A f : ~ LatestCovers(l, f) /\ ~ LatestConfirms(l, f)
<1>1. ASSUME Latest(l) # None PROVE Body[records[Latest(l)]].state = "bootstrap"
  <2>1. records[Latest(l)] # None /\ Latest(l) \in Run
    BY <1>1, InvInit, LatestFacts, NoneIsNothing
  <2>2. records[Latest(l)] = SeededResult(Latest(l))
    BY <2>1 DEF Init
  <2>3. SeededResult(Latest(l)) \in Seeded
    BY <2>1, <2>2 DEF SeededResult
  <2> QED BY <2>2, <2>3, SeededBootstraps
<1> QED BY <1>1 DEF LatestCovers, LatestConfirms, Covers

\* There is nothing to see at the start.
LEMMA VisibleInit == Init => VisibleInv
<1>1. Init => Visible
  BY SeededLatest DEF Visible
<1>2. Init => \A p \in Pass : Shown(p)
  BY DEF Init, Shown, Confirming, Resolving, Finishing
<1> QED BY <1>1, <1>2 DEF VisibleInv

\* A run stays on the issues that a step leaves standing.
LEMMA TouchedKept ==
    ASSUME NEW r \in Run, NEW f, Touched(r, f), KeepsTouch(f)
    PROVE  Touched(r, f)'
BY DEF Touched, KeepsTouch

\* Which steps those are.
LEMMA TouchKept ==
    ASSUME Inv
    PROVE  /\ UNCHANGED tracker \/ issues' = issues => \A f : KeepsTouch(f)
           /\ Tended => \A f : KeepsTouch(f)
           /\ \A n, f, r : Opened(n, f, r) => \A g : KeepsTouch(g)
           /\ \A n, r : Commented(n, r) => \A f : KeepsTouch(f)
           /\ \A n \in DOMAIN issues : \A how : ClosedAs(n, how) =>
                 \A f : f # issues[n].fp => KeepsTouch(f)
<1>1. UNCHANGED tracker \/ issues' = issues => \A f : KeepsTouch(f)
  BY DEF tracker, KeepsTouch, Standing
<1>2. Tended => \A f : KeepsTouch(f)
  BY DEF Tended, KeepsTouch, Standing
<1>3. \A n, f, r : Opened(n, f, r) => \A g : KeepsTouch(g)
  BY DEF Opened, KeepsTouch, Standing
<1>4. ASSUME NEW n, NEW r, Commented(n, r), NEW f PROVE KeepsTouch(f)
  <2>1. ASSUME NEW m \in DOMAIN issues, NEW q \in Run, issues[m].applied[q] > 0
        PROVE  issues'[m].applied[q] > 0
    <3>1. issues[m].applied[q] \in Nat
      BY IssueFacts
    <3> QED BY <1>4, <2>1, <3>1 DEF Commented
  <2> QED BY <1>4, <2>1 DEF Commented, KeepsTouch, Standing
<1>5. \A n \in DOMAIN issues : \A how : ClosedAs(n, how) => \A f : f # issues[n].fp => KeepsTouch(f)
  BY DEF ClosedAs, KeepsTouch, Standing
<1> QED BY <1>1, <1>2, <1>3, <1>4, <1>5

\* Deciding about the issues keeps what is shown.
LEMMA ShownActing ==
    ASSUME Inv, RunsInv, IssuesInv, VisibleInv, NEW p \in Pass, ActingStep(p)
    PROVE  Shown(p)'
<1>0. /\ Listed(p) /\ InTouch(p) /\ Shown(p) /\ loc[p].issue \in Nat
      /\ loc[p].left \subseteq Fingerprint
  BY LocType DEF IssuesInv, VisibleInv, Inv, TypeOK
<1>1. Calm /\ pc[p] \in Acting /\ pc'[p] \in Acting \cup {"evidence"}
  BY ActingEffect
<1>2. /\ RunAt(p) \in Run /\ RunAt(p)' = RunAt(p) /\ cur' = cur
      /\ Body[cur[p]].confirmed \subseteq Fingerprint
  BY <1>1, HandFacts DEF Acting, Confirming, Resolving, Calm, RunAt
<1>3. ~ Superseded(RunAt(p)) /\ Body[cur[p]].state = "compared"
  BY <1>1 DEF RunsInv, FreshRun
<1> DEFINE Drifts == Body[cur[p]].confirmed
<1>4. ASSUME pc'[p] \in Confirming,
             \A f \in Drifts \ (loc'[p].left \cup loc'[p].deferred) : Touched(RunAt(p), f)'
      PROVE  Shown(p)'
  BY <1>2, <1>4 DEF Shown, Confirming, Resolving, Finishing
<1>5. ASSUME pc'[p] \in Resolving \cup Finishing,
             \A f \in Drifts \ loc'[p].deferred : Touched(RunAt(p), f)'
      PROVE  Shown(p)'
  BY <1>2, <1>5 DEF Shown, Confirming, Resolving, Finishing
<1>6. pc[p] \in Confirming => \A f \in Drifts \ (loc[p].left \cup loc[p].deferred) : Touched(RunAt(p), f)
  BY <1>0 DEF Shown
<1>7. pc[p] \in Resolving => \A f \in Drifts \ loc[p].deferred : Touched(RunAt(p), f)
  BY <1>0, <1>3 DEF Shown
<1> HIDE DEF Drifts
<1>8. ASSUME UNCHANGED tracker PROVE \A f : KeepsTouch(f) /\ (Touched(RunAt(p), f) => Touched(RunAt(p), f)')
  BY <1>2, <1>8, TouchKept, TouchedKept
<1>9. ASSUME NEW f, SettledWith(p, f), pc[p] \in Resolving, \A g \in Drifts : KeepsTouch(g)
      PROVE  Shown(p)'
  BY <1>2, <1>5, <1>7, <1>9, TouchedKept DEF SettledWith, Resolving
<1>10. ASSUME pc[p] \in Resolving, pc'[p] \in Resolving \cup Finishing,
              loc'[p].deferred = loc[p].deferred, \A g : KeepsTouch(g)
       PROVE  Shown(p)'
  BY <1>2, <1>5, <1>7, <1>10, TouchedKept
<1>11. ASSUME pc[p] \in Confirming, pc'[p] \in Confirming,
              loc'[p].left = loc[p].left, loc'[p].deferred = loc[p].deferred, \A g : KeepsTouch(g)
       PROVE  Shown(p)'
  BY <1>2, <1>4, <1>6, <1>11, TouchedKept
<1>12. CASE ListIssues(p)
  <2>1. pc'[p] = "confirm" /\ loc'[p].left = Drifts
    BY <1>12, ListEffect DEF Drifts
  <2> QED BY <1>4, <2>1 DEF Confirming
<1>13. CASE TouchOpen(p)
  <2>1. pc[p] = "confirm" /\ UNCHANGED tracker
    BY <1>13, TouchEffect
  <2>2. PICK f \in loc[p].left :
          /\ loc[p].open[f] # 0
          /\ \/ issues[loc[p].open[f]].by = RunAt(p) /\ DoneWith(p, f)
             \/ /\ pc'[p] = "scan" /\ TakesUp(p, f, loc[p].open[f])
    BY <1>13, TouchEffect
  <2>3. CASE issues[loc[p].open[f]].by = RunAt(p) /\ DoneWith(p, f)
    <3>1. Touched(RunAt(p), f)
      BY <1>0, <2>1, <2>2, <2>3 DEF Listed, Touched, Confirming
    <3> QED BY <1>4, <1>6, <1>8, <2>1, <2>3, <3>1 DEF DoneWith, Confirming
  <2>4. CASE pc'[p] = "scan" /\ TakesUp(p, f, loc[p].open[f])
    BY <1>8, <1>11, <2>1, <2>4 DEF TakesUp, Confirming
  <2> QED BY <2>2, <2>3, <2>4
<1>14. CASE Defer(p)
  <2>1. pc[p] = "confirm" /\ pc'[p] = "confirm" /\ UNCHANGED tracker
    BY <1>14, DeferEffect
  <2>2. PICK f \in loc[p].left : /\ loc'[p].left = loc[p].left \ {f}
                                 /\ loc'[p].deferred = loc[p].deferred \cup {f}
    BY <1>14, DeferEffect
  <2> QED BY <1>4, <1>6, <1>8, <2>1, <2>2 DEF Confirming
<1>15. CASE OpenIssue(p)
  <2>1. PICK f, n : Opened(n, f, RunAt(p)) /\ TakesUp(p, f, n)
    BY <1>15, OpenEffect
  <2>2. pc[p] = "confirm" /\ pc'[p] = "relist"
    BY <1>15, OpenEffect
  <2>3. \A g : KeepsTouch(g)
    BY <2>1, TouchKept
  <2> QED BY <1>11, <2>1, <2>2, <2>3 DEF TakesUp, Confirming
<1>16. CASE Relist(p)
  <2>1. pc[p] = "relist"
    BY <1>16 DEF Relist
  <2>2. UNCHANGED tracker /\ DoneWith(p, loc[p].fp)
    BY <1>0, <1>16, <2>1, RelistEffect DEF InTouch
  <2>3. Touched(RunAt(p), loc[p].fp)
    BY <1>0, <2>1 DEF InTouch, Touched
  <2>4. \A f : Touched(RunAt(p), f) => Touched(RunAt(p), f)'
    BY <1>8, <2>2
  <2> DEFINE f == loc[p].fp
  <2>5. f \in loc[p].left
    BY <1>0, <2>1 DEF InTouch
  <2> QED BY <1>4, <1>6, <2>1, <2>2, <2>3, <2>4, <2>5 DEF DoneWith, Confirming
<1>17. CASE CloseExtra(p)
  BY <1>0, <1>17 DEF CloseExtra, InTouch
<1>18. CASE ScanComments(p)
  <2>1. pc[p] = "scan" /\ UNCHANGED tracker
    BY <1>18, ScanEffect
  <2>2. CASE issues[loc[p].issue].applied[RunAt(p)] > 0 /\ DoneWith(p, loc[p].fp)
    <3>1. Touched(RunAt(p), loc[p].fp)
      BY <1>0, <2>1, <2>2 DEF Listed, InTouch, Touched, Holding, Confirming
    <3> QED BY <1>4, <1>6, <1>8, <2>1, <2>2, <3>1 DEF DoneWith, Confirming
  <2>3. CASE pc'[p] = "comment" /\ loc'[p] = loc[p]
    BY <1>8, <1>11, <2>1, <2>3 DEF Confirming
  <2> QED BY <1>18, <2>2, <2>3, ScanEffect
<1>19. CASE Comment(p)
  <2>1. pc[p] = "comment" /\ Commented(loc[p].issue, RunAt(p)) /\ DoneWith(p, loc[p].fp)
    BY <1>19, CommentEffect
  <2>2. /\ loc[p].issue \in DOMAIN issues /\ Standing(loc[p].issue)
        /\ issues[loc[p].issue].fp = loc[p].fp
        /\ issues[loc[p].issue].applied[RunAt(p)] = 0
    BY <1>0, <2>1 DEF Listed, InTouch, Holding, Confirming
  <2>3. \A g : KeepsTouch(g)
    BY <2>1, TouchKept
  <2>4. ASSUME NEW f, f = loc[p].fp, NEW n, n = loc[p].issue PROVE Touched(RunAt(p), f)'
    <3>1. /\ n \in DOMAIN issues' /\ issues'[n].fp = f /\ Standing(n)'
          /\ issues'[n].applied[RunAt(p)] = 1
      BY <1>2, <2>1, <2>2, <2>4 DEF Commented, Standing
    <3>2. issues'[n].applied[RunAt(p)'] > 0
      BY <1>2, <3>1
    <3> QED BY <3>1, <3>2 DEF Touched
  <2>5. \A f : f = loc[p].fp => Touched(RunAt(p), f)'
    BY <2>4
  <2> QED BY <1>2, <1>4, <1>6, <2>1, <2>3, <2>5, TouchedKept DEF DoneWith, Confirming
<1>20. CASE ConfirmDone(p)
  <2>1. pc[p] = "confirm" /\ UNCHANGED tracker /\ loc[p].left = {}
    BY <1>20, ConfirmDoneEffect
  <2>2. pc'[p] \in {"evidence", "resolve"} /\ loc'[p].deferred = loc[p].deferred
    BY <1>20, ConfirmDoneEffect
  <2> QED BY <1>5, <1>6, <1>8, <2>1, <2>2 DEF Confirming, Resolving, Finishing
<1>21. CASE StartResolve(p)
  <2>1. pc[p] = "resolve" /\ UNCHANGED tracker
    BY <1>21, StartEffect
  <2>2. pc'[p] \in {"fresh", "resolve"} /\ loc'[p].deferred = loc[p].deferred
    BY <1>21, StartEffect DEF TakesUp, SettledWith
  <2> QED BY <1>8, <1>10, <2>1, <2>2 DEF Resolving
<1>22. CASE GetIssue(p)
  <2>1. pc[p] = "fresh" /\ UNCHANGED tracker
    BY <1>22, GetEffect
  <2>2. pc'[p] \in {"resolution_scan", "resolve"} /\ loc'[p].deferred = loc[p].deferred
    BY <1>22, GetEffect DEF SettledWith
  <2> QED BY <1>8, <1>10, <2>1, <2>2 DEF Resolving
<1>23. CASE ScanResolution(p)
  BY <1>8, <1>10, <1>23, ScanResolutionEffect DEF Resolving
<1>24. CASE CommentResolution(p)
  <2>1. \A g : KeepsTouch(g)
    BY <1>24, ResolutionEffect, TouchKept
  <2> QED BY <1>10, <1>24, <2>1, ResolutionEffect DEF Resolving
<1>25. CASE CloseIssue(p)
  <2>1. /\ pc[p] = "close" /\ ClosedAs(loc[p].issue, "resolved")
        /\ SettledWith(p, loc[p].fp)
    BY <1>25, CloseIssueEffect
  <2>2. loc[p].issue \in DOMAIN issues /\ issues[loc[p].issue].fp \notin Drifts
    BY <1>0, <2>1 DEF Listed, InTouch, Holding, Resolving, Drifts
  <2>3. \A g \in Drifts : KeepsTouch(g)
    BY <2>1, <2>2, TouchKept
  <2> QED BY <1>9, <2>1, <2>3 DEF Resolving
<1>26. CASE ResolveDone(p)
  BY <1>8, <1>10, <1>26, ResolveDoneEffect DEF Resolving, Finishing
<1> QED BY <1>12, <1>13, <1>14, <1>15, <1>16, <1>17, <1>18, <1>19, <1>20, <1>21, <1>22, <1>23,
           <1>24, <1>25, <1>26 DEF ActingStep

\* Outside of that a pass has nothing to show, or goes on to its receipt.
LEMMA ShownOutside ==
    ASSUME Inv, VisibleInv, NEW p \in Pass, PassStep(p) \/ Dispatch(p) \/ FailRun(p) \/ Abort(p),
           ~ ActingStep(p)
    PROVE  Shown(p)'
<1> USE DEF Confirming, Resolving, Finishing
<1>0. Shown(p)
  BY DEF VisibleInv
<1>1. CASE pc'[p] \notin Confirming \cup Resolving \cup Finishing
  BY <1>1 DEF Shown
<1>2. CASE ReceiptMissing(p) \/ Validate(p)
  BY <1>1, <1>2, GatesEffect
<1>3. CASE Persist(p)
  BY <1>1, <1>3, PersistEffect
<1>4. CASE LaneViews(p)
  <2>1. Calm /\ \/ pc'[p] = "list"
                \/ pc'[p] = "evidence" /\ (Superseded(RunAt(p)) \/ Body[cur[p]].state # "compared")
    BY <1>4, ViewsEffect
  <2>2. RunAt(p)' = RunAt(p) /\ Superseded(RunAt(p))' = Superseded(RunAt(p)) /\ cur' = cur
    BY <2>1, CalmViews DEF Calm, RunAt
  <2> QED BY <1>1, <2>1, <2>2 DEF Shown
<1>5. CASE FindEvidence(p) \/ Announce(p)
  <2>1. /\ Calm /\ issues' = issues /\ loc'[p] = loc[p] /\ RunAt(p) \in Run
        /\ pc[p] \in Finishing /\ pc'[p] \in Finishing
    BY <1>5, EvidenceEffect, HandFacts
  <2>2. RunAt(p)' = RunAt(p) /\ Superseded(RunAt(p))' = Superseded(RunAt(p)) /\ cur' = cur
    BY <2>1, CalmViews DEF Calm, RunAt
  <2>3. \A f : Touched(RunAt(p), f) => Touched(RunAt(p), f)'
    BY <2>1, <2>2, TouchKept, TouchedKept
  <2> QED BY <1>0, <2>1, <2>2, <2>3 DEF Shown
<1>6. CASE WriteReceipt(p)
  BY <1>1, <1>6, Moves DEF WriteReceipt
<1>7. CASE \/ StartSweep(p) \/ Dispatch(p) \/ NextCandidate(p) \/ EndSweep(p)
           \/ ReadRecord(p) \/ ReceiptFound(p) \/ DeleteStagingRef(p)
           \/ Refuse(p) \/ PersistExists(p) \/ FailRun(p) \/ Abort(p)
  BY <1>1, <1>7, AwayEffect
<1> QED BY <1>2, <1>3, <1>4, <1>5, <1>6, <1>7 DEF PassStep, ActingStep

\* The receipt of a superseded record changes no lane's latest record, that of any
\* other makes it its own lane's latest.
LEMMA ReceiptViews ==
    ASSUME Inv, NEW r \in Run, NEW x, x # None, receipts[r] = None,
           receipts' = [receipts EXCEPT ![r] = x]
    PROVE  /\ \A l : l # LaneOf[r] => Published(l)' = Published(l) /\ Latest(l)' = Latest(l)
           /\ Published(LaneOf[r])' = Published(LaneOf[r]) \cup {r}
           /\ Superseded(r) => Latest(LaneOf[r])' = Latest(LaneOf[r])
           /\ ~ Superseded(r) => Latest(LaneOf[r])' = r
<1> DEFINE own == LaneOf[r]
<1>1. /\ DOMAIN receipts = Run /\ receipts'[r] = x
      /\ \A q \in Run : q # r => receipts'[q] = receipts[q]
  BY DEF Inv, TypeOK, StoreTypes
<1>2. ASSUME NEW l, l # own PROVE Published(l)' = Published(l) /\ Latest(l)' = Latest(l)
  <2>1. Published(l)' = Published(l)
    BY <1>1, <1>2 DEF Published
  <2> QED BY <2>1 DEF Latest
<1>3. Published(own)' = Published(own) \cup {r}
  BY <1>1 DEF Published
<1> DEFINE N == Published(own) \cup {r}
           IsNewest(s) == s \in N /\ \A q \in N : StartedAt[q] <= StartedAt[s]
<1>4. N \subseteq Run /\ \A q \in N : LaneOf[q] = own /\ StartedAt[q] \in Nat
  BY ConstantTypes DEF Published
<1>5. \A s, t : IsNewest(s) /\ IsNewest(t) => s = t
  BY <1>4, DistinctKeys
<1>6. Latest(own)' = CHOOSE s \in N : \A q \in N : StartedAt[q] <= StartedAt[s]
  BY <1>3 DEF Latest
<1>7. \A t : IsNewest(t) => Latest(own)' = t
  BY <1>5, <1>6
<1>8. ASSUME Superseded(r) PROVE IsNewest(Latest(own))
  <2>1. Latest(own) # None /\ StartedAt[Latest(own)] > StartedAt[r]
    BY <1>8 DEF Superseded
  <2>2. Latest(own) \in Published(own) /\ \A q \in Published(own) : StartedAt[q] <= StartedAt[Latest(own)]
    BY <2>1, LatestIsNewest DEF Latest
  <2> QED BY <1>4, <2>1, <2>2
<1>9. ASSUME ~ Superseded(r) PROVE IsNewest(r)
  <2>1. CASE Published(own) = {}
    BY <1>4, <2>1
  <2>2. CASE Published(own) # {}
    <3>1. Latest(own) \in Published(own) /\ \A q \in Published(own) : StartedAt[q] <= StartedAt[Latest(own)]
      BY <2>2, LatestIsNewest
    <3>2. ~ (StartedAt[Latest(own)] > StartedAt[r])
      BY <1>9, <3>1, NoneIsNothing DEF Superseded, Published
    <3> QED BY <1>4, <3>1, <3>2
  <2> QED BY <2>1, <2>2
<1> QED BY <1>2, <1>3, <1>7, <1>8, <1>9

\* A new record changes no lane's latest one.
LEMMA RecordViews ==
    ASSUME Inv, NEW r \in Run, NEW x, records[r] = None,
           records' = [records EXCEPT ![r] = x], receipts' = receipts
    PROVE  /\ \A q \in Run : q # r => records'[q] = records[q]
           /\ \A l : Published(l)' = Published(l) /\ Latest(l)' = Latest(l)
           /\ \A l : r \notin Published(l)
<1>1. \A q \in Run : q # r => records'[q] = records[q]
  BY DEF Inv, TypeOK, StoreTypes
<1>2. \A l : Published(l)' = Published(l) /\ Latest(l)' = Latest(l)
  BY DEF Published, Latest
<1>3. receipts[r] = None
  BY DEF Inv, HistorySound, ReceiptsSound
<1> QED BY <1>1, <1>2, <1>3 DEF Published

\* Publishing a record that shows its drifts keeps them visible.
LEMMA VisibleReceipt ==
    ASSUME Inv, RunsInv, VisibleInv, NEW p \in Pass, WriteReceipt(p)
    PROVE  Visible'
<1>0. PICK r : r = RunAt(p)
  OBVIOUS
<1> DEFINE own == LaneOf[r]
<1>1. /\ pc[p] = "write_receipt" /\ r \in Run /\ own \in Lane /\ cur[p] \in Result /\ cur[p] # None
      /\ records[r] = cur[p] /\ receipts[r] = None
  <2>1. pc[p] = "write_receipt"
    BY DEF WriteReceipt
  <2>2. receipts[r] = None
    BY <1>0, <2>1 DEF RunsInv, FreshRun, Working, Finishing
  <2> QED BY <1>0, <2>1, <2>2, HandFacts, NoneIsNothing DEF Working, Finishing
<1>2. /\ UNCHANGED <<records, issues>>
      /\ receipts' = [receipts EXCEPT ![r] = cur[p]]
      /\ deferred' = [deferred EXCEPT ![r] = loc[p].deferred]
  BY <1>0, <1>1, ReceiptEffect
<1>3. /\ deferred'[r] = loc[p].deferred
      /\ \A q \in Run : q # r => deferred'[q] = deferred[q]
  BY <1>1, <1>2 DEF Inv, TypeOK, StoreTypes
<1>4. \A s, f : Touched(s, f)' <=> Touched(s, f)
  BY <1>2 DEF Touched, Standing
<1>5. \A s : NoneNewer(s)' <=> NoneNewer(s)
  BY <1>2 DEF NoneNewer
<1>6. /\ \A l : l # own => Latest(l)' = Latest(l)
      /\ Superseded(r) => Latest(own)' = Latest(own)
      /\ ~ Superseded(r) => Latest(own)' = r
  BY <1>1, <1>2, ReceiptViews
<1>7. ASSUME NEW l \in Lane, NEW f \in Fingerprint, LatestConfirms(l, f)',
             f \notin deferred'[Latest(l)'], NoneNewer(Latest(l))'
      PROVE  Touched(Latest(l), f)'
  <2>1. CASE Latest(l)' = Latest(l)
    <3>1. LatestConfirms(l, f)
      BY <1>2, <1>7, <2>1 DEF LatestConfirms, LatestCovers
    <3>2. Latest(l) \in Run /\ Latest(l) # r
      BY <1>1, <3>1, LatestFacts DEF LatestConfirms, LatestCovers
    <3>3. f \notin deferred[Latest(l)] /\ NoneNewer(Latest(l))
      BY <1>3, <1>5, <1>7, <2>1, <3>2
    <3>4. Touched(Latest(l), f)
      BY <3>1, <3>3 DEF VisibleInv, Visible
    <3> QED BY <1>4, <2>1, <3>4
  <2>2. CASE Latest(l)' # Latest(l)
    <3>1. l = own /\ ~ Superseded(r) /\ Latest(l)' = r
      BY <1>6, <2>2
    <3>2. Body[cur[p]].state = "compared" /\ f \in Body[cur[p]].confirmed /\ f \notin loc[p].deferred
      BY <1>1, <1>2, <1>3, <1>7, <3>1 DEF LatestConfirms, LatestCovers, Covers
    <3>3. Touched(r, f)
      BY <1>0, <1>1, <3>1, <3>2 DEF VisibleInv, Shown, Finishing
    <3> QED BY <1>4, <3>1, <3>3
  <2> QED BY <2>1, <2>2
<1> QED BY <1>7 DEF Visible

\* So does a new record.
LEMMA VisiblePersist ==
    ASSUME Inv, VisibleInv, NEW p \in Pass, Persist(p)
    PROVE  Visible'
<1> DEFINE r == RunAt(p)
<1>1. /\ r \in Run /\ records[r] = None /\ records' = [records EXCEPT ![r] = cur[p]]
      /\ UNCHANGED <<receipts, deferred, issues>> /\ cur[p] # None
  BY PersistEffect, HandFacts, NoneIsNothing
<1>2. /\ \A q \in Run : q # r => records'[q] = records[q]
      /\ \A l : Latest(l)' = Latest(l)
      /\ \A l : r \notin Published(l)
  BY <1>1, RecordViews
<1> HIDE DEF r
<1>3. ASSUME NEW l \in Lane, NEW f \in Fingerprint, LatestConfirms(l, f)',
             f \notin deferred'[Latest(l)'], NoneNewer(Latest(l))'
      PROVE  Touched(Latest(l), f)'
  <2>1. Latest(l)' = Latest(l) /\ Latest(l) # None /\ Latest(l) # r /\ Latest(l) \in Run
    BY <1>2, <1>3, LatestFacts DEF LatestConfirms, LatestCovers
  <2>2. LatestConfirms(l, f)
    BY <1>2, <1>3, <2>1 DEF LatestConfirms, LatestCovers
  <2>3. NoneNewer(Latest(l))
    BY <1>1, <1>2, <1>3, <2>1 DEF NoneNewer
  <2>4. Touched(Latest(l), f)
    BY <1>1, <1>3, <2>1, <2>2, <2>3 DEF VisibleInv, Visible
  <2> QED BY <1>1, <2>1, <2>4 DEF Touched, Standing
<1> QED BY <1>3 DEF Visible

\* So does a step that leaves the issues of those drifts standing.
LEMMA VisibleKept ==
    ASSUME Inv, VisibleInv, UNCHANGED <<records, receipts, deferred>>,
           \A l \in Lane, f \in Fingerprint :
               LatestConfirms(l, f) /\ NoneNewer(Latest(l)) => KeepsTouch(f)
    PROVE  Visible'
<1>1. ASSUME NEW l \in Lane, NEW f \in Fingerprint, LatestConfirms(l, f)',
             f \notin deferred'[Latest(l)'], NoneNewer(Latest(l))'
      PROVE  Touched(Latest(l), f)'
  <2>1. Latest(l)' = Latest(l) /\ LatestConfirms(l, f)
    BY <1>1, CalmViews
  <2>2. NoneNewer(Latest(l))
    BY <1>1, <2>1 DEF NoneNewer
  <2>3. Latest(l) \in Run
    BY <2>1, LatestFacts DEF LatestConfirms, LatestCovers
  <2>4. Touched(Latest(l), f)
    BY <1>1, <2>1, <2>2 DEF VisibleInv, Visible
  <2>5. \A s \in Run : Touched(s, f) => Touched(s, f)'
    BY <2>1, <2>2, TouchedKept
  <2> QED BY <2>1, <2>3, <2>4, <2>5
<1> QED BY <1>1 DEF Visible

\* A resolution is never of a drift that the latest record of a lane confirms, unless
\* the record in hand is a newer one of that lane.
LEMMA CloseKeepsVisible ==
    ASSUME Inv, RunsInv, IssuesInv, ViewsInv, NEW p \in Pass, CloseIssue(p),
           NEW l \in Lane, NEW f \in Fingerprint, LatestConfirms(l, f), NoneNewer(Latest(l))
    PROVE  KeepsTouch(f)
<1>1. /\ pc[p] = "close" /\ ClosedAs(loc[p].issue, "resolved")
  BY CloseIssueEffect
<1>2. ResolvedBy(p, loc[p].issue)
  BY CloseJustified
<1>3. /\ RunAt(p) \in Run /\ records[RunAt(p)] = cur[p] /\ cur[p] \in Result
      /\ receipts[RunAt(p)] = None /\ ~ Superseded(RunAt(p))
  BY <1>1, <1>2, HandFacts DEF RunsInv, FreshRun, ResolvedBy, Working, Acting, Resolving
<1>4. /\ Latest(l) # None /\ Latest(l) \in Run /\ LaneOf[Latest(l)] = l /\ receipts[Latest(l)] # None
  BY LatestFacts DEF LatestConfirms, LatestCovers
<1>5. ASSUME l = LaneOf[RunAt(p)] PROVE FALSE
  <2>1. StartedAt[RunAt(p)] <= StartedAt[Latest(l)]
    BY <1>3, <1>4, <1>5, NoneIsNothing DEF NoneNewer
  <2>2. ~ (StartedAt[Latest(l)] > StartedAt[RunAt(p)])
    BY <1>3, <1>4, <1>5 DEF Superseded
  <2>3. Latest(l) = RunAt(p)
    BY <1>3, <1>4, <1>5, <2>1, <2>2, DistinctKeys, ConstantTypes
  <2> QED BY <1>3, <1>4, <2>3
<1>6. f # issues[loc[p].issue].fp
  BY <1>2, <1>5 DEF ResolvedBy
<1>7. loc[p].issue \in DOMAIN issues
  BY <1>1, LocType DEF Inv, TypeOK, IssuesInv, Listed, InTouch, Holding, Resolving
<1> QED BY <1>1, <1>6, <1>7, TouchKept

\* Every step keeps it, when there is one pass.
LEMMA VisibleStep ==
    OnePass /\ Inv /\ RunsInv /\ IssuesInv /\ ViewsInv /\ VisibleInv /\ [Next]_vars => VisibleInv'
<1> SUFFICES ASSUME OnePass, Inv, RunsInv, IssuesInv, ViewsInv, VisibleInv, [Next]_vars
             PROVE  VisibleInv'
  OBVIOUS
<1>1. ASSUME UNCHANGED <<records, receipts, deferred>>, \A f : KeepsTouch(f) PROVE Visible'
  BY <1>1, VisibleKept
<1>2. ASSUME NEW p \in Pass, PassStep(p) \/ Dispatch(p) \/ FailRun(p) \/ Abort(p)
      PROVE  VisibleInv'
  <2>1. Shown(p)'
    BY <1>2, ShownActing, ShownOutside
  <2>2. CASE ActingStep(p)
    <3>0. SUFFICES Visible'
      BY <2>1 DEF OnePass, VisibleInv
    <3>1. Calm
      BY <2>2, ActingEffect
    <3>2. CASE CloseIssue(p)
      BY <3>1, <3>2, CloseKeepsVisible, VisibleKept DEF Calm
    <3>3. CASE OpenIssue(p)
      <4>1. \A f : KeepsTouch(f)
        BY <3>3, OpenEffect, TouchKept
      <4> QED BY <1>1, <3>1, <4>1 DEF Calm
    <3>4. CASE Comment(p) \/ CommentResolution(p)
      <4>1. \A f : KeepsTouch(f)
        BY <3>4, CommentEffect, ResolutionEffect, TouchKept
      <4> QED BY <1>1, <3>1, <4>1 DEF Calm
    <3>5. CASE CloseExtra(p)
      BY <3>5 DEF CloseExtra, IssuesInv, InTouch
    <3>6. CASE issues' = issues
      BY <1>1, <3>1, <3>6, TouchKept DEF Calm
    <3> QED BY <2>2, <3>2, <3>3, <3>4, <3>5, <3>6
         DEF ActingStep, ListIssues, TouchOpen, Defer, Relist, ScanComments, ConfirmDone,
             StartResolve, GetIssue, ScanResolution, ResolveDone, tracker
  <2>3. CASE ~ ActingStep(p)
    <3>1. issues' = issues
      BY <1>2, <2>3, OutsideIssues
    <3>2. \/ WriteReceipt(p) \/ Persist(p) \/ UNCHANGED <<records, receipts, deferred>>
      BY <1>2, <2>3, AwayEffect, GatesEffect, ViewsEffect, EvidenceEffect
         DEF PassStep, ActingStep, Calm
    <3>3. Visible'
      BY <1>1, <3>1, <3>2, VisibleReceipt, VisiblePersist, TouchKept
    <3> QED BY <2>1, <3>3 DEF OnePass, VisibleInv
  <2> QED BY <2>2, <2>3
<1>3. CASE UNCHANGED <<records, receipts, deferred, pc, cur, loc>> /\ Tended
  <2>1. \A f : KeepsTouch(f)
    BY <1>3, TouchKept
  <2>2. Visible'
    BY <1>1, <1>3, <2>1
  <2>3. ASSUME NEW p \in Pass PROVE Shown(p)'
    <3>1. Shown(p) /\ RunAt(p)' = RunAt(p) /\ Superseded(RunAt(p))' = Superseded(RunAt(p))
      BY <1>3, CalmViews DEF VisibleInv, RunAt
    <3>2. pc[p] \notin {"idle", "pick"} =>
            \A f : Touched(RunAt(p), f) => Touched(RunAt(p), f)'
      BY <2>1, <3>1, HandFacts, TouchedKept
    <3> QED BY <1>3, <3>1, <3>2 DEF Shown, Confirming, Resolving, Finishing
  <2> QED BY <2>2, <2>3 DEF VisibleInv
<1>4. CASE vars' = vars
  <2>1. UNCHANGED <<records, receipts, deferred, pc, cur, loc, issues>>
    BY <1>4 DEF vars, history, tracker
  <2>2. Tended
    BY <2>1 DEF Tended
  <2> QED BY <1>3, <2>1, <2>2
<1> QED BY <1>2, <1>3, <1>4, OthersEffect DEF Next

\* A drift that a lane's latest record confirms has its issue once the sweeps rest.
THEOREM RegressionVisibleHolds ==
    ASSUME OnePass PROVE Spec => []RegressionVisible
<1>1. Inv /\ VisibleInv => RegressionVisible
  <2> SUFFICES ASSUME Inv, VisibleInv, AtRest, NEW l \in Lane, NEW f \in Fingerprint,
                      LatestConfirms(l, f), f \notin deferred[Latest(l)]
               PROVE  \E n \in DOMAIN issues :
                         /\ issues[n].fp = f
                         /\ \/ issues[n].closed = "no"
                            \/ /\ issues[n].closed = "maintainer"
                               /\ \/ issues[n].by = Latest(l)
                                  \/ issues[n].applied[Latest(l)] > 0
    BY DEF RegressionVisible
  <2>1. Latest(l) \in Published(l) /\ LaneOf[Latest(l)] = l
    BY LatestFacts DEF LatestConfirms, LatestCovers
  <2>2. NoneNewer(Latest(l))
    BY <2>1, LatestIsNewest DEF AtRest, NoneNewer, Published
  <2>3. Touched(Latest(l), f)
    BY <2>2 DEF VisibleInv, Visible
  <2> QED BY <2>3 DEF Touched, Standing
<1>2. Inv /\ RunsInv /\ [Next]_vars => RunsInv'
  BY RunsStep
<1>3. Inv /\ IssuesInv /\ [Next]_vars => IssuesInv'
  BY IssuesStep
<1>4. Inv /\ IssuesInv /\ ViewsInv /\ [Next]_vars => ViewsInv'
  BY ViewsStep
<1>5. Inv /\ RunsInv /\ IssuesInv /\ ViewsInv /\ VisibleInv /\ [Next]_vars => VisibleInv'
  BY VisibleStep
<1> QED BY <1>1, <1>2, <1>3, <1>4, <1>5, InvInit, InvStep, RunsInit, IssuesInit, ViewsInit,
           VisibleInit, PTL DEF Spec

-----------------------------------------------------------------------------
(* Issues that no lane's latest record explains. *)

\* Open, and not kept open by a maintainer.
Live(n) == issues[n].closed = "no" /\ ~ issues[n].keep_open

\* The lane's records take part in every resolution, or none of them ever had to.
LaneReady(l) ==
    /\ Loadable(l)
    /\ \/ LatestIs(l, "compared")
       \/ \A r \in Published(l) : Body[records[r]].state # "compared" /\ r \notin Unloadable

\* A recorded run without a receipt, whose record will resolve issues yet: the sweep
\* that publishes it works through the listing, or its lane has no other compared record.
Pending(s) ==
    /\ records[s] # None /\ receipts[s] = None
    /\ Body[records[s]].state = "compared"
    /\ ~ (Superseded(s) /\ LatestIs(LaneOf[s], "compared"))

\* Why an issue of `f` is open.
Explained(f) ==
    \/ \A l \in Lane : ~ LatestCovers(l, f)
    \/ \E l \in Lane : LatestConfirms(l, f)
    \/ \E s \in Run : Pending(s)

NoStale ==
    (\A l \in Lane : LaneReady(l)) => \A n \in DOMAIN issues : Live(n) => Explained(issues[n].fp)

\* What is still to settle of the listing: while drifts are confirmed every open issue
\* is of one of them or in the listing, then those left are in the listing.
Settling(p) ==
    /\ pc[p] \in Confirming =>
          \A n \in DOMAIN issues : issues[n].closed = "no" =>
              issues[n].fp \in Body[cur[p]].confirmed \/ loc[p].open[issues[n].fp] = n
    /\ pc[p] \in Resolving =>
          \A n \in DOMAIN issues : Live(n) =>
              \/ Stays(p, issues[n].fp)
              \/ issues[n].fp \in loc[p].left /\ loc[p].open[issues[n].fp] = n
    /\ pc[p] \in Finishing =>
          \/ Superseded(RunAt(p)) \/ Body[cur[p]].state # "compared"
          \/ \E l \in Lane \ {LaneOf[RunAt(p)]} : ~ Loadable(l)
          \/ \A n \in DOMAIN issues : Live(n) => Stays(p, issues[n].fp)

StaleInv == NoStale /\ \A p \in Pass : Settling(p)

\* There are no issues at the start.
LEMMA StaleInit == Init => StaleInv
BY DEF Init, StaleInv, NoStale, Settling, Confirming, Resolving, Finishing

\* What leaves an issue open stays so while the published content does.
LEMMA StaysSame ==
    ASSUME Calm, NEW p
    PROVE  \A f : Stays(p, f)' <=> Stays(p, f)
<1>1. /\ \A l, f : LatestCovers(l, f)' = LatestCovers(l, f)
      /\ \A l, f : LatestConfirms(l, f)' = LatestConfirms(l, f)
      /\ RunAt(p)' = RunAt(p) /\ cur' = cur
  BY CalmViews DEF Calm, RunAt
<1> QED BY <1>1 DEF Stays, Covers

\* No step but the creation of an issue makes one live.
FewerLive ==
    /\ DOMAIN issues' = DOMAIN issues
    /\ \A n \in DOMAIN issues :
          /\ issues'[n].fp = issues[n].fp
          /\ issues'[n].closed = "no" => issues[n].closed = "no"
          /\ Live(n)' => Live(n)

\* Which steps those are.
LEMMA LiveFewer ==
    /\ UNCHANGED tracker \/ issues' = issues => FewerLive
    /\ Tended => FewerLive
    /\ \A n, r : Commented(n, r) => FewerLive
    /\ \A n, how : how # "no" /\ ClosedAs(n, how) => FewerLive /\ (n \in DOMAIN issues => ~ Live(n)')
<1>1. UNCHANGED tracker \/ issues' = issues => FewerLive
  BY DEF tracker, FewerLive, Live
<1>2. Tended => FewerLive
  BY DEF Tended, FewerLive, Live
<1>3. \A n, r : Commented(n, r) => FewerLive
  BY DEF Commented, FewerLive, Live
<1>4. \A n, how : how # "no" /\ ClosedAs(n, how) => FewerLive /\ (n \in DOMAIN issues => ~ Live(n)')
  BY DEF ClosedAs, FewerLive, Live
<1> QED BY <1>1, <1>2, <1>3, <1>4

\* A drift that the record in hand confirms is one it covers.
LEMMA ConfirmedStays ==
    ASSUME Inv, NEW p \in Pass, pc[p] \in Acting, Body[cur[p]].state = "compared",
           NEW f \in Body[cur[p]].confirmed
    PROVE  Stays(p, f)
<1>1. /\ RunAt(p) \in Run /\ records[RunAt(p)] = cur[p] /\ cur[p] \in Result /\ cur[p] # None
  BY HandFacts, NoneIsNothing DEF Working, Acting, Confirming, Resolving
<1>2. Body[cur[p]].conformant
  BY <1>1 DEF Inv, HistorySound, RecordsSound
<1>3. f \in Body[cur[p]].covered
  BY <1>1, <1>2, ConformantBodies
<1> QED BY <1>3 DEF Stays, Covers

\* Deciding about the issues settles the listing.
LEMMA SettlingActing ==
    ASSUME Inv, RunsInv, IssuesInv, ViewsInv, StaleInv, NEW p \in Pass, ActingStep(p)
    PROVE  Settling(p)'
<1>0. /\ Listed(p) /\ InTouch(p) /\ Viewed(p) /\ Settling(p) /\ OneOpenIssue
      /\ loc[p].issue \in Nat /\ loc[p].left \subseteq Fingerprint
  BY LocType DEF IssuesInv, ViewsInv, StaleInv, Inv, TypeOK
<1>1. Calm /\ pc[p] \in Acting /\ pc'[p] \in Acting \cup {"evidence"}
  BY ActingEffect
<1>2. /\ RunAt(p) \in Run /\ RunAt(p)' = RunAt(p) /\ cur' = cur
      /\ \A f : Stays(p, f)' <=> Stays(p, f)
      /\ \A l : Loadable(l)' <=> Loadable(l)
  BY <1>1, HandFacts, StaysSame, CalmViews DEF Acting, Confirming, Resolving, Calm, RunAt
<1>3. ~ Superseded(RunAt(p)) /\ Body[cur[p]].state = "compared"
  BY <1>1 DEF RunsInv, FreshRun
<1>4. \A n \in DOMAIN issues : issues[n].fp \in Fingerprint /\ n # 0
  BY IssueFacts
<1> DEFINE Drifts == Body[cur[p]].confirmed
           Ahead(n) == issues[n].fp \in Drifts \/ loc[p].open[issues[n].fp] = n
           Due(n) == \/ Stays(p, issues[n].fp)
                     \/ issues[n].fp \in loc[p].left /\ loc[p].open[issues[n].fp] = n
<1>5. ASSUME pc[p] \in Confirming, pc'[p] \in Confirming, FewerLive, loc'[p].open = loc[p].open
      PROVE  Settling(p)'
  <2>1. \A n \in DOMAIN issues : issues[n].closed = "no" => Ahead(n)
    BY <1>0, <1>5 DEF Settling
  <2>2. \A n \in DOMAIN issues' : issues'[n].closed = "no" =>
           issues'[n].fp \in Body[cur'[p]].confirmed \/ loc'[p].open[issues'[n].fp] = n
    BY <1>2, <1>5, <2>1 DEF FewerLive
  <2> QED BY <1>5, <2>2 DEF Settling, Confirming, Resolving, Finishing
<1>6. ASSUME pc[p] \in Resolving PROVE \A n \in DOMAIN issues : Live(n) => Due(n)
  BY <1>0, <1>6 DEF Settling
<1>7. ASSUME pc'[p] \in Resolving,
             \A n \in DOMAIN issues' : Live(n)' =>
                 \/ Stays(p, issues'[n].fp)
                 \/ issues'[n].fp \in loc'[p].left /\ loc'[p].open[issues'[n].fp] = n
      PROVE  Settling(p)'
  <2>1. \A n \in DOMAIN issues' : Live(n)' => 
                 \/ Stays(p, issues[n].fp)'
                 \/ issues'[n].fp \in loc'[p].left /\ loc'[p].open[issues'[n].fp] = n
    BY <1>2, <1>7 DEF Stays
  <2> QED BY <1>7, <2>1 DEF Settling, Confirming, Resolving, Finishing

<1>8. ASSUME pc[p] \in Resolving, pc'[p] \in Resolving, FewerLive,
             loc'[p].open = loc[p].open, NEW f,
             loc'[p].left = loc[p].left \/ loc'[p].left = loc[p].left \ {f},
             loc'[p].left # loc[p].left =>
                 \/ Stays(p, f)
                 \/ \A n \in DOMAIN issues : loc[p].open[f] = n => ~ Live(n)'
      PROVE  Settling(p)'
  <2>1. ASSUME NEW n \in DOMAIN issues', Live(n)'
        PROVE  \/ Stays(p, issues'[n].fp)
               \/ issues'[n].fp \in loc'[p].left /\ loc'[p].open[issues'[n].fp] = n
    <3>1. n \in DOMAIN issues /\ Live(n) /\ issues'[n].fp = issues[n].fp
      BY <1>8, <2>1 DEF FewerLive
    <3>2. Due(n)
      BY <1>6, <1>8, <3>1
    <3>3. CASE issues[n].fp = f /\ loc'[p].left # loc[p].left
      BY <1>8, <2>1, <3>1, <3>2, <3>3
    <3>4. CASE issues[n].fp # f \/ loc'[p].left = loc[p].left
      BY <1>8, <3>1, <3>2, <3>4
    <3> QED BY <3>3, <3>4
  <2> QED BY <1>7, <1>8, <2>1
<1> HIDE DEF Drifts, Ahead, Due
<1>9. ASSUME NEW f, SettledWith(p, f), pc[p] \in Resolving, FewerLive,
             Stays(p, f) \/ \A n \in DOMAIN issues : loc[p].open[f] = n => ~ Live(n)'
      PROVE  Settling(p)'
  BY <1>8, <1>9 DEF SettledWith, KeepsLists, Resolving
<1>10. CASE ListIssues(p)
  <2>1. /\ pc'[p] = "confirm" /\ issues' = issues
        /\ loc'[p].open = [f \in Fingerprint |-> LowestOrZero(OpenIssues(f))]
    BY <1>10, ListEffect DEF tracker
  <2>2. ASSUME NEW n \in DOMAIN issues, issues[n].closed = "no"
        PROVE  loc'[p].open[issues[n].fp] = n
    <3> DEFINE f == issues[n].fp
    <3>1. OpenIssues(f) = {n} /\ OpenIssues(f) \subseteq Nat
      BY <1>0, <1>4, <2>2, IssueFacts DEF OneOpenIssue, OpenIssues
    <3>2. Lowest(OpenIssues(f)) = n
      <4>1. Lowest(OpenIssues(f)) \in OpenIssues(f)
        BY <3>1, LowestIsMin
      <4> QED BY <3>1, <4>1
    <3> QED BY <1>4, <2>1, <3>1, <3>2 DEF LowestOrZero
  <2> QED BY <2>1, <2>2 DEF Settling, Confirming, Resolving, Finishing
<1>11. CASE TouchOpen(p)
  <2>1. pc[p] = "confirm" /\ UNCHANGED tracker
    BY <1>11, TouchEffect
  <2>2. pc'[p] \in {"confirm", "scan"} /\ loc'[p].open = loc[p].open
    BY <1>11, TouchEffect DEF DoneWith, TakesUp, KeepsLists
  <2> QED BY <1>5, <2>1, <2>2, LiveFewer DEF Confirming
<1>12. CASE Defer(p)
  BY <1>5, <1>12, DeferEffect, LiveFewer DEF KeepsLists, Confirming
<1>13. CASE OpenIssue(p)
  <2>1. /\ pc[p] = "confirm" /\ pc'[p] = "relist"
    BY <1>13, OpenEffect
  <2>2. PICK f \in loc[p].left, n \in Nat : Opened(n, f, RunAt(p)) /\ TakesUp(p, f, n)
    BY <1>13, OpenEffect
  <2>3. f \in Drifts
    BY <2>1, <2>2 DEF Inv, PassSound, Confirming, Drifts
  <2>4. \A m \in DOMAIN issues : issues[m].closed = "no" => Ahead(m)
    BY <1>0, <2>1 DEF Settling, Confirming, Ahead, Drifts
  <2>5. \A m \in DOMAIN issues' : issues'[m].closed = "no" =>
           issues'[m].fp \in Body[cur'[p]].confirmed \/ loc'[p].open[issues'[m].fp] = m
    BY <1>2, <2>2, <2>3, <2>4 DEF Opened, TakesUp, KeepsLists, Ahead, Drifts
  <2> QED BY <2>1, <2>5 DEF Settling, Confirming, Resolving, Finishing
<1>14. CASE Relist(p)
  <2>1. pc[p] = "relist"
    BY <1>14 DEF Relist
  <2>2. UNCHANGED tracker /\ DoneWith(p, loc[p].fp)
    BY <1>0, <1>14, <2>1, RelistEffect DEF InTouch
  <2> QED BY <1>5, <2>1, <2>2, LiveFewer DEF DoneWith, KeepsLists, Confirming
<1>15. CASE CloseExtra(p)
  BY <1>0, <1>15 DEF CloseExtra, InTouch
<1>16. CASE ScanComments(p)
  <2>1. pc[p] = "scan" /\ UNCHANGED tracker
    BY <1>16, ScanEffect
  <2>2. pc'[p] \in {"confirm", "comment"} /\ loc'[p].open = loc[p].open
    BY <1>16, ScanEffect DEF DoneWith, KeepsLists
  <2> QED BY <1>5, <2>1, <2>2, LiveFewer DEF Confirming
<1>17. CASE Comment(p)
  <2>1. pc[p] = "comment" /\ Commented(loc[p].issue, RunAt(p)) /\ DoneWith(p, loc[p].fp)
    BY <1>17, CommentEffect
  <2>2. FewerLive
    BY <2>1, LiveFewer
  <2> QED BY <1>5, <2>1, <2>2 DEF DoneWith, KeepsLists, Confirming
<1>18. CASE ConfirmDone(p)
  <2>1. pc[p] = "confirm" /\ UNCHANGED tracker
    BY <1>18, ConfirmDoneEffect
  <2>2. CASE loc[p].views = None /\ pc'[p] = "evidence" /\ loc'[p] = loc[p]
    <3>1. ViewsFor(RunAt(p)) = None
      BY <1>0, <2>1, <2>2 DEF Viewed, Acting, Confirming
    <3>2. \E l \in Lane \ {LaneOf[RunAt(p)]} : ~ Loadable(l)
      <4> SUFFICES ASSUME \A l \in Lane \ {LaneOf[RunAt(p)]} : Loadable(l) PROVE FALSE
        OBVIOUS
      <4>1. ViewsFor(RunAt(p)) \in [Lane -> Run \cup {None}]
        BY <1>2, LatestType DEF ViewsFor
      <4> QED BY <3>1, <4>1, NoneIsNothing
    <3> QED BY <1>2, <2>2, <3>2 DEF Settling, Confirming, Resolving, Finishing
  <2>3. CASE /\ pc'[p] = "resolve" /\ loc'[p].open = loc[p].open
             /\ loc'[p].left = {f \in Fingerprint : loc[p].open[f] # 0} \ Body[cur[p]].confirmed
    <3>1. ASSUME NEW n \in DOMAIN issues, Live(n)
          PROVE  \/ Stays(p, issues[n].fp)
                 \/ issues[n].fp \in loc'[p].left /\ loc'[p].open[issues[n].fp] = n
      <4>1. issues[n].fp \in Body[cur[p]].confirmed \/ loc[p].open[issues[n].fp] = n
        BY <1>0, <2>1, <3>1 DEF Settling, Confirming, Live
      <4>2. CASE issues[n].fp \in Body[cur[p]].confirmed
        BY <1>1, <1>3, <4>2, ConfirmedStays
      <4>3. CASE issues[n].fp \notin Body[cur[p]].confirmed
        BY <1>4, <2>3, <4>1, <4>3
      <4> QED BY <4>2, <4>3
    <3>2. FewerLive /\ issues' = issues
      BY <2>1, LiveFewer DEF tracker
    <3> QED BY <1>7, <2>3, <3>1, <3>2 DEF FewerLive, Resolving
  <2> QED BY <1>18, <2>2, <2>3, ConfirmDoneEffect DEF KeepsLists
<1>19. CASE StartResolve(p)
  <2>1. pc[p] = "resolve" /\ UNCHANGED tracker
    BY <1>19, StartEffect
  <2>2. PICK f : \/ pc'[p] = "fresh" /\ TakesUp(p, f, loc[p].open[f])
                 \/ ~ Resolvable(p, f) /\ SettledWith(p, f)
    BY <1>19, StartEffect
  <2>3. FewerLive
    BY <2>1, LiveFewer
  <2>4. CASE pc'[p] = "fresh" /\ TakesUp(p, f, loc[p].open[f])
    BY <1>8, <2>1, <2>3, <2>4 DEF TakesUp, KeepsLists, Resolving
  <2>5. CASE ~ Resolvable(p, f) /\ SettledWith(p, f)
    <3>1. Stays(p, f)
      BY <1>0, <2>1, <2>5, Decision DEF Viewed, Acting, Resolving
    <3> QED BY <1>9, <2>1, <2>3, <2>5, <3>1 DEF Resolving
  <2> QED BY <2>2, <2>4, <2>5
<1>20. CASE GetIssue(p)
  <2>1. pc[p] = "fresh" /\ UNCHANGED tracker
    BY <1>20, GetEffect
  <2>2. FewerLive /\ issues' = issues
    BY <2>1, LiveFewer DEF tracker
  <2>3. CASE /\ issues[loc[p].issue].closed # "no" \/ issues[loc[p].issue].keep_open
             /\ SettledWith(p, loc[p].fp)
    <3>1. loc[p].issue = loc[p].open[loc[p].fp] /\ ~ Live(loc[p].issue)
      BY <1>0, <2>1, <2>3 DEF InTouch, Holding, Live
    <3>2. \A n \in DOMAIN issues : loc[p].open[loc[p].fp] = n => ~ Live(n)'
      BY <2>2, <3>1 DEF Live
    <3> QED BY <1>9, <2>1, <2>2, <2>3, <3>2 DEF Resolving
  <2>4. CASE pc'[p] = "resolution_scan" /\ loc'[p] = loc[p]
    BY <1>8, <2>1, <2>2, <2>4 DEF Resolving
  <2> QED BY <1>20, <2>3, <2>4, GetEffect
<1>21. CASE ScanResolution(p)
  <2>1. FewerLive
    BY <1>21, ScanResolutionEffect, LiveFewer
  <2> QED BY <1>8, <1>21, <2>1, ScanResolutionEffect DEF Resolving
<1>22. CASE CommentResolution(p)
  <2>1. FewerLive
    BY <1>22, ResolutionEffect, LiveFewer
  <2> QED BY <1>8, <1>22, <2>1, ResolutionEffect DEF Resolving
<1>23. CASE CloseIssue(p)
  <2>1. /\ pc[p] = "close" /\ ClosedAs(loc[p].issue, "resolved")
        /\ SettledWith(p, loc[p].fp)
    BY <1>23, CloseIssueEffect
  <2>2. FewerLive
    BY <2>1, LiveFewer
  <2>3. \A n \in DOMAIN issues : loc[p].open[loc[p].fp] = n => ~ Live(n)'
    BY <1>0, <2>1, LiveFewer DEF InTouch, Holding
  <2> QED BY <1>9, <2>1, <2>2, <2>3 DEF Resolving
<1>24. CASE ResolveDone(p)
  <2>1. /\ pc[p] = "resolve" /\ pc'[p] = "evidence" /\ UNCHANGED tracker /\ loc[p].left = {}
    BY <1>24, ResolveDoneEffect
  <2>2. FewerLive
    BY <2>1, LiveFewer
  <2>3. ASSUME NEW n \in DOMAIN issues', Live(n)' PROVE Stays(p, issues'[n].fp)
    BY <1>6, <2>1, <2>2, <2>3 DEF FewerLive, Due, Resolving
  <2>4. \A n \in DOMAIN issues' : Live(n)' => Stays(p, issues[n].fp)'
    BY <1>2, <2>3 DEF Stays
  <2> QED BY <2>1, <2>4 DEF Settling, Confirming, Resolving, Finishing
<1> QED BY <1>10, <1>11, <1>12, <1>13, <1>14, <1>15, <1>16, <1>17, <1>18, <1>19, <1>20, <1>21, <1>22,
           <1>23, <1>24 DEF ActingStep

\* Outside of that a pass has nothing to settle, or goes on to its receipt.
LEMMA SettlingOutside ==
    ASSUME Inv, StaleInv, NEW p \in Pass, PassStep(p) \/ Dispatch(p) \/ FailRun(p) \/ Abort(p),
           ~ ActingStep(p)
    PROVE  Settling(p)'
<1> USE DEF Confirming, Resolving, Finishing
<1>0. Settling(p)
  BY DEF StaleInv
<1>1. CASE pc'[p] \notin Confirming \cup Resolving \cup Finishing
  BY <1>1 DEF Settling
<1>2. CASE ReceiptMissing(p) \/ Validate(p)
  BY <1>1, <1>2, GatesEffect
<1>3. CASE Persist(p)
  BY <1>1, <1>3, PersistEffect
<1>4. CASE LaneViews(p)
  <2>1. Calm /\ \/ pc'[p] = "list"
                \/ pc'[p] = "evidence" /\ (Superseded(RunAt(p)) \/ Body[cur[p]].state # "compared")
    BY <1>4, ViewsEffect
  <2>2. RunAt(p)' = RunAt(p) /\ Superseded(RunAt(p))' = Superseded(RunAt(p)) /\ cur' = cur
    BY <2>1, CalmViews DEF Calm, RunAt
  <2> QED BY <1>1, <2>1, <2>2 DEF Settling
<1>5. CASE FindEvidence(p) \/ Announce(p)
  <2>1. Calm /\ issues' = issues /\ pc[p] \in Finishing /\ pc'[p] \in Finishing
    BY <1>5, EvidenceEffect
  <2>2. /\ RunAt(p)' = RunAt(p) /\ Superseded(RunAt(p))' = Superseded(RunAt(p)) /\ cur' = cur
        /\ \A l : Loadable(l)' = Loadable(l)
        /\ \A f : Stays(p, f)' <=> Stays(p, f)
    BY <2>1, CalmViews, StaysSame DEF Calm, RunAt
  <2>3. \A n : Live(n)' <=> Live(n)
    BY <2>1 DEF Live
  <2> QED BY <1>0, <2>1, <2>2, <2>3 DEF Settling
<1>6. CASE WriteReceipt(p)
  BY <1>1, <1>6, Moves DEF WriteReceipt
<1>7. CASE \/ StartSweep(p) \/ Dispatch(p) \/ NextCandidate(p) \/ EndSweep(p)
           \/ ReadRecord(p) \/ ReceiptFound(p) \/ DeleteStagingRef(p)
           \/ Refuse(p) \/ PersistExists(p) \/ FailRun(p) \/ Abort(p)
  BY <1>1, <1>7, AwayEffect
<1> QED BY <1>2, <1>3, <1>4, <1>5, <1>6, <1>7 DEF PassStep, ActingStep

\* While a pass decides about the issues its own run is pending, which explains them all.
LEMMA ActingExplains ==
    ASSUME Inv, RunsInv, NEW p \in Pass, ActingStep(p)
    PROVE  NoStale'
<1>1. Calm /\ pc[p] \in Acting
  BY ActingEffect
<1>2. /\ RunAt(p) \in Run /\ records[RunAt(p)] = cur[p] /\ cur[p] # None
      /\ receipts[RunAt(p)] = None
      /\ ~ Superseded(RunAt(p)) /\ Body[cur[p]].state = "compared"
  BY <1>1, HandFacts, NoneIsNothing
     DEF RunsInv, FreshRun, Working, Acting, Confirming, Resolving
<1>3. PICK r \in Run : r = RunAt(p)
  BY <1>2
<1>4. Pending(r)'
  BY <1>1, <1>2, <1>3, CalmViews DEF Pending, Calm
<1> QED BY <1>4 DEF NoStale, Explained

\* Nothing else that leaves the published content alone makes an issue live.
LEMMA CalmExplains ==
    ASSUME StaleInv, UNCHANGED <<records, receipts>>, FewerLive
    PROVE  NoStale'
<1>1. \A l : LaneReady(l)' = LaneReady(l)
  BY CalmViews DEF LaneReady
<1>2. \A s : Pending(s)' = Pending(s)
  BY CalmViews DEF Pending
<1>3. \A f : Explained(f)' = Explained(f)
  BY <1>2, CalmViews DEF Explained
<1>4. \A n \in DOMAIN issues' : Live(n)' => n \in DOMAIN issues /\ Live(n) /\ issues'[n].fp = issues[n].fp
  BY DEF FewerLive
<1>5. (\A l \in Lane : LaneReady(l)') => \A n \in DOMAIN issues' : Live(n)' => Explained(issues'[n].fp)
  BY <1>1, <1>4 DEF StaleInv, NoStale
<1>6. (\A l \in Lane : LaneReady(l)') => \A n \in DOMAIN issues' : Live(n)' => Explained(issues[n].fp)'
  BY <1>3, <1>5 DEF Explained
<1> QED BY <1>6 DEF NoStale

\* A new record takes nothing back.
LEMMA PersistExplains ==
    ASSUME Inv, StaleInv, NEW p \in Pass, Persist(p)
    PROVE  NoStale'
<1>1. /\ records[RunAt(p)] = None /\ RunAt(p) \in Run
      /\ records' = [records EXCEPT ![RunAt(p)] = cur[p]]
      /\ UNCHANGED <<receipts, issues>>
  BY PersistEffect, HandFacts
<1>2. /\ \A q \in Run : q # RunAt(p) => records'[q] = records[q]
      /\ \A l : Published(l)' = Published(l) /\ Latest(l)' = Latest(l)
      /\ \A l : RunAt(p) \notin Published(l)
  BY <1>1, RecordViews
<1>3. ASSUME NEW l PROVE \A r \in Published(l) : records'[r] = records[r]
  BY <1>2 DEF Published
<1>4. ASSUME NEW l \in Lane
      PROVE  Latest(l) # None => Latest(l) \in Published(l) /\ records'[Latest(l)] = records[Latest(l)]
  BY <1>3, LatestFacts
<1>5. \A l \in Lane : LaneReady(l)' = LaneReady(l)
  BY <1>2, <1>3, <1>4 DEF LaneReady, Loadable, LatestIs
<1>6. \A l \in Lane : \A f : LatestCovers(l, f)' = LatestCovers(l, f)
  BY <1>2, <1>4 DEF LatestCovers
<1>7. \A l \in Lane : \A f : LatestConfirms(l, f)' = LatestConfirms(l, f)
  BY <1>2, <1>4, <1>6 DEF LatestConfirms, LatestCovers
<1>8. \A s \in Run : Pending(s) => Pending(s)'
  <2> SUFFICES ASSUME NEW s \in Run, Pending(s) PROVE Pending(s)'
    OBVIOUS
  <2>1. s # RunAt(p) /\ records'[s] = records[s] /\ LaneOf[s] \in Lane
    BY <1>1, <1>2, ConstantTypes DEF Pending
  <2>2. Superseded(s)' = Superseded(s) /\ LatestIs(LaneOf[s], "compared")' = LatestIs(LaneOf[s], "compared")
    BY <1>2, <1>4, <2>1 DEF Superseded, LatestIs
  <2> QED BY <1>1, <2>1, <2>2 DEF Pending
<1>9. \A f : Explained(f) => Explained(f)'
  BY <1>6, <1>7, <1>8 DEF Explained
<1>10. \A n \in DOMAIN issues : issues'[n] = issues[n] /\ (Live(n)' = Live(n))
  BY <1>1 DEF Live
<1> QED BY <1>1, <1>5, <1>9, <1>10 DEF StaleInv, NoStale

\* A receipt for a superseded record, for one that leaves the issues alone, or for one
\* that has settled them, leaves no issue without a reason.
LEMMA ReceiptExplains ==
    ASSUME Inv, RunsInv, StaleInv, NEW p \in Pass, WriteReceipt(p)
    PROVE  NoStale'
<1>0. PICK r : r = RunAt(p)
  OBVIOUS
<1> DEFINE own == LaneOf[r]
<1>1. /\ pc[p] = "write_receipt" /\ r \in Run /\ own \in Lane /\ cur[p] \in Result /\ cur[p] # None
      /\ records[r] = cur[p] /\ receipts[r] = None
  <2>1. pc[p] = "write_receipt"
    BY DEF WriteReceipt
  <2>2. receipts[r] = None
    BY <1>0, <2>1 DEF RunsInv, FreshRun, Working, Finishing
  <2> QED BY <1>0, <2>1, <2>2, HandFacts, NoneIsNothing DEF Working, Finishing
<1>2. /\ UNCHANGED <<records, issues>>
      /\ receipts' = [receipts EXCEPT ![r] = cur[p]]
  BY <1>0, <1>1, ReceiptEffect
<1>3. /\ \A l : l # own => Published(l)' = Published(l) /\ Latest(l)' = Latest(l)
      /\ Published(own)' = Published(own) \cup {r}
      /\ Superseded(r) => Latest(own)' = Latest(own)
      /\ ~ Superseded(r) => Latest(own)' = r
  BY <1>1, <1>2, ReceiptViews
<1>4. \A s \in Run : s # r => receipts'[s] = receipts[s]
  BY <1>2 DEF Inv, TypeOK, StoreTypes
<1>5. ASSUME NEW l, Latest(l)' = Latest(l)
      PROVE  /\ Loadable(l)' = Loadable(l)
             /\ \A s : LatestIs(l, s)' = LatestIs(l, s)
             /\ \A f : LatestCovers(l, f)' = LatestCovers(l, f)
             /\ \A f : LatestConfirms(l, f)' = LatestConfirms(l, f)
  BY <1>2, <1>5 DEF Loadable, LatestIs, LatestCovers, LatestConfirms
<1> SUFFICES ASSUME \A l \in Lane : LaneReady(l)', NEW n \in DOMAIN issues, Live(n),
                    NEW f, f = issues[n].fp
             PROVE  Explained(f)'
  <2>1. \A n \in DOMAIN issues : issues'[n] = issues[n] /\ Live(n)' = Live(n)
    BY <1>2 DEF Live
  <2> QED BY <1>2, <2>1 DEF NoStale
<1>6. ASSUME NEW l \in Lane, l # own PROVE LaneReady(l)
  BY <1>2, <1>3, <1>5, <1>6 DEF LaneReady
<1>7. LaneReady(own)'
  BY <1>1
<1>8. CASE Superseded(r)
  <2>1. \A l \in Lane : Latest(l)' = Latest(l)
    BY <1>3, <1>8
  <2>2. LaneReady(own)
    BY <1>2, <1>3, <1>5, <1>7, <1>8 DEF LaneReady
  <2>3. Explained(f)
    BY <1>6, <2>2 DEF StaleInv, NoStale
  <2>4. ASSUME NEW s \in Run, Pending(s) PROVE Pending(s)'
    <3>1. CASE s = r
      <4>1. Body[cur[p]].state = "compared" /\ ~ LatestIs(own, "compared")
        BY <1>1, <1>8, <2>4, <3>1 DEF Pending
      <4>2. r \in Published(own)' /\ ~ LatestIs(own, "compared")'
        BY <1>3, <1>5, <2>1, <4>1, <1>8
      <4> QED BY <1>1, <1>2, <1>7, <4>1, <4>2 DEF LaneReady
    <3>2. CASE s # r
      <4>1. Latest(LaneOf[s])' = Latest(LaneOf[s])
        BY <2>1, ConstantTypes
      <4>2. Superseded(s)' = Superseded(s)
        BY <4>1 DEF Superseded
      <4> QED BY <1>2, <1>4, <1>5, <2>4, <3>2, <4>1, <4>2 DEF Pending
    <3> QED BY <3>1, <3>2
  <2> QED BY <1>5, <2>1, <2>3, <2>4 DEF Explained
<1>9. CASE ~ Superseded(r) /\ Body[cur[p]].state = "compared"
  <2>1. Stays(p, f)
    <3>1. \A l \in Lane \ {own} : Loadable(l)
      BY <1>6 DEF LaneReady
    <3> QED BY <1>0, <1>1, <1>9, <3>1 DEF StaleInv, Settling, Finishing
  <2>2. Latest(own)' = r /\ r # None
    BY <1>1, <1>3, <1>9, NoneIsNothing
  <2>3. /\ LatestCovers(own, f)' <=> Covers(cur[p], f)
        /\ LatestConfirms(own, f)' <=> Covers(cur[p], f) /\ f \in Body[cur[p]].confirmed
    BY <1>1, <1>2, <2>2 DEF LatestCovers, LatestConfirms
  <2>4. \A l \in Lane \ {own} : /\ LatestCovers(l, f)' = LatestCovers(l, f)
                                /\ LatestConfirms(l, f)' = LatestConfirms(l, f)
    BY <1>3, <1>5
  <2> QED BY <1>0, <1>1, <2>1, <2>3, <2>4 DEF Explained, Stays
<1>10. CASE ~ Superseded(r) /\ Body[cur[p]].state # "compared"
  <2>1. Latest(own)' = r /\ r # None
    BY <1>1, <1>3, <1>10, NoneIsNothing
  <2>2. \A q \in Published(own) \cup {r} : Body[records[q]].state # "compared" /\ q \notin Unloadable
    BY <1>1, <1>2, <1>3, <1>7, <1>10, <2>1 DEF LaneReady, LatestIs
  <2>3. LaneReady(own)
    <3>1. Latest(own) # None => Latest(own) \in Published(own) /\ records[Latest(own)] # None
      BY <1>1, LatestFacts, NoneIsNothing
    <3> QED BY <2>2, <3>1 DEF LaneReady, Loadable
  <2>4. Explained(f)
    BY <1>6, <2>3 DEF StaleInv, NoStale
  <2>5. \A g : ~ LatestCovers(own, g) /\ ~ LatestCovers(own, g)'
    <3>1. Latest(own) # None => Latest(own) \in Published(own)
      BY LatestIsNewest DEF Latest
    <3> QED BY <1>1, <1>2, <1>10, <2>1, <2>2, <3>1 DEF LatestCovers, Covers
  <2>6. ASSUME NEW l \in Lane, l # own
        PROVE  /\ LatestCovers(l, f)' = LatestCovers(l, f)
               /\ LatestConfirms(l, f)' = LatestConfirms(l, f)
    BY <1>3, <1>5, <2>6
  <2>7. ASSUME NEW s \in Run, Pending(s) PROVE Pending(s)'
    <3>1. s # r
      BY <1>1, <1>10, <2>7 DEF Pending
    <3>2. CASE LaneOf[s] = own
      <4>1. ~ LatestIs(own, "compared")'
        BY <1>1, <1>2, <1>10, <2>1 DEF LatestIs
      <4> QED BY <1>2, <1>4, <2>7, <3>1, <3>2, <4>1 DEF Pending
    <3>3. CASE LaneOf[s] # own
      <4>1. Latest(LaneOf[s])' = Latest(LaneOf[s])
        BY <1>3, <3>3
      <4>2. Superseded(s)' = Superseded(s)
        BY <4>1 DEF Superseded
      <4> QED BY <1>2, <1>4, <1>5, <2>7, <3>1, <4>1, <4>2 DEF Pending
    <3> QED BY <3>2, <3>3
  <2>8. LatestConfirms(own, f) => LatestCovers(own, f)
    BY DEF LatestConfirms
  <2> QED BY <2>4, <2>5, <2>6, <2>7, <2>8 DEF Explained
<1> QED BY <1>8, <1>9, <1>10

\* Every step keeps it, when there is one pass.
LEMMA StaleStep ==
    OnePass /\ Inv /\ RunsInv /\ IssuesInv /\ ViewsInv /\ StaleInv /\ [Next]_vars => StaleInv'
<1> SUFFICES ASSUME OnePass, Inv, RunsInv, IssuesInv, ViewsInv, StaleInv, [Next]_vars
             PROVE  StaleInv'
  OBVIOUS
<1>1. ASSUME NEW p \in Pass, PassStep(p) \/ Dispatch(p) \/ FailRun(p) \/ Abort(p)
      PROVE  StaleInv'
  <2>1. Settling(p)'
    BY <1>1, SettlingActing, SettlingOutside
  <2>2. NoStale'
    <3>1. CASE ActingStep(p)
      BY <3>1, ActingExplains
    <3>2. CASE WriteReceipt(p) \/ Persist(p)
      BY <3>2, ReceiptExplains, PersistExplains
    <3>3. CASE ~ ActingStep(p) /\ ~ WriteReceipt(p) /\ ~ Persist(p)
      <4>1. issues' = issues
        BY <1>1, <3>3, OutsideIssues
      <4>2. UNCHANGED <<records, receipts>>
        BY <1>1, <3>3, AwayEffect, GatesEffect, ViewsEffect, EvidenceEffect
           DEF PassStep, ActingStep, Calm
      <4> QED BY <4>1, <4>2, LiveFewer, CalmExplains
    <3> QED BY <3>1, <3>2, <3>3
  <2> QED BY <2>1, <2>2 DEF OnePass, StaleInv
<1>2. CASE UNCHANGED <<records, receipts, deferred, pc, cur, loc>> /\ Tended
  <2>1. FewerLive
    BY <1>2, LiveFewer
  <2>2. NoStale'
    BY <1>2, <2>1, CalmExplains
  <2>3. ASSUME NEW p \in Pass PROVE Settling(p)'
    <3>1. /\ Settling(p) /\ RunAt(p)' = RunAt(p) /\ Superseded(RunAt(p))' = Superseded(RunAt(p))
          /\ \A l : Loadable(l)' = Loadable(l)
          /\ \A f : Stays(p, f)' <=> Stays(p, f)
      BY <1>2, CalmViews, StaysSame DEF StaleInv, RunAt, Calm
    <3>2. \A n \in DOMAIN issues' : /\ n \in DOMAIN issues /\ issues'[n].fp = issues[n].fp
                                    /\ issues'[n].closed = "no" => issues[n].closed = "no"
                                    /\ Live(n)' => Live(n)
      BY <2>1 DEF FewerLive
    <3>3. pc[p] \in Confirming =>
             \A n \in DOMAIN issues' : issues'[n].closed = "no" =>
                 issues'[n].fp \in Body[cur[p]].confirmed \/ loc[p].open[issues'[n].fp] = n
      BY <3>1, <3>2 DEF Settling
    <3>4. pc[p] \in Resolving =>
             \A n \in DOMAIN issues' : Live(n)' =>
                 \/ Stays(p, issues'[n].fp)
                 \/ issues'[n].fp \in loc[p].left /\ loc[p].open[issues'[n].fp] = n
      BY <3>1, <3>2 DEF Settling
    <3>5. pc[p] \in Finishing =>
             \/ Superseded(RunAt(p)) \/ Body[cur[p]].state # "compared"
             \/ \E l \in Lane \ {LaneOf[RunAt(p)]} : ~ Loadable(l)
             \/ \A n \in DOMAIN issues' : Live(n)' => Stays(p, issues'[n].fp)
      BY <3>1, <3>2 DEF Settling
    <3> QED BY <1>2, <3>1, <3>3, <3>4, <3>5 DEF Settling
  <2> QED BY <2>2, <2>3 DEF StaleInv
<1>3. CASE vars' = vars
  <2>1. UNCHANGED <<records, receipts, deferred, pc, cur, loc, issues>>
    BY <1>3 DEF vars, history, tracker
  <2>2. Tended
    BY <2>1 DEF Tended
  <2> QED BY <1>2, <2>1, <2>2
<1> QED BY <1>1, <1>2, <1>3, OthersEffect DEF Next

\* At rest an issue is open only for a drift that some lane's latest record confirms,
\* or that none of them covers.
THEOREM NoStaleIssueHolds ==
    ASSUME OnePass PROVE Spec => []NoStaleIssue
<1>1. StaleInv => NoStaleIssue
  <2> SUFFICES ASSUME NoStale, AtRest, \A l \in Lane : LaneReady(l),
                      NEW n \in DOMAIN issues, Live(n)
               PROVE  \/ \A l \in Lane : ~ LatestCovers(l, issues[n].fp)
                      \/ \E l \in Lane : LatestConfirms(l, issues[n].fp)
    BY DEF StaleInv, NoStaleIssue, LaneReady, Live
  <2>1. Explained(issues[n].fp)
    BY DEF NoStale
  <2>2. \A s \in Run : ~ Pending(s)
    BY DEF AtRest, Pending
  <2> QED BY <2>1, <2>2 DEF Explained
<1>2. Inv /\ RunsInv /\ [Next]_vars => RunsInv'
  BY RunsStep
<1>3. Inv /\ IssuesInv /\ [Next]_vars => IssuesInv'
  BY IssuesStep
<1>4. Inv /\ IssuesInv /\ ViewsInv /\ [Next]_vars => ViewsInv'
  BY ViewsStep
<1>5. Inv /\ RunsInv /\ IssuesInv /\ ViewsInv /\ StaleInv /\ [Next]_vars => StaleInv'
  BY StaleStep
<1> QED BY <1>1, <1>2, <1>3, <1>4, <1>5, InvInit, InvStep, RunsInit, IssuesInit, ViewsInit,
           StaleInit, PTL DEF Spec

=============================================================================
