--------------------------- MODULE Watchdog_proofs ---------------------------
(* Proofs about Watchdog: type correctness for any passes, and its safety        *)
(* properties for passes that run one at a time, any of which may die between   *)
(* two of its calls. (Passes that overlap break them: see the README.)          *)
EXTENDS Watchdog, FiniteSetTheorems, SequenceTheorems, WellFoundedInduction, TLAPS

-----------------------------------------------------------------------------
(* The lowest issue and the newest record.                                     *)

\* Every set of issue numbers that is not empty has a lowest one.
LEMMA LeastElement ==
    ASSUME NEW S \in SUBSET Nat, S # {}
    PROVE  Lowest(S) \in S /\ \A m \in S : Lowest(S) <= m
<1>1. PICK n \in S : \A m \in S : ~ (<<m, n>> \in OpToRel(<, Nat))
  BY NatLessThanWellFounded, WFMin, Zenon
<1>2. \A m \in S : ~ (m < n)
  BY <1>1, Zenon DEF OpToRel
<1>3. \A m \in S : n <= m
  BY <1>2
<1> QED  BY <1>3 DEF Lowest


\* Of finitely many receipts one is the newest, so `latest` names one of them.
LEMMA LatestExists ==
    ASSUME NEW S \in SUBSET Run, IsFiniteSet(S), S # {}
    PROVE  \E r \in S : Newer(S, r) = {}
<1> DEFINE Count(r) == Cardinality(Newer(S, r))
           Counts == {Count(r) : r \in S}
<1>1. \A r \in S : Newer(S, r) \in SUBSET S /\ IsFiniteSet(Newer(S, r)) /\ Count(r) \in Nat
  BY FS_Subset, FS_CardinalityType DEF Newer
<1>2. Counts \in SUBSET Nat /\ Counts # {}
  BY <1>1
<1> HIDE DEF Counts
<1>3. Lowest(Counts) \in Counts /\ \A m \in Counts : Lowest(Counts) <= m
  BY <1>2, LeastElement
<1>4. PICK r \in S : \A q \in S : Count(r) <= Count(q)
  BY <1>3 DEF Counts
<1>5. ASSUME NEW q \in Newer(S, r)  PROVE FALSE
  <2>1. q \in S /\ RunInfo[q].started > RunInfo[r].started
    BY DEF Newer
  <2>2. Newer(S, q) \in SUBSET Newer(S, r) /\ q \notin Newer(S, q)
    BY <2>1, ConstantTypes DEF Newer, RunFacts
  <2>3. Count(q) <= Count(r) /\ (Count(r) = Count(q) => Newer(S, r) = Newer(S, q))
    BY <2>2, <1>1, FS_Subset
  <2> QED  BY <2>1, <2>2, <2>3, <1>4, <1>1, <1>5
<1> QED  BY <1>5

-----------------------------------------------------------------------------
(* The inductive invariants. *)

\* The workflow's concurrency group: there is one pass, which starts again when
\* it has ended, and nobody runs another by hand meanwhile.
OnePass == \A p, q \in Pass : p = q

\* A lane is in hand from its judgement to its reconciliation.
OfAlarm == {"relist", "extras", "stamps", "notice"}
OfRecovery == {"scan", "resolution", "close"}
InHand == {"create"} \cup OfAlarm \cup OfRecovery
Judged == {"judge"} \cup InHand
Active == Label \ {"idle", "done"}

\* What the pass at hand needs its variables to be, beyond their types.
HandTyped(p) ==
    /\ pc[p] \in InHand => loc[p].lane \in Lane
    /\ pc[p] = "create" => Overdue(p, loc[p].lane)
    /\ pc[p] \in OfAlarm => loc[p].kept \in DOMAIN issues
    /\ pc[p] \in OfRecovery =>
          loc[p].left # {} /\ loc[p].record[loc[p].lane] # None
    /\ loc[p].left \subseteq DOMAIN issues
    /\ \A l \in Lane : loc[p].open[l] \subseteq DOMAIN issues

\* The record read of a lane is a published scheduled one of that lane.
RecordsRead(p) ==
    \A l \in Lane : LET r == loc[p].record[l] IN
        r # None => r \in receipted /\ RunInfo[r].lane = l /\ RunInfo[r].qualifies

TypeInv ==
    /\ TypeOK
    /\ IsFiniteSet(receipted)
    /\ \A p \in Pass : HandTyped(p) /\ RecordsRead(p)

\* NoticeRate: the stamps that a pass goes by are on the issue it reminds of.
NoticeInv ==
    /\ NoticeRate
    /\ \A p \in Pass : pc[p] = "notice" => NoticeDue(p)

\* ResolvedOnce: the record has no comment when one is due, and has it at the close.
NotYetResolved(p) == issues[Lowest(loc[p].left)].resolved[loc[p].record[loc[p].lane]] = 0
Announced(p) == issues[Lowest(loc[p].left)].resolved[loc[p].record[loc[p].lane]] > 0
ResolvedInv ==
    /\ ResolvedOnce
    /\ \A p \in Pass :
          /\ pc[p] = "resolution" => NotYetResolved(p)
          /\ pc[p] = "close" => Announced(p)

\* OneAlarm: what is listed of a lane that is still to do is what is open.
OnlyAlarm(l) == \A m, n \in OpenIssues(l) : m = n

Listed(p) ==
    pc[p] \in Judged =>
        \A l \in loc[p].todo :
            pc[p] = "judge" \/ l # loc[p].lane => loc[p].open[l] = OpenIssues(l)

HandOpen(p) ==
    LET l == loc[p].lane IN
    /\ pc[p] = "create" => OpenIssues(l) = {}
    /\ pc[p] \in OfAlarm => OpenIssues(l) = {loc[p].kept}
    /\ pc[p] \in OfAlarm \ {"relist"} => loc[p].left = {}
    /\ pc[p] \in OfRecovery => OpenIssues(l) = loc[p].left

AlarmInv ==
    /\ \A l \in Lane : OnlyAlarm(l)
    /\ \A p \in Pass : Listed(p) /\ HandOpen(p)

\* What a pass has judged of the lane in hand; of any passes.
HandJudged(p) ==
    /\ pc[p] \in {"status", "list"} => loc[p].todo = Lane
    /\ pc[p] \in InHand => loc[p].lane \in loc[p].todo
    /\ pc[p] \in InHand \ OfRecovery => Overdue(p, loc[p].lane)
    /\ pc[p] \in OfRecovery => ~ Overdue(p, loc[p].lane) /\ FromRecord(p, loc[p].lane)

JudgedInv == \A p \in Pass : HandJudged(p)

\* An alarm was late when it was opened, so it is late for every later pass.
Late(n, t) == t > issues[n].reference + MaxGap[issues[n].lane]
GapInv ==
    /\ \A n \in DOMAIN issues :
          /\ Late(n, now)
          /\ \A p \in Pass : pc[p] \in Active => Late(n, loc[p].now)
    /\ \A p \in Pass : pc[p] \in Active => loc[p].now <= now

\* What the status comment is going to say.
RowTrue(p, l) ==
    /\ loc[p].result[l] = LowestOrZero(OpenIssues(l))
    /\ Overdue(p, l) => OpenIssues(l) # {}
    /\ ~ Overdue(p, l) /\ FromRecord(p, l) => OpenIssues(l) = {}

Rows(p) ==
    pc[p] \in Judged \cup {"publish"} => \A l \in Lane \ loc[p].todo : RowTrue(p, l)

RowsInv == \A p \in Pass : Rows(p)

\* The sweep that the status comment names is never later than the clock.
LastKnown(p) ==
    /\ pc[p] = "publish" =>
          /\ loc[p].todo = {}
          /\ loc[p].kept = IF health = <<>> THEN 0 ELSE 1
          /\ loc[p].last = IF health = <<>> THEN None ELSE health[1].last
    /\ pc[p] \in Active /\ health # <<>> /\ health[1].last # None =>
          health[1].last <= loc[p].now

LastInv ==
    /\ health # <<>> /\ health[1].last # None => health[1].last <= now
    /\ \A p \in Pass : LastKnown(p)

\* The record that a read of a lane finds is a published scheduled one of the lane.
LEMMA LatestTyped ==
    ASSUME TypeInv, NEW l \in Lane
    PROVE  \/ LatestRecord(l) = None
           \/ /\ LatestRecord(l) \in receipted
              /\ RunInfo[LatestRecord(l)].lane = l /\ RunInfo[LatestRecord(l)].qualifies
<1> DEFINE found == Qualified(Scanned(l))
<1>1. found \in SUBSET LaneReceipts(l) /\ \A r \in found : RunInfo[r].qualifies
  BY DEF Qualified, Scanned
<1>2. LaneReceipts(l) \in SUBSET receipted /\ \A r \in LaneReceipts(l) : RunInfo[r].lane = l
  BY DEF LaneReceipts
<1>3. found \in SUBSET receipted /\ found \in SUBSET Run /\ IsFiniteSet(found)
  BY <1>1, <1>2, FS_Subset DEF TypeInv, TypeOK
<1>4. CASE found = {}
  BY <1>4 DEF LatestRecord
<1>5. CASE found # {}
  <2>1. LatestRecord(l) = CHOOSE r \in found : Newer(found, r) = {}
    BY <1>5 DEF LatestRecord
  <2> HIDE DEF found
  <2>2. LatestRecord(l) \in found
    BY <2>1, <1>3, <1>5, LatestExists
  <2> QED  BY <2>2, <1>1, <1>2, <1>3
<1> QED  BY <1>4, <1>5

-----------------------------------------------------------------------------
(* What each step does to the pass that takes it. *)

Others(p) ==
    /\ pc' \in [Pass -> Label] /\ loc' \in [Pass -> Locals]
    /\ \A q \in Pass \ {p} : pc'[q] = pc[q] /\ loc'[q] = loc[q]

SameFacts(p) ==
    /\ loc'[p].now = loc[p].now /\ loc'[p].sweep_ok = loc[p].sweep_ok
    /\ loc'[p].expected = loc[p].expected

SameRead(p) ==
    /\ SameFacts(p)
    /\ loc'[p].record = loc[p].record /\ loc'[p].open = loc[p].open

SameWork(p) ==
    /\ loc'[p].todo = loc[p].todo /\ loc'[p].result = loc[p].result

SameStores == UNCHANGED <<world, tracker>>

LEMMA Assigned ==
    ASSUME TypeOK, NEW p \in Pass, NEW v \in Locals, NEW label \in Label,
           Remember(p, v), Enter(p, label)
    PROVE  Others(p) /\ loc'[p] = v /\ pc'[p] = label
  BY DEF TypeOK, Remember, Enter, Others

LEMMA FreshTyped == Fresh \in Locals
  BY NoneIsNothing DEF Fresh, Locals, Instant

LEMMA StartEffect ==
    ASSUME TypeOK, NEW p \in Pass, StartPass(p)
    PROVE  /\ Others(p) /\ SameStores /\ UNCHANGED failures
           /\ pc[p] = "idle" /\ pc'[p] = "status"
           /\ loc'[p].now = now /\ loc'[p].todo = Lane /\ loc'[p].left = {}
           /\ \A l \in Lane : loc'[p].record[l] = None /\ loc'[p].open[l] = {}
<1>1. PICK ok \in SweepOutcome :
          Remember(p, [Fresh EXCEPT !.now = now, !.sweep_ok = ok, !.expected = expected,
                                    !.unread = Lane, !.todo = Lane])
  BY DEF StartPass
<1> DEFINE v == [Fresh EXCEPT !.now = now, !.sweep_ok = ok, !.expected = expected,
                              !.unread = Lane, !.todo = Lane]
<1>2. /\ v \in Locals /\ v.now = now /\ v.todo = Lane /\ v.left = {}
      /\ \A l \in Lane : v.record[l] = None /\ v.open[l] = {}
  <2>1. now \in Nat /\ ok \in BOOLEAN /\ expected \in [Lane -> Instant]
    BY ConstantTypes DEF TypeOK
  <2>2. v \in Locals
    BY <2>1, FreshTyped DEF Locals
  <2>3. v.now = now /\ v.todo = Lane /\ v.left = Fresh.left
        /\ v.record = Fresh.record /\ v.open = Fresh.open
    BY FreshTyped DEF Locals
  <2> QED  BY <2>2, <2>3 DEF Fresh
<1>3. Remember(p, v) /\ Enter(p, "status") /\ "status" \in Label
  BY <1>1 DEF StartPass, Label
<1> HIDE DEF v
<1>4. Others(p) /\ loc'[p] = v /\ pc'[p] = "status"
  BY <1>2, <1>3, Assigned
<1> QED  BY <1>2, <1>4 DEF StartPass, SameStores

LEMMA ReadEffect ==
    ASSUME TypeInv, NEW p \in Pass, ReadLane(p)
    PROVE  /\ Others(p) /\ SameStores /\ UNCHANGED failures
           /\ pc[p] = "status" /\ pc'[p] \in {"status", "list"}
           /\ SameFacts(p) /\ SameWork(p)
           /\ loc'[p].open = loc[p].open /\ loc'[p].left = loc[p].left
           /\ \A l \in Lane : \/ loc'[p].record[l] = loc[p].record[l]
                              \/ loc'[p].record[l] = LatestRecord(l)
<1>1. PICK l \in loc[p].unread :
          /\ Remember(p, [loc[p] EXCEPT !.unread = @ \ {l}, !.record[l] = LatestRecord(l)])
          /\ Enter(p, IF loc[p].unread = {l} THEN "list" ELSE "status")
  BY DEF ReadLane
<1> DEFINE v == [loc[p] EXCEPT !.unread = @ \ {l}, !.record[l] = LatestRecord(l)]
           label == IF loc[p].unread = {l} THEN "list" ELSE "status"
<1>2. l \in Lane /\ loc[p] \in Locals
  BY <1>1 DEF TypeInv, TypeOK, Locals
<1>3. LatestRecord(l) \in Run \cup {None}
  BY LatestTyped, <1>2 DEF TypeInv, TypeOK
<1>4. /\ v \in Locals /\ v.now = loc[p].now /\ v.sweep_ok = loc[p].sweep_ok
      /\ v.expected = loc[p].expected /\ v.todo = loc[p].todo /\ v.result = loc[p].result
      /\ v.open = loc[p].open /\ v.left = loc[p].left
      /\ v.record = [loc[p].record EXCEPT ![l] = LatestRecord(l)]
  BY <1>2, <1>3 DEF Locals
<1>5. label \in Label /\ label \in {"status", "list"}
  BY DEF Label
<1>6. Remember(p, v) /\ Enter(p, label)
  BY <1>1
<1> HIDE DEF v, label
<1>7. Others(p) /\ loc'[p] = v /\ pc'[p] = label
  BY <1>4, <1>5, <1>6, Assigned DEF TypeInv
<1>8. loc[p].record \in [Lane -> Run \cup {None}]
  BY <1>2 DEF Locals
<1> QED  BY <1>4, <1>5, <1>7, <1>8 DEF ReadLane, SameStores, SameFacts, SameWork

LEMMA ListEffect ==
    ASSUME TypeInv, NEW p \in Pass, ListIssues(p)
    PROVE  /\ Others(p) /\ SameStores /\ UNCHANGED failures
           /\ pc[p] = "list" /\ pc'[p] = "judge"
           /\ SameFacts(p) /\ SameWork(p)
           /\ loc'[p].record = loc[p].record /\ loc'[p].left = loc[p].left
           /\ \A l \in Lane : loc'[p].open[l] = OpenIssues(l)
<1> DEFINE v == [loc[p] EXCEPT !.open = [l \in Lane |-> OpenIssues(l)]]
<1>1. loc[p] \in Locals /\ \A l \in Lane : OpenIssues(l) \in SUBSET Nat
  BY DEF TypeInv, TypeOK, OpenIssues
<1>2. /\ v \in Locals /\ v.now = loc[p].now /\ v.sweep_ok = loc[p].sweep_ok
      /\ v.expected = loc[p].expected /\ v.todo = loc[p].todo /\ v.result = loc[p].result
      /\ v.record = loc[p].record /\ v.left = loc[p].left
      /\ v.open = [l \in Lane |-> OpenIssues(l)]
  BY <1>1 DEF Locals
<1>3. Remember(p, v) /\ Enter(p, "judge") /\ "judge" \in Label
  BY DEF ListIssues, Label
<1> HIDE DEF v
<1>4. Others(p) /\ loc'[p] = v /\ pc'[p] = "judge"
  BY <1>2, <1>3, Assigned DEF TypeInv
<1> QED  BY <1>2, <1>4 DEF ListIssues, SameStores, SameFacts, SameWork

(* The lane in hand. *)

DoneWith(p, l, n) ==
    /\ pc'[p] = "judge" /\ SameRead(p)
    /\ loc'[p].todo = loc[p].todo \ {l}
    /\ loc'[p].result = [loc[p].result EXCEPT ![l] = n]
    /\ loc'[p].left = {}

LEMMA ReconciledEffect ==
    ASSUME TypeOK, NEW p \in Pass, NEW l, NEW n \in Nat, Reconciled(p, l, n)
    PROVE  Others(p) /\ DoneWith(p, l, n)
<1> DEFINE v == [loc[p] EXCEPT !.todo = @ \ {l}, !.result[l] = n, !.lane = None,
                               !.left = {}, !.kept = 0, !.opened = FALSE]
<1>1. loc[p] \in Locals
  BY DEF TypeOK
<1>2. /\ v \in Locals /\ v.now = loc[p].now /\ v.sweep_ok = loc[p].sweep_ok
      /\ v.expected = loc[p].expected /\ v.record = loc[p].record /\ v.open = loc[p].open
      /\ v.todo = loc[p].todo \ {l} /\ v.left = {}
      /\ v.result = [loc[p].result EXCEPT ![l] = n]
  BY <1>1 DEF Locals
<1>3. Remember(p, v) /\ Enter(p, "judge") /\ "judge" \in Label
  BY DEF Reconciled, Label
<1> HIDE DEF v
<1> QED  BY <1>2, <1>3, Assigned DEF DoneWith, SameRead, SameFacts

LEMMA LowestTyped ==
    ASSUME NEW S \in SUBSET Nat
    PROVE  /\ S # {} => Lowest(S) \in S
           /\ LowestOrZero(S) \in Nat
           /\ S = {} => LowestOrZero(S) = 0
           /\ \A n : S = {n} => Lowest(S) = n /\ LowestOrZero(S) = n
  BY LeastElement DEF LowestOrZero

LEMMA JudgeEffect ==
    ASSUME TypeInv, NEW p \in Pass, Judge(p)
    PROVE  /\ Others(p) /\ SameStores /\ UNCHANGED failures /\ pc[p] = "judge" /\ SameRead(p)
           /\ \E l \in loc[p].todo : LET listed == loc[p].open[l] IN
                \/ /\ Overdue(p, l) /\ listed = {} /\ pc'[p] = "create"
                   /\ SameWork(p) /\ loc'[p].lane = l /\ loc'[p].left = loc[p].left
                \/ /\ Overdue(p, l) /\ listed # {} /\ pc'[p] = "extras"
                   /\ SameWork(p) /\ loc'[p].lane = l /\ loc'[p].kept = Lowest(listed)
                   /\ loc'[p].left = listed \ {Lowest(listed)}
                \/ /\ ~ Overdue(p, l) /\ FromRecord(p, l) /\ listed # {} /\ pc'[p] = "scan"
                   /\ SameWork(p) /\ loc'[p].lane = l /\ loc'[p].left = listed
                \/ /\ ~ Overdue(p, l) /\ (~ FromRecord(p, l) \/ listed = {})
                   /\ DoneWith(p, l, LowestOrZero(listed))
<1>1. PICK l \in loc[p].todo :
        LET listed == loc[p].open[l] IN
        CASE Overdue(p, l) /\ listed = {} ->
                Enter(p, "create") /\ Remember(p, [loc[p] EXCEPT !.lane = l])
          [] Overdue(p, l) /\ listed # {} ->
                /\ Enter(p, "extras")
                /\ Remember(p, [loc[p] EXCEPT !.lane = l, !.kept = Lowest(listed),
                                              !.left = listed \ {Lowest(listed)}])
          [] ~ Overdue(p, l) /\ FromRecord(p, l) /\ listed # {} ->
                Enter(p, "scan") /\ Remember(p, [loc[p] EXCEPT !.lane = l, !.left = listed])
          [] OTHER -> Reconciled(p, l, LowestOrZero(listed))
  BY DEF Judge
<1> DEFINE listed == loc[p].open[l]
           v1 == [loc[p] EXCEPT !.lane = l]
           v2 == [loc[p] EXCEPT !.lane = l, !.kept = Lowest(listed),
                                !.left = listed \ {Lowest(listed)}]
           v3 == [loc[p] EXCEPT !.lane = l, !.left = listed]
<1>2. loc[p] \in Locals /\ l \in Lane /\ listed \in SUBSET Nat
  BY DEF TypeInv, TypeOK, Locals
<1>3. SameStores /\ UNCHANGED failures /\ pc[p] = "judge"
  BY DEF Judge, SameStores
<1>4. CASE Overdue(p, l) /\ listed = {}
  <2>1. Remember(p, v1) /\ Enter(p, "create") /\ "create" \in Label
    BY <1>1, <1>4 DEF Label
  <2>2. /\ v1 \in Locals /\ v1.now = loc[p].now /\ v1.sweep_ok = loc[p].sweep_ok
        /\ v1.expected = loc[p].expected /\ v1.record = loc[p].record /\ v1.open = loc[p].open
        /\ v1.todo = loc[p].todo /\ v1.result = loc[p].result /\ v1.lane = l
        /\ v1.left = loc[p].left
    BY <1>2 DEF Locals
  <2> HIDE DEF v1
  <2>3. Others(p) /\ loc'[p] = v1 /\ pc'[p] = "create"
    BY <2>1, <2>2, Assigned DEF TypeInv
  <2> QED  BY <2>2, <2>3, <1>3, <1>4 DEF SameRead, SameFacts, SameWork
<1>5. CASE Overdue(p, l) /\ listed # {}
  <2>1. Remember(p, v2) /\ Enter(p, "extras") /\ "extras" \in Label
    BY <1>1, <1>5 DEF Label
  <2>2. Lowest(listed) \in Nat
    BY <1>2, <1>5, LowestTyped
  <2>3. /\ v2 \in Locals /\ v2.now = loc[p].now /\ v2.sweep_ok = loc[p].sweep_ok
        /\ v2.expected = loc[p].expected /\ v2.record = loc[p].record /\ v2.open = loc[p].open
        /\ v2.todo = loc[p].todo /\ v2.result = loc[p].result /\ v2.lane = l
        /\ v2.kept = Lowest(listed) /\ v2.left = listed \ {Lowest(listed)}
    BY <1>2, <2>2 DEF Locals
  <2> HIDE DEF v2
  <2>4. Others(p) /\ loc'[p] = v2 /\ pc'[p] = "extras"
    BY <2>1, <2>3, Assigned DEF TypeInv
  <2> QED  BY <2>3, <2>4, <1>3, <1>5 DEF SameRead, SameFacts, SameWork
<1>6. CASE ~ Overdue(p, l) /\ FromRecord(p, l) /\ listed # {}
  <2>1. Remember(p, v3) /\ Enter(p, "scan") /\ "scan" \in Label
    BY <1>1, <1>6 DEF Label
  <2>2. /\ v3 \in Locals /\ v3.now = loc[p].now /\ v3.sweep_ok = loc[p].sweep_ok
        /\ v3.expected = loc[p].expected /\ v3.record = loc[p].record /\ v3.open = loc[p].open
        /\ v3.todo = loc[p].todo /\ v3.result = loc[p].result /\ v3.lane = l
        /\ v3.left = listed
    BY <1>2 DEF Locals
  <2> HIDE DEF v3
  <2>3. Others(p) /\ loc'[p] = v3 /\ pc'[p] = "scan"
    BY <2>1, <2>2, Assigned DEF TypeInv
  <2> QED  BY <2>2, <2>3, <1>3, <1>6 DEF SameRead, SameFacts, SameWork
<1>7. CASE ~ Overdue(p, l) /\ (~ FromRecord(p, l) \/ listed = {})
  <2>1. Reconciled(p, l, LowestOrZero(listed))
    BY <1>1, <1>7
  <2>2. Others(p) /\ DoneWith(p, l, LowestOrZero(listed))
    BY <2>1, <1>2, LowestTyped, ReconciledEffect DEF TypeInv
  <2> QED  BY <2>2, <1>3, <1>7 DEF DoneWith
<1> QED  BY <1>4, <1>5, <1>6, <1>7

\* What the steps do to the issues.
SameKeys(n) ==
    issues'[n].lane = issues[n].lane /\ issues'[n].reference = issues[n].reference

LEMMA AppendEffect ==
    ASSUME TypeOK, NEW i \in Issue, issues' = Append(issues, i)
    PROVE  /\ issues' \in Seq(Issue) /\ DOMAIN issues' = DOMAIN issues \cup {Len(issues) + 1}
           /\ Len(issues) + 1 \notin DOMAIN issues /\ Len(issues) + 1 \in Nat
           /\ issues'[Len(issues) + 1] = i
           /\ \A n \in DOMAIN issues : issues'[n] = issues[n]
  BY DEF TypeOK

LEMMA SameLength ==
    ASSUME NEW S, NEW s \in Seq(S), NEW n, NEW e, n \in DOMAIN s => e \in S
    PROVE  [s EXCEPT ![n] = e] \in Seq(S)
<1>1. Len(s) \in Nat /\ s \in [1..Len(s) -> S]
  BY LenProperties
<1>2. [s EXCEPT ![n] = e] \in [1..Len(s) -> S]
  BY <1>1
<1> QED  BY <1>1, <1>2, SeqDef

LEMMA CloseEffect ==
    ASSUME TypeOK, NEW n, NEW how \in {"resolved", "duplicate"}, Close(n, how)
    PROVE  /\ issues' \in Seq(Issue) /\ DOMAIN issues' = DOMAIN issues
           /\ \A m \in DOMAIN issues :
                 /\ SameKeys(m) /\ issues'[m].stamps = issues[m].stamps
                 /\ issues'[m].resolved = issues[m].resolved
                 /\ issues'[m].closed = IF m = n /\ issues[m].closed = "no" THEN how
                                        ELSE issues[m].closed
<1>1. issues \in Seq(Issue) /\ issues' = [issues EXCEPT ![n] = Closed(issues[n], how)]
  BY DEF TypeOK, Close
<1>2. \A m \in DOMAIN issues : issues[m] \in Issue
  BY <1>1
<1>3. DOMAIN issues' = DOMAIN issues /\ \A m \in DOMAIN issues :
         issues'[m] = IF m = n THEN Closed(issues[m], how) ELSE issues[m]
  BY <1>1
<1>4. ASSUME NEW i \in Issue
      PROVE  LET c == Closed(i, how) IN
             /\ c \in Issue /\ c.lane = i.lane /\ c.reference = i.reference
             /\ c.stamps = i.stamps /\ c.resolved = i.resolved
             /\ c.closed = IF i.closed = "no" THEN how ELSE i.closed
  BY DEF Closed, Issue
<1>5. \A m \in DOMAIN issues : issues'[m] \in Issue
  BY <1>2, <1>3, <1>4
<1>6. issues' \in Seq(Issue)
  BY <1>1, <1>2, <1>4, SameLength
<1> QED  BY <1>2, <1>3, <1>4, <1>6 DEF SameKeys

LEMMA ReferenceTyped ==
    ASSUME TypeOK, NEW p \in Pass, NEW l \in Lane, Overdue(p, l)
    PROVE  Reference(p, l) \in Nat
<1>1. loc[p].record[l] \in Run \cup {None} /\ loc[p].expected[l] \in Nat \cup {None}
  BY DEF TypeOK, Locals, Instant
<1>2. \A r \in Run : RunInfo[r].finished \in Nat
  BY ConstantTypes DEF RunFacts
<1> QED  BY <1>1, <1>2 DEF Overdue, Reference, FromRecord

LEMMA OpenEffect ==
    ASSUME TypeInv, NEW p \in Pass, OpenIssue(p)
    PROVE  /\ Others(p) /\ UNCHANGED <<world, health, failures>>
           /\ pc[p] = "create" /\ pc'[p] = "relist" /\ SameRead(p) /\ SameWork(p)
           /\ loc'[p].lane = loc[p].lane /\ loc'[p].left = loc[p].left
           /\ loc'[p].kept = Len(issues) + 1
           /\ \E i \in Issue :
                 /\ issues' = Append(issues, i)
                 /\ i.lane = loc[p].lane /\ i.reference = Reference(p, loc[p].lane)
                 /\ i.stamps = <<loc[p].now>> /\ i.closed = "no"
                 /\ \A r \in Run : i.resolved[r] = 0
<1>1. loc[p] \in Locals /\ loc[p].lane \in Lane /\ Overdue(p, loc[p].lane)
  BY DEF TypeInv, TypeOK, HandTyped, OpenIssue, InHand
<1>2. Reference(p, loc[p].lane) \in Nat
  BY <1>1, ReferenceTyped DEF TypeInv
<1> DEFINE v == [loc[p] EXCEPT !.kept = Len(issues) + 1, !.opened = TRUE]
           i == [lane |-> loc[p].lane, reference |-> Reference(p, loc[p].lane),
                 stamps |-> <<loc[p].now>>,
                 resolved |-> [r \in Run |-> 0], closed |-> "no"]
<1>3. Len(issues) + 1 \in Nat
  BY DEF TypeInv, TypeOK
<1>4. /\ v \in Locals /\ v.now = loc[p].now /\ v.sweep_ok = loc[p].sweep_ok
      /\ v.expected = loc[p].expected /\ v.record = loc[p].record /\ v.open = loc[p].open
      /\ v.todo = loc[p].todo /\ v.result = loc[p].result /\ v.lane = loc[p].lane
      /\ v.left = loc[p].left /\ v.kept = Len(issues) + 1
  BY <1>1, <1>3 DEF Locals
<1>5. <<loc[p].now>> \in Seq(Nat)
  BY <1>1 DEF Locals
<1>6. i \in Issue
  BY <1>1, <1>2, <1>5 DEF Issue
<1>7. Remember(p, v) /\ Enter(p, "relist") /\ "relist" \in Label /\ issues' = Append(issues, i)
  BY DEF OpenIssue, Label
<1>8. Others(p) /\ loc'[p] = v /\ pc'[p] = "relist"
  <2> HIDE DEF v
  <2> QED  BY <1>4, <1>7, Assigned DEF TypeInv
<1>9. \E j \in Issue :
         /\ issues' = Append(issues, j)
         /\ j.lane = loc[p].lane /\ j.reference = Reference(p, loc[p].lane)
         /\ j.stamps = <<loc[p].now>> /\ j.closed = "no"
         /\ \A r \in Run : j.resolved[r] = 0
  BY <1>6, <1>7
<1> HIDE DEF v, i
<1> QED  BY <1>4, <1>8, <1>9 DEF OpenIssue, SameRead, SameFacts, SameWork

LEMMA RelistEffect ==
    ASSUME TypeInv, NEW p \in Pass, Relist(p)
    PROVE  /\ Others(p) /\ SameStores /\ UNCHANGED failures
           /\ pc[p] = "relist" /\ pc'[p] = "extras" /\ SameRead(p) /\ SameWork(p)
           /\ loc'[p].lane = loc[p].lane
           /\ LET listed == OpenIssues(loc[p].lane) IN
                /\ loc'[p].kept = IF listed = {} THEN loc[p].kept ELSE Lowest(listed)
                /\ loc'[p].left = listed \ {loc'[p].kept}
<1> DEFINE listed == OpenIssues(loc[p].lane)
           kept == IF listed = {} THEN loc[p].kept ELSE Lowest(listed)
           v == [loc[p] EXCEPT !.kept = kept, !.left = listed \ {kept}]
<1>1. loc[p] \in Locals /\ listed \in SUBSET Nat
  BY DEF TypeInv, TypeOK, OpenIssues
<1>2. kept \in Nat
  BY <1>1, LowestTyped DEF Locals
<1>3. /\ v \in Locals /\ v.now = loc[p].now /\ v.sweep_ok = loc[p].sweep_ok
      /\ v.expected = loc[p].expected /\ v.record = loc[p].record /\ v.open = loc[p].open
      /\ v.todo = loc[p].todo /\ v.result = loc[p].result /\ v.lane = loc[p].lane
      /\ v.left = listed \ {kept} /\ v.kept = kept
  <2> HIDE DEF listed, kept
  <2> QED  BY <1>1, <1>2 DEF Locals
<1>4. Remember(p, v) /\ Enter(p, "extras") /\ "extras" \in Label
  BY DEF Relist, Label
<1>5. Others(p) /\ loc'[p] = v /\ pc'[p] = "extras"
  <2> HIDE DEF v
  <2> QED  BY <1>3, <1>4, Assigned DEF TypeInv
<1> HIDE DEF v
<1> QED  BY <1>3, <1>5 DEF Relist, SameStores, SameRead, SameFacts, SameWork

LEMMA ExtraEffect ==
    ASSUME TypeInv, NEW p \in Pass, CloseExtra(p)
    PROVE  /\ Others(p) /\ UNCHANGED <<world, health, failures>>
           /\ pc[p] = "extras" /\ pc'[p] = "extras" /\ SameRead(p) /\ SameWork(p)
           /\ loc'[p].lane = loc[p].lane /\ loc'[p].kept = loc[p].kept
           /\ loc[p].left # {} /\ loc'[p].left = loc[p].left \ {Lowest(loc[p].left)}
           /\ Close(Lowest(loc[p].left), "duplicate")
<1> DEFINE v == [loc[p] EXCEPT !.left = @ \ {Lowest(@)}]
<1>1. loc[p] \in Locals
  BY DEF TypeInv, TypeOK
<1>2. /\ v \in Locals /\ v.now = loc[p].now /\ v.sweep_ok = loc[p].sweep_ok
      /\ v.expected = loc[p].expected /\ v.record = loc[p].record /\ v.open = loc[p].open
      /\ v.todo = loc[p].todo /\ v.result = loc[p].result /\ v.lane = loc[p].lane
      /\ v.left = loc[p].left \ {Lowest(loc[p].left)} /\ v.kept = loc[p].kept
  BY <1>1 DEF Locals
<1>3. Remember(p, v) /\ pc' = pc
  BY DEF CloseExtra
<1>4. Others(p) /\ loc'[p] = v /\ pc'[p] = pc[p]
  <2> HIDE DEF v
  <2> QED  BY <1>2, <1>3 DEF TypeInv, TypeOK, Remember, Others
<1> HIDE DEF v
<1> QED  BY <1>2, <1>4 DEF CloseExtra, SameRead, SameFacts, SameWork

LEMMA ExtrasDoneEffect ==
    ASSUME TypeInv, NEW p \in Pass, ExtrasDone(p)
    PROVE  /\ Others(p) /\ SameStores /\ UNCHANGED failures
           /\ pc[p] = "extras" /\ loc[p].left = {}
           /\ \/ DoneWith(p, loc[p].lane, loc[p].kept)
              \/ pc'[p] = "stamps" /\ loc'[p] = loc[p]
<1>1. loc[p].kept \in Nat
  BY DEF TypeInv, TypeOK, Locals
<1>2. CASE loc[p].opened
  <2>1. Reconciled(p, loc[p].lane, loc[p].kept)
    BY <1>2 DEF ExtrasDone
  <2>2. Others(p) /\ DoneWith(p, loc[p].lane, loc[p].kept)
    BY <2>1, <1>1, ReconciledEffect DEF TypeInv
  <2> QED  BY <2>2 DEF ExtrasDone, SameStores
<1>3. CASE ~ loc[p].opened
  BY <1>3 DEF ExtrasDone, SameStores, Enter, Others, TypeInv, TypeOK, Label
<1> QED  BY <1>2, <1>3

LEMMA StampsEffect ==
    ASSUME TypeInv, NEW p \in Pass, ReadStamps(p)
    PROVE  /\ Others(p) /\ SameStores /\ UNCHANGED failures /\ pc[p] = "stamps"
           /\ \/ DoneWith(p, loc[p].lane, loc[p].kept)
              \/ NoticeDue(p) /\ pc'[p] = "notice" /\ loc'[p] = loc[p]
<1>1. loc[p].kept \in Nat
  BY DEF TypeInv, TypeOK, Locals
<1>2. CASE ~ NoticeDue(p)
  <2>1. Reconciled(p, loc[p].lane, loc[p].kept)
    BY <1>2 DEF ReadStamps
  <2>2. Others(p) /\ DoneWith(p, loc[p].lane, loc[p].kept)
    BY <2>1, <1>1, ReconciledEffect DEF TypeInv
  <2> QED  BY <2>2 DEF ReadStamps, SameStores
<1>3. CASE NoticeDue(p)
  BY <1>3 DEF ReadStamps, SameStores, Enter, Others, TypeInv, TypeOK, Label
<1> QED  BY <1>2, <1>3

LEMMA NoticeEffect ==
    ASSUME TypeInv, NEW p \in Pass, PostNotice(p)
    PROVE  /\ Others(p) /\ UNCHANGED <<world, health, failures>>
           /\ pc[p] = "notice" /\ DoneWith(p, loc[p].lane, loc[p].kept)
           /\ issues' \in Seq(Issue) /\ DOMAIN issues' = DOMAIN issues
           /\ \A n \in DOMAIN issues :
                 /\ SameKeys(n) /\ issues'[n].resolved = issues[n].resolved
                 /\ issues'[n].closed = issues[n].closed
                 /\ issues'[n].stamps = IF n = loc[p].kept
                                        THEN Append(issues[n].stamps, loc[p].now)
                                        ELSE issues[n].stamps
<1>1. loc[p].kept \in Nat /\ loc[p].now \in Nat /\ issues \in Seq(Issue)
  BY DEF TypeInv, TypeOK, Locals
<1>2. Reconciled(p, loc[p].lane, loc[p].kept)
  BY DEF PostNotice
<1>3. Others(p) /\ DoneWith(p, loc[p].lane, loc[p].kept)
  BY <1>1, <1>2, ReconciledEffect DEF TypeInv
<1> DEFINE n == loc[p].kept
           i == [issues[n] EXCEPT !.stamps = Append(@, loc[p].now)]
<1>4. issues' = [issues EXCEPT ![n] = i]
  BY DEF PostNotice
<1>5. n \in DOMAIN issues =>
         /\ i \in Issue /\ i.lane = issues[n].lane /\ i.reference = issues[n].reference
         /\ i.resolved = issues[n].resolved /\ i.closed = issues[n].closed
         /\ i.stamps = Append(issues[n].stamps, loc[p].now)
  <2>1. ASSUME NEW j \in Issue
        PROVE  LET k == [j EXCEPT !.stamps = Append(@, loc[p].now)] IN
               /\ k \in Issue /\ k.lane = j.lane /\ k.reference = j.reference
               /\ k.resolved = j.resolved /\ k.closed = j.closed
               /\ k.stamps = Append(j.stamps, loc[p].now)
    <3>1. j.stamps \in Seq(Nat)
      BY DEF Issue
    <3>2. Append(j.stamps, loc[p].now) \in Seq(Nat)
      BY <3>1, <1>1
    <3> QED  BY <3>2 DEF Issue
  <2>2. n \in DOMAIN issues => issues[n] \in Issue
    BY <1>1
  <2> QED  BY <2>1, <2>2
<1> HIDE DEF i
<1>6. issues' \in Seq(Issue)
  BY <1>1, <1>4, <1>5, SameLength
<1>7. DOMAIN issues' = DOMAIN issues
      /\ \A m \in DOMAIN issues : issues'[m] = IF m = n THEN i ELSE issues[m]
  BY <1>1, <1>4
<1> QED  BY <1>3, <1>5, <1>6, <1>7 DEF PostNotice, SameKeys

-----------------------------------------------------------------------------
(* The recovered lane, the status comment, and what is not a pass's own. *)

LEMMA RecoveryTyped ==
    ASSUME TypeInv, NEW p \in Pass, pc[p] \in OfRecovery
    PROVE  /\ loc[p].left # {} /\ Lowest(loc[p].left) \in loc[p].left
           /\ loc[p].left \subseteq DOMAIN issues /\ loc[p].lane \in Lane
           /\ loc[p].record[loc[p].lane] \in Run
           /\ issues[Lowest(loc[p].left)] \in Issue
<1>1. /\ loc[p].left # {} /\ loc[p].left \in SUBSET Nat /\ loc[p].left \subseteq DOMAIN issues
      /\ loc[p].lane \in Lane /\ loc[p].record[loc[p].lane] # None
      /\ loc[p].record[loc[p].lane] \in Run \cup {None}
  BY DEF TypeInv, TypeOK, HandTyped, InHand, Locals
<1>2. Lowest(loc[p].left) \in loc[p].left
  BY <1>1, LowestTyped
<1>3. issues \in Seq(Issue)
  BY DEF TypeInv, TypeOK
<1> QED  BY <1>1, <1>2, <1>3

LEMMA ScanEffect ==
    ASSUME TypeInv, NEW p \in Pass, ScanResolved(p)
    PROVE  /\ Others(p) /\ SameStores /\ UNCHANGED failures
           /\ pc[p] = "scan" /\ loc'[p] = loc[p]
           /\ LET n == Lowest(loc[p].left)
                  r == loc[p].record[loc[p].lane]
              IN  \/ issues[n].resolved[r] > 0 /\ pc'[p] = "close"
                  \/ issues[n].resolved[r] = 0 /\ pc'[p] = "resolution"
<1> DEFINE n == Lowest(loc[p].left)
           r == loc[p].record[loc[p].lane]
<1>1. issues[n].resolved[r] \in Nat
  BY RecoveryTyped DEF ScanResolved, OfRecovery, Issue
<1>2. Enter(p, IF issues[n].resolved[r] > 0 THEN "close" ELSE "resolution")
      /\ SameStores /\ UNCHANGED <<failures, loc>> /\ pc[p] = "scan"
  BY DEF ScanResolved, SameStores
<1> HIDE DEF n, r
<1>3. Others(p) /\ loc'[p] = loc[p]
      /\ pc'[p] = IF issues[n].resolved[r] > 0 THEN "close" ELSE "resolution"
  BY <1>2 DEF Enter, Others, TypeInv, TypeOK, Label
<1>4. issues[n].resolved[r] > 0 \/ (~ (issues[n].resolved[r] > 0) /\ issues[n].resolved[r] = 0)
  BY <1>1
<1> QED  BY <1>2, <1>3, <1>4 DEF n, r

LEMMA ResolutionEffect ==
    ASSUME TypeInv, NEW p \in Pass, CommentResolved(p)
    PROVE  /\ Others(p) /\ UNCHANGED <<world, health, failures>>
           /\ pc[p] = "resolution" /\ pc'[p] = "close" /\ loc'[p] = loc[p]
           /\ issues' \in Seq(Issue) /\ DOMAIN issues' = DOMAIN issues
           /\ \A m \in DOMAIN issues :
                 /\ SameKeys(m) /\ issues'[m].stamps = issues[m].stamps
                 /\ issues'[m].closed = issues[m].closed
                 /\ \A r \in Run : issues'[m].resolved[r] =
                       IF m = Lowest(loc[p].left) /\ r = loc[p].record[loc[p].lane]
                       THEN issues[m].resolved[r] + 1 ELSE issues[m].resolved[r]
<1> DEFINE n == Lowest(loc[p].left)
           r == loc[p].record[loc[p].lane]
           i == [issues[n] EXCEPT !.resolved[r] = @ + 1]
<1>1. n \in DOMAIN issues /\ r \in Run /\ issues[n] \in Issue /\ issues \in Seq(Issue)
  BY RecoveryTyped DEF CommentResolved, OfRecovery, TypeInv, TypeOK
<1>2. issues' = [issues EXCEPT ![n] = i] /\ Enter(p, "close")
      /\ UNCHANGED <<world, health, failures, loc>> /\ pc[p] = "resolution"
  BY DEF CommentResolved
<1>3. Others(p) /\ loc'[p] = loc[p] /\ pc'[p] = "close"
  BY <1>2 DEF Enter, Others, TypeInv, TypeOK, Label
<1>4. ASSUME NEW j \in Issue, NEW q \in Run
      PROVE  LET k == [j EXCEPT !.resolved[q] = @ + 1] IN
             /\ k \in Issue /\ k.lane = j.lane /\ k.reference = j.reference
             /\ k.stamps = j.stamps /\ k.closed = j.closed
             /\ \A s \in Run : k.resolved[s] = IF s = q THEN j.resolved[s] + 1 ELSE j.resolved[s]
  <2>1. PICK f : f = [j.resolved EXCEPT ![q] = @ + 1]
    OBVIOUS
  <2>2. /\ f \in [Run -> Nat]
        /\ \A s \in Run : f[s] = IF s = q THEN j.resolved[s] + 1 ELSE j.resolved[s]
    BY <2>1 DEF Issue
  <2>3. [j EXCEPT !.resolved[q] = @ + 1] = [j EXCEPT !.resolved = f]
    BY <2>1 DEF Issue
  <2> QED  BY <2>2, <2>3 DEF Issue
<1>5. /\ i \in Issue /\ i.lane = issues[n].lane /\ i.reference = issues[n].reference
      /\ i.stamps = issues[n].stamps /\ i.closed = issues[n].closed
      /\ \A s \in Run : i.resolved[s] = IF s = r THEN issues[n].resolved[s] + 1
                                        ELSE issues[n].resolved[s]
  <2> HIDE DEF n, r
  <2> QED  BY <1>1, <1>4
<1> HIDE DEF i
<1>6. issues' \in Seq(Issue)
  BY <1>1, <1>2, <1>5, SameLength
<1>7. DOMAIN issues' = DOMAIN issues
      /\ \A m \in DOMAIN issues : issues'[m] = IF m = n THEN i ELSE issues[m]
  BY <1>1, <1>2
<1> QED  BY <1>2, <1>3, <1>5, <1>6, <1>7 DEF SameKeys

LEMMA RecoveredEffect ==
    ASSUME TypeInv, NEW p \in Pass, CloseResolved(p)
    PROVE  /\ Others(p) /\ UNCHANGED <<world, health, failures>>
           /\ pc[p] = "close" /\ Close(Lowest(loc[p].left), "resolved")
           /\ LET n == Lowest(loc[p].left) IN
              \/ loc[p].left = {n} /\ DoneWith(p, loc[p].lane, 0)
              \/ /\ loc[p].left # {n} /\ pc'[p] = "scan" /\ SameRead(p) /\ SameWork(p)
                 /\ loc'[p].lane = loc[p].lane /\ loc'[p].left = loc[p].left \ {n}
<1> DEFINE n == Lowest(loc[p].left)
           v == [loc[p] EXCEPT !.left = @ \ {n}]
<1>1. CASE loc[p].left = {n}
  <2>1. Reconciled(p, loc[p].lane, 0)
    BY <1>1 DEF CloseResolved
  <2>2. Others(p) /\ DoneWith(p, loc[p].lane, 0)
    BY <2>1, ReconciledEffect DEF TypeInv
  <2> QED  BY <2>2, <1>1 DEF CloseResolved
<1>2. CASE loc[p].left # {n}
  <2>1. Remember(p, v) /\ Enter(p, "scan") /\ "scan" \in Label
    BY <1>2 DEF CloseResolved, Label
  <2>2. loc[p] \in Locals
    BY DEF TypeInv, TypeOK
  <2>3. /\ v \in Locals /\ v.now = loc[p].now /\ v.sweep_ok = loc[p].sweep_ok
        /\ v.expected = loc[p].expected /\ v.record = loc[p].record /\ v.open = loc[p].open
        /\ v.todo = loc[p].todo /\ v.result = loc[p].result /\ v.lane = loc[p].lane
        /\ v.left = loc[p].left \ {n}
    BY <2>2 DEF Locals
  <2>4. Others(p) /\ loc'[p] = v /\ pc'[p] = "scan"
    <3> HIDE DEF v
    <3> QED  BY <2>1, <2>3, Assigned DEF TypeInv
  <2> HIDE DEF v
  <2> QED  BY <2>3, <2>4, <1>2 DEF CloseResolved, SameRead, SameFacts, SameWork
<1> QED  BY <1>1, <1>2

LEMMA HealthReadEffect ==
    ASSUME TypeInv, NEW p \in Pass, ReadHealth(p)
    PROVE  /\ Others(p) /\ SameStores /\ UNCHANGED failures
           /\ pc[p] = "judge" /\ pc'[p] = "publish" /\ SameRead(p) /\ SameWork(p)
           /\ loc[p].todo = {} /\ loc'[p].left = loc[p].left
           /\ loc'[p].kept = IF health = <<>> THEN 0 ELSE 1
           /\ loc'[p].last = IF health = <<>> THEN None ELSE health[1].last
<1> DEFINE kept == IF health = <<>> THEN 0 ELSE 1
           last == IF health = <<>> THEN None ELSE health[1].last
           v == [loc[p] EXCEPT !.kept = kept, !.last = last]
<1>1. loc[p] \in Locals
  BY DEF TypeInv, TypeOK
<1>2. kept \in Nat /\ last \in Instant
  <2>1. health # <<>> => health[1] \in Status
    BY DEF TypeInv, TypeOK
  <2> QED  BY <2>1 DEF Status, Instant
<1> HIDE DEF kept, last
<1>3. /\ v \in Locals /\ v.now = loc[p].now /\ v.sweep_ok = loc[p].sweep_ok
      /\ v.expected = loc[p].expected /\ v.record = loc[p].record /\ v.open = loc[p].open
      /\ v.todo = loc[p].todo /\ v.result = loc[p].result
      /\ v.left = loc[p].left /\ v.kept = kept /\ v.last = last
  BY <1>1, <1>2 DEF Locals
<1>4. Remember(p, v) /\ Enter(p, "publish") /\ "publish" \in Label
  BY DEF ReadHealth, Label, kept, last
<1>5. Others(p) /\ loc'[p] = v /\ pc'[p] = "publish"
  <2> HIDE DEF v
  <2> QED  BY <1>3, <1>4, Assigned DEF TypeInv
<1> HIDE DEF v
<1> QED  BY <1>3, <1>5 DEF ReadHealth, SameStores, SameRead, SameFacts, SameWork, kept, last

LEMMA EndEffect ==
    ASSUME TypeOK, NEW p \in Pass, Enter(p, Ended(p)), Remember(p, Fresh)
    PROVE  Others(p) /\ loc'[p] = Fresh /\ pc'[p] \in {"idle", "done"}
<1>1. Ended(p) \in {"idle", "done"} /\ Ended(p) \in Label
  BY DEF Ended, Label
<1> QED  BY <1>1, FreshTyped, Assigned

LEMMA BodyTyped ==
    ASSUME TypeInv, NEW p \in Pass
    PROVE  /\ StatusBody(p) \in Status
           /\ StatusBody(p).last = LastSweep(p)
           /\ \A l \in Lane : /\ StatusBody(p).rows[l].state = StateOf(p, l)
                              /\ StatusBody(p).rows[l].issue = loc[p].result[l]
<1>1. loc[p] \in Locals
  BY DEF TypeInv, TypeOK
<1>2. LastSweep(p) \in Instant
  BY <1>1 DEF LastSweep, Locals, Instant
<1>3. \A l \in Lane : StateOf(p, l) \in LaneState
  BY DEF StateOf, LaneState
<1>4. \A l \in Lane : loc[p].record[l] \in Run \cup {None} /\ loc[p].result[l] \in Nat
  BY <1>1 DEF Locals
<1> QED  BY <1>2, <1>3, <1>4 DEF StatusBody, Status

LEMMA PublishEffect ==
    ASSUME TypeInv, NEW p \in Pass, PublishHealth(p)
    PROVE  /\ Others(p) /\ UNCHANGED <<world, issues, failures>>
           /\ pc[p] = "publish" /\ pc'[p] \in {"idle", "done"} /\ loc'[p] = Fresh
           /\ health' = IF loc[p].kept = 0 THEN Append(health, StatusBody(p))
                        ELSE [health EXCEPT ![loc[p].kept] = StatusBody(p)]
           /\ health' \in Seq(Status)
<1>1. Others(p) /\ loc'[p] = Fresh /\ pc'[p] \in {"idle", "done"}
  BY EndEffect DEF PublishHealth, TypeInv
<1>2. health \in Seq(Status)
  BY DEF TypeInv, TypeOK
<1>3. health' = IF loc[p].kept = 0 THEN Append(health, StatusBody(p))
                ELSE [health EXCEPT ![loc[p].kept] = StatusBody(p)]
  BY DEF PublishHealth
<1>4. health' \in Seq(Status)
  <2>1. CASE loc[p].kept = 0
    BY <2>1, <1>2, <1>3, BodyTyped
  <2>2. CASE loc[p].kept # 0
    BY <2>2, <1>2, <1>3, BodyTyped, SameLength
  <2> QED  BY <2>1, <2>2
<1> QED  BY <1>1, <1>3, <1>4 DEF PublishHealth

-----------------------------------------------------------------------------
(* Type correctness. *)

LEMMA JudgementKept ==
    ASSUME NEW p \in Pass, SameFacts(p), loc'[p].record = loc[p].record
    PROVE  \A l \in Lane : /\ Overdue(p, l)' <=> Overdue(p, l)
                           /\ FromRecord(p, l)' <=> FromRecord(p, l)
                           /\ Reference(p, l)' = Reference(p, l)
  BY DEF SameFacts, Overdue, FromRecord, Reference

LEMMA OthersTyped ==
    ASSUME TypeInv, NEW p \in Pass, Others(p), NEW q \in Pass \ {p},
           DOMAIN issues \subseteq DOMAIN issues', receipted \subseteq receipted'
    PROVE  HandTyped(q)' /\ RecordsRead(q)'
<1>1. pc'[q] = pc[q] /\ loc'[q] = loc[q]
  BY DEF Others
<1>2. \A l \in Lane : Overdue(q, l)' <=> Overdue(q, l)
  BY <1>1 DEF Overdue, Reference, FromRecord
<1> QED  BY <1>1, <1>2 DEF TypeInv, HandTyped, RecordsRead, InHand

TypedStep(p) ==
    /\ Others(p) /\ UNCHANGED world /\ failures' \in 0..MaxFailures
    /\ issues' \in Seq(Issue) /\ health' \in Seq(Status)
    /\ DOMAIN issues \subseteq DOMAIN issues'
    /\ HandTyped(p)' /\ RecordsRead(p)'

LEMMA TypedStepKeeps ==
    ASSUME TypeInv, NEW p \in Pass, TypedStep(p)
    PROVE  TypeInv'
<1>1. \A q \in Pass : HandTyped(q)' /\ RecordsRead(q)'
  BY OthersTyped DEF TypedStep, world
<1>2. TypeOK'
  BY DEF TypedStep, TypeInv, TypeOK, Others, world
<1>3. IsFiniteSet(receipted')
  BY DEF TypedStep, TypeInv, world
<1> QED  BY <1>1, <1>2, <1>3 DEF TypeInv

LEMMA ReadOnlyTyped ==
    ASSUME TypeInv, NEW p \in Pass, Others(p), SameStores, UNCHANGED failures,
           HandTyped(p)', RecordsRead(p)'
    PROVE  TypedStep(p)
  BY DEF SameStores, tracker, TypedStep, TypeInv, TypeOK

LEMMA DoneTyped ==
    ASSUME TypeInv, NEW p \in Pass, NEW l, NEW n, DoneWith(p, l, n),
           DOMAIN issues \subseteq DOMAIN issues', UNCHANGED world
    PROVE  HandTyped(p)' /\ RecordsRead(p)'
<1>1. pc'[p] \notin InHand /\ pc'[p] \notin OfAlarm /\ pc'[p] \notin OfRecovery
      /\ pc'[p] # "create"
  BY DEF DoneWith, InHand, OfAlarm, OfRecovery
<1>2. HandTyped(p)'
  BY <1>1 DEF DoneWith, SameRead, TypeInv, HandTyped
<1> QED  BY <1>2 DEF DoneWith, SameRead, TypeInv, RecordsRead, world

LEMMA FreshOk ==
    ASSUME NEW p \in Pass, loc'[p] = Fresh, pc'[p] \in {"idle", "done"}
    PROVE  HandTyped(p)' /\ RecordsRead(p)'
  BY DEF Fresh, HandTyped, RecordsRead, InHand, OfAlarm, OfRecovery

LEMMA PassTyped ==
    ASSUME TypeInv, NEW p \in Pass, PassStep(p) \/ Abort(p)
    PROVE  TypeInv'
<1> SUFFICES TypedStep(p)
  BY TypedStepKeeps
<1>1. CASE StartPass(p)
  BY <1>1, StartEffect, ReadOnlyTyped
     DEF TypeInv, HandTyped, RecordsRead, InHand, OfAlarm, OfRecovery
<1>2. CASE ReadLane(p)
  <2>1. HandTyped(p)'
    BY <1>2, ReadEffect
       DEF TypeInv, HandTyped, InHand, OfAlarm, OfRecovery, SameStores, tracker
  <2>2. RecordsRead(p)'
    BY <1>2, ReadEffect, LatestTyped DEF TypeInv, RecordsRead, SameStores, world
  <2> QED  BY <2>1, <2>2, <1>2, ReadEffect, ReadOnlyTyped
<1>3. CASE ListIssues(p)
  <2>1. HandTyped(p)'
    BY <1>3, ListEffect
       DEF TypeInv, HandTyped, InHand, OfAlarm, OfRecovery, SameStores, tracker, OpenIssues
  <2>2. RecordsRead(p)'
    BY <1>3, ListEffect DEF TypeInv, RecordsRead, SameStores, world
  <2> QED  BY <2>1, <2>2, <1>3, ListEffect, ReadOnlyTyped
<1>4. CASE Judge(p)
  <2>1. RecordsRead(p)'
    BY <1>4, JudgeEffect DEF TypeInv, RecordsRead, SameStores, world, SameRead
  <2>2. HandTyped(p)'
    <3>1. PICK l \in loc[p].todo : LET listed == loc[p].open[l] IN
                \/ /\ Overdue(p, l) /\ listed = {} /\ pc'[p] = "create"
                   /\ SameWork(p) /\ loc'[p].lane = l /\ loc'[p].left = loc[p].left
                \/ /\ Overdue(p, l) /\ listed # {} /\ pc'[p] = "extras"
                   /\ SameWork(p) /\ loc'[p].lane = l /\ loc'[p].kept = Lowest(listed)
                   /\ loc'[p].left = listed \ {Lowest(listed)}
                \/ /\ ~ Overdue(p, l) /\ FromRecord(p, l) /\ listed # {} /\ pc'[p] = "scan"
                   /\ SameWork(p) /\ loc'[p].lane = l /\ loc'[p].left = listed
                \/ DoneWith(p, l, LowestOrZero(listed))
      BY <1>4, JudgeEffect
    <3>2. SameRead(p) /\ SameStores
      BY <1>4, JudgeEffect
    <3>3. l \in Lane /\ loc[p].open[l] \in SUBSET Nat /\ loc[p].open[l] \subseteq DOMAIN issues
          /\ loc[p].left \subseteq DOMAIN issues
          /\ \A k \in Lane : loc[p].open[k] \subseteq DOMAIN issues
      BY DEF TypeInv, TypeOK, Locals, HandTyped
    <3>4. Overdue(p, l)' <=> Overdue(p, l)
      BY <3>2, <3>3, JudgementKept DEF SameRead
    <3>5. loc[p].open[l] # {} => Lowest(loc[p].open[l]) \in DOMAIN issues
      BY <3>3, LowestTyped
    <3>6. ASSUME DoneWith(p, l, LowestOrZero(loc[p].open[l])) PROVE HandTyped(p)'
      BY <3>6, <3>2, DoneTyped DEF SameStores, tracker
    <3>7. ASSUME pc'[p] = "create", Overdue(p, l), loc'[p].lane = l, loc'[p].left = loc[p].left
          PROVE HandTyped(p)'
      BY <3>7, <3>2, <3>3, <3>4
         DEF HandTyped, InHand, OfAlarm, OfRecovery, SameRead, SameStores, tracker
    <3>8. ASSUME pc'[p] = "extras", loc[p].open[l] # {}, loc'[p].lane = l,
                 loc'[p].kept = Lowest(loc[p].open[l]),
                 loc'[p].left = loc[p].open[l] \ {Lowest(loc[p].open[l])}
          PROVE HandTyped(p)'
      BY <3>8, <3>2, <3>3, <3>5
         DEF HandTyped, InHand, OfAlarm, OfRecovery, SameRead, SameStores, tracker
    <3>9. ASSUME pc'[p] = "scan", FromRecord(p, l), loc[p].open[l] # {}, loc'[p].lane = l,
                 loc'[p].left = loc[p].open[l]
          PROVE HandTyped(p)'
      BY <3>9, <3>2, <3>3
         DEF HandTyped, InHand, OfAlarm, OfRecovery, SameRead, SameStores, tracker, FromRecord
    <3> QED  BY <3>1, <3>6, <3>7, <3>8, <3>9
  <2> QED  BY <2>1, <2>2, <1>4, JudgeEffect, ReadOnlyTyped
<1>5. CASE OpenIssue(p)
  <2>1. /\ Others(p) /\ UNCHANGED <<world, health, failures>>
        /\ pc'[p] = "relist" /\ SameRead(p) /\ loc'[p].lane = loc[p].lane
        /\ loc'[p].left = loc[p].left /\ loc'[p].kept = Len(issues) + 1
    BY <1>5, OpenEffect
  <2>2. /\ issues' \in Seq(Issue) /\ DOMAIN issues' = DOMAIN issues \cup {Len(issues) + 1}
    BY <1>5, OpenEffect, AppendEffect DEF TypeInv
  <2>3. loc[p].lane \in Lane
    BY <1>5 DEF OpenIssue, TypeInv, HandTyped, InHand
  <2>4. HandTyped(p)' /\ RecordsRead(p)'
    BY <2>1, <2>2, <2>3 DEF TypeInv, HandTyped, RecordsRead, InHand, OfAlarm, OfRecovery,
                            SameRead, world
  <2> QED  BY <2>1, <2>2, <2>4 DEF TypedStep, TypeInv, TypeOK
<1>6. CASE Relist(p)
  <2>1. OpenIssues(loc[p].lane) \in SUBSET (DOMAIN issues) /\ DOMAIN issues \in SUBSET Nat
    BY DEF OpenIssues, TypeInv, TypeOK
  <2>2. /\ Others(p) /\ SameStores /\ UNCHANGED failures /\ pc'[p] = "extras" /\ SameRead(p)
        /\ loc'[p].lane = loc[p].lane
        /\ LET listed == OpenIssues(loc[p].lane) IN
             /\ loc'[p].kept = IF listed = {} THEN loc[p].kept ELSE Lowest(listed)
             /\ loc'[p].left = listed \ {loc'[p].kept}
    BY <1>6, RelistEffect
  <2>3. loc[p].lane \in Lane /\ loc[p].kept \in DOMAIN issues
    BY <1>6 DEF Relist, TypeInv, HandTyped, InHand, OfAlarm
  <2>4. loc'[p].kept \in DOMAIN issues
    BY <2>1, <2>2, <2>3, LowestTyped
  <2>5. HandTyped(p)' /\ RecordsRead(p)'
    BY <2>1, <2>2, <2>3, <2>4 DEF TypeInv, HandTyped, RecordsRead, InHand, OfAlarm, OfRecovery,
                                  SameRead, SameStores, tracker, world
  <2> QED  BY <2>2, <2>5, ReadOnlyTyped
<1>7. CASE CloseExtra(p)
  <2>1. /\ Others(p) /\ UNCHANGED <<world, health, failures>>
        /\ pc'[p] = "extras" /\ SameRead(p) /\ loc'[p].lane = loc[p].lane
        /\ loc'[p].kept = loc[p].kept /\ loc'[p].left \subseteq loc[p].left
    BY <1>7, ExtraEffect
  <2>2. issues' \in Seq(Issue) /\ DOMAIN issues' = DOMAIN issues
    BY <1>7, ExtraEffect, CloseEffect DEF TypeInv
  <2>3. loc[p].lane \in Lane /\ loc[p].kept \in DOMAIN issues
    BY <1>7 DEF CloseExtra, TypeInv, HandTyped, InHand, OfAlarm
  <2>4. HandTyped(p)' /\ RecordsRead(p)'
    BY <2>1, <2>2, <2>3 DEF TypeInv, HandTyped, RecordsRead, InHand, OfAlarm, OfRecovery,
                            SameRead, world
  <2> QED  BY <2>1, <2>2, <2>4 DEF TypedStep, TypeInv, TypeOK
<1>8. CASE ExtrasDone(p)
  <2>1. /\ Others(p) /\ SameStores /\ UNCHANGED failures
        /\ pc[p] = "extras"
        /\ \/ DoneWith(p, loc[p].lane, loc[p].kept)
           \/ pc'[p] = "stamps" /\ loc'[p] = loc[p]
    BY <1>8, ExtrasDoneEffect
  <2>2. ASSUME pc'[p] = "stamps", loc'[p] = loc[p]  PROVE HandTyped(p)' /\ RecordsRead(p)'
    BY <2>1, <2>2 DEF TypeInv, HandTyped, RecordsRead, InHand, OfAlarm, OfRecovery,
                      SameStores, tracker, world
  <2>3. HandTyped(p)' /\ RecordsRead(p)'
    BY <2>1, <2>2, DoneTyped DEF SameStores, tracker
  <2> QED  BY <2>1, <2>3, ReadOnlyTyped
<1>9. CASE ReadStamps(p)
  <2>1. /\ Others(p) /\ SameStores /\ UNCHANGED failures
        /\ pc[p] = "stamps"
        /\ \/ DoneWith(p, loc[p].lane, loc[p].kept)
           \/ pc'[p] = "notice" /\ loc'[p] = loc[p]
    BY <1>9, StampsEffect
  <2>2. ASSUME pc'[p] = "notice", loc'[p] = loc[p]  PROVE HandTyped(p)' /\ RecordsRead(p)'
    BY <2>1, <2>2 DEF TypeInv, HandTyped, RecordsRead, InHand, OfAlarm, OfRecovery,
                      SameStores, tracker, world
  <2>3. HandTyped(p)' /\ RecordsRead(p)'
    BY <2>1, <2>2, DoneTyped DEF SameStores, tracker
  <2> QED  BY <2>1, <2>3, ReadOnlyTyped
<1>10. CASE PostNotice(p)
  <2>1. /\ Others(p) /\ UNCHANGED <<world, health, failures>>
        /\ DoneWith(p, loc[p].lane, loc[p].kept)
        /\ issues' \in Seq(Issue) /\ DOMAIN issues' = DOMAIN issues
    BY <1>10, NoticeEffect
  <2>2. HandTyped(p)' /\ RecordsRead(p)'
    BY <2>1, DoneTyped
  <2> QED  BY <2>1, <2>2 DEF TypedStep, TypeInv, TypeOK
<1>11. CASE ScanResolved(p)
  <2>1. /\ Others(p) /\ SameStores /\ UNCHANGED failures
        /\ pc[p] = "scan" /\ loc'[p] = loc[p] /\ pc'[p] \in {"close", "resolution"}
    BY <1>11, ScanEffect
  <2>2. HandTyped(p)' /\ RecordsRead(p)'
    BY <2>1 DEF TypeInv, HandTyped, RecordsRead, InHand, OfAlarm, OfRecovery,
                SameStores, tracker, world
  <2> QED  BY <2>1, <2>2, ReadOnlyTyped
<1>12. CASE CommentResolved(p)
  <2>1. /\ Others(p) /\ UNCHANGED <<world, health, failures>>
        /\ pc[p] = "resolution" /\ pc'[p] = "close" /\ loc'[p] = loc[p]
        /\ issues' \in Seq(Issue) /\ DOMAIN issues' = DOMAIN issues
    BY <1>12, ResolutionEffect
  <2>2. HandTyped(p)' /\ RecordsRead(p)'
    BY <2>1 DEF TypeInv, HandTyped, RecordsRead, InHand, OfAlarm, OfRecovery, world
  <2> QED  BY <2>1, <2>2 DEF TypedStep, TypeInv, TypeOK
<1>13. CASE CloseResolved(p)
  <2>1. /\ Others(p) /\ UNCHANGED <<world, health, failures>> /\ pc[p] = "close"
        /\ LET n == Lowest(loc[p].left) IN
              \/ DoneWith(p, loc[p].lane, 0)
              \/ /\ loc[p].left # {n} /\ pc'[p] = "scan" /\ SameRead(p)
                 /\ loc'[p].lane = loc[p].lane /\ loc'[p].left = loc[p].left \ {n}
    BY <1>13, RecoveredEffect
  <2>2. issues' \in Seq(Issue) /\ DOMAIN issues' = DOMAIN issues
    BY <1>13, RecoveredEffect, CloseEffect DEF TypeInv
  <2>3. /\ loc[p].lane \in Lane /\ loc[p].record[loc[p].lane] # None
        /\ loc[p].left # {} /\ loc[p].left \subseteq DOMAIN issues
    BY <2>1 DEF TypeInv, HandTyped, InHand, OfRecovery
  <2>4. ASSUME NEW n, loc[p].left # {n}, pc'[p] = "scan", SameRead(p),
               loc'[p].lane = loc[p].lane, loc'[p].left = loc[p].left \ {n}
        PROVE  HandTyped(p)' /\ RecordsRead(p)'
    BY <2>1, <2>2, <2>3, <2>4 DEF TypeInv, HandTyped, RecordsRead, InHand, OfAlarm, OfRecovery,
                                  SameRead, world
  <2>5. HandTyped(p)' /\ RecordsRead(p)'
    BY <2>1, <2>2, <2>4, DoneTyped
  <2> QED  BY <2>1, <2>2, <2>5 DEF TypedStep, TypeInv, TypeOK
<1>14. CASE ReadHealth(p)
  <2>1. /\ Others(p) /\ SameStores /\ UNCHANGED failures
        /\ pc'[p] = "publish" /\ SameRead(p) /\ loc'[p].left = loc[p].left
    BY <1>14, HealthReadEffect
  <2>2. HandTyped(p)' /\ RecordsRead(p)'
    BY <2>1 DEF TypeInv, HandTyped, RecordsRead, InHand, OfAlarm, OfRecovery,
                SameRead, SameStores, tracker, world
  <2> QED  BY <2>1, <2>2, ReadOnlyTyped
<1>15. CASE PublishHealth(p)
  BY <1>15, PublishEffect, FreshOk DEF TypedStep, TypeInv, TypeOK
<1>16. CASE Abort(p)
  <2>1. Others(p) /\ loc'[p] = Fresh /\ pc'[p] \in {"idle", "done"}
        /\ UNCHANGED <<world, tracker>>
    BY <1>16, EndEffect DEF Abort, TypeInv
  <2>2. failures' \in 0..MaxFailures
    BY <1>16, ConstantTypes DEF Abort, TypeInv, TypeOK
  <2> QED  BY <2>1, <2>2, FreshOk DEF TypedStep, TypeInv, TypeOK, tracker
<1> QED
  BY <1>1, <1>2, <1>3, <1>4, <1>5, <1>6, <1>7, <1>8, <1>9, <1>10, <1>11, <1>12, <1>13,
     <1>14, <1>15, <1>16 DEF PassStep

\* The clock, the sweeps, maintainers, and steps of others.
Around ==
    /\ UNCHANGED <<tracker, failures, pc, loc>>
    /\ receipted \subseteq receipted' /\ now <= now'

LEMMA AroundTyped ==
    ASSUME TypeInv,
           \/ Tick \/ (\E r \in Run : Publish(r)) \/ (\E l \in Lane : MoveExpected(l))
           \/ UNCHANGED vars
    PROVE  Around /\ TypeInv'
<1>0. now \in Nat /\ Horizon \in Nat /\ MaxMoves \in Nat
  BY ConstantTypes DEF TypeInv, TypeOK
<1>1. /\ Around /\ now' \in 0..Horizon /\ receipted' \subseteq Run
      /\ expected' \in [Lane -> Instant] /\ moves' \in 0..MaxMoves /\ IsFiniteSet(receipted')
  <2>1. CASE Tick
    BY <2>1, <1>0 DEF Tick, Around, TypeInv, TypeOK
  <2>2. CASE \E r \in Run : Publish(r)
    BY <2>2, <1>0, FS_AddElement DEF Publish, Around, TypeInv, TypeOK
  <2>3. CASE \E l \in Lane : MoveExpected(l)
    <3>1. PICK l \in Lane : MoveExpected(l)
      BY <2>3
    <3>2. PICK t \in (0..Horizon) \cup {None} : expected' = [expected EXCEPT ![l] = t]
      BY <3>1 DEF MoveExpected
    <3>3. expected' \in [Lane -> Instant]
      BY <3>2, <1>0 DEF TypeInv, TypeOK, Instant
    <3> QED  BY <3>1, <3>3, <1>0 DEF MoveExpected, Around, TypeInv, TypeOK
  <2>4. CASE UNCHANGED vars
    BY <2>4, <1>0 DEF vars, world, tracker, Around, TypeInv, TypeOK
  <2> QED  BY <2>1, <2>2, <2>3, <2>4
<1>2. \A p \in Pass : HandTyped(p)' /\ RecordsRead(p)'
  <2>1. \A p \in Pass : \A l \in Lane : Overdue(p, l)' <=> Overdue(p, l)
    BY <1>1 DEF Around, Overdue, Reference, FromRecord
  <2> QED  BY <1>1, <2>1 DEF Around, tracker, TypeInv, HandTyped, RecordsRead, InHand
<1> QED  BY <1>1, <1>2 DEF Around, tracker, TypeInv, TypeOK

LEMMA StepCases ==
    ASSUME TypeInv, [Next]_vars
    PROVE  /\ TypeInv'
           /\ Around \/ \E p \in Pass : PassStep(p) \/ Abort(p)
  BY PassTyped, AroundTyped DEF Next

LEMMA InitTyped == Init => TypeInv
<1> SUFFICES ASSUME Init PROVE TypeInv
  OBVIOUS
<1>1. TypeOK
  BY FreshTyped, ConstantTypes DEF Init, TypeOK, Instant, Label
<1>2. IsFiniteSet(receipted)
  BY ConstantTypes DEF Init
<1>3. \A p \in Pass : HandTyped(p) /\ RecordsRead(p)
  BY DEF Init, Fresh, HandTyped, RecordsRead, InHand, OfAlarm, OfRecovery
<1> QED  BY <1>1, <1>2, <1>3 DEF TypeInv

\* Type correctness with what it rests on: a pass never acts on a lane, an issue
\* or a record that it has not read. For any passes, overlapping or not.
THEOREM TypeInvHolds == Spec => []TypeInv
<1>1. TypeInv /\ [Next]_vars => TypeInv'
  BY StepCases
<1> QED  BY <1>1, InitTyped, PTL DEF Spec

\* The variables are of their types, whatever the passes do at once.
THEOREM TypeCorrect == Spec => []TypeOK
<1>1. TypeInv => TypeOK
  BY DEF TypeInv
<1> QED  BY <1>1, TypeInvHolds, PTL

-----------------------------------------------------------------------------
(* Passes that run one at a time: no other pass is between two of its steps. *)

\* A notice is posted by the step that follows the reading of the stamps.
LEMMA NoticeSteps ==
    ASSUME TypeInv, NEW p \in Pass, PassStep(p) \/ Abort(p), ~ OpenIssue(p), ~ PostNotice(p)
    PROVE  /\ DOMAIN issues' = DOMAIN issues
           /\ \A n \in DOMAIN issues : issues'[n].stamps = issues[n].stamps
           /\ pc'[p] = "notice" => NoticeDue(p) /\ loc'[p] = loc[p]
<1>1. CASE StartPass(p) \/ ReadLane(p) \/ ListIssues(p) \/ ReadHealth(p) \/ Relist(p)
  BY <1>1, StartEffect, ReadEffect, ListEffect, HealthReadEffect, RelistEffect
     DEF TypeInv, SameStores, tracker
<1>2. CASE Judge(p)
  BY <1>2, JudgeEffect DEF SameStores, tracker, DoneWith
<1>3. CASE ExtrasDone(p) \/ ReadStamps(p)
  BY <1>3, ExtrasDoneEffect, StampsEffect DEF SameStores, tracker, DoneWith
<1>4. CASE ScanResolved(p)
  BY <1>4, ScanEffect DEF SameStores, tracker
<1>5. CASE CommentResolved(p)
  BY <1>5, ResolutionEffect
<1>6. CASE CloseExtra(p)
  BY <1>6, ExtraEffect, CloseEffect DEF TypeInv
<1>7. CASE CloseResolved(p)
  BY <1>7, RecoveredEffect, CloseEffect DEF TypeInv, DoneWith
<1>8. CASE PublishHealth(p)
  BY <1>8, PublishEffect
<1>9. CASE Abort(p)
  BY <1>9, EndEffect DEF Abort, TypeInv, tracker
<1> QED  BY <1>1, <1>2, <1>3, <1>4, <1>5, <1>6, <1>7, <1>8, <1>9 DEF PassStep

LEMMA NoticeInvNext ==
    ASSUME OnePass, TypeInv, NoticeInv, [Next]_vars
    PROVE  NoticeInv'
<1> USE DEF NoticeInv
<1>1. CASE Around
  BY <1>1 DEF Around, tracker, NoticeRate, NoticeDue
<1>2. ASSUME NEW p \in Pass, PassStep(p) \/ Abort(p)  PROVE NoticeInv'
  <2>0. \A q \in Pass : q = p
    BY DEF OnePass
  <2>1. CASE OpenIssue(p)
    <3>1. PICK i \in Issue : issues' = Append(issues, i) /\ i.stamps = <<loc[p].now>>
      BY <2>1, OpenEffect
    <3>2. /\ DOMAIN issues' = DOMAIN issues \cup {Len(issues) + 1}
          /\ issues'[Len(issues) + 1] = i
          /\ \A n \in DOMAIN issues : issues'[n] = issues[n]
      BY <3>1, AppendEffect DEF TypeInv
    <3>3. NoticeRate'
      BY <3>1, <3>2 DEF NoticeRate
    <3>4. pc'[p] = "relist"
      BY <2>1, OpenEffect
    <3> QED  BY <2>0, <3>3, <3>4
  <2>2. CASE PostNotice(p)
    <3>1. /\ pc[p] = "notice" /\ pc'[p] = "judge" /\ DOMAIN issues' = DOMAIN issues
          /\ \A n \in DOMAIN issues : issues'[n].stamps =
               IF n = loc[p].kept THEN Append(issues[n].stamps, loc[p].now)
               ELSE issues[n].stamps
      <4>1. PostNotice(p)
        BY <2>2
      <4>2. pc'[p] = "judge"
        BY <4>1, NoticeEffect DEF DoneWith
      <4> QED  BY <4>1, <4>2, NoticeEffect
    <3>2. NoticeDue(p)
      BY <3>1
    <3>3. ASSUME NEW n \in DOMAIN issues, NEW i \in DOMAIN issues'[n].stamps,
                 NEW j \in DOMAIN issues'[n].stamps, i < j
          PROVE  issues'[n].stamps[j] >= issues'[n].stamps[i] + Interval
      <4>1. issues[n].stamps \in Seq(Nat) /\ loc[p].now \in Nat /\ Interval \in Nat
        <5>1. issues[n] \in Issue
          BY DEF TypeInv, TypeOK
        <5> QED  BY <5>1, ConstantTypes DEF TypeInv, TypeOK, Locals, Issue
      <4>2. CASE n # loc[p].kept
        BY <3>1, <3>3, <4>2 DEF NoticeRate
      <4>3. CASE n = loc[p].kept
        <5>1. issues'[n].stamps = Append(issues[n].stamps, loc[p].now)
          BY <3>1, <4>3
        <5>2. i \in DOMAIN issues[n].stamps /\ issues'[n].stamps[i] = issues[n].stamps[i]
          BY <3>3, <4>1, <5>1
        <5>3. \/ j \in DOMAIN issues[n].stamps /\ issues'[n].stamps[j] = issues[n].stamps[j]
              \/ issues'[n].stamps[j] = loc[p].now
          BY <4>1, <5>1
        <5>4. loc[p].now >= issues[n].stamps[i] + Interval
          BY <3>2, <4>3, <5>2 DEF NoticeDue
        <5> QED  BY <3>3, <5>2, <5>3, <5>4 DEF NoticeRate
      <4> QED  BY <4>2, <4>3
    <3>4. NoticeRate'
      BY <3>1, <3>3 DEF NoticeRate
    <3> QED  BY <2>0, <3>1, <3>4
  <2>3. CASE ~ OpenIssue(p) /\ ~ PostNotice(p)
    <3>1. /\ DOMAIN issues' = DOMAIN issues
          /\ \A n \in DOMAIN issues : issues'[n].stamps = issues[n].stamps
          /\ pc'[p] = "notice" => NoticeDue(p) /\ loc'[p] = loc[p]
      BY <1>2, <2>3, NoticeSteps
    <3>2. NoticeRate'
      BY <3>1 DEF NoticeRate
    <3>3. ASSUME pc'[p] = "notice"  PROVE NoticeDue(p)'
      <4>1. NoticeDue(p) /\ loc'[p].kept = loc[p].kept /\ loc'[p].now = loc[p].now
        BY <3>1, <3>3
      <4>2. loc[p].kept \in DOMAIN issues
        <5>1. TypeInv'
          BY <1>2, PassTyped
        <5>2. loc'[p].kept \in DOMAIN issues'
          BY <5>1, <3>3 DEF TypeInv, HandTyped, OfAlarm
        <5> QED  BY <5>2, <4>1, <3>1
      <4> QED  BY <4>1, <4>2, <3>1 DEF NoticeDue
    <3> QED  BY <2>0, <3>2, <3>3
  <2> QED  BY <2>1, <2>2, <2>3
<1> QED  BY <1>1, <1>2, StepCases

\* For passes that run one at a time, a lane's notices are at least the interval
\* apart: what the next pass knows of them is in the stamps.
THEOREM NoticeRateHolds ==
    ASSUME OnePass
    PROVE  Spec => []NoticeRate
<1>1. Init => NoticeInv
  BY DEF Init, NoticeInv, NoticeRate
<1>2. TypeInv /\ NoticeInv /\ [Next]_vars => NoticeInv'
  BY NoticeInvNext
<1>3. NoticeInv => NoticeRate
  BY DEF NoticeInv
<1> QED  BY <1>1, <1>2, <1>3, TypeInvHolds, PTL DEF Spec

\* The resolution is commented by the step that follows the search for its marker.
LEMMA ResolutionSteps ==
    ASSUME TypeInv, NEW p \in Pass, PassStep(p) \/ Abort(p),
           ~ OpenIssue(p), ~ CommentResolved(p)
    PROVE  /\ DOMAIN issues' = DOMAIN issues
           /\ \A n \in DOMAIN issues : issues'[n].resolved = issues[n].resolved
           /\ pc'[p] = "resolution" => NotYetResolved(p) /\ loc'[p] = loc[p]
           /\ pc'[p] = "close" => Announced(p) /\ loc'[p] = loc[p]
<1>1. CASE StartPass(p) \/ ReadLane(p) \/ ListIssues(p) \/ ReadHealth(p) \/ Relist(p)
  BY <1>1, StartEffect, ReadEffect, ListEffect, HealthReadEffect, RelistEffect
     DEF TypeInv, SameStores, tracker
<1>2. CASE Judge(p)
  BY <1>2, JudgeEffect DEF SameStores, tracker, DoneWith
<1>3. CASE ExtrasDone(p) \/ ReadStamps(p)
  BY <1>3, ExtrasDoneEffect, StampsEffect DEF SameStores, tracker, DoneWith
<1>4. CASE ScanResolved(p)
  BY <1>4, ScanEffect DEF SameStores, tracker, NotYetResolved, Announced
<1>5. CASE PostNotice(p)
  <2>1. pc'[p] = "judge"
    BY <1>5, NoticeEffect DEF DoneWith
  <2> QED  BY <2>1, <1>5, NoticeEffect
<1>6. CASE CloseExtra(p)
  BY <1>6, ExtraEffect, CloseEffect DEF TypeInv
<1>7. CASE CloseResolved(p)
  BY <1>7, RecoveredEffect, CloseEffect DEF TypeInv, DoneWith
<1>8. CASE PublishHealth(p)
  BY <1>8, PublishEffect
<1>9. CASE Abort(p)
  BY <1>9, EndEffect DEF Abort, TypeInv, tracker
<1> QED  BY <1>1, <1>2, <1>3, <1>4, <1>5, <1>6, <1>7, <1>8, <1>9 DEF PassStep

LEMMA ResolvedInvNext ==
    ASSUME OnePass, TypeInv, ResolvedInv, [Next]_vars
    PROVE  ResolvedInv'
<1> USE DEF ResolvedInv
<1>1. CASE Around
  BY <1>1 DEF Around, tracker, ResolvedOnce, NotYetResolved, Announced
<1>2. ASSUME NEW p \in Pass, PassStep(p) \/ Abort(p)  PROVE ResolvedInv'
  <2>0. \A q \in Pass : q = p
    BY DEF OnePass
  <2>1. CASE OpenIssue(p)
    <3>1. PICK i \in Issue : issues' = Append(issues, i) /\ \A r \in Run : i.resolved[r] = 0
      BY <2>1, OpenEffect
    <3>2. /\ DOMAIN issues' = DOMAIN issues \cup {Len(issues) + 1}
          /\ issues'[Len(issues) + 1] = i
          /\ \A n \in DOMAIN issues : issues'[n] = issues[n]
      BY <3>1, AppendEffect DEF TypeInv
    <3>3. ResolvedOnce'
      BY <3>1, <3>2 DEF ResolvedOnce
    <3>4. pc'[p] = "relist"
      BY <2>1, OpenEffect
    <3> QED  BY <2>0, <3>3, <3>4
  <2>2. CASE CommentResolved(p)
    <3> DEFINE n == Lowest(loc[p].left)
               r == loc[p].record[loc[p].lane]
    <3>1. /\ pc[p] = "resolution" /\ pc'[p] = "close" /\ loc'[p] = loc[p]
          /\ DOMAIN issues' = DOMAIN issues
          /\ \A m \in DOMAIN issues : \A q \in Run :
                issues'[m].resolved[q] = IF m = n /\ q = r
                       THEN issues[m].resolved[q] + 1 ELSE issues[m].resolved[q]
      BY <2>2, ResolutionEffect
    <3>2. issues[n].resolved[r] = 0 /\ n \in DOMAIN issues /\ r \in Run
      <4>1. pc[p] \in OfRecovery
        BY <3>1 DEF OfRecovery
      <4>2. NotYetResolved(p)
        BY <3>1
      <4> QED  BY <4>1, <4>2, RecoveryTyped DEF NotYetResolved
    <3> HIDE DEF n, r
    <3>3. ResolvedOnce'
      BY <3>1, <3>2 DEF ResolvedOnce
    <3>4. issues'[n].resolved[r] > 0
      BY <3>1, <3>2
    <3>5. Announced(p)'
      BY <3>1, <3>4 DEF Announced, n, r
    <3> QED  BY <2>0, <3>1, <3>3, <3>5
  <2>3. CASE ~ OpenIssue(p) /\ ~ CommentResolved(p)
    <3>1. /\ DOMAIN issues' = DOMAIN issues
          /\ \A n \in DOMAIN issues : issues'[n].resolved = issues[n].resolved
          /\ pc'[p] = "resolution" => NotYetResolved(p) /\ loc'[p] = loc[p]
          /\ pc'[p] = "close" => Announced(p) /\ loc'[p] = loc[p]
      BY <1>2, <2>3, ResolutionSteps
    <3>2. ResolvedOnce'
      BY <3>1 DEF ResolvedOnce
    <3>3. ASSUME pc'[p] \in OfRecovery
          PROVE  Lowest(loc'[p].left) \in DOMAIN issues'
      <4>1. TypeInv'
        BY <1>2, PassTyped
      <4>2. loc'[p].left # {} /\ loc'[p].left \subseteq DOMAIN issues' /\ loc'[p].left \in SUBSET Nat
        BY <4>1, <3>3 DEF TypeInv, TypeOK, Locals, HandTyped
      <4> QED  BY <4>2, LowestTyped
    <3>4. ASSUME pc'[p] = "resolution"  PROVE NotYetResolved(p)'
      BY <3>1, <3>3, <3>4 DEF NotYetResolved, OfRecovery
    <3>5. ASSUME pc'[p] = "close"  PROVE Announced(p)'
      BY <3>1, <3>3, <3>5 DEF Announced, OfRecovery
    <3> QED  BY <2>0, <3>2, <3>4, <3>5
  <2> QED  BY <2>1, <2>2, <2>3
<1> QED  BY <1>1, <1>2, StepCases

LEMMA ResolvedInvHolds ==
    ASSUME OnePass
    PROVE  Spec => []ResolvedInv
<1>1. Init => ResolvedInv
  BY DEF Init, ResolvedInv, ResolvedOnce
<1>2. TypeInv /\ ResolvedInv /\ [Next]_vars => ResolvedInv'
  BY ResolvedInvNext
<1> QED  BY <1>1, <1>2, TypeInvHolds, PTL DEF Spec

\* For passes that run one at a time, a resolution is commented once for its
\* record, although a pass may die between the comment and the close.
THEOREM ResolvedOnceHolds ==
    ASSUME OnePass
    PROVE  Spec => []ResolvedOnce
<1>1. ResolvedInv => ResolvedOnce
  BY DEF ResolvedInv
<1> QED  BY <1>1, ResolvedInvHolds, PTL

-----------------------------------------------------------------------------
(* One alarm per lane. *)

LEMMA SameOpen ==
    ASSUME DOMAIN issues' = DOMAIN issues,
           \A n \in DOMAIN issues : /\ issues'[n].lane = issues[n].lane
                                    /\ issues'[n].closed = issues[n].closed
    PROVE  \A l : OpenIssues(l)' = OpenIssues(l)
  BY DEF OpenIssues

\* Which alarms are open changes in three steps only.
LEMMA OpenSteps ==
    ASSUME TypeInv, NEW p \in Pass, PassStep(p) \/ Abort(p),
           ~ OpenIssue(p), ~ CloseExtra(p), ~ CloseResolved(p)
    PROVE  \A l : OpenIssues(l)' = OpenIssues(l)
<1>1. CASE UNCHANGED issues
  BY <1>1 DEF OpenIssues
<1>2. CASE PostNotice(p)
  BY <1>2, NoticeEffect, SameOpen DEF SameKeys
<1>3. CASE CommentResolved(p)
  BY <1>3, ResolutionEffect, SameOpen DEF SameKeys
<1> QED
  BY <1>1, <1>2, <1>3
     DEF PassStep, StartPass, ReadLane, ListIssues, Judge, Relist, ExtrasDone, ReadStamps,
         ScanResolved, ReadHealth, PublishHealth, Abort, tracker

LEMMA OpenAppended ==
    ASSUME TypeInv, NEW p \in Pass, OpenIssue(p)
    PROVE  \A l \in Lane : OpenIssues(l)' =
              IF l = loc[p].lane THEN OpenIssues(l) \cup {Len(issues) + 1} ELSE OpenIssues(l)
<1>1. PICK i \in Issue : issues' = Append(issues, i) /\ i.lane = loc[p].lane /\ i.closed = "no"
  BY OpenEffect
<1>2. /\ DOMAIN issues' = DOMAIN issues \cup {Len(issues) + 1}
      /\ Len(issues) + 1 \notin DOMAIN issues
      /\ issues'[Len(issues) + 1] = i
      /\ \A n \in DOMAIN issues : issues'[n] = issues[n]
  BY <1>1, AppendEffect DEF TypeInv
<1> QED  BY <1>1, <1>2 DEF OpenIssues

LEMMA OpenClosed ==
    ASSUME TypeOK, NEW n, NEW how \in {"resolved", "duplicate"}, Close(n, how)
    PROVE  \A l : OpenIssues(l)' = OpenIssues(l) \ {n}
<1>1. /\ DOMAIN issues' = DOMAIN issues
      /\ \A m \in DOMAIN issues :
            /\ issues'[m].lane = issues[m].lane
            /\ issues'[m].closed = IF m = n /\ issues[m].closed = "no" THEN how
                                   ELSE issues[m].closed
  BY CloseEffect DEF SameKeys
<1> QED  BY <1>1 DEF OpenIssues

\* Whatever the pass at hand has read about the lanes stays true when neither
\* its reading nor the open alarms change.
LEMMA AlarmSteps ==
    ASSUME OnePass, TypeInv, AlarmInv, NEW p \in Pass, Listed(p)', HandOpen(p)',
           \A l \in Lane : OpenIssues(l)' \subseteq OpenIssues(l)
    PROVE  AlarmInv'
<1>1. \A q \in Pass : q = p
  BY DEF OnePass
<1> QED  BY <1>1 DEF AlarmInv, OnlyAlarm

LEMMA DoneListed ==
    ASSUME NEW p \in Pass, NEW l, NEW n, DoneWith(p, l, n),
           \A k \in loc[p].todo \ {l} : loc[p].open[k] = OpenIssues(k)'
    PROVE  Listed(p)' /\ HandOpen(p)'
<1>1. pc'[p] = "judge" /\ loc'[p].open = loc[p].open /\ loc'[p].todo = loc[p].todo \ {l}
  BY DEF DoneWith, SameRead
<1> QED  BY <1>1 DEF Listed, HandOpen, OfAlarm, OfRecovery

LEMMA AlarmInvNext ==
    ASSUME OnePass, TypeInv, AlarmInv, [Next]_vars
    PROVE  AlarmInv'
<1>1. CASE Around
  <2>1. \A l : OpenIssues(l)' = OpenIssues(l)
    BY <1>1 DEF Around, tracker, OpenIssues
  <2>2. pc' = pc /\ loc' = loc
    BY <1>1 DEF Around
  <2> QED  BY <2>1, <2>2 DEF AlarmInv, OnlyAlarm, Listed, HandOpen
<1>2. ASSUME NEW p \in Pass, PassStep(p) \/ Abort(p)  PROVE AlarmInv'
  <2>0. /\ Listed(p) /\ HandOpen(p) /\ loc[p].todo \subseteq Lane
        /\ \A l \in Lane : OnlyAlarm(l)
        /\ loc[p] \in Locals /\ \A l : OpenIssues(l) \in SUBSET Nat
    BY DEF AlarmInv, TypeInv, TypeOK, Locals, OpenIssues
  <2>1. CASE StartPass(p) \/ ReadLane(p)
    <3>1. pc'[p] \in {"status", "list"}
      BY <2>1, StartEffect, ReadEffect DEF TypeInv
    <3>2. Listed(p)' /\ HandOpen(p)'
      BY <3>1 DEF Listed, HandOpen, Judged, InHand, OfAlarm, OfRecovery
    <3>3. \A l : OpenIssues(l)' = OpenIssues(l)
      BY <2>1 DEF StartPass, ReadLane, tracker, OpenIssues
    <3> QED  BY <3>2, <3>3, AlarmSteps
  <2>2. CASE ListIssues(p)
    <3>1. pc'[p] = "judge" /\ loc'[p].todo = loc[p].todo
          /\ \A l \in Lane : loc'[p].open[l] = OpenIssues(l)
      BY <2>2, ListEffect DEF SameWork
    <3>2. \A l : OpenIssues(l)' = OpenIssues(l)
      BY <2>2 DEF ListIssues, tracker, OpenIssues
    <3>3. Listed(p)' /\ HandOpen(p)'
      BY <2>0, <3>1, <3>2 DEF Listed, HandOpen, Judged, InHand, OfAlarm, OfRecovery
    <3> QED  BY <3>2, <3>3, AlarmSteps
  <2>3. CASE Judge(p)
    <3>1. SameRead(p) /\ pc[p] = "judge"
      BY <2>3, JudgeEffect
    <3>2. \A l : OpenIssues(l)' = OpenIssues(l)
      BY <2>3 DEF Judge, tracker, OpenIssues
    <3>3. PICK l \in loc[p].todo : LET listed == loc[p].open[l] IN
                \/ /\ listed = {} /\ pc'[p] = "create"
                   /\ SameWork(p) /\ loc'[p].lane = l
                \/ /\ listed # {} /\ pc'[p] = "extras"
                   /\ SameWork(p) /\ loc'[p].lane = l /\ loc'[p].kept = Lowest(listed)
                   /\ loc'[p].left = listed \ {Lowest(listed)}
                \/ /\ listed # {} /\ pc'[p] = "scan"
                   /\ SameWork(p) /\ loc'[p].lane = l /\ loc'[p].left = listed
                \/ DoneWith(p, l, LowestOrZero(listed))
      BY <2>3, JudgeEffect
    <3>4. \A k \in loc[p].todo : loc[p].open[k] = OpenIssues(k)
      BY <2>0, <3>1 DEF Listed, Judged
    <3>5. ASSUME loc'[p].todo = loc[p].todo  PROVE Listed(p)'
      BY <3>1, <3>2, <3>4, <3>5 DEF Listed, SameRead
    <3>6. OpenIssues(l) # {} => OpenIssues(l) = {Lowest(OpenIssues(l))}
      BY <2>0, LowestTyped DEF OnlyAlarm
    <3>7. Listed(p)' /\ HandOpen(p)'
      <4>1. CASE loc[p].open[l] = {} /\ pc'[p] = "create" /\ SameWork(p) /\ loc'[p].lane = l
        BY <4>1, <3>2, <3>4, <3>5 DEF HandOpen, SameWork, OfAlarm, OfRecovery
      <4>2. CASE /\ loc[p].open[l] # {} /\ pc'[p] = "extras" /\ SameWork(p) /\ loc'[p].lane = l
                 /\ loc'[p].kept = Lowest(loc[p].open[l])
                 /\ loc'[p].left = loc[p].open[l] \ {Lowest(loc[p].open[l])}
        <5>1. loc'[p].left = {} /\ OpenIssues(l) = {loc'[p].kept}
          BY <4>2, <3>4, <3>6
        <5> QED  BY <5>1, <4>2, <3>2, <3>5 DEF HandOpen, SameWork, OfAlarm, OfRecovery
      <4>3. CASE /\ loc[p].open[l] # {} /\ pc'[p] = "scan" /\ SameWork(p) /\ loc'[p].lane = l
                 /\ loc'[p].left = loc[p].open[l]
        BY <4>3, <3>2, <3>4, <3>5 DEF HandOpen, SameWork, OfAlarm, OfRecovery
      <4>4. CASE DoneWith(p, l, LowestOrZero(loc[p].open[l]))
        BY <4>4, <3>2, <3>4, DoneListed
      <4> QED  BY <3>3, <4>1, <4>2, <4>3, <4>4
    <3> QED  BY <3>2, <3>7, AlarmSteps
  <2>4. CASE OpenIssue(p)
    <3>1. /\ pc[p] = "create" /\ pc'[p] = "relist" /\ SameRead(p) /\ SameWork(p)
          /\ loc'[p].lane = loc[p].lane /\ loc'[p].kept = Len(issues) + 1
      BY <2>4, OpenEffect
    <3>2. \A l \in Lane : OpenIssues(l)' =
             IF l = loc[p].lane THEN OpenIssues(l) \cup {Len(issues) + 1} ELSE OpenIssues(l)
      BY <2>4, OpenAppended
    <3>3. loc[p].lane \in Lane /\ OpenIssues(loc[p].lane) = {}
      BY <2>0, <3>1 DEF HandOpen, TypeInv, HandTyped, InHand
    <3>4. OpenIssues(loc[p].lane)' = {loc'[p].kept}
      BY <3>1, <3>2, <3>3
    <3>5. HandOpen(p)'
      BY <3>1, <3>4 DEF HandOpen, OfAlarm, OfRecovery
    <3>6. Listed(p)'
      BY <2>0, <3>1, <3>2 DEF Listed, SameRead, SameWork, Judged, InHand
    <3>7. ASSUME NEW l \in Lane  PROVE OnlyAlarm(l)'
      <4>1. CASE l = loc[p].lane
        <5>1. OpenIssues(l)' = {loc'[p].kept}
          BY <4>1, <3>1, <3>4
        <5> QED  BY <5>1 DEF OnlyAlarm
      <4>2. CASE l # loc[p].lane
        BY <4>2, <2>0, <3>2 DEF OnlyAlarm
      <4> QED  BY <4>1, <4>2
    <3>8. \A q \in Pass : q = p
      BY DEF OnePass
    <3> QED  BY <3>5, <3>6, <3>7, <3>8 DEF AlarmInv
  <2>5. CASE Relist(p)
    <3>1. /\ pc[p] = "relist" /\ pc'[p] = "extras" /\ SameRead(p) /\ SameWork(p)
          /\ loc'[p].lane = loc[p].lane
          /\ LET listed == OpenIssues(loc[p].lane) IN
                /\ loc'[p].kept = IF listed = {} THEN loc[p].kept ELSE Lowest(listed)
                /\ loc'[p].left = listed \ {loc'[p].kept}
      BY <2>5, RelistEffect
    <3>2. \A l : OpenIssues(l)' = OpenIssues(l)
      BY <2>5 DEF Relist, tracker, OpenIssues
    <3>3. OpenIssues(loc[p].lane) = {loc[p].kept}
      BY <2>0, <3>1 DEF HandOpen, OfAlarm
    <3>4. loc'[p].kept = loc[p].kept /\ loc'[p].left = {}
      BY <2>0, <3>1, <3>3, LowestTyped
    <3>5. HandOpen(p)'
      BY <3>1, <3>2, <3>3, <3>4 DEF HandOpen, OfAlarm, OfRecovery
    <3>6. Listed(p)'
      BY <2>0, <3>1, <3>2 DEF Listed, SameRead, SameWork, Judged, InHand, OfAlarm
    <3> QED  BY <3>2, <3>5, <3>6, AlarmSteps
  <2>6. CASE CloseExtra(p)
    <3>1. loc[p].left = {}
      BY <2>0, <2>6 DEF CloseExtra, HandOpen, OfAlarm
    <3> QED  BY <3>1, <2>6 DEF CloseExtra
  <2>7. CASE ExtrasDone(p) \/ ReadStamps(p) \/ PostNotice(p)
    <3>1. /\ pc[p] \in OfAlarm \ {"relist"}
          /\ \/ DoneWith(p, loc[p].lane, loc[p].kept)
             \/ pc'[p] \in OfAlarm \ {"relist"} /\ loc'[p] = loc[p]
      <4>1. CASE ExtrasDone(p)
        BY <4>1, ExtrasDoneEffect DEF OfAlarm
      <4>2. CASE ReadStamps(p)
        BY <4>2, StampsEffect DEF OfAlarm
      <4>3. CASE PostNotice(p)
        BY <4>3, NoticeEffect DEF OfAlarm
      <4> QED  BY <2>7, <4>1, <4>2, <4>3
    <3>2. \A l : OpenIssues(l)' = OpenIssues(l)
      BY <2>7, <1>2, <3>1, OpenSteps
         DEF OfAlarm, OpenIssue, CloseExtra, CloseResolved, ExtrasDone, ReadStamps, PostNotice
    <3>3. \A k \in loc[p].todo \ {loc[p].lane} : loc[p].open[k] = OpenIssues(k)
      BY <2>0, <3>1 DEF Listed, Judged, InHand
    <3>4. Listed(p)' /\ HandOpen(p)'
      <4>1. CASE DoneWith(p, loc[p].lane, loc[p].kept)
        BY <4>1, <3>2, <3>3, DoneListed
      <4>2. CASE pc'[p] \in OfAlarm \ {"relist"} /\ loc'[p] = loc[p]
        BY <4>2, <2>0, <3>1, <3>2, <3>3 DEF Listed, HandOpen, Judged, InHand, OfAlarm, OfRecovery
      <4> QED  BY <3>1, <4>1, <4>2
    <3> QED  BY <3>2, <3>4, AlarmSteps
  <2>8. CASE ScanResolved(p) \/ CommentResolved(p)
    <3>1. pc[p] \in OfRecovery /\ pc'[p] \in OfRecovery /\ loc'[p] = loc[p]
      <4>1. CASE ScanResolved(p)
        BY <4>1, ScanEffect DEF OfRecovery
      <4>2. CASE CommentResolved(p)
        BY <4>2, ResolutionEffect DEF OfRecovery
      <4> QED  BY <2>8, <4>1, <4>2
    <3>2. \A l : OpenIssues(l)' = OpenIssues(l)
      BY <2>8, <1>2, OpenSteps
         DEF OpenIssue, CloseExtra, CloseResolved, ScanResolved, CommentResolved
    <3>3. Listed(p)' /\ HandOpen(p)'
      BY <2>0, <3>1, <3>2 DEF Listed, HandOpen, Judged, InHand, OfAlarm, OfRecovery
    <3> QED  BY <3>2, <3>3, AlarmSteps
  <2>9. CASE CloseResolved(p)
    <3> DEFINE n == Lowest(loc[p].left)
    <3>1. /\ pc[p] = "close" /\ Close(n, "resolved")
          /\ \/ loc[p].left = {n} /\ DoneWith(p, loc[p].lane, 0)
             \/ /\ pc'[p] = "scan" /\ SameRead(p) /\ SameWork(p)
                /\ loc'[p].lane = loc[p].lane /\ loc'[p].left = loc[p].left \ {n}
      BY <2>9, RecoveredEffect
    <3>2. \A l : OpenIssues(l)' = OpenIssues(l) \ {n}
      BY <3>1, OpenClosed DEF TypeInv
    <3>3. OpenIssues(loc[p].lane) = loc[p].left /\ n \in loc[p].left
      BY <2>0, <3>1, RecoveryTyped DEF HandOpen, OfRecovery
    <3>4. \A l : l # loc[p].lane => OpenIssues(l)' = OpenIssues(l)
      BY <3>2, <3>3 DEF OpenIssues
    <3>5. \A k \in loc[p].todo \ {loc[p].lane} : loc[p].open[k] = OpenIssues(k)'
      BY <2>0, <3>1, <3>4 DEF Listed, Judged, InHand, OfRecovery
    <3> HIDE DEF n
    <3>6. Listed(p)' /\ HandOpen(p)'
      <4>1. CASE DoneWith(p, loc[p].lane, 0)
        BY <4>1, <3>5, DoneListed
      <4>2. CASE /\ pc'[p] = "scan" /\ SameRead(p) /\ SameWork(p)
                 /\ loc'[p].lane = loc[p].lane /\ loc'[p].left = loc[p].left \ {n}
        BY <4>2, <3>2, <3>3, <3>5
           DEF Listed, HandOpen, SameRead, SameWork, OfAlarm, OfRecovery
      <4> QED  BY <3>1, <4>1, <4>2
    <3> QED  BY <3>2, <3>6, AlarmSteps
  <2>10. CASE ReadHealth(p)
    <3>1. pc'[p] = "publish" /\ UNCHANGED issues
      BY <2>10, HealthReadEffect DEF SameStores, tracker
    <3>2. Listed(p)' /\ HandOpen(p)' /\ \A l : OpenIssues(l)' = OpenIssues(l)
      BY <3>1 DEF Listed, HandOpen, Judged, InHand, OfAlarm, OfRecovery, OpenIssues
    <3> QED  BY <3>2, AlarmSteps
  <2>11. CASE PublishHealth(p) \/ Abort(p)
    <3>1. pc'[p] \in {"idle", "done"} /\ UNCHANGED issues
      BY <2>11, PublishEffect, EndEffect DEF Abort, tracker, TypeInv
    <3>2. Listed(p)' /\ HandOpen(p)' /\ \A l : OpenIssues(l)' = OpenIssues(l)
      BY <3>1 DEF Listed, HandOpen, Judged, InHand, OfAlarm, OfRecovery, OpenIssues
    <3> QED  BY <3>2, AlarmSteps
  <2> QED  BY <1>2, <2>1, <2>2, <2>3, <2>4, <2>5, <2>6, <2>7, <2>8, <2>9, <2>10, <2>11
           DEF PassStep
<1> QED  BY <1>1, <1>2, StepCases

LEMMA AlarmInvHolds ==
    ASSUME OnePass
    PROVE  Spec => []AlarmInv
<1>1. Init => AlarmInv
  BY DEF Init, AlarmInv, OnlyAlarm, OpenIssues, Listed, HandOpen, Judged, InHand, OfAlarm,
         OfRecovery
<1>2. TypeInv /\ AlarmInv /\ [Next]_vars => AlarmInv'
  BY AlarmInvNext
<1> QED  BY <1>1, <1>2, TypeInvHolds, PTL DEF Spec

\* For passes that run one at a time, a lane has one open alarm at most, although
\* a pass may die anywhere and the lane's reference may move.
THEOREM OneAlarmHolds ==
    ASSUME OnePass
    PROVE  Spec => []OneAlarm
<1>1. AlarmInv => OneAlarm
  <2> SUFFICES ASSUME AlarmInv, NEW l \in Lane  PROVE Cardinality(OpenIssues(l)) <= 1
    BY DEF OneAlarm
  <2>1. OpenIssues(l) = {} \/ \E n : OpenIssues(l) = {n}
    BY DEF AlarmInv, OnlyAlarm
  <2>2. CASE OpenIssues(l) = {}
    BY <2>2, FS_EmptySet
  <2>3. ASSUME NEW n, OpenIssues(l) = {n}  PROVE Cardinality(OpenIssues(l)) <= 1
    <3>1. Cardinality({n}) = 1
      BY FS_Singleton
    <3> QED  BY <3>1, <2>3
  <2> QED  BY <2>1, <2>2, <2>3
<1> QED  BY <1>1, AlarmInvHolds, PTL

-----------------------------------------------------------------------------
(* What has been judged, and how late the alarms are. *)

LEMMA HandJudgedKept ==
    ASSUME NEW p \in Pass, HandJudged(p), SameRead(p), SameWork(p),
           loc'[p].lane = loc[p].lane,
           \/ pc[p] \in InHand \ OfRecovery /\ pc'[p] \in InHand \ OfRecovery
           \/ pc[p] \in OfRecovery /\ pc'[p] \in OfRecovery
    PROVE  HandJudged(p)'
<1> PICK l : l = loc[p].lane
  OBVIOUS
<1>1. loc'[p].lane = l /\ (Overdue(p, l)' <=> Overdue(p, l)) /\ (FromRecord(p, l)' <=> FromRecord(p, l))
  BY DEF SameRead, SameFacts, Overdue, FromRecord, Reference
<1> QED  BY <1>1 DEF HandJudged, SameWork, InHand, OfAlarm, OfRecovery

LEMMA SameLocJudged ==
    ASSUME NEW p \in Pass, HandJudged(p), loc'[p] = loc[p],
           \/ pc[p] \in InHand \ OfRecovery /\ pc'[p] \in InHand \ OfRecovery
           \/ pc[p] \in OfRecovery /\ pc'[p] \in OfRecovery
    PROVE  HandJudged(p)'
  BY HandJudgedKept DEF SameRead, SameFacts, SameWork

LEMMA OutOfHand ==
    ASSUME NEW p \in Pass, pc'[p] \notin InHand, pc'[p] \notin {"status", "list"}
    PROVE  HandJudged(p)'
  BY DEF HandJudged, InHand, OfAlarm, OfRecovery

LEMMA JudgedInvNext ==
    ASSUME TypeInv, JudgedInv, [Next]_vars
    PROVE  JudgedInv'
<1>1. ASSUME NEW q \in Pass, loc'[q] = loc[q], pc'[q] = pc[q]  PROVE HandJudged(q)'
  BY <1>1 DEF JudgedInv, HandJudged, Overdue, Reference, FromRecord
<1>2. CASE Around
  BY <1>1, <1>2 DEF Around, JudgedInv
<1>3. ASSUME NEW p \in Pass, PassStep(p) \/ Abort(p)  PROVE JudgedInv'
  <2>0. HandJudged(p)
    BY DEF JudgedInv
  <2> SUFFICES Others(p) /\ HandJudged(p)'
    BY <1>1 DEF Others, JudgedInv
  <2>1. CASE StartPass(p)
    BY <2>1, StartEffect DEF TypeInv, HandJudged, InHand, OfAlarm, OfRecovery
  <2>2. CASE ReadLane(p)
    BY <2>0, <2>2, ReadEffect DEF HandJudged, InHand, OfAlarm, OfRecovery, SameWork
  <2>3. CASE ListIssues(p)
    BY <2>3, ListEffect, OutOfHand DEF InHand, OfAlarm, OfRecovery
  <2>4. CASE Judge(p)
    <3>1. Others(p) /\ SameRead(p)
      BY <2>4, JudgeEffect
    <3>2. PICK l \in loc[p].todo :
                \/ /\ Overdue(p, l) /\ pc'[p] \in {"create", "extras"}
                   /\ SameWork(p) /\ loc'[p].lane = l
                \/ /\ ~ Overdue(p, l) /\ FromRecord(p, l) /\ pc'[p] = "scan"
                   /\ SameWork(p) /\ loc'[p].lane = l
                \/ DoneWith(p, l, LowestOrZero(loc[p].open[l]))
      BY <2>4, JudgeEffect
    <3>3. (Overdue(p, l)' <=> Overdue(p, l)) /\ (FromRecord(p, l)' <=> FromRecord(p, l))
      BY <3>1 DEF SameRead, SameFacts, Overdue, FromRecord, Reference
    <3>4. ASSUME Overdue(p, l), pc'[p] \in {"create", "extras"}, SameWork(p), loc'[p].lane = l
          PROVE  HandJudged(p)'
      BY <3>3, <3>4 DEF HandJudged, InHand, OfAlarm, OfRecovery, SameWork
    <3>5. ASSUME ~ Overdue(p, l), FromRecord(p, l), pc'[p] = "scan", SameWork(p), loc'[p].lane = l
          PROVE  HandJudged(p)'
      BY <3>3, <3>5 DEF HandJudged, InHand, OfAlarm, OfRecovery, SameWork
    <3>6. ASSUME DoneWith(p, l, LowestOrZero(loc[p].open[l]))  PROVE HandJudged(p)'
      BY <3>6, OutOfHand DEF DoneWith, InHand, OfAlarm, OfRecovery
    <3> QED  BY <3>1, <3>2, <3>4, <3>5, <3>6
  <2>5. CASE OpenIssue(p) \/ Relist(p) \/ CloseExtra(p)
    <3>1. Others(p) /\ SameRead(p) /\ SameWork(p) /\ loc'[p].lane = loc[p].lane
          /\ pc[p] \in InHand \ OfRecovery /\ pc'[p] \in InHand \ OfRecovery
      BY <2>5, OpenEffect, RelistEffect, ExtraEffect DEF InHand, OfAlarm, OfRecovery
    <3> QED  BY <2>0, <3>1, HandJudgedKept
  <2>6. CASE ExtrasDone(p) \/ ReadStamps(p) \/ PostNotice(p)
    <3>1. /\ Others(p) /\ pc[p] \in InHand \ OfRecovery
          /\ \/ DoneWith(p, loc[p].lane, loc[p].kept)
             \/ pc'[p] \in InHand \ OfRecovery /\ loc'[p] = loc[p]
      <4>1. CASE ExtrasDone(p)
        BY <4>1, ExtrasDoneEffect DEF InHand, OfAlarm, OfRecovery
      <4>2. CASE ReadStamps(p)
        BY <4>2, StampsEffect DEF InHand, OfAlarm, OfRecovery
      <4>3. CASE PostNotice(p)
        BY <4>3, NoticeEffect DEF InHand, OfAlarm, OfRecovery
      <4> QED  BY <2>6, <4>1, <4>2, <4>3
    <3>2. ASSUME DoneWith(p, loc[p].lane, loc[p].kept)  PROVE HandJudged(p)'
      BY <3>2, OutOfHand DEF DoneWith, InHand, OfAlarm, OfRecovery
    <3> QED  BY <2>0, <3>1, <3>2, SameLocJudged
  <2>7. CASE ScanResolved(p) \/ CommentResolved(p)
    <3>1. Others(p) /\ pc[p] \in OfRecovery /\ pc'[p] \in OfRecovery /\ loc'[p] = loc[p]
      <4>1. CASE ScanResolved(p)
        BY <4>1, ScanEffect DEF OfRecovery
      <4>2. CASE CommentResolved(p)
        BY <4>2, ResolutionEffect DEF OfRecovery
      <4> QED  BY <2>7, <4>1, <4>2
    <3> QED  BY <2>0, <3>1, SameLocJudged
  <2>8. CASE CloseResolved(p)
    <3>1. /\ Others(p) /\ pc[p] = "close"
          /\ \/ DoneWith(p, loc[p].lane, 0)
             \/ pc'[p] = "scan" /\ SameRead(p) /\ SameWork(p) /\ loc'[p].lane = loc[p].lane
      BY <2>8, RecoveredEffect
    <3>2. ASSUME DoneWith(p, loc[p].lane, 0)  PROVE HandJudged(p)'
      BY <3>2, OutOfHand DEF DoneWith, InHand, OfAlarm, OfRecovery
    <3> QED  BY <2>0, <3>1, <3>2, HandJudgedKept DEF OfRecovery
  <2>9. CASE ReadHealth(p)
    BY <2>9, HealthReadEffect, OutOfHand DEF InHand, OfAlarm, OfRecovery
  <2>10. CASE PublishHealth(p) \/ Abort(p)
    <3>1. Others(p) /\ pc'[p] \in {"idle", "done"}
      BY <2>10, PublishEffect, EndEffect DEF Abort, TypeInv
    <3> QED  BY <3>1, OutOfHand DEF InHand, OfAlarm, OfRecovery
  <2> QED  BY <1>3, <2>1, <2>2, <2>3, <2>4, <2>5, <2>6, <2>7, <2>8, <2>9, <2>10 DEF PassStep
<1> QED  BY <1>2, <1>3, StepCases

LEMMA JudgedInvHolds == Spec => []JudgedInv
<1>1. Init => JudgedInv
  BY DEF Init, JudgedInv, HandJudged, InHand, OfAlarm, OfRecovery
<1>2. TypeInv /\ JudgedInv /\ [Next]_vars => JudgedInv'
  BY JudgedInvNext
<1> QED  BY <1>1, <1>2, TypeInvHolds, PTL DEF Spec

\* The keys of an issue never change, and a pass keeps its clock.
LEMMA KeySteps ==
    ASSUME TypeInv, NEW p \in Pass, PassStep(p) \/ Abort(p), ~ OpenIssue(p)
    PROVE  DOMAIN issues' = DOMAIN issues /\ \A n \in DOMAIN issues : SameKeys(n)
<1>1. CASE UNCHANGED issues
  BY <1>1 DEF SameKeys
<1>2. CASE PostNotice(p)
  BY <1>2, NoticeEffect
<1>3. CASE CommentResolved(p)
  BY <1>3, ResolutionEffect
<1>4. CASE CloseExtra(p) \/ CloseResolved(p)
  BY <1>4, ExtraEffect, RecoveredEffect, CloseEffect DEF TypeInv
<1> QED
  BY <1>1, <1>2, <1>3, <1>4
     DEF PassStep, StartPass, ReadLane, ListIssues, Judge, Relist, ExtrasDone, ReadStamps,
         ScanResolved, ReadHealth, PublishHealth, Abort, tracker

LEMMA ClockSteps ==
    ASSUME TypeInv, NEW p \in Pass, PassStep(p) \/ Abort(p)
    PROVE  /\ UNCHANGED world
           /\ \/ pc'[p] \notin Active
              \/ StartPass(p) /\ loc'[p].now = now
              \/ pc[p] \in Active /\ loc'[p].now = loc[p].now
<1>1. UNCHANGED world
  BY DEF PassStep, StartPass, ReadLane, ListIssues, Judge, OpenIssue, Relist, CloseExtra,
         ExtrasDone, ReadStamps, PostNotice, ScanResolved, CommentResolved, CloseResolved,
         ReadHealth, PublishHealth, Abort
<1>2. CASE StartPass(p)
  BY <1>1, <1>2, StartEffect DEF TypeInv
<1>3. CASE PublishHealth(p) \/ Abort(p)
  BY <1>1, <1>3, PublishEffect, EndEffect DEF Abort, TypeInv, Active
<1>4. CASE ReadLane(p) \/ ListIssues(p)
  BY <1>1, <1>4, ReadEffect, ListEffect DEF SameFacts, Active, Label
<1>5. CASE Judge(p) \/ OpenIssue(p) \/ Relist(p) \/ CloseExtra(p) \/ ReadHealth(p)
  BY <1>1, <1>5, JudgeEffect, OpenEffect, RelistEffect, ExtraEffect, HealthReadEffect
     DEF SameRead, SameFacts, Active, Label
<1>6. CASE ExtrasDone(p) \/ ReadStamps(p)
  BY <1>1, <1>6, ExtrasDoneEffect, StampsEffect DEF DoneWith, SameRead, SameFacts, Active, Label
<1>7. CASE PostNotice(p)
  <2>1. pc[p] = "notice" /\ loc'[p].now = loc[p].now
    BY <1>7, NoticeEffect DEF DoneWith, SameRead, SameFacts
  <2> QED  BY <2>1, <1>1 DEF Active, Label
<1>8. CASE ScanResolved(p)
  BY <1>1, <1>8, ScanEffect DEF Active, Label
<1>9. CASE CommentResolved(p)
  BY <1>1, <1>9, ResolutionEffect DEF Active, Label
<1>10. CASE CloseResolved(p)
  BY <1>1, <1>10, RecoveredEffect DEF DoneWith, SameRead, SameFacts, Active, Label
<1> QED  BY <1>2, <1>3, <1>4, <1>5, <1>6, <1>7, <1>8, <1>9, <1>10 DEF PassStep

LEMMA GapInvNext ==
    ASSUME OnePass, TypeInv, GapInv, [Next]_vars
    PROVE  GapInv'
<1>0. /\ now \in Nat /\ \A p \in Pass : loc[p].now \in Nat
      /\ \A n \in DOMAIN issues : issues[n].reference + MaxGap[issues[n].lane] \in Nat
  <2>1. \A n \in DOMAIN issues : issues[n] \in Issue
    BY DEF TypeInv, TypeOK
  <2>2. \A n \in DOMAIN issues : issues[n].reference \in Nat /\ MaxGap[issues[n].lane] \in Nat
    BY <2>1, ConstantTypes DEF Issue
  <2>3. now \in Nat /\ \A p \in Pass : loc[p].now \in Nat
    BY ConstantTypes DEF TypeInv, TypeOK, Locals
  <2> QED  BY <2>2, <2>3
<1>1. CASE Around
  <2>1. now <= now' /\ now' \in Nat
    BY <1>1, StepCases, ConstantTypes DEF Around, TypeInv, TypeOK
  <2>2. issues' = issues /\ pc' = pc /\ loc' = loc
    BY <1>1 DEF Around, tracker
  <2> QED  BY <1>0, <2>1, <2>2 DEF GapInv, Late
<1>2. ASSUME NEW p \in Pass, PassStep(p) \/ Abort(p)  PROVE GapInv'
  <2>0. \A q \in Pass : q = p
    BY DEF OnePass
  <2>1. /\ now' = now
        /\ \/ pc'[p] \notin Active
           \/ loc'[p].now = now
           \/ pc[p] \in Active /\ loc'[p].now = loc[p].now
    BY <1>2, ClockSteps DEF world
  <2>2. CASE OpenIssue(p)
    <3>1. PICK i \in Issue : /\ issues' = Append(issues, i) /\ i.lane = loc[p].lane
                             /\ i.reference = Reference(p, loc[p].lane)
      BY <2>2, OpenEffect
    <3>2. /\ DOMAIN issues' = DOMAIN issues \cup {Len(issues) + 1}
          /\ issues'[Len(issues) + 1] = i
          /\ \A n \in DOMAIN issues : issues'[n] = issues[n]
      BY <3>1, AppendEffect DEF TypeInv
    <3>3. pc[p] = "create" /\ loc'[p].now = loc[p].now
      BY <2>2, OpenEffect DEF SameRead, SameFacts
    <3>4. loc[p].now > i.reference + MaxGap[i.lane] /\ pc[p] \in Active
      BY <3>1, <3>3 DEF TypeInv, HandTyped, Overdue, Active, Label
    <3>5. loc[p].now <= now /\ \A n \in DOMAIN issues : Late(n, loc[p].now) /\ Late(n, now)
      BY <3>4 DEF GapInv
    <3>6. i.reference + MaxGap[i.lane] \in Nat
      BY ConstantTypes DEF Issue
    <3>7. now > i.reference + MaxGap[i.lane]
      BY <3>4, <3>5, <3>6, <1>0
    <3>8. \A n \in DOMAIN issues' : Late(n, now)' /\ loc[p].now > issues'[n].reference + MaxGap[issues'[n].lane]
      BY <3>2, <3>4, <3>5, <3>7, <2>1 DEF Late
    <3> QED  BY <2>0, <2>1, <3>3, <3>5, <3>8 DEF GapInv, Late
  <2>3. CASE ~ OpenIssue(p)
    <3>1. DOMAIN issues' = DOMAIN issues /\ \A n \in DOMAIN issues : SameKeys(n)
      BY <1>2, <2>3, KeySteps
    <3> QED  BY <1>0, <2>0, <2>1, <3>1 DEF GapInv, Late, SameKeys
  <2> QED  BY <2>2, <2>3
<1> QED  BY <1>1, <1>2, StepCases

LEMMA GapInvHolds ==
    ASSUME OnePass
    PROVE  Spec => []GapInv
<1>1. Init => GapInv
  BY DEF Init, GapInv, Active
<1>2. TypeInv /\ GapInv /\ [Next]_vars => GapInv'
  BY GapInvNext
<1> QED  BY <1>1, <1>2, TypeInvHolds, PTL DEF Spec

\* An issue is closed as resolved in one step only.
LEMMA ResolvedBy ==
    ASSUME TypeInv, NEW p \in Pass, PassStep(p) \/ Abort(p),
           NEW n \in DOMAIN issues, issues[n].closed = "no", issues'[n].closed = "resolved"
    PROVE  CloseResolved(p) /\ n = Lowest(loc[p].left)
<1>1. CASE UNCHANGED issues
  BY <1>1
<1>2. CASE OpenIssue(p)
  <2>1. PICK i \in Issue : issues' = Append(issues, i)
    BY <1>2, OpenEffect
  <2> QED  BY <2>1, AppendEffect DEF TypeInv
<1>3. CASE PostNotice(p)
  BY <1>3, NoticeEffect
<1>4. CASE CommentResolved(p)
  BY <1>4, ResolutionEffect
<1>5. CASE CloseExtra(p)
  BY <1>5, ExtraEffect, CloseEffect DEF TypeInv
<1>6. CASE CloseResolved(p)
  BY <1>6, RecoveredEffect, CloseEffect DEF TypeInv
<1> QED
  BY <1>1, <1>2, <1>3, <1>4, <1>5, <1>6
     DEF PassStep, StartPass, ReadLane, ListIssues, Judge, Relist, ExtrasDone, ReadStamps,
         ScanResolved, ReadHealth, PublishHealth, Abort, tracker

\* For passes that run one at a time, an alarm is cleared only by a scheduled
\* record that finished after the instant its gap was measured from, and after
\* the comment that names that record.
THEOREM RecoveredByNewRecordHolds ==
    ASSUME OnePass
    PROVE  Spec => RecoveredByNewRecord
<1> DEFINE Cleared(n) ==
      issues[n].closed = "no" /\ issues'[n].closed = "resolved" =>
              \E r \in receipted :
                  /\ RunInfo[r].lane = issues[n].lane /\ RunInfo[r].qualifies
                  /\ RunInfo[r].finished > issues[n].reference
                  /\ issues[n].resolved[r] > 0
<1>1. ASSUME TypeInv, ResolvedInv, AlarmInv, JudgedInv, GapInv, Next,
             NEW n \in DOMAIN issues, issues[n].closed = "no", issues'[n].closed = "resolved"
      PROVE  \E r \in receipted :
                  /\ RunInfo[r].lane = issues[n].lane /\ RunInfo[r].qualifies
                  /\ RunInfo[r].finished > issues[n].reference
                  /\ issues[n].resolved[r] > 0
  <2>1. ~ Around
    BY <1>1 DEF Around, tracker
  <2>2. PICK p \in Pass : PassStep(p) \/ Abort(p)
    BY <1>1, <2>1, StepCases
  <2>3. CloseResolved(p) /\ n = Lowest(loc[p].left)
    BY <1>1, <2>2, ResolvedBy
  <2>4. pc[p] = "close" /\ pc[p] \in OfRecovery /\ pc[p] \in Active
    BY <2>3 DEF CloseResolved, OfRecovery, Active, Label
  <2> DEFINE l == loc[p].lane
             r == loc[p].record[l]
  <2>5. l \in Lane /\ r \in Run /\ n \in OpenIssues(l)
    BY <1>1, <2>3, <2>4, RecoveryTyped DEF AlarmInv, HandOpen
  <2>6. issues[n].lane = l
    BY <2>5 DEF OpenIssues
  <2>7. r \in receipted /\ RunInfo[r].lane = l /\ RunInfo[r].qualifies
    BY <1>1, <2>5, NoneIsNothing DEF TypeInv, RecordsRead
  <2>8. issues[n].resolved[r] > 0
    BY <1>1, <2>3, <2>4 DEF ResolvedInv, Announced
  <2>9. ~ Overdue(p, l) /\ FromRecord(p, l)
    BY <1>1, <2>4 DEF JudgedInv, HandJudged
  <2>10. loc[p].now > issues[n].reference + MaxGap[l]
    BY <1>1, <2>4, <2>6 DEF GapInv, Late
  <2>11. RunInfo[r].finished \in Nat /\ MaxGap[l] \in Nat /\ loc[p].now \in Nat
         /\ issues[n].reference \in Nat
    <3>1. issues[n] \in Issue
      BY <1>1 DEF TypeInv, TypeOK
    <3>2. RunInfo[r] \in RunFacts /\ MaxGap[l] \in Nat
      BY <2>5, ConstantTypes
    <3>3. loc[p].now \in Nat
      BY <1>1 DEF TypeInv, TypeOK, Locals
    <3> QED  BY <3>1, <3>2, <3>3 DEF Issue, RunFacts
  <2>12. RunInfo[r].finished # None
    BY <2>11, NoneIsNothing
  <2>13. ~ (loc[p].now > RunInfo[r].finished + MaxGap[l])
    BY <2>9, <2>12 DEF Overdue, Reference
  <2>14. RunInfo[r].finished > issues[n].reference
    BY <2>10, <2>11, <2>13
  <2> QED  BY <2>6, <2>7, <2>8, <2>14
<1>2. TypeInv /\ ResolvedInv /\ AlarmInv /\ JudgedInv /\ GapInv /\ [Next]_vars =>
        [\A n \in DOMAIN issues : Cleared(n)]_vars
  BY <1>1
<1>3. Spec => [][\A n \in DOMAIN issues : Cleared(n)]_vars
  <2> HIDE DEF Cleared
  <2> QED  BY <1>2, TypeInvHolds, ResolvedInvHolds, AlarmInvHolds, JudgedInvHolds, GapInvHolds, PTL DEF Spec
<1> QED  BY <1>3 DEF RecoveredByNewRecord

-----------------------------------------------------------------------------
(* The status comment. *)

\* Rows stay true while the open alarms of the lanes already reconciled do.
LEMMA RowsKept ==
    ASSUME NEW p \in Pass, Rows(p), pc[p] \in Judged, SameRead(p),
           loc'[p].todo = loc[p].todo, loc'[p].result = loc[p].result,
           \A l \in Lane \ loc[p].todo : OpenIssues(l)' = OpenIssues(l)
    PROVE  Rows(p)'
<1>1. \A l \in Lane : /\ Overdue(p, l)' <=> Overdue(p, l)
                      /\ FromRecord(p, l)' <=> FromRecord(p, l)
  BY JudgementKept DEF SameRead
<1>2. ASSUME NEW l \in Lane \ loc[p].todo  PROVE RowTrue(p, l)'
  <2>1. RowTrue(p, l)
    BY DEF Rows
  <2> QED  BY <1>1, <2>1 DEF RowTrue
<1> QED  BY <1>2 DEF Rows

LEMMA RowsDone ==
    ASSUME TypeInv, NEW p \in Pass, Rows(p), pc[p] \in Judged, NEW l \in Lane, NEW n,
           DoneWith(p, l, n),
           \A k \in Lane : k # l => OpenIssues(k)' = OpenIssues(k),
           n = LowestOrZero(OpenIssues(l)'),
           Overdue(p, l) => OpenIssues(l)' # {},
           ~ Overdue(p, l) /\ FromRecord(p, l) => OpenIssues(l)' = {}
    PROVE  Rows(p)'
<1>1. \A k \in Lane : /\ Overdue(p, k)' <=> Overdue(p, k)
                      /\ FromRecord(p, k)' <=> FromRecord(p, k)
  BY JudgementKept DEF DoneWith, SameRead
<1>2. /\ loc'[p].todo = loc[p].todo \ {l}
      /\ \A k \in Lane : loc'[p].result[k] = IF k = l THEN n ELSE loc[p].result[k]
  BY DEF DoneWith, TypeInv, TypeOK, Locals
<1>3. ASSUME NEW k \in Lane \ loc'[p].todo  PROVE RowTrue(p, k)'
  <2>1. CASE k = l
    BY <1>1, <1>2, <2>1 DEF RowTrue
  <2>2. CASE k # l
    <3>1. k \in Lane \ loc[p].todo /\ OpenIssues(k)' = OpenIssues(k)
      BY <1>2, <2>2
    <3>2. RowTrue(p, k)
      BY <3>1 DEF Rows
    <3> QED  BY <1>1, <1>2, <2>2, <3>1, <3>2 DEF RowTrue
  <2> QED  BY <2>1, <2>2
<1> QED  BY <1>3 DEF Rows

LEMMA NoRows ==
    ASSUME NEW p \in Pass, pc'[p] \notin Judged \cup {"publish"} \/ loc'[p].todo = Lane
    PROVE  Rows(p)'
  BY DEF Rows

LEMMA RowsInvNext ==
    ASSUME OnePass, TypeInv, AlarmInv, JudgedInv, RowsInv, [Next]_vars
    PROVE  RowsInv'
<1>1. CASE Around
  <2>1. UNCHANGED <<issues, pc, loc>>
    BY <1>1 DEF Around, tracker
  <2> QED  BY <2>1 DEF RowsInv, Rows, RowTrue, Overdue, FromRecord, Reference, OpenIssues
<1>2. ASSUME NEW p \in Pass, PassStep(p) \/ Abort(p)  PROVE RowsInv'
  <2> SUFFICES Rows(p)'
    BY DEF RowsInv, OnePass
  <2>0. /\ Rows(p) /\ Listed(p) /\ HandOpen(p) /\ HandJudged(p)
        /\ loc[p].todo \subseteq Lane
        /\ \A k : OpenIssues(k) \in SUBSET Nat
    BY DEF RowsInv, AlarmInv, JudgedInv, TypeInv, TypeOK, Locals, OpenIssues
  <2>1. CASE StartPass(p) \/ ReadLane(p)
    BY <2>1, StartEffect, ReadEffect, NoRows
       DEF Judged, InHand, OfAlarm, OfRecovery, TypeInv
  <2>2. CASE ListIssues(p)
    <3>1. loc'[p].todo = Lane
      BY <2>0, <2>2, ListEffect DEF SameWork, HandJudged
    <3> QED  BY <3>1, NoRows
  <2>3. CASE Judge(p)
    <3>1. SameRead(p) /\ pc[p] \in Judged
      BY <2>3, JudgeEffect DEF Judged
    <3>2. \A k : OpenIssues(k)' = OpenIssues(k)
      BY <2>3 DEF Judge, tracker, OpenIssues
    <3>3. PICK l \in loc[p].todo :
                \/ SameWork(p)
                \/ /\ ~ Overdue(p, l) /\ (~ FromRecord(p, l) \/ loc[p].open[l] = {})
                   /\ DoneWith(p, l, LowestOrZero(loc[p].open[l]))
      BY <2>3, JudgeEffect
    <3>4. loc[p].open[l] = OpenIssues(l) /\ l \in Lane
      BY <2>0, <2>3 DEF Listed, Judge, Judged
    <3>5. CASE SameWork(p)
      BY <2>0, <3>1, <3>2, <3>5, RowsKept DEF SameWork
    <3>6. CASE /\ ~ Overdue(p, l) /\ (~ FromRecord(p, l) \/ loc[p].open[l] = {})
               /\ DoneWith(p, l, LowestOrZero(loc[p].open[l]))
      <4>1. ~ Overdue(p, l) /\ FromRecord(p, l) => OpenIssues(l)' = {}
        BY <3>2, <3>4, <3>6
      <4>2. DoneWith(p, l, LowestOrZero(OpenIssues(l)'))
        BY <3>2, <3>4, <3>6
      <4> QED  BY <2>0, <3>1, <3>2, <3>4, <3>6, <4>1, <4>2, RowsDone
    <3> QED  BY <3>3, <3>5, <3>6
  <2>4. CASE OpenIssue(p)
    <3>1. /\ pc[p] = "create" /\ pc[p] \in Judged /\ SameRead(p) /\ SameWork(p)
          /\ loc[p].lane \in loc[p].todo
      BY <2>0, <2>4, OpenEffect DEF Judged, InHand, HandJudged
    <3>2. \A l \in Lane \ loc[p].todo : OpenIssues(l)' = OpenIssues(l)
      BY <2>4, <3>1, OpenAppended
    <3> QED  BY <2>0, <3>1, <3>2, RowsKept DEF SameWork
  <2>5. CASE Relist(p)
    <3>1. pc[p] \in Judged /\ SameRead(p) /\ SameWork(p)
      BY <2>5, RelistEffect DEF Judged, InHand, OfAlarm
    <3>2. \A k : OpenIssues(k)' = OpenIssues(k)
      BY <2>5 DEF Relist, tracker, OpenIssues
    <3> QED  BY <2>0, <3>1, <3>2, RowsKept DEF SameWork
  <2>6. CASE CloseExtra(p)
    BY <2>0, <2>6 DEF CloseExtra, HandOpen, OfAlarm
  <2>7. CASE ExtrasDone(p) \/ ReadStamps(p) \/ PostNotice(p)
    <3>1. /\ pc[p] \in OfAlarm \ {"relist"}
          /\ \/ DoneWith(p, loc[p].lane, loc[p].kept)
             \/ loc'[p] = loc[p]
      <4>1. CASE ExtrasDone(p)
        BY <4>1, ExtrasDoneEffect DEF OfAlarm
      <4>2. CASE ReadStamps(p)
        BY <4>2, StampsEffect DEF OfAlarm
      <4>3. CASE PostNotice(p)
        BY <4>3, NoticeEffect DEF OfAlarm
      <4> QED  BY <2>7, <4>1, <4>2, <4>3
    <3>2. \A k : OpenIssues(k)' = OpenIssues(k)
      BY <2>7, <1>2, <3>1, OpenSteps
         DEF OfAlarm, OpenIssue, CloseExtra, CloseResolved, ExtrasDone, ReadStamps, PostNotice
    <3>3. PICK l : l = loc[p].lane
      OBVIOUS
    <3>4. pc[p] \in Judged /\ l \in Lane /\ Overdue(p, l) /\ OpenIssues(l) = {loc[p].kept}
      BY <2>0, <3>1, <3>3 DEF HandJudged, HandOpen, Judged, InHand, OfAlarm, OfRecovery
    <3>5. CASE loc'[p] = loc[p]
      BY <2>0, <3>2, <3>4, <3>5, RowsKept DEF SameRead, SameFacts
    <3>6. CASE DoneWith(p, loc[p].lane, loc[p].kept)
      <4>1. LowestOrZero(OpenIssues(l)') = loc[p].kept
        BY <2>0, <3>2, <3>4, LowestTyped
      <4>2. DoneWith(p, l, LowestOrZero(OpenIssues(l)'))
        BY <3>3, <3>6, <4>1
      <4>3. OpenIssues(l)' # {}
        BY <3>2, <3>4
      <4> QED  BY <2>0, <3>2, <3>4, <4>2, <4>3, RowsDone
    <3> QED  BY <3>1, <3>5, <3>6
  <2>8. CASE ScanResolved(p) \/ CommentResolved(p)
    <3>1. pc[p] \in Judged /\ loc'[p] = loc[p]
      <4>1. CASE ScanResolved(p)
        BY <4>1, ScanEffect DEF Judged, InHand, OfRecovery
      <4>2. CASE CommentResolved(p)
        BY <4>2, ResolutionEffect DEF Judged, InHand, OfRecovery
      <4> QED  BY <2>8, <4>1, <4>2
    <3>2. \A k : OpenIssues(k)' = OpenIssues(k)
      BY <2>8, <1>2, OpenSteps
         DEF OpenIssue, CloseExtra, CloseResolved, ScanResolved, CommentResolved
    <3> QED  BY <2>0, <3>1, <3>2, RowsKept DEF SameRead, SameFacts
  <2>9. CASE CloseResolved(p)
    <3>0. PICK n, l : n = Lowest(loc[p].left) /\ l = loc[p].lane
      OBVIOUS
    <3>1. /\ pc[p] = "close" /\ Close(n, "resolved")
          /\ \/ loc[p].left = {n} /\ DoneWith(p, l, 0)
             \/ SameRead(p) /\ SameWork(p)
      BY <2>9, <3>0, RecoveredEffect
    <3>2. \A k : OpenIssues(k)' = OpenIssues(k) \ {n}
      BY <3>1, OpenClosed DEF TypeInv
    <3>3. /\ OpenIssues(l) = loc[p].left /\ n \in loc[p].left /\ l \in loc[p].todo
          /\ ~ Overdue(p, l) /\ pc[p] \in Judged
      BY <2>0, <3>0, <3>1, RecoveryTyped
         DEF HandOpen, HandJudged, Judged, InHand, OfRecovery
    <3>4. \A k : k # l => OpenIssues(k)' = OpenIssues(k)
      BY <3>2, <3>3 DEF OpenIssues
    <3>5. CASE SameRead(p) /\ SameWork(p)
      BY <2>0, <3>3, <3>4, <3>5, RowsKept DEF SameWork
    <3>6. CASE loc[p].left = {n} /\ DoneWith(p, l, 0)
      <4>1. OpenIssues(l)' = {}
        BY <3>2, <3>3, <3>6
      <4>2. DoneWith(p, l, LowestOrZero(OpenIssues(l)'))
        BY <3>6, <4>1, LowestTyped
      <4> QED  BY <2>0, <3>3, <3>4, <4>1, <4>2, RowsDone
    <3> QED  BY <3>1, <3>5, <3>6
  <2>10. CASE ReadHealth(p)
    <3>1. pc[p] \in Judged /\ SameRead(p) /\ SameWork(p) /\ UNCHANGED issues
      BY <2>10, HealthReadEffect DEF SameStores, tracker, Judged
    <3>2. \A k : OpenIssues(k)' = OpenIssues(k)
      BY <3>1 DEF OpenIssues
    <3> QED  BY <2>0, <3>1, <3>2, RowsKept DEF SameWork
  <2>11. CASE PublishHealth(p) \/ Abort(p)
    <3>1. pc'[p] \in {"idle", "done"}
      BY <2>11, PublishEffect, EndEffect DEF Abort, TypeInv
    <3> QED  BY <3>1, NoRows DEF Judged, InHand, OfAlarm, OfRecovery
  <2> QED  BY <1>2, <2>1, <2>2, <2>3, <2>4, <2>5, <2>6, <2>7, <2>8, <2>9, <2>10, <2>11
           DEF PassStep
<1> QED  BY <1>1, <1>2, StepCases

LEMMA RowsInvHolds ==
    ASSUME OnePass
    PROVE  Spec => []RowsInv
<1>1. Init => RowsInv
  BY DEF Init, RowsInv, Rows, Judged, InHand, OfAlarm, OfRecovery
<1>2. TypeInv /\ AlarmInv /\ JudgedInv /\ RowsInv /\ [Next]_vars => RowsInv'
  BY RowsInvNext
<1> QED  BY <1>1, <1>2, TypeInvHolds, AlarmInvHolds, JudgedInvHolds, PTL DEF Spec

\* The comment changes in one step only, which writes it at its place.
LEMMA CommentSteps ==
    ASSUME TypeInv, NEW p \in Pass, PassStep(p) \/ Abort(p), ~ PublishHealth(p)
    PROVE  /\ health' = health
           /\ pc'[p] = "publish" =>
                /\ loc'[p].todo = {} /\ loc'[p].kept = IF health = <<>> THEN 0 ELSE 1
                /\ loc'[p].last = IF health = <<>> THEN None ELSE health[1].last
<1>1. health' = health
  BY DEF PassStep, StartPass, ReadLane, ListIssues, Judge, OpenIssue, Relist, CloseExtra,
         ExtrasDone, ReadStamps, PostNotice, ScanResolved, CommentResolved, CloseResolved,
         ReadHealth, PublishHealth, Abort, tracker
<1>2. CASE ReadHealth(p)
  BY <1>1, <1>2, HealthReadEffect DEF SameWork
<1>3. CASE ~ ReadHealth(p)
  <2> SUFFICES pc'[p] # "publish"
    BY <1>1
  <2>1. CASE StartPass(p) \/ ReadLane(p) \/ ListIssues(p) \/ Judge(p)
    BY <2>1, StartEffect, ReadEffect, ListEffect, JudgeEffect DEF DoneWith, TypeInv
  <2>2. CASE OpenIssue(p) \/ Relist(p) \/ CloseExtra(p) \/ ExtrasDone(p) \/ ReadStamps(p)
    BY <2>2, OpenEffect, RelistEffect, ExtraEffect, ExtrasDoneEffect, StampsEffect DEF DoneWith
  <2>3. CASE PostNotice(p)
    BY <2>3, NoticeEffect DEF DoneWith
  <2>4. CASE ScanResolved(p)
    BY <2>4, ScanEffect
  <2>5. CASE CommentResolved(p)
    BY <2>5, ResolutionEffect
  <2>6. CASE CloseResolved(p)
    BY <2>6, RecoveredEffect DEF DoneWith
  <2>7. CASE Abort(p)
    BY <2>7, EndEffect DEF Abort, TypeInv
  <2> QED  BY <1>3, <2>1, <2>2, <2>3, <2>4, <2>5, <2>6, <2>7 DEF PassStep
<1> QED  BY <1>2, <1>3

LEMMA Published ==
    ASSUME TypeInv, LastInv, NEW p \in Pass, PublishHealth(p)
    PROVE  health' # <<>> /\ health'[1] = StatusBody(p)
<1>1. /\ pc[p] = "publish" /\ loc[p].kept = IF health = <<>> THEN 0 ELSE 1
      /\ health' = IF loc[p].kept = 0 THEN Append(health, StatusBody(p))
                   ELSE [health EXCEPT ![loc[p].kept] = StatusBody(p)]
  BY PublishEffect DEF LastInv, LastKnown
<1>2. health \in Seq(Status)
  BY DEF TypeInv, TypeOK
<1>3. CASE health = <<>>
  BY <1>1, <1>2, <1>3
<1>4. CASE health # <<>>
  <2>1. health' = [health EXCEPT ![1] = StatusBody(p)] /\ 1 \in DOMAIN health
    BY <1>1, <1>2, <1>4
  <2> QED  BY <2>1, <1>2
<1> QED  BY <1>3, <1>4

\* What the comment says of the last sweep, after it is written.
LEMMA PublishedLast ==
    ASSUME TypeInv, LastInv, NEW p \in Pass, PublishHealth(p)
    PROVE  /\ health'[1].last = IF loc[p].sweep_ok THEN loc[p].now ELSE loc[p].last
           /\ loc[p].last = IF health = <<>> THEN None ELSE health[1].last
           /\ health # <<>> /\ health[1].last # None => health[1].last <= loc[p].now
<1>1. pc[p] = "publish" /\ pc[p] \in Active
  BY DEF PublishHealth, Active, Label
<1>2. health'[1].last = LastSweep(p)
  BY Published, BodyTyped
<1> QED  BY <1>1, <1>2 DEF LastSweep, LastInv, LastKnown

LEMMA LastInvNext ==
    ASSUME OnePass, TypeInv, GapInv, LastInv, [Next]_vars
    PROVE  LastInv'
<1>0. /\ now \in Nat /\ \A p \in Pass : loc[p].now \in Nat
      /\ health # <<>> => health[1].last \in Instant
  <2>1. health # <<>> => health[1] \in Status
    BY DEF TypeInv, TypeOK
  <2> QED  BY <2>1, ConstantTypes DEF TypeInv, TypeOK, Locals, Status
<1>1. CASE Around
  <2>1. now <= now' /\ now' \in Nat
    BY <1>1, StepCases, ConstantTypes DEF Around, TypeInv, TypeOK
  <2>2. health' = health /\ pc' = pc /\ loc' = loc
    BY <1>1 DEF Around, tracker
  <2>3. health # <<>> /\ health[1].last # None => health[1].last <= now'
    BY <1>0, <2>1 DEF LastInv, Instant
  <2> QED  BY <2>2, <2>3 DEF LastInv, LastKnown
<1>2. ASSUME NEW p \in Pass, PassStep(p) \/ Abort(p)  PROVE LastInv'
  <2>0. \A q \in Pass : q = p
    BY DEF OnePass
  <2>1. /\ now' = now
        /\ \/ pc'[p] \notin Active
           \/ StartPass(p) /\ loc'[p].now = now
           \/ pc[p] \in Active /\ loc'[p].now = loc[p].now
    BY <1>2, ClockSteps DEF world
  <2>2. CASE PublishHealth(p)
    <3>1. pc'[p] \in {"idle", "done"} /\ loc[p].now <= now
      BY <2>2, PublishEffect DEF PublishHealth, GapInv, Active, Label
    <3>2. LastKnown(p)'
      BY <3>1 DEF LastKnown, Active
    <3>3. health'[1].last = None \/ health'[1].last <= now
      BY <1>0, <2>2, <3>1, PublishedLast DEF Instant, LastInv
    <3> QED  BY <2>0, <2>1, <3>2, <3>3 DEF LastInv
  <2>3. CASE ~ PublishHealth(p)
    <3>1. /\ health' = health
          /\ pc'[p] = "publish" =>
                /\ loc'[p].todo = {} /\ loc'[p].kept = IF health = <<>> THEN 0 ELSE 1
                /\ loc'[p].last = IF health = <<>> THEN None ELSE health[1].last
      BY <1>2, <2>3, CommentSteps
    <3>2. pc'[p] \in Active /\ health # <<>> /\ health[1].last # None =>
             health[1].last <= loc'[p].now
      BY <2>1 DEF LastInv, LastKnown
    <3>3. LastKnown(p)'
      BY <3>1, <3>2 DEF LastKnown
    <3> QED  BY <2>0, <2>1, <3>1, <3>3 DEF LastInv
  <2> QED  BY <2>2, <2>3
<1> QED  BY <1>1, <1>2, StepCases

LEMMA LastInvHolds ==
    ASSUME OnePass
    PROVE  Spec => []LastInv
<1>1. Init => LastInv
  BY DEF Init, LastInv, LastKnown, Active
<1>2. TypeInv /\ GapInv /\ LastInv /\ [Next]_vars => LastInv'
  BY LastInvNext
<1> QED  BY <1>1, <1>2, TypeInvHolds, GapInvHolds, PTL DEF Spec

\* For passes that run one at a time, the status comment names the open alarm of
\* every lane, calls a lane overdue or on schedule as its alarms say, and its last
\* successful sweep never goes back.
THEOREM StatusIsTrueHolds ==
    ASSUME OnePass
    PROVE  Spec => StatusIsTrue
<1> DEFINE RowsSay ==
             \A l \in Lane :
                /\ health'[1].rows[l].issue = LowestOrZero(OpenIssues(l))
                /\ health'[1].rows[l].state = "OVERDUE" => OpenIssues(l) # {}
                /\ health'[1].rows[l].state = "on schedule" => OpenIssues(l) = {}
           Onward == health # <<>> /\ health[1].last # None =>
                health'[1].last # None /\ health'[1].last >= health[1].last
           Told ==
             health' # health =>
               /\ RowsSay
               /\ Onward
<1>1. ASSUME TypeInv, RowsInv, LastInv, Next, health' # health  PROVE RowsSay /\ Onward
  <2>1. ~ Around
    BY <1>1 DEF Around, tracker
  <2>2. PICK p \in Pass : PassStep(p) \/ Abort(p)
    BY <1>1, <2>1, StepCases
  <2>3. PublishHealth(p)
    BY <1>1, <2>2, CommentSteps
  <2>4. pc[p] = "publish" /\ loc[p].todo = {}
    BY <1>1, <2>3 DEF PublishHealth, LastInv, LastKnown
  <2>5. \A l \in Lane : RowTrue(p, l)
    BY <1>1, <2>4 DEF RowsInv, Rows
  <2>6. ASSUME NEW l \in Lane
        PROVE  /\ StateOf(p, l) = "OVERDUE" => Overdue(p, l)
               /\ StateOf(p, l) = "on schedule" => ~ Overdue(p, l) /\ FromRecord(p, l)
    BY DEF StateOf
  <2>7. RowsSay
    BY <1>1, <2>3, <2>5, <2>6, Published, BodyTyped DEF RowTrue
  <2>8. loc[p].now \in Nat /\ (health # <<>> => health[1].last \in Instant)
    <3>1. health # <<>> => health[1] \in Status
      BY <1>1 DEF TypeInv, TypeOK
    <3> QED  BY <1>1, <3>1 DEF TypeInv, TypeOK, Locals, Status
  <2>9. Onward
    BY <1>1, <2>3, <2>8, PublishedLast, NoneIsNothing DEF Instant
  <2> QED  BY <2>7, <2>9
<1>2. TypeInv /\ RowsInv /\ LastInv /\ [Next]_vars => [Told]_vars
  BY <1>1
<1>3. Spec => [][Told]_vars
  <2> HIDE DEF Told
  <2> QED  BY <1>2, TypeInvHolds, RowsInvHolds, LastInvHolds, PTL DEF Spec
<1> QED  BY <1>3 DEF StatusIsTrue

=============================================================================
