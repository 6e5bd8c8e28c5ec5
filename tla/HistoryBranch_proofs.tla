------------------------- MODULE HistoryBranch_proofs -------------------------
(***************************************************************************)
(* Proofs about commit_files, for any number of concurrent writers, paths  *)
(* and contents: the branch is a create-only store.                        *)
(***************************************************************************)
EXTENDS HistoryBranch, TLAPS

\* What a call has established when it gets to a label: it carries files while
\* it runs, and it has looked all of their paths up before it pushes.
CallSound ==
    \A w \in Writer :
        /\ pc[w] # "idle" => files[w] \in FileSet
        /\ pc[w] = "push" => unchecked[w] = {}

Inv == TypeOK /\ ChecksHold /\ CallSound

\* An overlay of a typed file set on a typed tree is a typed tree.
LEMMA OverlayType ==
    ASSUME NEW f \in FileSet, NEW t \in [Path -> Value \cup {Absent}]
    PROVE  /\ Store!Overlay(f, t) \in [Path -> Value \cup {Absent}]
           /\ DOMAIN f \subseteq Path
BY DEF FileSet, Store!FileSet, Store!Overlay

\* Every commit has a tree, and so has the branch before its first commit.
LEMMA TreeType ==
    ASSUME TypeOK, NEW n \in 0..Tip
    PROVE  TreeAt(n) \in [Path -> Value \cup {Absent}]
<1>1. CASE n = 0
  BY <1>1 DEF TreeAt, Store!EmptyTree
<1>2. CASE n # 0
  <2>1. n \in 1..Len(log)
    BY <1>2 DEF Tip
  <2> QED BY <1>2, <2>1 DEF TypeOK, TreeAt
<1> QED BY <1>1, <1>2

\* The empty branch and idle writers satisfy the invariant.
LEMMA InvInit == Init => Inv
BY DEF Init, Inv, TypeOK, ChecksHold, CallSound, Tip

\* A writer that returns is idle again; the branch and the others are untouched.
LEMMA ReturnSound ==
    ASSUME Inv, NEW w \in Writer, Return(w), log' = log
    PROVE  Inv'
<1>1. TypeOK'
  BY DEF Inv, TypeOK, Return
<1>2. ChecksHold'
  BY DEF Inv, TypeOK, ChecksHold, Return, Tip, TreeAt
<1>3. CallSound'
  BY DEF Inv, TypeOK, CallSound, Return
<1> QED BY <1>1, <1>2, <1>3 DEF Inv

\* The head and the files of a new call.
LEMMA ReadHeadSound ==
    ASSUME Inv, NEW w \in Writer, ReadHead(w)
    PROVE  Inv'
<1>1. PICK f \in FileSet :
          /\ files' = [files EXCEPT ![w] = f]
          /\ unchecked' = [unchecked EXCEPT ![w] = IF Tip = 0 THEN {} ELSE DOMAIN f]
  BY DEF ReadHead
<1>2. DOMAIN f \subseteq Path /\ Tip \in Nat
  BY DEF FileSet, Store!FileSet, Inv, TypeOK, Tip
<1>3. TypeOK'
  BY <1>1, <1>2 DEF ReadHead, Inv, TypeOK
<1>4. ChecksHold'
  <2>1. \A p \in Path : TreeAt(0)[p] = Absent
    BY DEF TreeAt, Store!EmptyTree
  <2>2. log' = log /\ base' = [base EXCEPT ![w] = Tip] /\ Tip' = Tip /\ TreeAt(Tip)' = TreeAt(Tip)
    BY DEF ReadHead, Tip, TreeAt
  <2>3. \A p \in DOMAIN files'[w] \ unchecked'[w] : TreeAt(Tip)[p] = Absent
    BY <1>1, <1>2, <2>1 DEF Inv, TypeOK
  <2>4. \A v \in Writer : v # w =>
            pc'[v] = pc[v] /\ base'[v] = base[v] /\ files'[v] = files[v] /\ unchecked'[v] = unchecked[v]
    BY <1>1 DEF ReadHead, Inv, TypeOK
  <2>5. base'[w] = Tip
    BY <2>2 DEF Inv, TypeOK
  <2> QED BY <1>2, <2>2, <2>3, <2>4, <2>5 DEF Inv, ChecksHold
<1>5. CallSound'
  BY <1>1 DEF ReadHead, CallSound, Inv, TypeOK
<1> QED BY <1>3, <1>4, <1>5 DEF Inv

\* A path found absent joins those looked up; the branch does not move.
LEMMA CheckSound ==
    ASSUME Inv, NEW w \in Writer, CheckAbsent(w)
    PROVE  Inv'
<1>1. PICK q \in unchecked[w] :
          /\ TreeAt(Tip)[q] = Absent
          /\ unchecked' = [unchecked EXCEPT ![w] = @ \ {q}]
          /\ pc' = [pc EXCEPT ![w] = IF unchecked[w] = {q} THEN "push" ELSE "check"]
  BY DEF CheckAbsent
<1>2. UNCHANGED <<log, base, files>> /\ pc[w] = "check"
  BY DEF CheckAbsent
<1>3. TypeOK'
  BY <1>1, <1>2 DEF Inv, TypeOK
<1>4. ChecksHold'
  BY <1>1, <1>2 DEF Inv, TypeOK, ChecksHold, Tip, TreeAt
<1>5. CallSound'
  BY <1>1, <1>2 DEF Inv, TypeOK, CallSound
<1> QED BY <1>3, <1>4, <1>5 DEF Inv

\* A commit leaves every other call behind the head.
LEMMA UpdateSound ==
    ASSUME Inv, NEW w \in Writer, UpdateRef(w)
    PROVE  Inv'
<1> DEFINE t == Store!Overlay(files[w], TreeAt(base[w]))
<1>1. /\ pc[w] = "push" /\ Tip = base[w] /\ Return(w) /\ log' = Append(log, t)
      /\ files[w] \in FileSet /\ log \in Seq([Path -> Value \cup {Absent}])
  BY DEF UpdateRef, Inv, CallSound, TypeOK
<1>2. t \in [Path -> Value \cup {Absent}]
  BY <1>1, OverlayType, TreeType DEF Inv, Tip
<1> HIDE DEF t
<1>3. TypeOK'
  BY <1>1, <1>2 DEF Inv, TypeOK, Return
<1>4. Tip \in Nat /\ Tip' = Tip + 1
  BY <1>1, <1>2 DEF Tip
<1>5. ChecksHold'
  <2>1. \A v \in Writer : base[v] \in Nat /\ base[v] <= Tip
    BY DEF Inv, ChecksHold, TypeOK
  <2>2. \A v \in Writer : base'[v] = base[v] \/ base'[v] = 0
    BY <1>1 DEF Return, Inv, TypeOK
  <2>3. \A v \in Writer : base'[v] <= Tip' /\ base'[v] # Tip'
    BY <1>4, <2>1, <2>2
  <2> QED BY <2>3 DEF ChecksHold
<1>6. CallSound'
  BY <1>1 DEF Inv, TypeOK, CallSound, Return
<1> QED BY <1>3, <1>5, <1>6 DEF Inv

\* Every step of every writer keeps the invariant.
LEMMA InvStep == Inv /\ [Next]_vars => Inv'
<1> SUFFICES ASSUME Inv, [Next]_vars PROVE Inv'
  OBVIOUS
<1>1. CASE vars' = vars
  BY <1>1 DEF vars, Inv, TypeOK, ChecksHold, CallSound, Tip, TreeAt
<1>2. ASSUME NEW w \in Writer, PathExists(w) \/ RefRefused(w) \/ Fail(w)
      PROVE  Inv'
  BY <1>2, ReturnSound DEF PathExists, RefRefused, Fail
<1> QED BY <1>1, <1>2, ReadHeadSound, CheckSound, UpdateSound DEF Next

\* While its update can still succeed, a writer's lookups are true of the tree
\* it would extend, however many writers there are.
THEOREM LookupsHold == Spec => [](TypeOK /\ ChecksHold)
<1>1. Inv => TypeOK /\ ChecksHold
  BY DEF Inv
<1> QED BY <1>1, InvInit, InvStep, PTL DEF Spec

-----------------------------------------------------------------------------
(* The branch implements the create-only store. *)

\* The store is the tree of the branch's head.
LEMMA StoreIsTip ==
    TypeOK => (IF log = <<>> THEN [p \in Path |-> Absent] ELSE log[Len(log)]) = TreeAt(Tip)
<1> SUFFICES ASSUME TypeOK
             PROVE  (IF log = <<>> THEN [p \in Path |-> Absent] ELSE log[Len(log)]) = TreeAt(Tip)
  OBVIOUS
<1>1. log = <<>> <=> Len(log) = 0
  BY DEF TypeOK
<1> QED BY <1>1 DEF TreeAt, Tip, Store!EmptyTree

\* An accepted update of the ref creates all files of the call, all of them new.
LEMMA UpdateCreates ==
    ASSUME Inv, NEW w \in Writer, UpdateRef(w)
    PROVE  Store!Next
<1>1. /\ pc[w] = "push" /\ Tip = base[w]
      /\ log' = Append(log, Store!Overlay(files[w], TreeAt(Tip)))
      /\ files[w] \in FileSet /\ unchecked[w] = {} /\ TypeOK /\ TypeOK'
  BY UpdateSound DEF UpdateRef, Inv, CallSound
<1>2. \A p \in DOMAIN files[w] : TreeAt(Tip)[p] = Absent
  BY <1>1 DEF Inv, ChecksHold
<1>3. TreeAt(Tip) \in [Path -> Value \cup {Absent}]
  <2>1. Tip \in 0..Tip
    BY <1>1 DEF TypeOK, Tip
  <2> QED BY <1>1, <2>1, TreeType
<1>4. TreeAt(Tip)' = Store!Overlay(files[w], TreeAt(Tip))
  <2>1. Store!Overlay(files[w], TreeAt(Tip)) \in [Path -> Value \cup {Absent}]
    BY <1>1, <1>3, OverlayType
  <2>2. /\ Len(log') = Len(log) + 1 /\ Len(log) \in Nat
        /\ log'[Len(log) + 1] = Store!Overlay(files[w], TreeAt(Tip))
    BY <1>1, <2>1 DEF TypeOK
  <2> QED BY <2>2 DEF TreeAt, Tip
<1>5. Store!Create(files[w])
  <2>1. (IF log' = <<>> THEN [p \in Path |-> Absent] ELSE log'[Len(log')]) = TreeAt(Tip)'
    <3>1. log' # <<>> /\ Len(log') # 0
      BY <1>1 DEF TypeOK
    <3> QED BY <3>1 DEF TreeAt, Tip
  <2> QED BY <1>1, <1>2, <1>4, <2>1, StoreIsTip DEF Store!Create, Store!Overlay
<1> QED BY <1>1, <1>5 DEF Store!Next, FileSet

\* Every behaviour of the writers is one of a create-only store: no file is ever
\* replaced or lost, and each commit adds all of its files or none.
THEOREM BranchIsCreateOnly == Spec => CreateOnly
<1>1. Init => Store!Init
  BY DEF Init, Store!Init, Store!EmptyTree
<1>2. Inv /\ [Next]_vars =>
          [Store!Next]_(IF log = <<>> THEN [p \in Path |-> Absent] ELSE log[Len(log)])
  <2> SUFFICES ASSUME Inv, Next, log' # log
               PROVE  Store!Next
    BY DEF vars
  <2>1. PICK w \in Writer : UpdateRef(w)
    BY DEF Next, ReadHead, CheckAbsent, PathExists, RefRefused, Fail
  <2> QED BY <2>1, UpdateCreates
<1> QED BY <1>1, <1>2, InvInit, InvStep, PTL DEF Spec, CreateOnly, Store!Spec

=============================================================================
