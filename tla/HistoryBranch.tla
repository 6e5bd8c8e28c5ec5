---------------------------- MODULE HistoryBranch ----------------------------
(***************************************************************************)
(* `GitHubHistoryStore.commit_files`, one REST call per action, run by     *)
(* several writers at once: a workflow sweep beside a local `--once` pass. *)
(*                                                                         *)
(* The branch is the sequence of the trees of its commits, so the branch   *)
(* head is its length and 0 stands for a branch that does not exist yet.   *)
(* Blobs, tree and commit objects are invisible until a ref names them:    *)
(* they are a function of the head read first and of the files, and have   *)
(* no action of their own.                                                 *)
(***************************************************************************)
EXTENDS Naturals, Sequences

CONSTANTS
    Writer,     \* concurrent callers of commit_files
    Path,       \* repository paths of the history branch
    Value,      \* file contents
    Absent      \* what an unwritten path holds

ASSUME AbsentIsNoValue == Absent \notin Value

VARIABLES
    log,        \* trees of the branch's commits, oldest first
    pc,         \* per writer: "idle", "check" or "push"
    base,       \* per writer: the head `_head` returned
    files,      \* per writer: the files of the call in progress
    unchecked   \* per writer: the paths `read_file` has not looked up yet

vars == <<log, pc, base, files, unchecked>>

Store == INSTANCE CreateOnlyStore WITH
            store <- IF log = <<>> THEN [p \in Path |-> Absent] ELSE log[Len(log)]

FileSet == Store!FileSet

\* The tree of commit number n; before the first commit there is none.
TreeAt(n) == IF n = 0 THEN Store!EmptyTree ELSE log[n]

Tip == Len(log)

\* Every commit of the branch has a whole tree, one laid over its parent's.
TypeOK ==
    /\ log \in Seq([Path -> Value \cup {Absent}])
    /\ pc \in [Writer -> {"idle", "check", "push"}]
    /\ base \in [Writer -> Nat]
    /\ files \in [Writer -> FileSet \cup {<<>>}]
    /\ unchecked \in [Writer -> SUBSET Path]

Init ==
    /\ log = <<>>
    /\ pc = [w \in Writer |-> "idle"]
    /\ base = [w \in Writer |-> 0]
    /\ files = [w \in Writer |-> <<>>]
    /\ unchecked = [w \in Writer |-> {}]

Return(w) ==
    /\ pc' = [pc EXCEPT ![w] = "idle"]
    /\ base' = [base EXCEPT ![w] = 0]
    /\ files' = [files EXCEPT ![w] = <<>>]
    /\ unchecked' = [unchecked EXCEPT ![w] = {}]

-----------------------------------------------------------------------------
(* The calls of one commit_files, in order. *)

\* `_head()`. The existence checks are skipped when the branch is absent.
ReadHead(w) ==
    /\ pc[w] = "idle"
    /\ \E f \in FileSet :
        /\ files' = [files EXCEPT ![w] = f]
        /\ unchecked' = [unchecked EXCEPT ![w] = IF Tip = 0 THEN {} ELSE DOMAIN f]
    /\ base' = [base EXCEPT ![w] = Tip]
    /\ pc' = [pc EXCEPT ![w] = IF Tip = 0 THEN "push" ELSE "check"]
    /\ UNCHANGED log

\* Mutant: one existence check stands for all the paths of the commit.
CheckOnlyOne(w) ==
    /\ pc[w] = "check"
    /\ \E p \in unchecked[w] : TreeAt(Tip)[p] = Absent
    /\ unchecked' = [unchecked EXCEPT ![w] = {}]
    /\ pc' = [pc EXCEPT ![w] = "push"]
    /\ UNCHANGED <<log, base, files>>

\* `read_file(path)`: it reads the branch as it is now, not the head read first.
CheckAbsent(w) ==
    /\ pc[w] = "check"
    /\ \E p \in unchecked[w] :
        /\ TreeAt(Tip)[p] = Absent
        /\ unchecked' = [unchecked EXCEPT ![w] = @ \ {p}]
        /\ pc' = [pc EXCEPT ![w] = IF unchecked[w] = {p} THEN "push" ELSE "check"]
    /\ UNCHANGED <<log, base, files>>

\* `raise PathExistsError`: nothing has been written.
PathExists(w) ==
    /\ pc[w] = "check"
    /\ \E p \in unchecked[w] : TreeAt(Tip)[p] # Absent
    /\ Return(w)
    /\ UNCHANGED log

\* Mutant: a forced update that drops the commits in between.
ForcedUpdate(w) ==
    /\ pc[w] = "push"
    /\ log' = Append(SubSeq(log, 1, base[w]), Store!Overlay(files[w], TreeAt(base[w])))
    /\ Return(w)

\* POST of the ref of an absent branch, or PATCH of it with "force": False.
UpdateRef(w) ==
    /\ pc[w] = "push"
    /\ Tip = base[w]
    /\ log' = Append(log, Store!Overlay(files[w], TreeAt(base[w])))
    /\ Return(w)

\* The ref exists already, or the update is not a fast-forward: HTTP 422.
RefRefused(w) ==
    /\ pc[w] = "push"
    /\ Tip # base[w]
    /\ Return(w)
    /\ UNCHANGED log

\* Any of the calls may fail, and the process may die between two of them.
Fail(w) ==
    /\ pc[w] # "idle"
    /\ Return(w)
    /\ UNCHANGED log

Next ==
    \E w \in Writer :
        \/ ReadHead(w)
        \/ CheckAbsent(w)
        \/ PathExists(w)
        \/ UpdateRef(w)
        \/ RefRefused(w)
        \/ Fail(w)

Spec == Init /\ [][Next]_vars

-----------------------------------------------------------------------------
(* Properties. *)

\* When a writer's update can still succeed (the head is the one it read), the
\* paths it has looked up are absent from the tree it would extend, although
\* each lookup read the branch at a different moment. A head that has moved
\* since is never read again by this call: the refused update is what protects
\* the other writer's files.
ChecksHold ==
    \A w \in Writer :
        /\ base[w] <= Tip
        /\ pc[w] # "idle" /\ base[w] = Tip =>
               \A p \in DOMAIN files[w] \ unchecked[w] : TreeAt(Tip)[p] = Absent

\* Whatever the writers' interleaving and wherever one of them fails, the branch
\* is a create-only store: every commit adds all of its files at once (a record
\* together with the lane's bootstrap pointer), and no file of an earlier commit
\* is replaced or lost.
CreateOnly == Store!Spec

=============================================================================
