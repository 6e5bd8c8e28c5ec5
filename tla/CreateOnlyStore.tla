--------------------------- MODULE CreateOnlyStore ---------------------------
(***************************************************************************)
(* What `HistoryStore.commit_files` promises (publisher/ports.py): a map   *)
(* from path to content to which a call adds all of its files in one step, *)
(* and in which no file that exists is ever changed or removed.            *)
(***************************************************************************)
CONSTANTS
    Path,       \* repository paths of the history branch
    Value,      \* file contents
    Absent      \* what an unwritten path holds

VARIABLE store

\* The file sets one call may carry: at least one path, each with its content.
FileSet == UNION {[S -> Value] : S \in (SUBSET Path) \ {{}}}

\* The files of `files` laid over a tree.
Overlay(files, tree) ==
    [p \in Path |-> IF p \in DOMAIN files THEN files[p] ELSE tree[p]]

EmptyTree == [p \in Path |-> Absent]

Init == store = EmptyTree

Create(files) ==
    /\ \A p \in DOMAIN files : store[p] = Absent
    /\ store' = Overlay(files, store)

Next == \E files \in FileSet : Create(files)

Spec == Init /\ [][Next]_store
=============================================================================
