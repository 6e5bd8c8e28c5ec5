--------------------------- MODULE MCHistoryBranch ---------------------------
(***************************************************************************)
(* Three concurrent writers over two paths (a record and the lane pointer  *)
(* that may land with it) with two possible contents each: enough for a    *)
(* writer to be overtaken twice while it checks its two paths.             *)
(***************************************************************************)
EXTENDS HistoryBranch, TLC

CONSTANTS w1, w2, w3, record, pointer, x, y

MCWriter == {w1, w2, w3}
MCPath == {record, pointer}
MCValue == {x, y}
Symmetry == Permutations(MCWriter) \cup Permutations(MCValue)
=============================================================================
