-------------------------- MODULE ReleaseContract --------------------------
(* What the release flow promises (docs/RELEASE.md, "Finalization gate" and    *)
(* "Retry and recovery"): one version at a time is taken from its release      *)
(* commit to its source tag, to the distribution, to an official Release; a    *)
(* version that stopped on the way is finished, never overtaken or withdrawn.  *)
CONSTANTS Released,   \* the versions that are released at first
          None

VARIABLES official,   \* versions that are released
          current     \* the version under way: [version, stage], or None

Init == official = Released /\ current = None

Begin ==
    /\ current = None /\ current' # None
    /\ current'.stage = "committed" /\ current'.version \notin official
    /\ UNCHANGED official

Advance ==
    /\ current # None
    /\ \/ current.stage = "committed" /\ current' = [current EXCEPT !.stage = "tagged"]
       \/ current.stage = "tagged" /\ current' = [current EXCEPT !.stage = "distributed"]
    /\ UNCHANGED official

Release ==
    /\ current # None /\ current.stage = "distributed"
    /\ official' = official \union {current.version}
    /\ current' = None

Spec == Init /\ [][Begin \/ Advance \/ Release]_<<official, current>>

=============================================================================
