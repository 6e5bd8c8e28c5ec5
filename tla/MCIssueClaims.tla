--------------------------- MODULE MCIssueClaims ---------------------------
(* Small instance of IssueClaims: one contributor who churns, one who does    *)
(* not, a maintainer; a cooldown longer than the churn window.                *)
EXTENDS IssueClaims

CONSTANTS alice, bob, mia, i1, i2

MCActor == {alice, bob, mia}
MCIssue == {i1, i2}
MCMaintainer == {mia}
On(a, i, verbs) == [actor : {a}, issue : {i}, verb : verbs]
MCCommands == On(alice, i1, {"claim", "unclaim"}) \union On(alice, i2, {"claim"})
                \union On(bob, i1, {"claim"}) \union On(mia, i1, {"unclaim"})
MCTriaged == {i2}
MCLabelled == {i2}
=============================================================================
