------------------------- MODULE MCReleasePipeline -------------------------
(* Small instance of ReleasePipeline: a fix, the cutover of the integration    *)
(* branch with a feature, a change of its documents and a sync pull request;    *)
(* two archives; rebuilds that may differ in files or in archives.  *)
EXTENDS ReleasePipeline

CONSTANTS fix, cutover, feature, sync, docs, files, otherFiles, zip, otherZip, core, extra

MCPr == {fix, cutover, feature, sync, docs}

Shipped == {[tree |-> "skills", file |-> "other"]}
Documents == {[tree |-> "docs", file |-> "other"], [tree |-> "skills", file |-> "readme"]}
MCPull ==
    LET Change(paths, intent, base) ==
            [paths |-> paths, intent |-> intent, base |-> base, named |-> TRUE, sync |-> FALSE,
             children |-> {}, bullets |-> {}]
    IN [p \in MCPr |->
        CASE p = fix -> Change(Shipped, "Fixed", "main")
          [] p = cutover -> [Change(Shipped, "Breaking", "main") EXCEPT
                              !.children = {feature, docs, sync},
                              !.bullets = {[pr |-> feature, category |-> "Changed"]}]
          [] p = feature -> Change({[tree |-> "shared", file |-> "other"]}, "Added", IntegrationBranch)
          [] p = sync -> [Change(Shipped, "none", IntegrationBranch) EXCEPT !.sync = TRUE]
          [] OTHER -> Change(Documents, "none", IntegrationBranch)]

MCBaseline == <<2, 0, 0>>
MCPrePolicy == <<1, 0, 2>>
MCTrees == {files, otherFiles}
MCZips == {zip, otherZip}
MCArchives == {core, extra}
MCAttached == {core}
MCBuilds == {[tree |-> files, zip |-> zip], [tree |-> files, zip |-> otherZip],
             [tree |-> otherFiles, zip |-> otherZip]}
MCBaselineBuild == [tree |-> files, zip |-> zip]
OneBuild == {[tree |-> files, zip |-> zip]}
MCUntitled == {fix}

\* The description of the fix is mended, and may come to declare a breaking change.
MCEdits == {[pr |-> fix, from |-> "unusable", to |-> "Fixed"],
            [pr |-> fix, from |-> "Fixed", to |-> "Breaking"]}

\* What the proofs about the notes assume holds of this instance.
ASSUME OwnNotes /\ AfterPolicy
=============================================================================
