---------------------------- MODULE MCTestRoute ----------------------------
(* Small instance of TestRoute: a helper, a unit test that uses it and an      *)
(* integration test that reads a data file, the scan guard and a scanner, and  *)
(* one path of each of the other areas.                                        *)
EXTENDS TestRoute

CONSTANTS helper, unit, integration, data, guard, scanner, doc, workflow, script, readme

MCTests == {helper, unit, integration, data, guard, scanner}
MCPath == MCTests \union {doc, workflow, script, readme}
MCArea == [p \in MCPath |-> CASE p \in MCTests -> "tests" [] p = doc -> "docs"
             [] p = workflow -> "workflow" [] p = script -> "other" [] p = readme -> "fast"]
MCPython == MCTests \ {data}
MCTestModule == {unit, integration, guard, scanner}
MCDropped == {integration}
MCGuards == {guard}
MCScanners == {scanner}
MCNoPath == {}
MCInits == [p \in MCPath |-> {}]
MCDirectory == [p \in MCPath |-> IF p \in MCTests THEN (IF p \in {helper, data} THEN "support" ELSE "suite") ELSE None]

Plain == [uses |-> {}, mentions |-> {}, docs |-> "named", workflows |-> FALSE,
          opaque |-> FALSE, form |-> "ok", plain |-> TRUE, rev |-> 0]
Changes == [Plain EXCEPT !.rev = 1]
Using(files) == [Plain EXCEPT !.uses = files]
Naming(files) == [Plain EXCEPT !.mentions = files]

MCSeed ==
    [p \in MCPath |->
        CASE p = unit -> Using({helper})
          [] p = helper -> Using({data})
          [] p = integration -> [Using({data}) EXCEPT !.mentions = {workflow}]
          [] p = scanner -> [Plain EXCEPT !.docs = "walks"]
          [] OTHER -> Plain]

MCDraft ==
    [p \in MCPath |->
        CASE p = helper -> {MCSeed[helper], Changes, None, [Plain EXCEPT !.opaque = TRUE]}
          [] p = unit -> {Using({helper}), Naming({doc})}
          [] p = integration -> {MCSeed[integration], [Plain EXCEPT !.form = "broken"]}
          [] p = data -> {Plain, Changes}
          [] p = guard -> {Plain, None}
          [] p = script -> {Plain, [Plain EXCEPT !.docs = "computed"]}
          [] p = scanner -> {}
          [] OTHER -> {Plain, Changes}]
=============================================================================
