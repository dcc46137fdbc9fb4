---------------------------- MODULE MCPatchDeploy ----------------------------
(* Instances of PatchDeploy for TLC: one application of a target whose patch
   holds a schema script and the application's two halves.                   *)
EXTENDS PatchDeployInvariant, DeploySequence, BaselineAdvance

Script(app, ends) == [kind |-> "script", app |-> app, ends |-> ends]
ImportOf(app) == [kind |-> "import", app |-> app, ends |-> FALSE]

Split == <<Script(100, FALSE), ImportOf(100), Script(100, TRUE)>>
SchemaAndSplit == <<Script(Schema, FALSE)>> \o Split
TwoWhole == <<Script(100, TRUE), ImportOf(100), Script(200, TRUE), ImportOf(200)>>

(* These are the sequences deploy_sequence makes of such patches.             *)
ScriptOf(app, stage) == [schema |-> 1, app |-> app, stage |-> stage]
StepsOf(patch) == DeploymentSequence(DefaultOrder(patch), {100, 200})
ASSUME StepsAreSequences ==
    /\ Split = StepsOf({ScriptOf(100, "init"), ScriptOf(100, "end")})
    /\ SchemaAndSplit =
          StepsOf({ScriptOf(Schema, "whole"), ScriptOf(100, "init"), ScriptOf(100, "end")})
    /\ TwoWhole = StepsOf({ScriptOf(100, "whole"), ScriptOf(200, "whole")})

AllReleases == {"native", "page_locks", "plain"}

Default == [mode |-> "restore", terminal |-> "none", force |-> FALSE, cont |-> FALSE,
            account |-> TRUE, promote |-> FALSE, verify |-> TRUE, revert |-> TRUE]
Just == {Default}
Named == {[Default EXCEPT !.terminal = "RUN_ONLY"], [Default EXCEPT !.terminal = "DEV"]}
Gates == {Default, [Default EXCEPT !.force = TRUE], [Default EXCEPT !.promote = TRUE]}
Singles == {Default, [Default EXCEPT !.mode = "run_only"], [Default EXCEPT !.mode = "off"],
            [Default EXCEPT !.force = TRUE], [Default EXCEPT !.cont = TRUE],
            [Default EXCEPT !.account = FALSE], [Default EXCEPT !.verify = FALSE],
            [Default EXCEPT !.revert = FALSE], [Default EXCEPT !.promote = TRUE]}
           \cup Named
=============================================================================
