------------------------------ MODULE HashBaseline ------------------------------
(***************************************************************************)
(* Hash mode of `patch` (patch/hashes.py, baseline_advance.py,               *)
(* cli/patch_hash_mode.py, cli/export_db_baseline.py): the baseline says what  *)
(* the target is believed to hold, `-create -hash` ships what differs from it, *)
(* and a deploy advances it by what it landed.  Database files only: what an   *)
(* application needs beside its script is BaselineAdvance.  The files of one   *)
(* schema are linked from one install script.                                 *)
(***************************************************************************)
EXTENDS Naturals

CONSTANTS Files, Hashes, NoFile,
          Scripts, ScriptOf,     \* the install script a file is linked from
          MaxEdits               \* bound: changes made to the working tree

ASSUME HashAssumption ==
    /\ NoFile \notin Hashes /\ ScriptOf \in [Files -> Scripts] /\ MaxEdits \in Nat

VARIABLES tree,      \* the working tree: a file's hash, or no file
          target,    \* what the environment holds
          base,      \* the lines of baseline.<ENV>.log
          patch,     \* the folder: what hashes.log says, and what the scripts carry
          phase,     \* where -create, or a deploy, is
          edits,
          sure       \* history: lines a deploy or a reading of the target answers for
hashVars == <<tree, target, base, patch, phase, edits, sure>>

Trees == [Files -> Hashes \cup {NoFile}]
Results == {"none", "SUCCESS", "ERROR"}
Ready == [at |-> "idle", cont |-> FALSE, results |-> [s \in Scripts |-> "none"]]
HashTypeOK ==
    /\ tree \in Trees /\ target \in Trees /\ base \in Trees
    /\ patch \in [listed : SUBSET Files, hashes : Trees, carries : Trees]
    /\ phase \in [at : {"idle", "diffed", "deploying"}, cont : BOOLEAN,
                  results : [Scripts -> Results]]
    /\ edits \in 0..MaxEdits /\ sure \subseteq Files

HashInit ==
    /\ tree \in Trees /\ target = tree /\ base = tree   \* `-baseline` was just run
    /\ patch = [listed |-> {}, hashes |-> tree, carries |-> tree]
    /\ phase = Ready /\ edits = 0 /\ sure = Files

-----------------------------------------------------------------------------
(* The developer, at any time.                                               *)
EditTree(f) ==
    /\ edits < MaxEdits /\ edits' = edits + 1
    /\ \E h \in Hashes \cup {NoFile} : h # tree[f] /\ tree' = [tree EXCEPT ![f] = h]
    /\ UNCHANGED <<target, base, patch, phase, sure>>

(* write_baseline: the whole tree is taken for the target's.                 *)
SnapshotBaseline ==
    /\ phase.at = "idle" /\ base' = tree
    /\ sure' = {f \in Files : tree[f] = target[f]}
    /\ UNCHANGED <<tree, target, patch, phase, edits>>

(* replace_measured_scope: inside the schemas that were read the reading
   replaces every line, outside it leaves them.                              *)
Measured(f, read) == IF f \in read THEN target[f] ELSE base[f]
MeasureBaseline(script) ==
    /\ phase.at = "idle"
    /\ LET read == {f \in Files : ScriptOf[f] = script}
       IN /\ base' = [f \in Files |-> Measured(f, read)]
          /\ sure' = sure \cup read
    /\ UNCHANGED <<tree, target, patch, phase, edits>>

-----------------------------------------------------------------------------
(* -create -hash: diff_against_baseline, then the build, which reads the tree
   again for what the scripts carry, and writes hashes.log last.             *)
Differs == {f \in Files : tree[f] # base[f]}
Diff ==
    /\ phase.at = "idle" /\ Differs # {}
    /\ patch' = [listed |-> Differs, hashes |-> tree, carries |-> tree]
    /\ phase' = [Ready EXCEPT !.at = "diffed"]
    /\ UNCHANGED <<tree, target, base, edits, sure>>

(* A file that was removed, or was made, since the diff is no case here.     *)
Build ==
    /\ phase.at = "diffed"
    /\ \A f \in patch.listed : (tree[f] = NoFile) <=> (patch.hashes[f] = NoFile)
    /\ patch' = [patch EXCEPT !.carries = tree]
    /\ phase' = Ready
    /\ UNCHANGED <<tree, target, base, edits, sure>>

BuildStops ==
    /\ phase.at = "diffed" /\ phase' = Ready
    /\ patch' = [patch EXCEPT !.listed = {}]
    /\ UNCHANGED <<tree, target, base, edits, sure>>

-----------------------------------------------------------------------------
(* -deploy of the folder, also again, and also once a newer one was built.   *)
StartDeploy ==
    /\ phase.at = "idle" /\ patch.listed # {}
    /\ \E cont \in BOOLEAN : phase' = [Ready EXCEPT !.at = "deploying", !.cont = cont]
    /\ UNCHANGED <<tree, target, base, patch, edits, sure>>

Linked(s) == {f \in patch.listed : ScriptOf[f] = s}
Stopped == ~phase.cont /\ \E s \in Scripts : phase.results[s] = "ERROR"
Landing(fs) == [f \in Files |-> IF f \in fs THEN patch.carries[f] ELSE target[f]]

RunInstall(s) ==
    /\ phase.at = "deploying" /\ ~Stopped
    /\ Linked(s) # {} /\ phase.results[s] = "none"
    /\ \/ /\ phase' = [phase EXCEPT !.results[s] = "SUCCESS"]
          /\ target' = Landing(Linked(s))
          /\ sure' = (sure \cup Linked(s)) \ {f \in Linked(s) : patch.carries[f] # patch.hashes[f]}
       \/ /\ phase' = [phase EXCEPT !.results[s] = "ERROR"]
          /\ \E landed \in SUBSET Linked(s) :
                target' = Landing(landed) /\ sure' = sure \ landed
    /\ UNCHANGED <<tree, base, patch, edits>>

(* landed_files: a line moves with its own script's result, and with no
   other's; merge_into_baseline: a deletion that landed leaves the file.     *)
MutantLanded == {f \in patch.listed : \E s \in Scripts : phase.results[s] = "SUCCESS"}
LandedFiles == {f \in patch.listed : phase.results[ScriptOf[f]] = "SUCCESS"}
Merged(f) == IF f \in LandedFiles THEN patch.hashes[f] ELSE base[f]
AdvanceBaseline ==
    /\ phase.at = "deploying"
    /\ Stopped \/ \A s \in Scripts : Linked(s) # {} => phase.results[s] # "none"
    /\ base' = [f \in Files |-> Merged(f)]
    /\ phase' = Ready
    /\ UNCHANGED <<tree, target, patch, edits, sure>>

(* The run dies: what its scripts landed is in no baseline.                  *)
DeployDies ==
    /\ phase.at = "deploying" /\ phase' = Ready
    /\ sure' = sure \ {f \in patch.listed : phase.results[ScriptOf[f]] # "none"}
    /\ UNCHANGED <<tree, target, base, patch, edits>>

HashNext ==
    \/ \E f \in Files : EditTree(f)
    \/ SnapshotBaseline \/ Diff \/ Build \/ BuildStops \/ StartDeploy
    \/ \E s \in Scripts : RunInstall(s) \/ MeasureBaseline(s)
    \/ AdvanceBaseline \/ DeployDies
HashSpec == HashInit /\ [][HashNext]_hashVars

-----------------------------------------------------------------------------
(* Whatever was edited, deployed again, left half deployed or continued past
   an error, a line is what the target holds, so the next hash patch ships
   exactly what the target lacks.  Three things are answered for by nobody:
   what a script that failed had landed, what a run that died had, and a file
   edited between the diff and the build.                                    *)
BaselineTrue == phase.at # "deploying" => \A f \in sure : base[f] = target[f]
=============================================================================
