---------------------------- MODULE BaselineAdvance ----------------------------
(***************************************************************************)
(* What a deploy of a hash-built patch writes into the target's baseline     *)
(* about the applications it imported (patch/baseline_advance.py), read off   *)
(* the finished run of PatchDeploy: its rows, its verdicts and its reverts.   *)
(* The database files of the same patch are HashBaseline.                    *)
(***************************************************************************)
EXTENDS PatchDeploy

(* The result is handed back, so the CLI goes on to the baseline.            *)
Returned == pc = "done" /\ outcome \in {"SUCCESS", "ERROR"}

Succeeded(kind, a) == \E i \in DOMAIN Steps :
    Steps[i].kind = kind /\ Steps[i].app = a /\ rows[i] = "SUCCESS" /\ (kind = "script" => Steps[i].ends)

(* landed_files, for the files of an application: the import and the script
   behind it, less what the scan condemned and what was put back.            *)
MutantRows == {a \in Apps : Succeeded("import", a) /\ Succeeded("script", a)}
LandedApps == {a \in Apps : /\ Succeeded("import", a) /\ Succeeded("script", a)
                            /\ verdict[a] # "failed" /\ reverts[a] = "unset"}

(* An application the baseline is moved to the shipped tree for holds it, or
   what a developer made of it since: a later `-create -hash` never leaves an
   application out that a revert, or a half import, put back meanwhile.       *)
BaselineHolds ==
    Returned => \A a \in LandedApps : content[a] \in {"tree"} \cup Edits
=============================================================================
