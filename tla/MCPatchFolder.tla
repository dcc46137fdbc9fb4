----------------------------- MODULE MCPatchFolder -----------------------------
(* A patch folder from both ends: `part` says whether a behaviour builds it,
   edits it and builds it again, or deploys what a build left in it.          *)
EXTENDS MCPatchDeploy, DeployOrder

VARIABLE part

(* Two schemas, an application split in halves, and one built whole.          *)
ScriptsOf(schema, app, stages) == {[schema |-> schema, app |-> app, stage |-> g] : g \in stages}
Groups == {ScriptsOf(1, Schema, {"whole"}), ScriptsOf(2, Schema, {"whole"}),
           ScriptsOf(1, 100, {"init", "end"}), ScriptsOf(2, 200, {"whole"})}
Patches == {UNION G : G \in SUBSET Groups \ {{}}}

(* Read as the loops of deploy_sequence: behind each script the imports it is
   the slot of, and at the tail those no script opened.                       *)
Imports(apps) == LET sorted == SetToSortSeq(apps, LAMBDA x, y : x < y)
                 IN [i \in DOMAIN sorted |-> ImportRow(sorted[i])]
WalkedSequence(lines, trees) ==
    LET apps == {lines[i].app : i \in DOMAIN lines} \cap trees
        opened(i) == {a \in apps : Slot(lines, a) = i}
    IN FlattenSeq([i \in DOMAIN lines |-> <<Row(lines[i])>> \o Imports(opened(i))])
       \o Imports(opened(0))
(* The places of DeploymentSequence are those the loops put the rows in.      *)
ASSUME PlacesAreTheLoops ==
    \A S \in Patches : \A lines \in SetToSeqs(S) : \A trees \in SUBSET {100, 200} :
        DeploymentSequence(lines, trees) = WalkedSequence(lines, trees)

FolderInit == /\ part \in {"build", "deploy"} /\ OrderInit /\ Init
              /\ part = "build" => apex = "native" /\ \A a \in Apps : content[a] = "none"
FolderNext == \/ part = "build" /\ OrderNext /\ UNCHANGED <<part, vars>>
              \/ part = "deploy" /\ Next /\ UNCHANGED <<part, orderVars>>
FolderSpec == FolderInit /\ [][FolderNext]_<<part, vars, orderVars>>
=============================================================================
