---------------------------- MODULE DeploySequence ----------------------------
(***************************************************************************)
(* The order the install scripts of a patch folder run in when nobody       *)
(* states another, and the sequence of scripts and imports a run walks.      *)
(***************************************************************************)
EXTENDS Naturals, Sequences, FiniteSets, SequencesExt

Schema == 0          \* the application of a schema script
Stages == {"init", "whole", "end"}
InstallScripts == [schema : Nat, app : Nat, stage : Stages]

(* A set whose elements are numbered from 0, as the sequence in that order.    *)
Ranked(numbered) ==
    [k \in 1..Cardinality(numbered) |-> (CHOOSE p \in numbered : p[2] = k - 1)[1]]

-----------------------------------------------------------------------------
(* deploy._deployment_order_key: schema scripts, then application by
   application, `init` before `end`.                                         *)
StageRank == [init |-> 0, whole |-> 1, end |-> 2]
Key(s) == <<IF s.app = Schema THEN 0 ELSE 1, s.schema, s.app, StageRank[s.stage]>>
RunsBefore(s, t) == \E i \in 1..4 :
    Key(s)[i] < Key(t)[i] /\ \A j \in 1..(i - 1) : Key(s)[j] = Key(t)[j]
DefaultOrder(S) == Ranked({<<s, Cardinality({t \in S : RunsBefore(t, s)})>> : s \in S})

(* deploy_sequence.deployment_sequence: an import follows the last script of
   its application that is not the `end` half, or comes at the tail.         *)
Row(s) == [kind |-> "script", app |-> s.app, ends |-> s.stage # "init" /\ s.app # Schema]
ImportRow(app) == [kind |-> "import", app |-> app, ends |-> FALSE]
MutantSlot(order, app) ==
    LET mine == {i \in DOMAIN order : order[i].app = app}
        ends == {i \in mine : order[i].stage = "end"}
    IN IF mine = {} THEN 0 ELSE IF ends = {} THEN Max(mine) ELSE Min(ends) - 1
Slot(order, app) ==
    LET openers == {i \in DOMAIN order : order[i].app = app /\ order[i].stage # "end"}
    IN IF openers = {} THEN 0 ELSE Max(openers)
(* The walk gives every row a place: a script its position, and behind it the
   imports it is the slot of; what has no slot comes behind the last script.  *)
Place(order, app) == IF Slot(order, app) = 0 THEN Len(order) + 1 ELSE Slot(order, app)
Places(order, trees) ==
    {<<i, Schema>> : i \in DOMAIN order} \cup
    {<<Place(order, app), app>> : app \in {order[i].app : i \in DOMAIN order} \cap trees}
Earlier(p, q) == p[1] < q[1] \/ (p[1] = q[1] /\ p[2] < q[2])
InPlace(P) == Ranked({<<p, Cardinality({q \in P : Earlier(q, p)})>> : p \in P})
RowAt(order, p) == IF p[2] = Schema THEN Row(order[p[1]]) ELSE ImportRow(p[2])
DeploymentSequence(order, trees) ==
    LET places == InPlace(Places(order, trees))
    IN [k \in DOMAIN places |-> RowAt(order, places[k])]
=============================================================================
