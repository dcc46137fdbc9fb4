------------------------------ MODULE DeployHold ------------------------------
(***************************************************************************)
(* What a deploy promises about the applications it holds shut, and nothing *)
(* else: each is taken once, given back once, and the run does not end      *)
(* while it holds one.  Only a fault may strand an application, and a run   *)
(* that dies strands them all.                                             *)
(***************************************************************************)
CONSTANT Apps
VARIABLES phase, hold

TypeOK ==
    /\ phase \in {"idle", "running", "ended"}
    /\ hold \in [Apps -> {"free", "held", "given", "stranded"}]

Init == phase = "idle" /\ hold = [a \in Apps |-> "free"]

Begin ==
    /\ phase # "running"
    /\ phase' = "running" /\ hold' = [a \in Apps |-> "free"]

Take(a) ==
    /\ phase = "running" /\ hold[a] = "free"
    /\ hold' = [hold EXCEPT ![a] = "held"] /\ UNCHANGED phase

Give(a) ==
    /\ phase = "running" /\ hold[a] = "held"
    /\ hold' = [hold EXCEPT ![a] = "given"] /\ UNCHANGED phase

Strand(a) ==
    /\ phase = "running"
    /\ hold' = [hold EXCEPT ![a] = "stranded"] /\ UNCHANGED phase

End ==
    /\ phase = "running" /\ \A a \in Apps : hold[a] # "held"
    /\ phase' = "ended" /\ UNCHANGED hold

Die == phase = "running" /\ phase' = "ended" /\ hold' = [a \in Apps |-> "stranded"]

Next == Begin \/ End \/ Die \/ \E a \in Apps : Take(a) \/ Give(a) \/ Strand(a)

Spec == Init /\ [][Next]_<<phase, hold>>
=============================================================================
