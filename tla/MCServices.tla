------------------------------ MODULE MCServices ------------------------------
(* Small instances of the components around one deploy.  None of them touches
   another's state, so each behaviour is one component's: `part` says whose,
   and the others stay in one of their initial states.                       *)
EXTENDS SqlclSession, CommitStore, ConcurrentDeploys, SqlclUpgrade, DependencyMirror,
        HashBaseline, RecompileRetry, LiveUpload, MCExportRecent, TLC

VARIABLE part
Parts == {"session", "store", "deploys", "upgrade", "mirror", "hash", "recompile", "live",
          "export"}

(* Lines that part at the second commit, one of them longer by a commit, one
   deepened from a shallow clone, and one cut back to its first commit.       *)
FewLines == {<<"a", "b", "m">>, <<"a", "b", "m", "c">>, <<"a", "x", "c2">>, <<"b", "m", "c">>, <<"a">>}
FewCommits == {"a", "b", "m", "c", "x", "c2", "s"}
TimeOrdered == {1 :> "a" @@ 2 :> "s" @@ 3 :> "b" @@ 4 :> "m", 1 :> "s" @@ 2 :> "m"}

(* What a, b, c and d need: nothing, a chain, a zigzag that takes four passes,
   and a ring with an object behind it.                                      *)
FourObjects == <<"a", "b", "c", "d">>
Needs(ofA, ofB, ofC) == "a" :> ofA @@ "b" :> ofB @@ "c" :> ofC @@ "d" :> {}
FewGraphs == {Needs({}, {}, {}), Needs({"b"}, {"c"}, {"d"}), Needs({"c"}, {"d"}, {"b"}),
              Needs({"b"}, {"a"}, {"a"})}

TwoScripts == "f" :> "s1" @@ "g" :> "s2"

(* The initial state of a component that is not the one that runs.           *)
Still(p, here) == part = p \/ here
ServicesInit ==
    /\ part \in Parts
    /\ SessionInit /\ Still("session", transport = "session" /\ ~registrable)
    /\ StoreInit /\ Still("store", line = <<"a">> /\ rows = NoRows)
    /\ DeploysInit /\ Still("deploys", setting.native /\ setting.forced = {}
          /\ setting.account = [d \in Deploys |-> CHOOSE a \in Accounts : TRUE]
          /\ site.status = "DEV" /\ site.by = Nobody)
    /\ UpgradeInit /\ Still("upgrade", disk["backup"] = "none")
    /\ MirrorInit
    /\ HashInit /\ Still("hash", \A f \in Files : tree[f] = NoFile)
    /\ RecompileInit /\ Still("recompile", schema.broken = {} /\ schema.silent = {}
          /\ \A o \in Compiled : schema.needs[o] = {})
    /\ LiveInit /\ Still("live", \A f \in Watched : folder[f].stamp = 0)
    /\ ExportInit

(* What the step of one component leaves alone.                              *)
Others(p) ==
    /\ p # "session" => UNCHANGED sessionVars
    /\ p # "store" => UNCHANGED storeVars
    /\ p # "deploys" => UNCHANGED deploysVars
    /\ p # "upgrade" => UNCHANGED upgradeVars
    /\ p # "mirror" => UNCHANGED mirrorVars
    /\ p # "hash" => UNCHANGED hashVars
    /\ p # "recompile" => UNCHANGED recompileVars
    /\ p # "live" => UNCHANGED liveVars
    /\ p # "export" => UNCHANGED exportVars

ServicesNext ==
    /\ UNCHANGED part /\ Others(part)
    /\ \/ part = "session" /\ SessionNext
       \/ part = "store" /\ StoreNext
       \/ part = "deploys" /\ DeploysNext
       \/ part = "upgrade" /\ UpgradeNext
       \/ part = "mirror" /\ MirrorNext
       \/ part = "hash" /\ HashNext
       \/ part = "recompile" /\ RecompileNext
       \/ part = "live" /\ LiveNext
       \/ part = "export" /\ ExportNext
servicesVars == <<part, sessionVars, storeVars, deploysVars, upgradeVars, mirrorVars,
                  hashVars, recompileVars, liveVars, exportVars>>
ServicesSpec == ServicesInit /\ [][ServicesNext]_servicesVars /\ SessionFairness
=============================================================================
