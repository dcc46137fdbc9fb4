------------------------------ MODULE PatchDeploy ------------------------------
(***************************************************************************)
(* `adtai patch -deploy -app`: one run of patch/deploy_run.run_deployment   *)
(* over a target, and the runs after it.  A run                            *)
(*   1. holds every application it is about to import and passes each       *)
(*      through the drift gate (apex_deploy.prepare_apex_imports),          *)
(*   2. walks the install scripts and imports of `Steps`,                   *)
(*   3. recompiles, scans what it landed, reverts what the scan condemned,  *)
(*   4. hands every lock back, early where a row covers it and in the       *)
(*      `finally` of apex_lock.build_status_lock otherwise.                 *)
(* Every call to the database is a step of its own, and developers, lost    *)
(* answers, failed calls, KeyboardInterrupts and kills come between them.   *)
(***************************************************************************)
EXTENDS ApexTarget, Naturals, Sequences

CONSTANTS Steps,       \* the rows of the run, in order (see DeploySequence)
          NoApp,       \* the application of a schema script
          Workspaces,  \* applications whose workspace export_apex recorded
          Configs,     \* the flags and keys a run may be started with
          MaxRuns, MaxFaults

Imported == {Steps[i].app : i \in {j \in DOMAIN Steps : Steps[j].kind = "import"}}

ConfigSpace == [mode : {"restore", "run_only", "off"},
                terminal : Statuses,       \* patch_apex_build_status, "none" unset
                force : BOOLEAN, cont : BOOLEAN,
                account : BOOLEAN,         \* is a developer named?
                promote : BOOLEAN,         \* exported on another environment?
                verify : BOOLEAN, revert : BOOLEAN]

ASSUME DeployAssumption ==
    /\ NoApp \notin Apps
    /\ Steps \in Seq([kind : {"script", "import"}, app : Apps \cup {NoApp}, ends : BOOLEAN])
    /\ \A i \in DOMAIN Steps : Steps[i].kind = "import" => Steps[i].app \in Apps
    /\ \A i, j \in DOMAIN Steps :    \* an application is imported by one row
          Steps[i].kind = "import" /\ Steps[j].kind = "import" /\ Steps[i].app = Steps[j].app
          => i = j
    /\ Steps # <<>>
    /\ Workspaces \subseteq Apps
    /\ Configs \subseteq ConfigSpace /\ Configs # {} /\ Apps # {}
    /\ MaxRuns \in Nat /\ MaxFaults \in Nat

VARIABLES
    pc, ret, cur,       \* where the run is, and on which application
    cfg,                \* this run's configuration
    todo,               \* applications not prepared yet
    pend,               \* the lock entry in hand, not (or no longer) in the ledger
    locks, released,    \* EarlyRelease: the ledger, and what left it
    gate,               \* the signature each prepared item passed the gate with
    recorded,           \* the checksum export_apex recorded
    pos, rows,          \* the deploy loop
    file, kept,         \* backup_<ENV>/f<app>.sql on disk, and apex_backups
    scanq, rel,         \* applications to scan, and to release
    verdict, reverts, outcome

runVars == <<pc, ret, cur, cfg, todo, pend, locks, released, gate, recorded, pos,
             rows, file, kept, scanq, rel, verdict, reverts, outcome>>

VARIABLES           \* history, read by no guard of the tool
    found,          \* the target as this run found it
    spoiled,        \* applications whose lock call was lost to a fault
    gap,            \* Builder sessions that were open before the lock was on
    lost,           \* applications imported over a state the gate never saw
    runs, faults

ghostVars == <<found, spoiled, gap, lost, runs, faults>>
vars == <<targetVars, runVars, ghostVars>>

Outcomes == {"NONE", "SKIPPED", "FAILED", "HELD"}
Entries == [outcome : Outcomes, before : Statuses, kind : {"none", "status", "app", "pages"},
            prior : Holders, sig : Signatures]
NoEntry == [outcome |-> "NONE", before |-> "none", kind |-> "none", prior |-> "free",
            sig |-> Unread]
(* What is written down on the entry in hand.                                *)
Noted(e, result) == [e EXCEPT !.outcome = result]
Before(e, found_status) == [e EXCEPT !.before = found_status]
Signed(e, signature) == [e EXCEPT !.sig = signature]
Prior(e, holder) == [e EXCEPT !.prior = holder]
Held(e, lock) == [e EXCEPT !.outcome = "HELD", !.kind = lock]

RowStates == {"unset", "SUCCESS", "ERROR", "NOT_RUN"}
Nothing == "nothing"
Copies == Contents \cup {Nothing}

Holding == {"read_status", "read_sig", "probe", "read_prior", "lock_app", "lock_pages",
            "set_status", "record", "gate"}
Releasing == {"releasing", "rel_status", "rel_lock", "rel_record"}
Body == {"next", "steps", "import", "post", "scan", "revert"} \cup Holding
PCs == {"idle", "finally", "done", "dead"} \cup Body \cup Releasing

(* The body of the `with`; releases run in it too, until `finally` starts.   *)
InBody == pc \in Body \/ (pc \in Releasing /\ ret # "done")
InFinally == pc = "finally" \/ (pc \in Releasing /\ ret = "done")
Running == InBody \/ InFinally

Ledger == {a \in Apps : locks[a].outcome # "NONE"}

TypeOK ==
    /\ TargetTypeOK
    /\ pc \in PCs
    /\ ret \in {"scan", "done"}
    /\ cur \in Apps
    /\ cfg \in ConfigSpace
    /\ todo \subseteq Apps
    /\ pend \in Entries
    /\ locks \in [Apps -> Entries]
    /\ released \in [Apps -> Entries]
    /\ gate \in [Apps -> Signatures]
    /\ recorded \in [Apps -> Signatures]
    /\ pos \in 1..(Len(Steps) + 1)
    /\ rows \in [DOMAIN Steps -> RowStates]
    /\ file \in [Apps -> Copies]
    /\ kept \in [Apps -> Copies \cup {"unset"}]
    /\ scanq \subseteq Apps
    /\ rel \subseteq Apps
    /\ verdict \in [Apps -> {"unset", "passed", "failed"}]
    /\ reverts \in [Apps -> {"unset", "RESTORED", "FAILED", "SKIPPED"}]
    /\ outcome \in {"unset", "SUCCESS", "ERROR", "RAISED"}
    /\ found \in [Apps -> [status : Statuses, lock : Holders, pages : PageLocks]]
    /\ spoiled \subseteq Apps
    /\ gap \subseteq Apps
    /\ lost \subseteq Apps
    /\ runs \in Nat
    /\ faults \in Nat

-----------------------------------------------------------------------------
Fault == faults < MaxFaults /\ faults' = faults + 1
NoFault == UNCHANGED faults
Spoil(a) == spoiled' = spoiled \cup {a}

Fresh(v) == [a \in Apps |-> v]
Snapshot == [a \in Apps |-> [status |-> status[a], lock |-> appLock[a], pages |-> pageLock[a]]]

Init ==
    /\ TargetInit
    /\ recorded = [a \in Apps |-> Checksum(a)]
    /\ pc = "idle" /\ ret = "scan"
    /\ cur = (CHOOSE a \in Apps : TRUE) /\ cfg = (CHOOSE c \in Configs : TRUE)
    /\ todo = {} /\ pend = NoEntry /\ locks = Fresh(NoEntry) /\ released = Fresh(NoEntry)
    /\ gate = Fresh(Unread) /\ pos = 1 /\ rows = [i \in DOMAIN Steps |-> "unset"]
    /\ file = Fresh(Nothing) /\ kept = Fresh("unset")
    /\ scanq = {} /\ rel = {} /\ verdict = Fresh("unset") /\ reverts = Fresh("unset") /\ outcome = "unset"
    /\ found = Snapshot /\ spoiled = {} /\ gap = {} /\ lost = {} /\ runs = 0 /\ faults = 0

(* A new process: nothing survives the last one but the target, the backup
   files and what export_apex recorded.                                     *)
StartRun ==
    /\ pc \in {"idle", "done", "dead"}
    /\ runs < MaxRuns
    /\ cfg' \in Configs
    /\ pc' = (IF Imported = {} THEN "steps" ELSE "next") /\ ret' = "scan" /\ cur' = cur
    /\ todo' = Imported
    /\ pend' = NoEntry /\ locks' = Fresh(NoEntry) /\ released' = Fresh(NoEntry)
    /\ gate' = Fresh(Unread) /\ pos' = 1 /\ rows' = [i \in DOMAIN Steps |-> "unset"]
    /\ kept' = Fresh("unset") /\ scanq' = {} /\ rel' = {}
    /\ verdict' = Fresh("unset") /\ reverts' = Fresh("unset") /\ outcome' = "unset"
    /\ found' = Snapshot /\ spoiled' = {} /\ gap' = {} /\ lost' = {}
    /\ runs' = runs + 1
    /\ UNCHANGED <<targetVars, recorded, file, faults>>

(* export_apex between two deploys: the developer fetches and reconciles.    *)
ReExport(a) ==
    /\ pc \in {"done", "dead"} /\ runs < MaxRuns
    /\ recorded[a] # Checksum(a)
    /\ recorded' = [recorded EXCEPT ![a] = Checksum(a)]
    /\ UNCHANGED <<targetVars, pc, ret, cur, cfg, todo, pend, locks, released, gate, pos, rows,
                   file, kept, scanq, rel, verdict, reverts, outcome, ghostVars>>

-----------------------------------------------------------------------------
(* 1. prepare_apex_imports: lock_target, hold_application, the drift gate.   *)
loopVars == <<ret, cfg, recorded, pos, rows, file, kept, scanq, rel, verdict, reverts, released>>
history == <<found, lost, runs>>

(* The gates ahead of the first lock: one target, full export, compile.      *)
RefuseBeforeLocks ==
    /\ pc = "next" /\ todo = Imported
    /\ pc' = "finally" /\ outcome' = "RAISED"
    /\ UNCHANGED <<targetVars, cur, todo, pend, locks, gate, loopVars, history, spoiled, gap, faults>>

MutantSameApp(a) == todo
Remaining(a) == todo \ {a}

NextApp(a) ==
    /\ pc = "next" /\ a \in todo
    /\ cur' = a /\ todo' = Remaining(a) /\ pend' = NoEntry
    /\ pc' = IF cfg.mode = "off" THEN "gate" ELSE "read_status"
    /\ UNCHANGED <<targetVars, locks, gate, outcome, loopVars, history, spoiled, gap, faults>>

ReadStatus ==
    /\ pc = "read_status"
    /\ \/ /\ cur \notin Workspaces \/ status[cur] = "none"
          /\ pend' = Noted(pend, "SKIPPED")
          /\ pc' = "record" /\ NoFault
       \/ /\ cur \in Workspaces /\ status[cur] # "none"
          /\ pend' = Before(pend, status[cur])
          /\ pc' = "read_sig" /\ NoFault
       \/ /\ cur \in Workspaces /\ Fault
          /\ pend' = Noted(pend, "FAILED")
          /\ pc' = "record"
    /\ UNCHANGED <<targetVars, cur, todo, locks, gate, outcome, loopVars, history, spoiled, gap>>

(* One statement before the lock, because the lock's write moves it.         *)
ReadSignature ==
    /\ pc = "read_sig" /\ pc' = "probe"
    /\ \/ pend' = Signed(pend, Checksum(cur)) /\ NoFault
       \/ pend' = Signed(pend, Unread) /\ Fault
    /\ gap' = IF session[cur] THEN gap \cup {cur} ELSE gap
    /\ UNCHANGED <<targetVars, cur, todo, locks, gate, outcome, loopVars, history, spoiled>>

(* take_app_lock: an unreadable release takes the older path.                *)
ProbeRelease ==
    LET older == IF apex = "page_locks" /\ cfg.account THEN "lock_pages" ELSE "set_status"
    IN /\ pc = "probe"
       /\ \/ pc' = (IF ~Native THEN older ELSE IF cfg.account THEN "read_prior" ELSE "set_status")
             /\ NoFault
          \/ pc' = older /\ Fault
       /\ UNCHANGED <<targetVars, cur, todo, pend, locks, gate, outcome, loopVars, history,
                      spoiled, gap>>

(* Somebody else holds it: the deploy refuses, or under -force leaves the
   lock in place and falls back to build status.                             *)
Another ==
    /\ pend' = Prior(pend, "other")
    /\ IF cfg.force THEN pc' = "set_status" /\ outcome' = outcome
                    ELSE pc' = "finally" /\ outcome' = "RAISED"

ReadPrior ==
    /\ pc = "read_prior"
    /\ \/ appLock[cur] = "other" /\ Another /\ NoFault
       \/ /\ appLock[cur] # "other" /\ NoFault
          /\ pend' = Prior(pend, appLock[cur])
          /\ pc' = "lock_app" /\ UNCHANGED outcome
       \/ Fault /\ pc' = "set_status" /\ UNCHANGED <<pend, outcome>>
    /\ UNCHANGED <<targetVars, cur, todo, locks, gate, loopVars, history, spoiled, gap>>

(* A fault here is a refused call, or a call that landed and whose answer
   was lost: the deploy then falls back and no longer knows of its lock.     *)
LockApp ==
    /\ pc = "lock_app"
    /\ \/ appLock[cur] = "other" /\ Another /\ NoFault /\ UNCHANGED <<appLock, spoiled>>
       \/ /\ appLock[cur] # "other" /\ NoFault
          /\ appLock' = [appLock EXCEPT ![cur] = "deploy"]
          /\ pend' = Held(pend, "app")
          /\ pc' = "record" /\ UNCHANGED <<outcome, spoiled>>
       \/ /\ appLock[cur] # "other" /\ Fault
          /\ \/ UNCHANGED <<appLock, spoiled>>
             \/ appLock' = [appLock EXCEPT ![cur] = "deploy"] /\ Spoil(cur)
          /\ pc' = "set_status" /\ UNCHANGED <<pend, outcome>>
    /\ UNCHANGED <<apex, status, content, pageLock, session, saved, cur, todo, locks, gate,
                   loopVars, history, gap>>

(* apex_page_lock.lock_pages: every free page, or none when one will not lock.
   No page may be free, and pages a killed run left locked are not.           *)
LockPages ==
    /\ pc = "lock_pages"
    /\ \/ /\ pageLock[cur] # "all" /\ NoFault
          /\ \E held \in {"some", "all"} : pageLock' = [pageLock EXCEPT ![cur] = held]
          /\ pend' = Held(pend, "pages")
          /\ pc' = "record" /\ UNCHANGED spoiled
       \/ pc' = "set_status" /\ NoFault /\ UNCHANGED <<pageLock, pend, spoiled>>
       \/ /\ Fault
          /\ \/ pageLock' = [pageLock EXCEPT ![cur] = "none"] /\ UNCHANGED spoiled
             \/ \E held \in {"some", "all"} :
                   pageLock' = [pageLock EXCEPT ![cur] = held] /\ Spoil(cur)
          /\ pc' = "set_status" /\ UNCHANGED pend
    /\ UNCHANGED <<apex, status, content, appLock, session, saved, cur, todo, locks, gate, outcome,
                   loopVars, history, gap>>

MutantNotSet(a) == status
RunOnly(a) == [status EXCEPT ![a] = "RUN_ONLY"]

SetRunOnly ==
    /\ pc = "set_status" /\ pc' = "record"
    /\ \/ /\ NoFault
          /\ status' = RunOnly(cur)
          /\ pend' = Held(pend, "status")
          /\ UNCHANGED spoiled
       \/ /\ Fault
          /\ pend' = Noted(pend, "FAILED")
          /\ \/ UNCHANGED <<status, spoiled>>
             \/ status' = RunOnly(cur) /\ Spoil(cur)
    /\ UNCHANGED <<apex, content, appLock, pageLock, session, saved, cur, todo, locks, gate, outcome,
                   loopVars, history, gap>>

(* hold_application: the ledger learns of the lock one statement after it is
   on the target.                                                            *)
RecordLock ==
    /\ pc = "record" /\ pc' = "gate"
    /\ locks' = [locks EXCEPT ![cur] = pend]
    /\ UNCHANGED <<targetVars, cur, todo, pend, gate, outcome, loopVars, history, spoiled, gap, faults>>

MutantRecordedSignature == recorded[cur]

(* A held lock has read the target already; otherwise the gate reads it now. *)
LiveSignature ==
    IF locks[cur].outcome = "HELD" /\ locks[cur].sig # Unread THEN locks[cur].sig
                                                              ELSE Checksum(cur)
(* A promotion is compared on the environment it was exported from, which this
   target says nothing about.                                                *)
Drifted == ~cfg.promote /\ LiveSignature[1] # "none" /\ LiveSignature # recorded[cur]

PassGate ==
    /\ pc = "gate"
    /\ Drifted => cfg.force
    /\ gate' = [gate EXCEPT ![cur] = LiveSignature]
    /\ pc' = IF todo = {} THEN "steps" ELSE "next"
    /\ UNCHANGED <<targetVars, cur, todo, pend, locks, outcome, loopVars, history, spoiled, gap, faults>>

(* Drift, an import script that cannot be built, or a signature read that
   failed: each raises out of the body.                                      *)
RefuseAtGate ==
    /\ pc = "gate"
    /\ pc' = "finally" /\ outcome' = "RAISED"
    /\ UNCHANGED <<targetVars, cur, todo, pend, locks, gate, loopVars, history, spoiled, gap, faults>>

-----------------------------------------------------------------------------
(* 2. The deploy loop.                                                       *)
prepared == <<ret, cfg, todo, pend, locks, released, gate, recorded>>
postVars == <<scanq, rel, verdict, reverts>>
MutantBehind == ~cfg.cont /\ \E i \in DOMAIN Steps : rows[i] = "ERROR"
Behind == \E i \in DOMAIN Steps : rows[i] = "ERROR"
AtImport == pos \in DOMAIN Steps /\ Steps[pos].kind = "import"

MutantAfter(stop) == IF stop THEN Len(Steps) + 2 ELSE pos + 1
After(stop) == IF stop THEN Len(Steps) + 1 ELSE pos + 1

(* A finished row; an ERROR without -continue leaves the rest NOT RUN.       *)
FinishRow(state) ==
    LET stop == state = "ERROR" /\ ~cfg.cont
    IN /\ rows' = [i \in DOMAIN Steps |->
                     IF i = pos THEN state ELSE IF stop /\ i > pos THEN "NOT_RUN" ELSE rows[i]]
       /\ pos' = After(stop)
       /\ pc' = IF stop \/ pos = Len(Steps) THEN "post" ELSE "steps"

(* A script that ends an application applies patch_apex_build_status.        *)
TerminalBlock(a) ==
    status' = IF a \in Apps /\ Steps[pos].ends /\ cfg.terminal # "none" /\ status[a] # "none"
              THEN [status EXCEPT ![a] = cfg.terminal] ELSE status

RunScript ==
    /\ pc = "steps" /\ pos \in DOMAIN Steps /\ Steps[pos].kind = "script"
    /\ \/ TerminalBlock(Steps[pos].app) /\ FinishRow("SUCCESS") /\ NoFault /\ UNCHANGED outcome
       \/ /\ UNCHANGED status \/ TerminalBlock(Steps[pos].app)
          /\ FinishRow("ERROR") /\ NoFault /\ UNCHANGED outcome
       \/ /\ UNCHANGED status \/ TerminalBlock(Steps[pos].app)   \* anything but the three
          /\ pc' = "finally" /\ outcome' = "RAISED" /\ Fault      \* SQLcl errors propagates
          /\ UNCHANGED <<pos, rows>>
    /\ UNCHANGED <<apex, content, appLock, pageLock, session, saved, cur, file, kept,
                   prepared, postVars, history, spoiled, gap>>

(* An import behind any error is not run, under -continue too.               *)
SkipImport ==
    /\ pc = "steps" /\ AtImport /\ Behind
    /\ FinishRow("NOT_RUN")
    /\ UNCHANGED <<targetVars, cur, outcome, file, kept, prepared, postVars, history, spoiled,
                   gap, faults>>

MutantCopy(a) == content[a]
KeptCopy(a) == IF file[a] = Nothing THEN content[a] ELSE file[a]

(* The row opens, and with deploy_revert_on_scan_failure the target is backed
   up under it (apex_backup.back_up_application): a file an earlier deploy of
   this patch kept is left as it is, and one that cannot be taken is no reason
   to stop.                                                                  *)
BeginImport ==
    LET a == Steps[pos].app
    IN /\ pc = "steps" /\ AtImport /\ ~Behind
       /\ cur' = a /\ pc' = "import"
       /\ \/ /\ cfg.revert /\ gate[a][1] # "none" /\ NoFault
             /\ file' = [file EXCEPT ![a] = KeptCopy(a)]
             /\ kept' = [kept EXCEPT ![a] = KeptCopy(a)]
          \/ /\ cfg.revert
             /\ IF gate[a][1] = "none" THEN NoFault ELSE Fault
             /\ kept' = [kept EXCEPT ![a] = Nothing] /\ UNCHANGED file
          \/ ~cfg.revert /\ NoFault /\ UNCHANGED <<file, kept>>
    /\ UNCHANGED <<targetVars, pos, rows, outcome, prepared, postVars, history, spoiled, gap>>

(* run_apex_imports: a failed import may have written nothing, half or all.  *)
Import ==
    /\ pc = "import"
    /\ \/ \E c \in {"tree", "half"} :
             /\ Overwrite(cur, c)
             /\ lost' = IF content[cur] # gate[cur][1] THEN lost \cup {cur} ELSE lost
             /\ \/ c = "tree" /\ FinishRow("SUCCESS") /\ UNCHANGED outcome /\ NoFault
                \/ FinishRow("ERROR") /\ UNCHANGED outcome /\ NoFault
                \/ pc' = "finally" /\ outcome' = "RAISED" /\ Fault /\ UNCHANGED <<pos, rows>>
       \/ /\ FinishRow("ERROR") /\ NoFault
          /\ UNCHANGED <<status, content, appLock, pageLock, lost, outcome>>
    /\ UNCHANGED <<apex, session, saved, cur, file, kept, prepared, postVars, found, runs, spoiled, gap>>

-----------------------------------------------------------------------------
(* 3. Recompile, scan, revert.                                               *)
afterLoop == <<cfg, todo, gate, recorded, pos, rows, file, kept>>

(* Both halves of a deploy carry their application on the row.               *)
Landed == {Steps[i].app : i \in {j \in DOMAIN Steps : rows[j] = "SUCCESS"}} \cap Apps

MutantUncovered(scanning) == Ledger
Uncovered(scanning) == Ledger \ scanning

(* The locks no scan row will cover are released at once.                    *)
PostDeploy ==
    /\ pc = "post"
    /\ LET scanning == IF cfg.verify THEN Landed ELSE {}
       IN scanq' = scanning /\ rel' = Uncovered(scanning)
    /\ pc' = "releasing" /\ ret' = "scan"
    /\ UNCHANGED <<targetVars, cur, pend, locks, released, verdict, reverts, outcome, afterLoop,
                   history, spoiled, gap, faults>>

(* revert() acts on an application this run holds a backup entry of, and not
   under -continue.                                                          *)
Scan(a) ==
    /\ pc = "scan" /\ a \in scanq
    /\ cur' = a /\ scanq' = scanq \ {a}
    /\ \E v \in {"passed", "failed"} :
          /\ verdict' = [verdict EXCEPT ![a] = v]
          /\ IF v = "failed" /\ ~cfg.cont /\ kept[a] # "unset"
             THEN pc' = "revert" /\ UNCHANGED <<rel, ret>>
             ELSE pc' = "releasing" /\ rel' = Ledger \cap {a} /\ ret' = "scan"
    /\ UNCHANGED <<targetVars, pend, locks, released, reverts, outcome, afterLoop, history,
                   spoiled, gap, faults>>

(* restore_application: RESTORED only when the application exports the file
   again; the full SQL export is an import like any other.                   *)
Revert ==
    /\ pc = "revert"
    /\ \/ /\ kept[cur] = Nothing /\ NoFault
          /\ reverts' = [reverts EXCEPT ![cur] = "SKIPPED"]
          /\ UNCHANGED <<status, content, appLock, pageLock>>
       \/ /\ kept[cur] # Nothing /\ NoFault
          /\ Overwrite(cur, kept[cur])
          /\ reverts' = [reverts EXCEPT ![cur] = "RESTORED"]
       \/ /\ kept[cur] # Nothing /\ Fault
          /\ \/ \E c \in {kept[cur], "half"} : Overwrite(cur, c)
             \/ UNCHANGED <<status, content, appLock, pageLock>>
          /\ reverts' = [reverts EXCEPT ![cur] = "FAILED"]
    /\ pc' = "releasing" /\ rel' = Ledger \cap {cur} /\ ret' = "scan"
    /\ UNCHANGED <<apex, session, saved, cur, pend, locks, released, scanq, verdict, outcome,
                   afterLoop, history, spoiled, gap>>

MutantRunStatus == IF Behind THEN "ERROR" ELSE "SUCCESS"
RunStatus == IF Behind \/ (~cfg.cont /\ \E a \in Apps : verdict[a] = "failed")
             THEN "ERROR" ELSE "SUCCESS"

(* The run's own status; then the body ends and the `finally` begins.        *)
EndBody ==
    /\ pc = "scan" /\ scanq = {}
    /\ outcome' = RunStatus
    /\ pc' = "finally"
    /\ UNCHANGED <<targetVars, ret, cur, pend, locks, released, scanq, rel, verdict, reverts,
                   afterLoop, history, spoiled, gap, faults>>

-----------------------------------------------------------------------------
(* 4. release_target, from an open row or from the `finally`.                *)
MutantOnSuccess == IF outcome = "RAISED" THEN {} ELSE Ledger
MutantOnlyCurrent == Ledger \cap {cur}
OnExit == Ledger

Finally ==
    /\ pc = "finally"
    /\ pc' = "releasing" /\ ret' = "done" /\ rel' = OnExit
    /\ UNCHANGED <<targetVars, cur, pend, locks, released, scanq, verdict, reverts, outcome,
                   afterLoop, history, spoiled, gap, faults>>

MutantPopFirst ==
    /\ pc = "releasing"
    /\ \/ \E a \in rel : /\ cur' = a /\ pend' = locks[a] /\ pc' = "rel_status"
                         /\ locks' = [locks EXCEPT ![a] = NoEntry] /\ UNCHANGED rel
       \/ rel = {} /\ pc' = ret /\ UNCHANGED <<cur, pend, locks, rel>>
    /\ UNCHANGED <<targetVars, ret, released, scanq, verdict, reverts, outcome,
                   afterLoop, history, spoiled, gap, faults>>

NextRelease ==
    /\ pc = "releasing"
    /\ \/ \E a \in rel : cur' = a /\ pend' = locks[a] /\ pc' = "rel_status" /\ UNCHANGED rel
       \/ rel = {} /\ pc' = ret /\ UNCHANGED <<cur, pend, rel>>
    /\ UNCHANGED <<targetVars, ret, locks, released, scanq, verdict, reverts, outcome,
                   afterLoop, history, spoiled, gap, faults>>

MutantFinalStatus(entry, after) ==
    IF cfg.mode = "run_only" THEN "RUN_ONLY" ELSE after

(* _final_status: a terminal status leaves what is there.                    *)
FinalStatus(entry, after) ==
    IF cfg.terminal # "none" THEN after
    ELSE IF cfg.mode = "run_only" THEN "RUN_ONLY" ELSE entry.before

ReleaseStatus ==
    /\ pc = "rel_status"
    /\ IF pend.outcome # "HELD"
       THEN pc' = "rel_record" /\ NoFault /\ UNCHANGED <<status, pend, spoiled>>
       ELSE /\ pc' = "rel_lock"
            /\ \/ /\ NoFault
                  /\ status' = [status EXCEPT ![cur] = FinalStatus(pend, @)]
                  /\ UNCHANGED <<pend, spoiled>>
               \/ /\ Fault /\ Spoil(cur)
                  /\ pend' = Noted(pend, "FAILED")
                  /\ status' \in {status, [status EXCEPT ![cur] = FinalStatus(pend, @)]}
    /\ UNCHANGED <<apex, content, appLock, pageLock, session, saved, ret, cur, locks, released,
                   scanq, rel, verdict, reverts, outcome, afterLoop, history, gap>>

(* release_app_lock: a lock the developer already had is locked again with
   its own comment, any other is unlocked; pages by the deploy's comment.
   APEX refuses either call on a lock somebody else took since.              *)
MutantUnlocked(entry) == "free"
HandedOver(entry) == entry.prior

ReleaseLock ==
    /\ pc = "rel_lock" /\ pc' = "rel_record"
    /\ \/ /\ NoFault /\ UNCHANGED <<spoiled, pend>>
          /\ appLock' = IF pend.kind = "app" /\ appLock[cur] # "other"
                        THEN [appLock EXCEPT ![cur] = HandedOver(pend)] ELSE appLock
          /\ pageLock' = IF pend.kind = "pages" THEN [pageLock EXCEPT ![cur] = "none"]
                                             ELSE pageLock
       \/ /\ pend.kind \in {"app", "pages"} /\ Fault /\ Spoil(cur)
          /\ pend' = Noted(pend, "FAILED")
          /\ UNCHANGED <<appLock, pageLock>>
    /\ UNCHANGED <<apex, status, content, session, saved, ret, cur, locks, released, scanq, rel,
                   verdict, reverts, outcome, afterLoop, history, gap>>

(* EarlyRelease: the lock leaves the ledger only after the release answered. *)
RecordRelease ==
    /\ pc = "rel_record" /\ pc' = "releasing"
    /\ locks' = [locks EXCEPT ![cur] = NoEntry]
    /\ released' = [released EXCEPT ![cur] = pend]
    /\ rel' = rel \ {cur}
    /\ UNCHANGED <<targetVars, ret, cur, pend, scanq, verdict, reverts, outcome, afterLoop,
                   history, spoiled, gap, faults>>

-----------------------------------------------------------------------------
(* A KeyboardInterrupt, or an exception the body does not catch, anywhere in
   it.  Between the lock and the ledger it strands the lock.                 *)
Interrupt ==
    /\ InBody /\ Fault
    /\ pc' = "finally" /\ outcome' = "RAISED"
    /\ spoiled' = IF pc = "record" /\ pend.outcome = "HELD" THEN spoiled \cup {cur} ELSE spoiled
    /\ UNCHANGED <<targetVars, ret, cur, todo, cfg, pend, locks, released, gate, recorded, pos, rows,
                   file, kept, scanq, rel, verdict, reverts, history, gap>>

(* A kill, or an interrupt of the `finally` itself: the process is gone.     *)
Kill ==
    /\ Running /\ Fault
    /\ pc' = "dead" /\ outcome' = "RAISED" /\ spoiled' = Apps
    /\ UNCHANGED <<targetVars, ret, cur, todo, cfg, pend, locks, released, gate, recorded, pos, rows,
                   file, kept, scanq, rel, verdict, reverts, history, gap>>

(* A session opened before the ledger says the application is held, or past
   page locks that do not cover it, was open when the lock went on.          *)
DeveloperStep ==
    /\ Developer
    /\ LET opened == {a \in Apps : session'[a] /\ ~session[a]}
           uncovered == {a \in Apps : locks[a].outcome # "HELD" \/ pageLock[a] = "some"}
       IN gap' = gap \cup (opened \cap uncovered)
    /\ UNCHANGED <<runVars, found, spoiled, lost, runs, faults>>

Prepare ==
    \/ RefuseBeforeLocks \/ \E a \in Apps : NextApp(a)
    \/ ReadStatus \/ ReadSignature \/ ProbeRelease \/ ReadPrior \/ LockApp \/ LockPages
    \/ SetRunOnly \/ RecordLock \/ PassGate \/ RefuseAtGate
Loop == RunScript \/ SkipImport \/ BeginImport \/ Import
Verify == PostDeploy \/ (\E a \in Apps : Scan(a)) \/ Revert \/ EndBody
Release == Finally \/ NextRelease \/ ReleaseStatus \/ ReleaseLock \/ RecordRelease

Tool == Prepare \/ Loop \/ Verify \/ Release
Next == StartRun \/ (\E a \in Apps : ReExport(a)) \/ Tool \/ Interrupt \/ Kill \/ DeveloperStep

Spec == Init /\ [][Next]_vars

(* A started process runs on; its environment owes it nothing.               *)
FairSpec == Spec /\ WF_vars(Tool)

-----------------------------------------------------------------------------
(* Every run that ends on its own, however it ended, has left no lock of its
   own on the target, unless a fault took the lock out of its sight:
   build status, application lock and page locks are back as found.
   patch_apex_build_status and `run_only` say otherwise on purpose.          *)
Stranded(a) ==
    \/ /\ cfg.mode = "restore" /\ cfg.terminal = "none"
       /\ status[a] = "RUN_ONLY" /\ found[a].status # "RUN_ONLY"
    \/ appLock[a] = "deploy" /\ found[a].lock # "deploy"
    \/ pageLock[a] # "none" /\ found[a].pages = "none"
NothingStranded == pc = "done" => \A a \in Apps \ spoiled : ~Stranded(a)

(* A release that answered HELD is the last word of the run on the build
   status: whatever was imported or reverted, the application ends on the
   status the deploy's mode promises.                                        *)
HandedBack ==
    pc = "done" /\ cfg.terminal = "none" =>
        \A a \in Apps \ spoiled : released[a].outcome = "HELD" =>
            status[a] = IF cfg.mode = "run_only" THEN "RUN_ONLY" ELSE found[a].status

(* A developer's own application lock comes back with its own comment.       *)
OwnLockReturned ==
    pc = "done" /\ Native =>
        \A a \in Apps \ spoiled : found[a].lock = "mine" => appLock[a] = "mine"

(* An application whose own script ended it ahead of its import, as in a folder
   built before scripts were split, with patch_apex_build_status set to DEV:
   the status block opens what the lock had shut.                            *)
Reopened(a) == cfg.terminal = "DEV" /\ \E i \in DOMAIN Steps :
    /\ Steps[i].kind = "script" /\ Steps[i].app = a /\ Steps[i].ends /\ rows[i] # "unset"
    /\ \A j \in DOMAIN Steps : Steps[j].kind = "import" /\ Steps[j].app = a => i < j

(* From the gate until its import, a held application stays shut.            *)
NotWritten(a) == \A i \in DOMAIN Steps :
    Steps[i].kind = "import" /\ Steps[i].app = a => rows[i] = "unset"
Shut(a, kind) ==
    \/ kind = "status" /\ (status[a] = "RUN_ONLY" \/ Reopened(a))
    \/ kind = "app" /\ appLock[a] = "deploy"
    \/ kind = "pages" /\ pageLock[a] # "none"
DoorShut == pc \in {"next", "steps", "import", "gate"} =>
    \A a \in Apps : locks[a].outcome = "HELD" /\ NotWritten(a) => Shut(a, locks[a].kind)

(* The lost update the lock exists to prevent: an unforced deploy of a held
   application never imports over a state its gate did not see, unless a
   Builder session was already open when the lock went on, page locks that do
   not cover every page let one in, or the patch itself set the application
   back to DEV ahead of the import.                                          *)
LockKind(a) == IF locks[a].kind # "none" THEN locks[a].kind ELSE released[a].kind
Excused(a) ==
    \/ cfg.force \/ a \in gap \/ LockKind(a) = "none"
    \/ LockKind(a) = "status" /\ Reopened(a)
NoSilentOverwrite == Running => \A a \in lost : Excused(a)

(* No tree is imported onto a schema a failed row left half deployed.        *)
NoImportBehindError ==
    \A i, j \in DOMAIN Steps :
        i < j /\ Steps[j].kind = "import" /\ rows[j] \in {"SUCCESS", "ERROR"} => rows[i] = "SUCCESS"

(* A run reported SUCCESS has every application it imported verified, unless
   the verdict was waived or never asked for; and what a scan condemned was
   reverted where a copy was kept.                                           *)
SuccessIsVerified ==
    /\ outcome = "SUCCESS" /\ cfg.verify /\ ~cfg.cont =>
          \A i \in DOMAIN Steps : Steps[i].kind = "import" => verdict[Steps[i].app] = "passed"
    /\ outcome \in {"SUCCESS", "ERROR"} /\ ~cfg.cont =>
          \A a \in Apps : verdict[a] = "failed" /\ kept[a] # "unset" => reverts[a] # "unset"

-----------------------------------------------------------------------------
ToolMoves == <<pc, pos>>' # <<pc, pos>> /\ runs' = runs

(* Once a held lock is released the run writes that application no more: a
   revert after the release would throw the final status away.               *)
ReleaseIsLast ==
    [][\A a \in Apps : ToolMoves /\ released[a].outcome = "HELD" =>
          status'[a] = status[a] /\ content'[a] = content[a]]_vars

(* The way back, once kept, is never replaced by a later deploy's copy.      *)
BackupKept == [][\A a \in Apps : file[a] # Nothing => file'[a] = file[a]]_vars

(* Every started run ends, however its calls answer.                         *)
RunEnds == Running ~> ~Running

(* No developer is kept out for good: an application the run shut is open
   again some time after, unless a fault cut the run off from it.            *)
DoorReopens == \A a \in Apps :
    (Running /\ Stranded(a)) ~> (a \in spoiled \/ (~Running /\ ~Stranded(a)))

-----------------------------------------------------------------------------
(* The contract: see DeployHold.                                             *)
phase == IF Running THEN "running" ELSE IF pc = "idle" THEN "idle" ELSE "ended"
InHand(a) == pc = "record" /\ cur = a /\ pend.outcome = "HELD"
hold == [a \in Apps |->
    IF a \in spoiled THEN "stranded"
    ELSE IF locks[a].outcome = "HELD" \/ InHand(a) THEN "held"
    ELSE IF released[a].outcome = "HELD" THEN "given" ELSE "free"]
Hold == INSTANCE DeployHold WITH phase <- phase, hold <- hold
HoldSpec == Hold!Spec

-----------------------------------------------------------------------------
(* What the documentation says and the code does not keep; see the README.   *)

(* docs/patch_verify.md: where patch_apex_build_status names a status for the
   target that key wins, the scripts having applied it before the release.   *)
TerminalWins ==
    pc = "done" /\ faults = 0 /\ cfg.terminal # "none" =>
        \A a \in Apps : released[a].outcome = "HELD"
                     /\ (\A i \in DOMAIN Steps : Steps[i].app = a => rows[i] = "SUCCESS")
                         => status[a] = cfg.terminal

(* apex_lock.build_status_lock: a refused gate does not leave an application
   this run set to RUN_ONLY on it.                                           *)
RefusalUnlocks ==
    pc = "done" /\ outcome = "RAISED" /\ faults = 0 /\ cfg.mode = "restore" =>
        \A a \in Apps : status[a] = "RUN_ONLY" => found[a].status = "RUN_ONLY"

(* apex_scan.verify_applications: an application whose deploy row errored is
   not scanned.                                                              *)
ErroredAppNotScanned ==
    \A a \in Apps : verdict[a] # "unset" =>
        \A i \in DOMAIN Steps : Steps[i].app = a => rows[i] # "ERROR"

(* apex_backup: the file is the state before this patch first touched the
   environment.                                                              *)
BackupPredatesPatch == \A a \in Apps : file[a] \notin {"tree", "half"}
=============================================================================
