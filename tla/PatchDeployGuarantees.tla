------------------------- MODULE PatchDeployGuarantees -------------------------
(* What a deployment run promises the developers of its target, proved from
   the order of its releases, the truth of its entries and its doors.          *)
EXTENDS PatchDeployProofs, BaselineAdvance

(* What preparing an application leaves alone: the target but for statuses and
   locks, the loop, and everything that is only written after it.             *)
LEMMA PrepareFrame ==
    Prepare =>
        /\ pc \in {"next"} \cup Holding
        /\ pc' \in {"next", "steps", "finally"} \cup Holding
        /\ UNCHANGED <<ret, cfg, pos, rows, file, kept, scanq, rel, verdict, reverts, released>>
        /\ UNCHANGED <<found, lost, runs, apex, content, session>>
        /\ outcome' = outcome \/ (outcome' = "RAISED" /\ pc' = "finally")
  <1>1. RefuseBeforeLocks \/ (\E a \in Apps : NextApp(a)) \/ ReadStatus \/ ReadSignature =>
          /\ pc \in {"next"} \cup Holding
          /\ pc' \in {"next", "steps", "finally"} \cup Holding
          /\ UNCHANGED <<ret, cfg, pos, rows, file, kept, scanq, rel, verdict, reverts, released>>
          /\ UNCHANGED <<found, lost, runs, apex, content, session>>
          /\ outcome' = outcome \/ (outcome' = "RAISED" /\ pc' = "finally")
    BY DEF RefuseBeforeLocks, NextApp, ReadStatus, ReadSignature, loopVars, history, targetVars,
           Holding
  <1>2. ProbeRelease \/ ReadPrior \/ LockApp \/ LockPages =>
          /\ pc \in {"next"} \cup Holding
          /\ pc' \in {"next", "steps", "finally"} \cup Holding
          /\ UNCHANGED <<ret, cfg, pos, rows, file, kept, scanq, rel, verdict, reverts, released>>
          /\ UNCHANGED <<found, lost, runs, apex, content, session>>
          /\ outcome' = outcome \/ (outcome' = "RAISED" /\ pc' = "finally")
    BY DEF ProbeRelease, ReadPrior, Another, LockApp, LockPages, loopVars, history, targetVars,
           Holding
  <1>3. SetRunOnly \/ RecordLock \/ PassGate \/ RefuseAtGate =>
          /\ pc \in {"next"} \cup Holding
          /\ pc' \in {"next", "steps", "finally"} \cup Holding
          /\ UNCHANGED <<ret, cfg, pos, rows, file, kept, scanq, rel, verdict, reverts, released>>
          /\ UNCHANGED <<found, lost, runs, apex, content, session>>
          /\ outcome' = outcome \/ (outcome' = "RAISED" /\ pc' = "finally")
    BY DEF SetRunOnly, RecordLock, PassGate, RefuseAtGate, loopVars, history, targetVars, Holding
  <1>4. QED
    BY <1>1, <1>2, <1>3 DEF Prepare

(* What the deploy loop leaves alone: the ledger, and the releases and verdicts
   that come after it.                                                        *)
LEMMA LoopFrame ==
    Loop =>
        /\ pc \in {"steps", "import"}
        /\ pc' \in {"steps", "import", "post", "finally"}
        /\ UNCHANGED <<ret, cfg, todo, pend, locks, released, gate, scanq, rel, verdict, reverts>>
        /\ UNCHANGED <<found, spoiled, gap, runs, apex, session>>
        /\ outcome' = outcome \/ (outcome' = "RAISED" /\ pc' = "finally")
  BY DEF Loop, RunScript, SkipImport, BeginImport, Import, FinishRow, prepared, postVars, history,
         targetVars

(* What the scans and reverts leave alone: the ledger and the rows.           *)
LEMMA VerifyFrame ==
    Verify =>
        /\ pc \in {"post", "scan", "revert"}
        /\ UNCHANGED <<cfg, todo, pend, locks, released, gate, pos, rows, file, kept>>
        /\ UNCHANGED <<found, spoiled, gap, lost, runs, apex, session>>
  BY DEF Verify, PostDeploy, Scan, Revert, EndBody, afterLoop, history, targetVars

(* What a release leaves alone: contents, rows, verdicts and the run's outcome. *)
LEMMA ReleaseFrame ==
    Release =>
        /\ pc \in {"finally"} \cup Releasing
        /\ UNCHANGED <<cfg, todo, gate, pos, rows, file, kept, scanq, verdict, reverts, outcome>>
        /\ UNCHANGED <<found, gap, lost, runs, apex, content, session>>
  BY DEF Release, Finally, NextRelease, ReleaseStatus, ReleaseLock, RecordRelease, afterLoop,
         history, targetVars, Releasing

(* A re-export, and a step of nobody, leave the run and the target alone.      *)
LEMMA StillFrame ==
    (\E a \in Apps : ReExport(a)) \/ UNCHANGED vars =>
        /\ UNCHANGED <<pc, ret, cur, cfg, todo, pend, locks, released, gate, pos, rows, kept,
                       scanq, rel, verdict, reverts, outcome>>
        /\ UNCHANGED <<found, spoiled, gap, lost, runs>> /\ UNCHANGED targetVars
  BY DEF ReExport, vars, runVars, ghostVars

(* What an interrupt or a kill of the run does to it.                         *)
LEMMA FaultFrame ==
    Interrupt \/ Kill =>
        /\ pc' \in {"finally", "dead"} /\ outcome' = "RAISED"
        /\ UNCHANGED <<ret, cur, cfg, todo, pend, locks, released, gate, pos, rows, kept, scanq,
                       rel, verdict, reverts>>
        /\ UNCHANGED <<found, gap, lost, runs>> /\ UNCHANGED targetVars
  BY DEF Interrupt, Kill, history

(* What a developer leaves alone: the run, and every status and page lock.     *)
LEMMA DeveloperFrame ==
    DeveloperStep => UNCHANGED <<runVars, found, spoiled, lost, runs, apex, status, pageLock>>
  <1> SUFFICES ASSUME DeveloperStep
               PROVE  UNCHANGED <<runVars, found, spoiled, lost, runs, apex, status, pageLock>>
    OBVIOUS
  <1>1. Developer => UNCHANGED <<apex, status, pageLock>>
    BY DEF Developer, OpenBuilder, CloseBuilder, Save, OtherLocks, OtherUnlocks
  <1>2. QED
    BY <1>1 DEF DeveloperStep

-----------------------------------------------------------------------------
(* A released application has no entry, and no entry is a released one.        *)
LEMMA EntryGone == \A a \in Ledger : locks[a] # NoEntry
  BY NoEntryFields DEF Ledger

(* While nothing is released yet and nothing is in a scan, the order of the
   releases is kept by any step that releases nothing.                        *)
LEMMA ForwardRelease ==
    ASSUME ReleaseInv, pc \in Forward, UNCHANGED released,
           pc' \in Forward \cup {"finally", "dead", "idle"}
    PROVE  ReleaseInv'
  <1>1. \A a \in Apps : released'[a] = NoEntry
    BY DEF ReleaseInv, NoneReleased
  <1>2. pc' \notin Releasing /\ pc' \notin {"scan", "revert"}
    BY DEF Forward, Holding, Releasing
  <1>3. QED
    BY <1>1, <1>2 DEF ReleaseInv, NoneReleased, LeftLedger, FromLedger, ScannedFirst, Scanning

(* The scans send to a release only what is in the ledger and not to be
   scanned any more.                                                         *)
LEMMA VerifyRelease == ReleaseInv /\ TypeInv /\ Verify => ReleaseInv'
  <1> SUFFICES ASSUME ReleaseInv, TypeInv, Verify PROVE ReleaseInv'
    OBVIOUS
  <1>0. UNCHANGED <<locks, released>> /\ Ledger' = Ledger /\ Ledger \subseteq Apps
        /\ scanq \subseteq Apps
    BY VerifyFrame DEF Ledger, TypeInv, TypeOK
  <1>1. LeftLedger'
    BY <1>0 DEF ReleaseInv, LeftLedger
  <1>2. CASE PostDeploy
    <2>1. /\ pc = "post" /\ pc' = "releasing" /\ ret' = "scan"
          /\ scanq' \subseteq Apps /\ rel' = Ledger \ scanq'
      BY <1>2 DEF PostDeploy, Uncovered, Landed
    <2>2. \A a \in Apps : released[a] = NoEntry
      BY <2>1 DEF ReleaseInv, NoneReleased, Forward
    <2>3. NoneReleased' /\ FromLedger' /\ ScannedFirst'
      BY <1>0, <2>1, <2>2
      DEF NoneReleased, Forward, Holding, FromLedger, ScannedFirst, Scanning, Releasing
    <2>4. QED
      BY <1>1, <2>3 DEF ReleaseInv
  <1>3. ASSUME NEW a \in Apps, Scan(a) PROVE ReleaseInv'
    <2>1. /\ pc = "scan" /\ a \in scanq /\ cur' = a /\ scanq' = scanq \ {a}
          /\ \/ pc' = "revert"
             \/ pc' = "releasing" /\ rel' = Ledger \cap {a}
      BY <1>3 DEF Scan
    <2>2. \A b \in scanq : released[b] = NoEntry
      BY <2>1 DEF ReleaseInv, ScannedFirst, Scanning
    <2>3. NoneReleased' /\ FromLedger' /\ ScannedFirst'
      BY <1>0, <2>1, <2>2
      DEF NoneReleased, Forward, Holding, FromLedger, ScannedFirst, Scanning, Releasing
    <2>4. QED
      BY <1>1, <2>3 DEF ReleaseInv
  <1>4. CASE Revert
    <2>1. /\ pc = "revert" /\ pc' = "releasing" /\ rel' = Ledger \cap {cur}
          /\ UNCHANGED <<cur, scanq>>
      BY <1>4 DEF Revert
    <2>2. cur \notin scanq /\ \A b \in scanq : released[b] = NoEntry
      BY <2>1 DEF ReleaseInv, ScannedFirst, Scanning
    <2>3. NoneReleased' /\ FromLedger' /\ ScannedFirst'
      BY <1>0, <2>1, <2>2
      DEF NoneReleased, Forward, Holding, FromLedger, ScannedFirst, Scanning, Releasing
    <2>4. QED
      BY <1>1, <2>3 DEF ReleaseInv
  <1>5. CASE EndBody
    <2>1. pc' = "finally"
      BY <1>5 DEF EndBody
    <2>2. NoneReleased' /\ FromLedger' /\ ScannedFirst'
      BY <2>1 DEF NoneReleased, Forward, Holding, FromLedger, ScannedFirst, Scanning, Releasing
    <2>3. QED
      BY <1>1, <2>2 DEF ReleaseInv
  <1>6. QED
    BY <1>2, <1>3, <1>4, <1>5 DEF Verify

(* A release works through what it was sent, and an application it is done with
   leaves the ledger as it enters the other one.                              *)
LEMMA ReleaseRelease == ReleaseInv /\ TypeInv /\ Release => ReleaseInv'
  <1> SUFFICES ASSUME ReleaseInv, TypeInv, Release PROVE ReleaseInv'
    OBVIOUS
  <1>0. /\ Ledger \subseteq Apps /\ scanq' = scanq /\ cur \in Apps /\ ret \in {"scan", "done"}
        /\ scanq \subseteq Apps
        /\ locks \in [Apps -> Entries] /\ released \in [Apps -> Entries]
    BY ReleaseFrame DEF Ledger, TypeInv, TypeOK
  <1>1. CASE Finally
    <2>1. /\ pc' = "releasing" /\ ret' = "done" /\ rel' = Ledger
          /\ UNCHANGED <<locks, released>>
      BY <1>1 DEF Finally, OnExit
    <2>2. QED
      BY <1>0, <2>1 DEF ReleaseInv, NoneReleased, Forward, Holding, LeftLedger, FromLedger,
                        ScannedFirst, Scanning, Releasing, Ledger
  <1>2. CASE NextRelease
    <2>1. /\ pc = "releasing" /\ UNCHANGED <<ret, rel, locks, released>>
          /\ \/ cur' \in rel /\ pc' = "rel_status"
             \/ rel = {} /\ pc' = ret /\ UNCHANGED cur
      BY <1>2 DEF NextRelease
    <2>2. QED
      BY <1>0, <2>1 DEF ReleaseInv, NoneReleased, Forward, Holding, LeftLedger, FromLedger,
                        ScannedFirst, Scanning, Releasing, Ledger
  <1>3. CASE ReleaseStatus \/ ReleaseLock
    <2>1. /\ pc \in {"rel_status", "rel_lock"} /\ pc' \in {"rel_lock", "rel_record"}
          /\ UNCHANGED <<cur, ret, rel, locks, released>>
      BY <1>3 DEF ReleaseStatus, ReleaseLock
    <2>2. QED
      BY <1>0, <2>1 DEF ReleaseInv, NoneReleased, Forward, Holding, LeftLedger, FromLedger,
                        ScannedFirst, Scanning, Releasing, Ledger
  <1>4. CASE RecordRelease
    <2>1. /\ pc = "rel_record" /\ pc' = "releasing" /\ rel' = rel \ {cur} /\ UNCHANGED <<cur, ret>>
          /\ \A a \in Apps : /\ locks'[a] = IF a = cur THEN NoEntry ELSE locks[a]
                             /\ released'[a] = IF a = cur THEN pend ELSE released[a]
      BY <1>0, <1>4 DEF RecordRelease
    <2>2. cur \in rel /\ rel \subseteq Ledger
      BY <2>1 DEF ReleaseInv, FromLedger, Releasing
    <2>3. rel' \subseteq Ledger'
      BY <2>1, <2>2 DEF Ledger
    <2>4. LeftLedger'
      BY <2>1 DEF ReleaseInv, LeftLedger
    <2>5. ScannedFirst'
      BY <1>0, <2>1, <2>2 DEF ReleaseInv, ScannedFirst, Scanning, Releasing
    <2>6. NoneReleased' /\ FromLedger'
      BY <2>1, <2>3 DEF NoneReleased, Forward, Holding, FromLedger, Releasing
    <2>7. QED
      BY <2>4, <2>5, <2>6 DEF ReleaseInv
  <1>5. QED
    BY <1>1, <1>2, <1>3, <1>4 DEF Release

(* The order of the releases is kept by every step.                           *)
LEMMA ReleaseStep == ReleaseInv /\ TypeInv /\ [Next]_vars => ReleaseInv'
  <1> SUFFICES ASSUME ReleaseInv, TypeInv, [Next]_vars PROVE ReleaseInv'
    OBVIOUS
  <1>1. CASE Prepare
    BY <1>1, PrepareFrame, ForwardRelease DEF Forward
  <1>2. CASE Loop
    BY <1>2, LoopFrame, ForwardRelease DEF Forward
  <1>3. CASE Verify
    BY <1>3, VerifyRelease
  <1>4. CASE Release
    BY <1>4, ReleaseRelease
  <1>5. CASE StartRun
    <2>1. pc' \in {"next", "steps"} /\ \A a \in Apps : released'[a] = NoEntry
      BY <1>5 DEF StartRun, Fresh
    <2>2. QED
      BY <2>1 DEF ReleaseInv, NoneReleased, LeftLedger, FromLedger, ScannedFirst, Scanning,
                  Releasing
  <1>6. CASE Interrupt \/ Kill
    BY <1>6, FaultFrame DEF ReleaseInv, NoneReleased, Forward, Holding, LeftLedger, FromLedger,
                            ScannedFirst, Scanning, Releasing
  <1>7. CASE (\E a \in Apps : ReExport(a)) \/ UNCHANGED vars
    BY <1>7, StillFrame DEF ReleaseInv, NoneReleased, LeftLedger, FromLedger, ScannedFirst,
                            Scanning, Ledger
  <1>8. CASE DeveloperStep
    BY <1>8, DeveloperFrame DEF ReleaseInv, NoneReleased, LeftLedger, FromLedger, ScannedFirst,
                                Scanning, Ledger, runVars
  <1>9. QED
    BY <1>1, <1>2, <1>3, <1>4, <1>5, <1>6, <1>7, <1>8 DEF Next, Tool

(* The first state has released nothing.                                      *)
LEMMA InitRelease == Init => ReleaseInv
  BY DEF Init, Fresh, ReleaseInv, NoneReleased, Forward, Holding, LeftLedger, FromLedger,
         ScannedFirst, Scanning, Releasing

(* What is released was sent to its release, left the ledger there and is not
   touched again by a scan: the invariant of ReleaseIsLast.                   *)
LEMMA ReleaseAlways == Spec => [](HoldInv /\ ReleaseInv)
  <1>1. HoldInv => TypeInv
    BY DEF HoldInv
  <1>2. QED
    BY <1>1, InitRelease, ReleaseStep, LocksAreAccounted, PTL DEF Spec

(* Once a held lock is released the run writes that application no more, be it
   by an import, a revert or another release: ReleaseIsLast, the action property
   of the run Deploy.                                                        *)
THEOREM ReleaseEndsIt == Spec => ReleaseIsLast
  <1> DEFINE Last == \A a \in Apps : ToolMoves /\ released[a].outcome = "HELD" =>
                         status'[a] = status[a] /\ content'[a] = content[a]
  <1>1. HoldInv /\ ReleaseInv /\ [Next]_vars => [Last]_vars
    <2> SUFFICES ASSUME HoldInv, ReleaseInv, Next, ToolMoves,
                        NEW a \in Apps, released[a].outcome = "HELD"
                 PROVE  status'[a] = status[a] /\ content'[a] = content[a]
      OBVIOUS
    <2>0. /\ TypeInv /\ released[a] # NoEntry /\ locks[a].outcome = "NONE"
          /\ status \in [Apps -> Statuses] /\ content \in [Apps -> Contents] /\ cur \in Apps
      BY NoEntryFields DEF HoldInv, TypeInv, TypeOK, TargetTypeOK, ReleaseInv, LeftLedger
    <2>1. pc \notin Forward
      BY <2>0 DEF ReleaseInv, NoneReleased
    <2>2. ~Prepare /\ ~Loop
      BY <2>1, PrepareFrame, LoopFrame DEF Forward
    <2>3. CASE Verify
      <3>1. CASE PostDeploy \/ (\E b \in Apps : Scan(b)) \/ EndBody
        BY <3>1 DEF PostDeploy, Scan, EndBody, targetVars
      <3>2. CASE Revert
        <4>1. a # cur
          BY <2>0, <3>2 DEF Revert, ReleaseInv, ScannedFirst
        <4>2. (\E c : Overwrite(cur, c)) \/ UNCHANGED <<status, content>>
          BY <3>2 DEF Revert
        <4>3. QED
          BY <2>0, <4>1, <4>2 DEF Overwrite
      <3>3. QED
        BY <2>3, <3>1, <3>2 DEF Verify
    <2>4. CASE Release
      <3>1. content' = content
        BY <2>4, ReleaseFrame
      <3>2. CASE ReleaseStatus
        <4>1. a = cur => pend.outcome # "HELD"
          BY <2>0, <3>2 DEF ReleaseStatus, HoldInv, InRelease
        <4>2. status' = status \/ a # cur
          BY <3>2, <4>1 DEF ReleaseStatus
        <4>3. status'[a] = status[a]
          BY <2>0, <3>2, <4>2 DEF ReleaseStatus
        <4>4. QED
          BY <3>1, <4>3
      <3>3. CASE Finally \/ NextRelease \/ ReleaseLock \/ RecordRelease
        BY <3>1, <3>3 DEF Finally, NextRelease, ReleaseLock, RecordRelease, targetVars
      <3>4. QED
        BY <2>4, <3>2, <3>3 DEF Release
    <2>5. CASE StartRun \/ DeveloperStep
      <3>1. ~StartRun
        BY DEF StartRun, ToolMoves, HoldInv, TypeInv, TypeOK
      <3>2. ~DeveloperStep
        BY DEF DeveloperStep, runVars, ToolMoves
      <3>3. QED
        BY <2>5, <3>1, <3>2
    <2>6. CASE Interrupt \/ Kill \/ \E b \in Apps : ReExport(b)
      BY <2>6, FaultFrame, StillFrame DEF targetVars
    <2>7. QED
      BY <2>2, <2>3, <2>4, <2>5, <2>6 DEF Next, Tool
  <1>2. QED
    BY <1>1, ReleaseAlways, PTL DEF Spec, ReleaseIsLast

-----------------------------------------------------------------------------
(* A step that neither moves a status nor writes an entry, nor takes the run to
   where an entry is in hand, keeps the account of the statuses.              *)
LEMMA StatusStill ==
    ASSUME StatusInv, UNCHANGED <<status, locks, released, found, cfg>>, spoiled \subseteq spoiled',
           \/ UNCHANGED <<pc, cur, pend>>
           \/ /\ pc # "record"
              /\ pc' \notin Taken \cup {"next", "record", "gate", "read_status",
                                      "rel_lock", "rel_record"}
    PROVE  StatusInv'
  <1>1. TrueBefore'
    BY DEF StatusInv, TrueBefore, InHand
  <1>2. StillFound'
    BY DEF StatusInv, StillFound, InHand, Holding, Taken
  <1>3. GivenBack'
    BY DEF StatusInv, GivenBack, Promised
  <1>4. QED
    BY <1>1, <1>2, <1>3 DEF StatusInv

(* Nothing is released yet, so nothing is given back.                         *)
LEMMA NotGivenYet ==
    ASSUME ReleaseInv', pc' \in Forward \/ pc' \in {"finally", "dead", "idle"},
           \A a \in Apps \ spoiled' : released'[a].outcome # "HELD"
    PROVE  GivenBack'
  BY DEF GivenBack, Forward, Holding

(* Preparing an application: its status is read before anything moved it, and
   moves only with its entry in hand.                                        *)
LEMMA PrepareStatus ==
    HoldInv /\ ReleaseInv /\ StatusInv /\ TypeInv' /\ ReleaseInv' /\ Prepare => StatusInv'
  <1> SUFFICES ASSUME HoldInv, ReleaseInv, StatusInv, TypeInv', ReleaseInv', Prepare
               PROVE  StatusInv'
    OBVIOUS
  <1>0. /\ TypeInv /\ cur \in Apps /\ pend \in Entries /\ locks \in [Apps -> Entries]
        /\ status \in [Apps -> Statuses] /\ spoiled \subseteq Apps
        /\ pc \in {"next"} \cup Holding /\ pc' \in {"next", "steps", "finally"} \cup Holding
        /\ UNCHANGED <<released, found, cfg>>
    BY PrepareFrame DEF HoldInv, TypeInv, TypeOK, TargetTypeOK
  <1>1. GivenBack'
    <2>1. \A a \in Apps : released'[a] = NoEntry
      BY <1>0 DEF ReleaseInv, NoneReleased, Forward
    <2>2. QED
      BY <1>0, <2>1, NoEntryFields, NotGivenYet DEF Forward
  <1>2. CASE RefuseBeforeLocks \/ RefuseAtGate
    <2>1. /\ pc \in {"next", "gate"} /\ pc' = "finally" /\ UNCHANGED <<status, locks, spoiled>>
      BY <1>2 DEF RefuseBeforeLocks, RefuseAtGate, targetVars
    <2>2. QED
      BY <1>0, <2>1, StatusStill DEF Taken
  <1>3. ASSUME NEW a \in Apps, NextApp(a) PROVE StatusInv'
    <2>1. /\ pc = "next" /\ cur' = a /\ pc' \in {"gate", "read_status"}
          /\ UNCHANGED <<status, locks, spoiled>>
      BY <1>3 DEF NextApp, targetVars
    <2>2. TrueBefore' /\ StillFound'
      BY <1>0, <2>1 DEF StatusInv, TrueBefore, StillFound, InHand, Taken, Holding
    <2>3. QED
      BY <1>1, <2>2 DEF StatusInv
  <1>4. CASE ReadStatus
    <2>1. /\ pc = "read_status" /\ UNCHANGED <<cur, status, locks, spoiled>>
          /\ \/ pc' = "record" /\ pend' \in {Noted(pend, "SKIPPED"), Noted(pend, "FAILED")}
             \/ pc' = "read_sig" /\ pend' = Before(pend, status[cur])
      BY <1>4 DEF ReadStatus, targetVars
    <2>2. /\ pc' = "record" => pend'.outcome # "HELD"
          /\ pc' = "read_sig" => pend'.before = status[cur]
      BY <1>0, <2>1, EntryFields DEF Outcomes
    <2>3. cur \notin spoiled => status[cur] = found[cur].status
      BY <1>0, <2>1 DEF StatusInv, StillFound, InHand, Holding, HoldInv, TakenOnce
    <2>4. TrueBefore' /\ StillFound'
      BY <1>0, <2>1, <2>2, <2>3 DEF StatusInv, TrueBefore, StillFound, InHand, Taken, Holding
    <2>5. QED
      BY <1>1, <2>4 DEF StatusInv
  <1>5. CASE ReadSignature \/ ProbeRelease \/ ReadPrior
    <2>1. /\ pc \in {"read_sig", "probe", "read_prior"}
          /\ pc' \in {"probe", "read_prior", "lock_pages", "set_status", "lock_app", "finally"}
          /\ UNCHANGED <<cur, status, locks, spoiled>>
          /\ pend' = pend \/ pend' \in {Signed(pend, Checksum(cur)), Signed(pend, Unread)}
                \/ pend' \in {Prior(pend, "other"), Prior(pend, appLock[cur])}
      BY <1>5 DEF ReadSignature, ProbeRelease, ReadPrior, Another, targetVars
    <2>2. Checksum(cur) \in Signatures /\ Unread \in Signatures /\ appLock[cur] \in Holders
          /\ "other" \in Holders
      BY <1>0, ChecksumType, EntryTypes DEF TypeInv, TypeOK, TargetTypeOK, Holders
    <2>3. pend'.before = pend.before
      BY <1>0, <2>1, <2>2, EntryFields
    <2>4. TrueBefore' /\ StillFound'
      BY <1>0, <2>1, <2>3 DEF StatusInv, TrueBefore, StillFound, InHand, Taken, Holding
    <2>5. QED
      BY <1>1, <2>4 DEF StatusInv
  <1>6. CASE LockApp \/ LockPages
    <2>1. /\ pc \in {"lock_app", "lock_pages"} /\ pc' \in {"set_status", "finally", "record"}
          /\ UNCHANGED <<cur, status, locks>> /\ spoiled \subseteq spoiled'
          /\ pend' \in {pend, Prior(pend, "other"), Held(pend, "app"), Held(pend, "pages")}
      BY <1>6 DEF LockApp, LockPages, Another, Spoil
    <2>2. pend'.before = pend.before
      BY <1>0, <2>1, EntryFields DEF LockKinds, Holders
    <2>3. TrueBefore' /\ StillFound'
      BY <1>0, <2>1, <2>2 DEF StatusInv, TrueBefore, StillFound, InHand, Taken, Holding
    <2>4. QED
      BY <1>1, <2>3 DEF StatusInv
  <1>7. CASE SetRunOnly
    <2>1. /\ pc = "set_status" /\ pc' = "record" /\ UNCHANGED <<cur, locks>>
          /\ spoiled \subseteq spoiled'
          /\ pend' \in {Noted(pend, "FAILED"), Held(pend, "status")}
          /\ status' \in {status, RunOnly(cur)}
          /\ status' = status \/ cur \in spoiled' \/ pend' = Held(pend, "status")
      BY <1>7 DEF SetRunOnly, Spoil
    <2>2. pend'.before = pend.before /\ (pend' = Held(pend, "status") => pend'.outcome = "HELD")
      BY <1>0, <2>1, EntryFields DEF LockKinds, Outcomes
    <2>3. TrueBefore'
      BY <1>0, <2>1, <2>2 DEF StatusInv, TrueBefore, InHand, Taken
    <2>4. ASSUME NEW a \in Apps \ spoiled'
          PROVE  (locks[a].outcome = "HELD" \/ InHand(a) \/ status[a] = found[a].status)'
      <3>1. locks[a].outcome = "HELD" \/ status[a] = found[a].status
        BY <1>0, <2>1 DEF StatusInv, StillFound, InHand
      <3>2. status'[a] = status[a] \/ (a = cur /\ pend' = Held(pend, "status"))
        BY <1>0, <2>1 DEF RunOnly
      <3>3. QED
        BY <1>0, <2>1, <2>2, <3>1, <3>2 DEF InHand
    <2>5. QED
      BY <1>1, <2>3, <2>4 DEF StatusInv, StillFound
  <1>8. CASE RecordLock
    <2>1. /\ pc = "record" /\ pc' = "gate" /\ UNCHANGED <<cur, pend, status, spoiled>>
          /\ \A a \in Apps : locks'[a] = IF a = cur THEN pend ELSE locks[a]
      BY <1>0, <1>8 DEF RecordLock, targetVars
    <2>2. TrueBefore' /\ StillFound'
      BY <1>0, <2>1 DEF StatusInv, TrueBefore, StillFound, InHand, Taken, Holding, HoldInv,
                        TakenOnce
    <2>3. QED
      BY <1>1, <2>2 DEF StatusInv
  <1>9. CASE PassGate
    <2>1. /\ pc = "gate" /\ pc' \in {"steps", "next"}
          /\ UNCHANGED <<cur, pend, locks, status, spoiled>>
      BY <1>9 DEF PassGate, targetVars
    <2>2. TrueBefore' /\ StillFound'
      BY <1>0, <2>1 DEF StatusInv, TrueBefore, StillFound, InHand, Taken, Holding
    <2>3. QED
      BY <1>1, <2>2 DEF StatusInv
  <1>10. QED
    BY <1>2, <1>3, <1>4, <1>5, <1>6, <1>7, <1>8, <1>9 DEF Prepare

(* The loop and the scans move a status only where nothing is released: an
   import before the first release, a revert before its own.                  *)
LEMMA LoopStatus ==
    HoldInv /\ ReleaseInv /\ StatusInv /\ ReleaseInv' /\ (Loop \/ Verify) => StatusInv'
  <1> SUFFICES ASSUME HoldInv, ReleaseInv, StatusInv, ReleaseInv', Loop \/ Verify
               PROVE  StatusInv'
    OBVIOUS
  <1>0. TypeInv /\ status \in [Apps -> Statuses] /\ cur \in Apps
    BY DEF HoldInv, TypeInv, TypeOK, TargetTypeOK
  <1>1. CASE Loop
    <2>1. \A a \in Apps : released'[a] = NoEntry
      BY <1>1, LoopFrame DEF ReleaseInv, NoneReleased, Forward
    <2>2. GivenBack'
      BY <1>1, <2>1, LoopFrame, NoEntryFields, NotGivenYet DEF Forward
    <2>3. TrueBefore' /\ StillFound'
      BY <1>1, LoopFrame DEF StatusInv, TrueBefore, StillFound, InHand, Taken, Holding
    <2>4. QED
      BY <2>2, <2>3 DEF StatusInv
  <1>2. CASE Verify
    <2>1. /\ pc' \in {"releasing", "revert", "finally"}
          /\ UNCHANGED <<cfg, pend, locks, released, found, spoiled>>
      BY <1>2, VerifyFrame DEF Verify, PostDeploy, Scan, Revert, EndBody
    <2>2. TrueBefore' /\ StillFound'
      BY <2>1 DEF StatusInv, TrueBefore, StillFound, InHand, Taken, Holding
    <2>3. \A a \in Apps : released[a].outcome = "HELD" => status'[a] = status[a]
      <3>1. CASE Revert
        <4>1. released[cur].outcome # "HELD"
          BY <3>1, NoEntryFields DEF Revert, ReleaseInv, ScannedFirst
        <4>2. QED
          BY <1>0, <3>1, <4>1 DEF Revert, Overwrite
      <3>2. CASE ~Revert
        BY <1>2, <3>2 DEF Verify, PostDeploy, Scan, EndBody, targetVars
      <3>3. QED
        BY <3>1, <3>2
    <2>4. GivenBack'
      BY <2>1, <2>3 DEF StatusInv, GivenBack, Promised
    <2>5. QED
      BY <2>2, <2>4 DEF StatusInv
  <1>3. QED
    BY <1>1, <1>2

(* A release puts back what its entry says, which is what the run found.       *)
LEMMA ReleaseBack ==
    HoldInv /\ ReleaseInv /\ StatusInv /\ Release => StatusInv'
  <1> SUFFICES ASSUME HoldInv, ReleaseInv, StatusInv, Release PROVE StatusInv'
    OBVIOUS
  <1>0. /\ TypeInv /\ status \in [Apps -> Statuses] /\ cur \in Apps /\ ret \in {"scan", "done"}
        /\ pend \in Entries /\ locks \in [Apps -> Entries] /\ released \in [Apps -> Entries]
        /\ UNCHANGED <<cfg, found>>
    BY ReleaseFrame DEF HoldInv, TypeInv, TypeOK, TargetTypeOK
  <1>1. CASE Finally \/ NextRelease
    <2>1. /\ pc' \in {"releasing", "rel_status", "scan", "done"}
          /\ UNCHANGED <<locks, released, status, spoiled>>
      BY <1>0, <1>1 DEF Finally, NextRelease, targetVars
    <2>2. QED
      BY <1>0, <2>1 DEF StatusInv, TrueBefore, StillFound, InHand, Taken, Holding, GivenBack,
                        Promised
  <1>2. CASE ReleaseStatus
    <2>1. /\ pc = "rel_status" /\ pc' \in {"rel_record", "rel_lock"}
          /\ UNCHANGED <<locks, released, cur>>
          /\ \/ pend.outcome # "HELD" /\ pc' = "rel_record" /\ UNCHANGED <<status, pend, spoiled>>
             \/ /\ pend.outcome = "HELD" /\ UNCHANGED <<pend, spoiled>>
                /\ status' = [status EXCEPT ![cur] = FinalStatus(pend, status[cur])]
             \/ /\ spoiled' = spoiled \cup {cur}
                /\ status' \in {status, [status EXCEPT ![cur] = FinalStatus(pend, status[cur])]}
      BY <1>2 DEF ReleaseStatus, Spoil
    <2>2. /\ pend = locks[cur]
          /\ released[cur].outcome # "HELD"
      BY <1>0, <2>1, EntryGone, NoEntryFields
      DEF HoldInv, InRelease, ReleaseInv, FromLedger, LeftLedger, Releasing
    <2>3. \A a \in Apps : a # cur => status'[a] = status[a]
      BY <1>0, <2>1
    <2>4. cur \notin spoiled' /\ pend'.outcome = "HELD" /\ cfg.terminal = "none"
          => status'[cur] = Promised(cur)
      BY <1>0, <2>1, <2>2 DEF FinalStatus, Promised, StatusInv, TrueBefore
    <2>5. TrueBefore' /\ StillFound'
      BY <1>0, <2>1 DEF StatusInv, TrueBefore, StillFound, InHand, Taken, Holding
    <2>6. GivenBack'
      BY <1>0, <2>1, <2>2, <2>3, <2>4 DEF StatusInv, GivenBack, Promised
    <2>7. QED
      BY <2>5, <2>6 DEF StatusInv
  <1>3. CASE ReleaseLock
    <2>1. /\ pc = "rel_lock" /\ pc' = "rel_record"
          /\ UNCHANGED <<locks, released, cur, status>>
          /\ spoiled \subseteq spoiled' /\ pend' \in {pend, Noted(pend, "FAILED")}
      BY <1>3 DEF ReleaseLock, Spoil
    <2>2. pend' # pend => pend'.outcome # "HELD"
      BY <1>0, <2>1, EntryFields DEF Outcomes
    <2>3. QED
      BY <1>0, <2>1, <2>2 DEF StatusInv, TrueBefore, StillFound, InHand, Taken, Holding, GivenBack,
                              Promised
  <1>4. CASE RecordRelease
    <2>1. /\ pc = "rel_record" /\ pc' = "releasing" /\ UNCHANGED <<cur, pend, status, spoiled>>
          /\ \A a \in Apps : /\ locks'[a] = IF a = cur THEN NoEntry ELSE locks[a]
                             /\ released'[a] = IF a = cur THEN pend ELSE released[a]
      BY <1>0, <1>4 DEF RecordRelease, targetVars
    <2>2. QED
      BY <1>0, <2>1, NoEntryFields DEF StatusInv, TrueBefore, StillFound, InHand, Taken, Holding,
                                       GivenBack, Promised
  <1>5. QED
    BY <1>1, <1>2, <1>3, <1>4 DEF Release

(* The account of the statuses is kept by every step.                         *)
LEMMA StatusStep ==
    HoldInv /\ ReleaseInv /\ StatusInv /\ TypeInv' /\ ReleaseInv' /\ [Next]_vars => StatusInv'
  <1> SUFFICES ASSUME HoldInv, ReleaseInv, StatusInv, TypeInv', ReleaseInv', [Next]_vars
               PROVE  StatusInv'
    OBVIOUS
  <1>1. CASE StartRun
    <2>1. /\ pc' \in {"next", "steps"} /\ spoiled' = {} /\ UNCHANGED status
          /\ \A a \in Apps : /\ locks'[a] = NoEntry /\ released'[a] = NoEntry
                             /\ found'[a].status = status[a]
      BY <1>1 DEF StartRun, Fresh, Snapshot, targetVars
    <2>2. QED
      BY <2>1, NoEntryFields DEF StatusInv, TrueBefore, StillFound, InHand, Taken, GivenBack
  <1>2. CASE Interrupt \/ Kill
    <2>1. /\ pc' \in {"finally", "dead"} /\ spoiled \cap Apps \subseteq spoiled'
          /\ UNCHANGED <<status, locks, released, found, cfg, cur, pend>>
      BY <1>2, FaultFrame DEF Interrupt, Kill, targetVars
    <2>2. QED
      BY <2>1 DEF StatusInv, TrueBefore, StillFound, InHand, Taken, Holding, GivenBack, Promised
  <1>3. CASE (\E a \in Apps : ReExport(a)) \/ UNCHANGED vars
    BY <1>3, StillFrame, StatusStill DEF targetVars
  <1>4. CASE DeveloperStep
    BY <1>4, DeveloperFrame, StatusStill DEF runVars
  <1>5. QED
    BY <1>1, <1>2, <1>3, <1>4, PrepareStatus, LoopStatus, ReleaseBack DEF Next, Tool

(* No entry, nothing found, nothing released: the first state.                *)
LEMMA InitStatus == Init => StatusInv
  BY NoEntryFields DEF Init, Fresh, Snapshot, StatusInv, TrueBefore, StillFound, InHand, Taken,
                       Holding, GivenBack

(* A release that answered HELD is the last word on the build status: whatever
   was imported, reverted or interrupted, the application ends on the status
   the deploy's mode promises.  HandedBack, an invariant of the run DeployKeys.  *)
THEOREM StatusHandedBack == Spec => []HandedBack
  <1>1. HoldInv => TypeInv
    BY DEF HoldInv
  <1>2. HoldInv /\ ReleaseInv /\ StatusInv => HandedBack
    BY DEF StatusInv, GivenBack, Promised, HandedBack
  <1>3. QED
    BY <1>1, <1>2, InitStatus, StatusStep, ReleaseAlways, PTL DEF Spec

-----------------------------------------------------------------------------
(* What writing on an entry leaves of its lock and of its signature.          *)
LEMMA EntryKinds ==
    ASSUME NEW e \in Entries
    PROVE  /\ \A o \in Outcomes : /\ Noted(e, o).outcome = o
                                  /\ Noted(e, o).kind = e.kind /\ Noted(e, o).sig = e.sig
           /\ \A s \in Statuses : /\ Before(e, s).outcome = e.outcome
                                  /\ Before(e, s).kind = e.kind /\ Before(e, s).sig = e.sig
           /\ \A g \in Signatures : /\ Signed(e, g).outcome = e.outcome
                                    /\ Signed(e, g).kind = e.kind /\ Signed(e, g).sig = g
           /\ \A h \in Holders : /\ Prior(e, h).outcome = e.outcome
                                 /\ Prior(e, h).kind = e.kind /\ Prior(e, h).sig = e.sig
           /\ \A k \in LockKinds : /\ Held(e, k).outcome = "HELD"
                                   /\ Held(e, k).kind = k /\ Held(e, k).sig = e.sig
  BY DEF Entries, Noted, Before, Signed, Prior, Held

(* An entry goes on naming a lock exactly when it says one is held.            *)
LEMMA KindStep == KindSaid /\ TypeInv /\ TypeInv' /\ [Next]_vars => KindSaid'
  <1> SUFFICES ASSUME KindSaid, TypeInv, TypeInv', [Next]_vars PROVE KindSaid'
    OBVIOUS
  <1>0. /\ pend \in Entries /\ pend' \in Entries /\ locks \in [Apps -> Entries] /\ cur \in Apps
        /\ ret \in {"scan", "done"} /\ NoEntry.outcome = "NONE" /\ NoEntry.kind = "none"
        /\ rel \subseteq Apps
    BY DEF TypeInv, TypeOK, NoEntry
  <1>1. CASE Prepare
    <2>1. CASE RefuseBeforeLocks \/ RefuseAtGate
      <3>1. pc' = "finally" /\ locks' = locks
        BY <2>1 DEF RefuseBeforeLocks, RefuseAtGate
      <3>2. QED
        BY <3>1 DEF KindSaid, Holding, Taken, Releasing
    <2>2. ASSUME NEW a \in Apps, NextApp(a) PROVE KindSaid'
      <3>1. pc' \in {"gate", "read_status"} /\ pend' = NoEntry /\ locks' = locks
        BY <2>2 DEF NextApp
      <3>2. QED
        BY <1>0, <3>1 DEF KindSaid, Holding, Taken, Releasing
    <2>3. CASE ReadStatus \/ ReadSignature \/ ProbeRelease
      <3>1. /\ pc \in {"read_status", "read_sig", "probe"} /\ locks' = locks
            /\ pc' \in Holding \ {"gate"}
            /\ \/ pend' \in {Noted(pend, "SKIPPED"), Noted(pend, "FAILED")} /\ pc' = "record"
               \/ pend' \in {pend, Before(pend, status[cur]), Signed(pend, Checksum(cur)),
                             Signed(pend, Unread)}
                  /\ pc' \in Taken
        BY <2>3 DEF ReadStatus, ReadSignature, ProbeRelease, Holding, Taken
      <3>2. Checksum(cur) \in Signatures /\ Unread \in Signatures /\ status[cur] \in Statuses
        BY <1>0, ChecksumType, EntryTypes DEF TypeInv, TypeOK, TargetTypeOK
      <3>3. pend'.kind = pend.kind /\ (pend'.outcome = pend.outcome \/
                                       (pend'.outcome # "HELD" /\ pc' = "record"))
        BY <1>0, <3>1, <3>2, EntryKinds DEF Outcomes
      <3>4. QED
        BY <1>0, <3>1, <3>3 DEF KindSaid, Holding, Taken, Releasing
    <2>4. CASE ReadPrior \/ LockApp \/ LockPages \/ SetRunOnly
      <3>1. /\ pc \in Taken /\ locks' = locks
            /\ \/ pend' \in {pend, Prior(pend, "other"), Prior(pend, appLock[cur])}
                  /\ pc' \in Taken \cup {"finally"}
               \/ pend' = Noted(pend, "FAILED") /\ pc' = "record"
               \/ pend' \in {Held(pend, "app"), Held(pend, "pages"), Held(pend, "status")}
                  /\ pc' = "record"
        BY <2>4 DEF ReadPrior, LockApp, LockPages, SetRunOnly, Another, Taken
      <3>2. appLock[cur] \in Holders /\ "other" \in Holders
        BY <1>0 DEF TypeInv, TypeOK, TargetTypeOK, Holders
      <3>3. \/ pc' \in Taken \cup {"finally"} /\ pend'.kind = pend.kind
               /\ pend'.outcome = pend.outcome
            \/ pc' = "record" /\ pend'.kind = pend.kind /\ pend'.outcome # "HELD"
            \/ pc' = "record" /\ pend'.kind # "none" /\ pend'.outcome = "HELD"
        BY <1>0, <3>1, <3>2, EntryKinds DEF Outcomes, LockKinds
      <3>4. pend.kind = "none" /\ pend.outcome # "HELD"
        BY <3>1 DEF KindSaid, Taken, Holding
      <3>5. QED
        BY <1>0, <3>1, <3>3, <3>4 DEF KindSaid, Holding, Taken, Releasing
    <2>5. CASE RecordLock \/ PassGate
      <3>1. \/ pc = "record" /\ pc' = "gate" /\ pend' = pend /\ locks' = [locks EXCEPT ![cur] = pend]
            \/ pc' \in {"steps", "next"} /\ locks' = locks
        BY <2>5 DEF RecordLock, PassGate
      <3>2. QED
        BY <1>0, <3>1 DEF KindSaid, Holding, Taken, Releasing
    <2>6. QED
      BY <1>1, <2>1, <2>2, <2>3, <2>4, <2>5 DEF Prepare
  <1>2. CASE Loop \/ Verify
    <2>1. locks' = locks /\ pc' \in {"steps", "import", "post", "finally", "releasing", "revert"}
      BY <1>2, LoopFrame, VerifyFrame DEF Verify, PostDeploy, Scan, Revert, EndBody
    <2>2. QED
      BY <2>1 DEF KindSaid, Holding, Taken, Releasing
  <1>3. CASE Release
    <2>1. CASE Finally
      BY <2>1 DEF Finally, KindSaid, Holding, Taken, Releasing
    <2>2. CASE NextRelease
      <3>1. /\ locks' = locks
            /\ \/ pc' = "rel_status" /\ pend' = locks[cur']
               \/ pc' = ret
        BY <2>2 DEF NextRelease
      <3>2. QED
        BY <1>0, <3>1 DEF KindSaid, Holding, Taken, Releasing
    <2>3. CASE ReleaseStatus \/ ReleaseLock
      <3>1. /\ pc \in {"rel_status", "rel_lock"} /\ pc' \in {"rel_lock", "rel_record"}
            /\ pend' \in {pend, Noted(pend, "FAILED")} /\ UNCHANGED <<locks, cur>>
        BY <2>3 DEF ReleaseStatus, ReleaseLock
      <3>2. pend'.kind = pend.kind
        BY <1>0, <3>1, EntryKinds DEF Outcomes
      <3>3. QED
        BY <3>1, <3>2 DEF KindSaid, Holding, Taken, Releasing
    <2>4. CASE RecordRelease
      BY <1>0, <2>4 DEF RecordRelease, KindSaid, Holding, Taken, Releasing
    <2>5. QED
      BY <1>3, <2>1, <2>2, <2>3, <2>4 DEF Release
  <1>4. CASE StartRun
    <2>1. pc' \in {"next", "steps"} /\ \A a \in Apps : locks'[a] = NoEntry
      BY <1>4 DEF StartRun, Fresh
    <2>2. QED
      BY <1>0, <2>1 DEF KindSaid, Holding, Taken, Releasing
  <1>5. CASE Interrupt \/ Kill
    <2>1. pc' \in {"finally", "dead"} /\ locks' = locks
      BY <1>5, FaultFrame
    <2>2. QED
      BY <2>1 DEF KindSaid, Holding, Taken, Releasing
  <1>6. CASE DeveloperStep \/ (\E a \in Apps : ReExport(a)) \/ UNCHANGED vars
    <2>1. UNCHANGED <<pc, cur, pend, locks>>
      BY <1>6, DeveloperFrame, StillFrame DEF runVars
    <2>2. QED
      BY <2>1 DEF KindSaid
  <1>7. QED
    BY <1>1, <1>2, <1>3, <1>4, <1>5, <1>6 DEF Next, Tool

(* Nothing is in hand and nothing is in the ledger at first.                  *)
LEMMA InitKind == Init => KindSaid
  BY NoEntryFields DEF Init, Fresh, NoEntry, KindSaid, Holding, Taken, Releasing

-----------------------------------------------------------------------------
(* A step that leaves the lock of the developer or of the deploy in place, with
   nothing in hand, and the ledger alone.                                     *)
OwnStill ==
    /\ UNCHANGED <<apex, locks, found>> /\ spoiled \cap Apps \subseteq spoiled'
    /\ \A a \in Apps : Native /\ appLock[a] \in {"mine", "deploy"} => appLock'[a] = appLock[a]
    /\ \/ UNCHANGED <<pc, cur, pend>>
       \/ pc # "record" /\ pc' \notin {"record", "lock_app", "rel_record"}

(* Such a step keeps the account of the developer's own locks.                *)
LEMMA OwnLockStill == OwnLockInv /\ OwnStill => OwnLockInv'
  <1> SUFFICES ASSUME OwnLockInv, OwnStill, Native, NEW a \in Apps \ spoiled',
                      found[a].lock = "mine"
               PROVE  MineKept(a)'
    BY DEF OwnLockInv, OwnStill, Native
  <1>1. MineKept(a)
    BY DEF OwnLockInv, OwnStill
  <1>2. Answers(a, {"app"}, {"rel_record"}) => Answers(a, {"app"}, {"rel_record"})'
    BY DEF OwnStill, Answers, InHand
  <1>3. appLock'[a] = appLock[a]
    BY <1>1 DEF OwnStill, MineKept
  <1>4. QED
    BY <1>1, <1>2, <1>3 DEF MineKept, OwnStill, InHand

(* Locking an application remembers whose lock the deploy's takes the place of. *)
LEMMA PrepareOwn ==
    HoldInv /\ KindSaid /\ OwnLockInv /\ TypeInv' /\ Prepare => OwnLockInv'
  <1> SUFFICES ASSUME HoldInv, KindSaid, OwnLockInv, TypeInv', Prepare PROVE OwnLockInv'
    OBVIOUS
  <1>0. /\ pend \in Entries /\ locks \in [Apps -> Entries] /\ cur \in Apps
        /\ appLock \in [Apps -> Holders] /\ UNCHANGED <<apex, found>>
    BY PrepareFrame DEF HoldInv, TypeInv, TypeOK, TargetTypeOK
  <1>1. CASE RefuseBeforeLocks \/ RefuseAtGate \/ (\E a \in Apps : NextApp(a)) \/ PassGate
    <2>1. OwnStill
      BY <1>0, <1>1 DEF RefuseBeforeLocks, RefuseAtGate, NextApp, PassGate, targetVars, OwnStill
    <2>2. QED
      BY <2>1, OwnLockStill
  <1>2. CASE ReadSignature \/ ProbeRelease
    <2>1. OwnStill
      BY <1>0, <1>2 DEF ReadSignature, ProbeRelease, targetVars, OwnStill
    <2>2. QED
      BY <2>1, OwnLockStill
  <1>3. CASE ReadStatus \/ ReadPrior \/ LockApp \/ LockPages \/ SetRunOnly \/ RecordLock
    <2> SUFFICES ASSUME Native, NEW a \in Apps \ spoiled', found[a].lock = "mine"
                 PROVE  MineKept(a)'
      BY <1>0 DEF OwnLockInv, Native
    <2>0. a \notin spoiled /\ MineKept(a)
      BY <1>0, <1>3 DEF OwnLockInv, ReadStatus, ReadPrior, LockApp, LockPages, SetRunOnly,
                        RecordLock, Spoil
    <2>1. CASE pc # "record"
      <3>0. /\ pc \in Taken \cup {"read_status"} /\ cur' = cur /\ locks' = locks
            /\ locks[cur].outcome # "HELD" /\ pend.kind = "none"
        BY <1>3, <2>1 DEF ReadStatus, ReadPrior, LockApp, LockPages, SetRunOnly, RecordLock,
                          HoldInv, TakenOnce, Holding, Taken, KindSaid
      <3>1. CASE a # cur
        <4>1. appLock'[a] = appLock[a]
          BY <1>0, <1>3, <3>1 DEF ReadStatus, ReadPrior, LockApp, LockPages, SetRunOnly,
                                  RecordLock, targetVars
        <4>2. QED
          BY <2>0, <3>0, <3>1, <4>1 DEF MineKept, Answers, InHand
      <3>2. CASE a = cur
        <4>0. appLock[cur] = "mine" /\ locks[cur].outcome # "HELD"
          BY <2>0, <2>1, <3>0, <3>2 DEF MineKept, Answers, InHand
        <4>1. CASE ReadStatus \/ ReadPrior
          <5>1. /\ appLock' = appLock /\ pc' \in Taken \cup {"record"}
                /\ pc' = "record" => pend'.kind = "none"
                /\ pc' = "lock_app" => pend'.prior = "mine"
            BY <1>0, <3>0, <4>0, <4>1, EntryKinds, EntryFields
            DEF ReadStatus, ReadPrior, Taken, targetVars, Outcomes, Holders
          <5>2. QED
            BY <3>0, <3>2, <4>0, <5>1 DEF MineKept, InHand, Taken
        <4>2. CASE LockApp
          <5>1. /\ pc = "lock_app"
                /\ \/ /\ appLock' = [appLock EXCEPT ![cur] = "deploy"] /\ pc' = "record"
                      /\ pend' = Held(pend, "app")
                   \/ appLock' = appLock /\ pc' = "set_status"
            BY <3>2, <4>0, <4>2 DEF LockApp, Spoil
          <5>2. pend.prior = "mine"
            BY <2>0, <3>2, <5>1 DEF MineKept
          <5>3. CASE appLock' = appLock /\ pc' = "set_status"
            BY <3>0, <3>2, <4>0, <5>3 DEF MineKept, InHand
          <5>4. CASE pc' = "record"
            <6>1. appLock'[cur] = "deploy" /\ pend'.outcome = "HELD" /\ pend'.kind = "app"
                  /\ pend'.prior = "mine"
              BY <1>0, <5>1, <5>2, <5>4, EntryFields DEF LockKinds
            <6>2. QED
              BY <3>0, <3>2, <4>0, <5>4, <6>1 DEF MineKept, InHand, Answers
          <5>5. QED
            BY <5>1, <5>3, <5>4
        <4>3. CASE LockPages \/ SetRunOnly
          <5>1. /\ appLock' = appLock /\ pc' \in {"record", "set_status"}
                /\ pend' \in {pend, Noted(pend, "FAILED"), Held(pend, "pages"),
                              Held(pend, "status")}
            BY <4>3 DEF LockPages, SetRunOnly
          <5>2. pend'.kind # "app"
            BY <1>0, <3>0, <5>1, EntryKinds DEF Outcomes, LockKinds
          <5>3. QED
            BY <3>0, <3>2, <4>0, <5>1, <5>2 DEF MineKept, InHand
        <4>4. QED
          BY <1>3, <2>1, <4>1, <4>2, <4>3 DEF RecordLock
      <3>3. QED
        BY <3>1, <3>2
    <2>2. CASE pc = "record"
      <3>1. /\ pc' = "gate" /\ UNCHANGED <<cur, pend, appLock>>
            /\ locks' = [locks EXCEPT ![cur] = pend]
        BY <1>3, <2>2 DEF ReadStatus, ReadPrior, LockApp, LockPages, SetRunOnly, RecordLock,
                          targetVars
      <3>2. a = cur => /\ appLock[a] = "mine" \/ (InHand(a) /\ pend.kind = "app")
                       /\ InHand(a) /\ pend.kind = "app" => pend.prior = "mine"
        BY <2>0, <2>2 DEF MineKept, Answers, HoldInv, TakenOnce, Holding
      <3>3. QED
        BY <1>0, <2>0, <2>2, <3>1, <3>2 DEF MineKept, InHand, Answers
    <2>3. QED
      BY <2>1, <2>2
  <1>4. QED
    BY <1>1, <1>2, <1>3 DEF Prepare

(* A release unlocks an application the developer had locked by locking it
   again with the developer's own comment.                                    *)
LEMMA ReleaseOwn == HoldInv /\ KindSaid /\ OwnLockInv /\ Release => OwnLockInv'
  <1> SUFFICES ASSUME HoldInv, KindSaid, OwnLockInv, Release PROVE OwnLockInv'
    OBVIOUS
  <1>0. /\ pend \in Entries /\ locks \in [Apps -> Entries] /\ cur \in Apps
        /\ appLock \in [Apps -> Holders] /\ ret \in {"scan", "done"} /\ UNCHANGED <<apex, found>>
    BY ReleaseFrame DEF HoldInv, TypeInv, TypeOK, TargetTypeOK
  <1>1. CASE Finally \/ NextRelease
    <2>1. OwnStill
      BY <1>0, <1>1 DEF Finally, NextRelease, targetVars, OwnStill
    <2>2. QED
      BY <2>1, OwnLockStill
  <1>2. CASE ReleaseStatus \/ ReleaseLock \/ RecordRelease
    <2> SUFFICES ASSUME Native, NEW a \in Apps \ spoiled', found[a].lock = "mine"
                 PROVE  MineKept(a)'
      BY <1>0 DEF OwnLockInv, Native
    <2>0. a \notin spoiled /\ MineKept(a)
      BY <1>0, <1>2 DEF OwnLockInv, ReleaseStatus, ReleaseLock, RecordRelease, Spoil
    <2>1. CASE ReleaseStatus
      <3>1. /\ pc = "rel_status" /\ pc' \in {"rel_lock", "rel_record"}
            /\ UNCHANGED <<appLock, locks, cur>> /\ pend = locks[cur]
            /\ pc' = "rel_record" => pend.outcome # "HELD"
        BY <2>1 DEF ReleaseStatus, HoldInv, InRelease
      <3>2. QED
        BY <2>0, <3>1 DEF MineKept, InHand, Answers
    <2>2. CASE ReleaseLock
      <3>1. /\ pc = "rel_lock" /\ pc' = "rel_record" /\ UNCHANGED <<locks, cur>>
            /\ \/ /\ UNCHANGED spoiled
                  /\ appLock' = IF pend.kind = "app" /\ appLock[cur] # "other"
                                THEN [appLock EXCEPT ![cur] = pend.prior] ELSE appLock
               \/ spoiled' = spoiled \cup {cur} /\ appLock' = appLock
        BY <2>2 DEF ReleaseLock, HandedOver, Spoil
      <3>2. CASE a # cur
        <4>1. appLock'[a] = appLock[a]
          BY <1>0, <3>1, <3>2
        <4>2. QED
          BY <2>0, <3>1, <3>2, <4>1 DEF MineKept, InHand, Answers
      <3>3. CASE a = cur
        <4>1. pend = locks[cur] /\ (pend.outcome = "HELD" <=> pend.kind # "none")
          BY <2>0, <3>1, <3>3 DEF HoldInv, InRelease, KindSaid
        <4>2. pend.kind = "app" => pend.prior = "mine"
          BY <2>0, <3>3, <4>1 DEF MineKept
        <4>3. appLock'[cur] = "mine"
          BY <1>0, <2>0, <3>1, <3>3, <4>1, <4>2 DEF MineKept, InHand, Answers
        <4>4. QED
          BY <2>0, <3>1, <3>3, <4>3 DEF MineKept, InHand
      <3>4. QED
        BY <3>2, <3>3
    <2>3. CASE RecordRelease
      <3>1. /\ pc = "rel_record" /\ pc' = "releasing" /\ UNCHANGED <<cur, pend, appLock>>
            /\ \A b \in Apps : locks'[b] = IF b = cur THEN NoEntry ELSE locks[b]
        BY <1>0, <2>3 DEF RecordRelease, targetVars
      <3>2. QED
        BY <2>0, <3>1, NoEntryFields DEF MineKept, InHand, Answers
    <2>4. QED
      BY <1>2, <2>1, <2>2, <2>3
  <1>3. QED
    BY <1>1, <1>2 DEF Release

(* From 26.2 on an import keeps the application lock, and no other developer
   can take over one that is the deploy's or the deploying developer's.        *)
LEMMA OwnLockStep ==
    HoldInv /\ KindSaid /\ OwnLockInv /\ TypeInv' /\ [Next]_vars => OwnLockInv'
  <1> SUFFICES ASSUME HoldInv, KindSaid, OwnLockInv, TypeInv', [Next]_vars PROVE OwnLockInv'
    OBVIOUS
  <1>0. TypeInv /\ appLock \in [Apps -> Holders]
    BY DEF HoldInv, TypeInv, TypeOK, TargetTypeOK
  <1>1. CASE Loop
    <2>1. Native => appLock' = appLock
      BY <1>1 DEF Loop, RunScript, SkipImport, BeginImport, Import, Overwrite, targetVars
    <2>2. OwnStill
      BY <1>1, <2>1, LoopFrame DEF OwnStill
    <2>3. QED
      BY <2>2, OwnLockStill
  <1>2. CASE Verify
    <2>1. Native => appLock' = appLock
      BY <1>2 DEF Verify, PostDeploy, Scan, Revert, EndBody, Overwrite, targetVars
    <2>2. pc' \in {"releasing", "revert", "finally"}
      BY <1>2 DEF Verify, PostDeploy, Scan, Revert, EndBody
    <2>3. OwnStill
      BY <1>2, <2>1, <2>2, VerifyFrame DEF OwnStill
    <2>4. QED
      BY <2>3, OwnLockStill
  <1>3. CASE StartRun
    <2>1. /\ pc' \in {"next", "steps"} /\ UNCHANGED <<apex, appLock>>
          /\ \A a \in Apps : locks'[a] = NoEntry /\ found'[a].lock = appLock[a]
      BY <1>3 DEF StartRun, Fresh, Snapshot, targetVars
    <2>2. QED
      BY <2>1, NoEntryFields DEF OwnLockInv, MineKept, InHand
  <1>4. CASE Interrupt
    <2>1. /\ pc' = "finally" /\ UNCHANGED <<apex, appLock, locks, found, cur>>
          /\ spoiled \subseteq spoiled'
          /\ pc = "record" /\ pend.outcome = "HELD" => cur \in spoiled'
      BY <1>4 DEF Interrupt, targetVars, history
    <2> SUFFICES ASSUME Native, NEW a \in Apps \ spoiled', found[a].lock = "mine"
                 PROVE  MineKept(a)'
      BY <2>1 DEF OwnLockInv, Native
    <2>2. MineKept(a) /\ ~InHand(a)
      BY <2>1 DEF OwnLockInv, InHand
    <2>3. QED
      BY <2>1, <2>2 DEF MineKept, InHand, Answers
  <1>5. CASE Kill
    BY <1>5 DEF Kill, OwnLockInv
  <1>6. CASE (\E a \in Apps : ReExport(a)) \/ UNCHANGED vars
    BY <1>6, StillFrame, OwnLockStill DEF OwnStill, targetVars
  <1>7. CASE DeveloperStep
    <2>1. \A a \in Apps : appLock[a] \in {"mine", "deploy"} => appLock'[a] = appLock[a]
      BY <1>0, <1>7 DEF DeveloperStep, Developer, OpenBuilder, CloseBuilder, Save, OtherLocks,
                        OtherUnlocks
    <2>2. OwnStill
      BY <1>7, <2>1, DeveloperFrame DEF OwnStill, runVars
    <2>3. QED
      BY <2>2, OwnLockStill
  <1>8. QED
    BY <1>1, <1>2, <1>3, <1>4, <1>5, <1>6, <1>7, PrepareOwn, ReleaseOwn DEF Next, Tool

(* Every lock of the first state is the one the run will find.                *)
LEMMA InitOwn == Init => OwnLockInv
  BY NoEntryFields DEF Init, Fresh, Snapshot, OwnLockInv, MineKept, InHand

(* A developer's own application lock comes back with its own comment:
   OwnLockReturned, an invariant of the run Deploy.                           *)
THEOREM OwnLockComesBack == Spec => []OwnLockReturned
  <1>1. HoldInv => TypeInv
    BY DEF HoldInv
  <1>2. HoldInv /\ OwnLockInv => OwnLockReturned
    <2> SUFFICES ASSUME HoldInv, OwnLockInv, pc = "done", Native,
                        NEW a \in Apps \ spoiled, found[a].lock = "mine"
                 PROVE  appLock[a] = "mine"
      BY DEF OwnLockReturned
    <2>1. locks[a].outcome # "HELD" /\ ~InHand(a)
      BY DEF HoldInv, InRelease, Ledger, InHand
    <2>2. QED
      BY <2>1 DEF OwnLockInv, MineKept, Answers
  <1>3. HoldInv /\ KindSaid /\ OwnLockInv /\ TypeInv' /\ [Next]_vars => KindSaid' /\ OwnLockInv'
    BY <1>1, KindStep, OwnLockStep
  <1>4. QED
    BY <1>1, <1>2, <1>3, InitKind, InitOwn, LocksAreAccounted, PTL DEF Spec

-----------------------------------------------------------------------------
(* Rows are finished for good: what is not written yet was not before, and what
   a script has reopened stays so.                                            *)
LEMMA RowsOnward ==
    ASSUME cfg' = cfg, \A i \in DOMAIN Steps : rows[i] # "unset" => rows'[i] # "unset"
    PROVE  \A a : (NotWritten(a)' => NotWritten(a)) /\ (Reopened(a) => Reopened(a)')
  BY DEF NotWritten, Reopened

(* The deploy loop finishes rows and forgets none.                            *)
LEMMA LoopRows ==
    RowInv /\ Loop => \A i \in DOMAIN Steps : rows[i] # "unset" => rows'[i] # "unset"
  BY DEF Loop, RunScript, SkipImport, BeginImport, Import, FinishRow

(* A step leaves the door of an application as it was, or better shut.        *)
DoorKept(a) ==
    /\ status[a] = "RUN_ONLY" => status'[a] = "RUN_ONLY"
    /\ appLock[a] = "deploy" => appLock'[a] = "deploy"
    /\ pageLock[a] # "none" => pageLock'[a] # "none"

(* Doors are kept shut by a step that opens none whose import is still to come. *)
LEMMA DoorStill ==
    ASSUME DoorInv, KindSaid', cfg' = cfg, locks' = locks, cur \in Apps,
           \A i \in DOMAIN Steps : rows[i] # "unset" => rows'[i] # "unset",
           \A a \in Apps : DoorKept(a) \/ ~NotWritten(a)',
           pc' \in Guarded => pc \in Guarded,
           ~InHand(cur)' \/ (UNCHANGED <<pc, cur, pend>> /\ DoorKept(cur))
    PROVE  DoorInv'
  <1>1. \A a : (NotWritten(a)' => NotWritten(a)) /\ (Reopened(a) => Reopened(a)')
    BY RowsOnward
  <1>2. ASSUME NEW a \in Apps, NEW kind, Shut(a, kind), DoorKept(a) PROVE Shut(a, kind)'
    BY <1>1, <1>2 DEF Shut, DoorKept
  <1>3. ASSUME pc' \in Guarded, NEW a \in Apps, locks[a].outcome = "HELD", NotWritten(a)'
        PROVE  Shut(a, locks[a].kind)'
    <2>1. Shut(a, locks[a].kind) /\ DoorKept(a)
      BY <1>1, <1>3 DEF DoorInv
    <2>2. QED
      BY <1>2, <2>1
  <1>4. InHand(cur)' => Shut(cur, pend.kind)'
    <2> SUFFICES ASSUME InHand(cur)' PROVE Shut(cur, pend.kind)'
      OBVIOUS
    <2>1. UNCHANGED <<pc, cur, pend>> /\ DoorKept(cur) /\ InHand(cur)
      BY DEF InHand
    <2>2. Shut(cur, pend.kind)
      BY <2>1 DEF DoorInv
    <2>3. QED
      BY <1>1, <2>1, <2>2 DEF Shut, DoorKept
  <1>5. QED
    BY <1>3, <1>4 DEF DoorInv

(* Preparing an application shuts its door before the ledger says so.          *)
LEMMA PrepareDoor ==
    HoldInv /\ DoorInv /\ TypeInv' /\ KindSaid' /\ Prepare => DoorInv'
  <1> SUFFICES ASSUME HoldInv, DoorInv, TypeInv', KindSaid', Prepare PROVE DoorInv'
    OBVIOUS
  <1>0. /\ pend \in Entries /\ locks \in [Apps -> Entries] /\ cur \in Apps
        /\ appLock \in [Apps -> Holders] /\ status \in [Apps -> Statuses]
        /\ pageLock \in [Apps -> PageLocks] /\ UNCHANGED <<cfg, rows>> /\ pc \in Guarded
    BY PrepareFrame DEF HoldInv, TypeInv, TypeOK, TargetTypeOK, Guarded
  <1>1. CASE RefuseBeforeLocks \/ RefuseAtGate \/ PassGate \/ (\E a \in Apps : NextApp(a))
             \/ ReadStatus \/ ReadSignature \/ ProbeRelease \/ ReadPrior
    <2>1. UNCHANGED <<locks, status, appLock, pageLock>> /\ ~InHand(cur)'
      <3>1. CASE RefuseBeforeLocks \/ RefuseAtGate \/ PassGate \/ (\E a \in Apps : NextApp(a))
        BY <3>1 DEF RefuseBeforeLocks, RefuseAtGate, PassGate, NextApp, targetVars, InHand
      <3>2. CASE ReadStatus
        <4>1. pc' = "record" => pend' \in {Noted(pend, "SKIPPED"), Noted(pend, "FAILED")}
          BY <3>2 DEF ReadStatus
        <4>2. QED
          BY <1>0, <3>2, <4>1, EntryFields DEF ReadStatus, targetVars, InHand, Outcomes
      <3>3. CASE ReadSignature \/ ProbeRelease \/ ReadPrior
        BY <3>3 DEF ReadSignature, ProbeRelease, ReadPrior, Another, targetVars, InHand
      <3>4. QED
        BY <1>1, <3>1, <3>2, <3>3
    <2>2. QED
      BY <1>0, <2>1, DoorStill DEF DoorKept
  <1>2. CASE LockApp \/ LockPages \/ SetRunOnly
    <2>1. /\ pc \in Taken /\ UNCHANGED <<cur, locks>>
          /\ \A a \in Apps : a # cur =>
                status'[a] = status[a] /\ appLock'[a] = appLock[a] /\ pageLock'[a] = pageLock[a]
      BY <1>0, <1>2 DEF LockApp, LockPages, SetRunOnly, RunOnly, Another, Taken
    <2>2. locks[cur].outcome # "HELD"
      BY <2>1 DEF HoldInv, TakenOnce, Taken, Holding
    <2>3. ASSUME NEW a \in Apps, locks'[a].outcome = "HELD", NotWritten(a)'
          PROVE  Shut(a, locks[a].kind)'
      <3>1. a # cur /\ Shut(a, locks[a].kind)
        BY <1>0, <2>1, <2>2, <2>3 DEF DoorInv, NotWritten
      <3>2. QED
        BY <1>0, <2>1, <2>3, <3>1 DEF Shut, Reopened
    <2>4. ASSUME InHand(cur)' PROVE Shut(cur, pend.kind)'
      <3>1. \/ pend' = Held(pend, "app") /\ appLock'[cur] = "deploy"
            \/ pend' = Held(pend, "pages") /\ pageLock'[cur] # "none"
            \/ pend' = Held(pend, "status") /\ status'[cur] = "RUN_ONLY"
            \/ pend' = Noted(pend, "FAILED")
        BY <1>0, <1>2, <2>4 DEF LockApp, LockPages, SetRunOnly, RunOnly, Another, InHand
      <3>2. pend' # Noted(pend, "FAILED")
        BY <1>0, <2>4, EntryFields DEF InHand, Outcomes
      <3>3. QED
        BY <1>0, <2>1, <3>1, <3>2, EntryKinds DEF Shut, LockKinds
    <2>5. QED
      BY <2>3, <2>4 DEF DoorInv
  <1>3. CASE RecordLock
    <2>1. /\ pc = "record" /\ pc' = "gate" /\ UNCHANGED <<cur, pend, status, appLock, pageLock>>
          /\ \A a \in Apps : locks'[a] = IF a = cur THEN pend ELSE locks[a]
      BY <1>0, <1>3 DEF RecordLock, targetVars
    <2>2. ASSUME NEW a \in Apps, locks'[a].outcome = "HELD", NotWritten(a)'
          PROVE  Shut(a, locks'[a].kind)
      BY <1>0, <2>1, <2>2 DEF DoorInv, NotWritten, InHand
    <2>3. QED
      BY <1>0, <2>1, <2>2 DEF DoorInv, Shut, Reopened, InHand
  <1>4. QED
    BY <1>1, <1>2, <1>3 DEF Prepare

(* An import opens a door whose row is then finished, and a status block opens
   one only ahead of the import, as its script is.                            *)
LEMMA LoopDoor ==
    RowInv /\ RowInv' /\ HoldInv /\ DoorInv /\ KindSaid' /\ Loop => DoorInv'
  <1> SUFFICES ASSUME RowInv, RowInv', HoldInv, DoorInv, KindSaid', Loop PROVE DoorInv'
    OBVIOUS
  <1>0. /\ cur \in Apps /\ appLock \in [Apps -> Holders] /\ status \in [Apps -> Statuses]
        /\ pageLock \in [Apps -> PageLocks] /\ cfg \in ConfigSpace /\ pc \in Guarded
        /\ UNCHANGED <<cfg, locks>> /\ ~InHand(cur)'
        /\ \A i \in DOMAIN Steps : rows[i] # "unset" => rows'[i] # "unset"
    BY LoopFrame, LoopRows DEF RowInv, TypeInv, TypeOK, TargetTypeOK, Guarded, InHand
  <1>1. CASE pc' \notin Guarded
    BY <1>0, <1>1 DEF DoorInv
  <1>2. CASE SkipImport \/ BeginImport
    <2>1. UNCHANGED <<status, appLock, pageLock>>
      BY <1>2 DEF SkipImport, BeginImport, targetVars
    <2>2. QED
      BY <1>0, <2>1, DoorStill DEF DoorKept
  <1>3. CASE RunScript /\ pc' \in Guarded
    <2>1. /\ pos \in DOMAIN Steps /\ Steps[pos].kind = "script" /\ rows'[pos] # "unset"
          /\ UNCHANGED <<appLock, pageLock>> /\ pos' = pos + 1
          /\ status' = status \/ TerminalBlock(Steps[pos].app)
      BY <1>3 DEF RunScript, FinishRow, After, Guarded, Holding
    <2>2. \A a : (NotWritten(a)' => NotWritten(a)) /\ (Reopened(a) => Reopened(a)')
      BY <1>0, RowsOnward
    <2>3. ASSUME NEW a \in Apps, locks[a].outcome = "HELD", NotWritten(a)'
          PROVE  Shut(a, locks[a].kind)'
      <3>1. Shut(a, locks[a].kind)
        BY <1>0, <2>2, <2>3 DEF DoorInv
      <3>2. CASE status'[a] = status[a] \/ locks[a].kind # "status"
        BY <1>0, <2>1, <2>2, <3>1, <3>2 DEF Shut
      <3>3. CASE status'[a] # status[a] /\ locks[a].kind = "status"
        <4>1. /\ a = Steps[pos].app /\ Steps[pos].ends /\ status'[a] = cfg.terminal
              /\ cfg.terminal \in {"DEV", "RUN_ONLY"}
          BY <1>0, <2>1, <3>3 DEF TerminalBlock, ConfigSpace, Statuses
        <4>2. \A j \in DOMAIN Steps : Steps[j].kind = "import" /\ Steps[j].app = a => pos < j
          <5> SUFFICES ASSUME NEW j \in DOMAIN Steps, Steps[j].kind = "import", Steps[j].app = a
                       PROVE  pos < j
            OBVIOUS
          <5>1. rows'[j] = "unset"
            BY <2>3 DEF NotWritten
          <5>2. InOrder(Len(Steps), rows', pos')
            BY DEF RowInv
          <5>3. ~(j < pos + 1) /\ j \in Nat /\ pos \in Nat /\ j # pos
            BY <2>1, <5>1, <5>2, StepsDomain DEF InOrder
          <5>4. QED
            BY <5>3
        <4>3. QED
          BY <1>0, <2>1, <3>3, <4>1, <4>2 DEF Shut, Reopened
      <3>4. QED
        BY <3>2, <3>3
    <2>4. QED
      BY <1>0, <2>3 DEF DoorInv
  <1>4. CASE Import /\ pc' \in Guarded
    <2>1. /\ cur = Steps[pos].app /\ pos \in DOMAIN Steps /\ Steps[pos].kind = "import"
          /\ rows'[pos] # "unset"
          /\ (\E c : Overwrite(cur, c)) \/ UNCHANGED <<status, appLock, pageLock>>
      BY <1>4 DEF Import, RowInv, AtImport, FinishRow, Guarded, Holding
    <2>2. \A a \in Apps : a = cur => ~NotWritten(a)'
      BY <2>1 DEF NotWritten
    <2>3. \A a \in Apps \ {cur} : /\ status'[a] = status[a] /\ appLock'[a] = appLock[a]
                                  /\ pageLock'[a] = pageLock[a]
      BY <1>0, <2>1 DEF Overwrite
    <2>4. QED
      BY <1>0, <2>2, <2>3, DoorStill DEF DoorKept
  <1>5. QED
    BY <1>1, <1>2, <1>3, <1>4 DEF Loop

(* No step but these opens a door, and no developer can.                      *)
LEMMA DoorStep ==
    RowInv /\ RowInv' /\ HoldInv /\ DoorInv /\ KindSaid' /\ [Next]_vars => DoorInv'
  <1> SUFFICES ASSUME RowInv, RowInv', HoldInv, DoorInv, KindSaid', [Next]_vars
               PROVE  DoorInv'
    OBVIOUS
  <1>0. TypeInv /\ TypeInv' /\ cur \in Apps /\ appLock \in [Apps -> Holders]
        /\ ret \in {"scan", "done"}
    BY DEF RowInv, TypeInv, TypeOK, TargetTypeOK
  <1>1. CASE Verify \/ Release \/ Interrupt \/ Kill
    <2>1. pc' \notin Guarded
      BY <1>0, <1>1, FaultFrame
      DEF Verify, PostDeploy, Scan, Revert, EndBody, Release, Finally, NextRelease, ReleaseStatus,
          ReleaseLock, RecordRelease, Guarded, Holding
    <2>2. QED
      BY <2>1 DEF DoorInv, InHand, Guarded, Holding
  <1>2. CASE StartRun
    <2>1. pc' \in {"next", "steps"} /\ \A a \in Apps : locks'[a] = NoEntry
      BY <1>2 DEF StartRun, Fresh
    <2>2. QED
      BY <2>1, NoEntryFields DEF DoorInv, InHand
  <1>3. CASE (\E a \in Apps : ReExport(a)) \/ UNCHANGED vars
    <2>1. UNCHANGED <<pc, cur, pend, cfg, locks, rows, status, appLock, pageLock>>
      BY <1>3, StillFrame DEF targetVars
    <2>2. QED
      BY <1>0, <2>1, DoorStill DEF DoorKept
  <1>4. CASE DeveloperStep
    <2>1. UNCHANGED <<pc, cur, pend, cfg, locks, rows, status, pageLock>>
      BY <1>4, DeveloperFrame DEF runVars
    <2>2. \A a \in Apps : appLock[a] = "deploy" => appLock'[a] = "deploy"
      BY <1>0, <1>4 DEF DeveloperStep, Developer, OpenBuilder, CloseBuilder, Save, OtherLocks,
                        OtherUnlocks
    <2>3. QED
      BY <1>0, <2>1, <2>2, DoorStill DEF DoorKept
  <1>5. QED
    BY <1>0, <1>1, <1>2, <1>3, <1>4, PrepareDoor, LoopDoor DEF Next, Tool

(* No door is the deploy's yet.                                               *)
LEMMA InitDoor == Init => DoorInv
  BY InitKind, NoEntryFields DEF Init, Fresh, DoorInv, InHand, Guarded, Holding

(* Everything an application held by the run is held by, through every run.    *)
LEMMA DoorsAreAccounted == Spec => [](RowInv /\ HoldInv /\ DoorInv)
  <1>1. HoldInv => TypeInv
    BY DEF HoldInv
  <1>2. DoorInv => KindSaid
    BY DEF DoorInv
  <1>3. /\ RowInv /\ RowInv' /\ HoldInv /\ TypeInv /\ TypeInv' /\ DoorInv /\ [Next]_vars
        => DoorInv'
    BY <1>2, KindStep, DoorStep
  <1>4. QED
    BY <1>1, <1>3, InitDoor, RowsAreAccounted, LocksAreAccounted, PTL DEF Spec

(* From the gate until its import, an application the run holds stays shut by
   the lock its entry names, unless the patch's own status block opened it:
   DoorShut, an invariant of the run Deploy.                                  *)
THEOREM DoorsStayShut == Spec => []DoorShut
  <1>1. DoorInv => DoorShut
    BY DEF DoorInv, DoorShut, Guarded, Holding
  <1>2. QED
    BY <1>1, DoorsAreAccounted, PTL

-----------------------------------------------------------------------------
(* An excuse for an import stays one: the flags of a run do not change, the
   sessions that were open were, and the lock is named in one ledger or the
   other.                                                                     *)
LEMMA ExcusedOnward ==
    ASSUME cfg' = cfg, gap \subseteq gap',
           \A i \in DOMAIN Steps : rows[i] # "unset" => rows'[i] # "unset"
    PROVE  \A a : LockKind(a)' = LockKind(a) => (Excused(a) => Excused(a)')
  <1>1. \A a : Reopened(a) => Reopened(a)'
    BY RowsOnward
  <1>2. QED
    BY <1>1 DEF Excused

(* A step that moves neither the applications nor the gate's account of them,
   and leaves what is in hand or has nothing there.                           *)
SeenStill ==
    /\ UNCHANGED <<content, session, cfg, locks, released, lost>> /\ gap \subseteq gap'
    /\ \A i \in DOMAIN Steps : rows[i] # "unset" => rows'[i] # "unset"
    /\ pc' \in {"next"} \cup Holding => UNCHANGED rows /\ pc \in {"next"} \cup Holding
    /\ pc' \in Guarded =>
          /\ pc \in Guarded
          /\ \A a \in Apps : locks[a].outcome = "HELD" =>
                UNCHANGED gate /\ ((pc = "gate" /\ cur = a) <=> (pc' = "gate" /\ cur' = a))

(* Such a step keeps what the gate has seen, whoever is at work.               *)
LEMMA SeenAtGateStill ==
    ASSUME SeenInv, SeenStill
    PROVE  Untaken' /\ SeenAtGate' /\ \A a \in lost' : Excused(a)'
  <1>1. \A a : (NotWritten(a)' => NotWritten(a)) /\ (Excused(a) => Excused(a)')
    BY RowsOnward, ExcusedOnward DEF SeenStill, LockKind
  <1>2. Untaken'
    BY DEF SeenInv, SeenStill, Untaken
  <1>3. SeenAtGate'
    <2> SUFFICES ASSUME pc' \in Guarded, NEW a \in Apps, locks'[a].outcome = "HELD",
                        NotWritten(a)', ~Excused(a)'
                 PROVE  /\ ~session'[a]
                        /\ IF pc' = "gate" /\ cur' = a
                           THEN locks'[a].sig # Unread => content'[a] = locks'[a].sig[1]
                           ELSE content'[a] = gate'[a][1]
      BY DEF SeenAtGate
    <2>1. /\ pc \in Guarded /\ locks' = locks /\ content' = content /\ session' = session
          /\ gate' = gate /\ ((pc = "gate" /\ cur = a) <=> (pc' = "gate" /\ cur' = a))
      BY DEF SeenStill
    <2>2. NotWritten(a) /\ ~Excused(a)
      BY <1>1
    <2>3. /\ ~session[a]
          /\ IF pc = "gate" /\ cur = a THEN locks[a].sig # Unread => content[a] = locks[a].sig[1]
                                       ELSE content[a] = gate[a][1]
      BY <2>1, <2>2 DEF SeenInv, SeenAtGate
    <2>4. QED
      BY <2>1, <2>3
  <1>4. \A a \in lost' : Excused(a)'
    BY <1>1 DEF SeenInv, SeenStill
  <1>5. QED
    BY <1>2, <1>3, <1>4

(* Preparing an application: the signature is read one statement ahead of the
   lock, with the session that would spoil it noted, and the gate judges it.   *)
LEMMA PrepareSeen ==
    HoldInv /\ DoorInv /\ SeenInv /\ TypeInv' /\ Prepare => SeenInv'
  <1> SUFFICES ASSUME HoldInv, DoorInv, SeenInv, TypeInv', Prepare PROVE SeenInv'
    OBVIOUS
  <1>0. /\ TypeInv /\ pend \in Entries /\ locks \in [Apps -> Entries] /\ cur \in Apps
        /\ gate \in [Apps -> Signatures] /\ gap \subseteq Apps
        /\ pc \in {"next"} \cup Holding
        /\ UNCHANGED <<rows, released, cfg, lost, content, session>> /\ lost = {}
    BY PrepareFrame DEF HoldInv, TypeInv, TypeOK, SeenInv, Untaken
  <1>a. ASSUME SeenStill, SeenInHand', pc' = "read_status" => pend' = NoEntry,
               pc' = "read_sig" => pend'.sig = Unread
        PROVE  SeenInv'
    BY <1>a, SeenAtGateStill DEF SeenInv
  <1>1. CASE RefuseBeforeLocks \/ RefuseAtGate
    <2>1. pc' = "finally" /\ UNCHANGED <<cur, locks, gate, gap>>
      BY <1>1 DEF RefuseBeforeLocks, RefuseAtGate
    <2>2. SeenStill
      BY <1>0, <2>1 DEF SeenStill, Guarded, Holding
    <2>3. QED
      BY <1>a, <2>1, <2>2 DEF SeenInHand, Taken, InHand
  <1>2. ASSUME NEW a \in Apps, NextApp(a) PROVE SeenInv'
    <2>1. /\ pc = "next" /\ a \in todo /\ cur' = a /\ pend' = NoEntry
          /\ pc' \in {"gate", "read_status"} /\ UNCHANGED <<locks, gate, gap>>
      BY <1>2 DEF NextApp
    <2>2. locks[a].outcome # "HELD"
      BY <2>1 DEF HoldInv, TakenOnce
    <2>3. SeenStill
      BY <1>0, <2>1, <2>2 DEF SeenStill, Guarded, Holding
    <2>4. QED
      BY <1>a, <2>1, <2>3 DEF SeenInHand, Taken, InHand
  <1>3. CASE ReadStatus
    <2>1. /\ pc = "read_status" /\ UNCHANGED <<cur, locks, gate, gap>>
          /\ \/ pc' = "record" /\ pend' \in {Noted(pend, "SKIPPED"), Noted(pend, "FAILED")}
             \/ pc' = "read_sig" /\ pend' = Before(pend, status[cur])
      BY <1>3 DEF ReadStatus
    <2>2. pend.sig = Unread /\ status[cur] \in Statuses
      BY <1>0, <2>1 DEF SeenInv, NoEntry, TypeInv, TypeOK, TargetTypeOK
    <2>3. /\ pc' = "record" => pend'.outcome # "HELD"
          /\ pc' = "read_sig" => pend'.sig = Unread
      BY <1>0, <2>1, <2>2, EntryKinds DEF Outcomes
    <2>4. SeenStill
      BY <1>0, <2>1 DEF SeenStill, Guarded, Holding
    <2>5. QED
      BY <1>a, <2>1, <2>3, <2>4 DEF SeenInHand, Taken, InHand
  <1>4. CASE ReadSignature
    <2>1. /\ pc = "read_sig" /\ pc' = "probe" /\ UNCHANGED <<cur, locks, gate>>
          /\ pend' \in {Signed(pend, Checksum(cur)), Signed(pend, Unread)}
          /\ gap' = IF session[cur] THEN gap \cup {cur} ELSE gap
      BY <1>4 DEF ReadSignature
    <2>2. Checksum(cur) \in Signatures /\ Unread \in Signatures
      BY <1>0, ChecksumType, EntryTypes DEF TypeInv, TypeOK
    <2>3. pend'.sig \in {Checksum(cur), Unread}
      BY <1>0, <2>1, <2>2, EntryKinds
    <2>4. SeenInHand'
      BY <1>0, <2>1, <2>3 DEF SeenInHand, Checksum
    <2>5. SeenStill
      BY <1>0, <2>1 DEF SeenStill, Guarded, Holding
    <2>6. QED
      BY <1>a, <2>1, <2>4, <2>5
  <1>5. CASE ProbeRelease \/ ReadPrior \/ LockApp \/ LockPages \/ SetRunOnly
    <2>1. /\ pc \in Taken \ {"read_sig"} /\ UNCHANGED <<cur, locks, gate, gap>>
          /\ pc' \in (Taken \ {"read_sig"}) \cup {"record", "finally"}
          /\ pend' \in {pend, Prior(pend, "other"), Prior(pend, appLock[cur]), Held(pend, "app"),
                        Held(pend, "pages"), Held(pend, "status"), Noted(pend, "FAILED")}
      BY <1>5 DEF ProbeRelease, ReadPrior, LockApp, LockPages, SetRunOnly, Another, Taken
    <2>2. appLock[cur] \in Holders /\ "other" \in Holders
      BY <1>0 DEF TypeInv, TypeOK, TargetTypeOK, Holders
    <2>3. pend'.sig = pend.sig
      BY <1>0, <2>1, <2>2, EntryKinds DEF LockKinds, Outcomes
    <2>4. SeenInHand'
      BY <1>0, <2>1, <2>3 DEF SeenInv, SeenInHand, InHand
    <2>5. SeenStill
      BY <1>0, <2>1 DEF SeenStill, Guarded, Holding, Taken
    <2>6. pc' \notin {"read_status", "read_sig"}
      BY <2>1 DEF Taken
    <2>7. QED
      BY <1>a, <2>4, <2>5, <2>6
  <1>6. CASE RecordLock \/ PassGate
    <2>1. \A a : NotWritten(a)' = NotWritten(a) /\ Reopened(a)' = Reopened(a)
      BY <1>0 DEF NotWritten, Reopened
    <2>2. Untaken' /\ SeenInHand' /\ pc' \notin {"read_status", "read_sig"} /\ gap' = gap
          /\ \A a \in lost' : Excused(a)'
      BY <1>0, <1>6 DEF RecordLock, PassGate, SeenInv, Untaken, SeenInHand, InHand, Taken
    <2>3. SeenAtGate'
      <3> SUFFICES ASSUME NEW a \in Apps, locks'[a].outcome = "HELD", NotWritten(a),
                          ~Excused(a)'
                   PROVE  /\ ~session'[a]
                          /\ IF pc' = "gate" /\ cur' = a
                             THEN locks'[a].sig # Unread => content'[a] = locks'[a].sig[1]
                             ELSE content'[a] = gate'[a][1]
        BY <2>1 DEF SeenAtGate
      <3>1. a \notin gap
        BY <2>2 DEF Excused
      <3>2. CASE RecordLock
        <4>1. /\ pc = "record" /\ pc' = "gate" /\ UNCHANGED <<cur, gate>>
              /\ locks' = [locks EXCEPT ![cur] = pend]
          BY <3>2 DEF RecordLock
        <4>2. CASE a = cur
          BY <1>0, <3>1, <4>1, <4>2 DEF SeenInv, SeenInHand, InHand
        <4>3. CASE a # cur
          <5>1. locks'[a] = locks[a] /\ LockKind(a)' = LockKind(a)
            BY <1>0, <4>1, <4>3 DEF LockKind
          <5>2. ~Excused(a)
            BY <1>0, <2>1, <2>2, <5>1 DEF Excused
          <5>3. QED
            BY <1>0, <4>1, <4>3, <5>1, <5>2 DEF SeenInv, SeenAtGate, Guarded, Holding
        <4>4. QED
          BY <4>2, <4>3
      <3>3. CASE PassGate
        <4>1. /\ pc = "gate" /\ pc' \in {"steps", "next"} /\ UNCHANGED <<cur, locks>>
              /\ gate' = [gate EXCEPT ![cur] = LiveSignature]
          BY <3>3 DEF PassGate
        <4>2. ~Excused(a)
          BY <1>0, <2>1, <2>2, <4>1 DEF Excused, LockKind
        <4>3. /\ ~session[a]
              /\ IF cur = a THEN locks[a].sig # Unread => content[a] = locks[a].sig[1]
                            ELSE content[a] = gate[a][1]
          BY <4>1, <4>2 DEF SeenInv, SeenAtGate, Guarded, Holding
        <4>4. a = cur => gate'[a][1] = content[a]
          BY <1>0, <4>1, <4>3 DEF LiveSignature, Checksum
        <4>5. a # cur => gate'[a] = gate[a]
          BY <1>0, <4>1
        <4>6. QED
          BY <1>0, <4>1, <4>3, <4>4, <4>5
      <3>4. QED
        BY <1>6, <3>2, <3>3
    <2>4. QED
      BY <2>2, <2>3 DEF SeenInv
  <1>7. QED
    BY <1>1, <1>2, <1>3, <1>4, <1>5, <1>6 DEF Prepare

(* An application about to be imported is still in the ledger, unwritten.      *)
LEMMA AtTheImport ==
    ASSUME RowInv, ReleaseInv, DoorInv, pc = "import"
    PROVE  /\ cur \in Apps /\ NotWritten(cur) /\ LockKind(cur) = locks[cur].kind
           /\ LockKind(cur) # "none" => locks[cur].outcome = "HELD"
  <1>1. /\ TypeInv /\ cur \in Apps /\ AtImport /\ cur = Steps[pos].app
        /\ InOrder(Len(Steps), rows, pos)
    BY DEF RowInv, TypeInv, TypeOK
  <1>2. NotWritten(cur)
    <2> SUFFICES ASSUME NEW i \in DOMAIN Steps, Steps[i].kind = "import", Steps[i].app = cur
                 PROVE  rows[i] = "unset"
      BY DEF NotWritten
    <2>1. i = pos /\ pos \in Nat
      BY <1>1, StepsDomain, DeployAssumption DEF DeployAssumption, AtImport
    <2>2. QED
      BY <1>1, <2>1, StepsDomain DEF InOrder
  <1>3. released[cur] = NoEntry
    BY <1>1 DEF ReleaseInv, NoneReleased, Forward
  <1>4. QED
    BY <1>1, <1>2, <1>3 DEF LockKind, NoEntry, DoorInv, KindSaid

(* An import over what the gate did not see has an excuse.                    *)
LEMMA LoopSeen ==
    RowInv /\ HoldInv /\ ReleaseInv /\ DoorInv /\ SeenInv /\ Loop => SeenInv'
  <1> SUFFICES ASSUME RowInv, HoldInv, ReleaseInv, DoorInv, SeenInv, Loop PROVE SeenInv'
    OBVIOUS
  <1>0. /\ TypeInv /\ cur \in Apps /\ content \in [Apps -> Contents]
        /\ pc \in {"steps", "import"} /\ pc' \in {"steps", "import", "post", "finally"}
        /\ UNCHANGED <<cfg, locks, released, gate, gap, session>>
        /\ \A i \in DOMAIN Steps : rows[i] # "unset" => rows'[i] # "unset"
    BY LoopFrame, LoopRows DEF RowInv, TypeInv, TypeOK, TargetTypeOK
  <1>1. SeenInHand' /\ Untaken' /\ pc' \notin {"read_status", "read_sig"}
    BY <1>0 DEF SeenInHand, InHand, Taken, Untaken, Holding
  <1>2. CASE UNCHANGED <<content, lost>>
    <2>1. SeenStill
      BY <1>0, <1>2 DEF SeenStill, Guarded, Holding
    <2>2. QED
      BY <1>1, <2>1, SeenAtGateStill DEF SeenInv
  <1>3. CASE ~UNCHANGED <<content, lost>>
    <2>1. /\ pc = "import" /\ cur' = cur
          /\ \E c : content' = [content EXCEPT ![cur] = c]
          /\ lost' = IF content[cur] # gate[cur][1] THEN lost \cup {cur} ELSE lost
          /\ pc' # "finally" => rows'[pos] # "unset"
      <3>1. Import
        BY <1>3 DEF Loop, RunScript, SkipImport, BeginImport, history, targetVars
      <3>2. \E c \in {"tree", "half"} :
               /\ Overwrite(cur, c)
               /\ lost' = IF content[cur] # gate[cur][1] THEN lost \cup {cur} ELSE lost
        BY <1>3, <3>1 DEF Import
      <3>3. pos \in DOMAIN Steps /\ (FinishRow("SUCCESS") \/ FinishRow("ERROR") \/ pc' = "finally")
        BY <3>1 DEF Import, RowInv, AtImport
      <3>4. pc' # "finally" => rows'[pos] # "unset"
        BY <3>3 DEF FinishRow
      <3>5. pc = "import" /\ cur' = cur
        BY <3>1 DEF Import
      <3>6. QED
        BY <3>2, <3>4, <3>5 DEF Overwrite
    <2>2. pos \in DOMAIN Steps /\ Steps[pos].kind = "import" /\ Steps[pos].app = cur
      BY <2>1 DEF RowInv, AtImport
    <2>3. \A a : (NotWritten(a)' => NotWritten(a)) /\ (Excused(a) => Excused(a)')
      BY <1>0, RowsOnward, ExcusedOnward DEF LockKind
    <2>4. SeenAtGate'
      <3> SUFFICES ASSUME pc' \in Guarded, NEW a \in Apps, locks[a].outcome = "HELD",
                          NotWritten(a)', ~Excused(a)'
                   PROVE  ~session[a] /\ content'[a] = gate[a][1]
        BY <1>0 DEF SeenAtGate
      <3>1. a # cur
        BY <1>0, <2>1, <2>2 DEF NotWritten, Guarded, Holding
      <3>2. NotWritten(a) /\ ~Excused(a)
        BY <2>3
      <3>3. ~session[a] /\ content[a] = gate[a][1]
        BY <2>1, <3>2 DEF SeenInv, SeenAtGate, Guarded
      <3>4. QED
        BY <1>0, <2>1, <3>1, <3>3
    <2>5. content[cur] # gate[cur][1] => Excused(cur)
      <3>1. LockKind(cur) = "none" => Excused(cur)
        BY DEF Excused
      <3>2. NotWritten(cur) /\ (LockKind(cur) # "none" => locks[cur].outcome = "HELD")
        BY <2>1, AtTheImport
      <3>3. QED
        BY <1>0, <2>1, <3>1, <3>2 DEF SeenInv, SeenAtGate, Guarded
    <2>6. \A a \in lost' : Excused(a)'
      BY <2>1, <2>3, <2>5 DEF SeenInv
    <2>7. QED
      BY <1>1, <2>4, <2>6 DEF SeenInv
  <1>4. QED
    BY <1>2, <1>3

(* A release hands the name of the lock from one ledger to the other.          *)
LEMMA ReleaseSeen ==
    HoldInv /\ ReleaseInv /\ DoorInv /\ SeenInv /\ Release => SeenInv'
  <1> SUFFICES ASSUME HoldInv, ReleaseInv, DoorInv, SeenInv, Release PROVE SeenInv'
    OBVIOUS
  <1>0. /\ TypeInv /\ cur \in Apps /\ ret \in {"scan", "done"} /\ lost \subseteq Apps
        /\ locks \in [Apps -> Entries] /\ released \in [Apps -> Entries]
        /\ UNCHANGED <<cfg, rows, gap, lost>>
    BY ReleaseFrame DEF HoldInv, TypeInv, TypeOK
  <1>1. pc' \in Releasing \cup {"scan", "done"}
    BY <1>0 DEF Release, Finally, NextRelease, ReleaseStatus, ReleaseLock, RecordRelease, Releasing
  <1>2. \A a \in Apps : LockKind(a)' = LockKind(a)
    <2>1. CASE RecordRelease
      <3>1. /\ pc = "rel_record" /\ locks' = [locks EXCEPT ![cur] = NoEntry]
            /\ released' = [released EXCEPT ![cur] = pend]
        BY <2>1 DEF RecordRelease
      <3>2. pend.kind = locks[cur].kind /\ released[cur] = NoEntry
        BY <1>0, <3>1, EntryGone
        DEF DoorInv, KindSaid, ReleaseInv, FromLedger, LeftLedger, Releasing
      <3>3. QED
        BY <1>0, <3>1, <3>2 DEF LockKind, NoEntry
    <2>2. CASE ~RecordRelease
      <3>1. UNCHANGED <<locks, released>>
        BY <2>2 DEF Release, Finally, NextRelease, ReleaseStatus, ReleaseLock
      <3>2. QED
        BY <3>1 DEF LockKind
    <2>3. QED
      BY <2>1, <2>2
  <1>3. \A a \in lost' : Excused(a)'
    BY <1>0, <1>2, ExcusedOnward DEF SeenInv
  <1>4. QED
    BY <1>1, <1>3 DEF SeenInv, SeenInHand, SeenAtGate, Untaken, InHand, Taken, Guarded, Holding,
                      Releasing

(* A developer gets past a shut door only by a session that was open already,
   or onto pages the deploy's locks do not cover.                             *)
LEMMA DeveloperSeen == HoldInv /\ DoorInv /\ SeenInv /\ DeveloperStep => SeenInv'
  <1> SUFFICES ASSUME HoldInv, DoorInv, SeenInv, DeveloperStep PROVE SeenInv'
    OBVIOUS
  <1>0. /\ TypeInv /\ cur \in Apps /\ content \in [Apps -> Contents]
        /\ session \in [Apps -> BOOLEAN] /\ gap \subseteq gap'
        /\ UNCHANGED <<pc, cur, pend, cfg, locks, released, gate, rows, lost, status, pageLock>>
    BY DeveloperFrame DEF HoldInv, TypeInv, TypeOK, TargetTypeOK, DeveloperStep, runVars
  <1>1. \A a : (NotWritten(a)' => NotWritten(a)) /\ (Excused(a) => Excused(a)')
    BY <1>0, RowsOnward, ExcusedOnward DEF LockKind
  <1>2. ASSUME NEW a \in Apps, session'[a] # session[a] \/ content'[a] # content[a]
        PROVE  \/ session[a]
               \/ /\ status[a] = "DEV" /\ appLock[a] \in {"free", "other"} /\ pageLock[a] # "all"
                  /\ session'[a] /\ content'[a] = content[a]
    BY <1>0, <1>2 DEF DeveloperStep, Developer, OpenBuilder, CloseBuilder, Save, OtherLocks,
                      OtherUnlocks
  <1>3. ASSUME NEW a \in Apps, session'[a], ~session[a],
               locks[a].outcome # "HELD" \/ pageLock[a] = "some"
        PROVE  a \in gap'
    BY <1>3 DEF DeveloperStep
  <1>4. SeenInHand'
    <2> SUFFICES ASSUME cur \notin gap', pc \in Taken \ {"read_sig"} \/ InHand(cur)
                 PROVE  /\ ~session'[cur]
                        /\ pend.sig # Unread => content'[cur] = pend.sig[1]
      BY <1>0 DEF SeenInHand, InHand
    <2>1. locks[cur].outcome # "HELD"
      BY DEF HoldInv, TakenOnce, InHand, Taken, Holding
    <2>2. ~session[cur] /\ (pend.sig # Unread => content[cur] = pend.sig[1])
      BY <1>0 DEF SeenInv, SeenInHand
    <2>3. ~session'[cur]
      BY <1>0, <1>3, <2>1, <2>2
    <2>4. content'[cur] = content[cur]
      BY <1>0, <1>2, <2>2
    <2>5. QED
      BY <2>2, <2>3, <2>4
  <1>5. SeenAtGate'
    <2> SUFFICES ASSUME pc \in Guarded, NEW a \in Apps, locks[a].outcome = "HELD", NotWritten(a),
                        ~Excused(a), a \notin gap'
                 PROVE  session'[a] = session[a] /\ content'[a] = content[a]
      <3>1. \A a \in Apps : ~Excused(a)' => ~Excused(a) /\ a \notin gap'
        BY <1>1 DEF Excused
      <3>2. QED
        BY <1>0, <1>1, <3>1 DEF SeenInv, SeenAtGate
    <2>1. ~session[a]
      BY DEF SeenInv, SeenAtGate
    <2>2. Shut(a, locks[a].kind) /\ LockKind(a) = locks[a].kind
      BY DEF DoorInv, KindSaid, LockKind
    <2>3. pageLock[a] = "some" => ~session'[a]
      BY <1>3, <2>1
    <2>4. pageLock[a] \in PageLocks
      BY <1>0 DEF TypeInv, TypeOK, TargetTypeOK
    <2>5. ~(session'[a] # session[a] \/ content'[a] # content[a])
      BY <1>2, <2>1, <2>2, <2>3, <2>4 DEF Shut, Excused, PageLocks
    <2>6. QED
      BY <2>5
  <1>6. QED
    BY <1>0, <1>1, <1>4, <1>5 DEF SeenInv, Untaken

(* What the gate has seen is what the import will write over, through every
   step of the run and of the others.                                         *)
LEMMA SeenStep ==
    RowInv /\ HoldInv /\ ReleaseInv /\ DoorInv /\ SeenInv /\ TypeInv' /\ [Next]_vars => SeenInv'
  <1> SUFFICES ASSUME RowInv, HoldInv, ReleaseInv, DoorInv, SeenInv, TypeInv', [Next]_vars
               PROVE  SeenInv'
    OBVIOUS
  <1>1. CASE Verify \/ Interrupt \/ Kill
    <2>1. /\ pc' \in {"releasing", "revert", "finally", "dead"}
          /\ UNCHANGED <<cfg, locks, released, rows, gap, lost>>
      BY <1>1, VerifyFrame, FaultFrame DEF Verify, PostDeploy, Scan, Revert, EndBody
    <2>2. \A a \in lost' : Excused(a)'
      BY <2>1, ExcusedOnward DEF SeenInv, LockKind
    <2>3. QED
      BY <2>1, <2>2 DEF SeenInv, SeenInHand, SeenAtGate, Untaken, InHand, Taken, Guarded, Holding
  <1>2. CASE StartRun
    <2>1. /\ pc' \in {"next", "steps"} /\ lost' = {}
          /\ \A a \in Apps : locks'[a] = NoEntry
          /\ \A i \in DOMAIN Steps : rows'[i] = "unset"
      BY <1>2 DEF StartRun, Fresh
    <2>2. QED
      BY <2>1, NoEntryFields DEF SeenInv, SeenInHand, SeenAtGate, Untaken, InHand, Taken
  <1>3. CASE (\E a \in Apps : ReExport(a)) \/ UNCHANGED vars
    <2>1. UNCHANGED <<pc, cur, pend, cfg, locks, released, gate, rows, gap, lost, content, session>>
      BY <1>3, StillFrame DEF targetVars
    <2>2. SeenStill
      BY <2>1 DEF SeenStill
    <2>3. QED
      BY <2>1, <2>2, SeenAtGateStill DEF SeenInv, SeenInHand, InHand
  <1>4. QED
    BY <1>1, <1>2, <1>3, PrepareSeen, LoopSeen, ReleaseSeen, DeveloperSeen DEF Next, Tool

(* Nothing is in hand, nothing held, nothing lost.                            *)
LEMMA InitSeen == Init => SeenInv
  BY NoEntryFields DEF Init, Fresh, SeenInv, SeenInHand, SeenAtGate, Untaken, InHand, Taken, Guarded,
                       Holding

(* The lost update the lock exists to prevent: an unforced deploy never imports
   an application it holds over a state its gate did not see, unless a session
   was open before the lock was on, page locks let one in, or the patch's own
   status block reopened it.  NoSilentOverwrite, an invariant of the run Deploy. *)
THEOREM NothingIsOverwrittenUnseen == Spec => []NoSilentOverwrite
  <1>1. HoldInv => TypeInv
    BY DEF HoldInv
  <1>2. SeenInv => NoSilentOverwrite
    BY DEF SeenInv, NoSilentOverwrite
  <1>3. QED
    BY <1>1, <1>2, InitSeen, SeenStep, ReleaseAlways, DoorsAreAccounted, PTL DEF Spec

-----------------------------------------------------------------------------
(* Until the loop is over a run has no outcome but that of being raised out of. *)
LEMMA ForwardVerdict ==
    ASSUME VerdictInv, pc \in Forward, UNCHANGED verdict,
           pc' \in Forward \cup {"finally"}, pc' = "post" => pos' = Len(Steps) + 1,
           outcome' = outcome \/ (outcome' = "RAISED" /\ pc' = "finally")
    PROVE  VerdictInv'
  <1>1. outcome = "unset" /\ \A a \in Apps : verdict[a] = "unset"
    BY DEF VerdictInv, EndsOnce, Judged, Forward, Holding, Releasing
  <1>2. ~Scanning'
    BY DEF Scanning, Forward, Holding, Releasing
  <1>3. QED
    BY <1>1, <1>2
    DEF VerdictInv, Judged, WalkedThrough, EndsOnce, RevertedIfKept, SuccessIsVerified

(* What landed is judged, what is condemned is reverted, and then the run says
   so.                                                                        *)
LEMMA VerifyVerdict == RowInv /\ VerdictInv /\ Verify => VerdictInv'
  <1> SUFFICES ASSUME RowInv, VerdictInv, Verify PROVE VerdictInv'
    OBVIOUS
  <1>0. /\ Landed' = Landed /\ UNCHANGED <<cfg, kept, pos>> /\ cur \in Apps
        /\ verdict \in [Apps -> {"unset", "passed", "failed"}]
        /\ reverts \in [Apps -> {"unset", "RESTORED", "FAILED", "SKIPPED"}]
    BY VerifyFrame DEF Landed, RowInv, TypeInv, TypeOK
  <1>1. outcome = "unset"
    BY DEF Verify, PostDeploy, Scan, Revert, EndBody, VerdictInv, EndsOnce, Releasing
  <1>2. CASE PostDeploy
    <2>1. /\ pc = "post" /\ pc' = "releasing" /\ ret' = "scan"
          /\ cfg.verify => scanq' = Landed
          /\ UNCHANGED <<verdict, reverts, outcome>>
      BY <1>2 DEF PostDeploy
    <2>2. \A a \in Apps : verdict[a] = "unset"
      BY <2>1 DEF VerdictInv, Judged, Forward
    <2>3. pos = Len(Steps) + 1
      BY <2>1 DEF VerdictInv, WalkedThrough
    <2>4. QED
      BY <1>0, <1>1, <2>1, <2>2, <2>3
      DEF VerdictInv, Judged, WalkedThrough, EndsOnce, RevertedIfKept, SuccessIsVerified, Forward,
          Holding
  <1>3. ASSUME NEW a \in Apps, Scan(a) PROVE VerdictInv'
    <2>1. /\ pc = "scan" /\ cur' = a /\ scanq' = scanq \ {a} /\ UNCHANGED <<reverts, outcome>>
          /\ \E v \in {"passed", "failed"} :
                /\ verdict' = [verdict EXCEPT ![a] = v]
                /\ v = "failed" /\ ~cfg.cont /\ kept[a] # "unset" => pc' = "revert"
          /\ pc' = "revert" \/ (pc' = "releasing" /\ ret' = "scan")
      BY <1>3 DEF Scan
    <2>2. Judged'
      BY <1>0, <2>1 DEF VerdictInv, Judged, Scanning, Forward, Holding, Releasing
    <2>3. RevertedIfKept'
      BY <1>0, <2>1 DEF VerdictInv, RevertedIfKept
    <2>4. WalkedThrough' /\ EndsOnce' /\ SuccessIsVerified'
      BY <1>0, <1>1, <2>1 DEF VerdictInv, WalkedThrough, Scanning, EndsOnce, SuccessIsVerified
    <2>5. QED
      BY <2>2, <2>3, <2>4 DEF VerdictInv
  <1>4. CASE Revert
    <2>1. /\ pc = "revert" /\ pc' = "releasing" /\ ret' = "scan"
          /\ UNCHANGED <<cur, scanq, verdict, outcome>>
          /\ \E r \in {"SKIPPED", "RESTORED", "FAILED"} : reverts' = [reverts EXCEPT ![cur] = r]
      BY <1>4 DEF Revert
    <2>2. Judged' /\ WalkedThrough' /\ EndsOnce' /\ SuccessIsVerified'
      BY <1>0, <1>1, <2>1
      DEF VerdictInv, Judged, WalkedThrough, Scanning, EndsOnce, SuccessIsVerified, Forward,
          Holding, Releasing
    <2>3. RevertedIfKept'
      BY <1>0, <2>1 DEF VerdictInv, RevertedIfKept
    <2>4. QED
      BY <2>2, <2>3 DEF VerdictInv
  <1>5. CASE EndBody
    <2>1. /\ pc = "scan" /\ scanq = {} /\ outcome' = RunStatus /\ pc' = "finally"
          /\ UNCHANGED <<verdict, reverts>>
      BY <1>5 DEF EndBody
    <2>2. pos = Len(Steps) + 1 /\ RevertedIfKept
      BY <2>1 DEF VerdictInv, WalkedThrough, Scanning
    <2>3. ASSUME outcome' = "SUCCESS", cfg.verify, ~cfg.cont, NEW i \in DOMAIN Steps,
                 Steps[i].kind = "import"
          PROVE  verdict[Steps[i].app] = "passed"
      <3>1. (\A j \in DOMAIN Steps : rows[j] # "ERROR") /\ \A a \in Apps : verdict[a] # "failed"
        BY <2>1, <2>3 DEF RunStatus, Behind
      <3>2. InOrder(Len(Steps), rows, pos) /\ rows[i] \in RowStates /\ i \in 1..Len(Steps)
        BY StepsDomain DEF RowInv, TypeInv, TypeOK
      <3>3. rows[i] # "unset"
        BY <2>2, <3>2, StepsDomain DEF InOrder
      <3>4. rows[i] = "SUCCESS"
        BY <3>1, <3>2, <3>3, StepsDomain DEF InOrder, RowStates
      <3>5. Steps[i].app \in Landed /\ Steps[i].app \in Apps
        BY <2>3, <3>4, DeployAssumption DEF DeployAssumption, Landed
      <3>6. verdict[Steps[i].app] # "unset"
        BY <2>1, <2>3, <3>5 DEF VerdictInv, Judged, Scanning
      <3>7. QED
        BY <1>0, <3>1, <3>5, <3>6
    <2>4. SuccessIsVerified'
      BY <1>0, <1>1, <2>1, <2>2, <2>3 DEF SuccessIsVerified, RevertedIfKept
    <2>5. Judged' /\ WalkedThrough' /\ EndsOnce' /\ RevertedIfKept'
      BY <1>0, <1>1, <2>1, <2>2
      DEF Judged, WalkedThrough, Scanning, EndsOnce, RevertedIfKept, Forward, Holding, Releasing
    <2>6. QED
      BY <2>4, <2>5 DEF VerdictInv
  <1>6. QED
    BY <1>2, <1>3, <1>4, <1>5 DEF Verify

(* The account of the verdicts is kept by every step.                         *)
LEMMA VerdictStep == RowInv /\ VerdictInv /\ [Next]_vars => VerdictInv'
  <1> SUFFICES ASSUME RowInv, VerdictInv, [Next]_vars PROVE VerdictInv'
    OBVIOUS
  <1>0. TypeInv /\ ret \in {"scan", "done"}
    BY DEF RowInv, TypeInv, TypeOK
  <1>1. CASE Prepare
    BY <1>1, PrepareFrame, ForwardVerdict DEF Forward, Holding
  <1>2. CASE Loop
    <2>1. pc' = "post" => pos' = Len(Steps) + 1
      BY <1>2 DEF Loop, RunScript, SkipImport, BeginImport, Import, FinishRow, After
    <2>2. QED
      BY <1>2, <2>1, LoopFrame, ForwardVerdict DEF Forward
  <1>3. CASE Release
    <2>1. /\ Landed' = Landed
          /\ UNCHANGED <<cfg, pos, kept, scanq, verdict, reverts, outcome>>
      BY <1>3, ReleaseFrame DEF Landed
    <2>2. /\ pc \in {"finally"} \cup Releasing
          /\ \/ pc = "finally" /\ pc' = "releasing" /\ ret' = "done"
             \/ pc \in Releasing /\ pc' \in Releasing \cup {ret} /\ ret' = ret
      BY <1>3 DEF Release, Finally, NextRelease, ReleaseStatus, ReleaseLock, RecordRelease, Releasing
    <2>3. Judged' /\ WalkedThrough'
      BY <1>0, <2>1, <2>2
      DEF VerdictInv, Judged, WalkedThrough, Scanning, Releasing, Forward, Holding
    <2>4. EndsOnce' /\ RevertedIfKept' /\ SuccessIsVerified'
      BY <1>0, <2>1, <2>2 DEF VerdictInv, EndsOnce, RevertedIfKept, SuccessIsVerified, Releasing
    <2>5. QED
      BY <2>3, <2>4 DEF VerdictInv
  <1>4. CASE StartRun
    <2>1. /\ pc' \in {"next", "steps"} /\ outcome' = "unset"
          /\ \A a \in Apps : verdict'[a] = "unset"
      BY <1>4 DEF StartRun, Fresh
    <2>2. QED
      BY <2>1 DEF VerdictInv, Judged, WalkedThrough, Scanning, EndsOnce, RevertedIfKept,
                  SuccessIsVerified, Releasing
  <1>5. CASE Interrupt \/ Kill
    BY <1>5, FaultFrame DEF VerdictInv, Judged, WalkedThrough, Scanning, EndsOnce, RevertedIfKept,
                            SuccessIsVerified, Releasing, Forward, Holding
  <1>6. CASE DeveloperStep \/ (\E a \in Apps : ReExport(a)) \/ UNCHANGED vars
    <2>1. UNCHANGED <<pc, ret, cur, cfg, pos, rows, kept, scanq, verdict, reverts, outcome>>
      BY <1>6, DeveloperFrame, StillFrame DEF runVars
    <2>2. Landed' = Landed
      BY <2>1 DEF Landed
    <2>3. QED
      BY <2>1, <2>2 DEF VerdictInv, Judged, WalkedThrough, Scanning, EndsOnce, RevertedIfKept,
                        SuccessIsVerified
  <1>7. QED
    BY <1>1, <1>2, <1>3, <1>4, <1>5, <1>6, VerifyVerdict DEF Next, Tool

(* A run reported SUCCESS has every application it imported verified, and what
   a scan condemned was reverted where a copy was kept: SuccessIsVerified, an
   invariant of the run DeployKeys.                                           *)
THEOREM SuccessMeansVerified == Spec => []SuccessIsVerified
  <1>1. Init => VerdictInv
    BY DEF Init, Fresh, VerdictInv, Judged, WalkedThrough, Scanning, EndsOnce, RevertedIfKept,
           SuccessIsVerified, Releasing
  <1>2. VerdictInv => SuccessIsVerified
    BY DEF VerdictInv
  <1>3. QED
    BY <1>1, <1>2, VerdictStep, RowsAreAccounted, PTL DEF Spec

-----------------------------------------------------------------------------
(* What an import that succeeded left stays, but for reverts and developers.   *)
LEMMA TreeStep == RowInv /\ ImportedTree /\ [Next]_vars => ImportedTree'
  <1> SUFFICES ASSUME RowInv, ImportedTree, [Next]_vars PROVE ImportedTree'
    OBVIOUS
  <1>0. /\ TypeInv /\ cur \in Apps /\ content \in [Apps -> Contents]
        /\ reverts \in [Apps -> {"unset", "RESTORED", "FAILED", "SKIPPED"}]
        /\ \A i \in DOMAIN Steps : Steps[i].kind = "import" => Steps[i].app \in Apps
    BY DeployAssumption DEF DeployAssumption, RowInv, TypeInv, TypeOK, TargetTypeOK
  <1>a. ASSUME UNCHANGED <<content, reverts>>,
               \A i \in DOMAIN Steps :
                  Steps[i].kind = "import" /\ rows'[i] = "SUCCESS" => rows[i] = "SUCCESS"
        PROVE  ImportedTree'
    BY <1>a DEF ImportedTree
  <1>1. CASE Prepare \/ Release \/ Interrupt \/ Kill \/ (\E a \in Apps : ReExport(a))
             \/ UNCHANGED vars
    <2>1. UNCHANGED <<content, reverts, rows>>
      BY <1>1, PrepareFrame, ReleaseFrame, FaultFrame, StillFrame DEF targetVars
    <2>2. QED
      BY <1>a, <2>1
  <1>2. CASE RunScript \/ SkipImport \/ BeginImport
    <2>1. UNCHANGED <<content, reverts>>
      BY <1>2 DEF RunScript, SkipImport, BeginImport, targetVars, postVars
    <2>2. \A i \in DOMAIN Steps :
             Steps[i].kind = "import" /\ rows'[i] = "SUCCESS" => rows[i] = "SUCCESS"
      BY <1>2 DEF RunScript, SkipImport, BeginImport, FinishRow
    <2>3. QED
      BY <1>a, <2>1, <2>2
  <1>3. CASE Import
    <2>1. /\ pos \in DOMAIN Steps /\ Steps[pos].kind = "import" /\ Steps[pos].app = cur
          /\ rows[pos] = "unset" /\ UNCHANGED reverts
      BY <1>3, StepsDomain
      DEF Import, RowInv, AtImport, InOrder, postVars, TypeInv, TypeOK
    <2>2. \A i \in DOMAIN Steps : Steps[i].kind = "import" /\ Steps[i].app = cur => i = pos
      BY <2>1, DeployAssumption DEF DeployAssumption
    <2>3. /\ rows'[pos] = "SUCCESS" => content'[cur] = "tree"
          /\ \A i \in DOMAIN Steps : i # pos /\ rows'[i] = "SUCCESS" => rows[i] = "SUCCESS"
          /\ \A a \in Apps : a # cur => content'[a] = content[a]
      BY <1>0, <1>3, <2>1 DEF Import, FinishRow, Overwrite
    <2>4. QED
      BY <1>0, <2>1, <2>2, <2>3 DEF ImportedTree
  <1>4. CASE Verify
    <2>1. CASE Revert
      <3>1. /\ rows' = rows
            /\ \E r \in {"SKIPPED", "RESTORED", "FAILED"} : reverts' = [reverts EXCEPT ![cur] = r]
            /\ \A a \in Apps : a # cur => content'[a] = content[a]
        BY <1>0, <2>1 DEF Revert, Overwrite, afterLoop
      <3>2. QED
        BY <1>0, <3>1 DEF ImportedTree
    <2>2. CASE ~Revert
      <3>1. UNCHANGED <<content, reverts, rows>>
        BY <1>4, <2>2 DEF Verify, PostDeploy, Scan, EndBody, targetVars, afterLoop
      <3>2. QED
        BY <1>a, <3>1
    <2>3. QED
      BY <2>1, <2>2
  <1>5. CASE StartRun
    BY <1>5 DEF StartRun, ImportedTree
  <1>6. CASE DeveloperStep
    <2>1. UNCHANGED <<rows, reverts>>
      BY <1>6, DeveloperFrame DEF runVars
    <2>2. \A a \in Apps : content'[a] = content[a] \/ content'[a] \in Edits
      BY <1>0, <1>6 DEF DeveloperStep, Developer, OpenBuilder, CloseBuilder, Save, OtherLocks,
                        OtherUnlocks
    <2>3. QED
      BY <1>0, <2>1, <2>2 DEF ImportedTree
  <1>7. QED
    BY <1>1, <1>2, <1>3, <1>4, <1>5, <1>6 DEF Next, Tool, Loop

(* An application the baseline is moved for holds the shipped tree, or what a
   developer made of it since: BaselineHolds, an invariant of the run DeployKeys. *)
THEOREM BaselineIsWhatStands == Spec => []BaselineHolds
  <1>1. Init => ImportedTree
    BY DEF Init, ImportedTree
  <1>2. ImportedTree => BaselineHolds
    BY DEF ImportedTree, BaselineHolds, LandedApps, Succeeded
  <1>3. QED
    BY <1>1, <1>2, TreeStep, RowsAreAccounted, PTL DEF Spec

-----------------------------------------------------------------------------
(* The contract of DeployHold: `phase` and `hold` are what a run shows of its
   locks, and each of its steps is one of the contract's, or none.             *)

(* A step that changes nothing the contract sees: the applications it strands,
   holds and has given back stay the same ones.                               *)
HoldSame ==
    /\ UNCHANGED <<locks, released, spoiled>>
    /\ \A a \in Apps : InHand(a)' = InHand(a)

(* What the contract sees of one application depends on its own entries.       *)
LEMMA HoldMoves ==
    /\ HoldSame => hold' = hold
    /\ \A a \in Apps : \A v :
          hold'[a] = v /\ (\A b \in Apps : b # a => hold'[b] = hold[b])
          => hold' = [hold EXCEPT ![a] = v]
  BY DEF hold, HoldSame

(* A prepared application is taken as its entry is written, and stranded by a
   call that landed without its answer.                                       *)
LEMMA PrepareRefines ==
    HoldInv /\ ReleaseInv /\ KindSaid /\ TypeInv' /\ Prepare
    => [Hold!Next]_<<phase, hold>>
  <1> SUFFICES ASSUME HoldInv, ReleaseInv, KindSaid, TypeInv', Prepare
               PROVE  [Hold!Next]_<<phase, hold>>
    OBVIOUS
  <1>0. /\ pend \in Entries /\ locks \in [Apps -> Entries] /\ cur \in Apps /\ spoiled \subseteq Apps
        /\ released' = released /\ \A a \in Apps : released[a].outcome # "HELD"
    BY PrepareFrame, NoEntryFields
    DEF HoldInv, TypeInv, TypeOK, ReleaseInv, NoneReleased, Forward
  <1>1. phase = "running" /\ phase' = phase
    BY PrepareFrame DEF phase, Running, InBody, InFinally, Body, Holding, Releasing
  <1>2. CASE RefuseBeforeLocks \/ RefuseAtGate \/ PassGate \/ (\E a \in Apps : NextApp(a))
             \/ ReadStatus \/ ReadSignature \/ ProbeRelease \/ ReadPrior
    <2>1. UNCHANGED <<locks, spoiled>> /\ pc # "record" /\ ~(pc' = "record" /\ pend'.outcome = "HELD")
      <3>1. CASE ReadStatus
        <4>1. pc' = "record" => pend' \in {Noted(pend, "SKIPPED"), Noted(pend, "FAILED")}
          BY <3>1 DEF ReadStatus
        <4>2. QED
          BY <1>0, <3>1, <4>1, EntryFields DEF ReadStatus, Outcomes
      <3>2. CASE ~ReadStatus
        BY <1>2, <3>2 DEF RefuseBeforeLocks, RefuseAtGate, PassGate, NextApp, ReadSignature,
                          ProbeRelease, ReadPrior, Another
      <3>3. QED
        BY <3>1, <3>2
    <2>2. HoldSame
      BY <1>0, <2>1 DEF HoldSame, InHand
    <2>3. QED
      BY <1>1, <2>2, HoldMoves
  <1>3. CASE LockApp \/ LockPages \/ SetRunOnly
    <2>1. /\ pc \in Taken /\ UNCHANGED <<cur, locks>>
          /\ \/ UNCHANGED spoiled
             \/ spoiled' = spoiled \cup {cur}
      BY <1>3 DEF LockApp, LockPages, SetRunOnly, Spoil, Taken
    <2>2. /\ locks[cur].outcome # "HELD" /\ \A a \in Apps : ~InHand(a)
          /\ \A a \in Apps : a # cur => ~InHand(a)'
      BY <2>1 DEF HoldInv, TakenOnce, Taken, Holding, InHand
    <2>3. \A b \in Apps : b # cur => hold'[b] = hold[b]
      BY <1>0, <2>1, <2>2 DEF hold
    <2>4. CASE cur \in spoiled'
      <3>1. hold'[cur] = "stranded"
        BY <1>0, <2>4 DEF hold
      <3>2. Hold!Strand(cur)
        BY <1>0, <1>1, <2>3, <3>1, HoldMoves DEF Hold!Strand
      <3>3. QED
        BY <1>0, <3>2 DEF Hold!Next
    <2>5. CASE cur \notin spoiled' /\ InHand(cur)'
      <3>1. hold[cur] = "free" /\ hold'[cur] = "held"
        BY <1>0, <2>1, <2>2, <2>5 DEF hold, InHand
      <3>2. Hold!Take(cur)
        BY <1>0, <1>1, <2>3, <3>1, HoldMoves DEF Hold!Take
      <3>3. QED
        BY <1>0, <3>2 DEF Hold!Next
    <2>6. CASE cur \notin spoiled' /\ ~InHand(cur)'
      <3>1. HoldSame
        BY <1>0, <2>1, <2>2, <2>6 DEF HoldSame, InHand
      <3>2. QED
        BY <1>1, <3>1, HoldMoves
    <2>7. QED
      BY <2>4, <2>5, <2>6
  <1>4. CASE RecordLock
    <2>1. /\ pc = "record" /\ pc' = "gate" /\ UNCHANGED <<cur, pend, spoiled>>
          /\ \A a \in Apps : locks'[a] = IF a = cur THEN pend ELSE locks[a]
      BY <1>0, <1>4 DEF RecordLock
    <2>2. locks[cur].outcome # "HELD"
      BY <2>1 DEF HoldInv, TakenOnce, Holding
    <2>3. hold' = hold
      BY <1>0, <2>1, <2>2 DEF hold, InHand
    <2>4. QED
      BY <1>1, <2>3
  <1>5. QED
    BY <1>2, <1>3, <1>4 DEF Prepare

(* A release gives back what is held, and the last one ends the run.           *)
LEMMA ReleaseRefines ==
    HoldInv /\ ReleaseInv /\ TypeInv' /\ Release => [Hold!Next]_<<phase, hold>>
  <1> SUFFICES ASSUME HoldInv, ReleaseInv, TypeInv', Release
               PROVE  [Hold!Next]_<<phase, hold>>
    OBVIOUS
  <1>0. /\ pend \in Entries /\ locks \in [Apps -> Entries] /\ released \in [Apps -> Entries]
        /\ cur \in Apps /\ spoiled \subseteq Apps /\ ret \in {"scan", "done"}
    BY DEF HoldInv, TypeInv, TypeOK
  <1>1. /\ phase = "running"
        /\ phase' = phase \/ (NextRelease /\ rel = {} /\ ret = "done" /\ phase' = "ended")
    <2>1. phase = "running"
      BY ReleaseFrame, <1>0 DEF phase, Running, InBody, InFinally, Releasing
    <2>2. CASE NextRelease
      BY <1>0, <2>1, <2>2 DEF NextRelease, phase, Running, InBody, InFinally, Releasing, Body, Holding
    <2>3. CASE Finally \/ ReleaseStatus \/ ReleaseLock \/ RecordRelease
      BY <1>0, <2>1, <2>3 DEF Finally, ReleaseStatus, ReleaseLock, RecordRelease, phase, Running,
                              InBody, InFinally, Releasing
    <2>4. QED
      BY <2>1, <2>2, <2>3 DEF Release
  <1>2. CASE Finally
    <2>1. HoldSame
      BY <1>2 DEF Finally, HoldSame, InHand
    <2>2. phase' = phase
      BY <1>1, <1>2 DEF Finally, NextRelease
    <2>3. QED
      BY <2>1, <2>2, HoldMoves
  <1>3. CASE NextRelease
    <2>1. HoldSame
      BY <1>0, <1>3 DEF NextRelease, HoldSame, InHand
    <2>2. CASE phase' = phase
      BY <2>1, <2>2, HoldMoves
    <2>3. CASE phase' # phase
      <3>1. pc \in Releasing /\ ret = "done" /\ rel = {} /\ phase' = "ended"
        BY <1>1, <1>3, <2>3 DEF NextRelease, Releasing
      <3>2. \A a \in Apps : locks[a].outcome # "HELD" /\ ~InHand(a)
        BY <3>1 DEF HoldInv, InRelease, Ledger, InHand, Releasing
      <3>3. \A a \in Apps : hold[a] # "held"
        BY <3>2 DEF hold
      <3>4. Hold!End
        BY <1>1, <2>1, <3>1, <3>3, HoldMoves DEF Hold!End
      <3>5. QED
        BY <3>4 DEF Hold!Next
    <2>4. QED
      BY <2>2, <2>3
  <1>4. CASE ReleaseStatus \/ ReleaseLock
    <2>1. /\ pc \in {"rel_status", "rel_lock"} /\ pc' \in {"rel_lock", "rel_record"}
          /\ UNCHANGED <<cur, locks, released>>
          /\ UNCHANGED spoiled \/ spoiled' = spoiled \cup {cur}
      BY <1>4 DEF ReleaseStatus, ReleaseLock, Spoil
    <2>2. phase' = phase
      BY <1>1, <2>1 DEF NextRelease
    <2>3. CASE UNCHANGED spoiled
      <3>1. HoldSame
        BY <2>1, <2>3 DEF HoldSame, InHand
      <3>2. QED
        BY <2>2, <3>1, HoldMoves
    <2>4. CASE spoiled' = spoiled \cup {cur}
      <3>1. hold'[cur] = "stranded" /\ \A b \in Apps : b # cur => hold'[b] = hold[b]
        BY <1>0, <2>1, <2>4 DEF hold, InHand
      <3>2. Hold!Strand(cur)
        BY <1>0, <1>1, <2>2, <3>1, HoldMoves DEF Hold!Strand
      <3>3. QED
        BY <1>0, <3>2 DEF Hold!Next
    <2>5. QED
      BY <2>1, <2>3, <2>4
  <1>5. CASE RecordRelease
    <2>1. /\ pc = "rel_record" /\ pc' = "releasing" /\ UNCHANGED <<cur, spoiled>>
          /\ \A a \in Apps : /\ locks'[a] = IF a = cur THEN NoEntry ELSE locks[a]
                             /\ released'[a] = IF a = cur THEN pend ELSE released[a]
      BY <1>0, <1>5 DEF RecordRelease
    <2>2. phase' = phase
      BY <1>1, <2>1 DEF NextRelease
    <2>3. /\ pend = locks[cur] \/ cur \in spoiled
          /\ released[cur].outcome # "HELD"
      BY <1>0, <2>1, EntryGone, NoEntryFields
      DEF HoldInv, InRelease, ReleaseInv, FromLedger, LeftLedger, Releasing
    <2>4. \A b \in Apps : b # cur => hold'[b] = hold[b]
      BY <1>0, <2>1 DEF hold, InHand
    <2>5. CASE cur \notin spoiled /\ pend.outcome = "HELD"
      <3>1. hold[cur] = "held" /\ hold'[cur] = "given"
        BY <1>0, <2>1, <2>3, <2>5, NoEntryFields DEF hold, InHand
      <3>2. Hold!Give(cur)
        BY <1>0, <1>1, <2>2, <2>4, <3>1, HoldMoves DEF Hold!Give
      <3>3. QED
        BY <1>0, <3>2 DEF Hold!Next
    <2>6. CASE cur \in spoiled \/ pend.outcome # "HELD"
      <3>1. hold'[cur] = hold[cur]
        BY <1>0, <2>1, <2>3, <2>6, NoEntryFields DEF hold, InHand
      <3>2. hold' = hold
        BY <2>4, <3>1 DEF hold
      <3>3. QED
        BY <2>2, <3>2
    <2>7. QED
      BY <2>5, <2>6
  <1>6. QED
    BY <1>2, <1>3, <1>4, <1>5 DEF Release

(* Every step of a run, its faults and the developers is a step of the contract,
   or shows nothing of it.                                                    *)
LEMMA StepRefines ==
    HoldInv /\ ReleaseInv /\ KindSaid /\ TypeInv' /\ [Next]_vars => [Hold!Next]_<<phase, hold>>
  <1> SUFFICES ASSUME HoldInv, ReleaseInv, KindSaid, TypeInv', [Next]_vars
               PROVE  [Hold!Next]_<<phase, hold>>
    OBVIOUS
  <1>0. /\ TypeInv /\ cur \in Apps /\ spoiled \subseteq Apps
    BY DEF HoldInv, TypeInv, TypeOK
  <1>1. CASE Loop \/ Verify
    <2>1. /\ pc \in {"steps", "import", "post", "scan", "revert"}
          /\ \/ pc' \in {"steps", "import", "post", "finally", "revert"}
             \/ pc' = "releasing" /\ ret' = "scan"
          /\ UNCHANGED <<locks, released, spoiled>>
      BY <1>1, LoopFrame, VerifyFrame DEF Verify, PostDeploy, Scan, Revert, EndBody
    <2>2. HoldSame
      BY <2>1 DEF HoldSame, InHand
    <2>3. phase' = phase
      BY <2>1 DEF phase, Running, InBody, InFinally, Body, Releasing
    <2>4. QED
      BY <2>2, <2>3, HoldMoves
  <1>2. CASE StartRun
    <2>1. /\ pc \in {"idle", "done", "dead"} /\ pc' \in {"next", "steps"} /\ spoiled' = {}
          /\ \A a \in Apps : locks'[a] = NoEntry /\ released'[a] = NoEntry
      BY <1>2 DEF StartRun, Fresh
    <2>2. phase # "running" /\ phase' = "running"
      BY <2>1 DEF phase, Running, InBody, InFinally, Body, Holding, Releasing
    <2>3. hold' = [a \in Apps |-> "free"]
      BY <2>1, NoEntryFields DEF hold, InHand
    <2>4. QED
      BY <2>2, <2>3 DEF Hold!Next, Hold!Begin
  <1>3. CASE Interrupt
    <2>1. /\ InBody /\ pc' = "finally" /\ UNCHANGED <<locks, released, cur>>
          /\ spoiled' = IF InHand(cur) THEN spoiled \cup {cur} ELSE spoiled
      BY <1>3 DEF Interrupt, InHand
    <2>2. phase = "running" /\ phase' = "running"
      BY <2>1 DEF phase, Running, InFinally
    <2>3. CASE InHand(cur)
      <3>1. hold'[cur] = "stranded" /\ \A b \in Apps : b # cur => hold'[b] = hold[b]
        BY <1>0, <2>1, <2>3 DEF hold, InHand
      <3>2. Hold!Strand(cur)
        BY <1>0, <2>2, <3>1, HoldMoves DEF Hold!Strand
      <3>3. QED
        BY <1>0, <3>2 DEF Hold!Next
    <2>4. CASE ~InHand(cur)
      <3>1. HoldSame
        BY <2>1, <2>4 DEF HoldSame, InHand
      <3>2. QED
        BY <2>2, <3>1, HoldMoves
    <2>5. QED
      BY <2>3, <2>4
  <1>4. CASE Kill
    <2>1. Running /\ pc' = "dead" /\ spoiled' = Apps
      BY <1>4 DEF Kill
    <2>2. phase = "running" /\ phase' = "ended"
      BY <2>1 DEF phase, Running, InBody, InFinally, Body, Holding, Releasing
    <2>3. hold' = [a \in Apps |-> "stranded"]
      BY <2>1 DEF hold
    <2>4. QED
      BY <2>2, <2>3 DEF Hold!Next, Hold!Die
  <1>5. CASE DeveloperStep \/ (\E a \in Apps : ReExport(a)) \/ UNCHANGED vars
    <2>1. UNCHANGED <<pc, ret, cur, pend, locks, released, spoiled>>
      BY <1>5, DeveloperFrame, StillFrame DEF runVars
    <2>2. HoldSame /\ phase' = phase
      BY <2>1 DEF HoldSame, InHand, phase, Running, InBody, InFinally
    <2>3. QED
      BY <2>2, HoldMoves
  <1>6. QED
    BY <1>1, <1>2, <1>3, <1>4, <1>5, PrepareRefines, ReleaseRefines DEF Next, Tool

(* A deployment run keeps the contract of DeployHold: it takes each application
   once, gives it back once and ends with none, only a fault strands one, and a
   run that dies strands them all.  HoldSpec, a property of the runs DeployKeys
   and DeployPair.                                                            *)
THEOREM DeployKeepsTheContract == Spec => HoldSpec
  <1>1. Init => Hold!Init
    BY NoEntryFields DEF Init, Fresh, Hold!Init, phase, hold, Running, InBody, InFinally, Body,
                         Holding, Releasing, InHand
  <1>2. HoldInv => TypeInv
    BY DEF HoldInv
  <1>3. KindSaid /\ TypeInv /\ TypeInv' /\ [Next]_vars => KindSaid'
    BY KindStep
  <1>4. QED
    BY <1>1, <1>2, <1>3, InitKind, StepRefines, ReleaseAlways, PTL DEF Spec, HoldSpec, Hold!Spec

=============================================================================
