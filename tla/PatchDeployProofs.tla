--------------------------- MODULE PatchDeployProofs ---------------------------
(* What holds of every deployment run, whatever the applications, the steps
   and the flags.                                                            *)
EXTENDS PatchDeployInvariant, TLAPS

(* The steps are a sequence, so their positions are 1..Len(Steps).           *)
LEMMA StepsDomain == DOMAIN Steps = 1..Len(Steps) /\ Len(Steps) \in Nat /\ Len(Steps) > 0
  BY DeployAssumption DEF DeployAssumption

(* Every way of writing on an entry gives an entry.                          *)
LEMMA EntryTypes ==
    /\ NoEntry \in Entries /\ Unread \in Signatures
    /\ \A e \in Entries :
          /\ \A o \in Outcomes : Noted(e, o) \in Entries
          /\ \A s \in Statuses : Before(e, s) \in Entries
          /\ \A g \in Signatures : Signed(e, g) \in Entries
          /\ \A h \in Holders : Prior(e, h) \in Entries
          /\ \A k \in {"none", "status", "app", "pages"} : Held(e, k) \in Entries
  <1>1. NoEntry \in Entries /\ Unread \in Signatures
    BY DEF NoEntry, Entries, Outcomes, Statuses, Holders, Signatures, Unread
  <1>2. ASSUME NEW e \in Entries
        PROVE  /\ \A o \in Outcomes : Noted(e, o) \in Entries
               /\ \A s \in Statuses : Before(e, s) \in Entries
               /\ \A g \in Signatures : Signed(e, g) \in Entries
               /\ \A h \in Holders : Prior(e, h) \in Entries
    BY DEF Entries, Noted, Before, Signed, Prior
  <1>3. ASSUME NEW e \in Entries, NEW k \in {"none", "status", "app", "pages"}
        PROVE  Held(e, k) \in Entries
    BY DEF Entries, Held, Outcomes
  <1>4. QED
    BY <1>1, <1>2, <1>3

(* A checksum of the target is a signature.                                  *)
LEMMA ChecksumType == TargetTypeOK => \A a \in Apps : Checksum(a) \in Signatures
  BY DEF TargetTypeOK, Checksum, Signatures

(* Counting a fault keeps the count a number.                                *)
LEMMA FaultType == TypeOK /\ (Fault \/ NoFault) => faults' \in Nat
  <1> SUFFICES ASSUME TypeOK, Fault \/ NoFault PROVE faults' \in Nat
    OBVIOUS
  <1>1. faults \in Nat
    BY DEF TypeOK
  <1>2. QED
    BY <1>1 DEF Fault, NoFault

(* The initial states are well typed.                                        *)
LEMMA InitType == Init => TypeInv
  <1> SUFFICES ASSUME Init PROVE TypeInv
    OBVIOUS
  <1>1. TargetTypeOK
    BY DEF Init, TargetInit, TargetTypeOK, Contents, Holders, PageLocks, Statuses, TargetAssumption
  <1>2. cur \in Apps /\ cfg \in ConfigSpace
    BY DeployAssumption DEF Init, DeployAssumption
  <1>3. recorded \in [Apps -> Signatures]
    BY <1>1 DEF Init, Checksum, Signatures, TargetTypeOK
  <1>4. found \in [Apps -> [status : Statuses, lock : Holders, pages : PageLocks]]
    BY <1>1 DEF Init, Snapshot, TargetTypeOK
  <1>5. NoEntry \in Entries /\ Unread \in Signatures
    BY DEF NoEntry, Entries, Outcomes, Statuses, Holders, Signatures
  <1>6. /\ pend \in Entries /\ locks \in [Apps -> Entries] /\ released \in [Apps -> Entries]
        /\ gate \in [Apps -> Signatures]
    BY <1>5 DEF Init, Fresh
  <1>7. /\ rows \in [DOMAIN Steps -> RowStates]
        /\ file \in [Apps -> Copies] /\ kept \in [Apps -> Copies \cup {"unset"}]
        /\ verdict \in [Apps -> {"unset", "passed", "failed"}]
        /\ reverts \in [Apps -> {"unset", "RESTORED", "FAILED", "SKIPPED"}]
    BY DEF Init, Fresh, Nothing, Copies, RowStates
  <1>8. pc = "idle" /\ pos = 1
    BY DEF Init
  <1>10. pc \in PCs
    BY <1>8 DEF PCs
  <1>11. pos \in 1..(Len(Steps) + 1)
    BY <1>8, StepsDomain
  <1>9. QED
    BY <1>1, <1>2, <1>3, <1>4, <1>6, <1>7, <1>8, <1>10, <1>11 DEF Init, TypeInv, TypeOK

(* Preparing an application keeps every variable in its type.                *)
LEMMA PrepareType == TypeInv /\ Prepare => TypeInv'
  <1> SUFFICES ASSUME TypeInv, Prepare PROVE TypeInv'
    OBVIOUS
  <1>0. TypeOK /\ TargetTypeOK
    BY DEF TypeInv, TypeOK
  <1>1. CASE RefuseBeforeLocks
    BY <1>1 DEF TypeInv, TypeOK, TargetTypeOK, RefuseBeforeLocks, targetVars, PCs, loopVars, history
  <1>2. ASSUME NEW a \in Apps, NextApp(a) PROVE TypeInv'
    <2>1. pc' \in PCs /\ pc' \notin {"import", "revert"} /\ cur' \in Apps
          /\ todo' \subseteq Apps /\ pend' \in Entries
      BY <1>2, EntryTypes DEF NextApp, PCs, Body, Holding, Remaining, TypeInv, TypeOK
    <2>2. QED
      BY <1>2, <2>1 DEF TypeInv, TypeOK, TargetTypeOK, NextApp, targetVars, loopVars, history
  <1>3. CASE ReadStatus
    <2>1. pc' \in PCs /\ pc' \notin {"import", "revert"}
      BY <1>3 DEF ReadStatus, PCs, Body, Holding
    <2>2. pend' \in Entries
      <3>1. pend \in Entries /\ status[cur] \in Statuses
        BY <1>0 DEF TypeOK, TargetTypeOK
      <3>2. pend' \in {Noted(pend, "SKIPPED"), Noted(pend, "FAILED"), Before(pend, status[cur])}
        BY <1>3 DEF ReadStatus
      <3>3. QED
        BY <3>1, <3>2, EntryTypes DEF Outcomes
    <2>3. faults' \in Nat
      BY <1>0, <1>3, FaultType DEF ReadStatus
    <2>4. QED
      BY <1>3, <2>1, <2>2, <2>3
      DEF TypeInv, TypeOK, TargetTypeOK, ReadStatus, targetVars, loopVars, history
  <1>4. CASE ReadSignature
    <2>1. pc' \in PCs /\ pc' \notin {"import", "revert"}
      BY <1>4 DEF ReadSignature, PCs, Body, Holding
    <2>2. pend' \in Entries
      <3>1. pend \in Entries /\ Checksum(cur) \in Signatures
        BY <1>0, ChecksumType DEF TypeOK
      <3>2. pend' \in {Signed(pend, Checksum(cur)), Signed(pend, Unread)}
        BY <1>4 DEF ReadSignature
      <3>3. QED
        BY <3>1, <3>2, EntryTypes
    <2>3. faults' \in Nat
      BY <1>0, <1>4, FaultType DEF ReadSignature
    <2>4. QED
      BY <1>4, <2>1, <2>2, <2>3
      DEF TypeInv, TypeOK, TargetTypeOK, ReadSignature, targetVars, loopVars, history
  <1>5. CASE ProbeRelease
    <2>1. pc' \in PCs /\ pc' \notin {"import", "revert"}
      BY <1>5 DEF ProbeRelease, PCs, Body, Holding
    <2>2. faults' \in Nat
      BY <1>0, <1>5, FaultType DEF ProbeRelease
    <2>3. QED
      BY <1>5, <2>1, <2>2
      DEF TypeInv, TypeOK, TargetTypeOK, ProbeRelease, targetVars, loopVars, history
  <1>6. CASE ReadPrior
    <2>1. pc' \in PCs /\ pc' \notin {"import", "revert"}
          /\ outcome' \in {"unset", "SUCCESS", "ERROR", "RAISED"}
      BY <1>0, <1>6 DEF ReadPrior, Another, PCs, Body, Holding, TypeOK
    <2>2. pend' \in Entries
      BY <1>0, <1>6, EntryTypes DEF ReadPrior, Another, TypeOK, TargetTypeOK, Holders
    <2>3. faults' \in Nat
      BY <1>0, <1>6, FaultType DEF ReadPrior
    <2>4. QED
      BY <1>6, <2>1, <2>2, <2>3
      DEF TypeInv, TypeOK, TargetTypeOK, ReadPrior, targetVars, loopVars, history
  <1>7. CASE LockApp
    <2>1. pc' \in PCs /\ pc' \notin {"import", "revert"}
          /\ outcome' \in {"unset", "SUCCESS", "ERROR", "RAISED"}
      BY <1>0, <1>7 DEF LockApp, Another, PCs, Body, Holding, TypeOK
    <2>2. pend' \in Entries
      BY <1>0, <1>7, EntryTypes DEF LockApp, Another, TypeOK, Holders
    <2>3. faults' \in Nat
      BY <1>0, <1>7, FaultType DEF LockApp
    <2>4. appLock' \in [Apps -> Holders] /\ spoiled' \subseteq Apps
      BY <1>0, <1>7 DEF LockApp, Spoil, TypeOK, TargetTypeOK, Holders
    <2>5. QED
      BY <1>7, <2>1, <2>2, <2>3, <2>4 DEF TypeInv, TypeOK, TargetTypeOK, LockApp, loopVars, history
  <1>8. CASE LockPages
    <2>1. pc' \in PCs /\ pc' \notin {"import", "revert"}
      BY <1>8 DEF LockPages, PCs, Body, Holding
    <2>2. pend' \in Entries
      BY <1>0, <1>8, EntryTypes DEF LockPages, TypeOK
    <2>3. faults' \in Nat
      BY <1>0, <1>8, FaultType DEF LockPages
    <2>4. pageLock' \in [Apps -> PageLocks] /\ spoiled' \subseteq Apps
      <3>1. pageLock' \in {pageLock} \cup {[pageLock EXCEPT ![cur] = held] : held \in PageLocks}
        BY <1>8 DEF LockPages, PageLocks
      <3>2. spoiled' = spoiled \/ spoiled' = spoiled \cup {cur}
        BY <1>8 DEF LockPages, Spoil
      <3>3. QED
        BY <1>0, <3>1, <3>2 DEF TypeOK, TargetTypeOK
    <2>5. QED
      BY <1>8, <2>1, <2>2, <2>3, <2>4
      DEF TypeInv, TypeOK, TargetTypeOK, LockPages, loopVars, history
  <1>9. CASE SetRunOnly
    <2>1. pc' \in PCs /\ pc' \notin {"import", "revert"}
      BY <1>9 DEF SetRunOnly, PCs, Body, Holding
    <2>2. pend' \in Entries
      BY <1>0, <1>9, EntryTypes DEF SetRunOnly, TypeOK, Outcomes
    <2>3. faults' \in Nat
      BY <1>0, <1>9, FaultType DEF SetRunOnly
    <2>4. status' \in [Apps -> Statuses] /\ spoiled' \subseteq Apps
      BY <1>0, <1>9 DEF SetRunOnly, RunOnly, Spoil, TypeOK, TargetTypeOK, Statuses
    <2>5. QED
      BY <1>9, <2>1, <2>2, <2>3, <2>4
      DEF TypeInv, TypeOK, TargetTypeOK, SetRunOnly, loopVars, history
  <1>10. CASE RecordLock
    <2>1. pc' \in PCs /\ pc' \notin {"import", "revert"} /\ locks' \in [Apps -> Entries]
      BY <1>0, <1>10 DEF RecordLock, PCs, Body, Holding, TypeOK
    <2>2. QED
      BY <1>10, <2>1 DEF TypeInv, TypeOK, TargetTypeOK, RecordLock, targetVars, loopVars, history
  <1>11. CASE PassGate
    <2>1. LiveSignature \in Signatures
      BY <1>0, ChecksumType DEF LiveSignature, TypeOK, Entries
    <2>2. pc' \in PCs /\ pc' \notin {"import", "revert"} /\ gate' \in [Apps -> Signatures]
      BY <1>0, <1>11, <2>1 DEF PassGate, PCs, Body, Holding, TypeOK
    <2>3. QED
      BY <1>11, <2>2 DEF TypeInv, TypeOK, TargetTypeOK, PassGate, targetVars, loopVars, history
  <1>12. CASE RefuseAtGate
    BY <1>12 DEF TypeInv, TypeOK, TargetTypeOK, RefuseAtGate, targetVars, PCs, loopVars, history
  <1>13. QED
    BY <1>1, <1>2, <1>3, <1>4, <1>5, <1>6, <1>7, <1>8, <1>9, <1>10, <1>11, <1>12 DEF Prepare

(* A row of the deploy loop leaves the position and the rows well typed.      *)
LEMMA RowType ==
    ASSUME TypeInv, pos \in DOMAIN Steps, NEW state \in RowStates, FinishRow(state)
    PROVE  /\ pos' \in 1..(Len(Steps) + 1) /\ rows' \in [DOMAIN Steps -> RowStates]
           /\ pc' \in {"post", "steps"}
  <1>1. rows \in [DOMAIN Steps -> RowStates] /\ cfg \in ConfigSpace
    BY DEF TypeInv, TypeOK
  <1>2. pos' \in 1..(Len(Steps) + 1)
    <2>1. pos' = Len(Steps) + 1 \/ pos' = pos + 1
      BY DEF FinishRow, After
    <2>2. QED
      BY <2>1, StepsDomain
  <1>3. rows' \in [DOMAIN Steps -> RowStates]
    BY <1>1 DEF FinishRow, RowStates
  <1>4. QED
    BY <1>2, <1>3 DEF FinishRow

(* An import writes states of an application.                                *)
LEMMA OverwriteType ==
    ASSUME TargetTypeOK, NEW a \in Apps, NEW c \in Contents, Overwrite(a, c)
    PROVE  /\ content' \in [Apps -> Contents] /\ status' \in [Apps -> Statuses]
           /\ appLock' \in [Apps -> Holders] /\ pageLock' \in [Apps -> PageLocks]
  BY DEF TargetTypeOK, Overwrite, Statuses, Holders, PageLocks

(* The deploy loop keeps every variable in its type.                         *)
LEMMA LoopType == TypeInv /\ Loop => TypeInv'
  <1> SUFFICES ASSUME TypeInv, Loop PROVE TypeInv'
    OBVIOUS
  <1>0. TypeOK /\ TargetTypeOK
    BY DEF TypeInv, TypeOK
  <1>1. CASE RunScript
    <2>1. pos \in DOMAIN Steps
      BY <1>1 DEF RunScript
    <2>2. status' \in [Apps -> Statuses]
      <3>1. status' = status \/ TerminalBlock(Steps[pos].app)
        BY <1>1 DEF RunScript
      <3>2. QED
        BY <1>0, <3>1 DEF TerminalBlock, TypeOK, TargetTypeOK, ConfigSpace
    <2>3. faults' \in Nat
      BY <1>0, <1>1, FaultType DEF RunScript
    <2>4. outcome' \in {"unset", "SUCCESS", "ERROR", "RAISED"}
      BY <1>0, <1>1 DEF RunScript, TypeOK
    <2>5. /\ pos' \in 1..(Len(Steps) + 1) /\ rows' \in [DOMAIN Steps -> RowStates]
          /\ pc' \in {"post", "steps", "finally"}
      <3>1. CASE FinishRow("SUCCESS") \/ FinishRow("ERROR")
        BY <2>1, <3>1, RowType DEF RowStates
      <3>2. CASE pc' = "finally" /\ UNCHANGED <<pos, rows>>
        BY <1>0, <3>2 DEF TypeOK
      <3>3. QED
        BY <1>1, <3>1, <3>2 DEF RunScript
    <2>6. QED
      BY <1>1, <2>2, <2>3, <2>4, <2>5
      DEF TypeInv, TypeOK, TargetTypeOK, RunScript, PCs, Body, prepared, postVars, history
  <1>2. CASE SkipImport
    <2>1. /\ pos' \in 1..(Len(Steps) + 1) /\ rows' \in [DOMAIN Steps -> RowStates]
          /\ pc' \in {"post", "steps"}
      BY <1>2, RowType DEF SkipImport, AtImport, RowStates
    <2>2. QED
      BY <1>2, <2>1 DEF TypeInv, TypeOK, TargetTypeOK, SkipImport, targetVars, PCs, Body,
                        prepared, postVars, history
  <1>3. CASE BeginImport
    <2>1. pos \in DOMAIN Steps /\ Steps[pos].app \in Apps
      BY <1>3, DeployAssumption DEF BeginImport, AtImport, DeployAssumption
    <2>2. KeptCopy(Steps[pos].app) \in Copies /\ Nothing \in Copies
      BY <1>0, <2>1 DEF KeptCopy, Copies, TypeOK, TargetTypeOK
    <2>3. file' \in [Apps -> Copies] /\ kept' \in [Apps -> Copies \cup {"unset"}]
      <3>1. file' = file \/ file' = [file EXCEPT ![Steps[pos].app] = KeptCopy(Steps[pos].app)]
        BY <1>3 DEF BeginImport
      <3>2. \/ kept' = kept
            \/ \E copy \in Copies : kept' = [kept EXCEPT ![Steps[pos].app] = copy]
        BY <1>3, <2>2 DEF BeginImport
      <3>3. QED
        <4>1. file \in [Apps -> Copies] /\ kept \in [Apps -> Copies \cup {"unset"}]
          BY <1>0 DEF TypeOK
        <4>2. file' \in [Apps -> Copies]
          BY <2>1, <2>2, <3>1, <4>1
        <4>3. kept' \in [Apps -> Copies \cup {"unset"}]
          BY <2>1, <3>2, <4>1
        <4>4. QED
          BY <4>2, <4>3
    <2>4. faults' \in Nat
      BY <1>0, <1>3, FaultType DEF BeginImport
    <2>5. cur' \in Apps /\ pc' = "import" /\ pos' = pos
      BY <1>3, <2>1 DEF BeginImport
    <2>6. QED
      BY <1>3, <2>1, <2>3, <2>4, <2>5
      DEF TypeInv, TypeOK, TargetTypeOK, BeginImport, targetVars, PCs, Body,
          prepared, postVars, history
  <1>4. CASE Import
    <2>1. pos \in DOMAIN Steps /\ cur \in Apps
      BY <1>4 DEF Import, TypeInv, TypeOK
    <2>2. /\ content' \in [Apps -> Contents] /\ status' \in [Apps -> Statuses]
          /\ appLock' \in [Apps -> Holders] /\ pageLock' \in [Apps -> PageLocks]
      <3>1. \/ \E c \in Contents : Overwrite(cur, c)
            \/ UNCHANGED <<status, content, appLock, pageLock>>
        BY <1>4 DEF Import, Contents
      <3>2. QED
        BY <1>0, <2>1, <3>1, OverwriteType DEF TargetTypeOK
    <2>3. faults' \in Nat
      BY <1>0, <1>4, FaultType DEF Import
    <2>4. outcome' \in {"unset", "SUCCESS", "ERROR", "RAISED"} /\ lost' \subseteq Apps
      BY <1>0, <1>4, <2>1 DEF Import, TypeOK
    <2>5. /\ pos' \in 1..(Len(Steps) + 1) /\ rows' \in [DOMAIN Steps -> RowStates]
          /\ pc' \in {"post", "steps", "finally"}
      <3>1. CASE FinishRow("SUCCESS") \/ FinishRow("ERROR")
        BY <2>1, <3>1, RowType DEF RowStates
      <3>2. CASE pc' = "finally" /\ UNCHANGED <<pos, rows>>
        BY <1>0, <3>2 DEF TypeOK
      <3>3. QED
        BY <1>4, <3>1, <3>2 DEF Import
    <2>6. QED
      BY <1>4, <2>2, <2>3, <2>4, <2>5
      DEF TypeInv, TypeOK, TargetTypeOK, Import, PCs, Body, prepared, postVars
  <1>5. QED
    BY <1>1, <1>2, <1>3, <1>4 DEF Loop

(* The steps after the loop keep every variable in its type.                 *)
LEMMA VerifyType == TypeInv /\ Verify => TypeInv'
  <1> SUFFICES ASSUME TypeInv, Verify PROVE TypeInv'
    OBVIOUS
  <1>0. TypeOK /\ TargetTypeOK /\ Ledger \subseteq Apps /\ Landed \subseteq Apps
    BY DEF TypeInv, TypeOK, Ledger, Landed
  <1>1. CASE PostDeploy
    <2>1. scanq' \subseteq Apps /\ rel' \subseteq Apps /\ pc' \in PCs
          /\ pc' \notin {"import", "revert"}
      BY <1>0, <1>1 DEF PostDeploy, Uncovered, PCs, Releasing
    <2>2. QED
      BY <1>1, <2>1 DEF TypeInv, TypeOK, TargetTypeOK, PostDeploy, targetVars, afterLoop, history
  <1>2. ASSUME NEW a \in Apps, Scan(a) PROVE TypeInv'
    <2>1. pc' \in PCs /\ pc' # "import" /\ (pc' = "revert" => kept'[cur'] # "unset")
      BY <1>2 DEF Scan, PCs, Body, Releasing, afterLoop
    <2>2. /\ scanq' \subseteq Apps /\ rel' \subseteq Apps /\ cur' \in Apps
          /\ ret' \in {"scan", "done"}
          /\ verdict' \in [Apps -> {"unset", "passed", "failed"}]
      BY <1>0, <1>2 DEF Scan, TypeOK
    <2>3. QED
      BY <1>2, <2>1, <2>2 DEF TypeInv, TypeOK, TargetTypeOK, Scan, targetVars, afterLoop, history
  <1>3. CASE Revert
    <2>1. /\ content' \in [Apps -> Contents] /\ status' \in [Apps -> Statuses]
          /\ appLock' \in [Apps -> Holders] /\ pageLock' \in [Apps -> PageLocks]
      <3>1. \/ UNCHANGED <<status, content, appLock, pageLock>>
            \/ \E c \in Contents : Overwrite(cur, c)
        <4>1. CASE kept[cur] = Nothing
          BY <1>3, <4>1 DEF Revert
        <4>2. CASE kept[cur] # Nothing /\ kept[cur] # "unset"
          <5>1. kept[cur] \in Contents /\ "half" \in Contents
            BY <1>0, <4>2 DEF TypeOK, Copies, Contents
          <5>2. QED
            BY <1>3, <4>2, <5>1 DEF Revert
        <4>3. QED
          BY <1>3, <4>1, <4>2 DEF Revert, TypeInv
      <3>2. QED
        BY <1>0, <3>1, OverwriteType DEF TypeOK, TargetTypeOK
    <2>2. faults' \in Nat
      BY <1>0, <1>3, FaultType DEF Revert
    <2>3. /\ pc' \in PCs /\ pc' \notin {"import", "revert"} /\ rel' \subseteq Apps
          /\ reverts' \in [Apps -> {"unset", "RESTORED", "FAILED", "SKIPPED"}]
      BY <1>0, <1>3 DEF Revert, PCs, Releasing, TypeOK
    <2>4. QED
      BY <1>3, <2>1, <2>2, <2>3 DEF TypeInv, TypeOK, TargetTypeOK, Revert, afterLoop, history
  <1>4. CASE EndBody
    BY <1>4
    DEF TypeInv, TypeOK, TargetTypeOK, EndBody, RunStatus, PCs, targetVars, afterLoop, history
  <1>5. QED
    BY <1>1, <1>2, <1>3, <1>4 DEF Verify

(* Releasing keeps every variable in its type.                               *)
LEMMA ReleaseType == TypeInv /\ Release => TypeInv'
  <1> SUFFICES ASSUME TypeInv, Release PROVE TypeInv'
    OBVIOUS
  <1>0. TypeOK /\ TargetTypeOK /\ Ledger \subseteq Apps
    BY DEF TypeInv, TypeOK, Ledger
  <1>1. CASE Finally
    <2>1. rel' \subseteq Apps /\ pc' \in PCs
          /\ pc' \notin {"import", "revert"}
      BY <1>0, <1>1 DEF Finally, OnExit, PCs, Releasing
    <2>2. QED
      BY <1>1, <2>1 DEF TypeInv, TypeOK, TargetTypeOK, Finally, targetVars, afterLoop, history
  <1>2. CASE NextRelease
    <2>1. /\ pc' \in PCs /\ pc' \notin {"import", "revert"} /\ cur' \in Apps /\ pend' \in Entries
          /\ rel' \subseteq Apps
      <3>1. CASE rel = {}
        BY <1>0, <1>2, <3>1 DEF NextRelease, PCs, Body, TypeOK
      <3>2. ASSUME NEW a \in rel, cur' = a, pend' = locks[a], pc' = "rel_status", rel' = rel
            PROVE  /\ pc' \in PCs /\ pc' \notin {"import", "revert"} /\ cur' \in Apps
                   /\ pend' \in Entries /\ rel' \subseteq Apps
        BY <1>0, <3>2 DEF PCs, Releasing, TypeOK
      <3>3. QED
        BY <1>2, <3>1, <3>2 DEF NextRelease
    <2>2. QED
      BY <1>2, <2>1 DEF TypeInv, TypeOK, TargetTypeOK, NextRelease, targetVars, afterLoop, history
  <1>3. CASE ReleaseStatus
    <2>1. pend \in Entries /\ cur \in Apps
      BY <1>0 DEF TypeOK
    <2>2. FinalStatus(pend, status[cur]) \in Statuses
      BY <1>0, <2>1 DEF FinalStatus, TypeOK, TargetTypeOK, Entries, Statuses
    <2>3. status' \in [Apps -> Statuses]
      BY <1>0, <1>3, <2>1, <2>2 DEF ReleaseStatus, TypeOK, TargetTypeOK
    <2>4. pend' \in Entries
      BY <1>3, <2>1, EntryTypes DEF ReleaseStatus, Outcomes
    <2>5. pc' \in PCs /\ pc' \notin {"import", "revert"} /\ spoiled' \subseteq Apps
      BY <1>0, <1>3 DEF ReleaseStatus, PCs, Releasing, Spoil, TypeOK
    <2>6. faults' \in Nat
      BY <1>0, <1>3, FaultType DEF ReleaseStatus
    <2>7. QED
      BY <1>3, <2>3, <2>4, <2>5, <2>6
      DEF TypeInv, TypeOK, TargetTypeOK, ReleaseStatus, afterLoop, history
  <1>4. CASE ReleaseLock
    <2>1. pend \in Entries /\ cur \in Apps
      BY <1>0 DEF TypeOK
    <2>2. HandedOver(pend) \in Holders
      BY <2>1 DEF HandedOver, Entries
    <2>3. appLock' \in [Apps -> Holders] /\ pageLock' \in [Apps -> PageLocks]
      BY <1>0, <1>4, <2>1, <2>2 DEF ReleaseLock, TypeOK, TargetTypeOK, PageLocks
    <2>4. pend' \in Entries
      BY <1>4, <2>1, EntryTypes DEF ReleaseLock, Outcomes
    <2>5. pc' \in PCs /\ pc' \notin {"import", "revert"} /\ spoiled' \subseteq Apps
      BY <1>0, <1>4 DEF ReleaseLock, PCs, Releasing, Spoil, TypeOK
    <2>6. faults' \in Nat
      BY <1>0, <1>4, FaultType DEF ReleaseLock
    <2>7. QED
      BY <1>4, <2>3, <2>4, <2>5, <2>6
      DEF TypeInv, TypeOK, TargetTypeOK, ReleaseLock, afterLoop, history
  <1>5. CASE RecordRelease
    <2>1. /\ pc' \in PCs /\ pc' \notin {"import", "revert"} /\ locks' \in [Apps -> Entries]
          /\ released' \in [Apps -> Entries] /\ rel' \subseteq Apps
      BY <1>0, <1>5, EntryTypes DEF RecordRelease, PCs, Releasing, TypeOK
    <2>2. QED
      BY <1>5, <2>1 DEF TypeInv, TypeOK, TargetTypeOK, RecordRelease, targetVars, afterLoop, history
  <1>6. QED
    BY <1>1, <1>2, <1>3, <1>4, <1>5 DEF Release

(* A new run starts well typed.                                              *)
LEMMA StartType == TypeInv /\ StartRun => TypeInv'
  <1> SUFFICES ASSUME TypeInv, StartRun PROVE TypeInv'
    OBVIOUS
  <1>0. TypeOK /\ TargetTypeOK
    BY DEF TypeInv, TypeOK
  <1>1. cfg' \in ConfigSpace /\ runs' \in Nat
    <2>1. cfg' \in Configs /\ runs' = runs + 1
      BY DEF StartRun
    <2>2. Configs \subseteq ConfigSpace
      BY DeployAssumption DEF DeployAssumption
    <2>3. runs \in Nat
      BY DEF TypeInv, TypeOK
    <2>4. QED
      BY <2>1, <2>2, <2>3
  <1>2. Imported \subseteq Apps
    BY DeployAssumption DEF DeployAssumption, Imported
  <1>3. /\ pend' \in Entries /\ locks' \in [Apps -> Entries] /\ released' \in [Apps -> Entries]
        /\ gate' \in [Apps -> Signatures]
    BY EntryTypes DEF StartRun, Fresh
  <1>4. /\ rows' \in [DOMAIN Steps -> RowStates]
        /\ kept' \in [Apps -> Copies \cup {"unset"}]
        /\ verdict' \in [Apps -> {"unset", "passed", "failed"}]
        /\ reverts' \in [Apps -> {"unset", "RESTORED", "FAILED", "SKIPPED"}]
    BY DEF StartRun, Fresh, RowStates
  <1>5. found' \in [Apps -> [status : Statuses, lock : Holders, pages : PageLocks]]
    BY <1>0 DEF StartRun, Snapshot, TargetTypeOK
  <1>6. pc' \in PCs /\ pc' \notin {"import", "revert"}
    BY DEF StartRun, PCs, Body
  <1>7. pos' \in 1..(Len(Steps) + 1)
    <2>1. pos' = 1
      BY DEF StartRun
    <2>2. QED
      BY <2>1, StepsDomain
  <1>8. QED
    BY <1>1, <1>2, <1>3, <1>4, <1>5, <1>6, <1>7
    DEF StartRun, TypeInv, TypeOK, TargetTypeOK, targetVars

(* The rest of the environment: re-exports, faults and developers.            *)
LEMMA EnvironmentType ==
    TypeInv /\ ((\E a \in Apps : ReExport(a)) \/ Interrupt \/ Kill \/ DeveloperStep) => TypeInv'
  <1> SUFFICES ASSUME TypeInv,
                      (\E a \in Apps : ReExport(a)) \/ Interrupt \/ Kill \/ DeveloperStep
               PROVE  TypeInv'
    OBVIOUS
  <1>0. TypeOK /\ TargetTypeOK
    BY DEF TypeInv, TypeOK
  <1>1. ASSUME NEW a \in Apps, ReExport(a) PROVE TypeInv'
    <2>1. recorded' \in [Apps -> Signatures] /\ UNCHANGED <<pc, pos, kept, cur>>
      BY <1>0, <1>1, ChecksumType DEF ReExport, TypeOK
    <2>2. QED
      BY <1>1, <2>1 DEF TypeInv, TypeOK, TargetTypeOK, ReExport, targetVars, ghostVars
  <1>2. CASE Interrupt
    <2>1. pc' \in PCs /\ pc' \notin {"import", "revert"} /\ spoiled' \subseteq Apps
      BY <1>0, <1>2 DEF Interrupt, PCs, TypeOK
    <2>2. faults' \in Nat
      BY <1>0, <1>2, FaultType DEF Interrupt
    <2>3. QED
      BY <1>2, <2>1, <2>2 DEF TypeInv, TypeOK, TargetTypeOK, Interrupt, targetVars, history
  <1>3. CASE Kill
    <2>1. pc' \in PCs /\ pc' \notin {"import", "revert"} /\ spoiled' \subseteq Apps
      BY <1>3 DEF Kill, PCs
    <2>2. faults' \in Nat
      BY <1>0, <1>3, FaultType DEF Kill
    <2>3. QED
      BY <1>3, <2>1, <2>2 DEF TypeInv, TypeOK, TargetTypeOK, Kill, targetVars, history
  <1>4. CASE DeveloperStep
    <2>1. TargetTypeOK'
      <3>1. PICK a \in Apps : \/ OpenBuilder(a) \/ CloseBuilder(a) \/ Save(a)
                              \/ OtherLocks(a) \/ OtherUnlocks(a)
        BY <1>4, TargetAssumption DEF DeveloperStep, Developer, TargetAssumption
      <3>2. CASE OpenBuilder(a) \/ CloseBuilder(a)
        BY <1>0, <3>2 DEF OpenBuilder, CloseBuilder, TargetTypeOK
      <3>3. CASE Save(a)
        BY <1>0, <3>3 DEF Save, TargetTypeOK, Contents
      <3>4. CASE OtherLocks(a) \/ OtherUnlocks(a)
        BY <1>0, <3>4 DEF OtherLocks, OtherUnlocks, TargetTypeOK, Holders
      <3>5. QED
        BY <3>1, <3>2, <3>3, <3>4
    <2>2. gap' \subseteq Apps
      BY <1>0, <1>4 DEF DeveloperStep, TypeOK
    <2>3. QED
      BY <1>4, <2>1, <2>2 DEF TypeInv, TypeOK, DeveloperStep, runVars
  <1>5. QED
    BY <1>1, <1>2, <1>3, <1>4

(* Every step keeps every variable in its type.                              *)
LEMMA TypeStep == TypeInv /\ [Next]_vars => TypeInv'
  <1> SUFFICES ASSUME TypeInv, [Next]_vars PROVE TypeInv'
    OBVIOUS
  <1>1. CASE Next
    BY <1>1, PrepareType, LoopType, VerifyType, ReleaseType, StartType, EnvironmentType
    DEF Next, Tool
  <1>2. CASE UNCHANGED vars
    BY <1>2 DEF TypeInv, TypeOK, TargetTypeOK, vars, targetVars, runVars, ghostVars
  <1>3. QED
    BY <1>1, <1>2

(* Type correctness of every run: TypeOK, the invariant of the run Deploy.    *)
THEOREM TypeCorrect == Spec => []TypeOK
  <1>1. TypeInv => TypeOK
    BY DEF TypeInv
  <1>2. QED
    BY InitType, TypeStep, <1>1, PTL DEF Spec

(* Finishing a row of the run keeps its rows in order, as long as NOT RUN is
   behind an error and an import that ran is not.                            *)
LEMMA RowStep ==
    ASSUME RowInv, pos \in DOMAIN Steps, NEW state \in {"SUCCESS", "ERROR", "NOT_RUN"},
           FinishRow(state), state = "NOT_RUN" => Behind,
           pos \in ImportRows /\ state # "NOT_RUN" => ~Behind
    PROVE  InOrder(Len(Steps), rows', pos') /\ NoneBehind(Len(Steps), ImportRows, rows')
  <1> DEFINE n == Len(Steps)
             stop == state = "ERROR" /\ ~cfg.cont
  <1>1. n \in Nat /\ pos \in 1..n /\ stop \in BOOLEAN /\ (stop => state = "ERROR")
    BY StepsDomain
  <1>2. \A i \in 1..n : rows[i] \in {"unset", "SUCCESS", "ERROR", "NOT_RUN"}
    BY StepsDomain DEF RowInv, TypeInv, TypeOK, RowStates
  <1>3. InOrder(n, rows, pos) /\ NoneBehind(n, ImportRows, rows)
    BY DEF RowInv
  <1>4. Behind <=> \E j \in 1..n : rows[j] = "ERROR"
    BY StepsDomain DEF Behind
  <1>5. \A i \in 1..n : rows'[i] = (IF i = pos THEN state
                                    ELSE IF stop /\ i > pos THEN "NOT_RUN" ELSE rows[i])
    BY StepsDomain DEF FinishRow
  <1>6. pos' = (IF stop THEN n + 1 ELSE pos + 1)
    BY DEF FinishRow, After
  <1> HIDE DEF n, stop
  <1> USE <1>1
  <1>7. \A i \in 1..n : i < pos => rows'[i] = rows[i] /\ rows[i] # "unset"
    BY <1>3, <1>5 DEF InOrder
  <1>8. \A i \in 1..n : i > pos => rows'[i] = (IF stop THEN "NOT_RUN" ELSE "unset")
    BY <1>3, <1>5 DEF InOrder
  <1>9. rows'[pos] = state
    BY <1>5
  <1>10. ASSUME NEW i \in 1..n PROVE i < pos' <=> rows'[i] # "unset"
    <2>1. CASE i < pos
      BY <1>6, <1>7, <2>1
    <2>2. CASE i = pos
      BY <1>6, <1>9, <2>2
    <2>3. CASE i > pos
      BY <1>6, <1>8, <2>3
    <2>4. QED
      BY <2>1, <2>2, <2>3
  <1>11. ASSUME NEW i \in 1..n, rows'[i] = "NOT_RUN"
        PROVE  \E j \in 1..n : j < i /\ rows'[j] = "ERROR"
    <2>1. CASE i < pos
      <3>1. PICK j \in 1..n : j < i /\ rows[j] = "ERROR"
        BY <1>3, <1>7, <1>11, <2>1 DEF InOrder
      <3>2. QED
        BY <1>7, <2>1, <3>1
    <2>2. CASE i = pos
      <3>1. PICK j \in 1..n : rows[j] = "ERROR"
        BY <1>4, <1>9, <1>11, <2>2
      <3>2. j < pos
        BY <1>3, <3>1 DEF InOrder
      <3>3. QED
        BY <1>7, <2>2, <3>1, <3>2
    <2>3. CASE i > pos
      BY <1>8, <1>9, <1>11, <2>3
    <2>4. QED
      BY <2>1, <2>2, <2>3
  <1>12. ASSUME NEW i \in 1..n, NEW j \in 1..n, i < j, j \in ImportRows,
                rows'[j] \in {"SUCCESS", "ERROR"}
         PROVE  rows'[i] = "SUCCESS"
    <2>1. CASE j < pos
      BY <1>3, <1>7, <1>12, <2>1 DEF NoneBehind
    <2>2. CASE j = pos
      <3>1. \A k \in 1..n : rows[k] # "ERROR"
        BY <1>4, <1>9, <1>12, <2>2
      <3>2. rows[i] # "NOT_RUN"
        BY <1>3, <3>1 DEF InOrder
      <3>3. QED
        BY <1>2, <1>7, <1>12, <2>2, <3>1, <3>2
    <2>3. CASE j > pos
      BY <1>8, <1>12, <2>3
    <2>4. QED
      BY <2>1, <2>2, <2>3
  <1>13. QED
    BY <1>10, <1>11, <1>12 DEF InOrder, NoneBehind, n

(* Outside the loop no row moves and no import begins.                        *)
LEMMA RowsStill ==
    ASSUME TypeInv,
           Prepare \/ Verify \/ Release \/ (\E a \in Apps : ReExport(a)) \/ Interrupt \/ Kill
           \/ DeveloperStep \/ UNCHANGED vars
    PROVE  UNCHANGED <<pos, rows>> /\ (pc' = "import" => UNCHANGED <<pc, cur>>)
  <1>1. ret \in {"scan", "done"}
    BY DEF TypeInv, TypeOK
  <1>2. CASE Prepare
    <2>1. CASE RefuseBeforeLocks \/ (\E a \in Apps : NextApp(a)) \/ ReadStatus \/ ReadSignature
      BY <2>1 DEF RefuseBeforeLocks, NextApp, ReadStatus, ReadSignature, loopVars
    <2>2. CASE ProbeRelease \/ ReadPrior \/ LockApp \/ LockPages
      BY <2>2 DEF ProbeRelease, ReadPrior, Another, LockApp, LockPages, loopVars
    <2>3. CASE SetRunOnly \/ RecordLock \/ PassGate \/ RefuseAtGate
      BY <2>3 DEF SetRunOnly, RecordLock, PassGate, RefuseAtGate, loopVars
    <2>4. QED
      BY <1>2, <2>1, <2>2, <2>3 DEF Prepare
  <1>3. CASE Verify
    BY <1>3 DEF Verify, PostDeploy, Scan, Revert, EndBody, afterLoop
  <1>4. CASE Release
    BY <1>1, <1>4
    DEF Release, Finally, NextRelease, ReleaseStatus, ReleaseLock, RecordRelease, afterLoop
  <1>5. CASE (\E a \in Apps : ReExport(a)) \/ Interrupt \/ Kill
    BY <1>5 DEF ReExport, Interrupt, Kill
  <1>6. CASE DeveloperStep \/ UNCHANGED vars
    BY <1>6 DEF DeveloperStep, vars, runVars
  <1>7. QED
    BY <1>2, <1>3, <1>4, <1>5, <1>6

(* Which rows have run and which are still to run is accounted for by the
   position of the loop, under -continue and past an error too: RowInv, the
   invariant of the run DeployKeys.                                           *)
THEOREM RowsAreAccounted == Spec => []RowInv
  <1>1. Init => RowInv
    <2> SUFFICES ASSUME Init PROVE RowInv
      OBVIOUS
    <2>1. TypeInv
      BY InitType
    <2>2. pos = 1 /\ rows = [i \in DOMAIN Steps |-> "unset"] /\ pc = "idle"
      BY DEF Init
    <2>3. \A i \in 1..Len(Steps) : ~(i < 1)
      BY StepsDomain
    <2>4. QED
      BY <2>1, <2>2, <2>3 DEF RowInv, InOrder, NoneBehind
  <1>2. RowInv /\ [Next]_vars => RowInv'
    <2> SUFFICES ASSUME RowInv, [Next]_vars PROVE RowInv'
      OBVIOUS
    <2>1. TypeInv /\ TypeInv'
      BY TypeStep DEF RowInv
    <2>2. CASE Loop
      <3>1. CASE RunScript
        <4>1. pos \in DOMAIN Steps /\ pos \notin ImportRows /\ pc' # "import"
          BY <3>1 DEF RunScript, FinishRow, ImportRows
        <4>2. CASE UNCHANGED <<pos, rows>>
          BY <2>1, <4>1, <4>2 DEF RowInv, InOrder, NoneBehind
        <4>3. CASE FinishRow("SUCCESS") \/ FinishRow("ERROR")
          BY <2>1, <4>1, <4>3, RowStep DEF RowInv
        <4>4. QED
          BY <3>1, <4>2, <4>3 DEF RunScript
      <3>2. CASE SkipImport
        <4>1. pos \in DOMAIN Steps /\ Behind /\ FinishRow("NOT_RUN") /\ pc' # "import"
          BY <3>2 DEF SkipImport, AtImport, FinishRow
        <4>2. QED
          BY <2>1, <4>1, RowStep DEF RowInv
      <3>3. CASE BeginImport
        BY <2>1, <3>3 DEF BeginImport, RowInv, InOrder, NoneBehind, AtImport, Behind
      <3>4. CASE Import
        <4>1. pos \in DOMAIN Steps /\ ~Behind /\ pc' # "import"
          BY <3>4 DEF Import, RowInv, AtImport, FinishRow
        <4>2. CASE UNCHANGED <<pos, rows>>
          BY <2>1, <4>1, <4>2 DEF RowInv, InOrder, NoneBehind
        <4>3. CASE FinishRow("SUCCESS") \/ FinishRow("ERROR")
          BY <2>1, <4>1, <4>3, RowStep DEF RowInv
        <4>4. QED
          BY <3>4, <4>2, <4>3 DEF Import
      <3>5. QED
        BY <2>2, <3>1, <3>2, <3>3, <3>4 DEF Loop
    <2>3. CASE StartRun
      <3>1. pos' = 1 /\ rows' = [i \in DOMAIN Steps |-> "unset"] /\ pc' # "import"
        BY <2>3 DEF StartRun
      <3>2. \A i \in 1..Len(Steps) : ~(i < 1)
        BY StepsDomain
      <3>3. QED
        BY <2>1, <3>1, <3>2 DEF RowInv, InOrder, NoneBehind
    <2>4. CASE UNCHANGED <<pos, rows>> /\ (pc' = "import" => UNCHANGED <<pc, cur>>)
      BY <2>1, <2>4 DEF RowInv, InOrder, NoneBehind, AtImport, Behind
    <2>5. QED
      BY <2>1, <2>2, <2>3, <2>4, RowsStill DEF Next, Tool
  <1>3. QED
    BY <1>1, <1>2, PTL DEF Spec

(* No tree is imported onto a schema a failed row left half deployed:
   NoImportBehindError, the invariant of the run DeployKeys.                 *)
THEOREM ImportsBehindNoError == Spec => []NoImportBehindError
  <1>1. RowInv => NoImportBehindError
    BY StepsDomain DEF RowInv, NoneBehind, ImportRows, NoImportBehindError
  <1>2. QED
    BY <1>1, RowsAreAccounted, PTL

(* The copy a revert would import, once kept, survives every later deploy:
   BackupKept, the action property of the run Redeploy.                       *)
THEOREM BackupStays == Spec => BackupKept
  <1> DEFINE Stays == \A a \in Apps : file[a] # Nothing => file'[a] = file[a]
  <1>1. TypeInv /\ TypeInv' /\ [Next]_vars => [Stays]_vars
    <2> SUFFICES ASSUME TypeInv, TypeInv', Next PROVE Stays
      OBVIOUS
    <2>1. CASE UNCHANGED file
      BY <2>1
    <2>2. CASE BeginImport
      <3>1. \/ file' = file
            \/ file' = [file EXCEPT ![Steps[pos].app] = KeptCopy(Steps[pos].app)]
        BY <2>2 DEF BeginImport
      <3>2. file \in [Apps -> Copies]
        BY DEF TypeInv, TypeOK
      <3>3. QED
        BY <3>1, <3>2 DEF KeptCopy
    <2>3. Prepare \/ Verify \/ Release => UNCHANGED file
      <3>1. Prepare => UNCHANGED file
        BY DEF Prepare, RefuseBeforeLocks, NextApp, ReadStatus, ReadSignature, ProbeRelease,
               ReadPrior, LockApp, LockPages, SetRunOnly, RecordLock, PassGate, RefuseAtGate,
               loopVars
      <3>2. Verify \/ Release => UNCHANGED file
        BY DEF Verify, PostDeploy, Scan, Revert, EndBody, Release, Finally, NextRelease,
               ReleaseStatus, ReleaseLock, RecordRelease, afterLoop
      <3>3. QED
        BY <3>1, <3>2
    <2>4. Loop => UNCHANGED file \/ BeginImport
      BY DEF Loop, RunScript, SkipImport, Import
    <2>5. StartRun \/ (\E a \in Apps : ReExport(a)) \/ Interrupt \/ Kill \/ DeveloperStep
            => UNCHANGED file
      BY DEF StartRun, ReExport, Interrupt, Kill, DeveloperStep, runVars
    <2>6. QED
      BY <2>1, <2>2, <2>3, <2>4, <2>5 DEF Next, Tool
  <1>2. QED
    BY InitType, TypeStep, <1>1, PTL DEF Spec, BackupKept

(* What each way of writing on an entry leaves as it was.                     *)
LEMMA EntryFields ==
    ASSUME NEW e \in Entries
    PROVE  /\ \A o \in Outcomes : /\ Noted(e, o).outcome = o /\ Noted(e, o).before = e.before
                                  /\ Noted(e, o).prior = e.prior
           /\ \A s \in Statuses : Before(e, s).before = s /\ Before(e, s).prior = e.prior
           /\ \A g \in Signatures : Signed(e, g).before = e.before /\ Signed(e, g).prior = e.prior
           /\ \A h \in Holders : Prior(e, h).before = e.before /\ Prior(e, h).prior = h
           /\ \A k \in LockKinds : /\ Held(e, k).outcome = "HELD" /\ Held(e, k).kind = k
                                   /\ Held(e, k).before = e.before /\ Held(e, k).prior = e.prior
  BY DEF Entries, Noted, Before, Signed, Prior, Held

(* An empty entry claims nothing.                                            *)
LEMMA NoEntryFields ==
    NoEntry.outcome = "NONE" /\ NoEntry.before = "none" /\ NoEntry.prior = "free"
  BY DEF NoEntry

(* A step that puts nothing on the target and leaves the ledger alone, either
   not moving the run at all or moving it to where nothing is in hand.        *)
Softer ==
    \A a \in Apps : /\ status'[a] = "RUN_ONLY" /\ Restoring => status[a] = "RUN_ONLY"
                    /\ appLock'[a] = "deploy" => appLock[a] = "deploy"
                    /\ pageLock'[a] # "none" => pageLock[a] # "none"
Quiet ==
    /\ UNCHANGED <<locks, found, cfg, spoiled>> /\ Softer
    /\ \/ UNCHANGED <<pc, cur, pend, todo, ret, rel>>
       \/ /\ pc # "record"
          /\ \/ pc' \in {"steps", "import", "post", "scan", "revert", "finally", "idle", "dead"}
             \/ pc' = "releasing" /\ ret' = "scan"

HoldParts == Answered /\ SoundEntries /\ TakenOnce /\ InRelease

(* A quiet step keeps the account of what is held.                            *)
LEMMA QuietHold == HoldParts /\ Quiet => HoldParts'
  <1> SUFFICES ASSUME HoldParts, Quiet PROVE HoldParts'
    OBVIOUS
  <1>1. Restoring' = Restoring /\ Ledger' = Ledger
    BY DEF Quiet, Restoring, Ledger
  <1>2. ASSUME NEW a \in Apps \ spoiled', NEW kinds, NEW after,
               after \subseteq {"rel_lock", "rel_record"},
               Answers(a, kinds, after)
        PROVE  Answers(a, kinds, after)'
    BY <1>2 DEF Quiet, Answers, InHand
  <1>3. Answered'
    <2>1. ASSUME NEW a \in Apps \ spoiled'
          PROVE  StatusAnswered(a)' /\ AppAnswered(a)' /\ PagesAnswered(a)'
      <3>1. StatusAnswered(a) /\ AppAnswered(a) /\ PagesAnswered(a)
        BY DEF HoldParts, Answered, Quiet
      <3>2. StatusAnswered(a)'
        BY <1>1, <1>2, <3>1 DEF StatusAnswered, Quiet, Softer
      <3>3. AppAnswered(a)' /\ PagesAnswered(a)'
        BY <1>2, <3>1 DEF AppAnswered, PagesAnswered, Quiet, Softer
      <3>4. QED
        BY <3>2, <3>3
    <2>2. QED
      BY <2>1 DEF Answered
  <1>4. SoundEntries'
    BY <1>1 DEF HoldParts, SoundEntries, Sound, Quiet, Holding
  <1>5. TakenOnce'
    BY DEF HoldParts, TakenOnce, Quiet, Holding
  <1>6. InRelease'
    BY <1>1 DEF HoldParts, InRelease, Quiet, Releasing
  <1>7. QED
    BY <1>3, <1>4, <1>5, <1>6 DEF HoldParts

(* A step that takes a lock: what it put on the target is in hand after it.    *)
Taking ==
    /\ pc \in Holding \ {"record", "gate"}
    /\ pc' \in (Holding \ {"gate"}) \cup {"finally"}
    /\ UNCHANGED <<locks, found, cfg, todo, cur>>
    /\ spoiled \subseteq spoiled'
    /\ Sound(cur, pend)'
    /\ \A a \in Apps \ spoiled' :
          /\ status'[a] = "RUN_ONLY" => status[a] = "RUN_ONLY" \/ InHand(a)'
          /\ appLock'[a] = "deploy" => appLock[a] = "deploy" \/ (InHand(a)' /\ pend'.kind = "app")
          /\ pageLock'[a] # "none" => pageLock[a] # "none" \/ (InHand(a)' /\ pend'.kind = "pages")

(* So does a step that takes a lock.                                         *)
LEMMA TakingHold == HoldParts /\ pend' \in Entries /\ Taking => HoldParts'
  <1> SUFFICES ASSUME HoldParts, pend' \in Entries, Taking PROVE HoldParts'
    OBVIOUS
  <1>1. Restoring' = Restoring
    BY DEF Taking, Restoring
  <1>2. ASSUME NEW a \in Apps \ spoiled', NEW kinds, NEW after,
               after \subseteq {"rel_lock", "rel_record"},
               Answers(a, kinds, after)
        PROVE  Answers(a, kinds, after)'
    BY <1>2 DEF Taking, Answers, InHand, Holding
  <1>3. ASSUME NEW a \in Apps, NEW kinds, NEW after, InHand(a)', pend'.kind \in kinds
        PROVE  Answers(a, kinds, after)'
    BY <1>3 DEF Answers
  <1>4. pend'.kind \in LockKinds
    BY DEF Entries, LockKinds
  <1>5. Answered'
    <2>1. ASSUME NEW a \in Apps \ spoiled'
          PROVE  StatusAnswered(a)' /\ AppAnswered(a)' /\ PagesAnswered(a)'
      <3>1. StatusAnswered(a) /\ AppAnswered(a) /\ PagesAnswered(a)
        BY DEF HoldParts, Answered, Taking
      <3>2. StatusAnswered(a)'
        BY <1>1, <1>2, <1>3, <1>4, <3>1 DEF StatusAnswered, Taking, LockKinds
      <3>3. AppAnswered(a)' /\ PagesAnswered(a)'
        BY <1>2, <1>3, <3>1 DEF AppAnswered, PagesAnswered, Taking
      <3>4. QED
        BY <3>2, <3>3
    <2>2. QED
      BY <2>1 DEF Answered
  <1>6. SoundEntries'
    BY <1>1 DEF HoldParts, SoundEntries, Sound, Taking, Holding
  <1>7. TakenOnce'
    BY DEF HoldParts, TakenOnce, Taking, Holding
  <1>8. InRelease'
    BY DEF HoldParts, InRelease, Taking, Holding, Releasing
  <1>9. QED
    BY <1>5, <1>6, <1>7, <1>8 DEF HoldParts

(* Before its lock is on, an application is as the run found it, as far as a
   restoring run can tell: what is read off it then is sound.                *)
LEMMA Untouched ==
    ASSUME HoldInv, pc \in Holding \ {"record", "gate"}, cur \notin spoiled
    PROVE  /\ Restoring /\ status[cur] = "RUN_ONLY"
            => found[cur].status = "RUN_ONLY"
           /\ appLock[cur] = "deploy" => found[cur].lock = "deploy"
  <1>1. cur \in Apps \ spoiled /\ locks[cur].outcome # "HELD" /\ ~InHand(cur)
    BY DEF HoldInv, TypeInv, TypeOK, TakenOnce, InHand
  <1>2. \A kinds, after : ~Answers(cur, kinds, after)
    BY <1>1 DEF Answers
  <1>3. StatusAnswered(cur) /\ AppAnswered(cur)
    BY <1>1 DEF HoldInv, Answered
  <1>4. QED
    BY <1>2, <1>3 DEF StatusAnswered, AppAnswered

(* Preparing an application keeps the account: what a lock call leaves on the
   target is in hand, or in the ledger, or lost to a fault.                   *)
LEMMA PrepareHold == HoldInv /\ TypeInv' /\ Prepare => HoldParts'
  <1> SUFFICES ASSUME HoldInv, TypeInv', Prepare PROVE HoldParts'
    OBVIOUS
  <1>0. /\ HoldParts /\ pend \in Entries /\ pend' \in Entries /\ cur \in Apps
        /\ status[cur] \in Statuses /\ appLock[cur] \in Holders
        /\ appLock \in [Apps -> Holders] /\ pageLock \in [Apps -> PageLocks]
        /\ status \in [Apps -> Statuses] /\ spoiled \subseteq Apps
    BY DEF HoldInv, HoldParts, TypeInv, TypeOK, TargetTypeOK
  <1>1. CASE RefuseBeforeLocks \/ RefuseAtGate
    <2>1. Quiet
      BY <1>1 DEF RefuseBeforeLocks, RefuseAtGate, Quiet, Softer, targetVars, loopVars, history
    <2>2. QED
      BY <1>0, <2>1, QuietHold
  <1>2. ASSUME NEW a \in Apps, NextApp(a) PROVE HoldParts'
    <2>1. /\ pc = "next" /\ a \in todo /\ cur' = a /\ todo' = todo \ {a} /\ pend' = NoEntry
          /\ pc' \in {"gate", "read_status"}
          /\ UNCHANGED <<locks, found, cfg, spoiled, status, appLock, pageLock>>
      BY <1>2 DEF NextApp, Remaining, targetVars, loopVars, history
    <2>2. Answered'
      BY <1>0, <2>1 DEF HoldParts, Answered, StatusAnswered, AppAnswered, PagesAnswered, Answers,
                        InHand, Restoring
    <2>3. SoundEntries'
      BY <1>0, <2>1, NoEntryFields DEF HoldParts, SoundEntries, Sound, Restoring
    <2>4. TakenOnce'
      BY <1>0, <2>1 DEF HoldParts, TakenOnce
    <2>5. InRelease'
      BY <2>1 DEF InRelease, Releasing
    <2>6. QED
      BY <2>2, <2>3, <2>4, <2>5 DEF HoldParts
  <1>3. CASE ReadStatus
    <2>1. /\ pc = "read_status" /\ pc' \in {"record", "read_sig"}
          /\ UNCHANGED <<locks, found, cfg, todo, cur, spoiled, status, appLock, pageLock>>
          /\ pend' \in {Noted(pend, "SKIPPED"), Noted(pend, "FAILED"), Before(pend, status[cur])}
      BY <1>3 DEF ReadStatus, targetVars, loopVars, history
    <2>2. Sound(cur, pend)
      BY <1>0, <2>1 DEF HoldParts, SoundEntries, Holding
    <2>3. Sound(cur, pend)'
      <3>1. Restoring' = Restoring
        BY <2>1 DEF Restoring
      <3>2. pend'.prior = pend.prior /\ pend'.before \in {pend.before, status[cur]}
        BY <1>0, <2>1, EntryFields DEF Outcomes
      <3>3. cur \notin spoiled /\ Restoring /\ status[cur] = "RUN_ONLY"
            => found[cur].status = "RUN_ONLY"
        BY <2>1, Untouched DEF Holding
      <3>4. QED
        BY <2>1, <2>2, <3>1, <3>2, <3>3 DEF Sound
    <2>4. Taking
      BY <2>1, <2>3 DEF Taking, Holding
    <2>5. QED
      BY <1>0, <2>4, TakingHold
  <1>4. CASE ReadSignature \/ ProbeRelease
    <2>1. /\ pc \in {"read_sig", "probe"}
          /\ pc' \in {"probe", "lock_pages", "set_status", "read_prior"}
          /\ UNCHANGED <<locks, found, cfg, todo, cur, spoiled, status, appLock, pageLock>>
          /\ \/ pend' = pend
             \/ pend' \in {Signed(pend, Checksum(cur)), Signed(pend, Unread)}
      BY <1>4 DEF ReadSignature, ProbeRelease, targetVars, loopVars, history
    <2>2. Checksum(cur) \in Signatures /\ Unread \in Signatures
      BY ChecksumType, EntryTypes DEF HoldInv, TypeInv, TypeOK
    <2>3. pend'.prior = pend.prior /\ pend'.before = pend.before
      BY <1>0, <2>1, <2>2, EntryFields
    <2>4. Sound(cur, pend)'
      BY <1>0, <2>1, <2>3 DEF HoldParts, SoundEntries, Sound, Restoring, Holding
    <2>5. Taking
      BY <2>1, <2>4 DEF Taking, Holding
    <2>6. QED
      BY <1>0, <2>5, TakingHold
  <1>5. CASE ReadPrior
    <2>1. /\ pc = "read_prior" /\ pc' \in {"set_status", "finally", "lock_app"}
          /\ UNCHANGED <<locks, found, cfg, todo, cur, spoiled, status, appLock, pageLock>>
          /\ pend' = pend \/ pend' = Prior(pend, appLock[cur])
      BY <1>5 DEF ReadPrior, Another, targetVars, loopVars, history
    <2>2. Sound(cur, pend)'
      <3>1. Sound(cur, pend) /\ Restoring' = Restoring
        BY <1>0, <2>1 DEF HoldParts, SoundEntries, Holding, Restoring
      <3>2. pend'.before = pend.before /\ pend'.prior \in {pend.prior, appLock[cur]}
        BY <1>0, <2>1, EntryFields
      <3>3. cur \notin spoiled /\ appLock[cur] = "deploy" => found[cur].lock = "deploy"
        BY <2>1, Untouched DEF Holding
      <3>4. QED
        BY <2>1, <3>1, <3>2, <3>3 DEF Sound
    <2>3. Taking
      BY <2>1, <2>2 DEF Taking, Holding
    <2>4. QED
      BY <1>0, <2>3, TakingHold
  <1>6. CASE LockApp
    <2>1. /\ pc = "lock_app" /\ pc' \in {"set_status", "finally", "record"}
          /\ UNCHANGED <<locks, found, cfg, todo, cur, status, pageLock>>
          /\ spoiled \subseteq spoiled'
          /\ pend' \in {pend, Prior(pend, "other"), Held(pend, "app")}
      BY <1>6 DEF LockApp, Another, Spoil, loopVars, history
    <2>2. /\ pend'.before = pend.before /\ pend'.prior \in {pend.prior, "other"}
      BY <1>0, <2>1, EntryFields DEF LockKinds, Holders
    <2>3. Sound(cur, pend)'
      BY <1>0, <2>1, <2>2 DEF HoldParts, SoundEntries, Sound, Restoring, Holding
    <2>4. ASSUME NEW a \in Apps \ spoiled', appLock'[a] = "deploy"
          PROVE  appLock[a] = "deploy" \/ (InHand(a)' /\ pend'.kind = "app")
      <3>1. CASE appLock' = appLock \/ a # cur
        BY <1>0, <1>6, <2>4, <3>1 DEF LockApp
      <3>2. CASE a = cur /\ pend' = Held(pend, "app") /\ pc' = "record" /\ cur' = cur
        BY <1>0, <3>2, EntryFields DEF InHand, LockKinds
      <3>3. CASE a = cur /\ spoiled' = spoiled \cup {cur}
        BY <3>3
      <3>4. QED
        BY <1>6, <2>1, <3>1, <3>2, <3>3 DEF LockApp, Spoil
    <2>5. Taking
      BY <2>1, <2>3, <2>4 DEF Taking, Holding
    <2>6. QED
      BY <1>0, <2>5, TakingHold
  <1>7. CASE LockPages
    <2>1. /\ pc = "lock_pages" /\ pc' \in {"set_status", "record"}
          /\ UNCHANGED <<locks, found, cfg, todo, cur, status, appLock>>
          /\ spoiled \subseteq spoiled'
          /\ pend' \in {pend, Held(pend, "pages")}
      BY <1>7 DEF LockPages, Spoil, loopVars, history
    <2>2. pend'.before = pend.before /\ pend'.prior = pend.prior
      BY <1>0, <2>1, EntryFields DEF LockKinds
    <2>3. Sound(cur, pend)'
      BY <1>0, <2>1, <2>2 DEF HoldParts, SoundEntries, Sound, Restoring, Holding
    <2>4. ASSUME NEW a \in Apps \ spoiled', pageLock'[a] # "none"
          PROVE  pageLock[a] # "none" \/ (InHand(a)' /\ pend'.kind = "pages")
      <3>1. CASE pageLock' = pageLock \/ a # cur \/ pageLock' = [pageLock EXCEPT ![cur] = "none"]
        BY <1>0, <1>7, <2>4, <3>1 DEF LockPages
      <3>2. CASE a = cur /\ pend' = Held(pend, "pages") /\ pc' = "record" /\ cur' = cur
        BY <1>0, <3>2, EntryFields DEF InHand, LockKinds
      <3>3. CASE a = cur /\ spoiled' = spoiled \cup {cur}
        BY <3>3
      <3>4. QED
        BY <1>7, <2>1, <3>1, <3>2, <3>3 DEF LockPages, Spoil
    <2>5. Taking
      BY <2>1, <2>3, <2>4 DEF Taking, Holding
    <2>6. QED
      BY <1>0, <2>5, TakingHold
  <1>8. CASE SetRunOnly
    <2>1. /\ pc = "set_status" /\ pc' = "record"
          /\ UNCHANGED <<locks, found, cfg, todo, cur, appLock, pageLock>>
          /\ spoiled \subseteq spoiled'
          /\ pend' \in {Noted(pend, "FAILED"), Held(pend, "status")}
      BY <1>8 DEF SetRunOnly, Spoil, loopVars, history
    <2>2. pend'.before = pend.before /\ pend'.prior = pend.prior
      BY <1>0, <2>1, EntryFields DEF LockKinds, Outcomes
    <2>3. Sound(cur, pend)'
      BY <1>0, <2>1, <2>2 DEF HoldParts, SoundEntries, Sound, Restoring, Holding
    <2>4. ASSUME NEW a \in Apps \ spoiled', status'[a] = "RUN_ONLY"
          PROVE  status[a] = "RUN_ONLY" \/ InHand(a)'
      <3>1. CASE status' = status \/ a # cur
        BY <1>0, <1>8, <2>4, <3>1 DEF SetRunOnly, RunOnly
      <3>2. CASE a = cur /\ pend' = Held(pend, "status")
        BY <1>0, <2>1, <3>2, EntryFields DEF InHand, LockKinds
      <3>3. CASE a = cur /\ spoiled' = spoiled \cup {cur}
        BY <3>3
      <3>4. QED
        BY <1>8, <2>1, <3>1, <3>2, <3>3 DEF SetRunOnly, Spoil
    <2>5. Taking
      BY <2>1, <2>3, <2>4 DEF Taking, Holding
    <2>6. QED
      BY <1>0, <2>5, TakingHold
  <1>9. CASE RecordLock
    <2>1. /\ pc = "record" /\ pc' = "gate" /\ locks' = [locks EXCEPT ![cur] = pend]
          /\ UNCHANGED <<cur, todo, pend, found, cfg, spoiled, status, appLock, pageLock>>
      BY <1>9 DEF RecordLock, targetVars, loopVars, history
    <2>2. \A a \in Apps : locks'[a] = IF a = cur THEN pend ELSE locks[a]
      BY <2>1 DEF HoldInv, TypeInv, TypeOK
    <2>3. ASSUME NEW a \in Apps, NEW kinds, NEW after,
                 after \subseteq {"rel_lock", "rel_record"},
                 Answers(a, kinds, after)
          PROVE  Answers(a, kinds, after)'
      <3>1. a = cur => locks[a].outcome # "HELD"
        BY <1>0, <2>1 DEF HoldParts, TakenOnce, Holding
      <3>2. QED
        BY <2>1, <2>2, <2>3, <3>1 DEF Answers, InHand
    <2>4. Answered'
      <3>1. ASSUME NEW a \in Apps \ spoiled
            PROVE  StatusAnswered(a)' /\ AppAnswered(a)' /\ PagesAnswered(a)'
        BY <1>0, <2>1, <2>3
        DEF HoldParts, Answered, StatusAnswered, AppAnswered, PagesAnswered, Restoring
      <3>2. QED
        BY <2>1, <3>1 DEF Answered
    <2>5. SoundEntries'
      BY <1>0, <2>1, <2>2 DEF HoldParts, SoundEntries, Sound, Restoring, Holding
    <2>6. TakenOnce'
      BY <1>0, <2>1, <2>2 DEF HoldParts, TakenOnce, Holding, HoldInv, TypeInv, TypeOK
    <2>7. InRelease'
      BY <2>1 DEF InRelease, Releasing
    <2>8. QED
      BY <2>4, <2>5, <2>6, <2>7 DEF HoldParts
  <1>10. CASE PassGate
    <2>1. /\ pc = "gate" /\ pc' \in {"steps", "next"}
          /\ UNCHANGED <<locks, cur, todo, pend, found, cfg, spoiled, status, appLock, pageLock>>
      BY <1>10 DEF PassGate, targetVars, loopVars, history
    <2>2. Answered'
      BY <1>0, <2>1 DEF HoldParts, Answered, StatusAnswered, AppAnswered, PagesAnswered, Answers,
                        InHand, Restoring
    <2>3. SoundEntries' /\ TakenOnce' /\ InRelease'
      BY <1>0, <2>1 DEF HoldParts, SoundEntries, Sound, TakenOnce, InRelease, Restoring, Holding,
                        Releasing
    <2>4. QED
      BY <2>2, <2>3 DEF HoldParts
  <1>11. QED
    BY <1>1, <1>2, <1>3, <1>4, <1>5, <1>6, <1>7, <1>8, <1>9, <1>10 DEF Prepare

(* An import takes locks off the target and puts none on it.                  *)
LEMMA OverwriteSofter ==
    ASSUME TargetTypeOK, NEW b \in Apps, NEW c, Overwrite(b, c)
    PROVE  Softer
  BY DEF TargetTypeOK, Overwrite, Softer

(* The deploy loop and the scans neither take a lock nor touch the ledger.     *)
LEMMA LoopQuiet == TypeInv /\ Loop => Quiet
  <1> SUFFICES ASSUME TypeInv, Loop PROVE Quiet
    OBVIOUS
  <1>1. UNCHANGED <<locks, found, cfg, spoiled>>
    BY DEF Loop, RunScript, SkipImport, BeginImport, Import, prepared, history
  <1>2. pc # "record" /\ pc' \in {"steps", "import", "post", "finally"}
    BY DEF Loop, RunScript, SkipImport, BeginImport, Import, FinishRow
  <1>3. Softer
    <2>1. CASE RunScript
      <3>1. UNCHANGED <<appLock, pageLock>> /\ (status' = status \/ TerminalBlock(Steps[pos].app))
        BY <2>1 DEF RunScript
      <3>2. QED
        BY <3>1 DEF Softer, TerminalBlock, Restoring
    <2>2. CASE SkipImport \/ BeginImport
      BY <2>2 DEF SkipImport, BeginImport, Softer, targetVars
    <2>3. CASE Import
      <3>1. (\E c : Overwrite(cur, c)) \/ UNCHANGED <<status, appLock, pageLock>>
        BY <2>3 DEF Import
      <3>2. CASE UNCHANGED <<status, appLock, pageLock>>
        BY <3>2 DEF Softer
      <3>3. CASE \E c : Overwrite(cur, c)
        BY <3>3, OverwriteSofter DEF TypeInv, TypeOK
      <3>4. QED
        BY <3>1, <3>2, <3>3
    <2>4. QED
      BY <2>1, <2>2, <2>3 DEF Loop
  <1>4. QED
    BY <1>1, <1>2, <1>3 DEF Quiet

(* Nor do the scans and the revert.                                          *)
LEMMA VerifyQuiet == TypeInv /\ Verify => Quiet
  <1> SUFFICES ASSUME TypeInv, Verify PROVE Quiet
    OBVIOUS
  <1>1. UNCHANGED <<locks, found, cfg, spoiled>>
    BY DEF Verify, PostDeploy, Scan, Revert, EndBody, afterLoop, history
  <1>2. /\ pc # "record"
        /\ pc' \in {"revert", "finally"} \/ (pc' = "releasing" /\ ret' = "scan")
    BY DEF Verify, PostDeploy, Scan, Revert, EndBody
  <1>3. Softer
    <2>1. (\E c : Overwrite(cur, c)) \/ UNCHANGED <<status, appLock, pageLock>>
      BY DEF Verify, PostDeploy, Scan, Revert, EndBody, targetVars
    <2>2. CASE UNCHANGED <<status, appLock, pageLock>>
      BY <2>2 DEF Softer
    <2>3. CASE \E c : Overwrite(cur, c)
      BY <2>3, OverwriteSofter DEF TypeInv, TypeOK
    <2>4. QED
      BY <2>1, <2>2, <2>3
  <1>4. QED
    BY <1>1, <1>2, <1>3 DEF Quiet

(* A release puts back what the entry says, and only then drops the entry.     *)
LEMMA ReleaseHold == HoldInv /\ TypeInv' /\ Release => HoldParts'
  <1> SUFFICES ASSUME HoldInv, TypeInv', Release PROVE HoldParts'
    OBVIOUS
  <1>0. /\ HoldParts /\ pend \in Entries /\ pend' \in Entries /\ cur \in Apps
        /\ locks \in [Apps -> Entries] /\ rel \subseteq Apps /\ ret \in {"scan", "done"}
        /\ appLock \in [Apps -> Holders] /\ pageLock \in [Apps -> PageLocks]
        /\ status \in [Apps -> Statuses]
    BY DEF HoldInv, HoldParts, TypeInv, TypeOK, TargetTypeOK
  <1>1. CASE Finally
    <2>1. /\ pc = "finally" /\ pc' = "releasing" /\ ret' = "done" /\ rel' = Ledger
          /\ UNCHANGED <<locks, cur, pend, todo, found, cfg, spoiled, status, appLock, pageLock>>
      BY <1>1 DEF Finally, OnExit, targetVars, afterLoop, history
    <2>2. Answered'
      BY <1>0, <2>1 DEF HoldParts, Answered, StatusAnswered, AppAnswered, PagesAnswered, Answers,
                        InHand, Restoring
    <2>3. SoundEntries' /\ TakenOnce' /\ InRelease'
      BY <1>0, <2>1 DEF HoldParts, SoundEntries, Sound, TakenOnce, InRelease, Restoring, Holding,
                        Releasing, Ledger
    <2>4. QED
      BY <2>2, <2>3 DEF HoldParts
  <1>2. CASE NextRelease
    <2>1. /\ pc = "releasing"
          /\ UNCHANGED <<ret, locks, todo, found, cfg, spoiled, status, appLock, pageLock, rel>>
          /\ \/ cur' \in rel /\ pend' = locks[cur'] /\ pc' = "rel_status"
             \/ rel = {} /\ pc' = ret /\ UNCHANGED <<cur, pend>>
      BY <1>2 DEF NextRelease, targetVars, afterLoop, history
    <2>2. Answered'
      BY <1>0, <2>1 DEF HoldParts, Answered, StatusAnswered, AppAnswered, PagesAnswered, Answers,
                        InHand, Restoring
    <2>3. SoundEntries' /\ TakenOnce'
      BY <1>0, <2>1 DEF HoldParts, SoundEntries, Sound, TakenOnce, Restoring, Holding
    <2>4. InRelease'
      BY <1>0, <2>1 DEF HoldParts, InRelease, Releasing, Ledger
    <2>5. QED
      BY <2>2, <2>3, <2>4 DEF HoldParts
  <1>3. CASE ReleaseStatus
    <2>1. /\ pc = "rel_status" /\ pc' \in {"rel_lock", "rel_record"}
          /\ UNCHANGED <<ret, cur, locks, rel, todo, found, cfg, appLock, pageLock>>
          /\ spoiled \subseteq spoiled'
      BY <1>3 DEF ReleaseStatus, Spoil, afterLoop, history
    <2>2. pend = locks[cur]
      BY <1>0, <2>1 DEF HoldParts, InRelease
    <2>3. ASSUME NEW a \in Apps, ~InHand(a), NEW kinds, NEW after,
                 after \subseteq {"rel_lock", "rel_record"},
                 Answers(a, kinds, after), pc' \in after => cur # a
          PROVE  Answers(a, kinds, after)'
      BY <2>1, <2>3 DEF Answers
    <2>4. \A a \in Apps : ~InHand(a)
      BY <2>1 DEF InHand
    <2>5. ASSUME NEW a \in Apps \ spoiled'
          PROVE  AppAnswered(a)' /\ PagesAnswered(a)'
      <3>1. AppAnswered(a) /\ PagesAnswered(a)
        BY <1>0, <2>1 DEF HoldParts, Answered
      <3>2. CASE pc' = "rel_lock" \/ a # cur
        BY <2>1, <2>3, <2>4, <3>1, <3>2 DEF AppAnswered, PagesAnswered
      <3>3. CASE pc' = "rel_record" /\ a = cur
        <4>1. locks[a].outcome # "HELD"
          BY <1>3, <2>2, <3>3 DEF ReleaseStatus
        <4>2. \A kinds, after : ~Answers(a, kinds, after)
          BY <2>4, <4>1 DEF Answers
        <4>3. QED
          BY <2>1, <3>1, <4>2 DEF AppAnswered, PagesAnswered
      <3>4. QED
        BY <2>1, <3>2, <3>3
    <2>6. ASSUME NEW a \in Apps \ spoiled'
          PROVE  StatusAnswered(a)'
      <3>1. StatusAnswered(a) /\ Restoring' = Restoring
        BY <1>0, <2>1 DEF HoldParts, Answered, Restoring
      <3>2. CASE a # cur
        <4>1. status'[a] = status[a]
          BY <1>0, <1>3, <3>2 DEF ReleaseStatus
        <4>2. QED
          BY <2>1, <2>3, <2>4, <3>1, <3>2, <4>1 DEF StatusAnswered
      <3>3. CASE a = cur /\ pend.outcome # "HELD"
        <4>1. status' = status
          BY <1>3, <3>3 DEF ReleaseStatus
        <4>2. \A kinds, after : ~Answers(a, kinds, after)
          BY <2>2, <2>4, <3>3 DEF Answers
        <4>3. QED
          BY <2>1, <3>1, <4>1, <4>2 DEF StatusAnswered
      <3>4. CASE a = cur /\ pend.outcome = "HELD"
        <4>1. status' = [status EXCEPT ![cur] = FinalStatus(pend, @)]
          BY <1>3, <3>4 DEF ReleaseStatus, Spoil
        <4>2. Restoring => status'[a] = pend.before
          BY <1>0, <3>4, <4>1 DEF Restoring, FinalStatus
        <4>3. Sound(a, pend)
          BY <1>0, <2>2, <3>4 DEF HoldParts, SoundEntries
        <4>4. QED
          BY <2>1, <3>1, <4>2, <4>3 DEF StatusAnswered, Sound
      <3>5. QED
        BY <3>2, <3>3, <3>4
    <2>7. SoundEntries' /\ TakenOnce'
      BY <1>0, <2>1 DEF HoldParts, SoundEntries, Sound, TakenOnce, Restoring, Holding
    <2>8. InRelease'
      <3>1. pend' = pend \/ cur \in spoiled'
        BY <1>3 DEF ReleaseStatus, Spoil
      <3>2. QED
        BY <1>0, <2>1, <2>2, <3>1 DEF HoldParts, InRelease, Releasing, Ledger
    <2>9. QED
      BY <2>5, <2>6, <2>7, <2>8 DEF HoldParts, Answered
  <1>4. CASE ReleaseLock
    <2>1. /\ pc = "rel_lock" /\ pc' = "rel_record"
          /\ UNCHANGED <<ret, cur, locks, rel, todo, found, cfg, status>>
          /\ spoiled \subseteq spoiled'
      BY <1>4 DEF ReleaseLock, Spoil, afterLoop, history
    <2>2. \A a \in Apps : ~InHand(a)
      BY <2>1 DEF InHand
    <2>3. ASSUME NEW a \in Apps, NEW kinds, NEW after, Answers(a, kinds, after), cur # a
          PROVE  Answers(a, kinds, after)'
      BY <2>1, <2>2, <2>3 DEF Answers
    <2>4. ASSUME NEW a \in Apps \ spoiled'
          PROVE  StatusAnswered(a)' /\ AppAnswered(a)' /\ PagesAnswered(a)'
      <3>1. StatusAnswered(a) /\ AppAnswered(a) /\ PagesAnswered(a) /\ Restoring' = Restoring
        BY <1>0, <2>1 DEF HoldParts, Answered, Restoring
      <3>2. CASE a # cur
        <4>1. appLock'[a] = appLock[a] /\ pageLock'[a] = pageLock[a]
          BY <1>0, <1>4, <3>2 DEF ReleaseLock
        <4>2. QED
          BY <2>1, <2>3, <3>1, <3>2, <4>1 DEF StatusAnswered, AppAnswered, PagesAnswered
      <3>3. CASE a = cur
        <4>1. a \notin spoiled /\ pend = locks[a] /\ Sound(a, pend)
          BY <1>0, <2>1, <3>3 DEF HoldParts, InRelease, SoundEntries
        <4>2. ~Answers(a, LockKinds, {"rel_lock", "rel_record"})
          BY <2>1, <2>2, <3>3 DEF Answers
        <4>3. StatusAnswered(a)'
          BY <2>1, <3>1, <4>2 DEF StatusAnswered
        <4>4. /\ appLock' = IF pend.kind = "app" /\ appLock[cur] # "other"
                            THEN [appLock EXCEPT ![cur] = HandedOver(pend)] ELSE appLock
              /\ pageLock' = IF pend.kind = "pages" THEN [pageLock EXCEPT ![cur] = "none"]
                                                   ELSE pageLock
          BY <1>4, <3>3, <4>1 DEF ReleaseLock, Spoil
        <4>5. AppAnswered(a)'
          <5>1. CASE pend.kind = "app"
            <6>1. appLock'[a] = pend.prior \/ appLock'[a] = "other"
              BY <1>0, <3>3, <4>4, <5>1 DEF HandedOver
            <6>2. QED
              BY <2>1, <4>1, <6>1 DEF AppAnswered, Sound
          <5>2. CASE pend.kind # "app"
            <6>1. ~Answers(a, {"app"}, {"rel_record"}) /\ appLock' = appLock
              BY <2>2, <4>1, <4>4, <5>2 DEF Answers
            <6>2. QED
              BY <2>1, <3>1, <6>1 DEF AppAnswered
          <5>3. QED
            BY <5>1, <5>2
        <4>6. PagesAnswered(a)'
          <5>1. CASE pend.kind = "pages"
            BY <1>0, <3>3, <4>4, <5>1 DEF PagesAnswered
          <5>2. CASE pend.kind # "pages"
            <6>1. ~Answers(a, {"pages"}, {"rel_record"}) /\ pageLock' = pageLock
              BY <2>2, <4>1, <4>4, <5>2 DEF Answers
            <6>2. QED
              BY <2>1, <3>1, <6>1 DEF PagesAnswered
          <5>3. QED
            BY <5>1, <5>2
        <4>7. QED
          BY <4>3, <4>5, <4>6
      <3>4. QED
        BY <3>2, <3>3
    <2>5. SoundEntries' /\ TakenOnce'
      BY <1>0, <2>1 DEF HoldParts, SoundEntries, Sound, TakenOnce, Restoring, Holding
    <2>6. InRelease'
      <3>1. pend' = pend \/ cur \in spoiled'
        BY <1>4 DEF ReleaseLock, Spoil
      <3>2. QED
        BY <1>0, <2>1, <3>1 DEF HoldParts, InRelease, Releasing, Ledger
    <2>7. QED
      BY <2>4, <2>5, <2>6 DEF HoldParts, Answered
  <1>5. CASE RecordRelease
    <2>1. /\ pc = "rel_record" /\ pc' = "releasing" /\ rel' = rel \ {cur}
          /\ UNCHANGED <<ret, cur, pend, todo, found, cfg, spoiled, status, appLock, pageLock>>
          /\ \A a \in Apps : locks'[a] = IF a = cur THEN NoEntry ELSE locks[a]
      BY <1>0, <1>5 DEF RecordRelease, targetVars, afterLoop, history
    <2>2. Answered'
      <3>1. ASSUME NEW a \in Apps, NEW kinds, NEW after,
                     "rel_record" \in after, after \subseteq {"rel_lock", "rel_record"},
                   Answers(a, kinds, after)
            PROVE  Answers(a, kinds, after)'
        BY <2>1, <3>1 DEF Answers, InHand
      <3>2. ASSUME NEW a \in Apps \ spoiled
            PROVE  StatusAnswered(a)' /\ AppAnswered(a)' /\ PagesAnswered(a)'
        BY <1>0, <2>1, <3>1
        DEF HoldParts, Answered, StatusAnswered, AppAnswered, PagesAnswered, Restoring
      <3>3. QED
        BY <2>1, <3>2 DEF Answered
    <2>3. SoundEntries' /\ TakenOnce'
      BY <1>0, <2>1, NoEntryFields
      DEF HoldParts, SoundEntries, Sound, TakenOnce, Restoring, Holding
    <2>4. InRelease'
      <3>1. Ledger' = Ledger \ {cur}
        BY <2>1, NoEntryFields DEF Ledger
      <3>2. QED
        BY <1>0, <2>1, <3>1 DEF HoldParts, InRelease, Releasing
    <2>5. QED
      BY <2>2, <2>3, <2>4 DEF HoldParts
  <1>6. QED
    BY <1>1, <1>2, <1>3, <1>4, <1>5 DEF Release

(* A new run owes nothing yet, an interrupt moves on to the `finally`, a kill
   strands everything, and the rest is quiet.                                *)
LEMMA EnvironmentHold ==
    HoldInv /\ TypeInv' /\ (StartRun \/ (\E a \in Apps : ReExport(a)) \/ Interrupt \/ Kill
                            \/ DeveloperStep \/ UNCHANGED vars) => HoldParts'
  <1> SUFFICES ASSUME HoldInv, TypeInv',
                      StartRun \/ (\E a \in Apps : ReExport(a)) \/ Interrupt \/ Kill
                      \/ DeveloperStep \/ UNCHANGED vars
               PROVE  HoldParts'
    OBVIOUS
  <1>0. HoldParts /\ TypeInv /\ TypeOK
    BY DEF HoldInv, HoldParts, TypeInv
  <1>1. CASE StartRun
    <2>1. /\ pc' \in {"next", "steps"} /\ ret' = "scan" /\ UNCHANGED <<status, appLock, pageLock>>
          /\ \A a \in Apps : /\ locks'[a] = NoEntry /\ found'[a].status = status[a]
                             /\ found'[a].lock = appLock[a] /\ found'[a].pages = pageLock[a]
      BY <1>1 DEF StartRun, Fresh, Snapshot, targetVars
    <2>2. Answered'
      BY <2>1 DEF Answered, StatusAnswered, AppAnswered, PagesAnswered
    <2>3. SoundEntries'
      BY <2>1, NoEntryFields DEF SoundEntries, Sound, Holding
    <2>4. TakenOnce'
      BY <1>1, <2>1, NoEntryFields DEF StartRun, TakenOnce, Holding, TypeInv, TypeOK
    <2>5. InRelease'
      BY <2>1 DEF InRelease, Releasing
    <2>6. QED
      BY <2>2, <2>3, <2>4, <2>5 DEF HoldParts
  <1>2. CASE Interrupt
    <2>1. /\ pc' = "finally" /\ spoiled \subseteq spoiled'
          /\ UNCHANGED <<cur, pend, todo, ret, rel, locks, found, cfg, status, appLock, pageLock>>
      BY <1>2 DEF Interrupt, targetVars, history
    <2>2. \A a \in Apps \ spoiled' : ~InHand(a)
      BY <1>2 DEF Interrupt, InHand
    <2>3. Answered'
      BY <1>0, <2>1, <2>2
      DEF HoldParts, Answered, StatusAnswered, AppAnswered, PagesAnswered, Answers, Restoring
    <2>4. SoundEntries' /\ TakenOnce' /\ InRelease'
      BY <1>0, <2>1 DEF HoldParts, SoundEntries, Sound, TakenOnce, InRelease, Restoring, Holding,
                        Releasing
    <2>5. QED
      BY <2>3, <2>4 DEF HoldParts
  <1>3. CASE Kill
    <2>1. /\ pc' = "dead" /\ spoiled' = Apps
      BY <1>3 DEF Kill
    <2>2. Answered' /\ SoundEntries'
      BY <2>1 DEF Answered, SoundEntries, Sound, Holding
    <2>3. TakenOnce' /\ InRelease'
      BY <2>1 DEF TakenOnce, InRelease, Holding, Releasing
    <2>4. QED
      BY <2>2, <2>3 DEF HoldParts
  <1>4. CASE (\E a \in Apps : ReExport(a)) \/ UNCHANGED vars
    <2>1. Quiet
      BY <1>4 DEF ReExport, vars, targetVars, runVars, ghostVars, Quiet, Softer
    <2>2. QED
      BY <1>0, <2>1, QuietHold
  <1>5. CASE DeveloperStep
    <2>1. Softer
      <3>1. PICK a \in Apps : \/ OpenBuilder(a) \/ CloseBuilder(a) \/ Save(a)
                              \/ OtherLocks(a) \/ OtherUnlocks(a)
        BY <1>5, TargetAssumption DEF DeveloperStep, Developer, TargetAssumption
      <3>2. UNCHANGED <<status, pageLock>>
        BY <3>1 DEF OpenBuilder, CloseBuilder, Save, OtherLocks, OtherUnlocks
      <3>3. \/ UNCHANGED appLock
            \/ appLock' = [appLock EXCEPT ![a] = "other"]
            \/ appLock' = [appLock EXCEPT ![a] = "free"]
        BY <3>1 DEF OpenBuilder, CloseBuilder, Save, OtherLocks, OtherUnlocks
      <3>4. appLock \in [Apps -> Holders]
        BY <1>0 DEF TypeOK, TargetTypeOK
      <3>5. QED
        BY <3>2, <3>3, <3>4 DEF Softer
    <2>2. Quiet
      BY <1>5, <2>1 DEF DeveloperStep, runVars, Quiet
    <2>3. QED
      BY <1>0, <2>2, QuietHold
  <1>6. QED
    BY <1>1, <1>2, <1>3, <1>4, <1>5

(* The first state owes nothing.                                              *)
LEMMA InitHold == Init => HoldInv
  <1> SUFFICES ASSUME Init PROVE HoldInv
    OBVIOUS
  <1>1. /\ pc = "idle" /\ \A a \in Apps : /\ locks[a] = NoEntry /\ found[a].status = status[a]
                                          /\ found[a].lock = appLock[a]
                                          /\ found[a].pages = pageLock[a]
    BY DEF Init, Fresh, Snapshot
  <1>2. Answered
    BY <1>1 DEF Answered, StatusAnswered, AppAnswered, PagesAnswered
  <1>3. SoundEntries /\ TakenOnce /\ InRelease
    BY <1>1, NoEntryFields DEF SoundEntries, Sound, TakenOnce, InRelease, Holding, Releasing
  <1>4. QED
    BY InitType, <1>2, <1>3 DEF HoldInv

(* Every lock the run took is in one of its two ledgers, in the same hand and
   on the way to be released, at every point of it: HoldInv, the invariant of
   the run Redeploy.                                                          *)
THEOREM LocksAreAccounted == Spec => []HoldInv
  <1>1. HoldInv /\ [Next]_vars => HoldInv'
    <2> SUFFICES ASSUME HoldInv, [Next]_vars PROVE HoldInv'
      OBVIOUS
    <2>1. TypeInv /\ TypeInv' /\ HoldParts
      BY TypeStep DEF HoldInv, HoldParts
    <2>2. HoldParts'
      <3>1. CASE Loop \/ Verify
        BY <2>1, <3>1, LoopQuiet, VerifyQuiet, QuietHold
      <3>2. CASE Prepare
        BY <2>1, <3>2, PrepareHold
      <3>3. CASE Release
        BY <2>1, <3>3, ReleaseHold
      <3>4. CASE StartRun \/ (\E a \in Apps : ReExport(a)) \/ Interrupt \/ Kill
                 \/ DeveloperStep \/ UNCHANGED vars
        BY <2>1, <3>4, EnvironmentHold
      <3>5. QED
        BY <3>1, <3>2, <3>3, <3>4 DEF Next, Tool
    <2>3. QED
      BY <2>1, <2>2 DEF HoldInv, HoldParts
  <1>2. QED
    BY InitHold, <1>1, PTL DEF Spec

(* Every run that ends on its own has left no lock of its own on the target,
   unless a fault took the lock out of its sight: NothingStranded, the
   invariant of the runs Redeploy and DeployPair.                            *)
THEOREM NothingIsStranded == Spec => []NothingStranded
  <1>1. HoldInv => NothingStranded
    <2> SUFFICES ASSUME HoldInv, pc = "done", NEW a \in Apps \ spoiled PROVE ~Stranded(a)
      BY DEF NothingStranded
    <2>1. locks[a].outcome = "NONE" /\ ~InHand(a)
      BY DEF HoldInv, InRelease, Ledger, InHand
    <2>2. \A kinds, after : ~Answers(a, kinds, after)
      BY <2>1 DEF Answers
    <2>3. StatusAnswered(a) /\ AppAnswered(a) /\ PagesAnswered(a)
      BY DEF HoldInv, Answered
    <2>4. QED
      BY <2>2, <2>3 DEF Stranded, StatusAnswered, AppAnswered, PagesAnswered, Restoring
  <1>2. QED
    BY <1>1, LocksAreAccounted, PTL

=============================================================================
