------------------------ MODULE ConcurrentDeploysProofs ------------------------
(***************************************************************************)
(* Two facts of any number of deploys of one application, whoever runs them:  *)
(* that two developers never both hold it, and how far runs leave it as it was   *)
(* found.  The first follows from the lock being the holder's own while it is   *)
(* held; the second, where runs do not overlap, from what the one under way has *)
(* read and has changed at each of its steps, and where they do, from what a    *)
(* run that goes on past the holder it read must have read.                     *)
(***************************************************************************)
EXTENDS ConcurrentDeploys, TLAPS

(* While a run holds the application its developer is the lock's holder.      *)
HolderIsMine == \A d \in Deploys :
    /\ dep[d].at \in {"prior", "lock", "unlock"} => setting.native
    /\ dep[d].held = "app" => setting.native /\ site.by = Me(d)

HolderShape == \A d \in Deploys :
    dep[d].at \in {"prior", "lock", "unlock"} \/ dep[d].held = "app" => setting.native

(* Only an import that is under way holds the application.                     *)
HeldBetween == \A d \in Deploys :
    /\ dep[d].held = "app" => dep[d].at \in {"import", "restore", "unlock"}
    /\ dep[d].at = "unlock" => dep[d].held = "app"

(* What the run that is under way has read and owes at each of its steps.    *)
LockAsFound == site.by = first.by /\ site.comment = first.comment
AsFound == site.status = first.status /\ (setting.native => LockAsFound)
FoundLock(d) == dep[d].priorBy = first.by /\ dep[d].priorComment = first.comment
TakenByMe(d) == site.by = Me(d) /\ first.by \in {Nobody, Me(d)} /\ FoundLock(d)

Owes(d) ==
    /\ dep[d].before = first.status
    /\ dep[d].at \in {"prior", "lock", "shut"} => AsFound
    /\ dep[d].at = "lock" => FoundLock(d)
    /\ dep[d].at \in {"import", "restore"} =>
          \/ dep[d].held = "app" /\ setting.native /\ TakenByMe(d)
          \/ dep[d].held = "status" /\ (setting.native => LockAsFound)
    /\ dep[d].at = "unlock" => TakenByMe(d) /\ site.status = first.status

Alone == \A d, e \in Deploys : Between(d) /\ Between(e) => d = e
AloneInv ==
    /\ first.comment = OwnComment
    /\ ~overlapped =>
          /\ Alone
          /\ \A d \in Deploys : Between(d) => Owes(d)
          /\ (\A d \in Deploys : ~Between(d)) => AsFound

(* Developers of their own on 26.2: who goes on past the holder it read has read
   the lock as it was found, and what nobody holds is as it was found.        *)
Keeps(d) == first.by \in {Nobody, Me(d)} /\ FoundLock(d)
OwnLocksInv ==
    /\ HolderIsMine /\ first.comment = OwnComment
    /\ (\A d \in Deploys : dep[d].held # "app") => LockAsFound
    /\ \A d \in Deploys : dep[d].at = "lock" \/ dep[d].held = "app" => Keeps(d)

(* Nobody forces on 26.2 and the application was open: no run shuts it.         *)
NeverShut == setting.native /\ setting.forced = {} /\ first.status = "DEV"
OpenInv == site.status = "DEV" /\ \A d \in Deploys : dep[d].before = "DEV" /\ dep[d].at # "shut"

-----------------------------------------------------------------------------
(* The types of the runs and of the application.                               *)
LEMMA DeploysType == DeploysSpec => []ConcurrentTypeOK
  <1>1. DeploysInit => ConcurrentTypeOK
    <2> SUFFICES ASSUME DeploysInit PROVE ConcurrentTypeOK
      OBVIOUS
    <2>1. site \in Sites /\ first \in Sites
      BY DEF DeploysInit, Sites
    <2>2. dep \in [Deploys -> Runs]
      BY DEF DeploysInit, Runs, RunStages, Owners
    <2>3. QED
      BY <2>1, <2>2 DEF DeploysInit, ConcurrentTypeOK
  <1>2. ConcurrentTypeOK /\ [DeploysNext]_deploysVars => ConcurrentTypeOK'
    <2> SUFFICES ASSUME ConcurrentTypeOK, [DeploysNext]_deploysVars PROVE ConcurrentTypeOK'
      OBVIOUS
    <2>0. \A d \in Deploys : dep[d] \in Runs /\ Me(d) \in Owners
      BY DEF ConcurrentTypeOK, Me, Owners
    <2>1. ASSUME NEW d \in Deploys, NEW entry \in Runs, Goes(d, entry), site' \in Sites,
                 overlapped' \in BOOLEAN
          PROVE  ConcurrentTypeOK'
      BY <2>1 DEF Goes, ConcurrentTypeOK
    <2>2. ASSUME NEW d \in Deploys, ReadStatusOf(d) PROVE ConcurrentTypeOK'
      <3>1. [dep[d] EXCEPT !.before = site.status, !.at = IF setting.native THEN "prior" ELSE "shut"]
               \in Runs
        BY <2>0 DEF Runs, RunStages, ConcurrentTypeOK, Sites
      <3>2. overlapped' \in BOOLEAN
        BY <2>2 DEF ReadStatusOf, ConcurrentTypeOK
      <3>3. QED
        BY <2>1, <2>2, <3>1, <3>2 DEF ReadStatusOf, ConcurrentTypeOK
    <2>3. ASSUME NEW d \in Deploys, ReadHolder(d) PROVE ConcurrentTypeOK'
      <3> DEFINE read == [dep[d] EXCEPT !.priorBy = site.by, !.priorComment = site.comment]
      <3>1. read \in Runs
        BY <2>0 DEF Runs, ConcurrentTypeOK, Sites
      <3>2. Anothers(d, read) \in Runs /\ [read EXCEPT !.at = "lock"] \in Runs
        BY <3>1 DEF Anothers, Runs, RunStages
      <3>3. site' \in Sites /\ overlapped' \in BOOLEAN
        BY <2>3 DEF ReadHolder, Same, ConcurrentTypeOK
      <3>4. QED
        BY <2>1, <2>3, <3>2, <3>3 DEF ReadHolder
    <2>4. ASSUME NEW d \in Deploys, TakeAppLock(d) PROVE ConcurrentTypeOK'
      <3>1. /\ [dep[d] EXCEPT !.at = "import", !.held = "app"] \in Runs
            /\ Anothers(d, dep[d]) \in Runs
        BY <2>0 DEF Anothers, Runs, RunStages
      <3>2. site' \in Sites /\ overlapped' \in BOOLEAN
        BY <2>0, <2>4 DEF TakeAppLock, ConcurrentTypeOK, Sites
      <3>3. QED
        BY <2>1, <2>4, <3>1, <3>2 DEF TakeAppLock
    <2>5. ASSUME NEW d \in Deploys, Shut(d) PROVE ConcurrentTypeOK'
      <3>1. [dep[d] EXCEPT !.at = "import", !.held = "status"] \in Runs
        BY <2>0 DEF Runs, RunStages
      <3>2. site' \in Sites /\ overlapped' \in BOOLEAN
        BY <2>5 DEF Shut, ConcurrentTypeOK, Sites
      <3>3. QED
        BY <2>1, <2>5, <3>1, <3>2 DEF Shut
    <2>6. ASSUME NEW d \in Deploys, ImportOf(d) PROVE ConcurrentTypeOK'
      <3>1. [dep[d] EXCEPT !.at = "restore"] \in Runs
        BY <2>0 DEF Runs, RunStages
      <3>2. [site EXCEPT !.status = "DEV", !.by = IF setting.native THEN @ ELSE Nobody] \in Sites
        BY DEF ConcurrentTypeOK, Sites, Owners
      <3>3. overlapped' \in BOOLEAN
        BY <2>6 DEF ImportOf, ConcurrentTypeOK
      <3>4. QED
        BY <2>1, <2>6, <3>1, <3>2, <3>3 DEF ImportOf
    <2>7. ASSUME NEW d \in Deploys, RestoreStatus(d) PROVE ConcurrentTypeOK'
      <3>1. [dep[d] EXCEPT !.at = IF dep[d].held = "app" THEN "unlock" ELSE "over"] \in Runs
        BY <2>0 DEF Runs, RunStages
      <3>2. [site EXCEPT !.status = Wanted(d)] \in Sites
        BY <2>0 DEF Wanted, Runs, ConcurrentTypeOK, Sites
      <3>3. overlapped' \in BOOLEAN
        BY <2>7 DEF RestoreStatus, ConcurrentTypeOK
      <3>4. QED
        BY <2>1, <2>7, <3>1, <3>2, <3>3 DEF RestoreStatus
    <2>8. ASSUME NEW d \in Deploys, ReleaseHold(d) PROVE ConcurrentTypeOK'
      <3>1. [dep[d] EXCEPT !.at = "over", !.held = "none"] \in Runs
        BY <2>0 DEF Runs, RunStages
      <3>2. site' \in Sites
        BY <2>0, <2>8 DEF ReleaseHold, Runs, ConcurrentTypeOK, Sites, Owners
      <3>3. overlapped' \in BOOLEAN
        BY <2>8 DEF ReleaseHold, ConcurrentTypeOK
      <3>4. QED
        BY <2>1, <2>8, <3>1, <3>2, <3>3 DEF ReleaseHold
    <2>9. CASE UNCHANGED deploysVars
      BY <2>9 DEF deploysVars, ConcurrentTypeOK
    <2>10. QED
      BY <2>2, <2>3, <2>4, <2>5, <2>6, <2>7, <2>8, <2>9 DEF DeploysNext
  <1>3. QED
    BY <1>1, <1>2, PTL DEF DeploysSpec

-----------------------------------------------------------------------------
(* A step leaves the other runs as they are.                                 *)
LEMMA OthersStay ==
  ASSUME ConcurrentTypeOK, NEW d \in Deploys, NEW entry, Goes(d, entry)
  PROVE  /\ dep'[d] = entry /\ \A e \in Deploys \ {d} : dep'[e] = dep[e]
         /\ setting' = setting /\ first' = first
  BY DEF Goes, ConcurrentTypeOK

(* Developers of their own never take the lock from one another.              *)
LEMMA HolderStep ==
    ConcurrentTypeOK /\ EachTheirOwn /\ HolderIsMine /\ [DeploysNext]_deploysVars => (EachTheirOwn /\ HolderIsMine)'
  <1> SUFFICES ASSUME ConcurrentTypeOK, EachTheirOwn, HolderIsMine, [DeploysNext]_deploysVars
               PROVE (EachTheirOwn /\ HolderIsMine)'
    OBVIOUS
  <1>1. setting' = setting /\ EachTheirOwn'
    BY DEF DeploysNext, deploysVars, ReadStatusOf, ReadHolder, TakeAppLock, Shut, ImportOf, RestoreStatus,
           ReleaseHold, Goes, EachTheirOwn, Me
  <1>2. \A d \in Deploys : dep[d] \in Runs /\ Me(d) \in Accounts /\ Me(d) # Nobody
    BY ConcurrentAssumption DEF ConcurrentTypeOK, Me, ConcurrentAssumption
  <1>3. ASSUME NEW d \in Deploys, NEW entry, Goes(d, entry),
               entry.at \in {"prior", "lock", "unlock"} => setting.native,
               entry.held = "app" => setting.native /\ site'.by = Me(d),
               \A e \in Deploys \ {d} : dep[e].held = "app" => site'.by = site.by
        PROVE  HolderIsMine'
    BY <1>1, <1>3, OthersStay DEF HolderIsMine, Me
  <1>4. ASSUME NEW d \in Deploys, ReadStatusOf(d) PROVE HolderIsMine'
    BY <1>2, <1>3, <1>4 DEF ReadStatusOf, HolderIsMine, Runs
  <1>5. ASSUME NEW d \in Deploys, ReadHolder(d) PROVE HolderIsMine'
    BY <1>2, <1>3, <1>5 DEF ReadHolder, Anothers, Same, HolderIsMine, Runs
  <1>6. ASSUME NEW d \in Deploys, TakeAppLock(d) PROVE HolderIsMine'
    <2>1. CASE Locks(d)
      <3>1. \A e \in Deploys \ {d} : dep[e].held # "app"
        BY <2>1, <1>2 DEF Locks, HolderIsMine, EachTheirOwn
      <3>2. QED
        BY <1>2, <1>3, <1>6, <2>1, <3>1 DEF TakeAppLock, HolderIsMine, Runs, ConcurrentTypeOK, Sites
    <2>2. CASE ~Locks(d)
      BY <1>2, <1>3, <1>6, <2>2 DEF TakeAppLock, Anothers, HolderIsMine, Runs
    <2>3. QED
      BY <2>1, <2>2
  <1>7. ASSUME NEW d \in Deploys, Shut(d) PROVE HolderIsMine'
    BY <1>2, <1>3, <1>7 DEF Shut, HolderIsMine, Runs, ConcurrentTypeOK, Sites
  <1>8. ASSUME NEW d \in Deploys, ImportOf(d) PROVE HolderIsMine'
    BY <1>2, <1>3, <1>8 DEF ImportOf, HolderIsMine, Runs, ConcurrentTypeOK, Sites
  <1>9. ASSUME NEW d \in Deploys, RestoreStatus(d) PROVE HolderIsMine'
    BY <1>2, <1>3, <1>9 DEF RestoreStatus, HolderIsMine, Runs, ConcurrentTypeOK, Sites
  <1>10. ASSUME NEW d \in Deploys, ReleaseHold(d) PROVE HolderIsMine'
    <2>1. \A e \in Deploys \ {d} : dep[e].held = "app" => site.by \notin {Nobody, Me(d)}
      BY <1>2 DEF HolderIsMine, EachTheirOwn
    <2>2. \A e \in Deploys \ {d} : dep[e].held = "app" => site'.by = site.by
      BY <1>10, <2>1 DEF ReleaseHold
    <2>3. QED
      BY <1>2, <1>3, <1>10, <2>2 DEF ReleaseHold, Runs
  <1>11. CASE UNCHANGED deploysVars
    <2>1. dep' = dep /\ site' = site
      BY <1>11 DEF deploysVars
    <2>2. QED
      BY <1>1, <2>1 DEF HolderIsMine, Me
  <1>12. QED
    BY <1>1, <1>4, <1>5, <1>6, <1>7, <1>8, <1>9, <1>10, <1>11 DEF DeploysNext

(* OneDeveloperHolds, an invariant of the run Services, for any number of
   deploys: each reads the holder and then locks, and still two developers
   never both hold the application.                                          *)
THEOREM OnlyOneHolds == DeploysSpec => []OneDeveloperHolds
  <1>1. DeploysInit => (EachTheirOwn => HolderIsMine)
    <2> SUFFICES ASSUME DeploysInit, NEW d \in Deploys
                 PROVE  dep[d].at \notin {"prior", "lock", "unlock"} /\ dep[d].held # "app"
      BY DEF HolderIsMine
    <2>1. QED
      BY DEF DeploysInit
  <1>2. ConcurrentTypeOK /\ (EachTheirOwn => HolderIsMine) /\ [DeploysNext]_deploysVars
           => (EachTheirOwn => HolderIsMine)'
    <2>1. [DeploysNext]_deploysVars => (EachTheirOwn' => EachTheirOwn)
      BY DEF DeploysNext, deploysVars, ReadStatusOf, ReadHolder, TakeAppLock, Shut, ImportOf,
             RestoreStatus, ReleaseHold, Goes, EachTheirOwn, Me
    <2>2. QED
      BY <2>1, HolderStep
  <1>3. (EachTheirOwn => HolderIsMine) => OneDeveloperHolds
    <2> SUFFICES ASSUME EachTheirOwn, HolderIsMine, NEW d \in Deploys, NEW e \in Deploys,
                        dep[d].held = "app", dep[e].held = "app"
                 PROVE  d = e
      BY DEF OneDeveloperHolds, EachTheirOwn
    <2>1. Me(d) = Me(e)
      BY DEF HolderIsMine
    <2>2. QED
      BY <2>1 DEF EachTheirOwn
  <1>4. QED
    BY <1>1, <1>2, <1>3, DeploysType, PTL DEF DeploysSpec

-----------------------------------------------------------------------------
(* Where a step takes its run.                                               *)
LEMMA NextPoint ==
  ASSUME ConcurrentTypeOK, NEW d \in Deploys
  PROVE  /\ ReadHolder(d) => dep'[d].at \in {"lock", "shut", "over"} /\ dep'[d].held = dep[d].held
         /\ TakeAppLock(d) => dep'[d].at \in {"import", "shut", "over"}
         /\ Shut(d) => dep'[d].at = "import" /\ dep'[d].held = "status"
         /\ ImportOf(d) => dep'[d].at = "restore" /\ dep'[d].held = dep[d].held
         /\ RestoreStatus(d) => dep'[d].at = (IF dep[d].held = "app" THEN "unlock" ELSE "over")
                                /\ dep'[d].held = dep[d].held
         /\ ReleaseHold(d) => dep'[d].at = "over" /\ dep'[d].held = "none"
  <1>1. dep[d] \in Runs
    BY DEF ConcurrentTypeOK
  <1>2. ReadHolder(d) => dep'[d].at \in {"lock", "shut", "over"} /\ dep'[d].held = dep[d].held
    BY <1>1 DEF ReadHolder, Anothers, Goes, Runs, ConcurrentTypeOK
  <1>3. TakeAppLock(d) => dep'[d].at \in {"import", "shut", "over"}
    <2>1. CASE Locks(d)
      <3>1. TakeAppLock(d) => Goes(d, [dep[d] EXCEPT !.at = "import", !.held = "app"])
        BY <2>1 DEF TakeAppLock
      <3>2. [dep[d] EXCEPT !.at = "import", !.held = "app"].at = "import"
        BY <1>1 DEF Runs
      <3>3. QED
        BY <3>1, <3>2, OthersStay
    <2>2. CASE ~Locks(d)
      BY <1>1, <2>2 DEF TakeAppLock, Anothers, Goes, Runs, ConcurrentTypeOK
    <2>3. QED
      BY <2>1, <2>2
  <1>4. Shut(d) => dep'[d].at = "import" /\ dep'[d].held = "status"
    BY <1>1 DEF Shut, Goes, Runs, ConcurrentTypeOK
  <1>5. ImportOf(d) => dep'[d].at = "restore" /\ dep'[d].held = dep[d].held
    BY <1>1 DEF ImportOf, Goes, Runs, ConcurrentTypeOK
  <1>6. RestoreStatus(d) => dep'[d].at = (IF dep[d].held = "app" THEN "unlock" ELSE "over")
                                 /\ dep'[d].held = dep[d].held
    BY <1>1 DEF RestoreStatus, Goes, Runs, ConcurrentTypeOK
  <1>7. ReleaseHold(d) => dep'[d].at = "over" /\ dep'[d].held = "none"
    BY <1>1 DEF ReleaseHold, Goes, Runs, ConcurrentTypeOK
  <1>8. QED
    BY <1>2, <1>3, <1>4, <1>5, <1>6, <1>7

(* One step of a run that has begun, when no other is under way.             *)
LEMMA OwesStep ==
  ASSUME ConcurrentTypeOK, HolderShape, NEW d \in Deploys, Between(d), Owes(d),
         first.comment = OwnComment,
         \/ ReadHolder(d) \/ TakeAppLock(d) \/ Shut(d)
         \/ ImportOf(d) \/ RestoreStatus(d) \/ ReleaseHold(d)
  PROVE  (Between(d) => Owes(d))' /\ (dep'[d].at = "over" => AsFound')
  <1>1. dep[d] \in Runs /\ Me(d) \in Accounts /\ Me(d) # Nobody
    BY ConcurrentAssumption DEF ConcurrentTypeOK, Me, ConcurrentAssumption
  <1>2. setting' = setting /\ first' = first /\ Me(d)' = Me(d)
    BY DEF ReadHolder, TakeAppLock, Shut, ImportOf, RestoreStatus, ReleaseHold, Goes, Me
  <1>3. CASE ReadHolder(d)
    <2> DEFINE read == [dep[d] EXCEPT !.priorBy = site.by, !.priorComment = site.comment]
               entry == IF site.by \notin {Nobody, Me(d)} THEN Anothers(d, read)
                        ELSE [read EXCEPT !.at = "lock"]
    <2>1. dep'[d] = entry /\ site' = site
      BY <1>3, OthersStay DEF ReadHolder, Same
    <2>2. entry.before = dep[d].before /\ entry.at \in {"lock", "shut", "over"}
          /\ entry.priorBy = site.by /\ entry.priorComment = site.comment
      BY <1>1 DEF Anothers, Runs
    <2>3. AsFound /\ setting.native /\ AsFound'
      BY <1>2, <1>3, <2>1 DEF ReadHolder, Owes, HolderShape, AsFound, LockAsFound
    <2>4. dep'[d].at = "lock" => FoundLock(d)'
      BY <1>2, <2>1, <2>2, <2>3 DEF AsFound, LockAsFound, FoundLock
    <2>5. QED
      BY <1>2, <2>1, <2>2, <2>3, <2>4 DEF Owes
  <1>4. CASE TakeAppLock(d)
    <2>1. AsFound /\ setting.native /\ FoundLock(d)
      BY <1>4 DEF TakeAppLock, Owes, HolderShape
    <2>2. CASE Locks(d)
      <3>1. /\ dep'[d] = [dep[d] EXCEPT !.at = "import", !.held = "app"]
            /\ site' = [site EXCEPT !.by = Me(d), !.comment = d]
        BY <1>4, <2>2, OthersStay DEF TakeAppLock
      <3>2. dep'[d].at = "import" /\ dep'[d].held = "app" /\ dep'[d].before = first.status
            /\ dep'[d].priorBy = first.by /\ dep'[d].priorComment = first.comment
        BY <1>1, <2>1, <3>1 DEF Owes, FoundLock, Runs
      <3>3. site'.by = Me(d)
        BY <3>1 DEF ConcurrentTypeOK, Sites
      <3>4. first.by \in {Nobody, Me(d)}
        BY <2>1, <2>2 DEF Locks, AsFound, LockAsFound
      <3>5. QED
        BY <1>2, <2>1, <3>2, <3>3, <3>4 DEF Owes, TakenByMe, FoundLock
    <2>3. CASE ~Locks(d)
      <3>1. dep'[d] = Anothers(d, dep[d]) /\ site' = site
        BY <1>4, <2>3, OthersStay DEF TakeAppLock
      <3>2. dep'[d].before = dep[d].before /\ dep'[d].at \in {"shut", "over"}
        BY <1>1, <3>1 DEF Anothers, Runs
      <3>3. QED
        BY <1>2, <2>1, <3>1, <3>2 DEF Owes, AsFound, LockAsFound
    <2>4. QED
      BY <2>2, <2>3
  <1>5. CASE Shut(d)
    <2>1. dep'[d] = [dep[d] EXCEPT !.at = "import", !.held = "status"]
          /\ site' = [site EXCEPT !.status = "RUN_ONLY"]
      BY <1>5, OthersStay DEF Shut
    <2>2. dep'[d].at = "import" /\ dep'[d].held = "status" /\ dep'[d].before = first.status
      BY <1>1, <2>1 DEF Owes, Runs
    <2>3. site'.by = site.by /\ site'.comment = site.comment /\ AsFound
      BY <1>5, <2>1 DEF Shut, Owes, ConcurrentTypeOK, Sites
    <2>4. QED
      BY <1>2, <2>2, <2>3 DEF Owes, AsFound, LockAsFound
  <1>6. CASE ImportOf(d)
    <2>1. dep'[d] = [dep[d] EXCEPT !.at = "restore"]
          /\ site' = [site EXCEPT !.status = "DEV", !.by = IF setting.native THEN @ ELSE Nobody]
      BY <1>6, OthersStay DEF ImportOf
    <2>2. dep'[d].at = "restore" /\ dep'[d].held = dep[d].held /\ dep'[d].before = dep[d].before
          /\ dep'[d].priorBy = dep[d].priorBy /\ dep'[d].priorComment = dep[d].priorComment
      BY <1>1, <2>1 DEF Runs
    <2>3. setting.native => site'.by = site.by /\ site'.comment = site.comment
      BY <2>1 DEF ConcurrentTypeOK, Sites
    <2>4. dep[d].at = "import"
      BY <1>6 DEF ImportOf
    <2>5. QED
      BY <1>2, <2>2, <2>3, <2>4 DEF Owes, LockAsFound, TakenByMe, FoundLock
  <1>7. CASE RestoreStatus(d)
    <2>1. dep'[d] = [dep[d] EXCEPT !.at = IF dep[d].held = "app" THEN "unlock" ELSE "over"]
          /\ site' = [site EXCEPT !.status = dep[d].before] /\ dep[d].at = "restore"
      BY <1>7, OthersStay DEF RestoreStatus, Wanted
    <2>2. dep'[d].at = (IF dep[d].held = "app" THEN "unlock" ELSE "over")
          /\ dep'[d].before = dep[d].before
          /\ dep'[d].priorBy = dep[d].priorBy /\ dep'[d].priorComment = dep[d].priorComment
      BY <1>1, <2>1 DEF Runs
    <2>3. site'.status = first.status /\ site'.by = site.by /\ site'.comment = site.comment
      BY <2>1 DEF Owes, ConcurrentTypeOK, Sites
    <2>4. CASE dep[d].held = "app"
      <3>1. TakenByMe(d)'
        BY <1>2, <2>1, <2>2, <2>3, <2>4 DEF Owes, TakenByMe, FoundLock
      <3>2. dep'[d].at = "unlock"
        BY <2>2, <2>4
      <3>3. QED
        BY <1>2, <2>2, <2>3, <3>1, <3>2 DEF Owes
    <2>5. CASE dep[d].held # "app"
      <3>1. setting.native => LockAsFound
        BY <2>1, <2>5 DEF Owes
      <3>2. AsFound'
        BY <1>2, <2>3, <3>1 DEF AsFound, LockAsFound
      <3>3. QED
        BY <2>2, <2>5, <3>2 DEF Between
    <2>6. QED
      BY <2>4, <2>5
  <1>8. CASE ReleaseHold(d)
    <2>1. TakenByMe(d) /\ site.status = first.status /\ dep'[d].at = "over"
      BY <1>8, NextPoint DEF ReleaseHold, Owes
    <2>2. site.by = Me(d)
      BY <2>1 DEF TakenByMe
    <2>3. site' = IF dep[d].priorBy = Me(d)
                  THEN [site EXCEPT !.by = Me(d), !.comment = dep[d].priorComment]
                  ELSE [site EXCEPT !.by = Nobody, !.comment = OwnComment]
      BY <1>8, <2>2 DEF ReleaseHold
    <2>4. /\ site'.status = site.status
          /\ site'.by = (IF dep[d].priorBy = Me(d) THEN Me(d) ELSE Nobody)
          /\ site'.comment = (IF dep[d].priorBy = Me(d) THEN dep[d].priorComment ELSE OwnComment)
      BY <2>3 DEF ConcurrentTypeOK, Sites
    <2>5. AsFound'
      BY <1>2, <2>1, <2>4 DEF TakenByMe, FoundLock, AsFound, LockAsFound
    <2>6. QED
      BY <2>1, <2>5 DEF Between
  <1>9. QED
    BY <1>3, <1>4, <1>5, <1>6, <1>7, <1>8

LEMMA AloneStep ==
    ConcurrentTypeOK /\ HolderShape /\ AloneInv /\ [DeploysNext]_deploysVars => (HolderShape /\ AloneInv)'
  <1> SUFFICES ASSUME ConcurrentTypeOK, HolderShape, AloneInv, [DeploysNext]_deploysVars
               PROVE (HolderShape /\ AloneInv)'
    OBVIOUS
  <1>1. \A d \in Deploys : dep[d] \in Runs
    BY DEF ConcurrentTypeOK
  <1>2. ASSUME NEW d \in Deploys, ReadStatusOf(d) PROVE (HolderShape /\ AloneInv)'
    <2> DEFINE entry == [dep[d] EXCEPT !.before = site.status,
                                       !.at = IF setting.native THEN "prior" ELSE "shut"]
    <2>1. /\ dep'[d] = entry /\ \A e \in Deploys \ {d} : dep'[e] = dep[e]
          /\ setting' = setting /\ first' = first /\ site' = site
      BY <1>2, OthersStay DEF ReadStatusOf
    <2>2. entry.before = site.status /\ entry.at = (IF setting.native THEN "prior" ELSE "shut")
      BY <1>1 DEF Runs
    <2>3. HolderShape'
      <3>1. entry.held = dep[d].held
        BY <1>1 DEF Runs
      <3>2. entry.at \in {"prior", "lock", "unlock"} \/ entry.held = "app" => setting.native
        BY <2>2, <3>1 DEF HolderShape
      <3>3. QED
        BY <2>1, <3>2 DEF HolderShape
    <2>4. ASSUME ~overlapped' PROVE Alone' /\ Owes(d)'
      <3>1. ~overlapped /\ \A e \in Deploys \ {d} : ~Between(e)
        BY <1>2, <2>4 DEF ReadStatusOf
      <3>2. AsFound
        BY <1>2, <3>1 DEF AloneInv, ReadStatusOf, Between
      <3>3. \A e \in Deploys \ {d} : ~Between(e)'
        BY <2>1, <3>1 DEF Between
      <3>4. QED
        BY <2>1, <2>2, <3>2, <3>3 DEF Alone, Owes, AsFound, LockAsFound
    <2>5. Between(d)'
      BY <2>1, <2>2 DEF Between
    <2>6. QED
      BY <2>1, <2>3, <2>4, <2>5 DEF AloneInv, Alone
  <1>3. ASSUME NEW d \in Deploys,
               \/ ReadHolder(d) \/ TakeAppLock(d) \/ Shut(d)
               \/ ImportOf(d) \/ RestoreStatus(d) \/ ReleaseHold(d)
        PROVE  (HolderShape /\ AloneInv)'
    <2>1. Between(d) /\ overlapped' = overlapped
      BY <1>3 DEF ReadHolder, Same, TakeAppLock, Shut, ImportOf, RestoreStatus, ReleaseHold, Between
    <2>2. PICK entry : Goes(d, entry)
      BY <1>3 DEF ReadHolder, TakeAppLock, Shut, ImportOf, RestoreStatus, ReleaseHold
    <2>3. /\ \A e \in Deploys \ {d} : dep'[e] = dep[e]
          /\ setting' = setting /\ first' = first
      BY <2>2, OthersStay
    <2>4. dep'[d].at \in {"prior", "lock", "unlock"} \/ dep'[d].held = "app" => setting.native
      <3>1. CASE ReadHolder(d) \/ TakeAppLock(d)
        BY <3>1 DEF ReadHolder, TakeAppLock, HolderShape
      <3>2. CASE Shut(d) \/ ImportOf(d) \/ RestoreStatus(d) \/ ReleaseHold(d)
        BY <3>2, NextPoint DEF HolderShape
      <3>3. QED
        BY <1>3, <3>1, <3>2
    <2>5. HolderShape'
      BY <2>3, <2>4 DEF HolderShape
    <2>6. ASSUME ~overlapped
          PROVE  /\ Alone' /\ (Between(d) => Owes(d))' /\ \A e \in Deploys \ {d} : ~Between(e)'
                 /\ ~Between(d)' => AsFound'
      <3>1. \A e \in Deploys \ {d} : ~Between(e)
        BY <2>1, <2>6 DEF AloneInv, Alone
      <3>2. \A e \in Deploys \ {d} : ~Between(e)'
        BY <2>3, <3>1 DEF Between
      <3>3. Owes(d) /\ first.comment = OwnComment
        BY <2>1, <2>6 DEF AloneInv
      <3>4. (Between(d) => Owes(d))' /\ (dep'[d].at = "over" => AsFound')
        <4>1. ReadHolder(d) \/ TakeAppLock(d) \/ Shut(d) \/ ImportOf(d) \/ RestoreStatus(d) \/ ReleaseHold(d)
          BY <1>3
        <4>2. QED
          BY <2>1, <3>3, <4>1, OwesStep
      <3>5. dep'[d].at # "begin"
        BY <1>3, NextPoint
      <3>6. QED
        BY <3>2, <3>4, <3>5 DEF Alone, Between
    <2>7. QED
      BY <2>1, <2>3, <2>5, <2>6 DEF AloneInv
  <1>4. CASE UNCHANGED deploysVars
    <2>1. /\ dep' = dep /\ site' = site /\ setting' = setting /\ first' = first
          /\ overlapped' = overlapped
      BY <1>4 DEF deploysVars
    <2>2. QED
      BY <2>1 DEF HolderShape, AloneInv, Alone, Between, Owes, AsFound, LockAsFound, TakenByMe, FoundLock, Me
  <1>5. QED
    BY <1>2, <1>3, <1>4 DEF DeploysNext

(* Holding lasts from the lock call to its release.                            *)
LEMMA HeldStep == ConcurrentTypeOK /\ HeldBetween /\ [DeploysNext]_deploysVars => HeldBetween'
  <1> SUFFICES ASSUME ConcurrentTypeOK, HeldBetween, [DeploysNext]_deploysVars PROVE HeldBetween'
    OBVIOUS
  <1>1. \A d \in Deploys : dep[d] \in Runs
    BY DEF ConcurrentTypeOK
  <1>2. ASSUME NEW d \in Deploys, NEW entry, Goes(d, entry),
               entry.held = "app" => entry.at \in {"import", "restore", "unlock"},
               entry.at = "unlock" => entry.held = "app"
        PROVE  HeldBetween'
    BY <1>2, OthersStay DEF HeldBetween
  <1>3. ASSUME NEW d \in Deploys, ReadStatusOf(d) PROVE HeldBetween'
    BY <1>1, <1>2, <1>3 DEF ReadStatusOf, HeldBetween, Runs
  <1>4. ASSUME NEW d \in Deploys, ReadHolder(d) PROVE HeldBetween'
    BY <1>1, <1>2, <1>4 DEF ReadHolder, Anothers, HeldBetween, Runs
  <1>5. ASSUME NEW d \in Deploys, TakeAppLock(d) PROVE HeldBetween'
    <2>1. CASE Locks(d)
      BY <1>1, <1>2, <1>5, <2>1 DEF TakeAppLock, Runs
    <2>2. CASE ~Locks(d)
      BY <1>1, <1>2, <1>5, <2>2 DEF TakeAppLock, Anothers, HeldBetween, Runs
    <2>3. QED
      BY <2>1, <2>2
  <1>6. ASSUME NEW d \in Deploys, Shut(d) PROVE HeldBetween'
    BY <1>1, <1>2, <1>6 DEF Shut, Runs
  <1>7. ASSUME NEW d \in Deploys, ImportOf(d) PROVE HeldBetween'
    BY <1>1, <1>2, <1>7 DEF ImportOf, Runs
  <1>8. ASSUME NEW d \in Deploys, RestoreStatus(d) PROVE HeldBetween'
    BY <1>1, <1>2, <1>8 DEF RestoreStatus, Runs
  <1>9. ASSUME NEW d \in Deploys, ReleaseHold(d) PROVE HeldBetween'
    BY <1>1, <1>2, <1>9 DEF ReleaseHold, Runs
  <1>10. CASE UNCHANGED deploysVars
    BY <1>10 DEF deploysVars, HeldBetween
  <1>11. QED
    BY <1>3, <1>4, <1>5, <1>6, <1>7, <1>8, <1>9, <1>10 DEF DeploysNext

(* Developers of their own hand the lock on as it was found.                   *)
LEMMA OwnLocksStep ==
    ConcurrentTypeOK /\ HeldBetween /\ setting.native /\ EachTheirOwn /\ OwnLocksInv
        /\ [DeploysNext]_deploysVars => OwnLocksInv'
  <1> SUFFICES ASSUME ConcurrentTypeOK, HeldBetween, setting.native, EachTheirOwn, OwnLocksInv,
                      [DeploysNext]_deploysVars
               PROVE OwnLocksInv'
    OBVIOUS
  <1>1. \A d \in Deploys : dep[d] \in Runs /\ Me(d) \in Accounts /\ Me(d) # Nobody
    BY ConcurrentAssumption DEF ConcurrentTypeOK, Me, ConcurrentAssumption
  <1>2. HolderIsMine' /\ setting' = setting /\ first' = first
    <2>1. setting' = setting /\ first' = first
      BY DEF DeploysNext, deploysVars, ReadStatusOf, ReadHolder, TakeAppLock, Shut, ImportOf,
             RestoreStatus, ReleaseHold, Goes
    <2>2. QED
      BY <2>1, HolderStep DEF OwnLocksInv
  <1>3. \A d, e \in Deploys : dep[d].held = "app" /\ dep[e].held = "app" => d = e
    BY DEF OwnLocksInv, HolderIsMine, EachTheirOwn
  (* A step that leaves the lock and who holds it alone.                      *)
  <1>4. ASSUME NEW d \in Deploys, NEW entry, Goes(d, entry), site'.by = site.by,
               site'.comment = site.comment, entry.held = "app" <=> dep[d].held = "app",
               entry.at = "lock" \/ entry.held = "app" =>
                  first.by \in {Nobody, Me(d)} /\ entry.priorBy = first.by
                     /\ entry.priorComment = first.comment
        PROVE  OwnLocksInv'
    <2>1. /\ dep'[d] = entry /\ \A e \in Deploys \ {d} : dep'[e] = dep[e]
      BY <1>4, OthersStay
    <2>2. \A e \in Deploys : (dep[e].held = "app")' <=> dep[e].held = "app"
      BY <1>4, <2>1
    <2>3. (\A e \in Deploys : dep[e].held # "app")' => LockAsFound'
      BY <1>2, <1>4, <2>2 DEF OwnLocksInv, LockAsFound
    <2>4. \A e \in Deploys : (dep[e].at = "lock" \/ dep[e].held = "app" => Keeps(e))'
      BY <1>2, <1>4, <2>1 DEF OwnLocksInv, Keeps, FoundLock, Me
    <2>5. QED
      BY <1>2, <2>3, <2>4 DEF OwnLocksInv
  <1>5. ASSUME NEW d \in Deploys, ReadStatusOf(d) PROVE OwnLocksInv'
    <2> DEFINE entry == [dep[d] EXCEPT !.before = site.status,
                                       !.at = IF setting.native THEN "prior" ELSE "shut"]
    <2>1. Goes(d, entry) /\ site' = site
      BY <1>5 DEF ReadStatusOf
    <2>2. entry.at = "prior" /\ entry.held = dep[d].held /\ entry.priorBy = dep[d].priorBy
          /\ entry.priorComment = dep[d].priorComment
      BY <1>1 DEF Runs
    <2> HIDE DEF entry
    <2>3. QED
      BY <1>4, <2>1, <2>2 DEF OwnLocksInv, Keeps, FoundLock
  <1>6. ASSUME NEW d \in Deploys, ReadHolder(d) PROVE OwnLocksInv'
    <2> DEFINE read == [dep[d] EXCEPT !.priorBy = site.by, !.priorComment = site.comment]
               entry == IF site.by \notin {Nobody, Me(d)} THEN Anothers(d, read)
                        ELSE [read EXCEPT !.at = "lock"]
    <2>1. Goes(d, entry) /\ site' = site /\ dep[d].at = "prior"
      BY <1>6 DEF ReadHolder, Same
    <2>2. dep[d].held # "app"
      BY <2>1 DEF HeldBetween
    <2>3. /\ entry.held = dep[d].held /\ entry.priorBy = site.by /\ entry.priorComment = site.comment
          /\ entry.at = "lock" <=> site.by \in {Nobody, Me(d)}
      BY <1>1 DEF Anothers, Runs
    <2> HIDE DEF entry, read
    <2>4. ASSUME entry.at = "lock"
          PROVE  first.by \in {Nobody, Me(d)} /\ site.by = first.by /\ site.comment = first.comment
      <3>1. \A e \in Deploys : dep[e].held # "app"
        BY <1>1, <2>2, <2>3, <2>4 DEF OwnLocksInv, HolderIsMine, EachTheirOwn
      <3>2. QED
        BY <2>3, <2>4, <3>1 DEF OwnLocksInv, LockAsFound
    <2>5. QED
      BY <1>4, <2>1, <2>2, <2>3, <2>4
  <1>7. ASSUME NEW d \in Deploys, TakeAppLock(d) PROVE OwnLocksInv'
    <2>1. CASE Locks(d)
      <3>1. /\ dep'[d] = [dep[d] EXCEPT !.at = "import", !.held = "app"]
            /\ \A e \in Deploys \ {d} : dep'[e] = dep[e]
        BY <1>7, <2>1, OthersStay DEF TakeAppLock
      <3>2. /\ dep'[d].held = "app" /\ dep'[d].priorBy = dep[d].priorBy
            /\ dep'[d].priorComment = dep[d].priorComment
        BY <1>1, <3>1 DEF Runs
      <3>3. Keeps(d)
        BY <1>7 DEF TakeAppLock, OwnLocksInv
      <3>4. \A e \in Deploys : (dep[e].at = "lock" \/ dep[e].held = "app" => Keeps(e))'
        <4>1. ASSUME NEW e \in Deploys, e # d
              PROVE  (dep[e].at = "lock" \/ dep[e].held = "app" => Keeps(e))'
          <5>1. dep'[e] = dep[e] /\ Me(e)' = Me(e)
            BY <1>2, <3>1, <4>1 DEF Me
          <5>2. QED
            BY <1>2, <5>1 DEF OwnLocksInv, Keeps, FoundLock
        <4>2. Keeps(d)'
          BY <1>2, <3>2, <3>3 DEF Keeps, FoundLock, Me
        <4>3. QED
          BY <4>1, <4>2
      <3>5. QED
        BY <1>2, <3>2, <3>4 DEF OwnLocksInv
    <2>2. CASE ~Locks(d)
      <3>1. Goes(d, Anothers(d, dep[d])) /\ site' = site /\ dep[d].at = "lock"
        BY <1>7, <2>2 DEF TakeAppLock
      <3>2. Anothers(d, dep[d]).held = dep[d].held /\ Anothers(d, dep[d]).at \in {"shut", "over"}
        BY <1>1 DEF Anothers, Runs
      <3>3. dep[d].held # "app"
        BY <3>1 DEF HeldBetween
      <3>4. QED
        BY <1>4, <3>1, <3>2, <3>3
    <2>3. QED
      BY <2>1, <2>2
  <1>8. ASSUME NEW d \in Deploys, Shut(d) PROVE OwnLocksInv'
    <2> DEFINE entry == [dep[d] EXCEPT !.at = "import", !.held = "status"]
    <2>1. Goes(d, entry) /\ site' = [site EXCEPT !.status = "RUN_ONLY"] /\ dep[d].at = "shut"
      BY <1>8 DEF Shut
    <2>2. entry.held = "status" /\ entry.at = "import" /\ dep[d].held # "app"
      BY <1>1, <2>1 DEF Runs, HeldBetween
    <2>3. site'.by = site.by /\ site'.comment = site.comment
      BY <2>1 DEF ConcurrentTypeOK, Sites
    <2> HIDE DEF entry
    <2>4. QED
      BY <1>4, <2>1, <2>2, <2>3
  <1>9. ASSUME NEW d \in Deploys, ImportOf(d) PROVE OwnLocksInv'
    <2> DEFINE entry == [dep[d] EXCEPT !.at = "restore"]
    <2>1. Goes(d, entry) /\ site' = [site EXCEPT !.status = "DEV", !.by = IF setting.native THEN @ ELSE Nobody]
      BY <1>9 DEF ImportOf
    <2>2. /\ entry.at = "restore" /\ entry.held = dep[d].held /\ entry.priorBy = dep[d].priorBy
          /\ entry.priorComment = dep[d].priorComment
      BY <1>1 DEF Runs
    <2>3. site'.by = site.by /\ site'.comment = site.comment
      BY <2>1 DEF ConcurrentTypeOK, Sites
    <2> HIDE DEF entry
    <2>4. QED
      BY <1>4, <2>1, <2>2, <2>3 DEF OwnLocksInv, Keeps, FoundLock
  <1>10. ASSUME NEW d \in Deploys, RestoreStatus(d) PROVE OwnLocksInv'
    <2> DEFINE entry == [dep[d] EXCEPT !.at = IF dep[d].held = "app" THEN "unlock" ELSE "over"]
    <2>1. Goes(d, entry) /\ site' = [site EXCEPT !.status = Wanted(d)]
      BY <1>10 DEF RestoreStatus
    <2>2. /\ entry.at \in {"unlock", "over"} /\ entry.held = dep[d].held
          /\ entry.priorBy = dep[d].priorBy /\ entry.priorComment = dep[d].priorComment
      BY <1>1 DEF Runs
    <2>3. site'.by = site.by /\ site'.comment = site.comment
      BY <2>1 DEF ConcurrentTypeOK, Sites
    <2> HIDE DEF entry
    <2>4. QED
      BY <1>4, <2>1, <2>2, <2>3 DEF OwnLocksInv, Keeps, FoundLock
  <1>11. ASSUME NEW d \in Deploys, ReleaseHold(d) PROVE OwnLocksInv'
    <2>1. /\ dep'[d] = [dep[d] EXCEPT !.at = "over", !.held = "none"] /\ dep[d].at = "unlock"
          /\ \A e \in Deploys \ {d} : dep'[e] = dep[e]
      BY <1>11, OthersStay DEF ReleaseHold
    <2>2. dep'[d].at = "over" /\ dep'[d].held = "none"
      BY <1>1, <2>1 DEF Runs
    <2>3. dep[d].held = "app" /\ site.by = Me(d) /\ Keeps(d)
      BY <2>1 DEF HeldBetween, OwnLocksInv, HolderIsMine
    <2>4. site' = IF dep[d].priorBy = Me(d)
                  THEN [site EXCEPT !.by = Me(d), !.comment = dep[d].priorComment]
                  ELSE [site EXCEPT !.by = Nobody, !.comment = OwnComment]
      BY <1>11, <2>3 DEF ReleaseHold
    <2>5. /\ site'.by = (IF dep[d].priorBy = Me(d) THEN Me(d) ELSE Nobody)
          /\ site'.comment = (IF dep[d].priorBy = Me(d) THEN dep[d].priorComment ELSE OwnComment)
      BY <2>4 DEF ConcurrentTypeOK, Sites
    <2>6. LockAsFound'
      BY <1>2, <2>3, <2>5 DEF Keeps, FoundLock, LockAsFound, OwnLocksInv
    <2>7. \A e \in Deploys : (dep[e].at = "lock" \/ dep[e].held = "app" => Keeps(e))'
      <3>1. ASSUME NEW e \in Deploys, e # d
            PROVE  (dep[e].at = "lock" \/ dep[e].held = "app" => Keeps(e))'
        <4>1. dep'[e] = dep[e] /\ Me(e)' = Me(e)
          BY <1>2, <2>1, <3>1 DEF Me
        <4>2. QED
          BY <1>2, <4>1 DEF OwnLocksInv, Keeps, FoundLock
      <3>2. QED
        BY <2>2, <3>1
    <2>8. QED
      BY <1>2, <2>6, <2>7 DEF OwnLocksInv
  <1>12. CASE UNCHANGED deploysVars
    <2>1. dep' = dep /\ site' = site
      BY <1>12 DEF deploysVars
    <2>2. QED
      BY <1>2, <2>1 DEF OwnLocksInv, Keeps, FoundLock, LockAsFound, Me
  <1>13. QED
    BY <1>5, <1>6, <1>7, <1>8, <1>9, <1>10, <1>11, <1>12 DEF DeploysNext

(* Where nobody forces no run shuts, so none reads another's RUN_ONLY.          *)
LEMMA OpenStep ==
    ConcurrentTypeOK /\ HolderShape /\ NeverShut /\ OpenInv /\ [DeploysNext]_deploysVars => OpenInv'
  <1> SUFFICES ASSUME ConcurrentTypeOK, HolderShape, NeverShut, OpenInv, [DeploysNext]_deploysVars
               PROVE OpenInv'
    OBVIOUS
  <1>1. \A d \in Deploys : dep[d] \in Runs /\ ~Forces(d)
    BY DEF ConcurrentTypeOK, NeverShut, Forces
  <1>2. ASSUME NEW d \in Deploys, NEW entry, Goes(d, entry), site'.status = "DEV",
               entry.before = "DEV", entry.at # "shut"
        PROVE  OpenInv'
    BY <1>2, OthersStay DEF OpenInv
  <1>3. ASSUME NEW d \in Deploys, ReadStatusOf(d) PROVE OpenInv'
    BY <1>1, <1>2, <1>3 DEF ReadStatusOf, NeverShut, OpenInv, Runs
  <1>4. ASSUME NEW d \in Deploys, ReadHolder(d) PROVE OpenInv'
    BY <1>1, <1>2, <1>4 DEF ReadHolder, Same, Anothers, OpenInv, Runs
  <1>5. ASSUME NEW d \in Deploys, TakeAppLock(d) PROVE OpenInv'
    <2>1. CASE Locks(d)
      BY <1>1, <1>2, <1>5, <2>1 DEF TakeAppLock, OpenInv, Runs, ConcurrentTypeOK, Sites
    <2>2. CASE ~Locks(d)
      BY <1>1, <1>2, <1>5, <2>2 DEF TakeAppLock, Anothers, OpenInv, Runs
    <2>3. QED
      BY <2>1, <2>2
  <1>6. ASSUME NEW d \in Deploys, Shut(d) PROVE OpenInv'
    BY <1>6 DEF Shut, OpenInv
  <1>7. ASSUME NEW d \in Deploys, ImportOf(d) PROVE OpenInv'
    BY <1>1, <1>2, <1>7 DEF ImportOf, OpenInv, Runs, ConcurrentTypeOK, Sites
  <1>8. ASSUME NEW d \in Deploys, RestoreStatus(d) PROVE OpenInv'
    BY <1>1, <1>2, <1>8 DEF RestoreStatus, Wanted, OpenInv, Runs, ConcurrentTypeOK, Sites
  <1>9. ASSUME NEW d \in Deploys, ReleaseHold(d) PROVE OpenInv'
    <2>1. site'.status = site.status
      BY <1>9 DEF ReleaseHold, ConcurrentTypeOK, Sites
    <2>2. QED
      BY <1>1, <1>2, <1>9, <2>1 DEF ReleaseHold, OpenInv, Runs
  <1>10. CASE UNCHANGED deploysVars
    BY <1>10 DEF deploysVars, OpenInv
  <1>11. QED
    BY <1>3, <1>4, <1>5, <1>6, <1>7, <1>8, <1>9, <1>10 DEF DeploysNext

(* LeftAsFound, an invariant of the run Services, for any number of deploys:
   what runs that do not overlap leave, and what overlapping ones still do.    *)
THEOREM FoundIsLeft == DeploysSpec => []LeftAsFound
  <1> DEFINE Lock == setting.native /\ EachTheirOwn => OwnLocksInv
             Open == NeverShut => OpenInv
  <1>1. DeploysInit => HolderShape /\ AloneInv /\ HeldBetween /\ Lock /\ Open
    <2> SUFFICES ASSUME DeploysInit PROVE HolderShape /\ AloneInv /\ HeldBetween /\ Lock /\ Open
      OBVIOUS
    <2>1. \A d \in Deploys : dep[d].at = "begin" /\ dep[d].held = "none" /\ dep[d].before = "DEV"
      BY DEF DeploysInit
    <2>2. \A d \in Deploys : ~Between(d)
      BY <2>1 DEF Between
    <2>3. first = site /\ site.comment = OwnComment
      BY DEF DeploysInit
    <2>4. HolderShape /\ AloneInv
      BY <2>1, <2>2, <2>3 DEF HolderShape, AloneInv, Alone, AsFound, LockAsFound
    <2>5. HeldBetween /\ OwnLocksInv
      BY <2>1, <2>3 DEF HeldBetween, OwnLocksInv, HolderIsMine, LockAsFound
    <2>6. Open
      BY <2>1, <2>3 DEF NeverShut, OpenInv
    <2>7. QED
      BY <2>4, <2>5, <2>6
  <1>2. AloneInv /\ HeldBetween /\ Lock /\ Open => LeftAsFound
    <2> SUFFICES ASSUME AloneInv, HeldBetween, Lock, Open, \A d \in Deploys : ~Between(d)
                 PROVE  /\ ~overlapped \/ NeverShut => site.status = first.status
                        /\ setting.native /\ (~overlapped \/ EachTheirOwn) => LockAsFound
      BY DEF LeftAsFound, NeverShut, LockAsFound
    <2>1. \A d \in Deploys : dep[d].held # "app"
      BY DEF HeldBetween, Between
    <2>2. ~overlapped => AsFound
      BY DEF AloneInv
    <2>3. setting.native /\ EachTheirOwn => LockAsFound
      BY <2>1 DEF OwnLocksInv
    <2>4. NeverShut => site.status = first.status
      BY DEF NeverShut, OpenInv
    <2>5. QED
      BY <2>2, <2>3, <2>4 DEF AsFound
  <1>3. [DeploysNext]_deploysVars => setting' = setting /\ first' = first
    BY DEF DeploysNext, deploysVars, ReadStatusOf, ReadHolder, TakeAppLock, Shut, ImportOf,
           RestoreStatus, ReleaseHold, Goes
  <1>4. ConcurrentTypeOK /\ HeldBetween /\ Lock /\ [DeploysNext]_deploysVars => Lock'
    <2> SUFFICES ASSUME ConcurrentTypeOK, HeldBetween, Lock, [DeploysNext]_deploysVars,
                        setting'.native, EachTheirOwn'
                 PROVE  OwnLocksInv'
      OBVIOUS
    <2>1. setting.native /\ EachTheirOwn
      BY <1>3 DEF EachTheirOwn, Me
    <2>2. QED
      BY <2>1, OwnLocksStep
  <1>5. ConcurrentTypeOK /\ HolderShape /\ Open /\ [DeploysNext]_deploysVars => Open'
    <2> SUFFICES ASSUME ConcurrentTypeOK, HolderShape, Open, [DeploysNext]_deploysVars, NeverShut'
                 PROVE  OpenInv'
      OBVIOUS
    <2>1. NeverShut
      BY <1>3 DEF NeverShut
    <2>2. QED
      BY <2>1, OpenStep
  <1> HIDE DEF Lock, Open
  <1>6. QED
    BY <1>1, <1>2, <1>4, <1>5, AloneStep, HeldStep, DeploysType, PTL DEF DeploysSpec
=============================================================================
