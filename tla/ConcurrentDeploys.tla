--------------------------- MODULE ConcurrentDeploys ---------------------------
(***************************************************************************)
(* Several `adtai patch -deploy -app` runs, each with a ledger of its own,   *)
(* over one application of one target (patch/apex_lock.py and               *)
(* apex_app_lock.py).  PatchDeploy models one run in all its steps; here    *)
(* only the hold remains, and what the runs do to each other's: no call      *)
(* fails, nobody is in the App Builder, and the mode is `restore`.           *)
(***************************************************************************)
EXTENDS Naturals

CONSTANTS Deploys, Accounts, Nobody

ASSUME ConcurrentAssumption == Nobody \notin Accounts

VARIABLES setting,   \* the release, who runs each deploy, and which say -force
          site,      \* the application: build status, lock holder, its comment
          dep,       \* each run: where it is, and its entry in its ledger
          first,     \* history: the application before any of them
          overlapped \* history: one run began while another held or was taking
deploysVars == <<setting, site, dep, first, overlapped>>

OwnComment == "own"        \* the comment a developer's own lock carries
Owners == Accounts \cup {Nobody}
Sites == [status : {"DEV", "RUN_ONLY"}, by : Owners, comment : Deploys \cup {OwnComment}]
RunStages == {"begin", "prior", "lock", "shut", "import", "restore", "unlock", "over"}
Runs == [at : RunStages, before : {"DEV", "RUN_ONLY"}, priorBy : Owners,
         priorComment : Deploys \cup {OwnComment}, held : {"none", "status", "app"}]

ConcurrentTypeOK ==
    /\ setting \in [native : BOOLEAN, account : [Deploys -> Accounts], forced : SUBSET Deploys]
    /\ site \in Sites /\ first \in Sites /\ dep \in [Deploys -> Runs] /\ overlapped \in BOOLEAN

DeploysInit ==
    /\ setting \in [native : BOOLEAN, account : [Deploys -> Accounts], forced : SUBSET Deploys]
    /\ site \in [status : {"DEV", "RUN_ONLY"}, by : Owners, comment : {OwnComment}]
    /\ first = site /\ overlapped = FALSE
    /\ dep = [d \in Deploys |-> [at |-> "begin", before |-> "DEV", priorBy |-> Nobody,
                                 priorComment |-> OwnComment, held |-> "none"]]

-----------------------------------------------------------------------------
Me(d) == setting.account[d]
Forces(d) == d \in setting.forced
Between(d) == dep[d].at \notin {"begin", "over"}
Goes(d, entry) == dep' = [dep EXCEPT ![d] = entry] /\ UNCHANGED <<setting, first>>
Same == UNCHANGED <<site, overlapped>>

(* Somebody else's lock: refuse before anything is written, or under -force
   leave it there and shut the application by build status.                  *)
Anothers(d, entry) == [entry EXCEPT !.at = IF Forces(d) THEN "shut" ELSE "over"]

(* lock_target: the status this run will put back.                           *)
ReadStatusOf(d) ==
    /\ dep[d].at = "begin"
    /\ Goes(d, [dep[d] EXCEPT !.before = site.status,
                              !.at = IF setting.native THEN "prior" ELSE "shut"])
    /\ overlapped' = (overlapped \/ \E e \in Deploys \ {d} : Between(e))
    /\ UNCHANGED site

ReadHolder(d) ==
    /\ dep[d].at = "prior"
    /\ LET read == [dep[d] EXCEPT !.priorBy = site.by, !.priorComment = site.comment]
       IN Goes(d, IF site.by \notin {Nobody, Me(d)} THEN Anothers(d, read)
                  ELSE [read EXCEPT !.at = "lock"])
    /\ Same

(* The holder may have changed since it was read: the call's own answer
   decides.                                                                  *)
MutantLocks(d) == TRUE
Locks(d) == site.by \in {Nobody, Me(d)}
TakeAppLock(d) ==
    /\ dep[d].at = "lock"
    /\ IF Locks(d)
       THEN /\ Goes(d, [dep[d] EXCEPT !.at = "import", !.held = "app"])
            /\ site' = [site EXCEPT !.by = Me(d), !.comment = d]
       ELSE Goes(d, Anothers(d, dep[d])) /\ UNCHANGED site
    /\ UNCHANGED overlapped

Shut(d) ==
    /\ dep[d].at = "shut"
    /\ Goes(d, [dep[d] EXCEPT !.at = "import", !.held = "status"])
    /\ site' = [site EXCEPT !.status = "RUN_ONLY"]
    /\ UNCHANGED overlapped

(* The import resets build status; below 26.2 it deletes the lock too.       *)
ImportOf(d) ==
    /\ dep[d].at = "import"
    /\ Goes(d, [dep[d] EXCEPT !.at = "restore"])
    /\ site' = [site EXCEPT !.status = "DEV", !.by = IF setting.native THEN @ ELSE Nobody]
    /\ UNCHANGED overlapped

(* _release_status: what was found, not what the import left.                *)
MutantWanted(d) == site.status
Wanted(d) == dep[d].before
RestoreStatus(d) ==
    /\ dep[d].at = "restore"
    /\ Goes(d, [dep[d] EXCEPT !.at = IF dep[d].held = "app" THEN "unlock" ELSE "over"])
    /\ site' = [site EXCEPT !.status = Wanted(d)]
    /\ UNCHANGED overlapped

(* release_app_lock: a developer's own lock goes back with its comment.      *)
ReleaseHold(d) ==
    /\ dep[d].at = "unlock"
    /\ Goes(d, [dep[d] EXCEPT !.at = "over", !.held = "none"])
    /\ site' = IF site.by \notin {Nobody, Me(d)} THEN site
               ELSE IF dep[d].priorBy = Me(d) THEN [site EXCEPT !.by = Me(d), !.comment = dep[d].priorComment]
               ELSE [site EXCEPT !.by = Nobody, !.comment = OwnComment]
    /\ UNCHANGED overlapped

DeploysNext == \E d \in Deploys :
    \/ ReadStatusOf(d) \/ ReadHolder(d) \/ TakeAppLock(d) \/ Shut(d)
    \/ ImportOf(d) \/ RestoreStatus(d) \/ ReleaseHold(d)
DeploysSpec == DeploysInit /\ [][DeploysNext]_deploysVars

-----------------------------------------------------------------------------
EachTheirOwn == \A d, e \in Deploys : Me(d) = Me(e) => d = e

(* On 26.2 two developers never both hold the application for an import,
   although each reads the holder before it takes the lock.  Two runs of one
   developer share a lock, and the first to end drops it under the other.    *)
OneDeveloperHolds ==
    EachTheirOwn => \A d, e \in Deploys : dep[d].held = "app" /\ dep[e].held = "app" => d = e

(* Runs that are over leave the application as it was found, status and lock,
   if no two overlapped.  If some did, the second takes the first one's RUN_ONLY
   for what it has to put back, or what the first one's import left, and a lock
   its own developer took for the developer's own.  Even so, on 26.2 the lock is
   as it was found if every run has a developer of its own, and an application
   that was open is open again if nobody forced.                              *)
LeftAsFound ==
    (\A d \in Deploys : ~Between(d)) =>
        /\ ~overlapped \/ (setting.native /\ setting.forced = {} /\ first.status = "DEV")
              => site.status = first.status
        /\ setting.native /\ (~overlapped \/ EachTheirOwn)
              => site.by = first.by /\ site.comment = first.comment
=============================================================================
