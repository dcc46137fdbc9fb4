------------------------------ MODULE SqlclUpgrade ------------------------------
(***************************************************************************)
(* `adtai doctor -update` for SQLcl (doctor/upgrade.py, _upgrade_sqlcl): the  *)
(* live install and its backup are moved aside for a validated candidate,    *)
(* and put back when the promotion raises.  A move is a rename, or where the  *)
(* system refuses that a copy and a removal, so one that raises may leave     *)
(* half a copy behind, or a source half removed; a move onto a folder that is *)
(* there lands inside it.                                                    *)
(***************************************************************************)
EXTENDS Naturals

CONSTANTS MaxUpgrades, MaxFailures   \* bounds: runs, and steps that raise or are cut off

ASSUME UpgradeAssumption == MaxUpgrades \in Nat /\ MaxFailures \in Nat

VARIABLES disk,      \* what is in the live folder, the backup and the staging
          up,        \* where the run is, and its three flags
          upgrades, failures,
          before,    \* history: the live install and the backup as the run found them
          hurt       \* history: what went wrong that this run does not undo
upgradeVars == <<disk, up, upgrades, failures, before, hurt>>

Places == {"live", "backup", "stale", "candidate"}
Installs == {"none", "old", "older", "new", "part"}
Flags == {"stale", "current", "promotion"}
Hurts == {"cut", "torn", "rollback", "removal"}
Points == {"idle", "stale", "current", "promote", "remove", "putback", "restale", "cleanup"}

UpgradeTypeOK ==
    /\ disk \in [Places -> Installs]
    /\ up \in [at : Points, flags : SUBSET Flags]
    /\ upgrades \in Nat /\ failures \in Nat /\ hurt \subseteq Hurts
    /\ before \in [live : Installs, backup : Installs]

UpgradeInit ==
    /\ disk \in [live : {"old"}, backup : {"none", "older"}, stale : {"none"}, candidate : {"none"}]
    /\ up = [at |-> "idle", flags |-> {}] /\ upgrades = 0 /\ failures = 0 /\ hurt = {}
    /\ before = [live |-> "none", backup |-> "none"]

-----------------------------------------------------------------------------
There(p) == disk[p] # "none"
Usable(p) == disk[p] \in {"old", "older", "new"}
(* shutil.move of a folder that is there.                                    *)
Moved(src, dst) == [disk EXCEPT ![dst] = IF disk[dst] = "none" THEN disk[src] ELSE @, ![src] = "none"]
At(point) == up.at = point
To(point, flag) == up' = [at |-> point, flags |-> up.flags \cup flag]
Counts == UNCHANGED <<upgrades, before>>
Well == Counts /\ UNCHANGED <<failures, hurt>>

(* The archive is downloaded, extracted and validated in the staging folder
   before anything is moved.                                                 *)
Stage ==
    /\ At("idle") /\ upgrades < MaxUpgrades
    /\ upgrades' = upgrades + 1
    /\ disk' = [disk EXCEPT !["candidate"] = "new"]
    /\ before' = [live |-> disk["live"], backup |-> disk["backup"]]
    /\ up' = [at |-> "stale", flags |-> {}] /\ hurt' = {}
    /\ UNCHANGED failures

SaveStale ==
    /\ At("stale")
    /\ disk' = IF There("backup") THEN Moved("backup", "stale") ELSE disk
    /\ To("current", IF There("backup") THEN {"stale"} ELSE {}) /\ Well

BackUpCurrent ==
    /\ At("current")
    /\ disk' = IF There("live") THEN Moved("live", "backup") ELSE disk
    /\ To("promote", {"promotion"} \cup (IF There("live") THEN {"current"} ELSE {})) /\ Well

Promote == At("promote") /\ disk' = Moved("candidate", "live") /\ To("cleanup", {}) /\ Well

(* One of the three raises, and the roll-back begins.  A copy into the backup
   that raised, and a source half removed, are not known to any flag.        *)
MoveFrom == [stale |-> "backup", current |-> "live", promote |-> "candidate"]
MoveTo == [stale |-> "stale", current |-> "backup", promote |-> "live"]
PromotionFails ==
    /\ up.at \in DOMAIN MoveFrom /\ failures < MaxFailures
    /\ failures' = failures + 1
    /\ LET src == MoveFrom[up.at] dst == MoveTo[up.at]
       IN \/ UNCHANGED <<disk, hurt>>
          \/ /\ There(src) /\ ~There(dst)
             /\ disk' = [disk EXCEPT ![dst] = "part"]
             /\ hurt' = IF At("current") THEN hurt \cup {"torn"} ELSE hurt
          \/ /\ There(src) /\ ~There(dst)
             /\ disk' = [disk EXCEPT ![dst] = disk[src], ![src] = "part"]
             /\ hurt' = IF At("promote") THEN hurt ELSE hurt \cup {"torn"}
    /\ To("remove", {}) /\ Counts

(* Only a live folder the promotion itself may have left is removed.         *)
MutantRemoves == There("live")
Removes == "promotion" \in up.flags /\ There("live")
RemoveLive ==
    /\ At("remove")
    /\ disk' = IF Removes THEN [disk EXCEPT !["live"] = "none"] ELSE disk
    /\ To("putback", {}) /\ Well

PutBack ==
    /\ At("putback")
    /\ disk' = IF "current" \in up.flags /\ There("backup") THEN Moved("backup", "live") ELSE disk
    /\ To("restale", {}) /\ Well

MutantRestores == FALSE
Restores == "stale" \in up.flags /\ There("stale")
Restale ==
    /\ At("restale")
    /\ disk' = IF Restores THEN Moved("stale", "backup") ELSE disk
    /\ To("cleanup", {}) /\ Well

(* A roll-back step raises: the removal half done, a move not at all; the
   steps behind it are still taken.                                          *)
RollbackFails ==
    /\ up.at \in {"remove", "putback", "restale"} /\ failures < MaxFailures
    /\ failures' = failures + 1
    /\ hurt' = hurt \cup {IF At("remove") /\ Removes THEN "removal" ELSE "rollback"}
    /\ disk' = IF At("remove") /\ Removes THEN [disk EXCEPT !["live"] = "part"] ELSE disk
    /\ To(IF At("remove") THEN "putback" ELSE IF At("putback") THEN "restale" ELSE "cleanup", {})
    /\ Counts

(* Control+C is no Exception: it skips the roll-back, and the staging folder
   is removed on the way out.                                                *)
UpgradeInterrupted ==
    /\ up.at \notin {"idle", "cleanup"} /\ failures < MaxFailures
    /\ failures' = failures + 1 /\ hurt' = hurt \cup {"cut"}
    /\ To("cleanup", {}) /\ Counts /\ UNCHANGED disk

(* TemporaryDirectory: what is still in the staging folder goes.             *)
CleanUp ==
    /\ At("cleanup")
    /\ disk' = [disk EXCEPT !["stale"] = "none", !["candidate"] = "none"]
    /\ up' = [at |-> "idle", flags |-> {}] /\ Well

UpgradeNext == Stage \/ SaveStale \/ BackUpCurrent \/ Promote \/ PromotionFails
               \/ RemoveLive \/ PutBack \/ Restale \/ RollbackFails \/ UpgradeInterrupted \/ CleanUp
UpgradeSpec == UpgradeInit /\ [][UpgradeNext]_upgradeVars

-----------------------------------------------------------------------------
(* An upgrade whose promotion raised, at whichever move and with whatever it
   had half copied into the live folder, leaves the install and its backup
   exactly as it found them; unless it was cut off, a roll-back step raised
   too, or a move had torn what no flag knows of.                            *)
RolledBack ==
    At("idle") /\ upgrades > 0 /\ hurt = {} /\ disk["live"] # "new" =>
        disk["live"] = before.live /\ disk["backup"] = before.backup

(* Whatever raised and wherever a first run was cut off, a whole SQLcl is left
   in one of the two folders; unless a half promoted folder could not be
   removed, and the old install then landed inside it.                       *)
InstallSurvives ==
    At("idle") /\ upgrades <= 1 /\ "removal" \notin hurt => Usable("live") \/ Usable("backup")
=============================================================================
