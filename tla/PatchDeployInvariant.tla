------------------------- MODULE PatchDeployInvariant -------------------------
(* The inductive invariants behind the theorems of PatchDeployProofs.         *)
EXTENDS PatchDeploy

(* Types, and two facts of the run's position that types depend on.           *)
TypeInv ==
    /\ TypeOK
    /\ pc = "import" => pos \in DOMAIN Steps
    /\ pc = "revert" => kept[cur] # "unset"

-----------------------------------------------------------------------------
(* Why nothing is imported behind an error.  Rows are finished in order, one
   that did not run stands behind an ERROR, and an import is begun with none. *)
InOrder(n, r, p) ==
    \A i \in 1..n : /\ i < p <=> r[i] # "unset"
                    /\ r[i] = "NOT_RUN" => \E j \in 1..n : j < i /\ r[j] = "ERROR"
NoneBehind(n, imports, r) ==
    \A i, j \in 1..n :
        i < j /\ j \in imports /\ r[j] \in {"SUCCESS", "ERROR"} => r[i] = "SUCCESS"
ImportRows == {i \in 1..Len(Steps) : Steps[i].kind = "import"}
(* The inductive invariant of the deploy loop: the account of the rows.      *)
RowInv ==
    /\ TypeInv
    /\ InOrder(Len(Steps), rows, pos) /\ NoneBehind(Len(Steps), ImportRows, rows)
    /\ pc = "import" => AtImport /\ ~Behind /\ cur = Steps[pos].app

-----------------------------------------------------------------------------
(* Why nothing is stranded.  A run that restores may find an application in
   a state it did not find it in only while it answers for it: the ledger, or
   the entry in hand, names the lock that put it there, until the release has
   taken it back.                                                            *)
Restoring == cfg.mode = "restore" /\ cfg.terminal = "none"
LockKinds == {"none", "status", "app", "pages"}

Answers(a, kinds, after) ==
    \/ locks[a].outcome = "HELD" /\ locks[a].kind \in kinds /\ ~(cur = a /\ pc \in after)
    \/ InHand(a) /\ pend.kind \in kinds

StatusAnswered(a) ==
    Restoring /\ status[a] = "RUN_ONLY" /\ found[a].status # "RUN_ONLY" =>
        Answers(a, LockKinds, {"rel_lock", "rel_record"})
AppAnswered(a) ==
    appLock[a] = "deploy" /\ found[a].lock # "deploy" => Answers(a, {"app"}, {"rel_record"})
PagesAnswered(a) ==
    pageLock[a] # "none" /\ found[a].pages = "none" => Answers(a, {"pages"}, {"rel_record"})
Answered == \A a \in Apps \ spoiled : StatusAnswered(a) /\ AppAnswered(a) /\ PagesAnswered(a)

(* An entry says to put back only what the run found.                        *)
Sound(a, e) ==
    a \notin spoiled =>
        /\ Restoring /\ e.before = "RUN_ONLY" => found[a].status = "RUN_ONLY"
        /\ e.prior = "deploy" => found[a].lock = "deploy"
SoundEntries ==
    /\ \A a \in Apps : Sound(a, locks[a])
    /\ pc \in Holding => Sound(cur, pend)

(* No application is locked twice.                                           *)
TakenOnce ==
    /\ pc \in {"next"} \cup Holding => \A a \in todo : locks[a].outcome # "HELD"
    /\ pc \in Holding => cur \notin todo
    /\ pc \in Holding \ {"gate"} => locks[cur].outcome # "HELD"

(* A release works from the ledger's own entry, and the `finally` from all.   *)
InRelease ==
    /\ pc = "rel_status" => pend = locks[cur]
    /\ pc \in {"rel_lock", "rel_record"} => pend = locks[cur] \/ cur \in spoiled
    /\ pc \in Releasing /\ ret = "done" => rel = Ledger
    /\ pc = "done" => Ledger = {}

(* The inductive invariant of the locks: what a run has put on the target is
   in its ledger or in its hand until the release has taken it off.          *)
HoldInv == TypeInv /\ Answered /\ SoundEntries /\ TakenOnce /\ InRelease

-----------------------------------------------------------------------------
(* Why a release is the last word.  Nothing is released before the loop is over;
   what is released has left the ledger for good, and is neither waiting for
   its scan nor being reverted.                                              *)
Forward == {"next", "steps", "import", "post"} \cup Holding
Scanning == pc \in {"scan", "revert"} \/ (pc \in Releasing /\ ret = "scan")
NoneReleased == pc \in Forward => \A a \in Apps : released[a] = NoEntry
LeftLedger == \A a \in Apps : released[a] # NoEntry => locks[a] = NoEntry
FromLedger ==
    /\ pc \in Releasing => rel \subseteq Ledger
    /\ pc \in Releasing \ {"releasing"} => cur \in rel
ScannedFirst ==
    /\ Scanning => \A a \in scanq : released[a] = NoEntry
    /\ Scanning /\ pc \in Releasing => scanq \cap rel = {}
    /\ pc = "revert" => cur \notin scanq /\ released[cur] = NoEntry
(* The inductive invariant of the releases.                                  *)
ReleaseInv == NoneReleased /\ LeftLedger /\ FromLedger /\ ScannedFirst

(* Why the status handed back is the one found.  What an entry says stood there
   before did, because nothing moves a status ahead of its own lock; and the
   status a release has set stays until its entry is written down.            *)
Promised(a) == IF cfg.mode = "run_only" THEN "RUN_ONLY" ELSE found[a].status
Taken == {"read_sig", "probe", "read_prior", "lock_app", "lock_pages", "set_status"}
TrueBefore ==
    /\ \A a \in Apps \ spoiled : locks[a].outcome = "HELD" => locks[a].before = found[a].status
    /\ cur \notin spoiled /\ (pc \in Taken \/ InHand(cur)) => pend.before = found[cur].status
StillFound == pc \in {"next"} \cup Holding => \A a \in Apps \ spoiled :
    locks[a].outcome = "HELD" \/ InHand(a) \/ status[a] = found[a].status
GivenBack == cfg.terminal = "none" =>
    /\ \A a \in Apps \ spoiled : released[a].outcome = "HELD" => status[a] = Promised(a)
    /\ pc \in {"rel_lock", "rel_record"} /\ cur \notin spoiled /\ pend.outcome = "HELD"
       => status[cur] = Promised(cur)
(* The inductive invariant of the build status.                              *)
StatusInv == TrueBefore /\ StillFound /\ GivenBack

(* Why the developer's own lock comes back: it is there, or the deploy's lock
   stands in its place and an entry remembers it.                            *)
MineKept(a) ==
    /\ appLock[a] = "mine" \/ (appLock[a] = "deploy" /\ Answers(a, {"app"}, {"rel_record"}))
    /\ locks[a].outcome = "HELD" /\ locks[a].kind = "app" => locks[a].prior = "mine"
    /\ cur = a /\ (pc = "lock_app" \/ (InHand(a) /\ pend.kind = "app")) => pend.prior = "mine"
OwnLockInv == Native => \A a \in Apps \ spoiled : found[a].lock = "mine" => MineKept(a)

-----------------------------------------------------------------------------
(* Why nothing unseen is imported over.  A door shut is shut by the lock the
   entry names, from the call that took it on.                               *)
Guarded == {"next", "steps", "import"} \cup Holding
(* An entry names a lock exactly when it says one is held.                    *)
KindSaid ==
    /\ \A a \in Apps : locks[a].outcome = "HELD" <=> locks[a].kind # "none"
    /\ pc \in Holding => (pend.outcome = "HELD" <=> pend.kind # "none")
    /\ pc \in Taken \cup {"read_status"} => pend.outcome # "HELD"
    /\ pc \in Releasing \ {"releasing"} => pend.kind = locks[cur].kind
DoorInv ==
    /\ KindSaid
    /\ pc \in Guarded => \A a \in Apps :
          locks[a].outcome = "HELD" /\ NotWritten(a) => Shut(a, locks[a].kind)
    /\ InHand(cur) => Shut(cur, pend.kind)

(* Behind a door shut nobody works, and what the gate has seen is still there:
   first in the signature read ahead of the lock, then in the gate's own.     *)
Untaken == pc \in {"next"} \cup Holding => lost = {} /\ \A i \in DOMAIN Steps : rows[i] = "unset"
SeenInHand == cur \notin gap /\ (pc \in Taken \ {"read_sig"} \/ InHand(cur)) =>
    /\ ~session[cur]
    /\ pend.sig # Unread => content[cur] = pend.sig[1]
SeenAtGate == pc \in Guarded => \A a \in Apps :
    locks[a].outcome = "HELD" /\ NotWritten(a) /\ ~Excused(a) =>
        /\ ~session[a]
        /\ IF pc = "gate" /\ cur = a THEN locks[a].sig # Unread => content[a] = locks[a].sig[1]
                                     ELSE content[a] = gate[a][1]
(* The inductive invariant of the lost update.                               *)
SeenInv ==
    /\ Untaken /\ SeenInHand /\ SeenAtGate
    /\ pc = "read_status" => pend = NoEntry
    /\ pc = "read_sig" => pend.sig = Unread
    /\ \A a \in lost : Excused(a)

-----------------------------------------------------------------------------
(* Why SUCCESS means verified: what landed is scanned or still to be scanned,
   and only the end of the body gives a run an outcome of its own.            *)
Judged ==
    /\ pc \in Forward => \A a \in Apps : verdict[a] = "unset"
    /\ Scanning /\ cfg.verify => \A a \in Landed \ scanq : verdict[a] # "unset"
WalkedThrough == pc = "post" \/ Scanning => pos = Len(Steps) + 1
EndsOnce == outcome # "unset" =>
    pc \in {"finally", "done", "dead"} \/ (pc \in Releasing /\ ret = "done")
RevertedIfKept == outcome # "RAISED" /\ ~cfg.cont => \A a \in Apps :
    verdict[a] = "failed" /\ kept[a] # "unset" => reverts[a] # "unset" \/ (pc = "revert" /\ cur = a)
(* The inductive invariant of the verdicts.                                  *)
VerdictInv == Judged /\ WalkedThrough /\ EndsOnce /\ RevertedIfKept /\ SuccessIsVerified

(* What an import that succeeded left is there until a revert or a developer. *)
ImportedTree == \A i \in DOMAIN Steps :
    Steps[i].kind = "import" /\ rows[i] = "SUCCESS" /\ reverts[Steps[i].app] = "unset"
    => content[Steps[i].app] \in {"tree"} \cup Edits
=============================================================================
