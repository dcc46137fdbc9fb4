------------------------------ MODULE ApexTarget ------------------------------
(***************************************************************************)
(* The target environment of a `patch -deploy -app` run: the APEX          *)
(* applications installed there and the developers working on them in the  *)
(* App Builder.  None of this is code of the repository; it is modelled    *)
(* from the queries the deploy sends (patch/queries) and from what          *)
(* patch/apex_lock.py and patch/apex_app_lock.py record as measured.        *)
(*                                                                         *)
(* An application has a content, a build status and a Builder lock:        *)
(*   content   "base" is what the export in the repository was taken from, *)
(*             "tree" what the patch imports, "half" an import that died   *)
(*             midway, "none" no application, and every member of Edits a  *)
(*             state a developer saved;                                    *)
(*   appLock   "mine" is the deploying developer's own lock, "deploy" the  *)
(*             same with the deploy's comment, "other" somebody else's.    *)
(***************************************************************************)
CONSTANTS Apps, Edits,
          Releases,   \* the APEX releases the target may run
          Busy        \* the applications developers work on

ASSUME TargetAssumption ==
    Releases \subseteq {"native", "page_locks", "plain"} /\ Busy \subseteq Apps

VARIABLES apex,      \* the release: does it keep locks, does it grant page locks
          status,    \* build status of each application
          content,   \* what each application holds
          appLock,   \* who holds the Builder's application lock
          pageLock,  \* the deploy's page locks: on all pages, or on those nobody had
          session,   \* whether a developer has the Builder open on it
          saved      \* the edits already saved (a bound, not a fact of APEX)

targetVars == <<apex, status, content, appLock, pageLock, session, saved>>

Statuses == {"none", "DEV", "RUN_ONLY"}
Contents == {"none", "base", "tree", "half"} \cup Edits
PageLocks == {"none", "some", "all"}
Holders  == {"free", "mine", "deploy", "other"}

(* From 26.2 on an import keeps the application lock.                      *)
Native == apex = "native"

TargetTypeOK ==
    /\ apex \in Releases
    /\ status \in [Apps -> Statuses]
    /\ content \in [Apps -> Contents]
    /\ appLock \in [Apps -> Holders]
    /\ pageLock \in [Apps -> PageLocks]
    /\ session \in [Apps -> BOOLEAN]
    /\ saved \subseteq Edits

TargetInit ==
    /\ apex \in Releases
    /\ content \in [Apps -> {"none", "base"}]
    /\ status \in [Apps -> Statuses]
    /\ \A a \in Apps : (status[a] = "none") <=> (content[a] = "none")
    /\ appLock \in [Apps -> {"free", "mine", "other"}]
    /\ \A a \in Apps : content[a] = "none" \/ a \notin Busy => appLock[a] = "free"
    /\ pageLock = [a \in Apps |-> "none"]
    /\ session = [a \in Apps |-> FALSE]
    /\ saved = {}

-----------------------------------------------------------------------------
(* RUN_ONLY and another user's lock refuse Builder entry; a session that is
   already open still saves ("it closes the door, not the room"), and page
   locks keep nobody from the pages they do not cover.  The developers here
   are the others: the one deploying is not in the Builder meanwhile.        *)
OpenBuilder(a) ==
    /\ status[a] = "DEV"
    /\ appLock[a] \in {"free", "other"}
    /\ pageLock[a] # "all"
    /\ ~session[a]
    /\ session' = [session EXCEPT ![a] = TRUE]
    /\ UNCHANGED <<apex, status, content, appLock, pageLock, saved>>

CloseBuilder(a) ==
    /\ session[a]
    /\ session' = [session EXCEPT ![a] = FALSE]
    /\ UNCHANGED <<apex, status, content, appLock, pageLock, saved>>

Save(a) ==
    /\ session[a]
    /\ \E e \in Edits \ saved :
          /\ content' = [content EXCEPT ![a] = e]
          /\ saved' = saved \cup {e}
    /\ UNCHANGED <<apex, status, appLock, pageLock, session>>

OtherLocks(a) ==
    /\ session[a] /\ appLock[a] = "free"
    /\ appLock' = [appLock EXCEPT ![a] = "other"]
    /\ UNCHANGED <<apex, status, content, pageLock, session, saved>>

OtherUnlocks(a) ==
    /\ session[a] /\ appLock[a] = "other"
    /\ appLock' = [appLock EXCEPT ![a] = "free"]
    /\ UNCHANGED <<apex, status, content, pageLock, session, saved>>

Developer == \E a \in Busy :
    OpenBuilder(a) \/ CloseBuilder(a) \/ Save(a) \/ OtherLocks(a) \/ OtherUnlocks(a)

-----------------------------------------------------------------------------
(* Setting build status moves the export checksum, so the checksum is a
   function of both (measured, ADT #745).                                   *)
Checksum(a) == <<content[a], status[a]>>
Unread == <<"none", "unread">>
Signatures == (Contents \X Statuses) \cup {Unread}

(* Any import that writes resets build status and deletes the page locks;
   below 26.2 it deletes the application lock too (bug 39557252).            *)
Overwrite(a, c) ==
    /\ content' = [content EXCEPT ![a] = c]
    /\ status' = [status EXCEPT ![a] = "DEV"]
    /\ pageLock' = [pageLock EXCEPT ![a] = "none"]
    /\ appLock' = IF Native THEN appLock ELSE [appLock EXCEPT ![a] = "free"]
=============================================================================
