------------------------------ MODULE ExportRecent ------------------------------
(***************************************************************************)
(* `export_db` of one schema and what it keeps for the next `-recent`:        *)
(* the watermark (export_db/watermarks.py, shared/recent_state.py), the       *)
(* objects the database refused (refused_objects.py), and the signatures of   *)
(* the jobs, which no LAST_DDL_TIME dates (job_signatures.py).  The schema    *)
(* changes between any two queries, and a run may stop between any two steps. *)
(***************************************************************************)
EXTENDS Integers

CONSTANTS Dated,           \* objects with a LAST_DDL_TIME
          Jobs,
          Versions,        \* what an object, and its file, can hold
          ExportRequests,  \* what a run may be asked for
          MaxTime,         \* bound: the clock of the database
          MaxAlters,       \* bound: changes made to the schema
          MaxExports       \* bound: runs

Absent == "absent"         \* no object, no file, no signature
Never == 0                 \* no watermark yet: nothing is older
Items == Dated \cup Jobs
Content == Versions \cup {Absent}

(* `names` is what -name and -type select, `mine` a run with -by or -my, and
   `sweep` the key auto_delete.  -delete is refused beside a window or an author. *)
RequestShape == [recent : {"none", "last", "days"}, days : Nat, names : SUBSET Items,
                 mine : BOOLEAN, delete : BOOLEAN, sweep : BOOLEAN]

ASSUME ExportAssumption ==
    /\ Dated \cap Jobs = {} /\ Absent \notin Versions
    /\ ExportRequests \subseteq RequestShape /\ ExportRequests # {}
    /\ \A r \in ExportRequests : r.delete => r.recent = "none" /\ ~r.mine
    /\ MaxTime \in Nat \ {0} /\ MaxAlters \in Nat /\ MaxExports \in Nat

VARIABLES db,          \* what each object holds, and its LAST_DDL_TIME
          files,       \* what its file holds
          kept,        \* config/internal: the watermark, the refused, the signatures
          export,      \* the run: where it is, what it was asked for and has read
          time, alters, exports,
          overlooked   \* history: objects the code is known to step past
exportVars == <<db, files, kept, export, time, alters, exports, overlooked>>

Phases == {"idle", "listing", "jobs", "refused", "choosing", "writing", "stamping", "signing"}
ExportTypeOK ==
    /\ db \in [Items -> [text : Content, at : 0..MaxTime]] /\ files \in [Items -> Content]
    /\ kept \in [mark : 0..MaxTime, refused : SUBSET Dated, signed : [Jobs -> Content]]
    /\ export \in [at : Phases, request : ExportRequests, candidate : 0..MaxTime, listed : SUBSET Items,
                   todo : SUBSET Items, refused : SUBSET Items, signed : [Jobs -> Content], gap : SUBSET Dated]
    /\ time \in 1..MaxTime /\ alters \in 0..MaxAlters /\ exports \in 0..MaxExports
    /\ overlooked \subseteq Dated

NoSignatures == [j \in Jobs |-> Absent]
NoExport == [at |-> "idle", request |-> CHOOSE r \in ExportRequests : TRUE, candidate |-> Never,
             listed |-> {}, todo |-> {}, refused |-> {}, signed |-> NoSignatures, gap |-> {}]
ExportInit ==
    /\ db = [i \in Items |-> [text |-> Absent, at |-> Never]] /\ files = [i \in Items |-> Absent]
    /\ kept = [mark |-> Never, refused |-> {}, signed |-> NoSignatures]
    /\ export = NoExport /\ time = 1 /\ alters = 0 /\ exports = 0 /\ overlooked = {}

-----------------------------------------------------------------------------
(* The schema, which is the database's.                                      *)
Existing == {i \in Items : db[i].text # Absent}

Alter(i) ==
    /\ alters < MaxAlters /\ alters' = alters + 1
    /\ \E text \in Content \ {db[i].text} : db' = [db EXCEPT ![i] = [text |-> text, at |-> time]]
    /\ overlooked' = overlooked \ {i}
    /\ UNCHANGED <<files, kept, export, time, exports>>

DbClock ==
    /\ time < MaxTime /\ time' = time + 1
    /\ UNCHANGED <<db, files, kept, export, alters, exports, overlooked>>

-----------------------------------------------------------------------------
(* What a request covers.                                                    *)
Narrowed(r) == r.names # Items \/ r.mine
Unfiltered(r) == ~Narrowed(r) /\ r.recent = "none"

(* The bind a query of the listing is run with, on the clock it runs at.     *)
Since(r) == CASE r.recent = "none" -> Never
              [] r.recent = "last" -> kept.mark
              [] r.recent = "days" -> time - r.days
Windowed(r) == r.recent = "days" \/ (r.recent = "last" /\ kept.mark # Never)

MutantMayAdvance(r, candidate) ==
    r.recent = "days" => kept.mark # Never /\ candidate - r.days <= kept.mark
MayAdvance(r, candidate) ==
    /\ ~Narrowed(r)
    /\ r.recent = "days" => kept.mark # Never /\ candidate - r.days <= kept.mark

-----------------------------------------------------------------------------
(* ExportDbRunner._contents of one schema, one query after another.          *)
Request == export.request
NotTheDatabase == UNCHANGED <<db, time, alters>>
Advance(from, record) ==
    /\ export.at = from /\ export' = record
    /\ NotTheDatabase /\ UNCHANGED exports
OnlyReads == UNCHANGED <<files, kept, overlooked>>

BeginExport(r) ==
    /\ export.at = "idle" /\ exports < MaxExports /\ exports' = exports + 1
    /\ export' = [NoExport EXCEPT !.at = "listing", !.request = r, !.candidate = time]
    /\ NotTheDatabase /\ OnlyReads

ListDated ==
    /\ Advance("listing", [export EXCEPT !.at = "jobs",
          !.listed = {o \in Dated \cap Request.names \cap Existing : db[o].at >= Since(Request)},
          !.gap = {o \in Dated \cap Existing : kept.mark <= db[o].at /\ db[o].at < Since(Request)}])
    /\ OnlyReads

(* The signatures are of every job selected, the unchanged ones with them.   *)
ListJobs ==
    LET selected == Jobs \cap Request.names \cap Existing
    IN /\ Advance("jobs", [export EXCEPT !.at = "refused",
             !.signed = [j \in Jobs |-> IF j \in selected THEN db[j].text ELSE Absent],
             !.listed = @ \cup {j \in selected : Windowed(Request) => kept.signed[j] # db[j].text}])
       /\ OnlyReads

(* retried_objects: a refused object that is gone is forgotten.              *)
AddRefused ==
    LET wanted == IF Request.recent = "none" THEN {}
                  ELSE (kept.refused \cap Request.names) \ export.listed
    IN /\ Advance("refused", [export EXCEPT !.at = "choosing", !.listed = @ \cup (wanted \cap Existing)])
       /\ kept' = [kept EXCEPT !.refused = @ \ (wanted \ Existing)]
       /\ UNCHANGED <<files, overlooked>>

(* The authors' objects of those listed, and the files that go first.        *)
ChooseObjects ==
    \E chosen \in IF Request.mine THEN SUBSET export.listed ELSE {export.listed} :
        /\ Advance("choosing", [export EXCEPT !.at = "writing", !.listed = chosen, !.todo = chosen])
        /\ files' = [i \in Items |->
                        IF \/ Request.sweep /\ Unfiltered(Request) /\ i \notin chosen
                           \/ Request.delete /\ i \in Request.names
                        THEN Absent ELSE files[i]]
        /\ UNCHANGED <<kept, overlooked>>

Done(i, record) == i \in export.todo /\ Advance("writing", [record EXCEPT !.todo = @ \ {i}])

WriteObject(i) ==
    /\ i \in Existing /\ Done(i, export)
    /\ files' = [files EXCEPT ![i] = db[i].text] /\ overlooked' = overlooked \ {i}
    /\ UNCHANGED kept

RefuseObject(i) == Done(i, [export EXCEPT !.refused = @ \cup {i}]) /\ OnlyReads

-----------------------------------------------------------------------------
(* stamp_schema: three files, saved one after the other.                     *)
RememberRefused ==
    LET refused == export.refused \cap Dated
    IN /\ export.todo = {}
       /\ Advance("writing", IF export.listed # {} /\ export.refused = export.listed THEN NoExport
                             ELSE [export EXCEPT !.at = "stamping"])
       /\ kept' = [kept EXCEPT !.refused = (@ \ (export.listed \ refused)) \cup refused]
       /\ UNCHANGED <<files, overlooked>>

StampWatermark ==
    /\ Advance("stamping", [export EXCEPT !.at = "signing"])
    /\ IF MayAdvance(Request, export.candidate)
       THEN /\ kept' = [kept EXCEPT !.mark = export.candidate]
            /\ overlooked' = overlooked \cup {o \in export.gap : db[o].at < export.candidate}
       ELSE UNCHANGED <<kept, overlooked>>
    /\ UNCHANGED files

(* A refused job keeps the signature it had; a run that has none to record
   leaves what is there.                                                     *)
SignJobs ==
    LET written == [j \in Jobs |-> IF j \in export.refused THEN kept.signed[j] ELSE export.signed[j]]
    IN /\ Advance("signing", NoExport)
       /\ kept' = IF written = NoSignatures THEN kept
                  ELSE [kept EXCEPT !.signed = [j \in Jobs |->
                          IF Narrowed(Request) /\ written[j] = Absent THEN @[j] ELSE written[j]]]
       /\ UNCHANGED <<files, overlooked>>

(* A lost connection, or a stop: nothing more is recorded.                   *)
ExportStops ==
    /\ export.at # "idle" /\ export' = NoExport
    /\ overlooked' = IF Request.delete /\ export.at = "writing"
                     THEN overlooked \cup ((export.todo \cup export.refused) \cap Dated) ELSE overlooked
    /\ NotTheDatabase /\ UNCHANGED <<files, kept, exports>>

ExportNext ==
    \/ \E i \in Items : Alter(i) \/ WriteObject(i) \/ RefuseObject(i)
    \/ DbClock
    \/ \E r \in ExportRequests : BeginExport(r)
    \/ ListDated \/ ListJobs \/ AddRefused \/ ChooseObjects
    \/ RememberRefused \/ StampWatermark \/ SignJobs \/ ExportStops
ExportSpec == ExportInit /\ [][ExportNext]_exportVars

-----------------------------------------------------------------------------
(* Between two runs, an object whose file is not what the schema holds is
   listed by the next bare -recent: its LAST_DDL_TIME is at or past the
   watermark, or it is among the refused.  So no run steps past a change it
   never wrote: one made while it listed and wrote, one outside what it was
   narrowed to, one the database would not describe.  `overlooked` holds the
   two ways the code does step past one (see StampWatermark, ExportStops).   *)
NothingSkipped ==
    export.at = "idle" =>
        \A o \in (Dated \cap Existing) \ overlooked :
            files[o] = db[o].text \/ db[o].at >= kept.mark \/ o \in kept.refused

(* export_db/schema_objects.py: a run that did not write a job re-offers it
   "instead of recording a signature for a file that never landed".          *)
SignedLanded ==
    export.at = "idle" =>
        \A j \in Jobs \cap Existing : kept.signed[j] = db[j].text => files[j] = db[j].text
=============================================================================
