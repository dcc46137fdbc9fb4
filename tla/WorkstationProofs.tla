--------------------------- MODULE WorkstationProofs ---------------------------
(***************************************************************************)
(* What the commands of a workstation keep, for any number of runs, changes  *)
(* and failures, and any clock.  Five components that share nothing:          *)
(*                                                                         *)
(* ExportInv, of export_db: what a run has listed, written and recorded so    *)
(* far, from which NothingSkipped follows between two runs.                   *)
(* LiveInv, of live_upload: a file seen is served, in hand, or still to do.   *)
(* UpgradeInv, of the SQLcl upgrade: what the flags say of the folders at     *)
(* each step, so that the roll-back knows what to undo.                       *)
(* MirrorInv, of the dependency mirror: what a refresh has read is of the     *)
(* schema as it is or of objects changed since, and so is what it stored.     *)
(* PassInv, of recompile: what a pass failed and what it has left are together *)
(* no more than it began with, and exactly as many only while everything it    *)
(* tried has failed; and what failed stays failed while nothing is made valid. *)
(***************************************************************************)
EXTENDS ExportRecent, LiveUpload, SqlclUpgrade, DependencyMirror, RecompileRetry, TLAPS

(* export_db.                                                                *)
Running == export.at # "idle"
Listable == Dated \cap Existing

(* No object is younger than the clock, and no watermark younger than the run
   it was taken in.                                                          *)
TimesInv ==
    /\ \A i \in Items : db[i].at <= time
    /\ kept.mark <= time
    /\ Running => kept.mark <= export.candidate /\ export.candidate <= time

(* What a run was asked decides what it may leave out.                        *)
Left(o) == o \in Request.names \ export.listed
ListInv ==
    \A o \in Listable : db[o].at < export.candidate =>
        /\ export.at \in {"jobs", "refused", "choosing"} /\ Left(o) =>
              Request.recent # "none" /\ (o \in export.gap \/ db[o].at < kept.mark)
        /\ export.at \in {"writing", "stamping"} /\ ~Narrowed(Request) /\ o \notin export.listed =>
              Request.recent # "none" /\ (o \in export.gap \/ db[o].at < kept.mark)

(* What was listed was written, or refused, or changed meanwhile.            *)
WrittenInv ==
    /\ export.at \notin {"writing", "stamping", "signing"} => export.refused = {}
    /\ export.at = "writing" =>
          /\ export.todo \subseteq export.listed /\ export.refused \subseteq export.listed
          /\ \A o \in (Listable \cap export.listed) \ (export.todo \cup export.refused) :
                files[o] = db[o].text \/ db[o].at >= export.candidate
    /\ export.at = "stamping" =>
          \A o \in Listable \cap export.listed :
             files[o] = db[o].text \/ db[o].at >= export.candidate \/ o \in kept.refused

(* The next bare -recent lists what is not in its file; a run with -delete may
   still have to write it.                                                   *)
ToBeWritten(o) == export.at = "writing" /\ Request.delete /\ o \in export.todo \cup export.refused
CoveredInv ==
    \A o \in Listable \ overlooked :
        files[o] = db[o].text \/ db[o].at >= kept.mark \/ o \in kept.refused \/ ToBeWritten(o)

ExportInv == ExportTypeOK /\ TimesInv /\ ListInv /\ WrittenInv /\ CoveredInv

-----------------------------------------------------------------------------
(* The types.                                                                *)
ExportType ==
    [at : Phases, request : ExportRequests, candidate : 0..MaxTime, listed : SUBSET Items,
     todo : SUBSET Items, refused : SUBSET Items, signed : [Jobs -> Content], gap : SUBSET Dated]
KeptType == [mark : 0..MaxTime, refused : SUBSET Dated, signed : [Jobs -> Content]]

(* A run that is over is as good as none.                                    *)
LEMMA NoExportIsTyped == NoExport \in ExportType
  <1>1. (CHOOSE r \in ExportRequests : TRUE) \in ExportRequests
    BY ExportAssumption
  <1>2. NoSignatures \in [Jobs -> Content] /\ Never \in 0..MaxTime
    BY ExportAssumption DEF NoSignatures, Content, Never
  <1> QED BY <1>1, <1>2 DEF NoExport, ExportType, Phases

(* Every step keeps the types.                                               *)
LEMMA ExportTyped == ExportTypeOK /\ ExportNext => ExportTypeOK'
  <1> SUFFICES ASSUME ExportTypeOK, ExportNext PROVE ExportTypeOK'
    OBVIOUS
  <1>0. export \in ExportType /\ kept \in KeptType
    BY DEF ExportTypeOK, ExportType, KeptType
  <1>1. ASSUME export' \in ExportType, kept' \in KeptType, files' \in [Items -> Content],
               overlooked' \subseteq Dated, NotTheDatabase, exports' \in 0..MaxExports
        PROVE  ExportTypeOK'
    BY <1>1 DEF ExportTypeOK, ExportType, KeptType, NotTheDatabase
  <1>2. ASSUME NEW i \in Items, Alter(i) PROVE ExportTypeOK'
    <2>1. db' \in [Items -> [text : Content, at : 0..MaxTime]]
      BY <1>2 DEF Alter, ExportTypeOK
    <2>2. alters' \in 0..MaxAlters
      BY <1>2, ExportAssumption DEF Alter, ExportTypeOK
    <2> QED BY <1>2, <2>1, <2>2 DEF Alter, ExportTypeOK
  <1>3. CASE DbClock
    BY <1>3, ExportAssumption DEF DbClock, ExportTypeOK
  <1>4. ASSUME NEW r \in ExportRequests, BeginExport(r) PROVE ExportTypeOK'
    <2>1. exports' \in 0..MaxExports
      BY <1>4, ExportAssumption DEF BeginExport, ExportTypeOK
    <2>2. export' \in ExportType
      <3>1. time \in 0..MaxTime
        BY ExportAssumption DEF ExportTypeOK
      <3> QED BY <1>4, <3>1, NoExportIsTyped DEF BeginExport, ExportType, Phases
    <2> QED BY <1>1, <1>0, <1>4, <2>1, <2>2 DEF BeginExport, OnlyReads, ExportTypeOK
  <1>5. CASE ListDated
    <2>1. export' \in ExportType
      BY <1>0, <1>5 DEF ListDated, Advance, ExportType, Phases, Items
    <2> QED BY <1>0, <1>1, <1>5, <2>1 DEF ListDated, Advance, OnlyReads, ExportTypeOK
  <1>6. CASE ListJobs
    <2>1. export' \in ExportType
      BY <1>0, <1>6 DEF ListJobs, Advance, ExportType, Phases, Items, ExportTypeOK, Content
    <2> QED BY <1>0, <1>1, <1>6, <2>1 DEF ListJobs, Advance, OnlyReads, ExportTypeOK
  <1>7. CASE AddRefused
    <2>1. export' \in ExportType
      BY <1>0, <1>7 DEF AddRefused, Advance, ExportType, KeptType, Phases, Items
    <2>2. kept' \in KeptType
      BY <1>0, <1>7 DEF AddRefused, KeptType
    <2> QED BY <1>0, <1>1, <1>7, <2>1, <2>2 DEF AddRefused, Advance, ExportTypeOK
  <1>8. CASE ChooseObjects
    <2>1. PICK chosen \in IF Request.mine THEN SUBSET export.listed ELSE {export.listed} :
              /\ Advance("choosing", [export EXCEPT !.at = "writing", !.listed = chosen, !.todo = chosen])
              /\ files' = [i \in Items |->
                        IF \/ Request.sweep /\ Unfiltered(Request) /\ i \notin chosen
                           \/ Request.delete /\ i \in Request.names
                        THEN Absent ELSE files[i]]
      BY <1>8 DEF ChooseObjects
    <2>2. chosen \subseteq export.listed
      BY <2>1
    <2>3. export' \in ExportType
      BY <1>0, <2>1, <2>2 DEF Advance, ExportType, Phases
    <2>4. files' \in [Items -> Content]
      BY <2>1 DEF ExportTypeOK, Content
    <2> QED BY <1>0, <1>1, <1>8, <2>1, <2>3, <2>4 DEF ChooseObjects, Advance, ExportTypeOK
  <1>9. ASSUME NEW i \in Items, WriteObject(i) PROVE ExportTypeOK'
    <2>1. export' \in ExportType
      BY <1>0, <1>9 DEF WriteObject, Done, Advance, ExportType
    <2>2. files' \in [Items -> Content]
      BY <1>9 DEF WriteObject, ExportTypeOK
    <2> QED BY <1>0, <1>1, <1>9, <2>1, <2>2 DEF WriteObject, Done, Advance, ExportTypeOK
  <1>10. ASSUME NEW i \in Items, RefuseObject(i) PROVE ExportTypeOK'
    <2>1. export' \in ExportType
      BY <1>0, <1>10 DEF RefuseObject, Done, Advance, ExportType
    <2> QED BY <1>0, <1>1, <1>10, <2>1 DEF RefuseObject, Done, Advance, OnlyReads, ExportTypeOK
  <1>11. CASE RememberRefused
    <2>1. export' \in ExportType
      BY <1>0, <1>11, NoExportIsTyped DEF RememberRefused, Advance, ExportType, Phases
    <2>2. kept' \in KeptType
      BY <1>0, <1>11 DEF RememberRefused, KeptType, ExportType
    <2> QED BY <1>0, <1>1, <1>11, <2>1, <2>2 DEF RememberRefused, Advance, ExportTypeOK
  <1>12. CASE StampWatermark
    <2>1. export' \in ExportType
      BY <1>0, <1>12 DEF StampWatermark, Advance, ExportType, Phases
    <2>2. kept' \in KeptType /\ overlooked' \subseteq Dated
      BY <1>0, <1>12 DEF StampWatermark, KeptType, ExportType, ExportTypeOK
    <2> QED BY <1>0, <1>1, <1>12, <2>1, <2>2 DEF StampWatermark, Advance, ExportTypeOK
  <1>13. CASE SignJobs
    <2>1. export' \in ExportType
      BY <1>0, <1>13, NoExportIsTyped DEF SignJobs, Advance
    <2>2. kept' \in KeptType
      BY <1>0, <1>13 DEF SignJobs, KeptType, ExportType
    <2> QED BY <1>0, <1>1, <1>13, <2>1, <2>2 DEF SignJobs, Advance, ExportTypeOK
  <1>14. CASE ExportStops
    <2>1. export' \in ExportType
      BY <1>14, NoExportIsTyped DEF ExportStops
    <2>2. overlooked' \subseteq Dated
      BY <1>14 DEF ExportStops, ExportTypeOK
    <2> QED BY <1>0, <1>1, <1>14, <2>1, <2>2 DEF ExportStops, ExportTypeOK
  <1> QED BY <1>2, <1>3, <1>4, <1>5, <1>6, <1>7, <1>8, <1>9, <1>10, <1>11, <1>12, <1>13, <1>14 DEF ExportNext
(* The invariants of an export but for its types.                            *)
ExportFacts == TimesInv /\ ListInv /\ WrittenInv /\ CoveredInv

(* A change of the schema dates what it touches past every candidate and
   every watermark.                                                          *)
LEMMA AlterKeeps == ExportInv /\ (\E i \in Items : Alter(i)) => ExportFacts'
  <1> SUFFICES ASSUME ExportInv, NEW i \in Items, Alter(i) PROVE ExportFacts'
    OBVIOUS
  <1> USE DEF ExportInv
  <1>1. /\ UNCHANGED <<files, kept, export, time>>
        /\ db'[i].at = time /\ \A o \in Items \ {i} : db'[o] = db[o]
        /\ overlooked' = overlooked \ {i}
    BY DEF Alter, ExportTypeOK
  <1>2. \A o \in Listable' : o \in Items /\ o \in Dated /\ (o # i => o \in Listable)
    BY <1>1 DEF Listable, Existing, Items
  <1>3. Request' = Request
    BY <1>1 DEF Request
  <1>4. kept.mark <= time /\ (Running => export.candidate <= time)
    BY DEF TimesInv
  <1>5. TimesInv'
    BY <1>1, ExportAssumption DEF TimesInv, Running, ExportTypeOK
  <1>6. ListInv'
    <2> SUFFICES ASSUME NEW o \in Listable', db'[o].at < export'.candidate,
                        export'.at \in {"jobs", "refused", "choosing", "writing", "stamping"}
                 PROVE  o # i
      BY <1>1, <1>2, <1>3 DEF ListInv, Left, Narrowed
    <2> QED BY <1>1, <1>4, ExportAssumption DEF Running, ExportTypeOK
  <1>7. WrittenInv'
    <2>1. Running => db'[i].at >= export'.candidate
      BY <1>1, <1>4, ExportAssumption DEF ExportTypeOK
    <2> QED BY <2>1, <1>1, <1>2, <1>4, ExportAssumption DEF WrittenInv, Running, ExportTypeOK
  <1>8. CoveredInv'
    <2> SUFFICES ASSUME NEW o \in Listable', o \notin overlooked'
                 PROVE  files'[o] = db'[o].text \/ db'[o].at >= kept'.mark
                        \/ o \in kept'.refused \/ ToBeWritten(o)'
      BY DEF CoveredInv
    <2>1. CASE o = i
      BY <2>1, <1>1, <1>4, ExportAssumption DEF ExportTypeOK
    <2>2. CASE o # i
      BY <2>2, <1>1, <1>2, <1>3 DEF CoveredInv, ToBeWritten
    <2> QED BY <2>1, <2>2
  <1> QED BY <1>5, <1>6, <1>7, <1>8 DEF ExportFacts

(* A step of a run leaves the schema, and so what there is to list.          *)
LEMMA SchemaKept == NotTheDatabase => Listable' = Listable /\ \A o : db'[o] = db[o]
  BY DEF NotTheDatabase, Listable, Existing

(* The clock, and the first readings.                                        *)
LEMMA ReadingKeeps ==
  ExportInv /\ (DbClock \/ (\E r \in ExportRequests : BeginExport(r)) \/ ListDated \/ ListJobs \/ AddRefused)
  => ExportFacts'
  <1> SUFFICES ASSUME ExportInv, DbClock \/ (\E r \in ExportRequests : BeginExport(r))
                                 \/ ListDated \/ ListJobs \/ AddRefused
               PROVE  ExportFacts'
    OBVIOUS
  <1> USE DEF ExportInv
  <1>1. CASE DbClock
    <2>1. UNCHANGED <<db, files, kept, export, overlooked>> /\ time' = time + 1
      BY <1>1 DEF DbClock
    <2>2. TimesInv'
      BY <2>1, ExportAssumption DEF TimesInv, Running, ExportTypeOK
    <2>3. ListInv' /\ WrittenInv' /\ CoveredInv'
      BY <2>1 DEF ListInv, WrittenInv, CoveredInv, Listable, Existing, Request, Left, Narrowed, ToBeWritten
    <2> QED BY <2>2, <2>3 DEF ExportFacts
  <1>2. ASSUME NEW r \in ExportRequests, BeginExport(r) PROVE ExportFacts'
    <2>1. /\ export.at = "idle" /\ export'.at = "listing" /\ export'.candidate = time
          /\ export'.refused = {} /\ UNCHANGED <<db, time, files, kept, overlooked>>
      BY <1>2 DEF BeginExport, NoExport, NotTheDatabase, OnlyReads
    <2>2. TimesInv'
      BY <2>1, ExportAssumption DEF TimesInv, Running, ExportTypeOK
    <2>3. ListInv' /\ WrittenInv'
      BY <2>1 DEF ListInv, WrittenInv
    <2>4. CoveredInv'
      BY <2>1 DEF CoveredInv, Listable, Existing, ToBeWritten
    <2> QED BY <2>2, <2>3, <2>4 DEF ExportFacts
  <1>3. CASE ListDated
    <2>1. /\ export.at = "listing" /\ export'.at = "jobs" /\ export'.candidate = export.candidate
          /\ export'.request = export.request /\ export'.refused = export.refused
          /\ export'.listed = {o \in Dated \cap Request.names \cap Existing : db[o].at >= Since(Request)}
          /\ export'.gap = {o \in Dated \cap Existing : kept.mark <= db[o].at /\ db[o].at < Since(Request)}
          /\ NotTheDatabase /\ UNCHANGED <<db, time, files, kept, overlooked>>
      BY <1>3 DEF ListDated, Advance, ExportTypeOK, OnlyReads, NotTheDatabase
    <2>2. TimesInv'
      BY <2>1 DEF TimesInv, Running
    <2>3. WrittenInv' /\ CoveredInv'
      BY <2>1, SchemaKept DEF WrittenInv, CoveredInv, ToBeWritten
    <2>4. ListInv'
      <3> SUFFICES ASSUME NEW o \in Listable, o \in Request.names, o \notin export'.listed
                   PROVE  Request.recent # "none" /\ (o \in export'.gap \/ db[o].at < kept.mark)
        BY <2>1, SchemaKept DEF ListInv, Left, Request
      <3>1. o \in Dated /\ o \in Existing /\ ~(db[o].at >= Since(Request))
        BY <2>1 DEF Listable
      <3>2. db[o].at \in Nat /\ kept.mark \in Nat /\ time \in Nat
        BY <3>1, ExportAssumption DEF ExportTypeOK, Items
      <3>3. Request \in RequestShape
        BY ExportAssumption DEF Request, ExportTypeOK
      <3>4. Request.recent \in {"none", "last", "days"} /\ Request.days \in Nat
        BY <3>3 DEF RequestShape
      <3>5. CASE Request.recent = "none"
        BY <3>1, <3>2, <3>5 DEF Since, Never
      <3>6. CASE Request.recent = "last"
        BY <3>1, <3>2, <3>6 DEF Since
      <3>7. CASE Request.recent = "days"
        <4>1. Since(Request) = time - Request.days
          BY <3>7 DEF Since
        <4> HIDE DEF Since
        <4>2. Since(Request) \in Int
          BY <4>1, <3>2, <3>4
        <4>3. db[o].at < Since(Request)
          BY <4>2, <3>1, <3>2
        <4> QED BY <4>3, <3>1, <3>2, <3>7, <2>1
      <3> QED BY <3>4, <3>5, <3>6, <3>7
    <2> QED BY <2>2, <2>3, <2>4 DEF ExportFacts
  <1>4. CASE ListJobs
    <2>1. /\ export.at = "jobs" /\ export'.at = "refused" /\ export'.candidate = export.candidate
          /\ export'.request = export.request /\ export'.refused = export.refused
          /\ export'.gap = export.gap /\ export.listed \subseteq export'.listed
          /\ NotTheDatabase /\ UNCHANGED <<db, time, files, kept, overlooked>>
      BY <1>4 DEF ListJobs, Advance, ExportTypeOK, OnlyReads, NotTheDatabase
    <2>2. TimesInv'
      BY <2>1 DEF TimesInv, Running
    <2>3. ListInv' /\ WrittenInv' /\ CoveredInv'
      BY <2>1, SchemaKept DEF ListInv, WrittenInv, CoveredInv, ToBeWritten, Left, Request
    <2> QED BY <2>2, <2>3 DEF ExportFacts
  <1>5. CASE AddRefused
    <2>1. /\ export.at = "refused" /\ export'.at = "choosing" /\ export'.candidate = export.candidate
          /\ export'.request = export.request /\ export'.refused = export.refused
          /\ export'.gap = export.gap /\ export.listed \subseteq export'.listed
          /\ NotTheDatabase /\ UNCHANGED <<db, time, files, overlooked>>
      BY <1>5 DEF AddRefused, Advance, ExportTypeOK, NotTheDatabase
    <2>2. kept'.mark = kept.mark /\ \A o \in Existing : o \in kept.refused => o \in kept'.refused
      BY <1>5 DEF AddRefused, ExportTypeOK
    <2>3. TimesInv'
      BY <2>1, <2>2 DEF TimesInv, Running
    <2>4. ListInv' /\ WrittenInv'
      BY <2>1, <2>2, SchemaKept DEF ListInv, WrittenInv, Left, Request
    <2>5. CoveredInv'
      BY <2>1, <2>2, SchemaKept DEF CoveredInv, ToBeWritten, Listable
    <2> QED BY <2>3, <2>4, <2>5 DEF ExportFacts
  <1> QED BY <1>1, <1>2, <1>3, <1>4, <1>5

(* What goes first, with auto_delete or -delete, is gone, newer, or to be
   written.                                                                  *)
LEMMA ChoosingKeeps == ExportInv /\ ChooseObjects => ExportFacts'
  <1> SUFFICES ASSUME ExportInv, ChooseObjects PROVE ExportFacts'
    OBVIOUS
  <1> USE DEF ExportInv
  <1>1. PICK chosen \in IF Request.mine THEN SUBSET export.listed ELSE {export.listed} :
            /\ Advance("choosing", [export EXCEPT !.at = "writing", !.listed = chosen, !.todo = chosen])
            /\ files' = [i \in Items |->
                      IF \/ Request.sweep /\ Unfiltered(Request) /\ i \notin chosen
                         \/ Request.delete /\ i \in Request.names
                      THEN Absent ELSE files[i]]
            /\ UNCHANGED <<kept, overlooked>>
    BY DEF ChooseObjects
  <1>2. /\ export.at = "choosing" /\ export'.at = "writing" /\ export'.candidate = export.candidate
        /\ export'.request = export.request /\ export'.refused = export.refused
        /\ export'.gap = export.gap /\ export'.listed = chosen /\ export'.todo = chosen
        /\ NotTheDatabase /\ UNCHANGED <<db, time, kept, overlooked>>
    BY <1>1 DEF Advance, ExportTypeOK, NotTheDatabase
  <1>3. Request' = Request /\ chosen \subseteq export.listed /\ (~Request.mine => chosen = export.listed)
    BY <1>1, <1>2 DEF Request
  <1>4. TimesInv'
    BY <1>2 DEF TimesInv, Running
  <1>5. ASSUME NEW o \in Listable, ~Narrowed(Request), o \notin chosen, db[o].at < export.candidate
        PROVE  Request.recent # "none" /\ (o \in export.gap \/ db[o].at < kept.mark)
    <2>1. Left(o)
      BY <1>5, <1>3 DEF Left, Narrowed, Listable, Existing
    <2> QED BY <2>1, <1>2, <1>5 DEF ListInv
  <1>6. ListInv'
    BY <1>2, <1>3, <1>5, SchemaKept DEF ListInv
  <1>7. WrittenInv'
    BY <1>2, SchemaKept DEF WrittenInv
  <1>8. CoveredInv'
    <2> SUFFICES ASSUME NEW o \in Listable, o \notin overlooked, ~ToBeWritten(o)'
                 PROVE  files'[o] = db[o].text \/ db[o].at >= kept.mark \/ o \in kept.refused
      BY <1>2, SchemaKept DEF CoveredInv
    <2>1. o \in Items /\ db[o].at \in Nat /\ kept.mark \in Nat /\ export.candidate \in Nat
      BY ExportAssumption DEF Listable, Existing, ExportTypeOK
    <2>2. files[o] = db[o].text \/ db[o].at >= kept.mark \/ o \in kept.refused
      BY <1>2 DEF CoveredInv, ToBeWritten
    <2>3. kept.mark <= export.candidate
      BY <1>2 DEF TimesInv, Running
    <2>4. CASE Request.sweep /\ Unfiltered(Request) /\ o \notin chosen
      BY <2>1, <2>3, <2>4, <1>5 DEF Unfiltered
    <2>5. CASE Request.delete /\ o \in Request.names
      <3>1. Request.recent = "none" /\ ~Request.mine
        BY <2>5, ExportAssumption DEF Request, ExportTypeOK
      <3>2. o \notin chosen
        BY <2>5, <1>2, <1>3 DEF ToBeWritten
      <3>3. Left(o)
        BY <3>1, <3>2, <2>5, <1>3 DEF Left
      <3>4. ~(db[o].at < export.candidate)
        BY <3>1, <3>3, <1>2 DEF ListInv
      <3> QED BY <3>4, <2>1, <2>3
    <2>6. CASE files'[o] = files[o]
      BY <2>2, <2>6
    <2> QED BY <2>1, <2>4, <2>5, <2>6, <1>1
  <1> QED BY <1>4, <1>6, <1>7, <1>8 DEF ExportFacts

(* An object is written as it stands, or refused.                            *)
LEMMA WritingKeeps == ExportInv /\ (\E i \in Items : WriteObject(i) \/ RefuseObject(i)) => ExportFacts'
  <1> SUFFICES ASSUME ExportInv, NEW i \in Items, WriteObject(i) \/ RefuseObject(i) PROVE ExportFacts'
    OBVIOUS
  <1> USE DEF ExportInv
  <1>1. /\ export.at = "writing" /\ export'.at = "writing" /\ export'.candidate = export.candidate
        /\ export'.request = export.request /\ export'.listed = export.listed
        /\ export'.gap = export.gap /\ export'.todo = export.todo \ {i} /\ i \in export.todo
        /\ NotTheDatabase /\ UNCHANGED <<db, time, kept>>
    BY DEF WriteObject, RefuseObject, Done, Advance, ExportTypeOK, NotTheDatabase, OnlyReads
  <1>2. Request' = Request /\ Listable' = Listable
    BY <1>1, SchemaKept DEF Request
  <1>3. TimesInv'
    BY <1>1 DEF TimesInv, Running
  <1>4. ListInv'
    BY <1>1, <1>2 DEF ListInv, Left
  <1>5. CASE WriteObject(i)
    <2>1. /\ export'.refused = export.refused /\ files'[i] = db[i].text
          /\ \A o \in Items \ {i} : files'[o] = files[o]
          /\ overlooked' = overlooked \ {i}
      BY <1>5 DEF WriteObject, Done, Advance, ExportTypeOK
    <2>2. \A o \in Listable : o \in Items
      BY DEF Listable, Existing
    <2>3. WrittenInv'
      BY <1>1, <1>2, <2>1, <2>2 DEF WrittenInv
    <2>4. CoveredInv'
      BY <1>1, <1>2, <2>1, <2>2 DEF CoveredInv, ToBeWritten
    <2> QED BY <1>3, <1>4, <2>3, <2>4 DEF ExportFacts
  <1>6. CASE RefuseObject(i)
    <2>1. export'.refused = export.refused \cup {i} /\ UNCHANGED <<files, overlooked>>
      BY <1>6 DEF RefuseObject, Done, Advance, ExportTypeOK, OnlyReads
    <2>2. WrittenInv'
      BY <1>1, <1>2, <2>1 DEF WrittenInv
    <2>3. CoveredInv'
      BY <1>1, <1>2, <2>1 DEF CoveredInv, ToBeWritten
    <2> QED BY <1>3, <1>4, <2>2, <2>3 DEF ExportFacts
  <1> QED BY <1>5, <1>6

(* Of the refused, only what was written is forgotten.                       *)
LEMMA RememberKeeps == ExportInv /\ RememberRefused => ExportFacts'
  <1> SUFFICES ASSUME ExportInv, RememberRefused PROVE ExportFacts'
    OBVIOUS
  <1> USE DEF ExportInv
  <1>1. /\ export.at = "writing" /\ export.todo = {}
        /\ NotTheDatabase /\ UNCHANGED <<db, time, files, overlooked>>
        /\ kept'.mark = kept.mark
        /\ \A o \in Dated : o \in kept'.refused <=>
                               o \in export.refused \/ (o \in kept.refused /\ o \notin export.listed)
    BY DEF RememberRefused, Advance, ExportTypeOK, NotTheDatabase
  <1>2. \/ export' = NoExport
        \/ /\ export'.at = "stamping" /\ export'.candidate = export.candidate
           /\ export'.request = export.request /\ export'.refused = export.refused
           /\ export'.gap = export.gap /\ export'.listed = export.listed
    BY DEF RememberRefused, Advance, ExportTypeOK
  <1>3. NoExport.at = "idle" /\ NoExport.refused = {}
    BY DEF NoExport
  <1>4. ASSUME NEW o \in Listable, o \in export.listed
        PROVE  files[o] = db[o].text \/ db[o].at >= export.candidate \/ o \in kept'.refused
    BY <1>1, <1>4 DEF WrittenInv, Listable
  <1>5. TimesInv'
    BY <1>1, <1>2, <1>3 DEF TimesInv, Running
  <1>6. ListInv'
    BY <1>1, <1>2, <1>3, SchemaKept DEF ListInv, Request, Narrowed
  <1>7. WrittenInv'
    BY <1>1, <1>2, <1>3, <1>4, SchemaKept DEF WrittenInv
  <1>8. CoveredInv'
    <2> SUFFICES ASSUME NEW o \in Listable, o \notin overlooked
                 PROVE  files[o] = db[o].text \/ db[o].at >= kept.mark \/ o \in kept'.refused
      BY <1>1, SchemaKept DEF CoveredInv
    <2>1. o \in Items /\ o \in Dated /\ db[o].at \in Nat /\ kept.mark \in Nat /\ export.candidate \in Nat
      BY ExportAssumption DEF Listable, Existing, ExportTypeOK
    <2>2. kept.mark <= export.candidate
      BY <1>1 DEF TimesInv, Running
    <2>3. CASE o \in export.listed
      BY <1>4, <2>1, <2>2, <2>3
    <2>4. CASE o \notin export.listed
      BY <1>1, <2>1, <2>4 DEF CoveredInv, ToBeWritten
    <2> QED BY <2>3, <2>4
  <1> QED BY <1>5, <1>6, <1>7, <1>8 DEF ExportFacts

(* The watermark moves past what was written, refused, or overlooked.        *)
LEMMA StampKeeps == ExportInv /\ StampWatermark => ExportFacts'
  <1> SUFFICES ASSUME ExportInv, StampWatermark PROVE ExportFacts'
    OBVIOUS
  <1> USE DEF ExportInv
  <1>1. /\ export.at = "stamping" /\ export'.at = "signing" /\ export'.candidate = export.candidate
        /\ NotTheDatabase /\ UNCHANGED <<db, time, files>> /\ kept'.refused = kept.refused
    BY DEF StampWatermark, Advance, ExportTypeOK, NotTheDatabase
  <1>2. \/ UNCHANGED <<kept, overlooked>>
        \/ /\ kept'.mark = export.candidate /\ ~Narrowed(Request)
           /\ overlooked' = overlooked \cup {o \in export.gap : db[o].at < export.candidate}
    BY DEF StampWatermark, MayAdvance, ExportTypeOK
  <1>3. kept.mark <= export.candidate /\ export.candidate <= time
    BY <1>1 DEF TimesInv, Running
  <1>4. TimesInv'
    BY <1>1, <1>2, <1>3, ExportAssumption DEF TimesInv, Running, ExportTypeOK
  <1>5. ListInv' /\ WrittenInv'
    BY <1>1 DEF ListInv, WrittenInv
  <1>6. CoveredInv'
    <2> SUFFICES ASSUME NEW o \in Listable, o \notin overlooked'
                 PROVE  files[o] = db[o].text \/ db[o].at >= kept'.mark \/ o \in kept.refused
      BY <1>1, SchemaKept DEF CoveredInv
    <2>1. o \in Items /\ db[o].at \in Nat /\ kept.mark \in Nat /\ export.candidate \in Nat
      BY ExportAssumption DEF Listable, Existing, ExportTypeOK
    <2>2. o \notin overlooked => files[o] = db[o].text \/ db[o].at >= kept.mark \/ o \in kept.refused
      BY <1>1 DEF CoveredInv, ToBeWritten
    <2>3. CASE UNCHANGED <<kept, overlooked>>
      BY <2>2, <2>3
    <2>4. CASE /\ kept'.mark = export.candidate /\ ~Narrowed(Request)
               /\ overlooked' = overlooked \cup {p \in export.gap : db[p].at < export.candidate}
      <3> SUFFICES ASSUME db[o].at < export.candidate
                   PROVE  files[o] = db[o].text \/ o \in kept.refused
        BY <2>1, <2>4
      <3>1. CASE o \in export.listed
        BY <3>1, <2>1, <1>1 DEF WrittenInv
      <3>2. CASE o \notin export.listed
        <4>1. o \in export.gap \/ db[o].at < kept.mark
          BY <3>2, <2>4, <1>1 DEF ListInv
        <4> QED BY <4>1, <2>1, <2>2, <2>4
      <3> QED BY <3>1, <3>2
    <2> QED BY <1>2, <2>3, <2>4
  <1> QED BY <1>4, <1>5, <1>6 DEF ExportFacts

(* The end of a run, or its stop.                                            *)
LEMMA EndKeeps == ExportInv /\ (SignJobs \/ ExportStops) => ExportFacts'
  <1> SUFFICES ASSUME ExportInv, SignJobs \/ ExportStops PROVE ExportFacts'
    OBVIOUS
  <1> USE DEF ExportInv
  <1>1. /\ export'.at = "idle" /\ export'.refused = {} /\ NotTheDatabase /\ UNCHANGED <<db, time, files>>
        /\ kept'.mark = kept.mark /\ kept'.refused = kept.refused
    BY DEF SignJobs, ExportStops, Advance, NoExport, NotTheDatabase, ExportTypeOK
  <1>2. TimesInv'
    BY <1>1 DEF TimesInv, Running
  <1>3. ListInv' /\ WrittenInv'
    BY <1>1 DEF ListInv, WrittenInv
  <1>4. \A o \in Listable \ overlooked' : o \notin overlooked /\ ~ToBeWritten(o)
    BY DEF SignJobs, ExportStops, Advance, ToBeWritten, Listable
  <1>5. CoveredInv'
    BY <1>1, <1>4, SchemaKept DEF CoveredInv
  <1> QED BY <1>2, <1>3, <1>5 DEF ExportFacts

(* The invariant holds at the start, and every step keeps it.                *)
LEMMA ExportHolds == ExportSpec => []ExportInv
  <1>1. ExportInit => ExportInv
    <2> SUFFICES ASSUME ExportInit PROVE ExportInv
      OBVIOUS
    <2>1. export = NoExport /\ kept = [mark |-> Never, refused |-> {}, signed |-> NoSignatures]
      BY DEF ExportInit
    <2>2. export \in ExportType /\ kept \in KeptType
      BY <2>1, NoExportIsTyped, ExportAssumption DEF KeptType, NoSignatures, Content, Never
    <2>3. ExportTypeOK
      BY <2>2, ExportAssumption DEF ExportTypeOK, ExportInit, ExportType, KeptType, Never, Content
    <2>4. export.at = "idle" /\ export.refused = {} /\ kept.mark = 0
      BY <2>1 DEF NoExport, Never
    <2>5. TimesInv
      BY <2>4 DEF TimesInv, Running, ExportInit, Never
    <2>6. ListInv /\ WrittenInv
      BY <2>4 DEF ListInv, WrittenInv
    <2>7. CoveredInv
      BY DEF CoveredInv, ExportInit, Listable, Existing
    <2> QED BY <2>3, <2>5, <2>6, <2>7 DEF ExportInv
  <1>2. ExportInv /\ [ExportNext]_exportVars => ExportInv'
    <2> SUFFICES ASSUME ExportInv, [ExportNext]_exportVars PROVE ExportInv'
      OBVIOUS
    <2>1. CASE ExportNext
      <3>1. ExportTypeOK'
        BY <2>1, ExportTyped DEF ExportInv
      <3>2. ExportFacts'
        BY <2>1, AlterKeeps, ReadingKeeps, ChoosingKeeps, WritingKeeps, RememberKeeps, StampKeeps, EndKeeps
           DEF ExportNext
      <3> QED BY <3>1, <3>2 DEF ExportInv, ExportFacts
    <2>2. CASE UNCHANGED exportVars
      BY <2>2 DEF exportVars, ExportInv, ExportTypeOK, TimesInv, ListInv, WrittenInv, CoveredInv,
                  Running, Listable, Existing, Left, Request, Narrowed, ToBeWritten
    <2> QED BY <2>1, <2>2
  <1> QED BY <1>1, <1>2, PTL DEF ExportSpec

(* No run of export_db steps past a change it never wrote: between two runs,
   an object whose file is not what the schema holds is one the next bare
   -recent lists, whatever the requests, the clock and the changes between
   any two queries, but for the two ways `overlooked` holds.                 *)
THEOREM NoChangeIsSkipped == ExportSpec => []NothingSkipped
  <1>1. ExportInv => NothingSkipped
    BY DEF ExportInv, CoveredInv, NothingSkipped, ToBeWritten, Listable
  <1> QED BY <1>1, ExportHolds, PTL

-----------------------------------------------------------------------------
(* live_upload.                                                              *)
(* What the watch remembers and is still to take was stamped by now.         *)
StampInv ==
    /\ \A f \in Watched : folder[f].stamp <= instant /\ known[f] <= instant /\ look.todo[f] <= instant
    /\ look.at = "sleep" => \A f \in Watched : look.todo[f] = 0
    /\ look.at \in {"minify", "write"} => look.hand = Source

(* A file whose upload is under way may be served what it held before, so its
   payload is what it holds, or it was saved since; any other is served, saved
   since, or still to be taken.                                              *)
Current(f, text) == text = folder[f].text \/ folder[f].stamp > known[f]
ServedInv ==
    \A f \in Watched \ missed :
        /\ look.at = "upload" /\ look.hand = f => Current(f, look.payload)
        /\ look.at \notin {"read", "upload"} \/ look.hand # f => Current(f, apex[f]) \/ look.todo[f] # 0

LiveInv == LiveTypeOK /\ StampInv /\ ServedInv

LookType == [at : {"sleep", "pass", "read", "upload", "minify", "write"},
             todo : [Watched -> Stamps], hand : Watched, payload : Texts]

(* A saved file carries the present instant, which is news unless the watch has
   seen the instant already.                                                 *)
LEMMA SavedIsNews ==
  ASSUME LiveInv, NEW f \in Watched, NEW text \in Texts, Written(f, text),
         UNCHANGED <<apex, known, look, instant>>
  PROVE  /\ folder' \in [Watched -> [text : Texts, stamp : Stamps]] /\ missed' \subseteq Watched
         /\ \A g \in Watched : folder'[g].stamp <= instant
         /\ ServedInv'
  <1> USE DEF LiveInv
  <1>1. /\ folder'[f].stamp = instant /\ \A g \in Watched \ {f} : folder'[g] = folder[g]
        /\ \A g \in Watched \ {f} : g \in missed' <=> g \in missed
        /\ f \notin missed' => instant # known[f]
    BY DEF Written, LiveTypeOK
  <1>2. instant \in Stamps /\ instant \in Nat /\ known[f] \in Nat
    BY LiveAssumption DEF LiveTypeOK, Stamps
  <1>3. folder' \in [Watched -> [text : Texts, stamp : Stamps]] /\ missed' \subseteq Watched
    BY <1>2 DEF Written, LiveTypeOK
  <1>4. \A g \in Watched : folder'[g].stamp <= instant
    BY <1>1, <1>2 DEF StampInv
  <1>5. f \notin missed' => folder'[f].stamp > known[f]
    BY <1>1, <1>2 DEF StampInv
  <1>6. ServedInv'
    BY <1>1, <1>5 DEF ServedInv, Current
  <1> QED BY <1>3, <1>4, <1>6

(* A number of saves, and the minified form of one, are texts.               *)
LEMMA TextsAre ==
  /\ \A n \in 0..MaxSaves : Edit(n) \in Texts /\ Minified(n) \in Texts /\ Edit(n).of = n /\ Minified(n).of = n
  /\ \A text \in Texts : text.of \in 0..MaxSaves
  /\ NoText \in Texts
  <1>1. ASSUME NEW n \in 0..MaxSaves
        PROVE  Edit(n) \in Texts /\ Minified(n) \in Texts /\ Edit(n).of = n /\ Minified(n).of = n
    BY DEF Texts, Edit, Minified
  <1>2. ASSUME NEW text \in Texts PROVE text.of \in 0..MaxSaves
    <2>1. PICK n \in 0..MaxSaves : text = Edit(n) \/ text = Minified(n)
      BY <1>2 DEF Texts
    <2> QED BY <1>1, <2>1
  <1>3. 0 \in 0..MaxSaves
    BY LiveAssumption
  <1> QED BY <1>1, <1>2, <1>3 DEF NoText

(* Every step of the editor and of the watch keeps the invariant.            *)
LEMMA LiveKept == LiveInv /\ LiveNext => LiveInv'
  <1> SUFFICES ASSUME LiveInv, LiveNext PROVE LiveInv'
    OBVIOUS
  <1> USE DEF LiveInv
  <1>0. look \in LookType /\ instant \in Nat /\ Source \in Watched /\ Sibling \in Watched
    BY LiveAssumption DEF LiveTypeOK, LookType, Watched
  <1>1. ASSUME NEW f \in Watched, Save(f) PROVE LiveInv'
    <2>1. saves + 1 \in 0..MaxSaves
      BY <1>1, LiveAssumption DEF Save, LiveTypeOK
    <2>2. Edit(saves + 1) \in Texts
      BY <2>1, TextsAre
    <2>3. Written(f, Edit(saves + 1)) /\ UNCHANGED <<apex, known, look, instant>> /\ saves' = saves + 1
      BY <1>1 DEF Save
    <2>4. /\ folder' \in [Watched -> [text : Texts, stamp : Stamps]] /\ missed' \subseteq Watched
          /\ \A g \in Watched : folder'[g].stamp <= instant
          /\ ServedInv'
      BY <2>2, <2>3, SavedIsNews
    <2>5. LiveTypeOK'
      BY <2>1, <2>3, <2>4 DEF LiveTypeOK
    <2>6. StampInv'
      BY <2>3, <2>4 DEF StampInv
    <2> QED BY <2>4, <2>5, <2>6
  <1>2. ASSUME NEW f \in Watched, RestoreBackup(f) PROVE LiveInv'
    <2>1. PICK old \in 1..(folder[f].stamp - 1) :
              folder' = [folder EXCEPT ![f] = [text |-> Edit(saves + 1), stamp |-> old]]
      BY <1>2 DEF RestoreBackup
    <2>2. saves + 1 \in 0..MaxSaves
      BY <1>2, LiveAssumption DEF RestoreBackup, LiveTypeOK
    <2>3. Edit(saves + 1) \in Texts
      BY <2>2, TextsAre
    <2>4. folder[f].stamp \in Nat /\ folder[f].stamp <= MaxStamp /\ folder[f].stamp <= instant
      BY LiveAssumption DEF LiveTypeOK, Stamps, StampInv
    <2>5. old \in Stamps /\ old <= instant
      BY <2>1, <2>4, <1>0, LiveAssumption DEF Stamps
    <2>6. /\ folder' \in [Watched -> [text : Texts, stamp : Stamps]]
          /\ folder'[f].stamp = old /\ \A g \in Watched \ {f} : folder'[g] = folder[g]
      BY <2>1, <2>3, <2>5 DEF LiveTypeOK
    <2>7. missed' = missed \cup {f} /\ UNCHANGED <<apex, known, look, instant>> /\ saves' = saves + 1
      BY <1>2 DEF RestoreBackup
    <2>8. LiveTypeOK'
      BY <2>2, <2>6, <2>7 DEF LiveTypeOK
    <2>9. StampInv'
      BY <2>5, <2>6, <2>7 DEF StampInv
    <2>10. ServedInv'
      BY <2>6, <2>7 DEF ServedInv, Current
    <2> QED BY <2>8, <2>9, <2>10
  <1>3. CASE FileClock
    <2>1. LiveTypeOK'
      BY <1>3, LiveAssumption DEF FileClock, LiveTypeOK
    <2>2. StampInv'
      BY <1>3, <1>0, LiveAssumption DEF FileClock, StampInv, LiveTypeOK, Stamps
    <2>3. ServedInv'
      BY <1>3 DEF FileClock, ServedInv, Current
    <2> QED BY <2>1, <2>2, <2>3
  <1>4. CASE LookAgain
    <2>1. /\ look.at = "sleep" /\ look'.at = "pass" /\ look'.hand = look.hand /\ look'.payload = look.payload
          /\ look'.todo = [f \in Watched |-> IF folder[f].stamp > known[f] THEN folder[f].stamp ELSE 0]
          /\ UNCHANGED <<folder, apex, known, instant, saves, missed>>
      BY <1>4 DEF LookAgain, LiveTypeOK, NoWrite
    <2>2. look' \in LookType
      <3>1. [f \in Watched |-> IF folder[f].stamp > known[f] THEN folder[f].stamp ELSE 0] \in [Watched -> Stamps]
        BY LiveAssumption DEF LiveTypeOK, Stamps
      <3> QED BY <1>0, <1>4, <3>1 DEF LookAgain, LookType
    <2>3. LiveTypeOK'
      BY <2>1, <2>2 DEF LiveTypeOK, LookType
    <2>4. StampInv'
      BY <2>1, <1>0 DEF StampInv
    <2>5. \A f \in Watched : known[f] \in Nat /\ folder[f].stamp \in Nat
      BY LiveAssumption DEF LiveTypeOK, Stamps
    <2>6. ServedInv'
      BY <2>1, <2>5 DEF ServedInv, Current, StampInv
    <2> QED BY <2>3, <2>4, <2>6
  <1>5. ASSUME NEW f \in Watched, TakeFile(f) PROVE LiveInv'
    <2>1. /\ look.at = "pass" /\ look'.at = "read" /\ look'.hand = f /\ look.todo[f] # 0
          /\ look' \in LookType /\ look'.todo[f] = 0
          /\ \A g \in Watched \ {f} : look'.todo[g] = look.todo[g]
      <3>1. look'.todo = [look.todo EXCEPT ![f] = 0] /\ look'.payload = look.payload
            /\ look' = [at |-> "read", todo |-> look'.todo, hand |-> f, payload |-> look.payload]
        BY <1>0, <1>5 DEF TakeFile, LookType
      <3>2. look'.todo \in [Watched -> Stamps]
        BY <1>0, <3>1, LiveAssumption DEF LookType, Stamps
      <3>3. look' \in LookType
        BY <1>0, <3>1, <3>2 DEF LookType
      <3> QED BY <1>0, <1>5, <3>1, <3>3 DEF TakeFile, LookType
    <2>2. /\ known' \in [Watched -> Stamps] /\ known'[f] = look.todo[f]
          /\ \A g \in Watched \ {f} : known'[g] = known[g]
          /\ UNCHANGED <<folder, apex, instant, saves, missed>>
      BY <1>0, <1>5 DEF TakeFile, LookType, LiveTypeOK, NoWrite
    <2>3. LiveTypeOK'
      BY <2>1, <2>2 DEF LiveTypeOK, LookType
    <2>4. StampInv'
      BY <2>1, <2>2, <1>0 DEF StampInv
    <2>5. ServedInv'
      BY <2>1, <2>2 DEF ServedInv, Current
    <2> QED BY <2>3, <2>4, <2>5
  <1>6. CASE ReadFile
    <2>1. /\ look.at = "read" /\ look'.at = "upload" /\ look'.hand = look.hand /\ look'.todo = look.todo
          /\ look'.payload = folder[look.hand].text /\ look' \in LookType
          /\ UNCHANGED <<folder, apex, known, instant, saves, missed>>
      BY <1>0, <1>6 DEF ReadFile, LookType, LiveTypeOK, NoWrite
    <2>2. LiveTypeOK'
      BY <2>1 DEF LiveTypeOK, LookType
    <2> QED BY <2>1, <2>2 DEF StampInv, ServedInv, Current
  <1>7. CASE UploadFile
    <2>1. /\ look.at = "upload" /\ look'.at = (IF look.hand = Source THEN "minify" ELSE "pass")
          /\ look'.hand = look.hand /\ look'.todo = look.todo /\ look' \in LookType
          /\ UNCHANGED <<folder, known, instant, saves, missed>>
      BY <1>0, <1>7 DEF UploadFile, Turns, LookType, NoWrite
    <2>2. /\ apex' \in [Watched -> Texts] /\ apex'[look.hand] = look.payload
          /\ \A g \in Watched \ {look.hand} : apex'[g] = apex[g]
      BY <1>0, <1>7 DEF UploadFile, LookType, LiveTypeOK
    <2>3. LiveTypeOK'
      BY <2>1, <2>2 DEF LiveTypeOK, LookType
    <2> QED BY <2>1, <2>2, <2>3 DEF StampInv, ServedInv, Current
  <1>8. ASSUME UploadFails \/ MinifyFails PROVE LiveInv'
    <2>1. /\ look'.at = "pass" /\ look'.hand = look.hand /\ look'.todo = look.todo /\ look' \in LookType
          /\ UNCHANGED <<folder, apex, known, instant, saves>>
      BY <1>0, <1>8 DEF UploadFails, MinifyFails, Turns, LookType, NoWrite
    <2>2. \/ look.at \in {"read", "upload"} /\ missed' = missed \cup {look.hand}
          \/ look.at \in {"minify", "write"} /\ missed' = missed
      BY <1>8 DEF UploadFails, MinifyFails
    <2>3. look.hand \in Watched
      BY <1>0 DEF LookType
    <2>4. LiveTypeOK'
      BY <2>1, <2>2, <2>3 DEF LiveTypeOK, LookType
    <2> QED BY <2>1, <2>2, <2>4 DEF StampInv, ServedInv, Current
  <1>9. CASE MinifyFile
    <2>1. folder[Source].text \in Texts
      BY <1>0 DEF LiveTypeOK
    <2>2. Minified(folder[Source].text.of) \in Texts
      BY <2>1, TextsAre
    <2>3. /\ look.at = "minify" /\ look'.at = "write" /\ look'.hand = look.hand /\ look'.todo = look.todo
          /\ look' \in LookType /\ UNCHANGED <<folder, apex, known, instant, saves, missed>>
      BY <1>0, <1>9, <2>2 DEF MinifyFile, LookType, NoWrite
    <2>4. LiveTypeOK'
      BY <2>3 DEF LiveTypeOK, LookType
    <2> QED BY <2>3, <2>4 DEF StampInv, ServedInv, Current
  <1>10. CASE WriteSibling
    <2>1. /\ look.at = "write" /\ look'.at = "pass" /\ look'.hand = look.hand /\ look'.todo = look.todo
          /\ look' \in LookType /\ UNCHANGED <<apex, known, instant, saves>>
          /\ Written(Sibling, look.payload) /\ look.payload \in Texts
      BY <1>0, <1>10 DEF WriteSibling, Turns, LookType
    <2>2. /\ folder'[Sibling].stamp = instant /\ \A g \in Watched \ {Sibling} : folder'[g] = folder[g]
          /\ \A g \in Watched \ {Sibling} : g \in missed' <=> g \in missed
          /\ Sibling \notin missed' => instant # known[Sibling]
          /\ missed' \subseteq Watched
      BY <2>1, <1>0 DEF Written, LiveTypeOK
    <2>3. instant \in Stamps /\ known[Sibling] \in Nat
      BY <1>0, LiveAssumption DEF LiveTypeOK, Stamps
    <2>4. folder' \in [Watched -> [text : Texts, stamp : Stamps]]
      BY <2>1, <2>3 DEF Written, LiveTypeOK
    <2>5. LiveTypeOK'
      BY <2>1, <2>2, <2>4 DEF LiveTypeOK, LookType
    <2>6. StampInv'
      BY <2>1, <2>2, <1>0 DEF StampInv
    <2>7. Sibling \notin missed' => folder'[Sibling].stamp > known[Sibling]
      BY <2>2, <2>3, <1>0 DEF StampInv
    <2>8. ServedInv'
      BY <2>1, <2>2, <2>7 DEF ServedInv, Current
    <2> QED BY <2>5, <2>6, <2>8
  <1>11. CASE EndOfLook
    <2>1. /\ look.at = "pass" /\ \A f \in Watched : look.todo[f] = 0
          /\ look'.at = "sleep" /\ look' \in LookType /\ \A f \in Watched : look'.todo[f] = 0
          /\ UNCHANGED <<folder, apex, known, instant, saves, missed>>
      BY <1>0, <1>11, TextsAre, LiveAssumption DEF EndOfLook, Idle, LookType, Stamps, NoWrite, Remembered
    <2>2. LiveTypeOK'
      BY <2>1 DEF LiveTypeOK, LookType
    <2> QED BY <2>1, <2>2, <1>0 DEF StampInv, ServedInv, Current
  <1> QED BY <1>1, <1>2, <1>3, <1>4, <1>5, <1>6, <1>7, <1>8, <1>9, <1>10, <1>11 DEF LiveNext

(* When a look of live_upload finds nothing new, APEX serves what the folder
   holds, whenever files were saved between the scan, the read and the upload
   of a pass: for any number of saves and any clock.                         *)
THEOREM NothingNewMeansServed == LiveSpec => []ServesTheFolder
  <1>1. LiveInit => LiveInv
    <2> SUFFICES ASSUME LiveInit PROVE LiveInv
      OBVIOUS
    <2>1. LiveTypeOK
      BY TextsAre, LiveAssumption DEF LiveInit, LiveTypeOK, Idle, Watched, Stamps
    <2>2. /\ look.at = "sleep" /\ instant = 1
          /\ \A f \in Watched : /\ folder[f].stamp \in 0..1 /\ known[f] = folder[f].stamp
                                /\ look.todo[f] = 0 /\ apex[f] = folder[f].text
      BY DEF LiveInit, Idle
    <2> QED BY <2>1, <2>2 DEF LiveInv, StampInv, ServedInv, Current
  <1>2. LiveInv /\ [LiveNext]_liveVars => LiveInv'
    <2> SUFFICES ASSUME LiveInv, [LiveNext]_liveVars PROVE LiveInv'
      OBVIOUS
    <2>1. CASE UNCHANGED liveVars
      BY <2>1 DEF liveVars, LiveInv, LiveTypeOK, StampInv, ServedInv, Current
    <2> QED BY <2>1, LiveKept
  <1>3. LiveInv => ServesTheFolder
    <2> SUFFICES ASSUME LiveInv, look.at = "sleep", \A f \in Watched : folder[f].stamp <= known[f],
                        NEW f \in Watched \ missed
                 PROVE  apex[f] = folder[f].text
      BY DEF ServesTheFolder
    <2>1. folder[f].stamp \in Nat /\ known[f] \in Nat
      BY LiveAssumption DEF LiveInv, LiveTypeOK, Stamps
    <2> QED BY <2>1 DEF LiveInv, StampInv, ServedInv, Current
  <1> QED BY <1>1, <1>2, <1>3, PTL DEF LiveSpec

-----------------------------------------------------------------------------
(* doctor -update.                                                           *)
Old(p) == disk[p] = "old"

(* Between two runs nothing is staged; before the first the old install is live. *)
TidyInv ==
    /\ At("idle") => disk["stale"] = "none"
    /\ upgrades = 0 => At("idle") /\ Old("live") /\ hurt = {}

(* Where the folders are while nothing has gone wrong that the run does not
   undo: as it found them; the backup aside; the live install in its place;
   and then what the flags say.                                              *)
AsFound == disk["live"] = before.live /\ disk["backup"] = before.backup
BackupAside == disk["backup"] = "none" /\ disk["stale"] = before.backup
LiveAside == disk["backup"] = before.live /\ disk["stale"] = before.backup
Says(flag, there) == flag \in up.flags <=> there
Untold == "promotion" \notin up.flags /\ "current" \notin up.flags

Undone == \/ AsFound /\ up.flags = {}
          \/ disk["live"] = before.live /\ BackupAside /\ Says("stale", before.backup # "none") /\ Untold
Promoting == /\ LiveAside /\ "promotion" \in up.flags
             /\ Says("stale", before.backup # "none") /\ Says("current", before.live # "none")

FoundInv ==
    hurt = {} /\ upgrades > 0 =>
        /\ At("stale") => AsFound /\ disk["stale"] = "none" /\ up.flags = {}
        /\ At("current") => /\ disk["live"] = before.live /\ BackupAside
                            /\ Says("stale", before.backup # "none") /\ Untold
        /\ At("promote") => disk["live"] = "none" /\ Promoting
        /\ up.at \in {"stale", "current", "promote"} => disk["candidate"] = "new"
        /\ At("remove") => Undone \/ Promoting
        /\ At("putback") => Undone \/ (Promoting /\ disk["live"] = "none")
        /\ At("restale") =>
              \/ AsFound /\ up.flags = {}
              \/ disk["live"] = before.live /\ BackupAside /\ Says("stale", before.backup # "none")
        /\ up.at \in {"cleanup", "idle"} => AsFound \/ disk["live"] = "new"

(* Where the install a first run found is, whatever has gone wrong but a
   removal.                                                                  *)
Told == "promotion" \in up.flags /\ "current" \in up.flags
OldInv ==
    upgrades <= 1 /\ "removal" \notin hurt =>
        /\ Old("live") \/ Old("backup")
        /\ up.at \in {"stale", "current"} => Old("live") /\ Untold
        /\ At("current") => disk["backup"] = "none"
        /\ At("promote") => disk["live"] = "none" /\ Told
        /\ At("remove") => Untold \/ (Told /\ Old("backup"))
        /\ At("putback") => "current" \notin up.flags \/ (Old("backup") /\ disk["live"] = "none")

UpgradeInv == UpgradeTypeOK /\ TidyInv /\ FoundInv /\ OldInv

(* What a move does to the two folders, and to any other.                    *)
LEMMA MovedFolders ==
  ASSUME UpgradeTypeOK, NEW src \in Places, NEW dst \in Places, src # dst
  PROVE  /\ Moved(src, dst) \in [Places -> Installs]
         /\ Moved(src, dst)[src] = "none"
         /\ Moved(src, dst)[dst] = IF disk[dst] = "none" THEN disk[src] ELSE disk[dst]
         /\ \A p \in Places \ {src, dst} : Moved(src, dst)[p] = disk[p]
  BY DEF UpgradeTypeOK, Moved, Places, Installs

(* Every step of a run keeps the invariant.                                  *)
LEMMA UpgradeKept == UpgradeInv /\ UpgradeNext => UpgradeInv'
  <1> SUFFICES ASSUME UpgradeInv, UpgradeNext PROVE UpgradeInv'
    OBVIOUS
  <1> USE DEF UpgradeInv, At, To
  <1> DEFINE UpType == [at : Points, flags : SUBSET Flags]
  <1>0. up \in UpType /\ disk \in [Places -> Installs] /\ upgrades \in Nat /\ failures \in Nat
        /\ hurt \subseteq Hurts /\ before \in [live : Installs, backup : Installs]
    BY DEF UpgradeTypeOK
  <1>1. ASSUME disk' \in [Places -> Installs], up' \in UpType, Counts, failures' \in Nat, hurt' \subseteq Hurts
        PROVE  UpgradeTypeOK'
    BY <1>0, <1>1 DEF UpgradeTypeOK, Counts
  <1>2. CASE Stage
    <2>1. /\ At("idle") /\ upgrades' = upgrades + 1 /\ up'.at = "stale" /\ up'.flags = {} /\ hurt' = {}
          /\ disk'["candidate"] = "new" /\ \A p \in Places \ {"candidate"} : disk'[p] = disk[p]
          /\ before'.live = disk["live"] /\ before'.backup = disk["backup"]
      BY <1>0, <1>2 DEF Stage, Places
    <2>2. UpgradeTypeOK'
      <3>1. disk' \in [Places -> Installs]
        BY <1>0, <1>2 DEF Stage, Installs
      <3>2. before' \in [live : Installs, backup : Installs]
        BY <1>0, <1>2 DEF Stage, Places
      <3>3. up' \in UpType
        BY <1>2 DEF Stage, Points
      <3> QED BY <3>1, <3>2, <3>3, <1>0, <1>2, <2>1 DEF Stage, UpgradeTypeOK
    <2>3. disk["stale"] = "none" /\ (upgrades = 0 => Old("live"))
      BY <2>1 DEF TidyInv
    <2>4. upgrades' # 0 /\ (upgrades' <= 1 => upgrades = 0)
      BY <2>1, <1>0
    <2>5. TidyInv'
      BY <2>1, <2>4 DEF TidyInv
    <2>6. FoundInv'
      BY <2>1, <2>3 DEF FoundInv, AsFound, Places
    <2>7. OldInv'
      BY <2>1, <2>3, <2>4 DEF OldInv, Untold, Old, Places
    <2> QED BY <2>2, <2>5, <2>6, <2>7
  <1>3. CASE SaveStale
    <2>1. /\ At("stale") /\ up'.at = "current" /\ Well
          /\ up'.flags = up.flags \cup (IF There("backup") THEN {"stale"} ELSE {})
          /\ disk' = IF There("backup") THEN Moved("backup", "stale") ELSE disk
      BY <1>0, <1>3 DEF SaveStale
    <2>2. /\ disk' \in [Places -> Installs] /\ disk'["backup"] = "none"
          /\ disk'["live"] = disk["live"] /\ disk'["candidate"] = disk["candidate"]
          /\ disk["stale"] = "none" => disk'["stale"] = disk["backup"]
      BY <1>0, <2>1, MovedFolders DEF There, Places
    <2>3. up' \in UpType
      BY <1>0, <1>3 DEF SaveStale, Points, Flags
    <2>4. UpgradeTypeOK'
      BY <1>0, <1>1, <2>1, <2>2, <2>3 DEF Well
    <2>5. TidyInv'
      BY <2>1, <2>2 DEF TidyInv, Well, Counts, Old
    <2>6. FoundInv'
      BY <2>1, <2>2 DEF FoundInv, AsFound, BackupAside, Says, Untold, There, Well, Counts
    <2>7. OldInv'
      BY <2>1, <2>2 DEF OldInv, Old, Untold, Well, Counts
    <2> QED BY <2>4, <2>5, <2>6, <2>7
  <1>4. CASE BackUpCurrent
    <2>1. /\ At("current") /\ up'.at = "promote" /\ Well
          /\ up'.flags = up.flags \cup {"promotion"} \cup (IF There("live") THEN {"current"} ELSE {})
          /\ disk' = IF There("live") THEN Moved("live", "backup") ELSE disk
      BY <1>0, <1>4 DEF BackUpCurrent
    <2>2. /\ disk' \in [Places -> Installs] /\ disk'["live"] = "none"
          /\ disk'["stale"] = disk["stale"] /\ disk'["candidate"] = disk["candidate"]
          /\ disk["backup"] = "none" => disk'["backup"] = disk["live"]
      BY <1>0, <2>1, MovedFolders DEF There, Places
    <2>3. up' \in UpType
      BY <1>0, <1>4 DEF BackUpCurrent, Points, Flags
    <2>4. UpgradeTypeOK'
      BY <1>0, <1>1, <2>1, <2>2, <2>3 DEF Well
    <2>5. TidyInv'
      BY <2>1, <2>2 DEF TidyInv, Well, Counts, Old
    <2>6. FoundInv'
      BY <2>1, <2>2 DEF FoundInv, Promoting, LiveAside, BackupAside, Says, Untold, There, Well, Counts
    <2>7. OldInv'
      BY <2>1, <2>2 DEF OldInv, Old, Untold, Told, There, Well, Counts
    <2> QED BY <2>4, <2>5, <2>6, <2>7
  <1>5. CASE Promote
    <2>1. /\ At("promote") /\ up'.at = "cleanup" /\ Well /\ up'.flags = up.flags
          /\ disk' = Moved("candidate", "live")
      BY <1>0, <1>5 DEF Promote
    <2>2. /\ disk' \in [Places -> Installs] /\ disk'["backup"] = disk["backup"]
          /\ disk["live"] = "none" => disk'["live"] = disk["candidate"]
      BY <1>0, <2>1, MovedFolders DEF Places
    <2>3. up' \in UpType
      BY <1>0, <1>5 DEF Promote, Points, Flags
    <2>4. UpgradeTypeOK'
      BY <1>0, <1>1, <2>1, <2>2, <2>3 DEF Well
    <2>5. TidyInv'
      BY <2>1, <2>2 DEF TidyInv, Well, Counts, Old
    <2>6. FoundInv'
      BY <2>1, <2>2 DEF FoundInv, Well, Counts
    <2>7. OldInv'
      BY <2>1, <2>2 DEF OldInv, Old, Well, Counts
    <2> QED BY <2>4, <2>5, <2>6, <2>7
  <1>6. CASE PromotionFails
    <2>1. /\ up.at \in {"stale", "current", "promote"} /\ up'.at = "remove" /\ Counts /\ up'.flags = up.flags
          /\ failures' = failures + 1 /\ up' \in UpType
      BY <1>0, <1>6 DEF PromotionFails, MoveFrom, Points, Flags
    <2>0. /\ MoveTo["stale"] = "stale" /\ MoveTo["current"] = "backup" /\ MoveTo["promote"] = "live"
          /\ MoveFrom["stale"] = "backup" /\ MoveFrom["current"] = "live" /\ MoveFrom["promote"] = "candidate"
      BY DEF MoveTo, MoveFrom
    <2>2. CASE UNCHANGED <<disk, hurt>>
      <3>1. UpgradeTypeOK' /\ TidyInv'
        BY <1>0, <1>1, <2>1, <2>2 DEF TidyInv, Counts, Old
      <3>2. FoundInv'
        BY <2>1, <2>2 DEF FoundInv, Undone, AsFound, Promoting, LiveAside, BackupAside, Says, Untold, Counts
      <3>3. OldInv'
        BY <2>1, <2>2 DEF OldInv, Old, Untold, Told, Counts
      <3> QED BY <3>1, <3>2, <3>3
    <2>3. CASE /\ disk' = [disk EXCEPT ![MoveTo[up.at]] = "part"] /\ ~There(MoveTo[up.at])
               /\ hurt' = IF At("current") THEN hurt \cup {"torn"} ELSE hurt
      <3>1. disk' \in [Places -> Installs] /\ hurt' \subseteq Hurts
        BY <1>0, <2>3 DEF Installs, Hurts
      <3>2. UpgradeTypeOK' /\ TidyInv'
        BY <1>0, <1>1, <2>1, <3>1 DEF TidyInv, Counts, Old
      <3>3. /\ At("stale") => disk' = [disk EXCEPT !["stale"] = "part"]
            /\ At("current") => disk' = [disk EXCEPT !["backup"] = "part"]
            /\ At("promote") => disk' = [disk EXCEPT !["live"] = "part"]
        BY <2>3, <2>0
      <3>4. FoundInv'
        BY <1>0, <2>1, <2>3, <3>3
           DEF FoundInv, Undone, AsFound, Promoting, LiveAside, BackupAside, Says, Untold, Counts, Places
      <3>5. OldInv'
        BY <1>0, <2>1, <2>3, <3>3 DEF OldInv, Old, Untold, Told, Counts, Places
      <3> QED BY <3>2, <3>4, <3>5
    <2>4. CASE /\ disk' = [disk EXCEPT ![MoveTo[up.at]] = disk[MoveFrom[up.at]], ![MoveFrom[up.at]] = "part"]
               /\ hurt' = IF At("promote") THEN hurt ELSE hurt \cup {"torn"}
      <3>1. /\ At("stale") => disk' = [disk EXCEPT !["stale"] = disk["backup"], !["backup"] = "part"]
            /\ At("current") => disk' = [disk EXCEPT !["backup"] = disk["live"], !["live"] = "part"]
            /\ At("promote") => disk' = [disk EXCEPT !["live"] = disk["candidate"], !["candidate"] = "part"]
        BY <2>4, <2>0
      <3>2. disk' \in [Places -> Installs] /\ hurt' \subseteq Hurts
        <4>1. \A p \in Places : disk[p] \in Installs
          BY <1>0
        <4>2. "part" \in Installs /\ {"stale", "backup", "live", "candidate"} \subseteq Places
          BY DEF Installs, Places
        <4>3. disk' \in [Places -> Installs]
          <5>1. CASE At("stale")
            BY <1>0, <3>1, <4>1, <4>2, <5>1
          <5>2. CASE At("current")
            BY <1>0, <3>1, <4>1, <4>2, <5>2
          <5>3. CASE At("promote")
            BY <1>0, <3>1, <4>1, <4>2, <5>3
          <5> QED BY <2>1, <5>1, <5>2, <5>3
        <4> QED BY <1>0, <2>4, <4>3 DEF Hurts
      <3>3. UpgradeTypeOK' /\ TidyInv'
        BY <1>0, <1>1, <2>1, <3>2 DEF TidyInv, Counts, Old
      <3>4. FoundInv'
        BY <1>0, <2>1, <2>4, <3>1
           DEF FoundInv, Undone, AsFound, Promoting, LiveAside, BackupAside, Says, Untold, Counts, Places
      <3>5. OldInv'
        BY <1>0, <2>1, <2>4, <3>1 DEF OldInv, Old, Untold, Told, Counts, Places
      <3> QED BY <3>3, <3>4, <3>5
    <2> QED BY <1>6, <2>2, <2>3, <2>4 DEF PromotionFails
  <1>7. CASE RemoveLive
    <2>1. /\ At("remove") /\ up'.at = "putback" /\ Well /\ up'.flags = up.flags
          /\ disk' = IF Removes THEN [disk EXCEPT !["live"] = "none"] ELSE disk
          /\ up' \in UpType
      BY <1>0, <1>7 DEF RemoveLive, Points, Flags
    <2>2. /\ disk' \in [Places -> Installs] /\ \A p \in Places \ {"live"} : disk'[p] = disk[p]
          /\ IF "promotion" \in up.flags THEN disk'["live"] = "none" ELSE disk'["live"] = disk["live"]
      BY <1>0, <2>1 DEF Removes, There, Places, Installs
    <2>3. UpgradeTypeOK' /\ TidyInv'
      BY <1>0, <1>1, <2>1, <2>2 DEF Well, Counts, TidyInv, Old
    <2>4. FoundInv'
      BY <2>1, <2>2 DEF FoundInv, Undone, AsFound, Promoting, LiveAside, BackupAside, Says, Untold, Well, Counts, Places
    <2>5. OldInv'
      BY <2>1, <2>2 DEF OldInv, Old, Untold, Told, Well, Counts, Places
    <2> QED BY <2>3, <2>4, <2>5
  <1>8. CASE PutBack
    <2>1. /\ At("putback") /\ up'.at = "restale" /\ Well /\ up'.flags = up.flags
          /\ disk' = IF "current" \in up.flags /\ There("backup") THEN Moved("backup", "live") ELSE disk
          /\ up' \in UpType
      BY <1>0, <1>8 DEF PutBack, Points, Flags
    <2>2. /\ disk' \in [Places -> Installs] /\ disk'["stale"] = disk["stale"]
          /\ "current" \notin up.flags => disk'["live"] = disk["live"] /\ disk'["backup"] = disk["backup"]
          /\ "current" \in up.flags /\ disk["live"] = "none" =>
                disk'["live"] = disk["backup"] /\ disk'["backup"] = "none"
      BY <1>0, <2>1, MovedFolders DEF There, Places
    <2>3. UpgradeTypeOK' /\ TidyInv'
      BY <1>0, <1>1, <2>1, <2>2 DEF Well, Counts, TidyInv, Old
    <2>4. FoundInv'
      BY <2>1, <2>2 DEF FoundInv, Undone, AsFound, Promoting, LiveAside, BackupAside, Says, Untold, Well, Counts
    <2>5. OldInv'
      BY <2>1, <2>2 DEF OldInv, Old, Well, Counts
    <2> QED BY <2>3, <2>4, <2>5
  <1>9. CASE Restale
    <2>1. /\ At("restale") /\ up'.at = "cleanup" /\ Well /\ up'.flags = up.flags
          /\ disk' = IF Restores THEN Moved("stale", "backup") ELSE disk
          /\ up' \in UpType
      BY <1>0, <1>9 DEF Restale, Points, Flags
    <2>2. /\ disk' \in [Places -> Installs] /\ disk'["live"] = disk["live"]
          /\ disk["backup"] # "none" => disk'["backup"] = disk["backup"]
          /\ IF "stale" \in up.flags /\ disk["backup"] = "none" THEN disk'["backup"] = disk["stale"]
             ELSE disk'["backup"] = disk["backup"]
      BY <1>0, <2>1, MovedFolders DEF Restores, There, Places
    <2>3. UpgradeTypeOK' /\ TidyInv'
      BY <1>0, <1>1, <2>1, <2>2 DEF Well, Counts, TidyInv, Old
    <2>4. FoundInv'
      BY <2>1, <2>2 DEF FoundInv, AsFound, BackupAside, Says, Well, Counts
    <2>5. OldInv'
      BY <2>1, <2>2 DEF OldInv, Old, Well, Counts
    <2> QED BY <2>3, <2>4, <2>5
  <1>10. CASE RollbackFails
    <2>1. /\ up.at \in {"remove", "putback", "restale"} /\ Counts /\ up'.flags = up.flags
          /\ failures' = failures + 1 /\ up' \in UpType
          /\ up'.at = (IF At("remove") THEN "putback" ELSE IF At("putback") THEN "restale" ELSE "cleanup")
          /\ hurt' = hurt \cup {IF At("remove") /\ Removes THEN "removal" ELSE "rollback"}
          /\ disk' = IF At("remove") /\ Removes THEN [disk EXCEPT !["live"] = "part"] ELSE disk
      BY <1>0, <1>10 DEF RollbackFails, Points, Flags
    <2>2. disk' \in [Places -> Installs] /\ hurt' \subseteq Hurts /\ hurt' # {}
      BY <1>0, <2>1 DEF Installs, Hurts
    <2>3. UpgradeTypeOK' /\ TidyInv'
      BY <1>0, <1>1, <2>1, <2>2 DEF Counts, TidyInv, Old
    <2>4. FoundInv'
      BY <2>2 DEF FoundInv
    <2>5. CASE At("remove") /\ Removes
      BY <2>1, <2>3, <2>4, <2>5 DEF OldInv
    <2>6. CASE ~(At("remove") /\ Removes)
      <3>1. OldInv'
        BY <2>1, <2>6 DEF OldInv, Old, Untold, Told, Removes, There, Counts
      <3> QED BY <2>3, <2>4, <3>1
    <2> QED BY <2>5, <2>6
  <1>11. CASE UpgradeInterrupted
    <2>1. /\ ~At("idle") /\ up'.at = "cleanup" /\ Counts /\ up' \in UpType /\ disk' = disk
          /\ failures' = failures + 1 /\ hurt' = hurt \cup {"cut"} /\ hurt' # {} /\ hurt' \subseteq Hurts
      BY <1>0, <1>11 DEF UpgradeInterrupted, Points, Flags, Hurts
    <2>2. UpgradeTypeOK' /\ TidyInv'
      BY <1>0, <1>1, <2>1 DEF Counts, TidyInv, Old
    <2>3. FoundInv' /\ OldInv'
      BY <2>1 DEF FoundInv, OldInv, Old, Counts
    <2> QED BY <2>2, <2>3
  <1>12. CASE CleanUp
    <2>1. /\ At("cleanup") /\ up'.at = "idle" /\ Well /\ up' \in UpType
          /\ disk'["stale"] = "none" /\ disk'["live"] = disk["live"] /\ disk'["backup"] = disk["backup"]
          /\ disk' \in [Places -> Installs]
      BY <1>0, <1>12 DEF CleanUp, Points, Flags, Places, Installs
    <2>2. UpgradeTypeOK' /\ TidyInv'
      BY <1>0, <1>1, <2>1 DEF Well, Counts, TidyInv, Old
    <2>3. FoundInv' /\ OldInv'
      BY <2>1 DEF FoundInv, OldInv, Old, AsFound, Well, Counts
    <2> QED BY <2>2, <2>3
  <1> QED BY <1>2, <1>3, <1>4, <1>5, <1>6, <1>7, <1>8, <1>9, <1>10, <1>11, <1>12 DEF UpgradeNext

(* The invariant of an upgrade holds throughout.                             *)
LEMMA UpgradeHolds == UpgradeSpec => []UpgradeInv
  <1>1. UpgradeInit => UpgradeInv
    <2> SUFFICES ASSUME UpgradeInit PROVE UpgradeInv
      OBVIOUS
    <2>1. PICK d \in [live : {"old"}, backup : {"none", "older"}, stale : {"none"}, candidate : {"none"}] : disk = d
      BY DEF UpgradeInit
    <2>2. /\ disk \in [Places -> Installs] /\ disk["live"] = "old" /\ disk["stale"] = "none"
      BY <2>1 DEF Places, Installs
    <2>3. /\ up = [at |-> "idle", flags |-> {}] /\ upgrades = 0 /\ failures = 0 /\ hurt = {}
          /\ before = [live |-> "none", backup |-> "none"]
      BY DEF UpgradeInit
    <2>4. UpgradeTypeOK
      BY <2>2, <2>3 DEF UpgradeTypeOK, Points, Installs
    <2> QED BY <2>2, <2>3, <2>4 DEF UpgradeInv, TidyInv, FoundInv, OldInv, At, Old
  <1>2. UpgradeInv /\ [UpgradeNext]_upgradeVars => UpgradeInv'
    <2> SUFFICES ASSUME UpgradeInv, [UpgradeNext]_upgradeVars PROVE UpgradeInv'
      OBVIOUS
    <2>1. CASE UNCHANGED upgradeVars
      BY <2>1 DEF upgradeVars, UpgradeInv, UpgradeTypeOK, TidyInv, FoundInv, OldInv, At, Old, AsFound, BackupAside,
                  LiveAside, Says, Untold, Told, Undone, Promoting
    <2> QED BY <2>1, UpgradeKept
  <1> QED BY <1>1, <1>2, PTL DEF UpgradeSpec

(* A SQLcl upgrade whose promotion raised leaves the install and its backup
   exactly as it found them, after any number of runs and failures, unless
   something went wrong that the run does not undo.                          *)
THEOREM TheUpgradeIsUndone == UpgradeSpec => []RolledBack
  <1>1. UpgradeInv => RolledBack
    BY DEF UpgradeInv, FoundInv, RolledBack, AsFound, At
  <1> QED BY <1>1, UpgradeHolds, PTL

(* Wherever a first upgrade raised or was cut off, a whole SQLcl is left in
   the live folder or in the backup, unless a removal was left half done.    *)
THEOREM AnInstallIsLeft == UpgradeSpec => []InstallSurvives
  <1>1. UpgradeInv => InstallSurvives
    BY DEF UpgradeInv, OldInv, InstallSurvives, Usable, Old
  <1> QED BY <1>1, UpgradeHolds, PTL

-----------------------------------------------------------------------------
(* The mirror of the dictionary.                                             *)
(* No time is ahead of the clock; and what was read in the present second is
   what the dictionary has, or the object changed twice in it.               *)
DatedNow(m) ==
    \A o \in Objects : /\ m.ddl[o] <= clock
                       /\ m.ddl[o] = clock /\ o \notin twice => dict.ddl[o] = clock
ClockInv == DatedNow(mirror) /\ DatedNow(reading.seen) /\ \A o \in Objects : dict.ddl[o] <= clock

(* An object has not changed since m was read, which its time shows.         *)
Stands(m, o) == o \notin twice /\ m.ddl[o] # NoObject /\ m.ddl[o] = dict.ddl[o]
StandsAnywhere(o) == Stands(reading.seen, o) \/ Stands(mirror, o)

(* What a refresh has read so far.                                           *)
SeenWell ==
    /\ reading.mode # "deep" => reading.named = Objects
    /\ \A o \in Objects \ reading.named : reading.seen.ddl[o] = NoObject
    /\ \A row \in DependenciesOf(dict.rows) :
          Stands(reading.seen, row[1]) /\ row[2] \in reading.named => reading.seen.ddl[row[2]] # NoObject
    /\ reading.at # "objects" =>
          \A row \in DependenciesOf(dict.rows) :
             StandsAnywhere(row[1]) /\ (row[1] \in reading.named \/ row[2] \in reading.named) =>
                row \in reading.seen.rows
    /\ \A row \in DependenciesOf(reading.seen.rows) :
          StandsAnywhere(row[1]) => row \in dict.rows \cup severed
    /\ \A row \in ConstraintsOf(reading.seen.rows) :
          StandsAnywhere(row[1]) /\ StandsAnywhere(row[2]) => row \in dict.rows
SeenInv == reading.at # "idle" => SeenWell

(* What the mirror holds of what has not changed since.                      *)
HeldInv ==
    /\ \A row \in DependenciesOf(dict.rows) : Stands(mirror, row[1]) => row \in mirror.rows
    /\ \A row \in DependenciesOf(mirror.rows) : Stands(mirror, row[1]) => row \in dict.rows \cup severed
    /\ \A row \in ConstraintsOf(mirror.rows) :
          Stands(mirror, row[1]) /\ Stands(mirror, row[2]) /\ {row[1], row[2]} \cap unlisted = {} =>
             row \in dict.rows
    /\ Unlisted(mirror) \subseteq unlisted

(* While the schema stands still the times are the dictionary's.             *)
QuietInv ==
    /\ \A row \in dict.rows : dict.ddl[row[1]] # NoObject /\ dict.ddl[row[2]] # NoObject
    /\ quiet /\ reading.at # "idle" => \A o \in reading.named : reading.seen.ddl[o] = dict.ddl[o]
    /\ CaughtUp => \A o \in Objects : mirror.ddl[o] = dict.ddl[o]

MirrorInv == MirrorTypeOK /\ ClockInv /\ SeenInv /\ HeldInv /\ QuietInv

(* An object, and a row of one.                                              *)
LEMMA RowsAre ==
  /\ \A row \in Reference : row[1] \in Objects /\ row[2] \in Objects /\ row = <<row[1], row[2]>>
  /\ \A o \in Objects : o \in Views <=> o \notin Tables
  BY MirrorAssumption DEF Reference, Objects

(* A change or a drop shows: the object is no longer what was read of it.     *)
LEMMA ChangeShows ==
  ASSUME MirrorTypeOK, ClockInv, NEW o \in Objects, Changed(o), NEW at \in {clock, NoObject},
         dict'.ddl = [dict.ddl EXCEPT ![o] = at]
  PROVE  /\ ClockInv'
         /\ ~Stands(mirror, o)' /\ ~Stands(reading.seen, o)'
         /\ \A p \in Objects \ {o} : /\ Stands(mirror, p)' => Stands(mirror, p)
                                     /\ Stands(reading.seen, p)' => Stands(reading.seen, p)
  <1>1. /\ dict.ddl \in [Objects -> 0..MaxSeconds] /\ mirror.ddl \in [Objects -> 0..MaxSeconds]
        /\ reading.seen.ddl \in [Objects -> 0..MaxSeconds] /\ clock \in Nat /\ clock # 0 /\ twice \subseteq Objects
    BY MirrorAssumption DEF MirrorTypeOK, Mirrors
  <1>2. /\ dict'.ddl[o] = at /\ \A p \in Objects \ {o} : dict'.ddl[p] = dict.ddl[p]
        /\ UNCHANGED <<mirror, reading, clock>>
        /\ twice' = IF dict.ddl[o] = clock THEN twice \cup {o} ELSE twice
    BY <1>1 DEF Changed
  <1>3. ASSUME NEW d \in Nat, d = clock => (o \notin twice => dict.ddl[o] = clock), o \notin twice'
        PROVE  d # NoObject => d # dict'.ddl[o]
    BY <1>2, <1>3 DEF NoObject
  <1>4. ~Stands(mirror, o)'
    BY <1>1, <1>2, <1>3 DEF Stands, ClockInv, DatedNow
  <1>5. ~Stands(reading.seen, o)'
    BY <1>1, <1>2, <1>3 DEF Stands, ClockInv, DatedNow
  <1>6. DatedNow(mirror)'
    BY <1>1, <1>2 DEF ClockInv, DatedNow
  <1>7. DatedNow(reading.seen)'
    BY <1>1, <1>2 DEF ClockInv, DatedNow
  <1>8. \A p \in Objects : dict'.ddl[p] <= clock'
    BY <1>1, <1>2 DEF ClockInv, NoObject
  <1>9. \A p \in Objects \ {o} : /\ Stands(mirror, p)' => Stands(mirror, p)
                                 /\ Stands(reading.seen, p)' => Stands(reading.seen, p)
    BY <1>1, <1>2 DEF Stands
  <1> QED BY <1>4, <1>5, <1>6, <1>7, <1>8, <1>9 DEF ClockInv

(* What a change leaves of the dictionary: a view that was not changed has
   gained nothing, and lost only what is told of; a foreign key whose two
   tables were not changed is still there.                                   *)
LEMMA ChangeLeaves ==
  ASSUME MirrorInv, NEW o \in Objects, Ddl(o) \/ DropObject(o)
  PROVE  /\ Changed(o)
         /\ \E at \in {clock, NoObject} : dict'.ddl = [dict.ddl EXCEPT ![o] = at]
         /\ dict' \in Mirrors /\ severed' \subseteq Reference
         /\ \A row \in Reference : row[1] \in Views /\ row[1] # o /\ row \in dict'.rows => row \in dict.rows
         /\ \A row \in Reference : row[1] \in Views /\ row[1] # o /\ row \in dict.rows \cup severed =>
                                      row \in dict'.rows \cup severed'
         /\ \A row \in Reference : row[1] \in Tables /\ row[1] # o /\ row[2] # o /\ row \in dict.rows =>
                                      row \in dict'.rows
         /\ \A row \in dict'.rows : dict'.ddl[row[1]] # NoObject /\ dict'.ddl[row[2]] # NoObject
  <1> USE DEF MirrorInv
  <1>1. /\ dict \in Mirrors /\ dict.ddl \in [Objects -> 0..MaxSeconds] /\ dict.rows \subseteq Reference
        /\ clock \in 1..MaxSeconds /\ clock # NoObject /\ severed \subseteq Reference
    BY MirrorAssumption DEF MirrorTypeOK, Mirrors, NoObject
  <1>2. \A row \in dict.rows : dict.ddl[row[1]] # NoObject /\ dict.ddl[row[2]] # NoObject
    BY DEF QuietInv
  <1>3. 0 \in 0..MaxSeconds /\ clock \in 0..MaxSeconds
    BY <1>1, MirrorAssumption
  <1>4. CASE Ddl(o)
    <2>1. PICK refs \in SUBSET ((IF o \in Tables THEN Present \cap Tables ELSE Present) \ {o}),
               cut \in {{}, {row \in dict.rows : row[1] \in Tables /\ row[2] = o}} :
             dict' = [ddl |-> [dict.ddl EXCEPT ![o] = clock],
                      rows |-> {row \in dict.rows \ cut : row[1] # o}
                               \cup {<<o, r>> : r \in refs} \cup {OwnKey(t) : t \in {o} \cap Tables}]
      BY <1>4 DEF Ddl
    <2>2. severed' = {row \in severed : row[1] # o} /\ Changed(o)
      BY <1>4 DEF Ddl, Severed
    <2>3. dict'.ddl = [dict.ddl EXCEPT ![o] = clock] /\ dict'.ddl \in [Objects -> 0..MaxSeconds]
      BY <2>1, <1>1, <1>3
    <2>4. \A r \in refs : r \in Objects /\ dict.ddl[r] # NoObject
      BY DEF Present
    <2>5. \A t \in {o} \cap Tables : OwnKey(t) = <<o, o>>
      BY DEF OwnKey
    <2>6. \A row : row \in dict'.rows <=> \/ row \in dict.rows /\ row \notin cut /\ row[1] # o
                                          \/ \E r \in refs : row = <<o, r>>
                                          \/ o \in Tables /\ row = <<o, o>>
      BY <2>1, <2>5
    <2>7. dict'.rows \subseteq Reference
      BY <2>6, <2>4, <1>1 DEF Reference
    <2>8. dict' = [ddl |-> dict'.ddl, rows |-> dict'.rows]
      BY <2>1
    <2>9. dict' \in Mirrors
      BY <2>3, <2>7, <2>8 DEF Mirrors
    <2>10. \A row \in cut : row[1] \in Tables /\ row[2] = o
      OBVIOUS
    <2>11. \A row \in dict'.rows : dict'.ddl[row[1]] # NoObject /\ dict'.ddl[row[2]] # NoObject
      <3> SUFFICES ASSUME NEW row \in dict'.rows
                   PROVE  dict'.ddl[row[1]] # NoObject /\ dict'.ddl[row[2]] # NoObject
        OBVIOUS
      <3>1. row[1] \in Objects /\ row[2] \in Objects
        BY <2>7, RowsAre
      <3>2. \A p \in Objects : dict'.ddl[p] = IF p = o THEN clock ELSE dict.ddl[p]
        BY <2>3, <1>1
      <3>3. CASE row \in dict.rows
        BY <3>1, <3>2, <3>3, <1>1, <1>2
      <3>4. ASSUME NEW r \in refs, row = <<o, r>> PROVE dict'.ddl[row[1]] # NoObject /\ dict'.ddl[row[2]] # NoObject
        BY <3>4, <3>2, <2>4, <1>1
      <3>5. CASE row = <<o, o>>
        BY <3>5, <3>2, <1>1
      <3> QED BY <3>3, <3>4, <3>5, <2>6
    <2>12. \A row \in Reference : row[1] # o => (row \in dict'.rows <=> row \in dict.rows /\ row \notin cut)
      BY <2>6
    <2>13. \A row \in Reference : row[1] \in Views => row[1] \notin Tables
      BY RowsAre
    <2> QED BY <2>2, <2>3, <2>9, <2>10, <2>11, <2>12, <2>13, <1>1
  <1>5. CASE DropObject(o)
    <2>1. /\ Changed(o)
          /\ severed' = {row \in severed : row[1] # o} \cup {row \in DependenciesOf(dict.rows) : row[2] = o}
          /\ dict' = [ddl |-> [dict.ddl EXCEPT ![o] = NoObject],
                      rows |-> {row \in dict.rows : row[1] # o /\ row[2] # o}]
      BY <1>5 DEF DropObject, Severed
    <2>2. /\ dict'.ddl = [dict.ddl EXCEPT ![o] = NoObject] /\ dict'.ddl \in [Objects -> 0..MaxSeconds]
          /\ dict'.rows = {row \in dict.rows : row[1] # o /\ row[2] # o}
      BY <2>1, <1>1, <1>3 DEF NoObject
    <2>3. dict' \in Mirrors
      BY <2>1, <2>2, <1>1 DEF Mirrors
    <2>4. severed' \subseteq Reference
      BY <2>1, <1>1 DEF DependenciesOf
    <2>5. \A row \in dict'.rows : dict'.ddl[row[1]] # NoObject /\ dict'.ddl[row[2]] # NoObject
      BY <2>2, <1>1, <1>2, RowsAre
    <2> QED BY <2>1, <2>2, <2>3, <2>4, <2>5 DEF DependenciesOf
  <1> QED BY <1>4, <1>5

(* The schema moves on, and what is held and read stays right of what stands. *)
LEMMA SchemaMoves == MirrorInv /\ (\E o \in Objects : Ddl(o) \/ DropObject(o)) => MirrorInv'
  <1> SUFFICES ASSUME MirrorInv, NEW o \in Objects, Ddl(o) \/ DropObject(o) PROVE MirrorInv'
    OBVIOUS
  <1> USE DEF MirrorInv
  <1>1. PICK at \in {clock, NoObject} : dict'.ddl = [dict.ddl EXCEPT ![o] = at]
    BY ChangeLeaves
  <1>2. /\ Changed(o) /\ dict' \in Mirrors /\ severed' \subseteq Reference
        /\ \A row \in Reference : row[1] \in Views /\ row[1] # o /\ row \in dict'.rows => row \in dict.rows
        /\ \A row \in Reference : row[1] \in Views /\ row[1] # o /\ row \in dict.rows \cup severed =>
                                     row \in dict'.rows \cup severed'
        /\ \A row \in Reference : row[1] \in Tables /\ row[1] # o /\ row[2] # o /\ row \in dict.rows =>
                                     row \in dict'.rows
        /\ \A row \in dict'.rows : dict'.ddl[row[1]] # NoObject /\ dict'.ddl[row[2]] # NoObject
    BY ChangeLeaves
  <1>3. /\ ClockInv' /\ ~Stands(mirror, o)' /\ ~Stands(reading.seen, o)'
        /\ \A p \in Objects \ {o} : /\ Stands(mirror, p)' => Stands(mirror, p)
                                    /\ Stands(reading.seen, p)' => Stands(reading.seen, p)
    BY <1>1, <1>2, ChangeShows
  <1>4. /\ UNCHANGED <<mirror, reading, clock, unlisted>> /\ quiet' = FALSE
        /\ changes' = changes + 1 /\ changes < MaxDdl /\ twice' \subseteq twice \cup {o}
    BY <1>2 DEF Changed
  <1>5. MirrorTypeOK'
    <2>1. changes' \in 0..MaxDdl
      BY <1>4, MirrorAssumption DEF MirrorTypeOK
    <2> QED BY <2>1, <1>2, <1>4 DEF MirrorTypeOK
  <1>6. /\ dict.rows \subseteq Reference /\ dict'.rows \subseteq Reference
        /\ mirror.rows \subseteq Reference /\ reading.seen.rows \subseteq Reference
    BY <1>2 DEF MirrorTypeOK, Mirrors
  <1>7. \A p \in Objects : /\ Stands(mirror, p)' => p # o /\ Stands(mirror, p)
                           /\ Stands(reading.seen, p)' => p # o /\ Stands(reading.seen, p)
                           /\ StandsAnywhere(p)' => p # o /\ StandsAnywhere(p)
    BY <1>3 DEF StandsAnywhere
  <1>8. HeldInv'
    <2>1. \A row \in DependenciesOf(dict'.rows) : Stands(mirror, row[1])' => row \in mirror'.rows
      BY <1>2, <1>4, <1>6, <1>7, RowsAre DEF HeldInv, DependenciesOf
    <2>2. \A row \in DependenciesOf(mirror'.rows) : Stands(mirror, row[1])' => row \in dict'.rows \cup severed'
      BY <1>2, <1>4, <1>6, <1>7, RowsAre DEF HeldInv, DependenciesOf
    <2>3. \A row \in ConstraintsOf(mirror'.rows) :
             Stands(mirror, row[1])' /\ Stands(mirror, row[2])' /\ {row[1], row[2]} \cap unlisted' = {} =>
                row \in dict'.rows
      BY <1>2, <1>4, <1>6, <1>7, RowsAre DEF HeldInv, ConstraintsOf
    <2>4. (Unlisted(mirror) \subseteq unlisted)'
      BY <1>4 DEF HeldInv, Unlisted, Listed
    <2> QED BY <2>1, <2>2, <2>3, <2>4 DEF HeldInv
  <1>9. SeenInv'
    <2> SUFFICES ASSUME reading.at # "idle" PROVE SeenWell'
      BY <1>4 DEF SeenInv
    <2>1. SeenWell
      BY DEF SeenInv
    <2>2. \A row \in DependenciesOf(dict'.rows) :
             /\ row \in Reference
             /\ StandsAnywhere(row[1])' =>
                   row \in DependenciesOf(dict.rows) /\ StandsAnywhere(row[1])
             /\ Stands(reading.seen, row[1])' =>
                   row \in DependenciesOf(dict.rows) /\ Stands(reading.seen, row[1])
      BY <1>2, <1>6, <1>7, RowsAre DEF DependenciesOf
    <2>3. \A row \in DependenciesOf(reading.seen.rows) :
             StandsAnywhere(row[1])' => row \in dict'.rows \cup severed'
      BY <2>1, <1>2, <1>6, <1>7, RowsAre DEF SeenWell, DependenciesOf
    <2>4. \A row \in ConstraintsOf(reading.seen.rows) :
             StandsAnywhere(row[1])' /\ StandsAnywhere(row[2])' => row \in dict'.rows
      BY <2>1, <1>2, <1>6, <1>7, RowsAre DEF SeenWell, ConstraintsOf
    <2> QED BY <2>1, <2>2, <2>3, <2>4, <1>4 DEF SeenWell
  <1>10. QuietInv'
    BY <1>2, <1>4 DEF QuietInv, CaughtUp
  <1> QED BY <1>3, <1>5, <1>8, <1>9, <1>10

(* A step of the refresh reads, and leaves what stands as it is.             *)
LEMMA SchemaStands ==
  ASSUME NotTheSchema
  PROVE  /\ \A o \in Objects : mirror' = mirror => (Stands(mirror, o)' <=> Stands(mirror, o))
         /\ \A o \in Objects : reading'.seen.ddl = reading.seen.ddl =>
                                  (Stands(reading.seen, o)' <=> Stands(reading.seen, o))
  BY DEF NotTheSchema, Stands

(* What is only read of the mirror is held as it was.                        *)
LEMMA HeldStill ==
  ASSUME MirrorTypeOK, HeldInv, NotTheSchema, UNCHANGED <<mirror, unlisted>> PROVE HeldInv'
  <1>1. /\ dict.rows \subseteq Reference /\ mirror.rows \subseteq Reference /\ UNCHANGED <<dict, severed>>
    BY DEF MirrorTypeOK, Mirrors, NotTheSchema
  <1>2. \A row \in DependenciesOf(dict.rows) : Stands(mirror, row[1])' => row \in mirror.rows
    BY <1>1, SchemaStands, RowsAre DEF HeldInv, DependenciesOf
  <1>3. \A row \in DependenciesOf(mirror.rows) : Stands(mirror, row[1])' => row \in dict.rows \cup severed
    BY <1>1, SchemaStands, RowsAre DEF HeldInv, DependenciesOf
  <1>4. \A row \in ConstraintsOf(mirror.rows) :
           Stands(mirror, row[1])' /\ Stands(mirror, row[2])' /\ {row[1], row[2]} \cap unlisted = {} =>
              row \in dict.rows
    BY <1>1, SchemaStands, RowsAre DEF HeldInv, ConstraintsOf
  <1>5. (Unlisted(mirror) \subseteq unlisted)'
    BY DEF HeldInv, Unlisted, Listed
  <1> QED BY <1>1, <1>2, <1>3, <1>4, <1>5 DEF HeldInv

ReadingType ==
    [at : {"idle", "objects", "dependencies", "constraints"},
     mode : {"changed", "force", "deep"}, named : SUBSET Objects, seen : Mirrors]

(* The clock, and the steps that read.                                       *)
LEMMA ReadingMoves ==
  MirrorInv /\ (ClockTicks \/ ReadObjects \/ ReadDependencies \/ ReadConstraints \/ RefreshStops) => MirrorInv'
  <1> SUFFICES ASSUME MirrorInv,
                      ClockTicks \/ ReadObjects \/ ReadDependencies \/ ReadConstraints \/ RefreshStops
               PROVE  MirrorInv'
    OBVIOUS
  <1> USE DEF MirrorInv
  <1>0. /\ dict \in Mirrors /\ mirror \in Mirrors /\ reading \in ReadingType /\ reading.seen \in Mirrors
        /\ dict.rows \subseteq Reference /\ reading.seen.rows \subseteq Reference /\ clock \in Nat /\ clock # 0
        /\ dict.ddl \in [Objects -> 0..MaxSeconds] /\ reading.seen.ddl \in [Objects -> 0..MaxSeconds]
        /\ mirror.ddl \in [Objects -> 0..MaxSeconds]
    BY MirrorAssumption DEF MirrorTypeOK, Mirrors, ReadingType
  <1>1. ASSUME reading' \in ReadingType, UNCHANGED <<mirror, unlisted>>, NotTheSchema, quiet' \in BOOLEAN
        PROVE  MirrorTypeOK' /\ HeldInv'
    BY <1>1, HeldStill DEF MirrorTypeOK, ReadingType, NotTheSchema
  <1>2. CASE ClockTicks
    <2>1. /\ UNCHANGED <<dict, mirror, reading, changes, quiet, twice, severed, unlisted>>
          /\ clock' = clock + 1 /\ clock' \in 1..MaxSeconds
      BY <1>0, <1>2, MirrorAssumption DEF ClockTicks, MirrorTypeOK
    <2>2. MirrorTypeOK'
      BY <2>1 DEF MirrorTypeOK
    <2>3. DatedNow(mirror)' /\ DatedNow(reading.seen)' /\ \A o \in Objects : dict'.ddl[o] <= clock'
      BY <1>0, <2>1 DEF ClockInv, DatedNow
    <2>4. SeenInv' /\ HeldInv' /\ QuietInv'
      BY <2>1 DEF SeenInv, SeenWell, HeldInv, QuietInv, CaughtUp, Stands, StandsAnywhere, Unlisted, Listed
    <2> QED BY <2>2, <2>3, <2>4 DEF ClockInv
  <1>3. CASE ReadObjects
    <2>0. PICK mode \in {"changed", "force", "deep"} :
             \E named \in (IF mode = "deep" THEN {{o} : o \in Objects} ELSE {Objects}) :
             reading' = [at |-> "objects", mode |-> mode, named |-> named,
                         seen |-> [ddl |-> [o \in Objects |-> IF o \in named THEN dict.ddl[o] ELSE NoObject],
                                   rows |-> {}]]
      BY <1>3 DEF ReadObjects
    <2>1. PICK named \in (IF mode = "deep" THEN {{o} : o \in Objects} ELSE {Objects}) :
             reading' = [at |-> "objects", mode |-> mode, named |-> named,
                         seen |-> [ddl |-> [o \in Objects |-> IF o \in named THEN dict.ddl[o] ELSE NoObject],
                                   rows |-> {}]]
      BY <2>0
    <2>2. /\ reading.at = "idle" /\ quiet' = TRUE /\ UNCHANGED <<mirror, unlisted>> /\ NotTheSchema
      BY <1>3 DEF ReadObjects
    <2>3. named \subseteq Objects /\ (mode # "deep" => named = Objects)
      BY <2>1
    <2>4. /\ reading'.at = "objects" /\ reading'.mode = mode /\ reading'.named = named
          /\ reading'.seen = [ddl |-> reading'.seen.ddl, rows |-> {}] /\ reading'.seen.rows = {}
          /\ reading'.seen.ddl = [o \in Objects |-> IF o \in named THEN dict.ddl[o] ELSE NoObject]
      BY <2>1
    <2>5. reading'.seen.ddl \in [Objects -> 0..MaxSeconds]
      BY <2>4, <1>0, MirrorAssumption DEF NoObject
    <2>6. reading'.seen \in Mirrors
      BY <2>4, <2>5 DEF Mirrors
    <2>7. reading' \in ReadingType
      BY <2>1, <2>3, <2>4, <2>6 DEF ReadingType
    <2>8. UNCHANGED <<dict, clock, twice, severed>>
      BY <2>2 DEF NotTheSchema
    <2>9. ClockInv'
      BY <2>2, <2>4, <2>8, <1>0 DEF ClockInv, DatedNow, NoObject
    <2>10. SeenInv'
      <3>1. \A row \in DependenciesOf(dict.rows) : row[2] \in named => reading'.seen.ddl[row[2]] # NoObject
        BY <2>3, <2>4 DEF QuietInv, DependenciesOf
      <3>2. DependenciesOf(reading'.seen.rows) = {} /\ ConstraintsOf(reading'.seen.rows) = {}
        BY <2>4 DEF DependenciesOf, ConstraintsOf
      <3> QED BY <2>3, <2>4, <2>8, <3>1, <3>2 DEF SeenInv, SeenWell
    <2>11. QuietInv'
      BY <2>3, <2>4, <2>8 DEF QuietInv, CaughtUp
    <2> QED BY <1>1, <2>2, <2>7, <2>9, <2>10, <2>11
  <1>4. ASSUME NEW from \in {"objects", "dependencies"}, NEW to \in {"dependencies", "constraints"},
               NEW rows \in SUBSET dict.rows, ReadRows(from, to, rows),
               /\ from = "objects" => rows = DependenciesOf(dict.rows)
               /\ rows = DependenciesOf(dict.rows) \/ from = "dependencies"
        PROVE  MirrorInv'
    <2>1. /\ reading.at = from /\ reading'.at = to /\ reading'.mode = reading.mode
          /\ reading'.named = reading.named /\ reading'.seen.ddl = reading.seen.ddl
          /\ reading'.seen.rows = reading.seen.rows \cup Near(rows)
          /\ reading' = [at |-> to, mode |-> reading.mode, named |-> reading.named, seen |-> reading'.seen]
          /\ reading'.seen = [ddl |-> reading.seen.ddl, rows |-> reading'.seen.rows]
          /\ UNCHANGED <<mirror, quiet, unlisted>> /\ NotTheSchema
      BY <1>0, <1>4 DEF ReadRows, ReadingType, Mirrors
    <2>2. Near(rows) \subseteq dict.rows
      BY DEF Near
    <2>3. reading'.seen \in Mirrors
      BY <2>1, <2>2, <1>0 DEF Mirrors
    <2>4. reading' \in ReadingType
      BY <2>1, <2>3, <1>0 DEF ReadingType
    <2>5. UNCHANGED <<dict, clock, twice, severed>>
      BY <2>1 DEF NotTheSchema
    <2>6. ClockInv'
      BY <2>1, <2>5 DEF ClockInv, DatedNow
    <2>7. QuietInv'
      BY <2>1, <2>5, <1>4 DEF QuietInv, CaughtUp
    <2>8. SeenInv'
      <3>1. SeenWell
        BY <2>1, <1>4 DEF SeenInv
      <3>2. \A o \in Objects : /\ Stands(reading.seen, o)' <=> Stands(reading.seen, o)
                               /\ StandsAnywhere(o)' <=> StandsAnywhere(o)
        BY <2>1, SchemaStands DEF StandsAnywhere
      <3>3. \A row \in DependenciesOf(dict.rows) :
               StandsAnywhere(row[1])' /\ (row[1] \in reading.named \/ row[2] \in reading.named) =>
                  row \in reading'.seen.rows
        BY <3>1, <3>2, <2>1, <1>0, <1>4, RowsAre DEF SeenWell, DependenciesOf, Near
      <3>4. \A row \in DependenciesOf(reading'.seen.rows) :
               StandsAnywhere(row[1])' => row \in dict.rows \cup severed
        BY <3>1, <3>2, <2>1, <2>2, <1>0, RowsAre DEF SeenWell, DependenciesOf
      <3>5. \A row \in ConstraintsOf(reading'.seen.rows) :
               StandsAnywhere(row[1])' /\ StandsAnywhere(row[2])' => row \in dict.rows
        BY <3>1, <3>2, <2>1, <2>2, <1>0, RowsAre DEF SeenWell, ConstraintsOf
      <3>6. \A row \in DependenciesOf(dict.rows) :
               Stands(reading.seen, row[1])' /\ row[2] \in reading.named => reading.seen.ddl[row[2]] # NoObject
        BY <3>1, <3>2, <1>0, RowsAre DEF SeenWell, DependenciesOf
      <3> QED BY <3>1, <3>3, <3>4, <3>5, <3>6, <2>1, <2>5 DEF SeenInv, SeenWell
    <2> QED BY <1>1, <2>1, <2>4, <2>6, <2>7, <2>8 DEF MirrorTypeOK
  <1>5. CASE ReadDependencies
    <2>1. DependenciesOf(dict.rows) \in SUBSET dict.rows
      BY DEF DependenciesOf
    <2> QED BY <1>5, <2>1, <1>4 DEF ReadDependencies
  <1>6. CASE ReadConstraints
    <2>1. ConstraintsOf(dict.rows) \in SUBSET dict.rows
      BY DEF ConstraintsOf
    <2> QED BY <1>6, <2>1, <1>4 DEF ReadConstraints
  <1>7. CASE RefreshStops
    <2>1. /\ reading'.at = "idle" /\ reading'.named = {} /\ reading'.seen = reading.seen
          /\ reading' \in ReadingType /\ UNCHANGED <<mirror, quiet, unlisted>> /\ NotTheSchema
      BY <1>0, <1>7 DEF RefreshStops, ReadingType
    <2>2. UNCHANGED <<dict, clock, twice, severed>>
      BY <2>1 DEF NotTheSchema
    <2>3. ClockInv' /\ SeenInv'
      BY <2>1, <2>2 DEF ClockInv, DatedNow, SeenInv
    <2>4. QuietInv'
      BY <2>1, <2>2 DEF QuietInv, CaughtUp
    <2> QED BY <1>1, <2>1, <2>3, <2>4 DEF MirrorTypeOK
  <1> QED BY <1>2, <1>3, <1>5, <1>6, <1>7

(* What a refresh stores is right when every time in it is one it read or one
   the mirror had, every row of a view that stands is in it, and each of its
   rows whose ends stand is in the dictionary.                               *)
LEMMA StoredWell ==
  ASSUME MirrorInv, Refreshed, mirror' \in Mirrors,
         \A o \in Objects : mirror'.ddl[o] \in {reading.seen.ddl[o], mirror.ddl[o]},
         reading.mode # "deep" => \A o \in Objects : mirror'.ddl[o] = reading.seen.ddl[o],
         reading.mode = "deep" => \A o \in reading.named : mirror'.ddl[o] = reading.seen.ddl[o],
         \A row \in DependenciesOf(dict.rows) : Stands(mirror, row[1])' => row \in mirror'.rows,
         \A row \in mirror'.rows : \/ row \in reading.seen.rows
                                   \/ /\ row \in mirror.rows /\ mirror'.ddl[row[1]] = mirror.ddl[row[1]]
                                      /\ row[1] \in Tables =>
                                            \/ mirror'.ddl[row[2]] = mirror.ddl[row[2]]
                                            \/ OwnKey(row[2]) \notin mirror.rows /\ unlisted \subseteq unlisted'
                                      /\ unlisted \subseteq unlisted'
  PROVE  MirrorInv'
  <1> USE DEF MirrorInv
  <1>1. /\ reading.at = "constraints" /\ reading'.at = "idle" /\ reading'.named = reading.named
        /\ reading'.seen = reading.seen /\ reading'.mode = reading.mode /\ reading' \in ReadingType
        /\ UNCHANGED <<dict, clock, twice, severed, changes, quiet>>
        /\ unlisted' = (IF reading.mode = "force" THEN {} ELSE unlisted) \cup Unlisted(mirror')
    BY DEF Refreshed, NotTheSchema, MirrorTypeOK, ReadingType
  <1>2. /\ dict.rows \subseteq Reference /\ mirror'.rows \subseteq Reference /\ mirror.rows \subseteq Reference
        /\ reading.named \subseteq Objects /\ SeenWell
    BY <1>1 DEF MirrorTypeOK, Mirrors, SeenInv
  <1>3. Unlisted(mirror') \subseteq Objects
    <2>1. \A row \in mirror'.rows : row[1] \in Objects /\ row[2] \in Objects
      BY <1>2, RowsAre
    <2> QED BY <2>1 DEF Unlisted
  <1>4. MirrorTypeOK'
    BY <1>1, <1>3 DEF MirrorTypeOK, ReadingType
  <1>5. ClockInv'
    BY <1>1 DEF ClockInv, DatedNow
  <1>6. SeenInv'
    BY <1>1 DEF SeenInv
  <1>7. QuietInv'
    <2>1. ASSUME quiet, reading.named = Objects, NEW o \in Objects PROVE mirror'.ddl[o] = dict.ddl[o]
      BY <1>1, <2>1 DEF QuietInv
    <2> QED BY <1>1, <2>1 DEF QuietInv, CaughtUp
  <1>8. \A o \in Objects : Stands(mirror, o)' =>
             /\ StandsAnywhere(o)
             /\ mirror'.ddl[o] = mirror.ddl[o] => Stands(mirror, o)
    BY <1>1 DEF Stands, StandsAnywhere
  <1>9. HeldInv'
    <2>1. \A row \in DependenciesOf(mirror'.rows) : Stands(mirror, row[1])' => row \in dict.rows \cup severed
      <3> SUFFICES ASSUME NEW row \in mirror'.rows, row[1] \in Views, Stands(mirror, row[1])'
                   PROVE  row \in dict.rows \cup severed
        BY DEF DependenciesOf
      <3>1. row[1] \in Objects
        BY <1>2, RowsAre
      <3>2. CASE row \in reading.seen.rows
        BY <3>1, <3>2, <1>2, <1>8 DEF SeenWell, DependenciesOf
      <3>3. CASE row \in mirror.rows /\ mirror'.ddl[row[1]] = mirror.ddl[row[1]]
        BY <3>1, <3>3, <1>8 DEF HeldInv, DependenciesOf
      <3> QED BY <3>2, <3>3
    <2>2. \A row \in ConstraintsOf(mirror'.rows) :
             Stands(mirror, row[1])' /\ Stands(mirror, row[2])' /\ {row[1], row[2]} \cap unlisted' = {} =>
                row \in dict.rows
      <3> SUFFICES ASSUME NEW row \in mirror'.rows, row[1] \in Tables, Stands(mirror, row[1])',
                          Stands(mirror, row[2])', {row[1], row[2]} \cap unlisted' = {}
                   PROVE  row \in dict.rows
        BY DEF ConstraintsOf
      <3>1. row[1] \in Objects /\ row[2] \in Objects
        BY <1>2, RowsAre
      <3>2. CASE row \in reading.seen.rows
        BY <3>1, <3>2, <1>2, <1>8 DEF SeenWell, ConstraintsOf
      <3>3. CASE /\ row \in mirror.rows /\ mirror'.ddl[row[1]] = mirror.ddl[row[1]]
                 /\ unlisted \subseteq unlisted'
                 /\ \/ mirror'.ddl[row[2]] = mirror.ddl[row[2]]
                    \/ OwnKey(row[2]) \notin mirror.rows
        <4>1. row[2] \notin Unlisted(mirror) /\ {row[1], row[2]} \cap unlisted = {}
          BY <3>3 DEF HeldInv
        <4>2. OwnKey(row[2]) \in mirror.rows
          BY <3>1, <3>3, <4>1 DEF Unlisted, ConstraintsOf
        <4> QED BY <3>1, <3>3, <4>1, <4>2, <1>8 DEF HeldInv, ConstraintsOf
      <3> QED BY <3>2, <3>3
    <2>3. (Unlisted(mirror) \subseteq unlisted)'
      BY <1>1
    <2> QED BY <2>1, <2>2, <2>3, <1>1 DEF HeldInv
  <1> QED BY <1>4, <1>5, <1>6, <1>7, <1>9

(* The store after a refresh of what changed, and of one object.             *)
LEMMA RefreshMoves == MirrorInv /\ Refreshed => MirrorInv'
  <1> SUFFICES ASSUME MirrorInv, Refreshed PROVE MirrorInv'
    OBVIOUS
  <1> USE DEF MirrorInv
  <1> DEFINE S == reading.seen
             named == reading.named
  <1>1. /\ reading.at = "constraints" /\ SeenWell /\ named \subseteq Objects /\ S \in Mirrors /\ mirror \in Mirrors
        /\ UNCHANGED <<dict, twice>> /\ reading.mode \in {"changed", "force", "deep"}
        /\ dict.rows \subseteq Reference /\ mirror.rows \subseteq Reference /\ S.rows \subseteq Reference
        /\ S.ddl \in [Objects -> 0..MaxSeconds] /\ mirror.ddl \in [Objects -> 0..MaxSeconds]
    BY DEF Refreshed, MirrorTypeOK, Mirrors, SeenInv, NotTheSchema
  <1>2. /\ reading.mode = "changed" => mirror' = Patched(S)
        /\ reading.mode = "force" => mirror' = S
        /\ reading.mode = "deep" => mirror' = Replaced(S, named)
        /\ reading.mode # "force" => unlisted \subseteq unlisted'
    BY DEF Refreshed
  <1>3. /\ \A row \in DependenciesOf(dict.rows) :
              Stands(S, row[1]) /\ row[2] \in named => S.ddl[row[2]] # NoObject
        /\ \A row \in DependenciesOf(dict.rows) :
              StandsAnywhere(row[1]) /\ (row[1] \in named \/ row[2] \in named) => row \in S.rows
        /\ \A row \in DependenciesOf(dict.rows) : Stands(mirror, row[1]) => row \in mirror.rows
        /\ reading.mode # "deep" => named = Objects
    BY <1>1 DEF SeenWell, HeldInv
  <1>4. \A o \in Objects : Stands(mirror, o)' =>
             /\ mirror'.ddl[o] # NoObject
             /\ mirror'.ddl[o] = S.ddl[o] => Stands(S, o) /\ StandsAnywhere(o)
             /\ mirror'.ddl[o] = mirror.ddl[o] => Stands(mirror, o) /\ StandsAnywhere(o)
    BY <1>1 DEF Stands, StandsAnywhere
  <1> HIDE DEF S, named
  <1>5. CASE reading.mode = "force"
    <2>1. \A row \in DependenciesOf(dict.rows) : Stands(mirror, row[1])' => row \in mirror'.rows
      BY <1>1, <1>2, <1>3, <1>4, <1>5, RowsAre DEF DependenciesOf
    <2> QED BY <1>1, <1>2, <1>5, <2>1, StoredWell DEF S, named
  <1>6. CASE reading.mode = "changed"
    <2>1. /\ mirror'.ddl = [o \in Objects |-> IF o \in Touched(S) THEN S.ddl[o] ELSE mirror.ddl[o]]
          /\ mirror'.rows = (mirror.rows \ (Own(Touched(S)) \cup ReferringTo(Touched(S)) \cup DependingOn(Stale(S))))
                            \cup {row \in S.rows : row[1] \in Fresh(S)}
          /\ mirror' = [ddl |-> mirror'.ddl, rows |-> mirror'.rows]
      BY <1>2, <1>6 DEF Patched
    <2>2. \A o \in Objects : /\ o \in Fresh(S) <=> S.ddl[o] # NoObject /\ S.ddl[o] # mirror.ddl[o]
                             /\ o \in Stale(S) <=> S.ddl[o] = NoObject /\ mirror.ddl[o] # NoObject
                             /\ o \in Touched(S) <=> S.ddl[o] # mirror.ddl[o]
      BY DEF Touched, Fresh, Stale, Listed, NoObject
    <2>3. \A o \in Objects : mirror'.ddl[o] = S.ddl[o] /\ (o \notin Touched(S) => mirror'.ddl[o] = mirror.ddl[o])
      BY <2>1, <2>2
    <2>4. mirror' \in Mirrors
      <3>1. mirror'.ddl \in [Objects -> 0..MaxSeconds]
        BY <1>1, <2>1
      <3>2. mirror'.rows \subseteq Reference
        BY <1>1, <2>1
      <3> QED BY <2>1, <3>1, <3>2 DEF Mirrors
    <2>5. ASSUME NEW row \in dict.rows, row[1] \in Views, Stands(mirror, row[1])' PROVE row \in mirror'.rows
      <3>1. /\ row[1] \in Objects /\ row[2] \in Objects /\ row[1] \notin Tables
            /\ row \in DependenciesOf(dict.rows)
        BY <2>5, <1>1, RowsAre DEF DependenciesOf
      <3>2. Stands(S, row[1]) /\ StandsAnywhere(row[1]) /\ S.ddl[row[1]] # NoObject
        BY <3>1, <2>3, <2>5, <1>4
      <3>3. CASE row[1] \in Fresh(S)
        BY <3>1, <3>2, <3>3, <1>3, <1>6, <2>1
      <3>4. CASE row[1] \notin Fresh(S)
        <4>1. row[1] \notin Touched(S) /\ Stands(mirror, row[1])
          BY <3>1, <3>2, <3>4, <2>2, <2>3, <2>5, <1>4
        <4>2. row \in mirror.rows
          BY <3>1, <4>1, <1>3
        <4>3. row[2] \notin Stale(S)
          BY <3>1, <3>2, <1>3, <1>6, <2>2
        <4> QED BY <3>1, <4>1, <4>2, <4>3, <2>1 DEF Own, ReferringTo, DependingOn, ConstraintsOf
      <3> QED BY <3>3, <3>4
    <2>6. ASSUME NEW row \in mirror'.rows, row \notin S.rows
          PROVE  /\ row \in mirror.rows /\ mirror'.ddl[row[1]] = mirror.ddl[row[1]]
                 /\ row[1] \in Tables =>
                       mirror'.ddl[row[2]] = mirror.ddl[row[2]] \/ OwnKey(row[2]) \notin mirror.rows
      <3>1. row \in mirror.rows /\ row[1] \in Objects /\ row[2] \in Objects
        BY <2>1, <2>6, <1>1, RowsAre
      <3>2. row[1] \notin Touched(S)
        BY <2>1, <2>6, <3>1 DEF Own
      <3>3. row[1] \in Tables => row[2] \notin Touched(S) \/ OwnKey(row[2]) \notin mirror.rows
        BY <2>1, <2>6, <3>1 DEF ReferringTo, ConstraintsOf
      <3> QED BY <3>1, <3>2, <3>3, <2>3
    <2>7. \A row \in DependenciesOf(dict.rows) : Stands(mirror, row[1])' => row \in mirror'.rows
      BY <2>5 DEF DependenciesOf
    <2> QED BY <1>2, <1>6, <2>3, <2>4, <2>6, <2>7, StoredWell DEF S
  <1>7. CASE reading.mode = "deep"
    <2>1. /\ mirror'.ddl = [o \in Objects |-> IF o \in named THEN S.ddl[o] ELSE mirror.ddl[o]]
          /\ mirror'.rows = (mirror.rows \ (Own(named) \cup ReferringTo(named) \cup DependingOn(named))) \cup S.rows
          /\ mirror' = [ddl |-> mirror'.ddl, rows |-> mirror'.rows]
      BY <1>2, <1>7 DEF Replaced
    <2>2. \A o \in Objects : mirror'.ddl[o] = IF o \in named THEN S.ddl[o] ELSE mirror.ddl[o]
      BY <2>1
    <2>3. mirror' \in Mirrors
      <3>1. mirror'.ddl \in [Objects -> 0..MaxSeconds]
        BY <1>1, <2>1
      <3>2. mirror'.rows \subseteq Reference
        BY <1>1, <2>1
      <3> QED BY <2>1, <3>1, <3>2 DEF Mirrors
    <2>4. ASSUME NEW row \in dict.rows, row[1] \in Views, Stands(mirror, row[1])' PROVE row \in mirror'.rows
      <3>1. /\ row[1] \in Objects /\ row[2] \in Objects /\ row[1] \notin Tables
            /\ row \in DependenciesOf(dict.rows)
        BY <2>4, <1>1, RowsAre DEF DependenciesOf
      <3>2. StandsAnywhere(row[1])
        BY <3>1, <2>2, <2>4, <1>4
      <3>3. CASE row[1] \in named \/ row[2] \in named
        BY <3>1, <3>2, <3>3, <1>3, <2>1
      <3>4. CASE row[1] \notin named /\ row[2] \notin named
        <4>1. row \in mirror.rows
          BY <3>1, <3>4, <2>2, <2>4, <1>3, <1>4
        <4> QED BY <3>1, <3>4, <4>1, <2>1 DEF Own, ReferringTo, DependingOn, ConstraintsOf
      <3> QED BY <3>3, <3>4
    <2>5. ASSUME NEW row \in mirror'.rows, row \notin S.rows
          PROVE  /\ row \in mirror.rows /\ mirror'.ddl[row[1]] = mirror.ddl[row[1]]
                 /\ row[1] \in Tables =>
                       mirror'.ddl[row[2]] = mirror.ddl[row[2]] \/ OwnKey(row[2]) \notin mirror.rows
      <3>1. row \in mirror.rows /\ row[1] \in Objects /\ row[2] \in Objects
        BY <2>1, <2>5, <1>1, RowsAre
      <3>2. row[1] \notin named
        BY <2>1, <2>5, <3>1 DEF Own
      <3>3. row[1] \in Tables => row[2] \notin named \/ OwnKey(row[2]) \notin mirror.rows
        BY <2>1, <2>5, <3>1 DEF ReferringTo, ConstraintsOf
      <3> QED BY <3>1, <3>2, <3>3, <2>2
    <2>6. \A row \in DependenciesOf(dict.rows) : Stands(mirror, row[1])' => row \in mirror'.rows
      BY <2>4 DEF DependenciesOf
    <2>7. \A o \in Objects : mirror'.ddl[o] \in {S.ddl[o], mirror.ddl[o]}
      BY <2>2
    <2>8. \A o \in named : mirror'.ddl[o] = S.ddl[o]
      BY <2>2, <1>1
    <2> QED BY <1>2, <1>7, <2>3, <2>5, <2>6, <2>7, <2>8, StoredWell DEF S, named
  <1> QED BY <1>1, <1>5, <1>6, <1>7

(* A refresh of a whole schema during which nothing changed leaves the mirror
   right, whatever changed in the middle of the refreshes before it: for any
   tables and views, any number of changes and any clock.                    *)
THEOREM TheMirrorCatchesUp == MirrorSpec => []MirrorCatchesUp
  <1>1. MirrorInit => MirrorInv
    <2> SUFFICES ASSUME MirrorInit PROVE MirrorInv
      OBVIOUS
    <2>1. Empty \in Mirrors /\ Empty.rows = {} /\ \A o \in Objects : Empty.ddl[o] = 0
      BY MirrorAssumption DEF Empty, Mirrors, NoObject
    <2>2. MirrorTypeOK
      BY <2>1, MirrorAssumption DEF MirrorInit, MirrorTypeOK
    <2>3. ClockInv
      BY <2>1 DEF MirrorInit, ClockInv, DatedNow
    <2>4. SeenInv /\ QuietInv
      BY <2>1 DEF MirrorInit, SeenInv, QuietInv
    <2>5. HeldInv
      BY <2>1 DEF MirrorInit, HeldInv, DependenciesOf, ConstraintsOf, Unlisted
    <2> QED BY <2>2, <2>3, <2>4, <2>5 DEF MirrorInv
  <1>2. MirrorInv /\ [MirrorNext]_mirrorVars => MirrorInv'
    <2> SUFFICES ASSUME MirrorInv, [MirrorNext]_mirrorVars PROVE MirrorInv'
      OBVIOUS
    <2>1. CASE UNCHANGED mirrorVars
      BY <2>1 DEF mirrorVars, MirrorInv, MirrorTypeOK, ClockInv, DatedNow, SeenInv, SeenWell, HeldInv, QuietInv,
                  CaughtUp, Stands, StandsAnywhere, Unlisted, Listed
    <2>2. CASE MirrorNext
      BY <2>2, SchemaMoves, ReadingMoves, RefreshMoves DEF MirrorNext
    <2> QED BY <2>1, <2>2
  <1>3. MirrorInv => MirrorCatchesUp
    <2> SUFFICES ASSUME MirrorInv, CaughtUp
                 PROVE  /\ mirror.ddl = dict.ddl
                        /\ {row \in DependenciesOf(dict.rows) : row[1] \in Sure} \subseteq mirror.rows
                        /\ \A row \in mirror.rows : {row[1], row[2]} \subseteq Sure \ unlisted =>
                                                       row \in dict.rows \cup severed
      BY DEF MirrorCatchesUp
    <2> USE DEF MirrorInv
    <2>1. /\ mirror.ddl \in [Objects -> 0..MaxSeconds] /\ dict.ddl \in [Objects -> 0..MaxSeconds]
          /\ dict.rows \subseteq Reference /\ mirror.rows \subseteq Reference
      BY DEF MirrorTypeOK, Mirrors
    <2>2. \A o \in Objects : mirror.ddl[o] = dict.ddl[o]
      BY DEF QuietInv
    <2>3. mirror.ddl = dict.ddl
      BY <2>1, <2>2
    <2>4. \A o \in Sure : dict.ddl[o] # NoObject => Stands(mirror, o)
      BY <2>2 DEF Sure, Stands
    <2>5. ASSUME NEW row \in dict.rows, row[1] \in Views, row[1] \in Sure PROVE row \in mirror.rows
      BY <2>4, <2>5 DEF HeldInv, QuietInv, DependenciesOf
    <2>6. ASSUME NEW row \in mirror.rows, {row[1], row[2]} \subseteq Sure \ unlisted
          PROVE  row \in dict.rows \cup severed
      <3>1. row[1] \in Objects /\ row[2] \in Objects
        BY <2>1, RowsAre
      <3>2. {row[1], row[2]} \cap Unlisted(mirror) = {}
        BY <2>6 DEF HeldInv
      <3>3. mirror.ddl[row[1]] # NoObject /\ mirror.ddl[row[2]] # NoObject
        <4> DEFINE ends == {{r[1], r[2]} : r \in mirror.rows}
        <4>1. {row[1], row[2]} \in ends
          OBVIOUS
        <4>2. {row[1], row[2]} \subseteq UNION ends
          BY <4>1
        <4>3. (UNION ends) \ Listed(mirror) \subseteq Unlisted(mirror)
          BY DEF Unlisted
        <4> HIDE DEF ends
        <4>4. {row[1], row[2]} \subseteq Listed(mirror)
          BY <4>2, <4>3, <3>2
        <4> QED BY <4>4 DEF Listed
      <3>4. Stands(mirror, row[1]) /\ Stands(mirror, row[2])
        BY <3>1, <3>3, <2>2, <2>6 DEF Sure, Stands
      <3>5. CASE row[1] \in Views
        BY <3>4, <3>5 DEF HeldInv, DependenciesOf
      <3>6. CASE row[1] \in Tables
        BY <3>4, <3>6, <2>6 DEF HeldInv, ConstraintsOf
      <3> QED BY <3>1, <3>5, <3>6 DEF Objects
    <2> QED BY <2>3, <2>5, <2>6 DEF DependenciesOf
  <1> QED BY <1>1, <1>2, <1>3, PTL DEF MirrorSpec

-----------------------------------------------------------------------------
(* recompile.                                                                *)
PassShape == pass \in [todo : Seq(Compiled), failed : Seq(Compiled), size : Nat]

AllFailed == Len(pass.failed) + Len(pass.todo) = pass.size
PassInv ==
    /\ PassShape
    /\ sweep \in {"first", "retry", "done", "lost"}
    /\ sweep \in {"first", "retry"} => Len(pass.failed) + Len(pass.todo) <= pass.size
    /\ sweep \in {"first", "retry"} /\ AllFailed =>
          \A i \in 1..Len(pass.failed) : ~Compiles(pass.failed[i])
    /\ FixpointReached

(* Turned round, a list is as long and holds the same.                       *)
LEMMA ReverseFacts ==
  ASSUME NEW S, NEW s \in Seq(S)
  PROVE  Reverse(s) \in Seq(S) /\ Len(Reverse(s)) = Len(s)
  <1>1. \A i \in 1..Len(s) : (Len(s) - i) + 1 \in 1..Len(s)
    OBVIOUS
  <1>2. \A i \in 1..Len(s) : s[(Len(s) - i) + 1] \in S
    BY <1>1
  <1>3. QED
    BY <1>2 DEF Reverse

LEMMA PassStart == RecompileInit => PassInv
  BY RecompileAssumption DEF RecompileAssumption, RecompileInit, PassInv, PassShape, FixpointReached

LEMMA PassStep == PassInv /\ [RecompileNext]_recompileVars => PassInv'
  <1> SUFFICES ASSUME PassInv, [RecompileNext]_recompileVars PROVE PassInv'
    OBVIOUS
  <1>1. CASE Compile
    <2> DEFINE o == Head(pass.todo)
               failed == pass.failed
    <2>1. /\ sweep \in {"first", "retry"} /\ sweep' = sweep /\ schema' = schema /\ pass.todo # <<>>
          /\ pass.todo \in Seq(Compiled) /\ pass.failed \in Seq(Compiled) /\ pass.size \in Nat
          /\ Len(pass.failed) + Len(pass.todo) <= pass.size
          /\ AllFailed => \A i \in 1..Len(pass.failed) : ~Compiles(pass.failed[i])
      BY <1>1 DEF Compile, PassInv, PassShape
    <2>2. o \in Compiled /\ Tail(pass.todo) \in Seq(Compiled)
      BY <2>1
    <2>3. Len(pass.todo) \in Nat /\ Len(failed) \in Nat /\ Len(Tail(pass.todo)) = Len(pass.todo) - 1
      BY <2>1
    <2>4. PICK a \in Nat, b \in Nat : a = Len(failed) /\ b = Len(pass.todo)
      BY <2>3
    <2>5. a + b <= pass.size /\ pass.size \in Nat /\ b \in Nat \ {0}
      <3>1. Len(pass.todo) # 0
        BY <2>1
      <3>2. a + b <= pass.size
        BY <2>1, <2>4
      <3>3. QED
        BY <2>1, <2>4, <3>1, <3>2
    <2>6. Len(Tail(pass.todo)) = b - 1
      BY <2>3, <2>4
    <2>7. pass' = [pass EXCEPT !.todo = Tail(@),
                     !.failed = IF Compiles(o) \/ o \in schema.silent THEN @ ELSE Append(@, o)]
      BY <1>1 DEF Compile
    <2>8. CASE Compiles(o) \/ o \in schema.silent
      <3>1. pass' = [pass EXCEPT !.todo = Tail(@), !.failed = @]
        BY <2>7, <2>8
      <3>2. /\ pass'.todo = Tail(pass.todo) /\ pass'.failed = failed /\ pass'.size = pass.size /\ PassShape'
        BY <2>1, <2>2, <3>1 DEF PassInv, PassShape
      <3>3. Len(pass'.failed) = a /\ Len(pass'.todo) = b - 1
        BY <2>4, <2>6, <3>2
      <3>4. a + (b - 1) < pass.size
        BY <2>5
      <3>5. Len(pass'.failed) + Len(pass'.todo) <= pass'.size /\ ~AllFailed'
        BY <2>5, <3>2, <3>3, <3>4 DEF AllFailed
      <3>6. QED
        BY <2>1, <3>2, <3>5 DEF PassInv, FixpointReached
    <2>9. CASE ~(Compiles(o) \/ o \in schema.silent)
      <3>1. pass' = [pass EXCEPT !.todo = Tail(@), !.failed = Append(@, o)]
        BY <2>7, <2>9
      <3>2. Append(failed, o) \in Seq(Compiled)
        BY <2>1, <2>2
      <3>3. /\ pass'.todo = Tail(pass.todo) /\ pass'.failed = Append(failed, o) /\ pass'.size = pass.size
            /\ PassShape'
        BY <2>1, <2>2, <3>1, <3>2 DEF PassInv, PassShape
      <3>4. invalid' = invalid \cup {o}
        BY <1>1, <2>9 DEF Compile
      <3>5. /\ Len(Append(failed, o)) = a + 1
            /\ \A i \in 1..a : Append(failed, o)[i] = failed[i]
            /\ Append(failed, o)[a + 1] = o
        BY <2>1, <2>2, <2>4
      <3>6. Len(pass'.failed) = a + 1 /\ Len(pass'.todo) = b - 1
        BY <2>6, <3>3, <3>5
      <3>7. (a + 1) + (b - 1) = a + b
        BY <2>5
      <3>8. Len(pass'.failed) + Len(pass'.todo) <= pass'.size
        BY <2>5, <3>3, <3>6, <3>7
      <3>9. AllFailed' => AllFailed
        BY <2>4, <3>3, <3>6, <3>7 DEF AllFailed
      <3>10. \A p : ~Compiles(p) => ~Compiles(p)'
        BY <2>1, <3>4 DEF Compiles
      <3>11. AllFailed' => \A i \in 1..Len(pass.failed') : ~Compiles(pass.failed[i])'
        <4> SUFFICES ASSUME AllFailed', NEW i \in 1..Len(pass.failed') PROVE ~Compiles(pass.failed[i])'
          OBVIOUS
        <4>1. i \in 1..(a + 1)
          BY <3>6
        <4>2. CASE i \in 1..a
          <5>1. PICK x : x = failed[i]
            OBVIOUS
          <5>2. ~Compiles(x)
            BY <2>1, <2>4, <3>9, <4>2, <5>1
          <5>3. pass.failed[i]' = x
            BY <3>3, <3>5, <4>2, <5>1
          <5>4. ~Compiles(x)'
            BY <3>10, <5>2
          <5>5. QED
            BY <5>3, <5>4 DEF Compiles
        <4>3. CASE i = a + 1
          <5>1. pass.failed[i]' = o
            BY <3>3, <3>5, <4>3
          <5>2. schema.needs[o] \cap invalid' # {} \/ o \in schema.broken
            BY <2>9, <3>4 DEF Compiles
          <5>3. QED
            BY <2>1, <5>1, <5>2 DEF Compiles
        <4>4. QED
          BY <4>1, <4>2, <4>3
      <3>12. QED
        BY <2>1, <3>3, <3>8, <3>11 DEF PassInv, FixpointReached
    <2>10. QED
      BY <2>8, <2>9
  <1>2. CASE EndOfPass
    <2>1. /\ sweep \in {"first", "retry"} /\ pass.todo = <<>> /\ Len(pass.failed) \in Nat
          /\ schema' = schema /\ invalid' = invalid /\ pass.failed \in Seq(Compiled) /\ pass.size \in Nat
      BY <1>2 DEF EndOfPass, PassInv, PassShape
    <2>2. CASE More
      <3>1. /\ pass' = [todo |-> Reverse(pass.failed), failed |-> <<>>, size |-> Len(pass.failed)]
            /\ sweep' = "retry"
        BY <1>2, <2>2 DEF EndOfPass
      <3>2. Reverse(pass.failed) \in Seq(Compiled) /\ Len(Reverse(pass.failed)) = Len(pass.failed)
        BY <2>1, ReverseFacts
      <3>3. QED
        BY <2>1, <3>1, <3>2 DEF PassInv, PassShape, AllFailed, FixpointReached
    <2>3. CASE ~More
      <3>1. sweep' = "done" /\ pass' = pass
        BY <1>2, <2>3 DEF EndOfPass
      <3>2. pass.failed = <<>> \/ AllFailed
        BY <2>1, <2>3 DEF More, AllFailed
      <3>3. \A i \in 1..Len(pass.failed) : ~Compiles(pass.failed[i])
        BY <2>1, <3>2 DEF PassInv
      <3>4. FixpointReached'
        BY <2>1, <3>1, <3>3 DEF FixpointReached, Compiles
      <3>5. QED
        BY <3>1, <3>4 DEF PassInv, PassShape
    <2>4. QED
      BY <2>2, <2>3
  <1>3. CASE SessionLost
    BY <1>3 DEF SessionLost, PassInv, PassShape, FixpointReached
  <1>4. CASE UNCHANGED recompileVars
    <2>1. schema' = schema /\ invalid' = invalid /\ pass' = pass /\ sweep' = sweep
      BY <1>4 DEF recompileVars
    <2>2. QED
      BY <2>1 DEF PassInv, PassShape, AllFailed, FixpointReached, Compiles
  <1>5. QED
    BY <1>1, <1>2, <1>3, <1>4 DEF RecompileNext

(* FixpointReached, an invariant of the run Services, for every sequence of
   objects and every graph of what they need.                                *)
THEOREM FixpointIsReached == RecompileSpec => []FixpointReached
  <1>1. PassInv => FixpointReached
    BY DEF PassInv
  <1>2. QED
    BY PassStart, PassStep, <1>1, PTL DEF RecompileSpec
=============================================================================
