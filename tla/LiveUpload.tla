------------------------------- MODULE LiveUpload -------------------------------
(***************************************************************************)
(* `adtai live_upload` (live_upload/runner.py, files.py): look at the folder,  *)
(* upload every file whose modification time moved forward, write a minified  *)
(* sibling, sleep, and look again, while an editor goes on saving.            *)
(***************************************************************************)
EXTENDS Naturals

CONSTANTS Source, Sibling,   \* a file that minifies, and what it minifies to
          MaxSaves,          \* bound: files saved by the editor
          MaxStamp           \* bound: the clock of the file system

ASSUME LiveAssumption == Source # Sibling /\ MaxSaves \in Nat /\ MaxStamp \in Nat \ {0}

VARIABLES folder,      \* each watched file: what it holds, and its modification time
          apex,       \* what APEX serves under its name
          known,      \* the stamps the watch remembers
          look,       \* the pass: the files still to be taken, and the one in hand
          instant, saves,
          missed      \* history: files with a change the watch is not to see
liveVars == <<folder, apex, known, look, instant, saves, missed>>

Watched == {Source, Sibling}
Edit(n) == [by |-> "editor", of |-> n]
Minified(n) == [by |-> "minifier", of |-> n]
Texts == {Edit(n) : n \in 0..MaxSaves} \cup {Minified(n) : n \in 0..MaxSaves}
NoText == Edit(0)
Stamps == 0..MaxStamp       \* 0: no file, as `known.get(path, 0.0)` has it
Idle == [at |-> "sleep", todo |-> [f \in Watched |-> 0], hand |-> Source, payload |-> NoText]

LiveTypeOK ==
    /\ folder \in [Watched -> [text : Texts, stamp : Stamps]]
    /\ apex \in [Watched -> Texts] /\ known \in [Watched -> Stamps]
    /\ look \in [at : {"sleep", "pass", "read", "upload", "minify", "write"},
                 todo : [Watched -> Stamps], hand : Watched, payload : Texts]
    /\ instant \in 1..MaxStamp /\ saves \in 0..MaxSaves /\ missed \subseteq Watched

(* The first scan uploads nothing: a file that is already there may differ
   from what APEX serves until it is saved.                                  *)
LiveInit ==
    /\ folder \in [Watched -> {[text |-> NoText, stamp |-> 0], [text |-> NoText, stamp |-> 1]}]
    /\ apex = [f \in Watched |-> NoText] /\ known = [f \in Watched |-> folder[f].stamp]
    /\ look = Idle /\ instant = 1 /\ saves = 0 /\ missed = {}

-----------------------------------------------------------------------------
(* The editor, and the clock.                                                *)
Written(f, text) ==
    /\ folder' = [folder EXCEPT ![f] = [text |-> text, stamp |-> instant]]
    /\ missed' = IF instant \in {known[f], look.todo[f]} THEN missed \cup {f} ELSE missed \ {f}

Save(f) ==
    /\ saves < MaxSaves /\ saves' = saves + 1
    /\ Written(f, Edit(saves + 1))
    /\ UNCHANGED <<apex, known, look, instant>>

(* A backup put back keeps its older stamp: it is not to be uploaded.        *)
RestoreBackup(f) ==
    /\ saves < MaxSaves /\ saves' = saves + 1
    /\ \E old \in 1..(folder[f].stamp - 1) :
          folder' = [folder EXCEPT ![f] = [text |-> Edit(saves + 1), stamp |-> old]]
    /\ missed' = missed \cup {f}
    /\ UNCHANGED <<apex, known, look, instant>>

FileClock ==
    /\ instant < MaxStamp /\ instant' = instant + 1
    /\ UNCHANGED <<folder, apex, known, look, saves, missed>>

-----------------------------------------------------------------------------
(* LiveUploadRunner.run.                                                     *)
NoWrite == UNCHANGED <<folder, instant, saves>>
Turns(at) == look' = [look EXCEPT !.at = at]

(* files.changed, on one scan.                                               *)
LookAgain ==
    /\ look.at = "sleep"
    /\ look' = [look EXCEPT !.at = "pass",
          !.todo = [f \in Watched |-> IF folder[f].stamp > known[f] THEN folder[f].stamp ELSE 0]]
    /\ UNCHANGED <<apex, known, missed>> /\ NoWrite

(* The stamp of the scan is remembered before the file is read.              *)
TakeFile(f) ==
    /\ look.at = "pass" /\ look.todo[f] # 0
    /\ f = Sibling => look.todo[Source] = 0
    /\ known' = [known EXCEPT ![f] = look.todo[f]]
    /\ look' = [look EXCEPT !.at = "read", !.todo[f] = 0, !.hand = f]
    /\ UNCHANGED <<apex, missed>> /\ NoWrite

ReadFile ==
    /\ look.at = "read"
    /\ look' = [look EXCEPT !.at = "upload", !.payload = folder[look.hand].text]
    /\ UNCHANGED <<apex, known, missed>> /\ NoWrite

UploadFile ==
    /\ look.at = "upload"
    /\ apex' = [apex EXCEPT ![look.hand] = look.payload]
    /\ Turns(IF look.hand = Source THEN "minify" ELSE "pass")
    /\ UNCHANGED <<known, missed>> /\ NoWrite

(* The read or the upload raised: reported, and not tried again.             *)
UploadFails ==
    /\ look.at \in {"read", "upload"}
    /\ Turns("pass")
    /\ missed' = missed \cup {look.hand}
    /\ UNCHANGED <<apex, known>> /\ NoWrite

(* The source is read a second time for its sibling.                         *)
MinifyFile ==
    /\ look.at = "minify"
    /\ look' = [look EXCEPT !.at = "write", !.payload = Minified(folder[Source].text.of)]
    /\ UNCHANGED <<apex, known, missed>> /\ NoWrite

WriteSibling ==
    /\ look.at = "write"
    /\ Written(Sibling, look.payload)
    /\ Turns("pass")
    /\ UNCHANGED <<apex, known, instant, saves>>

MinifyFails ==
    /\ look.at \in {"minify", "write"}
    /\ Turns("pass")
    /\ UNCHANGED <<apex, known, missed>> /\ NoWrite

(* The pass is over; nothing it wrote itself is taken for known.             *)
MutantRemembered == [f \in Watched |-> folder[f].stamp]
Remembered == known
EndOfLook ==
    /\ look.at = "pass" /\ \A f \in Watched : look.todo[f] = 0
    /\ look' = Idle /\ known' = Remembered
    /\ UNCHANGED <<apex, missed>> /\ NoWrite

LiveNext ==
    \/ \E f \in Watched : Save(f) \/ RestoreBackup(f) \/ TakeFile(f)
    \/ FileClock \/ LookAgain \/ ReadFile \/ UploadFile \/ UploadFails
    \/ MinifyFile \/ WriteSibling \/ MinifyFails \/ EndOfLook
LiveSpec == LiveInit /\ [][LiveNext]_liveVars

-----------------------------------------------------------------------------
(* When a look finds nothing new APEX serves what the folder holds, although
   files were saved between the scan, the read and the upload of a pass, and
   the watch writes into the folder it watches; but for a file whose upload
   failed, a backup that was put back, and a save within the instant of one
   already seen.                                                             *)
ServesTheFolder ==
    look.at = "sleep" /\ (\A f \in Watched : folder[f].stamp <= known[f]) =>
        \A f \in Watched \ missed : apex[f] = folder[f].text
=============================================================================
