--------------------------- MODULE HashBaselineProofs ---------------------------
(***************************************************************************)
(* That a line of the baseline anybody answers for is what the target holds,  *)
(* for every set of files, hashes and scripts and any number of edits.  It is  *)
(* not inductive by itself: while a deploy runs, a file that landed is ahead   *)
(* of its line until the baseline is advanced, and then the line has to become *)
(* the hash the folder lists, so AheadByItsScript says that is what landed.    *)
(***************************************************************************)
EXTENDS HashBaseline, TLAPS

(* The type of what the invariant looks at.                                  *)
Shape ==
    /\ tree \in Trees /\ target \in Trees /\ base \in Trees
    /\ patch \in [listed : SUBSET Files, hashes : Trees, carries : Trees]
    /\ phase \in [at : {"idle", "diffed", "deploying"}, cont : BOOLEAN,
                  results : [Scripts -> Results]]
    /\ sure \subseteq Files

(* A result is there only while a deploy runs.                               *)
NoResultYet == phase.at # "deploying" => \A s \in Scripts : phase.results[s] = "none"

AheadByItsScript ==
    \A f \in sure : target[f] = IF f \in LandedFiles THEN patch.hashes[f] ELSE base[f]

HashInv == Shape /\ NoResultYet /\ AheadByItsScript

-----------------------------------------------------------------------------
LEMMA HashStart == HashInit => HashInv
  BY HashAssumption DEF HashInit, HashInv, Shape, NoResultYet, AheadByItsScript, Trees, Ready, Results,
                        LandedFiles

(* Every step keeps the types.                                               *)
LEMMA HashShape == HashInv /\ [HashNext]_hashVars => Shape'
  <1> SUFFICES ASSUME HashInv, [HashNext]_hashVars PROVE Shape'
    OBVIOUS
  <1>0. Shape
    BY DEF HashInv
  <1>1. ASSUME NEW f \in Files, EditTree(f) PROVE Shape'
    BY <1>0, <1>1 DEF EditTree, Shape, Trees
  <1>2. CASE SnapshotBaseline
    BY <1>0, <1>2 DEF SnapshotBaseline, Shape, Trees
  <1>3. CASE Diff
    BY <1>0, <1>3 DEF Diff, Differs, Shape, Trees, Ready, Results
  <1>4. CASE Build
    BY <1>0, <1>4 DEF Build, Shape, Trees, Ready, Results
  <1>5. CASE BuildStops
    BY <1>0, <1>5 DEF BuildStops, Shape, Trees, Ready, Results
  <1>6. CASE StartDeploy
    <2>1. \A cont \in BOOLEAN : [Ready EXCEPT !.at = "deploying", !.cont = cont] \in
             [at : {"idle", "diffed", "deploying"}, cont : BOOLEAN, results : [Scripts -> Results]]
      BY DEF Ready, Results
    <2>2. QED
      BY <1>0, <1>6, <2>1 DEF StartDeploy, Shape
  <1>7. ASSUME NEW s \in Scripts, RunInstall(s) PROVE Shape'
    <2>1. \A landed \in SUBSET Files : Landing(landed) \in Trees
      BY <1>0 DEF Landing, Shape, Trees
    <2>2. Linked(s) \subseteq Files
      BY <1>0 DEF Linked, Shape
    <2>3. target' \in Trees
      BY <1>7, <2>1, <2>2 DEF RunInstall
    <2>4. sure' \subseteq Files
      BY <1>0, <1>7, <2>2 DEF RunInstall, Shape
    <2>5. \A how \in Results : [phase EXCEPT !.results[s] = how] \in
             [at : {"idle", "diffed", "deploying"}, cont : BOOLEAN, results : [Scripts -> Results]]
      BY <1>0 DEF Shape
    <2>6. "SUCCESS" \in Results /\ "ERROR" \in Results
      BY DEF Results
    <2>7. QED
      BY <1>0, <1>7, <2>3, <2>4, <2>5, <2>6 DEF RunInstall, Shape
  <1>8. ASSUME NEW s \in Scripts, MeasureBaseline(s) PROVE Shape'
    BY <1>0, <1>8 DEF MeasureBaseline, Measured, Shape, Trees
  <1>9. CASE AdvanceBaseline
    BY <1>0, <1>9 DEF AdvanceBaseline, Merged, LandedFiles, Shape, Trees, Ready, Results
  <1>10. CASE DeployDies
    BY <1>0, <1>10 DEF DeployDies, Shape, Trees, Ready, Results
  <1>11. CASE UNCHANGED hashVars
    BY <1>0, <1>11 DEF hashVars, Shape
  <1>12. QED
    BY <1>1, <1>2, <1>3, <1>4, <1>5, <1>6, <1>7, <1>8, <1>9, <1>10, <1>11 DEF HashNext

(* Every step keeps what is ahead of its line to what its own script landed.  *)
LEMMA HashStep == HashInv /\ Shape' /\ [HashNext]_hashVars => (NoResultYet /\ AheadByItsScript)'
  <1> SUFFICES ASSUME HashInv, Shape', [HashNext]_hashVars PROVE (NoResultYet /\ AheadByItsScript)'
    OBVIOUS
  <1>0. Shape /\ NoResultYet /\ AheadByItsScript
    BY DEF HashInv
  <1>a. ASSUME phase.at # "deploying" PROVE LandedFiles = {}
    BY <1>0, <1>a, HashAssumption DEF NoResultYet, LandedFiles, Shape, HashAssumption
  <1>b. ASSUME phase' = [Ready EXCEPT !.at = "diffed"] \/ phase' = Ready
               \/ \E cont \in BOOLEAN : phase' = [Ready EXCEPT !.at = "deploying", !.cont = cont]
        PROVE NoResultYet' /\ LandedFiles' = {}
    <2>1. phase'.results = [s \in Scripts |-> "none"]
      <3>1. [Ready EXCEPT !.at = "diffed"].results = Ready.results
        BY DEF Ready
      <3>2. \A cont \in BOOLEAN :
               [Ready EXCEPT !.at = "deploying", !.cont = cont].results = Ready.results
        BY DEF Ready
      <3>3. Ready.results = [s \in Scripts |-> "none"]
        BY DEF Ready
      <3>4. QED
        BY <1>b, <3>1, <3>2, <3>3
    <2>2. \A f \in patch'.listed : ScriptOf[f] \in Scripts
      BY HashAssumption DEF HashAssumption, Shape
    <2>3. \A f \in patch'.listed : phase'.results[ScriptOf[f]] # "SUCCESS"
      BY <2>1, <2>2
    <2>4. QED
      BY <2>1, <2>3 DEF NoResultYet, LandedFiles
  <1>1. ASSUME NEW f \in Files, EditTree(f) PROVE (NoResultYet /\ AheadByItsScript)'
    BY <1>0, <1>1 DEF EditTree, NoResultYet, AheadByItsScript, LandedFiles
  <1>2. CASE SnapshotBaseline
    <2>1. LandedFiles = {} /\ LandedFiles' = {}
      BY <1>2, <1>a DEF SnapshotBaseline, LandedFiles
    <2>2. QED
      BY <1>0, <1>2, <2>1 DEF SnapshotBaseline, NoResultYet, AheadByItsScript
  <1>3. CASE Diff \/ Build \/ BuildStops \/ StartDeploy
    <2>1. phase.at # "deploying" /\ UNCHANGED <<target, base, sure>>
      BY <1>3 DEF Diff, Build, BuildStops, StartDeploy
    <2>2. NoResultYet' /\ LandedFiles' = {}
      BY <1>3, <1>b DEF Diff, Build, BuildStops, StartDeploy
    <2>3. QED
      BY <1>0, <2>1, <2>2, <1>a DEF AheadByItsScript
  <1>7. ASSUME NEW s \in Scripts, RunInstall(s) PROVE (NoResultYet /\ AheadByItsScript)'
    <2>1. phase.at = "deploying" /\ phase'.at = "deploying" /\ UNCHANGED <<base, patch>>
      BY <1>7, <1>0 DEF RunInstall, Shape
    <2>2. NoResultYet'
      BY <2>1 DEF NoResultYet
    <2>3. \A f \in Files \ Linked(s) : target'[f] = target[f] /\ (f \in sure' => f \in sure)
                                      /\ (f \in LandedFiles' <=> f \in LandedFiles)
      BY <1>7, <1>0, HashAssumption DEF RunInstall, Landing, Linked, LandedFiles, Shape, HashAssumption
    <2>4. \A f \in Linked(s) : f \in patch.listed /\ ScriptOf[f] = s /\ f \in Files
      BY <1>0 DEF Linked, Shape
    <2>5. CASE phase' = [phase EXCEPT !.results[s] = "SUCCESS"] /\ target' = Landing(Linked(s))
               /\ sure' = (sure \cup Linked(s)) \ {f \in Linked(s) : patch.carries[f] # patch.hashes[f]}
      <3>1. \A f \in Linked(s) : f \in LandedFiles' /\ target'[f] = patch.carries[f]
        BY <2>1, <2>4, <2>5, <1>0 DEF LandedFiles, Landing, Shape
      <3>2. \A f \in Linked(s) : f \in sure' => target'[f] = patch'.hashes[f]
        BY <3>1, <2>5, <2>1
      <3>3. QED
        BY <1>0, <2>1, <2>2, <2>3, <3>1, <3>2 DEF AheadByItsScript, Shape
    <2>6. CASE phase' = [phase EXCEPT !.results[s] = "ERROR"] /\ \E landed \in SUBSET Linked(s) :
                target' = Landing(landed) /\ sure' = sure \ landed
      <3>1. \A f \in Linked(s) : f \notin LandedFiles /\ f \notin LandedFiles'
        BY <1>7, <2>1, <2>4, <2>6, <1>0 DEF RunInstall, LandedFiles, Shape
      <3>2. \A f \in Linked(s) : f \in sure' => target'[f] = target[f] /\ f \in sure
        BY <2>4, <2>6 DEF Landing
      <3>3. QED
        BY <1>0, <2>1, <2>2, <2>3, <3>1, <3>2 DEF AheadByItsScript, Shape
    <2>7. QED
      BY <1>7, <2>5, <2>6 DEF RunInstall
  <1>8. ASSUME NEW s \in Scripts, MeasureBaseline(s) PROVE (NoResultYet /\ AheadByItsScript)'
    <2>1. LandedFiles = {} /\ LandedFiles' = {}
      BY <1>8, <1>a DEF MeasureBaseline, LandedFiles
    <2>2. QED
      BY <1>0, <1>8, <2>1 DEF MeasureBaseline, Measured, NoResultYet, AheadByItsScript, Shape
  <1>9. CASE AdvanceBaseline
    BY <1>0, <1>9, <1>b DEF AdvanceBaseline, Merged, AheadByItsScript, Shape
  <1>10. CASE DeployDies
    <2>1. \A f \in sure' : f \in sure /\ f \notin LandedFiles
      BY <1>10 DEF DeployDies, LandedFiles
    <2>2. QED
      BY <1>0, <1>10, <2>1, <1>b DEF DeployDies, AheadByItsScript
  <1>11. CASE UNCHANGED hashVars
    BY <1>0, <1>11 DEF hashVars, NoResultYet, AheadByItsScript, LandedFiles
  <1>12. QED
    BY <1>1, <1>2, <1>3, <1>7, <1>8, <1>9, <1>10, <1>11 DEF HashNext

(* BaselineTrue, an invariant of the run Services: a line is what the target
   holds wherever somebody answers for it, for every set of files.           *)
THEOREM BaselineIsTrue == HashSpec => []BaselineTrue
  <1>1. HashInv /\ [HashNext]_hashVars => HashInv'
    BY HashShape, HashStep DEF HashInv
  <1>2. HashInv => BaselineTrue
    <2> SUFFICES ASSUME HashInv, phase.at # "deploying", NEW f \in sure PROVE base[f] = target[f]
      BY DEF BaselineTrue
    <2>1. f \notin LandedFiles
      BY HashAssumption DEF HashInv, Shape, NoResultYet, LandedFiles, HashAssumption
    <2>2. QED
      BY <2>1 DEF HashInv, AheadByItsScript
  <1>3. QED
    BY HashStart, <1>1, <1>2, PTL DEF HashSpec
=============================================================================
