--------------------------- MODULE CommitStoreProofs ---------------------------
(***************************************************************************)
(* That a commit store is right about its branch however the branch moves     *)
(* and wherever a rebuild dies, for every set of lines on which a commit fixes  *)
(* the commits below it (LineAssumption, which is git's).  What is proved      *)
(* by induction is StoreInv: a store that says it is numbered by first parent  *)
(* is on one line, and once reconcile has answered it is on the line walked.   *)
(***************************************************************************)
EXTENDS CommitStore, TLAPS

Numbering == step \in {"numbered", "read"}
StoreInv ==
    /\ line \in LineSet /\ history \in LineSet /\ placing \subseteq 1..Len(history)
    /\ StoreOnLine
    /\ Numbering => marked /\ OnLine(rows, history)
    /\ step = "moved" => OnLine(rows, history)

(* A line is a sequence of commits with no commit twice.                     *)
LEMMA LineFacts == ASSUME NEW L \in LineSet
                   PROVE  Len(L) \in Nat /\ \A i, k \in 1..Len(L) : L[i] = L[k] => i = k
  BY LineAssumption DEF LineAssumption

(* A store whose ceiling agrees with a line is on that line: the row below
   was that line's too, for the store is on some line and that line meets
   this one at the ceiling.                                                  *)
LEMMA CeilingDecides ==
  ASSUME NEW R, NEW L \in LineSet, NEW M \in LineSet, OnLine(R, L),
         NEW n \in DOMAIN R, \A k \in DOMAIN R : k <= n, n \in 1..Len(M), R[n] = M[n]
  PROVE  OnLine(R, M)
  <1>1. n \in 1..Len(L) /\ L[n] = M[n] /\ Len(L) \in Nat /\ Len(M) \in Nat
    BY LineFacts DEF OnLine
  <1>2. \A k \in 1..n : L[k] = M[k]
    BY <1>1, LineAssumption DEF LineAssumption
  <1>3. ASSUME NEW k \in DOMAIN R PROVE k \in 1..Len(M) /\ R[k] = M[k]
    <2>1. k \in 1..Len(L) /\ R[k] = L[k] /\ k <= n
      BY DEF OnLine
    <2>2. k \in 1..n
      BY <1>1, <2>1
    <2>3. QED
      BY <1>1, <1>2, <2>1, <2>2
  <1>4. QED
    BY <1>3 DEF OnLine

(* Renumbering puts every commit it keeps where the walked line has it.      *)
LEMMA RenumberedOnLine == \A forget : OnLine(Renumbered(forget), history)
  BY DEF Renumbered, OnLine

(* The empty store is on every line.                                         *)
LEMMA EmptyOnLine == \A R, L : DOMAIN R = {} => OnLine(R, L)
  BY DEF OnLine

LEMMA StoreStart == StoreInit => StoreInv
  BY DEF StoreInit, StoreInv, StoreOnLine, Numbering

LEMMA StoreStep == StoreInv /\ [StoreNext]_storeVars => StoreInv'
  <1> SUFFICES ASSUME StoreInv, [StoreNext]_storeVars PROVE StoreInv'
    OBVIOUS
  <1>0. history \in LineSet /\ Len(history) \in Nat
    BY LineFacts DEF StoreInv
  <1>1. CASE Walk
    BY <1>1 DEF Walk, StoreInv, StoreOnLine, Numbering
  <1>2. CASE ReconcileEmpty
    <2>1. OnLine(rows, history)
      BY <1>2, EmptyOnLine DEF ReconcileEmpty
    <2>2. QED
      BY <1>2, <2>1, <1>0 DEF ReconcileEmpty, StoreInv, StoreOnLine, Numbering
  <1>3. CASE Trust
    <2>1. PICK L \in LineSet : OnLine(rows, L)
      BY <1>3 DEF Trust, StoreInv, StoreOnLine
    <2>2. PICK n \in 1..Len(history) : IsCeiling(n) /\ rows[n] = history[n]
      BY <1>3 DEF Trust, CeilingAgrees
    <2>3. OnLine(rows, history)
      BY <1>0, <2>1, <2>2, CeilingDecides DEF IsCeiling
    <2>4. QED
      BY <1>3, <2>3, <1>0 DEF Trust, StoreInv, StoreOnLine, Numbering
  <1>4. CASE Move
    <2>1. OnLine(rows', history)
      BY <1>4, RenumberedOnLine DEF Move
    <2>2. QED
      BY <1>4, <2>1, <1>0 DEF Move, StoreInv, StoreOnLine, Numbering
  <1>5. CASE Mark
    BY <1>5, <1>0 DEF Mark, MarkAfterMove, StoreInv, StoreOnLine, Numbering
  <1>6. CASE ReadWindow
    <2>1. PICK update \in BOOLEAN : \E window \in Windows(update) :
             placing' = (window \cup Covered(window)) \ Held
      BY <1>6 DEF ReadWindow
    <2>2. \A window \in Windows(update) : window \subseteq 1..Len(history)
      BY DEF Windows
    <2>3. placing' \subseteq 1..Len(history)
      BY <2>1, <2>2 DEF Covered, From
    <2>4. QED
      BY <1>6, <2>3 DEF ReadWindow, StoreInv, StoreOnLine, Numbering
  <1>7. CASE Place
    <2>1. OnLine(rows, history) /\ placing \subseteq 1..Len(history)
      BY <1>7 DEF Place, StoreInv, Numbering
    <2>2. OnLine(rows', history)
      BY <1>7, <2>1 DEF Place, OnLine
    <2>3. QED
      BY <1>7, <2>2, <1>0 DEF Place, StoreInv, StoreOnLine, Numbering
  <1>8. CASE RebuildDies
    BY <1>8 DEF RebuildDies, StoreInv, StoreOnLine, Numbering
  <1>9. CASE BranchMoves
    BY <1>9 DEF BranchMoves, StoreInv, StoreOnLine, Numbering
  <1>10. CASE Recreated
    BY <1>10 DEF Recreated, StoreInv, StoreOnLine, Numbering
  <1>11. CASE UNCHANGED storeVars
    BY <1>11 DEF storeVars, StoreInv, StoreOnLine, Numbering, OnLine
  <1>12. QED
    BY <1>1, <1>2, <1>3, <1>4, <1>5, <1>6, <1>7, <1>8, <1>9, <1>10, <1>11 DEF StoreNext

(* StoreOnLine and Trusted, invariants of the run Services: whatever line the
   branch is on next and wherever a rebuild dies, a marked store is on one
   line, and the answer of reconcile is true of every row.                    *)
THEOREM StoreIsOnLine == StoreSpec => []StoreOnLine
  <1>1. StoreInv => StoreOnLine
    BY DEF StoreInv
  <1>2. QED
    BY StoreStart, StoreStep, <1>1, PTL DEF StoreSpec

THEOREM TrustIsEarned == StoreSpec => []Trusted
  <1>1. StoreInv => Trusted
    BY DEF StoreInv, Trusted, Numbering
  <1>2. QED
    BY StoreStart, StoreStep, <1>1, PTL DEF StoreSpec

(* The window a rebuild reads, with what lies between it and the store, meets
   the store and goes up to the tip.                                         *)
LEMMA WindowMeets == StoreInv /\ ReadWindow => NoHole'
  <1> SUFFICES ASSUME StoreInv, ReadWindow PROVE NoHole'
    OBVIOUS
  <1>1. PICK update \in BOOLEAN : \E window \in Windows(update) :
           placing' = (window \cup Covered(window)) \ Held
    BY DEF ReadWindow
  <1>2. PICK window \in Windows(update) : placing' = (window \cup Covered(window)) \ Held
    BY <1>1
  <1>3. window \subseteq 1..Len(history) /\ Len(history) \in Nat
    BY LineFacts DEF Windows, StoreInv
  <1>4. OnLine(rows, history) /\ rows' = rows /\ history' = history
    BY DEF ReadWindow, StoreInv, Numbering
  <1>5. DOMAIN rows \subseteq Held
    BY <1>4 DEF Held, Stored, OnLine
  <1>6. Held \subseteq DOMAIN rows
    <2> SUFFICES ASSUME NEW n \in Held PROVE n \in DOMAIN rows
      OBVIOUS
    <2>1. PICK k \in DOMAIN rows : n \in 1..Len(history) /\ history[n] = rows[k]
      BY DEF Held, Stored
    <2>2. k \in 1..Len(history) /\ history[k] = history[n]
      BY <1>4, <2>1 DEF OnLine
    <2>3. QED
      BY <2>1, <2>2, LineFacts DEF StoreInv
  <1>7. ASSUME NEW n \in DOMAIN rows \cup placing' PROVE n..Len(history) \subseteq DOMAIN rows \cup placing'
    <2> SUFFICES ASSUME NEW k \in n..Len(history) PROVE k \in DOMAIN rows \cup placing'
      OBVIOUS
    <2>1. PICK low \in window \cup DOMAIN rows : low <= n /\ low \in 1..Len(history) /\ n \in 1..Len(history)
      <3>1. CASE n \in window \cup DOMAIN rows
        <4>1. n \in 1..Len(history)
          BY <3>1, <1>3, <1>4 DEF OnLine
        <4>2. n <= n
          BY <4>1
        <4>3. QED
          BY <3>1, <4>1, <4>2
      <3>2. CASE n \in Covered(window)
        BY <3>2, <1>3, <1>4 DEF Covered, From, OnLine
      <3>3. QED
        BY <1>2, <3>1, <3>2
    <2>2. k \in 1..Len(history) /\ low <= k
      BY <1>3, <2>1
    <2>3. k \in Covered(window)
      BY <2>1, <2>2 DEF Covered, From
    <2>4. QED
      BY <1>2, <1>6, <2>3
  <1>8. placing' \cap DOMAIN rows = {}
    BY <1>2, <1>5
  <1>9. QED
    BY <1>4, <1>7, <1>8 DEF NoHole

(* NoHole, an invariant of the run Services: what a run is to place joins the
   window to the store and the store to the tip, and collides with no row.    *)
THEOREM NoHoleIsLeft == StoreSpec => []NoHole
  <1>1. StoreInit => NoHole
    BY DEF StoreInit, NoHole
  <1>2. StoreInv /\ NoHole /\ [StoreNext]_storeVars => NoHole'
    <2> SUFFICES ASSUME StoreInv, NoHole, [StoreNext]_storeVars PROVE NoHole'
      OBVIOUS
    <2>1. CASE ReadWindow
      BY <2>1, WindowMeets
    <2>2. CASE step' # "read"
      BY <2>2 DEF NoHole
    <2>3. CASE UNCHANGED <<rows, step, history, placing>>
      BY <2>3 DEF NoHole
    <2>4. QED
      BY <2>1, <2>2, <2>3 DEF StoreNext, storeVars, Walk, ReconcileEmpty, Trust, Move, Mark,
            MarkAfterMove, Place, RebuildDies, BranchMoves, Recreated
  <1>3. QED
    BY StoreStart, StoreStep, <1>1, <1>2, PTL DEF StoreSpec
=============================================================================
