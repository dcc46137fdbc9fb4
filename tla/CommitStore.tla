------------------------------ MODULE CommitStore ------------------------------
(***************************************************************************)
(* One branch's commit store (shared/commit_store.py) and the rebuild that  *)
(* fills it (rebuild/cache.py): every stored commit is numbered by its       *)
(* position on the branch's first-parent line, while the line grows, is      *)
(* rewritten, or shifts because a shallow clone was deepened, and while a    *)
(* rebuild may die between any two of its transactions.  One rebuild of a    *)
(* branch runs at a time.                                                    *)
(***************************************************************************)
EXTENDS Naturals, Sequences

CONSTANTS Commits,
          LineSet,      \* the lines the branch may have, oldest commit first
          Merges,       \* the merge commits among them
          OldStores     \* what a store numbered before first-parent may hold

Numbers == UNION {DOMAIN L : L \in LineSet}
CommitTables == UNION {[N -> Commits] : N \in SUBSET Numbers}

(* A commit's id fixes the commits below it: two lines that share a commit
   are the same below it, as far down as both of them go, and no line has a
   commit twice.                                                             *)
ASSUME LineAssumption ==
    /\ LineSet \subseteq Seq(Commits) /\ OldStores \subseteq CommitTables
    /\ \A L \in LineSet : L # <<>> /\ \A i, k \in 1..Len(L) : L[i] = L[k] => i = k
    /\ \A L, M \in LineSet : \A i \in 1..Len(L) : i <= Len(M) /\ L[i] = M[i] =>
          \A k \in 1..i : L[k] = M[k]

VARIABLES line,      \* the branch now
          rows,      \* the table `commits`: number -> commit
          marked,    \* `_meta` says first-parent numbering
          step,      \* where the rebuild is
          history,   \* the line it walked when it began
          placing    \* the positions it read and is to place
storeVars == <<line, rows, marked, step, history, placing>>

NoRows == [n \in {} |-> n]
Stored == {rows[n] : n \in DOMAIN rows}
IsCeiling(n) == n \in DOMAIN rows /\ \A k \in DOMAIN rows : k <= n
OnLine(R, L) == \A n \in DOMAIN R : n \in 1..Len(L) /\ R[n] = L[n]

StoreTypeOK ==
    /\ line \in LineSet /\ history \in LineSet /\ marked \in BOOLEAN
    /\ step \in {"idle", "walked", "moved", "numbered", "read"}
    /\ DOMAIN rows \subseteq Nat /\ placing \subseteq 1..Len(history)

StoreInit ==
    /\ line \in LineSet /\ history = line
    /\ step = "idle" /\ placing = {}
    /\ \/ rows = NoRows /\ marked = FALSE
       \/ rows \in OldStores /\ marked = FALSE

-----------------------------------------------------------------------------
(* CommitStore.                                                              *)

(* _ceiling_agrees: the one row that is read.                                *)
MutantCeilingFits == \E n \in 1..Len(history) : IsCeiling(n)
CeilingAgrees == \E n \in 1..Len(history) : IsCeiling(n) /\ rows[n] = history[n]

(* renumber, one transaction: what the line does not hold, or is to be
   forgotten, is dropped.                                                    *)
Renumbered(forget) ==
    [n \in {k \in 1..Len(history) : history[k] \in Stored \ forget} |-> history[n]]

Walk ==
    /\ step = "idle" /\ step' = "walked"
    /\ history' = line /\ placing' = {}
    /\ UNCHANGED <<line, rows, marked>>

(* The arms of reconcile, in its order.                                      *)
ReconcileEmpty ==
    /\ step = "walked" /\ DOMAIN rows = {}
    /\ marked' = TRUE /\ step' = "numbered"
    /\ UNCHANGED <<line, rows, history, placing>>

Trust ==
    /\ step = "walked" /\ DOMAIN rows # {}
    /\ marked /\ CeilingAgrees
    /\ step' = "numbered"
    /\ UNCHANGED <<line, rows, marked, history, placing>>

Move ==
    /\ step = "walked" /\ DOMAIN rows # {}
    /\ ~(marked /\ CeilingAgrees)
    /\ rows' = Renumbered(IF marked THEN {} ELSE Merges)
    /\ step' = IF marked THEN "numbered" ELSE "moved"
    /\ UNCHANGED <<line, marked, history, placing>>

(* The mark is a transaction of its own.                                     *)
MutantEarlyMark == step \in {"walked", "moved"} /\ step' = IF step = "walked" THEN "walked" ELSE "numbered"
MarkAfterMove == step = "moved" /\ step' = "numbered"
Mark ==
    /\ MarkAfterMove
    /\ marked' = TRUE
    /\ UNCHANGED <<line, rows, history, placing>>

-----------------------------------------------------------------------------
(* rebuild: the window, and the positions between it and the store.          *)
Held == {n \in 1..Len(history) : history[n] \in Stored}
From(places) == {n \in 1..Len(history) : \E k \in places : k <= n}

(* _gap_lines: from the lowest of the window's bottom and the store's floor. *)
MutantAboveCeiling(window) ==
    From(IF DOMAIN rows = {} THEN window ELSE {n \in DOMAIN rows : IsCeiling(n)})
Covered(window) == From(window \cup DOMAIN rows)

(* -update resumes behind the stored tip; a window given by a date may be any
   part of the line, for dates on a line need not ascend.                    *)
Windows(update) ==
    IF update /\ DOMAIN rows # {} THEN {{n \in 1..Len(history) : \A k \in DOMAIN rows : k < n}}
    ELSE SUBSET (1..Len(history))

ReadWindow ==
    /\ step = "numbered" /\ step' = "read"
    /\ \E update \in BOOLEAN : \E window \in Windows(update) :
          placing' = (window \cup Covered(window)) \ Held
    /\ UNCHANGED <<line, rows, marked, history>>

(* place, one transaction: `number` is the key.                              *)
Place ==
    /\ step = "read" /\ placing \cap DOMAIN rows = {}
    /\ rows' = [n \in DOMAIN rows \cup placing |-> IF n \in placing THEN history[n] ELSE rows[n]]
    /\ step' = "idle" /\ placing' = {}
    /\ UNCHANGED <<line, marked, history>>

(* A rebuild that is interrupted, or raises, between two transactions.       *)
RebuildDies ==
    /\ step # "idle" /\ step' = "idle" /\ placing' = {}
    /\ UNCHANGED <<line, rows, marked, history>>

-----------------------------------------------------------------------------
(* The branch moves whenever git moves it; an unreadable file is recreated.  *)
BranchMoves ==
    /\ line' \in LineSet /\ line' # line
    /\ UNCHANGED <<rows, marked, step, history, placing>>

Recreated ==
    /\ step = "idle" /\ rows' = NoRows /\ marked' = FALSE
    /\ UNCHANGED <<line, step, history, placing>>

StoreNext == \/ Walk \/ ReconcileEmpty \/ Trust \/ Move \/ Mark \/ ReadWindow \/ Place
             \/ RebuildDies \/ BranchMoves \/ Recreated
StoreSpec == StoreInit /\ [][StoreNext]_storeVars

-----------------------------------------------------------------------------
(* A store that says it is numbered by first parent holds the positions of
   one line the branch had, whatever crashed in between: the mark is never on
   a store that still has, or has half lost, its older numbers.              *)
StoreOnLine == marked => \E L \in LineSet : OnLine(rows, L)

(* What reconcile answered for is true: every row is its commit's position on
   the line just walked, although the store may have been trusted on the one
   row that was read.                                                        *)
Trusted == step \in {"numbered", "read"} => OnLine(rows, history)

(* What verify relies on: once a run has placed what it read there is no hole
   between the floor and the tip, whatever the window, and nothing it places
   collides with a row.                                                      *)
NoHole ==
    step = "read" =>
        /\ placing \cap DOMAIN rows = {}
        /\ \A n \in DOMAIN rows \cup placing : n..Len(history) \subseteq DOMAIN rows \cup placing
=============================================================================
