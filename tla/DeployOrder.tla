------------------------------ MODULE DeployOrder ------------------------------
(***************************************************************************)
(* A patch folder and the order its install scripts deploy in:             *)
(*   - `-create` writes the scripts and DEPLOY.sql (patch/deploy_driver),   *)
(*   - a person edits either between the runs,                             *)
(*   - `-deploy` reads the order back or refuses, and slots every           *)
(*     application's import between its halves (patch/deploy_sequence).     *)
(***************************************************************************)
EXTENDS DeploySequence

CONSTANTS Builds,    \* the sets of scripts a build of this patch may generate
          Exported,  \* applications whose tree was exported
          Stray,     \* a line of DEPLOY.sql that links no script
          MaxHandEdits  \* hand edits considered (a bound, not a fact of the code)

VARIABLES scripts,   \* the install scripts in the folder
          driver,    \* the lines of DEPLOY.sql, <<>> when there is none
          handEdits

orderVars == <<scripts, driver, handEdits>>

PatchScripts == UNION Builds

ASSUME OrderAssumption ==
    /\ \A S \in Builds : S # {} /\ S \subseteq InstallScripts /\ IsFiniteSet(S)
    /\ Exported \subseteq Nat \ {Schema} /\ Stray \notin PatchScripts /\ MaxHandEdits \in Nat

OrderTypeOK ==
    /\ scripts \subseteq PatchScripts
    /\ driver \in Seq(PatchScripts \cup {Stray})
    /\ handEdits \in 0..MaxHandEdits

-----------------------------------------------------------------------------
Ahead(lines, s, t) == \E i, j \in DOMAIN lines : i < j /\ lines[i] = s /\ lines[j] = t

MutantKeptLines(lines, S) == SelectSeq(lines, LAMBDA l : l \in S)

(* The first line of each script that is still generated, in their order.     *)
Firsts(lines, S) == {i \in DOMAIN lines : lines[i] \in S /\ \A j \in 1..(i - 1) : lines[j] # lines[i]}
Kept(lines, S) ==
    LET firsts == Firsts(lines, S)
        inOrder == Ranked({<<i, Cardinality({j \in firsts : j < i})>> : i \in firsts})
    IN [k \in DOMAIN inOrder |-> lines[inOrder[k]]]

MutantDefault(default, kept) == default
MutantAppended(default, kept) == kept \o SelectSeq(default, LAMBDA s : ~Contains(kept, s))

(* Walks the default order: a new script is emitted where it stands, a kept
   one after every kept script still pending ahead of it.                    *)
Emit(kept, state, s) ==
    IF ~Contains(kept, s) THEN [state EXCEPT !.merged = Append(@, s)]
    ELSE IF Contains(state.pending, s)
    THEN LET upto == SelectInSeq(state.pending, LAMBDA t : t = s)
         IN [merged |-> state.merged \o SubSeq(state.pending, 1, upto),
             pending |-> SubSeq(state.pending, upto + 1, Len(state.pending))]
    ELSE state
MergedOrder(default, kept) ==
    LET walk[n \in 0..Len(default)] ==
            IF n = 0 THEN [merged |-> <<>>, pending |-> kept]
            ELSE Emit(kept, walk[n - 1], default[n])
    IN walk[Len(default)].merged

WrittenDriver(lines, S, force) ==
    IF Cardinality(S) < 2 THEN <<>>
    ELSE IF lines # <<>> /\ ~force THEN MergedOrder(DefaultOrder(S), Kept(lines, S))
    ELSE DefaultOrder(S)

MutantDisagrees(lines, S) == lines # <<>> /\ ToSet(lines) # S

(* deploy_driver.deploy_order: DEPLOY.sql and the folder must agree.         *)
Disagrees(lines, S) ==
    /\ lines # <<>>
    /\ \/ S \ ToSet(lines) # {}
       \/ ToSet(lines) \ S # {}
       \/ \E i, j \in DOMAIN lines : i # j /\ lines[i] = lines[j]
DeployOrder(lines, S) == IF lines = <<>> THEN DefaultOrder(S) ELSE lines

-----------------------------------------------------------------------------
OrderInit == scripts = {} /\ driver = <<>> /\ handEdits = 0

(* build.py: whatever this build generates is on disk before the driver.     *)
Create(S, force) ==
    /\ UNCHANGED handEdits
    /\ scripts' = S /\ driver' = WrittenDriver(driver, S, force)

(* A person edits DEPLOY.sql, or the folder, by hand.                        *)
EditFolder == driver # <<>> /\ handEdits < MaxHandEdits /\ handEdits' = handEdits + 1
MoveLine == \E i, j \in DOMAIN driver :
    /\ EditFolder /\ i # j
    /\ driver' = InsertAt(RemoveAt(driver, i), j, driver[i])
    /\ UNCHANGED scripts
DeleteLine == \E i \in DOMAIN driver :
    EditFolder /\ driver' = RemoveAt(driver, i) /\ driver' # <<>> /\ UNCHANGED scripts
AddLine == \E l \in PatchScripts \cup {Stray}, i \in 1..(Len(driver) + 1) :
    EditFolder /\ driver' = InsertAt(driver, i, l) /\ UNCHANGED scripts
DeleteScript == \E s \in scripts :
    EditFolder /\ scripts' = scripts \ {s} /\ UNCHANGED driver

OrderNext == \/ \E S \in Builds, force \in BOOLEAN : Create(S, force)
             \/ MoveLine \/ DeleteLine \/ AddLine \/ DeleteScript
OrderSpec == OrderInit /\ [][OrderNext]_orderVars

-----------------------------------------------------------------------------
order == DeployOrder(driver, scripts)
plan == DeploymentSequence(order, Exported)
Deployable == scripts # {} /\ ~Disagrees(driver, scripts)

(* A deploy that is not refused runs every script of the folder exactly once,
   and imports every application of it that has a tree exactly once.         *)
EverythingOnce == Deployable =>
    LET steps == plan IN
    /\ \A s \in scripts : Cardinality({i \in DOMAIN order : order[i] = s}) = 1
    /\ Cardinality({i \in DOMAIN steps : steps[i].kind = "script"}) = Cardinality(scripts)
    /\ \A a \in {s.app : s \in scripts} \cap Exported :
          Cardinality({i \in DOMAIN steps : steps[i] = ImportRow(a)}) = 1

(* Wherever a person moved the lines, an application is imported right behind
   the last script that opens it, and ahead of an `end` half that stands behind
   what opens it.                                                            *)
ImportBetweenHalves == Deployable =>
    LET steps == plan IN
    \A i \in DOMAIN steps :
        LET a == steps[i].app
            mine == {k \in DOMAIN steps : steps[k].app = a /\ steps[k].kind = "script"}
            openers == {s \in scripts : s.app = a /\ s.stage # "end"}
        IN steps[i].kind = "import" /\ openers # {} =>
              /\ \E s \in openers : steps[i - 1] = Row(s)
              /\ \A k \in mine : k > i => steps[k].ends
              /\ \A t \in scripts :
                    t.app = a /\ t.stage = "end" /\ (\A s \in openers : Ahead(order, s, t))
                        => \E k \in mine : k > i /\ steps[k] = Row(t)

Recreates(force) == scripts' \in Builds /\ Create(scripts', force)

(* A re-create keeps the order a person gave the scripts still generated.    *)
OrderKept == [][Recreates(FALSE) =>
    \A kept \in {Kept(driver, scripts')} : \A s, t \in scripts' :
        Ahead(kept, s, t) => Ahead(driver', s, t) /\ ~Ahead(driver', t, s)]_orderVars

(* A new script lands ahead of every kept one the default order ranks behind
   it, unless a person moved that one ahead of a script ranked before it: so a
   schema script added later never runs behind an application pair.          *)
NewAtItsRank == [][Recreates(FALSE) =>
    \A kept \in {Kept(driver, scripts')} : \A n \in scripts' \ ToSet(kept), k \in ToSet(kept) :
        RunsBefore(n, k) /\ (\A m \in ToSet(kept) : RunsBefore(m, n) => Ahead(kept, m, k))
            => Ahead(DeployOrder(driver', scripts'), n, k)]_orderVars

(* Whatever state the folder was left in, a build deploys again.             *)
CreateRepairs == [][(Recreates(FALSE) \/ Recreates(TRUE)) => ~Disagrees(driver, scripts)']_orderVars
=============================================================================
