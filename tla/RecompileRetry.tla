----------------------------- MODULE RecompileRetry -----------------------------
(***************************************************************************)
(* `adtai recompile` (recompile/runner.py): every object once, in the order   *)
(* the dictionary gives, then the ones that failed again on a new connection, *)
(* each pass against the order of the one before, until a pass resolves       *)
(* nothing.                                                                  *)
(***************************************************************************)
EXTENDS Naturals, Sequences, SequencesExt

CONSTANTS Todo,      \* the objects to compile, as the dictionary orders them
          Graphs     \* what an object depends on: the schemas to look at

Compiled == {Todo[i] : i \in 1..Len(Todo)}
ASSUME RecompileAssumption ==
    Todo \in Seq(Compiled) /\ Graphs \subseteq [Compiled -> SUBSET Compiled]

VARIABLES schema,     \* what depends on what, what can never compile, what fails in silence
          invalid,    \* the objects the database holds invalid
          pass,       \* the list being swept, its place in it, and what failed so far
          sweep       \* which loop the run is in
recompileVars == <<schema, invalid, pass, sweep>>

RecompileTypeOK ==
    /\ schema \in [needs : Graphs, broken : SUBSET Compiled, silent : SUBSET Compiled]
    /\ invalid \subseteq Compiled
    /\ pass \in [todo : Seq(Compiled), failed : Seq(Compiled), size : 0..Len(Todo)]
    /\ sweep \in {"first", "retry", "done", "lost"}

RecompileInit ==
    /\ schema \in [needs : Graphs, broken : SUBSET Compiled, silent : SUBSET Compiled]
    /\ invalid = Compiled
    /\ pass = [todo |-> Todo, failed |-> <<>>, size |-> Len(Todo)]
    /\ sweep = "first"

-----------------------------------------------------------------------------
(* The statement fails for what is broken and for what needs an invalid
   object.  A driver may answer such a compile with a warning and raise
   nothing, and then the object is no troublemaker.                          *)
Compiles(o) == o \notin schema.broken /\ schema.needs[o] \cap invalid = {}

Compile ==
    /\ sweep \in {"first", "retry"} /\ pass.todo # <<>>
    /\ LET o == Head(pass.todo)
       IN /\ invalid' = IF Compiles(o) THEN invalid \ {o} ELSE invalid \cup {o}
          /\ pass' = [pass EXCEPT !.todo = Tail(@),
                        !.failed = IF Compiles(o) \/ o \in schema.silent THEN @ ELSE Append(@, o)]
    /\ UNCHANGED <<schema, sweep>>

(* The list of the next pass; its end when none was resolved by this one, or
   none is left.                                                             *)
MutantMore == sweep = "first" /\ pass.failed # <<>>
More == pass.failed # <<>> /\ (sweep = "first" \/ Len(pass.failed) # pass.size)
EndOfPass ==
    /\ sweep \in {"first", "retry"} /\ pass.todo = <<>>
    /\ IF More THEN /\ sweep' = "retry"
                    /\ pass' = [todo |-> Reverse(pass.failed), failed |-> <<>>, size |-> Len(pass.failed)]
               ELSE sweep' = "done" /\ UNCHANGED pass
    /\ UNCHANGED <<schema, invalid>>

(* fatal_error: a lost session ends the run.                                 *)
SessionLost ==
    /\ sweep \in {"first", "retry"} /\ pass.todo # <<>>
    /\ sweep' = "lost"
    /\ UNCHANGED <<schema, invalid, pass>>

RecompileNext == Compile \/ EndOfPass \/ SessionLost
RecompileSpec == RecompileInit /\ [][RecompileNext]_recompileVars

-----------------------------------------------------------------------------
(* When the run ends no object it retried is left that one more compile would
   make valid, in whatever order the objects depend on each other, also where
   they cross, form a ring, or fail for good: the report blames the schema and
   not the order it was compiled in.                                         *)
FixpointReached ==
    sweep = "done" => \A i \in 1..Len(pass.failed) : ~Compiles(pass.failed[i])
=============================================================================
