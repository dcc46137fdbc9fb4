---------------------------- MODULE DependencyMirror ----------------------------
(***************************************************************************)
(* The mirror of one schema's dictionary that `rebuild` keeps in             *)
(* dependencies.db (dependencies/runner.py, refresh.py): which objects are    *)
(* there and when each was last changed, what a view depends on, and which    *)
(* tables a table's foreign keys point to.  The dictionary is read table by   *)
(* table while the schema goes on changing, and only the objects whose        *)
(* LAST_DDL_TIME moved are reloaded.                                          *)
(***************************************************************************)
EXTENDS Naturals

CONSTANTS Tables, Views,   \* the objects the schema may have
          MaxDdl,          \* bound: changes made to the schema
          MaxSeconds       \* bound: the clock LAST_DDL_TIME is read from

ASSUME MirrorAssumption == Tables \cap Views = {} /\ MaxDdl \in Nat /\ MaxSeconds \in Nat \ {0}

VARIABLES dict,      \* the dictionary: when an object was changed, and its rows
          mirror,    \* the store
          reading,   \* the refresh: where it is, and what it has read
          clock, changes,
          quiet,     \* history: the schema stood still since the refresh began
          twice,     \* history: objects changed twice within one second
          severed,   \* history: rows of views that went with the object referred to
          unlisted   \* history: objects rows were stored of, but not they or their key
mirrorVars == <<dict, mirror, reading, clock, changes, quiet, twice, severed, unlisted>>

Objects == Tables \cup Views
Reference == Objects \X Objects  \* an object, and one it refers to
OwnKey(t) == <<t, t>>            \* the constraint the foreign keys to a table refer to
NoObject == 0                    \* no LAST_DDL_TIME: the object is not there
Present == {o \in Objects : dict.ddl[o] # NoObject}
Listed(m) == {o \in Objects : m.ddl[o] # NoObject}
DependenciesOf(rows) == {row \in rows : row[1] \in Views}
ConstraintsOf(rows) == {row \in rows : row[1] \in Tables}

Mirrors == [ddl : [Objects -> 0..MaxSeconds], rows : SUBSET Reference]
MirrorTypeOK ==
    /\ dict \in Mirrors /\ mirror \in Mirrors
    /\ reading \in [at : {"idle", "objects", "dependencies", "constraints"},
                    mode : {"changed", "force", "deep"}, named : SUBSET Objects, seen : Mirrors]
    /\ clock \in 1..MaxSeconds /\ changes \in 0..MaxDdl
    /\ quiet \in BOOLEAN /\ twice \subseteq Objects /\ severed \subseteq Reference /\ unlisted \subseteq Objects

Empty == [ddl |-> [o \in Objects |-> NoObject], rows |-> {}]
MirrorInit ==
    /\ dict = Empty /\ mirror = Empty /\ clock = 1 /\ changes = 0
    /\ quiet = TRUE /\ twice = {} /\ severed = {} /\ unlisted = {}
    /\ reading = [at |-> "idle", mode |-> "changed", named |-> {}, seen |-> Empty]

-----------------------------------------------------------------------------
(* The schema, which is the database's.  A change may drop a table's key with
   the foreign keys that point to it and make it again; a dropped table takes
   them with it.                                                             *)
Changed(o) ==
    /\ changes < MaxDdl /\ changes' = changes + 1
    /\ quiet' = FALSE
    /\ twice' = IF dict.ddl[o] = clock THEN twice \cup {o} ELSE twice
    /\ UNCHANGED <<mirror, reading, clock, unlisted>>
Severed(o, rows) == severed' = {row \in severed : row[1] # o} \cup rows

Ddl(o) ==
    /\ Changed(o) /\ Severed(o, {})
    /\ \E refs \in SUBSET ((IF o \in Tables THEN Present \cap Tables ELSE Present) \ {o}) :
       \E cut \in {{}, {row \in dict.rows : row[1] \in Tables /\ row[2] = o}} :
          dict' = [ddl |-> [dict.ddl EXCEPT ![o] = clock],
                   rows |-> {row \in dict.rows \ cut : row[1] # o}
                            \cup {<<o, r>> : r \in refs} \cup {OwnKey(t) : t \in {o} \cap Tables}]

DropObject(o) ==
    /\ o \in Present /\ Changed(o)
    /\ Severed(o, {row \in DependenciesOf(dict.rows) : row[2] = o})
    /\ dict' = [ddl |-> [dict.ddl EXCEPT ![o] = NoObject],
                rows |-> {row \in dict.rows : row[1] # o /\ row[2] # o}]

ClockTicks ==
    /\ clock < MaxSeconds /\ clock' = clock + 1
    /\ UNCHANGED <<dict, mirror, reading, changes, quiet, twice, severed, unlisted>>

-----------------------------------------------------------------------------
(* DependencyIndexRunner.refresh, a schema's half: one query after another.   *)
NotTheSchema == UNCHANGED <<dict, clock, changes, twice, severed>>

ReadObjects ==
    /\ reading.at = "idle"
    /\ \E mode \in {"changed", "force", "deep"} :
       \E named \in (IF mode = "deep" THEN {{o} : o \in Objects} ELSE {Objects}) :
          reading' = [at |-> "objects", mode |-> mode, named |-> named,
                      seen |-> [ddl |-> [o \in Objects |-> IF o \in named THEN dict.ddl[o] ELSE NoObject],
                                rows |-> {}]]
    /\ quiet' = TRUE
    /\ UNCHANGED <<mirror, unlisted>> /\ NotTheSchema

Near(rows) == {row \in rows : row[1] \in reading.named \/ row[2] \in reading.named}
ReadRows(from, to, rows) ==
    /\ reading.at = from
    /\ reading' = [reading EXCEPT !.at = to, !.seen.rows = @ \cup Near(rows)]
    /\ UNCHANGED <<mirror, quiet, unlisted>> /\ NotTheSchema
ReadDependencies == ReadRows("objects", "dependencies", DependenciesOf(dict.rows))
ReadConstraints == ReadRows("dependencies", "constraints", ConstraintsOf(dict.rows))

-----------------------------------------------------------------------------
(* refresh_schema_incremental and its force branch, and refresh_schema_deep:
   a transaction each.                                                       *)
Fresh(seen) == {o \in Listed(seen) : seen.ddl[o] # mirror.ddl[o]}
Stale(seen) == Listed(mirror) \ Listed(seen)
MutantTouched(seen) == Fresh(seen)
Touched(seen) == Fresh(seen) \cup Stale(seen)

(* _delete_constraint_scope: with the constraints the store has of a table goes
   every foreign key that refers to one of them.                             *)
ReferringTo(who) == {row \in ConstraintsOf(mirror.rows) :
                        row[2] \in who /\ OwnKey(row[2]) \in mirror.rows}
Own(who) == {row \in mirror.rows : row[1] \in who}
DependingOn(who) == {row \in DependenciesOf(mirror.rows) : row[2] \in who}

Patched(seen) ==
    [ddl |-> [o \in Objects |-> IF o \in Touched(seen) THEN seen.ddl[o] ELSE mirror.ddl[o]],
     rows |-> (mirror.rows \ (Own(Touched(seen)) \cup ReferringTo(Touched(seen))
                              \cup DependingOn(Stale(seen))))
              \cup {row \in seen.rows : row[1] \in Fresh(seen)}]

Replaced(seen, named) ==
    [ddl |-> [o \in Objects |-> IF o \in named THEN seen.ddl[o] ELSE mirror.ddl[o]],
     rows |-> (mirror.rows \ (Own(named) \cup ReferringTo(named) \cup DependingOn(named)))
              \cup seen.rows]

(* What the store has rows of, but not it, or not the key they refer to.     *)
Unlisted(m) ==
    ((UNION {{row[1], row[2]} : row \in m.rows}) \ Listed(m))
    \cup {t \in Objects : OwnKey(t) \notin m.rows /\ \E row \in ConstraintsOf(m.rows) : row[2] = t}

Refreshed ==
    /\ reading.at = "constraints"
    /\ mirror' = CASE reading.mode = "changed" -> Patched(reading.seen)
                   [] reading.mode = "force" -> reading.seen
                   [] OTHER -> Replaced(reading.seen, reading.named)
    /\ unlisted' = (IF reading.mode = "force" THEN {} ELSE unlisted) \cup Unlisted(mirror')
    /\ reading' = [reading EXCEPT !.at = "idle"]
    /\ UNCHANGED quiet /\ NotTheSchema

(* A query failed, or the run was stopped: nothing was written.              *)
RefreshStops ==
    /\ reading.at # "idle"
    /\ reading' = [reading EXCEPT !.at = "idle", !.mode = "deep", !.named = {}]
    /\ UNCHANGED <<mirror, quiet, unlisted>> /\ NotTheSchema

MirrorNext ==
    \/ \E o \in Objects : Ddl(o) \/ DropObject(o)
    \/ ClockTicks
    \/ ReadObjects \/ ReadDependencies \/ ReadConstraints \/ Refreshed \/ RefreshStops
MirrorSpec == MirrorInit /\ [][MirrorNext]_mirrorVars

-----------------------------------------------------------------------------
CaughtUp == reading.at = "idle" /\ quiet /\ reading.named = Objects
Sure == Objects \ twice

(* A refresh of the schema during which nothing changed leaves the mirror
   right, whatever changed in the middle of the refreshes before it: every
   object with its time, every row of a view, and no row that is not in the
   dictionary.  Three things stay out: a change in the second of one already
   read, which no LAST_DDL_TIME shows; the rows a refresh of one object
   brought in of another that the mirror does not list, or lists without the
   key they refer to, as when that one was dropped between two of the queries
   that read it; and what a view has lost with an object that was dropped and
   made again between two refreshes, for neither LAST_DDL_TIME tells of it.  *)
MirrorCatchesUp ==
    CaughtUp =>
        /\ mirror.ddl = dict.ddl
        /\ {row \in DependenciesOf(dict.rows) : row[1] \in Sure} \subseteq mirror.rows
        /\ \A row \in mirror.rows : {row[1], row[2]} \subseteq Sure \ unlisted => row \in dict.rows \cup severed

(* docs/rebuild.md: "unchanged rows are left alone".  A foreign key of a table
   that was not changed outlives the refresh that saw its parent changed.    *)
UnchangedLeftAlone ==
    CaughtUp => \A row \in ConstraintsOf(dict.rows) :
                    {row[1], row[2]} \subseteq Sure => row \in mirror.rows
=============================================================================
