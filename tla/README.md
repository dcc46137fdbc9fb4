# Verification of ADT.ai

TLA+ specifications, TLC runs and TLAPS proofs for ADT.ai, the command line tool
that exports, patches and deploys Oracle APEX applications and database schemas.
The centre of the project is the deploy of a patch, `patch -deploy -app`: the one
command that writes to a shared database while other people work on it, and the
one whose mistakes are silent (work of a colleague imported over, an application
left shut, a tree imported onto a half-deployed schema).

## Inventory

| Part | State it keeps | Operations | What is hard | What makes it correct | Here |
|---|---|---|---|---|---|
| deploy run (`patch/deploy_run.py`, `apex_deploy.py`, `deploy_post.py`) | result rows, prepared items, backups, locks | prepare, run a script, import, post-deploy reads, scan, revert, result | every call to the database can fail, lose its answer or be interrupted; `-continue` | what ran and what did not is accounted for; SUCCESS means verified; no import behind an error | `PatchDeploy` |
| application lock (`apex_lock.py`, `apex_app_lock.py`, `apex_page_lock.py`) | the ledger of held applications; on the target: build status, application lock, page locks | take, refuse, fall back, release early, release in the `finally` | a fault between the call and the ledger, somebody else's lock, three kinds of lock on three kinds of release | what the run shut is open again; a developer's own lock comes back | `PatchDeploy`, `DeployHold` |
| drift gate (`apex_signature.py`) | the signature an item passed the gate with | read, compare, refuse | the lock's own write moves the checksum; developers save meanwhile | no unseen work is imported over | `PatchDeploy` |
| backup and revert (`apex_backup.py`) | `backup_<ENV>/f<app>.sql`, the backups of this run | keep, reuse, restore, prove | the file outlives the run; a revert is an import | the way back is never lost | `PatchDeploy` |
| scan (`apex_scan.py`) | reports | choose, scan, judge | partial failure of one application | a verdict for whatever landed | `PatchDeploy` |
| order (`deploy_driver.py`, `deploy_sequence.py`, `build.py`) | scripts of a folder, `DEPLOY.sql` | create, re-create, hand edits, read or refuse, slot the imports | edits by a person between two builds | everything once, imports between halves, a person's order kept | `DeployOrder`, `DeploySequence` |
| target (external) | content, build status, locks of each application; Builder sessions | developers enter, save, lock, leave; an import resets | runs concurrently with all of the above | - | `ApexTarget` |
| build (`build.py`, `create.py`, `table_diff.py`, ...) | patch folder, snapshots | `-create` and its flags | mostly text | a rebuilt folder deploys | its driver and its receipt: `DeployOrder`, `HashBaseline` |
| hash baseline (`hashes.py`, `baseline_advance.py`, `cli/patch_hash_mode.py`, `cli/export_db_baseline.py`) | `baseline.<ENV>.log`, the folder's `hashes.log` | snapshot, measure, diff, receipt, advance after a deploy | three writers of one file; scripts that fail, are continued past or half land; reverts | a line is what the target holds, so the next patch ships what it lacks | `HashBaseline`, `BaselineAdvance` |
| driven SQLcl (`shared/sqlcl_session.py`, `sqlcl_request_session.py`, `sqlcl_console.py`) | console, line queue, reader thread, counter, root | start, connect, exchange, time out, restart, close | two threads and a process; late output; a reader that outlives its console | an answer belongs to its request, no process is left behind, an end is noticed | `SqlclSession` |
| commit store (`shared/commit_store.py`, `rebuild/cache.py`) | numbered commits in SQLite, numbering mark | reconcile, renumber, mark, place | rewritten branches, a crash between transactions | numbers are positions on the branch, without a hole | `CommitStore` |
| SQLcl upgrade (`doctor/upgrade.py`) | live folder, backup, staging | stage, promote, roll back | a move that fails half way, an interrupt | an install survives | `SqlclUpgrade` |
| dependency mirror (`dependencies/refresh.py`, `runner.py`) | objects and rows of a schema in SQLite | refresh what changed, force, one object | the schema changes between two queries | a quiet refresh leaves it right | `DependencyMirror` |
| recompile (`recompile/runner.py`) | the objects that failed | a first pass, retry passes | objects that cross or form a ring | stops where no pass would help | `RecompileRetry` |
| live upload (`live_upload/`) | time stamps of the files seen | scan, upload, minify | an editor between any two steps; it writes where it watches | APEX serves the folder | `LiveUpload` |
| `export_db` (`export_db/`, `shared/recent_state.py`) | files; watermark, refused objects, job signatures | list, choose, write, record | the schema changes meanwhile; narrowed runs; a refused object; a stop between two saves | the next `-recent` lists whatever no file holds | `ExportRecent` |
| gateways (`cli/gateways.py`, `shared/db.py`) | open connections of a command | track, close | - | each connection closed | not modelled |
| managed git blocks (`shared/git_meta_sync.py`) | `.gitignore`, `.gitattributes` | merge a block | idempotence | a person's lines survive | not modelled |
| other `shared`, `cli` | configuration, caches, output | parse, render | - | - | not modelled |
| `export_apex`, `export_data` | exported files, watermarks | read the dictionary, write files | - | - | not modelled, save what `export_apex` records for the drift gate |
| `search`, `diff`, `validate`, `ut`, `flow`, `calendar`, `discovery`, `connection` | caches and reports | read and report | - | - | not modelled |

How the parts of a deploy interact: `run_deployment` reads the plan
(`deployment_plan`, hence `DEPLOY.sql`), opens the lock's `with`
(`build_status_lock`), and inside it calls `prepare_apex_imports`, which locks each
application and passes it through the gate; then walks the sequence; then scans,
calling back `revert()` for each report, which reverts and releases. All of them
share one mutable dict, the lock ledger, filled by `hold_application`, emptied by
`EarlyRelease` and swept by the `finally`. Nothing else remembers what the run has
put on the target, which is why the ledger is what the proofs are about.

The services around a deploy share no state with it or with each other while they
run: the SQLcl session is what a gateway asks through, the commit store what `-create`
reads the branch from, the dependency mirror what it orders objects by, the baseline
what a hash build compares with. Three things do cross. A deploy hands its rows,
verdicts and reverts to the baseline (`BaselineAdvance` reads them off a `PatchDeploy`
run); two deploys meet on one application (`ConcurrentDeploys`); and the patch folder
carries a build's receipt to the deploy (`HashBaseline`).

The hazards are listed, each at its line, in `PROJECT.json`.

## Modules

| Module | What it is |
|---|---|
| `ApexTarget` | the target and the developers on it; all external |
| `PatchDeploy` | a deploy run, EXTENDS `ApexTarget`; its properties |
| `PatchDeployInvariant` | the inductive invariants of a run |
| `PatchDeployProofs` | the theorems about its rows, its ledger and its backups |
| `PatchDeployGuarantees` | the theorems about what a run promises: statuses, locks, the gate, the verdict, the baseline, `DeployHold` |
| `DeployHold` | what a deploy promises about the applications it shuts, as a specification of its own |
| `DeploySequence` | the default order of scripts and the sequence of scripts and imports, as operators |
| `DeployOrder`, `DeployOrderProofs` | a patch folder, its builds, its hand edits and what a deploy makes of it |
| `BaselineAdvance` | what a finished run of `PatchDeploy` may write into the baseline, EXTENDS it |
| `ConcurrentDeploys`, `ConcurrentDeploysProofs` | several runs on one application: the lock's calls and nothing else |
| `HashBaseline`, `HashBaselineProofs` | the working tree, the target's schemas, the baseline and the patch folder |
| `SqlclSession`, `SqlclSessionProofs` | foreground, reader threads, consoles, SQLcl, for both transports |
| `CommitStore`, `CommitStoreProofs` | a branch that moves and the store that numbers it |
| `DependencyMirror` | a schema that changes and the refreshes of its mirror |
| `RecompileRetry` | the passes of `recompile` |
| `SqlclUpgrade` | promotion of a new SQLcl and its roll-back |
| `LiveUpload` | the watch of a folder of static files |
| `ExportRecent` | an export of a schema that changes, and what it keeps for the next `-recent` |
| `WorkstationProofs` | the theorems about `ExportRecent`, `LiveUpload`, `SqlclUpgrade`, `DependencyMirror` and `RecompileRetry` |
| `MCPatchDeploy`, `MCPatchFolder`, `MCExportRecent`, `MCServices` | instances for TLC; `MCPatchFolder` composes `DeployOrder` with deploys of the folder |

`MCPatchDeploy` takes its rows from `DeploySequence`: an ASSUME there checks that the
sequences `PatchDeploy` is run on are those the code makes of such patches.

### How PatchDeploy reads against the code

`pc` is the place in the code: `next` the head of the loop of
`prepare_apex_imports`; `read_status` ... `set_status` the calls of `lock_target`,
one to a step, because a developer or a fault can come between any two; `record`
the line `locks[app_id] = lock`; `gate` the verdict; `steps` the head of the deploy
loop and `import` an open import row; `post`, `scan`, `revert` the rest of the body;
`releasing`, `rel_status`, `rel_lock`, `rel_record` a `release_target` with the
`EarlyRelease` around it; `finally` the `finally`; `done` the end of the process and
`dead` its death. `ret` says where a release returns to: the scan, or the end.

`locks` is the ledger and `pend` the `BuildStatusLock` a function has in hand and
the ledger does not. An entry's `kind` says what was taken: build status, application
lock or page locks. `found`, `spoiled`, `gap` and `lost` are history: the target as
the run found it, the applications whose lock call was lost to a fault, the Builder
sessions that were open before the lock was on, and the applications imported over
a state the gate never saw. No guard of the tool reads them.

A configuration `cfg` is the flags and keys of a run: `deploy_build_status`,
`patch_apex_build_status` for the target, `-force`, `-continue`, whether a developer
is named, whether the tree was exported on another environment, `deploy_verify_scan`,
`deploy_revert_on_scan_failure`. A content is one of a few states that the
properties tell apart, and the checksum is the pair of content and build status,
because the code's own measurement is that a status write moves it.

The target's three releases are the three paths of `take_app_lock`: `native` (26.2,
an import keeps the application lock), `page_locks` (older, and the schema may call
the page lock package) and `plain` (older without it).

Faults are counted in `faults`: a call that fails, a call that lands and whose answer
is lost, a KeyboardInterrupt or an uncaught exception in the body (`Interrupt`), a
kill or an exception inside the `finally` (`Kill`). Failures that are outcomes of
the target and not of the connection (a script that errors, a failed import, a
failed verdict, a refused gate) are not counted and may happen at any time.

### How DeployOrder reads against the code

A script is a record of schema, application and stage; its file name is never looked
at apart from these. `DEPLOY.sql` is the sequence of its lines, `Stray` a line that
links nothing, `<<>>` no file. `Create` is `write_deploy_driver` as `build.py` calls it,
with the folder's scripts replaced by what the build generates; `MoveLine`,
`DeleteLine`, `AddLine`, `DeleteScript` are a person, `EditFolder` what they share. `Disagrees` is the refusal of
`deploy_order`, `DeployOrder` what it answers otherwise.

The operators are written to be reasoned about. `Ranked` is the sort: a set whose elements
are numbered by how many of it run before them, as a sequence in that order; the prover
cannot expand `SortSeq` or `SelectSeq`. `default_order` is `Ranked` by
`_deployment_order_key`, `Kept` (the `dict.fromkeys` of the lines still generated) by first
line. `MergedOrder` is the loop of `_merged_order` as a recursive function, `Emit` its body.
`DeploymentSequence` gives every row of the loops of `deployment_sequence` a place, a script
its position and an import the position of its `Slot` or one behind the last, and reads the
rows off in the order of the places; `PlacesAreTheLoops`, an ASSUME of `MCPatchFolder`,
compares it with the loops written as they stand, for every order of every patch of the run
and every set of exported trees.

### How SqlclSession reads against the code

`consoles` holds every console the session opened, also those it gave up: the join of
a reader is bounded (`PUMP_JOIN_SECONDS`), so a reader may still be pumping a console
nobody names. `console` is `_console`, and each record has its own `queue`, because
`_pump` binds the queue once. `fg.at` is the foreground: `prompt` is `_await_prompt`;
`connect`, `prelude` and `ask` are `_collect` for the three bodies sent. A line is its
kind and the statement it was printed for; what the code compares (the prompt, the
sentinel's number, `Not connected`, the end marker `None`) is what the model compares.
`transport` chooses the class: `session` is `SqlclSession`, which connects and retries
once with a registration from the file, `request` is `SqlclRequestSession`, whose
process belongs to a project root and whose script may end it and be judged by the exit
code. `Boot`, `Execute`, `PrintMarker`, `Exit`, `Die` are SQLcl, which owes nothing.
`TimedOut` may happen at any read; no property counts on it. `cut` is history: the
console got an interrupt while a statement was in it.

### How the other services read against the code

- `CommitStore`: one action for each transaction and each walk of the branch. `Trust`,
  `Move`, `ReconcileEmpty` and `Mark` are the arms of `reconcile`; `ReadWindow` takes any
  window a date, a limit or `-update` can give and adds `_gap_lines`; `Place` is the
  insert. `RebuildDies` is an interrupt or an error between any two, `Recreated` an
  unreadable file opened anew. The lines a branch may have are a constant, and the one
  assumption on them is what a commit id means: two lines that share a commit share what
  is below it. A crash after a renumbering that forgot merges leaves a hole until the next
  run fills it; `verify` would report it meanwhile.
- `ConcurrentDeploys`: the calls of `lock_target`, `take_app_lock`, `release_target`, one to
  a step, for any number of runs, accounts and `-force`. It has no faults; those are
  `PatchDeploy`'s. Without overlap the application is left as it was found. With overlap it may
  not be, and nothing in the code prevents it: below 26.2 the second run takes the first
  one's `RUN_ONLY` for the status to restore, and leaves it on; on 26.2 a run that reads the
  status between another's import and its release takes the `DEV` of the import for it, and
  two runs of one developer share one lock, and the first to end drops it under the other.
  What overlapping runs do keep on 26.2, the lock of runs of different developers and an open
  application where nobody forces, is in `LeftAsFound` too.
- `SqlclUpgrade`: each `shutil.move` and each removal is a step that may raise before,
  half way or after; an interrupt skips the roll-back, as `except Exception` does. After
  a half-promoted folder could not be removed, the old install is moved inside it and the
  command prints "Restored previous SQLcl backup."; a second interrupted upgrade can lose
  the last install. Both are outside the two properties and named in their comments.
- `DependencyMirror`: a refresh is its queries, one to a step, then one transaction;
  `Patched` is `refresh_schema_incremental`, `Replaced` is `refresh_schema_deep`. The
  schema changes between any two steps. A constraint is a pair of tables, a table's own key
  the pair of it with itself. `twice` is what `LAST_DDL_TIME` cannot show (two changes in
  one second); `unlisted` the objects a refresh of one object stored rows of that the mirror
  does not list, or lists without the key the rows refer to; `severed` the rows a view lost
  when what it referred to was dropped, which the drop does not date.
- `HashBaseline`: `tree`, `target` and `base` give each file a hash or none. `Diff` and
  `Build` are two steps, because the build reads the tree again; `cli/patch_hash_mode.py:168`
  takes the bytes compared for the bytes written, and a file edited between the two is
  left out of the property. `sure` is history: the lines a deploy or a reading of the
  target answers for.
- `BaselineAdvance`: `LandedApps` is `landed_files` for an APEXlang file, read off the rows,
  verdicts and reverts of a `PatchDeploy` run.
- `RecompileRetry`: a compile succeeds when the object is sound and needs nothing invalid. A
  driver that answers with a warning is `silent`.
- `ExportRecent`: `_contents` of one schema, a query or a save to a step, in the code's order:
  the clock, the objects of the window, the jobs by signature, the refused ones, the authors'
  choice, the files that go, the files that come, then the three saves of `stamp_schema`.
  Objects and jobs hold one of two texts; a request is what was asked (`recent`, the names
  selected, an author, `-delete`, `auto_delete`). `kept` is what the three files of
  `config/internal` hold. `overlooked` is history: the objects the code steps past (below).
- `LiveUpload`: scan, read, upload and minify are steps of their own, with saves between.

## Runs

| Run | Bounds | Asks |
|---|---|---|
| `deploy`: run | 1 application, 3 rows, 3 releases, 1 run, 1 fault, 1 developer edit; default, `-force`, promotion | `TypeOK`, `OwnLockReturned`, `DoorShut`, `NoSilentOverwrite`, `ReleaseIsLast` |
| `deploy`: folder | 2 schema scripts, a split application, a whole one; every subset as a build; 2 hand edits | `EverythingOnce`, `ImportBetweenHalves`, `OrderKept`, `NewAtItsRank`, `CreateRepairs` |
| `deploy_keys` | 1 application, 4 rows, each key switched in turn, 1 fault | `RowInv`, `HandedBack`, `NoImportBehindError`, `SuccessIsVerified`, `BaselineHolds`, `HoldSpec` |
| `redeploy` | 2 runs of one patch, 1 fault | `HoldInv`, `BackupKept` |
| `deploy_pair` | 2 applications in one run, native and plain, 1 fault, fairness | `NothingStranded`, `HoldSpec`, `RunEnds`, `DoorReopens` |
| `services`: session | 2 requests, 2 roots, 3 consoles, 1 interrupt or failed reader | `AnswerIsOwn`, `MarkerIsOwn`, `NoOrphan`, `AsksTheRightProcess`, `EofIsReal`, `EndIsNoticed` |
| `services`: store | 5 lines of a branch (grown, merged, rewritten, deepened, cut back), 2 old stores | `StoreOnLine`, `Trusted`, `NoHole` |
| `services`: deploys | 2 runs, 2 accounts, both releases, every `-force` | `OneDeveloperHolds`, `LeftAsFound` |
| `services`: upgrade | 2 upgrades, 3 failures | `RolledBack`, `InstallSurvives` |
| `services`: mirror | 2 tables, 1 view, 3 changes, 2 seconds | `MirrorCatchesUp` |
| `services`: hash | 2 files, 2 scripts, 2 hashes, 2 edits | `BaselineTrue` |
| `services`: recompile | 4 objects; none, chain, zigzag and ring; any of them broken or silent | `FixpointReached` |
| `services`: export | an object with a timestamp and a job, 6 kinds of request, 2 changes, 2 instants, 2 runs | `NothingSkipped` |
| `services`: live | a source and its sibling, 3 saves, 3 instants | `ServesTheFolder` |

`deploy` is a patch folder from both ends: `MCPatchFolder` lets a behaviour be the folder's
(`DeployOrder`) or a run's (`PatchDeploy`), not both at once.

`services` is one run of nine specifications. They share no variable, so `MCServices` lets
each behaviour be one component's and keeps the others in an initial state: the states
are the sum of the nine and not their product, and each property is checked on all
behaviours of its own component. The type invariants of these modules (`SessionTypeOK`,
`StoreTypeOK`, ...) hold in it too; the proofs state the ones they need.

What the properties say, beyond their comments in the modules:

- `NoSilentOverwrite` is the purpose of lock and gate together. It holds with its
  exceptions and each of them is real: `-force`, a session that was open before the
  lock was on (the documentation: "it closes the door, not the room"), an application no
  lock was taken of, page locks, which cover only the pages nobody held, and the patch's own
  status block. The last was found by the proof: where `patch_apex_build_status` is `DEV` and
  an application's ending script runs ahead of its import, as the whole script of a folder
  built before scripts were split does, the block opens what `RUN_ONLY` had shut, and a
  developer may save between the block and the import. `Reopened` is that case and no more,
  and `DoorShut` leaves out the same one.
- `NothingStranded` is that the ledger is enough: whatever a run that restores leaves
  on the target beyond what it found was taken out of its sight by a fault.
- `HandedBack` is about the status and `ReleaseIsLast` about the order that makes it true.
- `HoldSpec` is the refinement: a run implements `DeployHold`, where an application is
  taken once, given back once, and the run does not end holding one.
- `RunEnds` and `DoorReopens` are liveness under weak fairness of the tool's own steps
  (`WF_vars(Tool)`) and nothing else. It is justified because a run is one thread
  that never waits for another: every call is answered, or raises (`db.py` and SQLcl
  calls carry timeouts), and no step of the tool is disabled by a developer.
  Faults, interrupts and developers are owed nothing.
- `BaselineHolds` joins two components: whatever a run did with an application, scan and
  revert included, the baseline is only moved for one that holds the shipped tree.
- `EndIsNoticed` is liveness of the session under weak fairness of the foreground's read
  loop and of each reader thread: the thread is never told to stop, and the loop polls its
  queue every second. Nothing is assumed of SQLcl, and the deadline is not relied on, so
  what wakes the foreground is the end marker.
- `AnswerIsOwn` leaves one case out, a console whose statement was cut off, and
  `stale_answer` shows that case; `MarkerIsOwn` says what still holds in it.
- `ImportBetweenHalves` is about whatever order a person left: the import right behind the
  last script that opens its application, every script behind it an ending one, and every
  `end` half that stands behind all that opens it in the driver behind the import too. A half
  moved ahead of what opens it stays there; the code imports behind the opener all the same.
- `NewAtItsRank` is why the merge is a walk and not an append, and says where it stops: a kept
  script a person moved ahead of one ranked before it goes with that one.
- `LeftAsFound` says what runs that are over leave, with overlap and without.
- `Trusted` is why one row is enough: the ids fix everything below.
- `NothingSkipped` says that watermark and retry set together are enough. It leaves `overlooked`
  out, two ways in which they are not: `-recent N` is judged by the clock read first
  (`recent_state.py:159`) and listed from a later `SYSDATE`, so an object changed between the
  watermark and the later start is in neither (three instants show it); and an object that
  `-delete` took the file of, refused or not reached before the run stopped, is recorded nowhere.
- `MirrorCatchesUp` is about the refresh after the race, not the one in it. Preparing its proof
  gave it two exceptions more, each found by TLC above the bounds of the run: an object
  dropped and made again under a view between two refreshes (three changes, `severed`), and a
  table dropped between the query of objects and that of constraints, which is then listed
  without its own key, so that a foreign key brought in by a refresh of one object is not
  among the rows the next refresh deletes (five changes and two tables, `unlisted`). The run
  meets the first; both are in the theorem, which bounds nothing.

Why the bounds are enough to be interesting: one application meets every path of the
lock and every row kind, and a second one is needed only where one is held while the
other fails (`deploy_pair`); two runs are needed only for what survives a process (the
target, the backup, what `export_apex` recorded). One fault at any step, of any
kind, covers each single failure; two in one run are left to the proofs, which
bound neither faults, runs, applications, rows nor configurations. `MaxFaults`,
`MaxRuns`, `MaxHandEdits`, `MaxEdits` and the finite `Edits` are bounds of the models and not of the
code. In the services: three consoles are needed for a retried connect between two
requests, and a reader of the first may then still run; four objects are the fewest that
take four passes; three changes and two seconds give the mirror an object that is dropped and
made again, one that changes in the middle of a refresh and a change hidden in a second; the hash baseline needs two scripts for
one to fail and two edits for an edit on either side of a build. `MaxRequests`,
`MaxConsoles`, `MaxFaults`, `MaxTime`, `MaxAlters`, `MaxExports`, `MaxUpgrades`, `MaxFailures`, `MaxDdl`, `MaxSeconds`,
`MaxSaves` and `MaxStamp` are such bounds. Deadlock is not checked in `services`, where
each component may come to its end, nor in `PatchDeploy`, because a process that is done is done.

### Where the code disagrees with what is written

Seven runs check a sentence of the repository that the code does not keep.

- `terminal_wins`: `docs/patch_verify.md:269` says that `patch_apex_build_status` wins.
  The release then sets nothing, trusting the scripts to have set it
  (`apex_lock.py:430`), but the revert of a failed scan is an import after those scripts,
  and an import resets the status. The application the key wants `RUN_ONLY` is left
  open for development. No fault is needed.
- `refusal_unlocks`: the `finally` is there so that a refused gate leaves no application
  on `RUN_ONLY` (`apex_lock.py:350`). With `patch_apex_build_status` configured it leaves it
  on, whatever status the key names, for no script has run to apply the key.
- `errored_app_not_scanned`: `apex_scan.py:404` says that an application whose row
  errored is not scanned. It is, as soon as another row of it succeeded.
- `backup_predates_patch`: `apex_backup.py:182` says that the kept file is the state before
  the patch first reached the environment. If the first deploy kept none, the second
  keeps what the first left.
- `stale_answer`: `SqlclSession.run` says that it returns "everything SQLcl printed for it".
  An exchange that is interrupted leaves its statement in the console, and the next one
  returns that statement's output in front of its own. `sqlcl_gateway.py:338` then takes the
  first frame it finds, which is the older query's.
- `unchanged_rows`: `docs/rebuild.md:151` says that a refresh leaves unchanged rows alone.
  When a parent table was changed, the foreign keys of its children are deleted with its
  constraints and not written again.
- `signed_unwritten`: `schema_objects.py:182` says that the signature of a job is recorded only
  with its file. `-by` and `-my` take objects out of the list after the signatures were read
  (`runner.py:249`), and `advance_job_signatures` records all of them: a job another developer
  changed is signed, never written, and skipped by every later `-recent`. The run finds it in
  one export. In the same module a job also keeps a matching signature without a file when
  it was refused after `-delete`; the author's case is the one that needs no failure.

## Proofs

Every safety invariant and every action property that a passing run checks is a theorem, and
so is the refinement: thirty-eight listed ones, for every value of the constants, with no bound
on applications, rows, scripts, builds, hand edits, runs, faults, requests, objects, files or
clocks. Most proofs have one form: an inductive invariant that says what is true on the way, a
lemma for each part of it and each group of steps it can be disturbed by, and a theorem that
takes the property out of it. Those of `DeployOrder` are the exception: there one step is a
whole algorithm, and the work is in what its operators return.

### The deploy

`PatchDeployProofs` and `PatchDeployGuarantees`, under `DeployAssumption` and
`TargetAssumption`:

| Theorem | Says | Inductive invariant |
|---|---|---|
| `TypeCorrect` | `[]TypeOK` | `TypeInv` |
| `ImportsBehindNoError` | `[]NoImportBehindError` | `RowInv` |
| `BackupStays` | `BackupKept` | none but types |
| `NothingIsStranded` | `[]NothingStranded` | `HoldInv` |
| `ReleaseEndsIt` | `ReleaseIsLast` | `ReleaseInv`, on `HoldInv` |
| `StatusHandedBack` | `[]HandedBack` | `StatusInv`, on `HoldInv` and `ReleaseInv` |
| `OwnLockComesBack` | `[]OwnLockReturned` | `OwnLockInv` |
| `DoorsStayShut` | `[]DoorShut` | `DoorInv`, on `RowInv` and `HoldInv` |
| `NothingIsOverwrittenUnseen` | `[]NoSilentOverwrite` | `SeenInv`, on `DoorInv` |
| `SuccessMeansVerified` | `[]SuccessIsVerified` | `VerdictInv`, on `RowInv` |
| `BaselineIsWhatStands` | `[]BaselineHolds` | `ImportedTree` |
| `DeployKeepsTheContract` | `HoldSpec` | `HoldInv` and `ReleaseInv` |

`DeployAssumption` says that the rows are rows, that there is at least one row, application
and configuration, and that one application is imported by one row: `deploy_sequence` has one
import for each prepared application and remembers in `placed` which it has slotted in, so that
none comes twice. `TargetAssumption` names the three kinds of release and says that the
applications colleagues work on are among the applications.

`TypeInv` adds two facts to the types that they depend on: an open import row is a
row of the run, and a revert has a backup entry.

`NoImportBehindError` does not carry itself over a step: that an import's row may be
finished relies on no row before it being in error when it was begun, on rows being
finished in order, and on a `NOT_RUN` row standing behind an `ERROR`. `RowInv` is that
account of the rows; most steps leave it alone and one lemma covers them.

`NothingStranded` speaks of the end of a run; `HoldInv` says what is true on the way.
`Answered`: an application not in the state the run found it in is answered for, by a
ledger entry of the right kind or by the entry in hand between the lock and the
ledger, up to the step of the release that takes it back. `SoundEntries`: an entry
that says to put back `RUN_ONLY` or the deploy's own lock says so because the run
found it so. `TakenOnce`: no application is locked twice, without which the second
entry would restore the status the first one set. `InRelease`: a release works from
the ledger's entry, and the `finally` from the whole ledger. The proof is one lemma per
action. It is the argument behind `deploy_post.py:93`: popped before the release has
answered, an entry is missed by an interrupt, and `Answered` fails at exactly that
step (the mutant `MutantPopFirst`).

`RowInv` and `HoldInv` are properties of runs too, and stated as `RowsAreAccounted` and
`LocksAreAccounted`.

The invariants of `PatchDeployInvariant` that the guarantees add:

- `ReleaseInv`: nothing is released while preparing and deploying, what is released has left the
  ledger, and a release only ever works on what is still in it; an application still to be
  scanned or in the middle of a revert is not released. Hence no import, revert or second
  release can follow one.
- `StatusInv`: what an entry says stood there before did (nothing moves a status ahead of its
  own lock), an application not held is as found until the loop ends, and the status a
  release has set stays until its entry is written down.
- `OwnLockInv`: a developer's lock is there, or the deploy's stands in its place and an entry
  that remembers it is in the ledger or in hand.
- `DoorInv`: an entry names a lock exactly when it says one is held, and the lock it names is
  on from the call that took it until the application is imported.
- `SeenInv`: behind a door shut nobody works, and what the gate has seen is still there, first
  in the signature read ahead of the lock, then in the gate's own.
- `VerdictInv`: what landed is scanned or still to be scanned, and only the end of the body
  gives a run an outcome of its own. `ImportedTree`: what an import that succeeded left is
  there until a revert or a developer changes it.

`DeployKeepsTheContract` is the refinement, step by step. Under the mapping of `HoldSpec` a
lock call whose answer arrived is a taking, the write of `rel_record` a giving back, a lost
answer or a kill a stranding and the end of the process an end; every other step stutters. That the run cannot end holding an
application, nor take one twice, is `HoldInv` and `ReleaseInv`.

### The order of a patch folder

`DeployOrderProofs`, under `OrderAssumption` (a build is a finite, nonempty set of scripts, an
exported tree has an application, the stray line is no script):

| Theorem | Says | Rests on |
|---|---|---|
| `OrderTypeCorrect` | `[]OrderInv`: types, and a finite folder | `Written`, `Inserted`, `Removed` |
| `EverythingRunsOnce` | `[]EverythingOnce` | `OrderOnce`, `ScriptsOnce`, `ImportsOnce` |
| `ImportsBetweenHalves` | `[]ImportBetweenHalves` | `ImportBetween` |
| `EveryCreateRepairs` | `CreateRepairs` | `Written` |
| `CreateKeepsOrder` | `OrderKept` | `KeptOrdered`, `MergedOrdered` |
| `NewScriptsAtTheirRank` | `NewAtItsRank` | `DefaultOrdered`, `MergedOrdered` |
| `PlansAreWalkable` | a plan that is not refused is what `DeployAssumption` asks of `Steps` | `PlanWalkable` |

The argument, from the bottom:

- `Reaches` is induction over 0..n as a statement about a set, by the least element it lacks;
  an induction theorem with an operator for its parameter is out of the prover's reach, this
  form is not. `WalkExists` proves with it that a function with a given first value and a given
  step exists, which is what a recursive definition needs before anything can be said of it.
- `RankedInOrder`: a finite set numbered by how many of it are ahead of each, under a strict
  total order, is a sequence of that set, once each, in that order. The default order, the
  kept lines and the places of a plan are three uses of it; `BeforeIsTotal` and
  `EarlierIsTotal` are the orders, and that no two scripts share a key is the reason
  `install_scripts` may be sorted in any order.
- `MergeInv` is the invariant of the merge: after i scripts of the default order the first c
  kept lines are out, with every new script of those i, each once, the kept ones in their
  order, and no kept line is out before it or a kept line behind it was due. `EmitStep` says
  that a round of the loop is one of three (a new script, a run of pending lines, nothing),
  `MergeStep` that each keeps it, `MergeWalk` and `MergeGrows` that it holds at the end and
  what stands stays. The last conjunct is what `NewAtItsRank` follows from: a kept script
  that is out when a new one is emitted is held ahead by one ranked before the new one.
- `PlanOrdered`: a plan is the rows at its places in order; `SlotOf` and `ImportBetween` read
  off it that nothing stands between an opener and its import.

`PlansAreWalkable` joins the two halves of the deploy. The theorems about `PatchDeploy` assume
rows of a kind; every plan `DeployOrder` lets through is of that kind, for any builds and edits.

### The SQLcl session

`SqlclSessionProofs`, under `SessionAssumption` (there is a root, and the bounds are numbers):

| Theorem | Says | Inductive invariant |
|---|---|---|
| `NoProcessIsLeftBehind` | `[]NoOrphan` | itself, with `RunningInv` and the types |
| `TheEndIsItsOwn` | `[]EofIsReal` | `EndInv` |
| `TheRightProcessIsAsked` | `[]AsksTheRightProcess` | `StepInv` |
| `TheMarkerIsItsOwn` | `[]MarkerIsOwn` | `MarkerOrder` |
| `TheAnswerIsItsOwn` | `[]AnswerIsOwn` | `OwnOrder` |

The steps are first brought into a few shapes: what can happen to the session (`EveryStep`)
and what can happen to one console (`EveryConsole`: it is left alone, ended by the session, fed
or read by the foreground, or it works). Each part of the invariant is
proved over the shapes. `EndInv`: the end marker is a reader's last word, and a reader that is
done saw its own process end. The last two are about the lines still to be read, those in
the queue with those the process printed behind them. `MarkerOrder`: no marker in inbox or
lines has a number above the counter, and the line before the current marker is the
asked statement's output; it holds behind a statement that was cut off. `OwnOrder`: when
nothing was cut off, the lines printed so far are exactly the first zero, one or two of
this request's reply, and nothing is left in the console between two requests.

### The workstation

`WorkstationProofs`, four components in one module because they share no variable:

| Theorem | Says | Inductive invariant |
|---|---|---|
| `NoChangeIsSkipped` | `[]NothingSkipped` | `TimesInv`, `ListInv`, `WrittenInv`, `CoveredInv` |
| `NothingNewMeansServed` | `[]ServesTheFolder` | `StampInv`, `ServedInv` |
| `TheUpgradeIsUndone` | `[]RolledBack` | `TidyInv`, `FoundInv` |
| `AnInstallIsLeft` | `[]InstallSurvives` | `TidyInv`, `OldInv` |
| `TheMirrorCatchesUp` | `[]MirrorCatchesUp` | `ClockInv`, `SeenInv`, `HeldInv`, `QuietInv` |

- The export: past the listing, an object older than the candidate clock is listed, or older
  than the watermark, or in the gap (`ListInv`); what was listed is in its file, refused, or
  changed since (`WrittenInv`); so an object whose file is behind is recorded as such or dated
  at or after the watermark, also when the run stops before its stamp (`CoveredInv`).
- The watch: a file seen is served, in hand with the bytes it has now, or still to do
  (`ServedInv`), and no stamp is of the future (`StampInv`).
- The upgrade: `FoundInv` says for each step and each setting of the three flags what is in
  each folder, so that the roll-back that reads only the flags undoes what was done.
- The mirror: what a refresh has read is of the schema as it is, for every object that has
  not changed since its date was read (`SeenInv`); what the mirror holds is right for every
  object whose date there is the dictionary's (`HeldInv`); and while the schema stands still,
  every date read is the dictionary's (`QuietInv`).

`ExportAssumption`: dated objects and jobs are distinct, there is a request, and a request with
`-delete` has no `-recent` and no `-my`, which the command refuses
(`delete_window_flags`, `export_db/config.py:209`). `LiveAssumption` and `MirrorAssumption`: the clock has at least one value, the source
is not its sibling, and a table is not a view.

### The other services

| Theorem | Says | Inductive invariant |
|---|---|---|
| `BaselineIsTrue` | `[]BaselineTrue` | while a deploy runs: each sure line is the target's, or its own script has finished and carries it |
| `StoreIsOnLine`, `TrustIsEarned`, `NoHoleIsLeft` | `[]StoreOnLine`, `[]Trusted`, `[]NoHole` | a marked store is on one line the branch had; past `reconcile` on the line walked |
| `OnlyOneHolds`, `FoundIsLeft` | `[]OneDeveloperHolds`, `[]LeftAsFound` | who holds is who the target says; while runs do not overlap, what the one between begin and end has read is what was found; and of overlapping ones (`OwnLocksInv`), that who goes on past the holder it read has read the lock as found |
| `FixpointIsReached` | `[]FixpointReached` | what a pass failed and has left is no more than it began with, and as much only while everything it tried failed |

`TrustIsEarned` rests on `LineAssumption`, and is the reason the code gives for reading one
row: a commit at its position fixes every position below. `NoHoleIsLeft` needs that the
gap is read from the lower of two bottoms; taken from the store's ceiling
(`MutantAboveCeiling`) it fails. `FixpointIsReached` turns the code's remark that "every
other pass strictly shrinks the list" round: a pass that did not shrink it made nothing
valid, so what failed in it still fails. The lemma that a reversed list is as long is
the only fact about sequences it needs.

### Only model-checked

- Liveness, which is out of the prover's reach: `RunEnds`, `DoorReopens`, `EndIsNoticed`.
- That `DeploymentSequence` is what the two loops of `deployment_sequence` append
  (`PlacesAreTheLoops`): flattening a sequence of sequences is an induction over data the
  library states with an operator for its parameter.
- The findings: a counterexample is an instance.

## Not modelled, and why

- Imports retargeted onto another id or a working copy: no lock, no gate of interest.
- Imports of a tree's static files only, which write less than an import does.
- Faults in two deploys of one application at a time: `ConcurrentDeploys` has none.
- The deploying developer working in the Builder during the deploy.
- The recompile, the comparison of views, logs, receipts and the streamed table: they
  read, or write what no later step reads.
- Reports of the scan beyond passed and failed; `UNSUPPORTED` counts as passed, as the
  code counts it.
- A target of release 26.2 or newer whose release cannot be read and whose schema may
  also call the page lock package.
- Of the hash baseline: the commit column, the tables stored beside the log, page comments
  taken out of the diff. Of the mirror: identifiers and statements, which follow their
  object as dependencies do, APEX applications and other schemas' objects.
- Of `export_db`: DDL text, grants and groups, the programs and schedules that come along with a
  job, and the measured run of `-baseline`, which records nothing for `-recent`.
- Gateways and managed git blocks. One thread of a command opens connections and closes
  them at its end; `merge_block` is a pure function of a file's lines. Neither has an order
  of steps that could go wrong.
- The text of exports, rendering, table diffs, `MERGE` scripts, searches, reports and the argument
  parser: most of the repository's lines. They turn text into text in one thread and a
  failure ends the command; a state machine of them would restate the code.

## Plan

1. Done: the deploy (`ApexTarget`, `PatchDeploy`, `DeployHold`, `DeploySequence`,
   `DeployOrder`, `BaselineAdvance`) and the services around it (`SqlclSession`,
   `CommitStore`, `ConcurrentDeploys`, `HashBaseline`, `DependencyMirror`, `RecompileRetry`,
   `SqlclUpgrade`, `LiveUpload`, `ExportRecent`).
2. Done: the proofs of every safety invariant and action property of a passing run;
   thirty-eight theorems.
3. Open: faults in overlapping deploys (`ConcurrentDeploys` has none), and what a second
   schema's export shares with the first in `ExportRecent`.
