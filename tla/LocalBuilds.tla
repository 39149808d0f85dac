----------------------------- MODULE LocalBuilds -----------------------------
(***************************************************************************)
(* Runs of one workspace against its local DuckDB databases: a run from    *)
(* the moment its directory is made to its exit code, the views it binds,  *)
(* the models dbt builds for it, what it records, and the commands that    *)
(* start several runs or look back at old ones (replay,                    *)
(* validate-incremental) or remove what they left (clean, dataset drop).   *)
(*                                                                         *)
(* What a relation contains is abstracted to where its rows come from: the *)
(* set of datasets they were read from.  A view reads one dataset; a table *)
(* reads those of its sources and parents, and an incremental table those  *)
(* of the rows it had before as well.                                      *)
(***************************************************************************)
EXTENDS Naturals, FiniteSets

CONSTANTS
    Run,          \* the runs there can be, numbered in the order they are made
    Source, Model, Dataset,
    Reads,        \* per model, the sources it reads
    Parents,      \* per model, the models it reads
    Upstream,     \* per model, the sources it reads through any of its ancestors
    Incremental,  \* the models dbt adds to
    Attached,     \* the sources with a catalog file of their own
    Command,      \* what a user asks of sync, run and build
    Selection,    \* what a user asks validate-incremental to select
    Synced,       \* the datasets earlier syncs have registered
    MaxCommands,  \* sync, run and build commands
    MaxFaults,    \* things that go wrong
    MaxRemovals,  \* clean and drop commands
    Main,         \* the configured database and the workspace's catalogs
    NoRun, NoDataset

Option == [kind : {"sync", "build", "replay", "seed", "step", "reference"},
           models : SUBSET Model, full : BOOLEAN, capture : BOOLEAN,
           frozen : Dataset \cup {NoDataset}, of : Run \cup {NoRun}]

ASSUME LocalBuildsAssumption ==
    /\ Run \subseteq Nat
    /\ NoRun \notin Run
    /\ NoDataset \notin Dataset
    /\ Main \notin Run
    /\ Reads \in [Model -> SUBSET Source]
    /\ Parents \in [Model -> SUBSET Model]
    /\ Upstream \in [Model -> (SUBSET Source) \ {{}}]
    /\ \A m \in Model : Upstream[m] = Reads[m] \cup UNION {Upstream[p] : p \in Parents[m]}
    /\ Incremental \subseteq Model
    /\ Attached \subseteq Source
    /\ Command \subseteq {o \in Option : o.kind \in {"sync", "build"} /\ o.of = NoRun}
    /\ Selection \subseteq SUBSET Model
    /\ Synced \subseteq Dataset
    /\ {MaxFaults, MaxRemovals} \subseteq Nat

Home == Run \cup {Main}

VARIABLES
    holder,      \* who holds workspace-use.lock
    opts,        \* the options each run was given
    phase,       \* where each run is
    data,        \* the dataset it resolved
    row,         \* its row of the runs table
    runJson,     \* the state in its run.json
    exit,        \* how it ended
    toBind,      \* the sources whose views it has still to create
    dbt,         \* the dbt process it started
    todo,        \* the models that process has still to build
    failed,      \* the models it failed to build or skipped
    view,        \* the dataset each source's view reads, per home
    from,        \* where the rows of each model's table come from, per home
    registered,  \* the datasets of the state index
    recorded,    \* the runs whose directory has a dataset.json
    captured,    \* what the results directory of each run holds
    cleaned,     \* the runs that lost records to clean after they had started
    report,      \* the result of validate-incremental
    faults, removals

asked == <<opts, data>>
ending == <<row, runJson, exit>>
building == <<toBind, dbt, todo, failed>>
local == <<view, from>>
records == <<registered, recorded, captured, cleaned, report>>
bounds == <<faults, removals>>
vars == <<holder, phase, asked, ending, building, local, records, bounds>>

Nothing == [m \in Model |-> {}]

TypeOK ==
    /\ holder \in Run \cup {NoRun}
    /\ opts \in [Run -> Option]
    /\ phase \in [Run -> {"unused", "created", "planning", "ready", "binding", "bound", "dbt",
                          "completed", "summarised", "finished", "failing", "failed", "over"}]
    /\ data \in [Run -> Dataset \cup {NoDataset}]
    /\ row \in [Run -> {"none", "PLANNING", "SOURCES_READY", "BOUND", "DBT_COMPLETED",
                        "SUCCEEDED", "DBT_FAILED", "FAILED"}]
    /\ runJson \in [Run -> {"none", "SUCCEEDED", "DBT_FAILED", "FAILED"}]
    /\ exit \in [Run -> {"none", "0", "1", "error", "refused", "lost"}]
    /\ toBind \in [Run -> SUBSET Source]
    /\ dbt \in [Run -> {"none", "running", "orphan"}]
    /\ todo \in [Run -> SUBSET Model]
    /\ failed \in [Run -> SUBSET Model]
    /\ view \in [Home -> [Source -> Dataset \cup {NoDataset}]]
    /\ from \in [Home -> [Model -> SUBSET Dataset]]
    /\ registered \subseteq Dataset
    /\ recorded \subseteq Run
    /\ captured \in [Run -> [Model -> SUBSET Dataset]]
    /\ cleaned \subseteq Run
    /\ report \in {"none", "equal", "different"}
    /\ faults \in 0..MaxFaults
    /\ removals \in 0..MaxRemovals

NoOption == [kind |-> "build", models |-> {}, full |-> FALSE, capture |-> FALSE,
             frozen |-> NoDataset, of |-> NoRun]

Init ==
    /\ holder = NoRun
    /\ opts = [r \in Run |-> NoOption]
    /\ phase = [r \in Run |-> "unused"]
    /\ data = [r \in Run |-> NoDataset]
    /\ row = [r \in Run |-> "none"]
    /\ runJson = [r \in Run |-> "none"]
    /\ exit = [r \in Run |-> "none"]
    /\ toBind = [r \in Run |-> {}]
    /\ dbt = [r \in Run |-> "none"]
    /\ todo = [r \in Run |-> {}]
    /\ failed = [r \in Run |-> {}]
    /\ view = [h \in Home |-> [s \in Source |-> NoDataset]]
    /\ from = [h \in Home |-> Nothing]
    /\ registered = Synced
    /\ recorded = {}
    /\ captured = [r \in Run |-> Nothing]
    /\ cleaned = {}
    /\ report = "none"
    /\ faults = 0
    /\ removals = 0

-----------------------------------------------------------------------------
(* Where a run builds                                                      *)

\* Faulty variant: a step has a database of its own, as the other validation runs do.
OwnDatabase(r) == IF opts[r].kind \in {"sync", "build"} THEN Main ELSE r

\* The database of the run's configuration: replays and validation runs have one in a run
\* directory of their own, a step the one of its seed.
Database(r) ==
    CASE opts[r].kind \in {"sync", "build"} -> Main
      [] opts[r].kind = "step" -> opts[r].of
      [] OTHER -> r

\* Faulty variant: isolated runs have their own database, but the workspace's catalogs.
SharedCatalogs(r) == Main

\* The directory of its workspace's catalogs.
Catalogs(r) ==
    CASE opts[r].kind \in {"sync", "build"} -> Main
      [] opts[r].kind = "step" -> opts[r].of
      [] OTHER -> r

\* The sources a run resolves, and the home of the view of each.
Sources(r) == UNION {Upstream[m] : m \in opts[r].models}
ViewHome(r, s) == IF s \in Attached THEN Catalogs(r) ELSE Database(r)

\* The nearest models that dbt will read without building them.
Prerequisites(r) == (UNION {Parents[m] : m \in opts[r].models}) \ opts[r].models

Exists(h, m) == from[h][m] # {}

-----------------------------------------------------------------------------
(* A run                                                                   *)

\* Run ids are random; numbering them in order loses nothing.
Fresh(r) == phase[r] = "unused" /\ \A q \in Run : q < r => phase[q] # "unused"

\* The directory is made before the lock is asked for.
Create(r, o) ==
    /\ Fresh(r)
    /\ opts' = [opts EXCEPT ![r] = o]
    /\ phase' = [phase EXCEPT ![r] = "created"]
    /\ UNCHANGED <<holder, data, ending, building, local, records, bounds>>

Ends(r, how) ==
    /\ phase' = [phase EXCEPT ![r] = "over"]
    /\ exit' = [exit EXCEPT ![r] = how]
    /\ holder' = IF holder = r THEN NoRun ELSE holder

Fault ==
    /\ faults < MaxFaults
    /\ faults' = faults + 1

\* The lock is busy, or the state index cannot be opened: nothing is recorded.
Refuse(r) ==
    /\ phase[r] = "created"
    /\ Ends(r, "refused")
    /\ Fault
    /\ UNCHANGED <<asked, row, runJson, building, local, records, removals>>

\* A directory that clean removed meanwhile is made again by the first write into it.
Enter(r) ==
    /\ phase[r] = "created"
    /\ holder = NoRun
    /\ holder' = r
    /\ phase' = [phase EXCEPT ![r] = "planning"]
    /\ row' = [row EXCEPT ![r] = "PLANNING"]
    /\ cleaned' = cleaned \ {r}
    /\ UNCHANGED <<asked, runJson, exit, building, local, registered, recorded, captured, report,
                   bounds>>

\* The budget's sizes are parsed between start_run and the try block.
RefuseBudget(r) ==
    /\ phase[r] = "planning"
    /\ Ends(r, "refused")
    /\ Fault
    /\ UNCHANGED <<asked, row, runJson, building, local, records, removals>>

Transition(r, before, after, state) ==
    /\ phase[r] = before
    /\ phase' = [phase EXCEPT ![r] = after]
    /\ row' = [row EXCEPT ![r] = state]

\* Faulty variant: the run goes on with a source that nothing resolves.
PrepareNothing(r, d) ==
    /\ Transition(r, "planning", "ready", "SOURCES_READY")
    /\ UNCHANGED <<holder, asked, runJson, exit, building, local, records, bounds>>

\* Planning, prepare_sources and the refresh, each a model of its own; nobody reads the two
\* states the row passes.  A frozen dataset is read from the index; otherwise the snapshots
\* reused and refreshed may make up any dataset.
Prepare(r, d) ==
    /\ opts[r].frozen # NoDataset => d = opts[r].frozen /\ d \in registered
    /\ Transition(r, "planning", "ready", "SOURCES_READY")
    /\ data' = [data EXCEPT ![r] = d]
    /\ UNCHANGED <<holder, opts, runJson, exit, building, local, records, bounds>>

\* commit_dataset; a sync has nothing left to do.
Commit(r) ==
    /\ phase[r] = "ready"
    /\ registered' = registered \cup {data[r]}
    /\ recorded' = recorded \cup {r}
    /\ toBind' = [toBind EXCEPT ![r] = Sources(r)]
    /\ phase' = [phase EXCEPT ![r] = IF opts[r].kind = "sync" THEN "completed" ELSE "binding"]
    /\ UNCHANGED <<holder, asked, ending, dbt, todo, failed, local, captured, cleaned, report,
                   bounds>>

\* One CREATE OR REPLACE VIEW, committed on its own.
BindSource(r, s) ==
    /\ phase[r] = "binding"
    /\ s \in toBind[r]
    /\ view' = [view EXCEPT ![ViewHome(r, s)][s] = data[r]]
    /\ toBind' = [toBind EXCEPT ![r] = @ \ {s}]
    /\ UNCHANGED <<holder, phase, asked, ending, dbt, todo, failed, from, records, bounds>>

\* Faulty variant: dbt is started although a view could not be replaced.
VerifyNothing(r) ==
    /\ \A m \in Prerequisites(r) : Exists(Database(r), m)
    /\ Transition(r, "binding", "bound", "BOUND")
    /\ UNCHANGED <<holder, asked, runJson, exit, building, local, records, bounds>>

\* bind has returned, verify reads every view, check_prerequisites every prerequisite.
Verify(r) ==
    /\ toBind[r] = {}
    /\ \A m \in Prerequisites(r) : Exists(Database(r), m)
    /\ Transition(r, "binding", "bound", "BOUND")
    /\ UNCHANGED <<holder, asked, runJson, exit, building, local, records, bounds>>

StartDbt(r) ==
    /\ phase[r] = "bound"
    /\ phase' = [phase EXCEPT ![r] = "dbt"]
    /\ dbt' = [dbt EXCEPT ![r] = "running"]
    /\ todo' = [todo EXCEPT ![r] = opts[r].models]
    /\ UNCHANGED <<holder, asked, ending, toBind, failed, local, records, bounds>>

-----------------------------------------------------------------------------
(* The dbt process, an orphan's included                                   *)

Attempts(r, m) ==
    /\ dbt[r] # "none"
    /\ m \in todo[r]
    /\ Parents[m] \cap todo[r] = {}
    /\ todo' = [todo EXCEPT ![r] = @ \ {m}]

\* Where the rows a build of m reads come from.
Input(r, m) ==
    {view[ViewHome(r, s)][s] : s \in Reads[m]} \cup UNION {from[Database(r)][p] : p \in Parents[m]}

\* One statement in one transaction; DuckDB lets no other process in meanwhile.
DbtBuilds(r, m) ==
    LET h == Database(r)
        kept == IF m \in Incremental /\ ~opts[r].full THEN from[h][m] ELSE {}
    IN
    /\ Attempts(r, m)
    /\ Parents[m] \cap failed[r] = {}
    /\ \A s \in Reads[m] : view[ViewHome(r, s)][s] # NoDataset
    /\ \A p \in Parents[m] : Exists(h, p)
    /\ from' = [from EXCEPT ![h][m] = kept \cup Input(r, m)]
    /\ UNCHANGED <<holder, phase, asked, ending, toBind, dbt, failed, view, records, bounds>>

\* It is skipped because a parent failed, or it fails, or dbt was told to stop.
DbtFails(r, m) ==
    /\ Attempts(r, m)
    /\ failed' = [failed EXCEPT ![r] = @ \cup {m}]
    /\ \/ Parents[m] \cap failed[r] # {} /\ UNCHANGED faults
       \/ Fault
    /\ UNCHANGED <<holder, phase, asked, ending, toBind, dbt, local, records, removals>>

OrphanEnds(r) ==
    /\ dbt[r] = "orphan"
    /\ dbt' = [dbt EXCEPT ![r] = "none"]
    /\ todo' = [todo EXCEPT ![r] = {}]
    /\ UNCHANGED <<holder, phase, asked, ending, toBind, failed, local, records, bounds>>

\* dbt has returned, its results are read, and captured if asked for and all went well.
Complete(r) ==
    /\ dbt[r] = "running"
    /\ todo[r] = {}
    /\ dbt' = [dbt EXCEPT ![r] = "none"]
    /\ captured' = IF opts[r].capture /\ failed[r] = {}
                   THEN [captured EXCEPT ![r] = [m \in Model |->
                             IF m \in opts[r].models THEN from[Database(r)][m] ELSE {}]]
                   ELSE captured
    /\ Transition(r, "dbt", "completed", "DBT_COMPLETED")
    /\ UNCHANGED <<holder, asked, runJson, exit, toBind, todo, failed, local, registered, recorded,
                   cleaned, report, bounds>>

\* dbt has returned, but the run was cancelled, or the results cannot be read or captured.
LoseResults(r) ==
    /\ dbt[r] = "running"
    /\ todo[r] = {}
    /\ Fault
    /\ dbt' = [dbt EXCEPT ![r] = "none"]
    /\ phase' = [phase EXCEPT ![r] = "failing"]
    /\ UNCHANGED <<holder, asked, ending, toBind, todo, failed, local, records, removals>>

-----------------------------------------------------------------------------
(* What a run records of its end                                           *)

Outcome(r) == IF failed[r] = {} THEN "SUCCEEDED" ELSE "DBT_FAILED"

Summarise(r) ==
    /\ phase[r] = "completed"
    /\ phase' = [phase EXCEPT ![r] = "summarised"]
    /\ runJson' = [runJson EXCEPT ![r] = Outcome(r)]
    /\ UNCHANGED <<holder, asked, row, exit, building, local, records, bounds>>

\* Faulty variant: the row is written before the file.
FinishFirst(r) ==
    /\ Transition(r, "completed", "finished", Outcome(r))
    /\ UNCHANGED <<holder, asked, runJson, exit, building, local, records, bounds>>

Finish(r) ==
    /\ Transition(r, "summarised", "finished", Outcome(r))
    /\ UNCHANGED <<holder, asked, runJson, exit, building, local, records, bounds>>

\* The last event has been consumed.
Return(r) ==
    /\ phase[r] = "finished"
    /\ Ends(r, IF failed[r] = {} THEN "0" ELSE "1")
    /\ UNCHANGED <<asked, row, runJson, building, local, records, bounds>>

\* The finally block writes resources.json last: if it cannot, the command fails although
\* its success is on record.
ReturnFails(r) ==
    /\ phase[r] = "finished"
    /\ Fault
    /\ Ends(r, "error")
    /\ UNCHANGED <<asked, row, runJson, building, local, records, removals>>

\* Anything inside the try block may raise, the event of a recorded success included.
Fail(r) ==
    /\ phase[r] \in {"planning", "ready", "binding", "bound", "completed", "summarised", "finished"}
    /\ phase' = [phase EXCEPT ![r] = "failing"]
    /\ Fault
    /\ UNCHANGED <<holder, asked, ending, building, local, records, removals>>

RecordFailure(r) ==
    /\ Transition(r, "failing", "failed", "FAILED")
    /\ UNCHANGED <<holder, asked, runJson, exit, building, local, records, bounds>>

WriteFailure(r) ==
    /\ phase[r] = "failed"
    /\ runJson' = [runJson EXCEPT ![r] = "FAILED"]
    /\ Ends(r, "error")
    /\ UNCHANGED <<asked, row, building, local, records, bounds>>

\* The index or the disk refuses the failure record as well.
HandlerFails(r) ==
    /\ phase[r] \in {"failing", "failed"}
    /\ Ends(r, "lost")
    /\ UNCHANGED <<asked, row, runJson, building, local, records, bounds>>

\* The process is killed: its file locks go with it, its dbt, a session of its own, does not.
Kill(r) ==
    /\ phase[r] \notin {"unused", "over"}
    /\ Fault
    /\ Ends(r, "lost")
    /\ dbt' = [dbt EXCEPT ![r] = IF @ = "running" THEN "orphan" ELSE @]
    /\ UNCHANGED <<asked, row, runJson, toBind, todo, failed, local, records, removals>>

-----------------------------------------------------------------------------
(* Commands that start runs                                                *)

Issue(r) == r <= MaxCommands /\ \E o \in Command : Create(r, o)

\* Faulty variant: incremental models are replayed as they were recorded.
ReplayAsRecorded(r, o, full) ==
    /\ o \in recorded
    /\ opts[o].kind # "sync"
    /\ Create(r, [kind |-> "replay", models |-> opts[o].models, full |-> full \/ opts[o].full,
                  capture |-> TRUE, frozen |-> data[o], of |-> o])

\* replay_run: what the record of o must have, and the options of the new run.
Replay(r, o, full) ==
    LET fresh == full \/ opts[o].full IN
    /\ o \in recorded
    /\ opts[o].kind # "sync"
    /\ fresh \/ opts[o].models \cap Incremental = {}
    /\ Create(r, [kind |-> "replay", models |-> opts[o].models, full |-> fresh,
                  capture |-> TRUE, frozen |-> data[o], of |-> o])

Validation(kind, models, d, full, of) ==
    [kind |-> kind, models |-> models, full |-> full, capture |-> TRUE, frozen |-> d, of |-> of]

\* validate_incremental, one at a time.
Seed(r, models, base) ==
    /\ base \in registered
    /\ \A q \in Run : opts[q].kind # "seed"
    /\ Create(r, Validation("seed", models, base, TRUE, NoRun))

\* The seed succeeded, and its selection has an incremental model.
Step(r, q, next) ==
    /\ opts[q].kind = "seed" /\ exit[q] = "0"
    /\ opts[q].models \cap Incremental # {}
    /\ \A p \in Run : opts[p].kind # "step"
    /\ Create(r, Validation("step", opts[q].models, next, FALSE, q))

\* A step that dbt failed is noticed only after the reference.
Reference(r, q) ==
    /\ opts[q].kind = "step" /\ exit[q] \in {"0", "1"}
    /\ \A p \in Run : opts[p].kind # "reference"
    /\ Create(r, Validation("reference", opts[q].models, opts[q].frozen, TRUE, q))

\* compare_runs reads both records and both results; tables of the same rows are equal, others
\* may be.
Compare(r) ==
    LET q == opts[r].of IN
    /\ opts[r].kind = "reference" /\ exit[r] = "0" /\ exit[q] = "0"
    /\ report = "none"
    /\ holder = NoRun
    /\ {q, r} \subseteq recorded /\ captured[q] # Nothing /\ captured[r] # Nothing
    /\ \/ report' = "equal"
       \/ captured[q] # captured[r] /\ report' = "different"
    /\ UNCHANGED <<holder, phase, asked, ending, building, local, registered, recorded, captured,
                   cleaned, bounds>>

-----------------------------------------------------------------------------
(* Commands that remove things, under the workspace lock                   *)

Removal ==
    /\ holder = NoRun
    /\ removals < MaxRemovals
    /\ removals' = removals + 1

\* clean --runs: the records of a run, its results, and its database if it has one.
CleanRun(r) ==
    /\ Removal
    /\ phase[r] # "unused"
    /\ recorded' = recorded \ {r}
    /\ captured' = [captured EXCEPT ![r] = Nothing]
    /\ runJson' = [runJson EXCEPT ![r] = "none"]
    /\ view' = [view EXCEPT ![r] = [s \in Source |-> NoDataset]]
    /\ from' = [from EXCEPT ![r] = Nothing]
    /\ cleaned' = cleaned \cup {r}
    /\ UNCHANGED <<holder, phase, asked, row, exit, building, registered, report, faults>>

\* Faulty variant: the database is removed while a run uses it.
CleanDatabaseInUse ==
    /\ removals < MaxRemovals
    /\ removals' = removals + 1
    /\ view' = [view EXCEPT ![Main] = [s \in Source |-> IF s \in Attached THEN @[s] ELSE NoDataset]]
    /\ from' = [from EXCEPT ![Main] = Nothing]
    /\ UNCHANGED <<holder, phase, asked, ending, building, records, faults>>

\* clean --local-database, or --all: the catalogs stay.
CleanDatabase ==
    /\ Removal
    /\ view' = [view EXCEPT ![Main] = [s \in Source |-> IF s \in Attached THEN @[s] ELSE NoDataset]]
    /\ from' = [from EXCEPT ![Main] = Nothing]
    /\ UNCHANGED <<holder, phase, asked, ending, building, records, faults>>

\* clean --all: the catalog of an attached source.  It removes the runs, the databases and the
\* datasets as well, one target at a time.
CleanCatalog(s) ==
    /\ Removal
    /\ s \in Attached
    /\ view' = [view EXCEPT ![Main][s] = NoDataset]
    /\ UNCHANGED <<holder, phase, asked, ending, building, from, records, faults>>

DropDataset(d) ==
    /\ Removal
    /\ d \in registered
    /\ registered' = registered \ {d}
    /\ UNCHANGED <<holder, phase, asked, ending, building, local, recorded, captured, cleaned,
                   report, faults>>

-----------------------------------------------------------------------------

RunStep(r) ==
    \/ Refuse(r) \/ Enter(r) \/ RefuseBudget(r)
    \/ (\E d \in Dataset : Prepare(r, d)) \/ Commit(r)
    \/ (\E s \in Source : BindSource(r, s)) \/ Verify(r) \/ StartDbt(r)
    \/ (\E m \in Model : DbtBuilds(r, m) \/ DbtFails(r, m))
    \/ OrphanEnds(r) \/ Complete(r) \/ LoseResults(r)
    \/ Summarise(r) \/ Finish(r) \/ Return(r) \/ ReturnFails(r)
    \/ Fail(r) \/ RecordFailure(r) \/ WriteFailure(r) \/ HandlerFails(r) \/ Kill(r)

Start(r) ==
    \/ Issue(r)
    \/ \E o \in Run, full \in BOOLEAN : Replay(r, o, full)
    \/ \E models \in Selection, base \in Dataset : Seed(r, models, base)
    \/ \E q \in Run, next \in Dataset : Step(r, q, next)
    \/ \E q \in Run : Reference(r, q)

Next ==
    \/ \E r \in Run : RunStep(r) \/ Start(r) \/ Compare(r) \/ CleanRun(r)
    \/ CleanDatabase
    \/ \E s \in Source : CleanCatalog(s)
    \/ \E d \in Dataset : DropDataset(d)

Spec == Init /\ [][Next]_vars

-----------------------------------------------------------------------------
(* Properties                                                              *)

\* While its dbt builds, every view a run's models read, directly or through models that are
\* not rebuilt, shows the dataset the run has recorded: bind replaces the views one at a time
\* and lets go of the database before dbt opens it, and killed runs leave both in any state.
DbtReadsInputs ==
    \A r \in Run : phase[r] = "dbt" =>
        \A s \in Sources(r) : view[ViewHome(r, s)][s] = data[r]

\* The relations check_prerequisites found are still there while dbt builds on them.
BuildsOnExisting ==
    \A r \in Run : phase[r] = "dbt" =>
        \A m \in Prerequisites(r) : Exists(Database(r), m)

\* A run reads nothing but its dataset if it builds all it reads, and nothing from before.
Rebuilds(r) ==
    /\ Prerequisites(r) = {}
    /\ opts[r].full \/ opts[r].models \cap Incremental = {}

\* The results such a run captures come from its recorded dataset alone, whatever earlier
\* runs left in the database and whatever the dbt of a killed run still builds there.
FreshResults ==
    \A r \in Run : Rebuilds(r) /\ captured[r] # Nothing =>
        \A m \in opts[r].models : captured[r][m] = {data[r]}

\* A replay that captures results has reproduced those of the run it replays: both read the
\* same dataset and nothing else.  It takes the frozen dataset, the isolated database, the
\* check of the prerequisites and the refusal of incremental models together.
ReplayReproduces ==
    \A q \in Run : LET o == opts[q].of IN
        /\ opts[q].kind = "replay"
        /\ captured[q] # Nothing
        /\ captured[o] # Nothing
        /\ opts[q].full = opts[o].full
        => captured[q] = captured[o]

\* Whose home is whose, as the documentation has it.
Builds(h, r) ==
    CASE opts[r].kind = "build" -> h = Main
      [] opts[r].kind = "step" -> h = opts[r].of
      [] OTHER -> h = r

\* A database and its catalogs change only by a run that builds there, or by clean: replays
\* and validation runs never touch the outputs a user works with, nor each other's.
HomesAreSeparate ==
    [][\A h \in Home : <<view[h], from[h]>>' # <<view[h], from[h]>> =>
        \/ removals' # removals
        \/ \E r \in Run : Builds(h, r) /\ <<toBind[r], todo[r]>>' # <<toBind[r], todo[r]>>]_vars

\* The row, the file and the exit code agree, wherever the run was killed: a row that says
\* SUCCEEDED has its run.json, its dataset and all its models behind it, a command that
\* returns 0 has such a row, and one that ends with an error has its failure in both places,
\* or, if the error came last, its outcome.  Not after clean has removed the files.
SucceededHasEvidence ==
    \A r \in Run \ cleaned :
        /\ row[r] = "SUCCEEDED" =>
            /\ runJson[r] = "SUCCEEDED"
            /\ r \in recorded
            /\ failed[r] = {} /\ todo[r] = {}
        /\ exit[r] = "0" => row[r] = "SUCCEEDED"
        /\ exit[r] = "error" => row[r] = runJson[r] /\ row[r] \in {"FAILED", Outcome(r)}

\* The rows the initial build left are still in what the step captured.
Incrementally(r) ==
    \A m \in opts[r].models \cap Incremental : opts[opts[r].of].frozen \in captured[r][m]

\* When validate-incremental reports, the step it reports on was built upon the initial
\* state, unless clean --runs came between the two runs.
ReportIsIncremental ==
    [][report' # report =>
        \A r \in Run : opts[r].kind = "step" /\ opts[r].of \notin cleaned => Incrementally(r)]_vars

\* The documentation: "applies the next inputs incrementally, and compares to a separate
\* fresh build", with no exception.
ReportIsAlwaysIncremental ==
    [][report' # report => \A r \in Run : opts[r].kind = "step" => Incrementally(r)]_vars
=============================================================================
