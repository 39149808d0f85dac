--------------------------- MODULE SnapshotStore ---------------------------
(***************************************************************************)
(* The snapshot store, the SQLite index and the dataset sidecars of one    *)
(* workspace, and every command that changes them: run and sync, replay of *)
(* a dataset or of a named snapshot, clean --snapshots, clean --all,       *)
(* datasets drop, status --rebuild-index, and plan, which decides without  *)
(* taking the workspace lock.                                              *)
(*                                                                         *)
(* One command at a time holds workspace-use.lock; within a run the source *)
(* captures interleave.  A process may die between any two steps, a        *)
(* snapshot's files may rot, and the index file may be lost.               *)
(***************************************************************************)
EXTENDS Naturals, FiniteSets

CONSTANTS
    Request,    \* source requests; each stands for one request fingerprint
    Source,     \* logical source tables
    SourceOf,   \* the source a request reads
    Content,    \* contents a capture can return, told apart by fingerprint
    KeepOptions,    \* the values of --keep-snapshot that runs are given
    Planner,        \* concurrent `plan` processes
    MaxClock,       \* bound on the snapshot directories ever installed
    MaxDatasets,    \* bound on the datasets registered or recorded at once
    MaxFaults       \* bound on crashes, rotten snapshots and lost indexes

ASSUME StoreAssumption ==
    /\ SourceOf \in [Request -> Source]
    /\ Request # {}
    /\ Content # {}
    /\ KeepOptions \subseteq BOOLEAN
    /\ MaxClock \in Nat
    /\ MaxDatasets \in Nat
    /\ MaxFaults \in Nat

\* A snapshot key is content-addressed: the request and what was captured.
Key == Request \X Content

\* A dataset is content-addressed too: it is its members, one per source.
Dataset ==
    {d \in SUBSET Key :
        \A j, k \in d : SourceOf[j[1]] = SourceOf[k[1]] => j = k}

VARIABLES
    disk,       \* per key: the snapshot directory
    completed,  \* per key: completed_at in metadata.json
    metaPinned, \* keys whose metadata.json says pinned
    row,        \* per key: the state column of its snapshots row, or none
    active,     \* keys whose row has active = 1
    rowPinned,  \* keys whose row has pinned = 1
    datasets,   \* datasets with a row (and their dataset_snapshots rows)
    times,      \* per dataset: the completed_at list of the stored payload
    latest,     \* datasets whose row has active = 1: at most one
    sidecars,   \* datasets with a file under .dbtv/datasets
    sideTimes,  \* per dataset: the completed_at list in that file
    phase,      \* what the holder of workspace-use.lock is doing
    todo,       \* keys the holder has still to remove or to record
    queue,      \* datasets the holder has still to restore or to unlink
    tail,       \* the dataset that was active when rebuild listed them
    stage,      \* per request: how far the run has come with it
    target,     \* per request: the content the run has resolved it to
    keep,       \* the run was given --keep-snapshot
    failing,    \* the run has failed or was cancelled and is draining
    readAt,     \* per planner: where its decision stands
    readKey,    \* per planner: the record it has read
    published,  \* history: keys some published dataset has contained
    kept,       \* history: keys published under --keep-snapshot
    selection,  \* history: active keys when the rebuild began
    clock,      \* directories installed so far
    faults      \* faults so far

files    == <<disk, completed, metaPinned>>
rows     == <<row, active, rowPinned>>
registry == <<datasets, times, latest>>
sides    == <<sidecars, sideTimes>>
work     == <<phase, todo, queue, tail>>
run      == <<stage, target, keep, failing>>
plan     == <<readAt, readKey>>
history  == <<published, kept, selection>>
bounds   == <<clock, faults>>
index    == <<rows, registry>>
vars     == <<files, index, sides, work, run, plan, history, bounds>>

Phase == {"idle", "deciding", "capturing", "sidecar", "using", "cleaning",
          "wiping", "unlinking", "recording", "restoring"}

\* Stages of a capture between its pending directory and its last index write.
InFlight == {"writing", "sealed", "installed", "matched", "repinning", "observed"}

Unresolved == {"undecided", "frozen", "named"}

Stage == InFlight \cup Unresolved \cup
    {"out", "missing", "reuse", "pinning", "refresh", "ready", "failed", "refused"}

NoStage  == [r \in Request |-> "out"]
NoTarget == [r \in Request |-> CHOOSE c \in Content : TRUE]
KeyOf(r) == <<r, target[r]>>
Inputs   == {KeyOf(r) : r \in {q \in Request : stage[q] # "out"}}
Present  == {"sound", "rotten"}

TypeOK ==
    /\ disk \in [Key -> {"absent", "sound", "rotten", "torn"}]
    /\ completed \in [Key -> Nat]
    /\ metaPinned \subseteq Key
    /\ row \in [Key -> {"none", "COMMITTED", "CORRUPT"}]
    /\ active \subseteq Key
    /\ rowPinned \subseteq Key
    /\ datasets \subseteq Dataset
    /\ times \in [Dataset -> SUBSET Nat]
    /\ latest \subseteq datasets
    /\ \A d, e \in latest : d = e
    /\ sidecars \subseteq Dataset
    /\ sideTimes \in [Dataset -> SUBSET Nat]
    /\ phase \in Phase
    /\ todo \subseteq Key
    /\ queue \subseteq Dataset
    /\ tail \subseteq Dataset
    /\ stage \in [Request -> Stage]
    /\ target \in [Request -> Content]
    /\ keep \in BOOLEAN
    /\ failing \in BOOLEAN
    /\ readAt \in [Planner -> {"idle", "read", "bad"}]
    /\ readKey \in [Planner -> Key]
    /\ published \subseteq Key
    /\ kept \subseteq Key
    /\ selection \subseteq Key
    /\ clock \in Nat
    /\ faults \in Nat

Init ==
    /\ disk = [k \in Key |-> "absent"]
    /\ completed = [k \in Key |-> 0]
    /\ metaPinned = {}
    /\ row = [k \in Key |-> "none"]
    /\ active = {}
    /\ rowPinned = {}
    /\ datasets = {}
    /\ times = [d \in Dataset |-> {}]
    /\ latest = {}
    /\ sidecars = {}
    /\ sideTimes = [d \in Dataset |-> {}]
    /\ phase = "idle"
    /\ todo = {}
    /\ queue = {}
    /\ tail = {}
    /\ stage = NoStage
    /\ target = NoTarget
    /\ keep = FALSE
    /\ failing = FALSE
    /\ readAt = [p \in Planner |-> "idle"]
    /\ readKey = [p \in Planner |-> CHOOSE k \in Key : TRUE]
    /\ published = {}
    /\ kept = {}
    /\ selection = {}
    /\ clock = 0
    /\ faults = 0

-----------------------------------------------------------------------------
(* The index: one operator per SQLite transaction. *)

\* Faulty variant: the pin is taken from the current request, not from the metadata.
RecordSnapshotAsRequested(k) ==
    /\ row' = [row EXCEPT ![k] = "COMMITTED"]
    /\ rowPinned' = IF keep THEN rowPinned \cup {k} ELSE rowPinned \ {k}
    /\ UNCHANGED active

\* record_snapshot: upsert, COMMITTED, pinned overwritten, active untouched.
RecordSnapshot(k) ==
    /\ row' = [row EXCEPT ![k] = "COMMITTED"]
    /\ rowPinned' = IF k \in metaPinned THEN rowPinned \cup {k} ELSE rowPinned \ {k}
    /\ UNCHANGED active

\* Faulty variant: the state changes, the active flag stays.
MarkCorruptOnly(k) ==
    /\ row' = [row EXCEPT ![k] = IF @ = "none" THEN @ ELSE "CORRUPT"]
    /\ UNCHANGED <<active, rowPinned>>

MarkCorrupt(k) ==
    /\ row' = [row EXCEPT ![k] = IF @ = "none" THEN @ ELSE "CORRUPT"]
    /\ active' = active \ {k}
    /\ UNCHANGED rowPinned

DeleteSnapshot(k) ==
    /\ row' = [row EXCEPT ![k] = "none"]
    /\ active' = active \ {k}
    /\ rowPinned' = rowPinned \ {k}

ClearSnapshots ==
    /\ row' = [k \in Key |-> "none"]
    /\ active' = {}
    /\ rowPinned' = {}

ClearRegistry ==
    /\ datasets' = {}
    /\ times' = [d \in Dataset |-> {}]
    /\ latest' = {}

\* _activate refuses the whole transaction when one member is not COMMITTED.
Activatable(d) == \A k \in d : row[k] = "COMMITTED"

\* Faulty variant: what a request had selected before is not deactivated.
CommitDatasetAdds(d, payload) ==
    /\ active' = active \cup d
    /\ datasets' = datasets \cup {d}
    /\ times' = IF d \in datasets THEN times ELSE [times EXCEPT ![d] = payload]
    /\ latest' = {d}
    /\ UNCHANGED <<row, rowPinned>>

\* Faulty variant: the dataset that was active before is not deactivated.
CommitDatasetBeside(d, payload) ==
    /\ active' = {k \in active : \A j \in d : j[1] # k[1]} \cup d
    /\ datasets' = datasets \cup {d}
    /\ times' = IF d \in datasets THEN times ELSE [times EXCEPT ![d] = payload]
    /\ latest' = latest \cup {d}
    /\ UNCHANGED <<row, rowPinned>>

\* commit_dataset: the payload of a dataset already registered is kept.
CommitDataset(d, payload) ==
    /\ active' = {k \in active : \A j \in d : j[1] # k[1]} \cup d
    /\ datasets' = datasets \cup {d}
    /\ times' = IF d \in datasets THEN times ELSE [times EXCEPT ![d] = payload]
    /\ latest' = {d}
    /\ UNCHANGED <<row, rowPinned>>

\* The active flag is a column of the row, and goes with it.
DeleteDataset(d) ==
    /\ datasets' = datasets \ {d}
    /\ times' = [times EXCEPT ![d] = {}]
    /\ latest' = latest \ {d}

\* dataset_references: the members of every registered dataset.
Referenced == UNION datasets

-----------------------------------------------------------------------------
(* run, sync, test, build and replay: resolve every source, then publish. *)

StartRun(R, pin) ==
    /\ phase = "idle"
    /\ \A q, r \in R : SourceOf[q] = SourceOf[r] => q = r
    /\ phase' = "deciding"
    /\ stage' = [r \in Request |-> IF r \in R THEN "undecided" ELSE "out"]
    /\ keep' = pin
    /\ UNCHANGED <<files, index, sides, todo, queue, tail, target, failing, plan,
                   history, bounds>>

\* --dataset fixes each source's key; --snapshot-id names one key.
StartPinned(d, how, pin) ==
    /\ phase = "idle"
    /\ phase' = "deciding"
    /\ stage' = [r \in Request |->
                    IF \E k \in d : k[1] = r THEN how ELSE "out"]
    /\ target' = [r \in Request |->
                    IF \E k \in d : k[1] = r
                    THEN (CHOOSE k \in d : k[1] = r)[2] ELSE target[r]]
    /\ keep' = pin
    /\ UNCHANGED <<files, index, sides, todo, queue, tail, failing, plan, history, bounds>>

StartReplay(pin) ==
    \E d \in datasets : \E s \in SUBSET d : StartPinned(s, "frozen", pin)

StartNamed(pin) == \E k \in Key : StartPinned({k}, "named", pin)

\* The record decide reads: the active one, or the one asked for by id.
Record(r) ==
    IF stage[r] = "undecided"
    THEN {k \in active : k[1] = r /\ row[k] = "COMMITTED"}
    ELSE {k \in {KeyOf(r)} : row[k] # "none"}

Readable(k) == row[k] = "COMMITTED" /\ disk[k] = "sound"

\* Reuse, or refresh because of mode or age; a replay can only reuse.
DecideUsable(r) ==
    \E k \in Record(r) :
        /\ Readable(k)
        /\ \/ /\ stage' = [stage EXCEPT ![r] = IF keep THEN "reuse" ELSE "ready"]
              /\ target' = [target EXCEPT ![r] = k[2]]
           \/ /\ stage[r] # "frozen"
              /\ stage' = [stage EXCEPT ![r] = "refresh"]
              /\ UNCHANGED target
           \/ /\ stage' = [stage EXCEPT ![r] = "missing"]   \* tag age, offline
              /\ UNCHANGED target
        /\ UNCHANGED index

\* No usable record; one that fails validation is marked CORRUPT on the way.
DecideUnusable(r) ==
    /\ ~ \E k \in Record(r) : Readable(k)
    /\ \/ /\ stage[r] = "undecided"
          /\ stage' = [stage EXCEPT ![r] = "refresh"]
       \/ stage' = [stage EXCEPT ![r] = "missing"]
    /\ \/ \E k \in Record(r) : row[k] = "COMMITTED" /\ MarkCorrupt(k)
       \/ (\A k \in Record(r) : row[k] = "CORRUPT") /\ UNCHANGED rows
    /\ UNCHANGED <<registry, target>>

Decide(r) ==
    /\ phase = "deciding"
    /\ ~failing
    /\ stage[r] \in Unresolved
    /\ DecideUsable(r) \/ DecideUnusable(r)
    /\ UNCHANGED <<files, sides, work, keep, failing, plan, history, bounds>>

\* All decided: a missing source fails the run before anything is touched.
Proceed ==
    /\ phase = "deciding"
    /\ ~failing
    /\ \A r \in Request : stage[r] \notin Unresolved
    /\ IF \E r \in Request : stage[r] = "missing"
       THEN failing' = TRUE /\ UNCHANGED phase
       ELSE phase' = "capturing" /\ UNCHANGED failing
    /\ UNCHANGED <<files, index, sides, todo, queue, tail, stage, target, keep, plan,
                   history, bounds>>

\* pin, first half: os.replace of metadata.json. Unreadable metadata refuses.
PinMetadata(r, from, to) ==
    /\ phase = "capturing"
    /\ stage[r] = from
    /\ keep
    /\ disk[KeyOf(r)] \in Present
    /\ metaPinned' = metaPinned \cup {KeyOf(r)}
    /\ stage' = [stage EXCEPT ![r] = to]
    /\ UNCHANGED <<disk, completed, index, sides, work, target, keep, failing, plan,
                   history, bounds>>

\* pin, second half: set_pinned, which updates the row if there is one.
PinIndex(r, from, to) ==
    /\ phase = "capturing"
    /\ stage[r] = from
    /\ rowPinned' = IF row[KeyOf(r)] = "none" THEN rowPinned
                    ELSE rowPinned \cup {KeyOf(r)}
    /\ stage' = [stage EXCEPT ![r] = to]
    /\ UNCHANGED <<files, row, active, registry, sides, work, target, keep, failing,
                   plan, history, bounds>>

\* Reused snapshots are pinned one by one before any capture starts.
PinReused(r) ==
    /\ ~failing
    /\ \/ /\ \A q \in Request : stage[q] # "pinning"
          /\ PinMetadata(r, "reuse", "pinning")
       \/ PinIndex(r, "pinning", "ready")

\* A worker opens its pending directory and starts to extract.
StartWrite(r) ==
    /\ phase = "capturing"
    /\ ~failing
    /\ stage[r] = "refresh"
    /\ \A q \in Request : stage[q] \notin {"reuse", "pinning"}
    /\ stage' = [stage EXCEPT ![r] = "writing"]
    /\ UNCHANGED <<files, index, sides, work, target, keep, failing, plan, history, bounds>>

\* Every batch is in: the content fixes the key; metadata and _SUCCESS are written.
Seal(r, c) ==
    /\ phase = "capturing"
    /\ stage[r] = "writing"
    /\ stage' = [stage EXCEPT ![r] = "sealed"]
    /\ target' = [target EXCEPT ![r] = c]
    /\ UNCHANGED <<files, index, sides, work, keep, failing, plan, history, bounds>>

\* No directory under this key yet: os.replace moves the pending one there.
Install(r) ==
    /\ phase = "capturing"
    /\ stage[r] = "sealed"
    /\ disk[KeyOf(r)] = "absent"
    /\ clock < MaxClock
    /\ disk' = [disk EXCEPT ![KeyOf(r)] = "sound"]
    /\ completed' = [completed EXCEPT ![KeyOf(r)] = clock + 1]
    /\ metaPinned' = IF keep THEN metaPinned \cup {KeyOf(r)} ELSE metaPinned
    /\ clock' = clock + 1
    /\ stage' = [stage EXCEPT ![r] = "installed"]
    /\ UNCHANGED <<index, sides, work, target, keep, failing, plan, history, faults>>

\* The directory exists: the pending one is dropped and the existing one validated.
Match(r) ==
    /\ phase = "capturing"
    /\ stage[r] = "sealed"
    /\ disk[KeyOf(r)] # "absent"
    /\ IF disk[KeyOf(r)] = "sound"
       THEN stage' = [stage EXCEPT ![r] = "matched"] /\ UNCHANGED failing
       ELSE stage' = [stage EXCEPT ![r] = "refused"] /\ failing' = TRUE
    /\ UNCHANGED <<files, index, sides, work, target, keep, plan, history, bounds>>

RepinMatched(r) ==
    \/ KeyOf(r) \notin metaPinned /\ PinMetadata(r, "matched", "repinning")
    \/ PinIndex(r, "repinning", "observed")

\* A new directory is validated once more; a matched one gets its receipt.
Recordable(r) ==
    \/ stage[r] = "installed" /\ disk[KeyOf(r)] = "sound"
    \/ stage[r] = "matched" /\ (keep => KeyOf(r) \in metaPinned)
    \/ stage[r] = "observed"

\* Faulty variant: a capture is activated as soon as it is recorded.
RecordCaptureActivates(r) ==
    /\ phase = "capturing"
    /\ Recordable(r)
    /\ row' = [row EXCEPT ![KeyOf(r)] = "COMMITTED"]
    /\ active' = {k \in active : k[1] # r} \cup {KeyOf(r)}
    /\ stage' = [stage EXCEPT ![r] = "ready"]
    /\ UNCHANGED <<files, rowPinned, registry, sides, work, target, keep, failing, plan,
                   history, bounds>>

RecordCapture(r) ==
    /\ phase = "capturing"
    /\ Recordable(r)
    /\ RecordSnapshot(KeyOf(r))
    /\ stage' = [stage EXCEPT ![r] = "ready"]
    /\ UNCHANGED <<files, registry, sides, work, target, keep, failing, plan, history, bounds>>

\* Faulty variant: a source that fails is captured again.
AbortRetries(r) ==
    /\ phase = "capturing"
    /\ stage[r] \in InFlight
    /\ stage' = [stage EXCEPT ![r] = "refresh"]
    /\ UNCHANGED <<files, index, sides, work, target, keep, failing, plan, history, bounds>>

\* Extraction, quota, validation or index error: this source fails, the run drains.
Abort(r) ==
    /\ phase = "capturing"
    /\ stage[r] \in InFlight
    /\ stage' = [stage EXCEPT ![r] = "failed"]
    /\ failing' = TRUE
    /\ UNCHANGED <<files, index, sides, work, target, keep, plan, history, bounds>>

\* Ctrl-C, a policy or pin error, disk budget: any time before publication.
Cancel ==
    /\ phase \in {"deciding", "capturing"}
    /\ ~failing
    /\ failing' = TRUE
    /\ UNCHANGED <<files, index, sides, work, stage, target, keep, plan, history, bounds>>

\* The disk budget is checked right before publication; here it bounds the registry.
Room(d) == Cardinality(datasets \cup sidecars \cup {d}) <= MaxDatasets

\* datasets.commit_dataset: one transaction selects and registers every input.
Publish ==
    /\ phase = "capturing"
    /\ ~failing
    /\ \A r \in Request : stage[r] \in {"out", "ready"}
    /\ IF Activatable(Inputs) /\ Room(Inputs)
       THEN /\ CommitDataset(Inputs, {completed[k] : k \in Inputs})
            /\ published' = published \cup Inputs
            /\ kept' = IF keep THEN kept \cup Inputs ELSE kept
            /\ phase' = "sidecar"
            /\ UNCHANGED failing
       ELSE failing' = TRUE /\ UNCHANGED <<index, published, kept, phase>>
    /\ UNCHANGED <<files, sides, todo, queue, tail, stage, target, keep, plan,
                   selection, bounds>>

\* The recovery record follows the transaction, unless one is there already.
WriteSidecar ==
    /\ phase = "sidecar"
    /\ sidecars' = sidecars \cup {Inputs}
    /\ sideTimes' = IF Inputs \in sidecars THEN sideTimes
                    ELSE [sideTimes EXCEPT ![Inputs] = times[Inputs]]
    /\ phase' = "using"
    /\ UNCHANGED <<files, index, todo, queue, tail, run, plan, history, bounds>>

ResetRun ==
    /\ stage' = NoStage
    /\ target' = NoTarget
    /\ keep' = FALSE
    /\ failing' = FALSE

\* The lock is released after dbt has used the inputs, or once a failure drained.
EndRun ==
    /\ \/ phase = "using"
       \/ /\ phase \in {"deciding", "capturing"}
          /\ failing
          /\ \A r \in Request : stage[r] \notin InFlight
    /\ phase' = "idle"
    /\ ResetRun
    /\ UNCHANGED <<files, index, sides, todo, queue, tail, plan, history, bounds>>

RunStep ==
    \/ \E r \in Request :
        \/ Decide(r)
        \/ PinReused(r)
        \/ StartWrite(r)
        \/ \E c \in Content : Seal(r, c)
        \/ Install(r)
        \/ Match(r)
        \/ RepinMatched(r)
        \/ RecordCapture(r)
        \/ Abort(r)
    \/ Proceed
    \/ Publish
    \/ WriteSidecar
    \/ EndRun

-----------------------------------------------------------------------------
(* clean: targets are listed under the lock, then removed one at a time. *)

\* Faulty variant: datasets retain nothing.
RemovableUnlessActive == {k \in Key : row[k] # "none" /\ k \notin active \cup rowPinned}

Removable ==
    {k \in Key : row[k] # "none" /\ k \notin active \cup rowPinned \cup Referenced}

StartClean ==
    /\ phase = "idle"
    /\ \E S \in SUBSET Removable :                 \* --older-than narrows it
        S # {} /\ todo' = S
    /\ phase' = "cleaning"
    /\ UNCHANGED <<files, index, sides, queue, tail, run, plan, history, bounds>>

StartWipe ==
    /\ phase = "idle"
    /\ phase' = "wiping"
    /\ todo' = {k \in Key : row[k] # "none" \/ disk[k] # "absent"}
    /\ UNCHANGED <<files, index, sides, queue, tail, run, plan, history, bounds>>

\* rmtree has removed some file of the directory ...
Tear(k) ==
    /\ phase \in {"cleaning", "wiping"}
    /\ k \in todo
    /\ disk[k] \in Present
    /\ \A j \in todo : disk[j] # "torn"
    /\ disk' = [disk EXCEPT ![k] = "torn"]
    /\ kept' = IF phase = "wiping" THEN kept \ {k} ELSE kept
    /\ UNCHANGED <<completed, metaPinned, index, sides, work, run, plan, published,
                   selection, bounds>>

\* ... and then the last of it.
Erase(k) ==
    /\ phase \in {"cleaning", "wiping"}
    /\ k \in todo
    /\ disk[k] = "torn"
    /\ disk' = [disk EXCEPT ![k] = "absent"]
    /\ completed' = [completed EXCEPT ![k] = 0]
    /\ metaPinned' = metaPinned \ {k}
    /\ UNCHANGED <<index, sides, work, run, plan, history, bounds>>

Forget(k) ==
    /\ phase \in {"cleaning", "wiping"}
    /\ k \in todo
    /\ disk[k] = "absent"
    /\ DeleteSnapshot(k)
    /\ todo' = todo \ {k}
    /\ UNCHANGED <<files, registry, sides, phase, queue, tail, run, plan, history, bounds>>

EndClean ==
    /\ phase = "cleaning"
    /\ todo = {}
    /\ phase' = "idle"
    /\ UNCHANGED <<files, index, sides, todo, queue, tail, run, plan, history, bounds>>

\* clean --all goes on to the dataset sidecars and, last, to state.sqlite.
WipeSidecar(d) ==
    /\ phase = "wiping"
    /\ todo = {}
    /\ d \in sidecars
    /\ sidecars' = sidecars \ {d}
    /\ sideTimes' = [sideTimes EXCEPT ![d] = {}]
    /\ UNCHANGED <<files, index, work, run, plan, history, bounds>>

WipeIndex ==
    /\ phase = "wiping"
    /\ todo = {}
    /\ sidecars = {}
    /\ ClearSnapshots
    /\ ClearRegistry
    /\ phase' = "idle"
    /\ UNCHANGED <<files, sides, todo, queue, tail, run, plan, history, bounds>>

CleanStep ==
    \/ \E k \in Key : Tear(k) \/ Erase(k) \/ Forget(k)
    \/ EndClean
    \/ \E d \in Dataset : WipeSidecar(d)
    \/ WipeIndex

-----------------------------------------------------------------------------
(* datasets drop: the rows go in one transaction, the sidecar afterwards. *)

StartDrop(d) ==
    /\ phase = "idle"
    /\ d \in datasets
    /\ DeleteDataset(d)
    /\ phase' = "unlinking"
    /\ queue' = {d}
    /\ UNCHANGED <<files, rows, sides, todo, tail, run, plan, history, bounds>>

UnlinkSidecar(d) ==
    /\ phase = "unlinking"
    /\ d \in queue
    /\ sidecars' = sidecars \ {d}
    /\ sideTimes' = [sideTimes EXCEPT ![d] = {}]
    /\ queue' = {}
    /\ phase' = "idle"
    /\ UNCHANGED <<files, index, todo, tail, run, plan, history, bounds>>

-----------------------------------------------------------------------------
(* status --rebuild-index: recreate the rows from the files, then the      *)
(* selection from every dataset known to the index or to a sidecar.        *)

StartRebuild ==
    /\ phase = "idle"
    /\ ClearSnapshots
    /\ phase' = "recording"
    /\ todo' = {k \in Key : disk[k] # "absent"}
    /\ selection' = active
    /\ UNCHANGED <<files, registry, sides, queue, tail, run, plan, published, kept, bounds>>

\* Faulty variant: every recovered snapshot is activated, published or not.
RecordFileActivates(k) ==
    /\ phase = "recording"
    /\ k \in todo
    /\ IF disk[k] = "sound"
       THEN /\ row' = [row EXCEPT ![k] = "COMMITTED"]
            /\ active' = {j \in active : j[1] # k[1]} \cup {k}
       ELSE UNCHANGED <<row, active>>
    /\ todo' = todo \ {k}
    /\ UNCHANGED <<files, rowPinned, registry, sides, phase, queue, tail, run, plan,
                   history, bounds>>

\* Faulty variant: files are recorded without being validated.
RecordFileUnchecked(k) ==
    /\ phase = "recording"
    /\ k \in todo
    /\ RecordSnapshot(k)
    /\ todo' = todo \ {k}
    /\ UNCHANGED <<files, registry, sides, phase, queue, tail, run, plan, history, bounds>>

RecordFile(k) ==
    /\ phase = "recording"
    /\ k \in todo
    /\ IF disk[k] = "sound" THEN RecordSnapshot(k) ELSE UNCHANGED rows
    /\ todo' = todo \ {k}
    /\ UNCHANGED <<files, registry, sides, phase, queue, tail, run, plan, history, bounds>>

\* Faulty variant: the sidecars are not looked at.
ListRegistered ==
    /\ phase = "recording"
    /\ todo = {}
    /\ phase' = "restoring"
    /\ queue' = datasets \ latest
    /\ tail' = latest
    /\ UNCHANGED <<files, index, sides, todo, run, plan, history, bounds>>

ListDatasets ==
    /\ phase = "recording"
    /\ todo = {}
    /\ phase' = "restoring"
    /\ queue' = (datasets \cup sidecars) \ latest
    /\ tail' = latest
    /\ UNCHANGED <<files, index, sides, todo, run, plan, history, bounds>>

Payload(d) == IF d \in datasets THEN times[d] ELSE sideTimes[d]

\* Order of the newest capture in each payload; a dataset without sources is first.
NotAfter(d, e) == \A x \in Payload(d) : \E y \in Payload(e) : x <= y

\* The dataset that was active comes last; the others by their newest capture.
NextToRestore(d) ==
    \/ d \in queue /\ \A e \in queue : NotAfter(d, e)
    \/ queue = {} /\ d \in tail

\* commit_dataset again; a dataset with a missing member is skipped.
Restore(d) ==
    /\ phase = "restoring"
    /\ NextToRestore(d)
    /\ IF Activatable(d) THEN CommitDataset(d, Payload(d)) ELSE UNCHANGED index
    /\ queue' = queue \ {d}
    /\ tail' = tail \ {d}
    /\ UNCHANGED <<files, sides, phase, todo, run, plan, history, bounds>>

EndRebuild ==
    /\ phase = "restoring"
    /\ queue = {}
    /\ tail = {}
    /\ phase' = "idle"
    /\ selection' = {}
    /\ UNCHANGED <<files, index, sides, todo, queue, tail, run, plan, published, kept, bounds>>

RebuildStep ==
    \/ \E k \in Key : RecordFile(k)
    \/ ListDatasets
    \/ \E d \in Dataset : Restore(d)
    \/ EndRebuild

-----------------------------------------------------------------------------
(* plan takes no workspace lock: its decide interleaves with every command. *)

\* The active record, a frozen dataset's member, or whatever --snapshot-id names.
PlanRead(p) ==
    /\ readAt[p] = "idle"
    /\ \E k \in Key :
        /\ row[k] = "COMMITTED"
        /\ readKey' = [readKey EXCEPT ![p] = k]
    /\ readAt' = [readAt EXCEPT ![p] = "read"]
    /\ UNCHANGED <<files, index, sides, work, run, history, bounds>>

PlanValidate(p) ==
    /\ readAt[p] = "read"
    /\ readAt' = [readAt EXCEPT ![p] = IF disk[readKey[p]] = "sound" THEN "idle" ELSE "bad"]
    /\ UNCHANGED <<files, index, sides, work, run, readKey, history, bounds>>

PlanMark(p) ==
    /\ readAt[p] = "bad"
    /\ MarkCorrupt(readKey[p])
    /\ readAt' = [readAt EXCEPT ![p] = "idle"]
    /\ UNCHANGED <<files, registry, sides, work, run, readKey, history, bounds>>

PlanStep == \E p \in Planner : PlanRead(p) \/ PlanValidate(p) \/ PlanMark(p)

-----------------------------------------------------------------------------
(* Faults.  flock is released when its holder dies. *)

Crash ==
    /\ phase # "idle"
    /\ faults < MaxFaults
    /\ faults' = faults + 1
    /\ phase' = "idle"
    /\ todo' = {}
    /\ queue' = {}
    /\ tail' = {}
    /\ ResetRun
    /\ selection' = {}
    /\ UNCHANGED <<files, index, sides, plan, published, kept, clock>>

\* A file of a snapshot is truncated, altered or deleted behind the store's back.
Rot(k) ==
    /\ faults < MaxFaults
    /\ faults' = faults + 1
    /\ disk[k] = "sound"
    /\ disk' = [disk EXCEPT ![k] = "rotten"]
    /\ UNCHANGED <<completed, metaPinned, index, sides, work, run, plan, history, clock>>

\* state.sqlite is deleted; initialize creates an empty one.
LoseIndex ==
    /\ phase = "idle"
    /\ faults < MaxFaults
    /\ faults' = faults + 1
    /\ ClearSnapshots
    /\ ClearRegistry
    /\ UNCHANGED <<files, sides, work, run, plan, history, clock>>

Fault == Crash \/ LoseIndex \/ \E k \in Key : Rot(k)

-----------------------------------------------------------------------------

Start ==
    \/ \E R \in SUBSET Request, pin \in KeepOptions : StartRun(R, pin)
    \/ \E pin \in KeepOptions : StartReplay(pin) \/ StartNamed(pin)
    \/ StartClean
    \/ StartWipe
    \/ \E d \in Dataset : StartDrop(d)
    \/ StartRebuild

\* What the command holding the lock does next, left to itself.
HolderStep ==
    \/ RunStep
    \/ CleanStep
    \/ \E d \in Dataset : UnlinkSidecar(d)
    \/ RebuildStep

Next == Start \/ HolderStep \/ Cancel \/ PlanStep \/ Fault

Spec == Init /\ [][Next]_vars

\* A live process keeps stepping; nothing forces users, planners or faults to act.
FairSpec == Spec /\ WF_vars(HolderStep)

-----------------------------------------------------------------------------
(* Properties. *)

\* A planner that looks up a request finds at most one active snapshot
\* (active_snapshot's LIMIT 1 never has to choose).
OneActivePerRequest == \A j, k \in active : j[1] = k[1] => j = k

\* No snapshot the index calls corrupt, and none it does not know, is selected.
ActiveIsCommitted == \A k \in active : row[k] = "COMMITTED"

\* Nothing an interrupted, failed or cancelled refresh captured is ever selected:
\* not by a later run, and not by a rebuild that finds its files.
SelectedIsPublished == active \subseteq published

\* Files that an active row or a retained dataset needs survive every command but
\* clean --all (which only the first phase of a crash recovery may follow).
RetainedInputs ==
    [][\A k \in active \cup Referenced :
        disk[k] \in Present /\ phase # "wiping" => disk'[k] \in Present]_vars

\* A snapshot published under --keep-snapshot stays pinned in its metadata and in
\* its row, through re-observation by unpinned runs, rebuilds and a lost index.
KeptStayPinned ==
    \A k \in kept :
        /\ disk[k] \in Present
        /\ k \in metaPinned
        /\ row[k] # "none" => k \in rowPinned

\* A dataset becomes the active one only while the files of all its members are
\* there: neither removed nor half removed.
ActivatesPresentFiles ==
    [][\A d \in latest' \ latest : \A k \in d : disk[k] \in Present]_vars

\* When a rebuild ends, every dataset that the index or a sidecar still describes
\* and whose members were recovered is registered, and each of its requests has a
\* selected snapshot, or one that a planner found corrupt while the rebuild ran.
RebuildRecovers ==
    [][phase = "restoring" /\ phase' = "idle" /\ faults' = faults =>
        \A d \in datasets \cup sidecars :
            Activatable(d) =>
                /\ d \in datasets
                /\ \A j \in d :
                    \E k \in Key :
                        k[1] = j[1] /\ (k \in active \/ row[k] = "CORRUPT")]_vars

\* Every command releases the workspace lock.
EveryCommandEnds == phase # "idle" ~> phase = "idle"

\* The index keeps the promises of Publication.
Pub == INSTANCE Publication WITH
        selected <- active, registered <- datasets, recorded <- sidecars
ImplementsPublication == Pub!Spec

\* docs/troubleshooting.md: "Corrupt cache: it is marked `CORRUPT` and never selected;
\* refresh or clean it."  When a refresh captures the very content of a snapshot that
\* is marked CORRUPT, the store's answer leaves that snapshot usable.
RefreshRepairs ==
    [][\A r \in Request :
        /\ stage[r] = "sealed"
        /\ stage'[r] \in {"installed", "matched", "refused"}
        /\ row[KeyOf(r)] = "CORRUPT"
        => disk'[KeyOf(r)] = "sound"]_vars

\* docs/architecture.md: "SQLite is authoritative for complete dataset activation;
\* post-commit dataset sidecars support recovery."  A rebuild that ran to its end
\* leaves selected what was selected before it, if it belongs to a registered dataset
\* and its files were recovered.
RebuildKeepsSelection ==
    [][phase = "restoring" /\ phase' = "idle" /\ faults' = faults =>
        \A k \in selection \cap Referenced : row[k] = "COMMITTED" => k \in active]_vars
=============================================================================
