----------------------- MODULE StoreRefinementProofs -----------------------
(***************************************************************************)
(* Proofs about steps of SnapshotStore, for every value of its constants:  *)
(* every step of the store is a step of Publication or leaves it alone; no *)
(* command but clean --all removes files that are selected or that a       *)
(* registered dataset needs; what becomes active has its files; what is    *)
(* kept stays pinned; and a rebuild restores all that can be restored.     *)
(***************************************************************************)
EXTENDS SnapshotStoreProofs

USE StoreAssumption
USE DEF files, rows, registry, sides, work, run, plan, history, bounds, index

-----------------------------------------------------------------------------
(* Refinement.  A rebuild must only restore what is registered or recorded. *)

RestorableKnown ==
    phase = "restoring" => queue \cup tail \subseteq datasets \cup sidecars

StoreInv == Typed /\ SelectionInv /\ RestorableKnown

LEMMA InitKnown == Init => RestorableKnown
  BY DEF Init, RestorableKnown

LEMMA KnownStep ==
    ASSUME Typed, RestorableKnown, [Next]_vars
    PROVE  RestorableKnown'
<1>1. CASE Start
  BY <1>1 DEF Start, StartRun, StartReplay, StartNamed, StartPinned, StartClean, StartWipe,
              StartDrop, StartRebuild, RestorableKnown
<1>2. CASE RunStep
  BY <1>2 DEF RunStep, Decide, PinReused, RepinMatched, PinMetadata, PinIndex, StartWrite,
              Seal, Install, Match, RecordCapture, Abort, Proceed, Publish, WriteSidecar,
              EndRun, RestorableKnown
<1>3. CASE CleanStep \/ \E d \in Dataset : UnlinkSidecar(d)
  BY <1>3 DEF CleanStep, UnlinkSidecar, Tear, Erase, Forget, EndClean, WipeSidecar,
              WipeIndex, RestorableKnown
<1>4. CASE RebuildStep
  <2>1. ASSUME NEW d \in Dataset, Restore(d) PROVE RestorableKnown'
    BY <2>1 DEF Restore, CommitDataset, RestorableKnown
  <2>2. CASE ListDatasets
    BY <2>2 DEF ListDatasets, RestorableKnown, Typed, TypeOK
  <2>. QED
    BY <1>4, <2>1, <2>2 DEF RebuildStep, RecordFile, EndRebuild, RestorableKnown
<1>5. CASE PlanStep \/ Fault \/ Cancel \/ UNCHANGED vars
  BY <1>5 DEF PlanStep, PlanRead, PlanValidate, PlanMark, Fault, Crash, LoseIndex, Rot,
              Cancel, vars, RestorableKnown
<1>. QED
  BY <1>1, <1>2, <1>3, <1>4, <1>5 DEF Next, HolderStep

LEMMA AlwaysKnown == Spec => []RestorableKnown
  BY InitKnown, KnownStep, AlwaysTyped, PTL DEF Spec

\* The abstract variables are left alone.
Hidden == UNCHANGED <<active, datasets, sidecars, published>>

LEMMA HiddenStutters == Hidden => UNCHANGED Pub!vars
  BY DEF Hidden, Pub!vars

\* Selections taken away, nothing else.
LEMMA DeselectMaps ==
    ASSUME NEW S \in SUBSET Key, active' = active \ S,
           UNCHANGED <<datasets, sidecars, published>>
    PROVE  Pub!Next
  BY DEF Pub!Next, Pub!Deselect

LEMMA CommitMaps ==
    ASSUME NEW d, NEW payload, CommitDataset(d, payload), UNCHANGED sidecars
    PROVE  Pub!Select(d)
  BY DEF Pub!Select, Pub!Requests, CommitDataset

LEMMA StartMaps ==
    ASSUME StoreInv, Start
    PROVE  [Pub!Next]_(Pub!vars)
<1>1. CASE \E R \in SUBSET Request, pin \in KeepOptions : StartRun(R, pin)
  BY <1>1, HiddenStutters DEF StartRun, Hidden
<1>2. ASSUME NEW d, NEW how, NEW pin, StartPinned(d, how, pin)
      PROVE  [Pub!Next]_(Pub!vars)
  BY <1>2, HiddenStutters DEF StartPinned, Hidden
<1>3. CASE StartClean \/ StartWipe
  BY <1>3, HiddenStutters DEF StartClean, StartWipe, Hidden
<1>4. ASSUME NEW d \in Dataset, StartDrop(d)
      PROVE  [Pub!Next]_(Pub!vars)
  <2>1. Pub!Release(d)
    BY <1>4 DEF StartDrop, DeleteDataset, Pub!Release
  <2>. QED
    BY <2>1 DEF Pub!Next
<1>5. CASE StartRebuild
  <2>1. active' = active \ active /\ active \in SUBSET Key
    BY <1>5 DEF StartRebuild, ClearSnapshots, StoreInv, Typed, TypeOK
  <2>. QED
    BY <1>5, <2>1, DeselectMaps DEF StartRebuild
<1>. QED
  BY <1>1, <1>2, <1>3, <1>4, <1>5 DEF Start, StartReplay, StartNamed

LEMMA RunMaps ==
    ASSUME StoreInv, RunStep
    PROVE  [Pub!Next]_(Pub!vars)
<1>1. ASSUME NEW r \in Request, Decide(r)
      PROVE  [Pub!Next]_(Pub!vars)
  <2>1. CASE UNCHANGED rows
    BY <1>1, <2>1, HiddenStutters DEF Decide, DecideUsable, DecideUnusable, Hidden
  <2>2. ASSUME NEW k \in Record(r), MarkCorrupt(k)
        PROVE  [Pub!Next]_(Pub!vars)
    <3>1. {k} \in SUBSET Key
      BY KeyIsTyped DEF Record, StoreInv, Typed, TypeOK
    <3>2. active' = active \ {k}
      BY <2>2 DEF MarkCorrupt
    <3>3. UNCHANGED <<datasets, sidecars, published>>
      BY <1>1 DEF Decide, DecideUsable, DecideUnusable
    <3>. QED
      BY <3>1, <3>2, <3>3, DeselectMaps
  <2>. QED
    BY <1>1, <2>1, <2>2 DEF Decide, DecideUsable, DecideUnusable
<1>2. ASSUME NEW r \in Request,
             \/ PinReused(r) \/ RepinMatched(r) \/ StartWrite(r) \/ Install(r)
             \/ Match(r) \/ RecordCapture(r) \/ Abort(r)
             \/ \E c \in Content : Seal(r, c)
      PROVE  [Pub!Next]_(Pub!vars)
  BY <1>2, HiddenStutters
     DEF PinReused, RepinMatched, PinMetadata, PinIndex, StartWrite, Install, Match,
         RecordCapture, RecordSnapshot, Abort, Seal, Hidden
<1>3. CASE Proceed \/ EndRun
  BY <1>3, HiddenStutters DEF Proceed, EndRun, Hidden
<1>4. CASE Publish
  <2>1. CASE Activatable(Inputs) /\ Room(Inputs)
    <3>1. Pub!Select(Inputs) /\ published' = published \cup Inputs
      BY <1>4, <2>1, CommitMaps DEF Publish
    <3>2. Inputs \in Dataset
      BY InputsAreDataset DEF StoreInv
    <3>. QED
      BY <3>1, <3>2 DEF Pub!Next, Pub!Publish
  <2>2. CASE ~(Activatable(Inputs) /\ Room(Inputs))
    BY <1>4, <2>2, HiddenStutters DEF Publish, Hidden
  <2>. QED
    BY <2>1, <2>2
<1>5. CASE WriteSidecar
  <2>1. Inputs \in Dataset /\ Inputs \in datasets
    BY <1>5, InputsAreDataset DEF WriteSidecar, StoreInv, SelectionInv, RestorablePublished
  <2>2. Pub!Retain(Inputs)
    BY <1>5, <2>1 DEF WriteSidecar, Pub!Retain
  <2>. QED
    BY <2>1, <2>2 DEF Pub!Next
<1>. QED
  BY <1>1, <1>2, <1>3, <1>4, <1>5 DEF RunStep

LEMMA CleanMaps ==
    ASSUME StoreInv, CleanStep \/ \E d \in Dataset : UnlinkSidecar(d)
    PROVE  [Pub!Next]_(Pub!vars)
<1>1. ASSUME NEW k \in Key, Tear(k) \/ Erase(k)
      PROVE  [Pub!Next]_(Pub!vars)
  BY <1>1, HiddenStutters DEF Tear, Erase, Hidden
<1>2. ASSUME NEW k \in Key, Forget(k)
      PROVE  [Pub!Next]_(Pub!vars)
  <2>1. active' = active \ {k} /\ UNCHANGED <<datasets, sidecars, published>>
    BY <1>2 DEF Forget, DeleteSnapshot
  <2>2. {k} \in SUBSET Key
    BY <1>2
  <2>. QED
    BY <2>1, <2>2, DeselectMaps
<1>3. CASE EndClean
  BY <1>3, HiddenStutters DEF EndClean, Hidden
<1>4. ASSUME NEW d \in Dataset, WipeSidecar(d) \/ UnlinkSidecar(d)
      PROVE  [Pub!Next]_(Pub!vars)
  <2>1. Pub!Discard(d)
    BY <1>4 DEF WipeSidecar, UnlinkSidecar, Pub!Discard
  <2>. QED
    BY <2>1 DEF Pub!Next
<1>5. CASE WipeIndex
  BY <1>5 DEF WipeIndex, ClearSnapshots, ClearRegistry, Pub!Next, Pub!Lose
<1>. QED
  BY <1>1, <1>2, <1>3, <1>4, <1>5 DEF CleanStep

LEMMA RebuildMaps ==
    ASSUME StoreInv, RebuildStep
    PROVE  [Pub!Next]_(Pub!vars)
<1>1. CASE ListDatasets \/ EndRebuild \/ \E k \in Key : RecordFile(k)
  BY <1>1, HiddenStutters DEF ListDatasets, EndRebuild, RecordFile, RecordSnapshot, Hidden
<1>2. ASSUME NEW d \in Dataset, Restore(d)
      PROVE  [Pub!Next]_(Pub!vars)
  <2>1. CASE Activatable(d)
    <3>1. Pub!Select(d) /\ published' = published
      BY <1>2, <2>1, CommitMaps DEF Restore
    <3>2. d \in datasets \cup sidecars
      BY <1>2 DEF Restore, NextToRestore, StoreInv, RestorableKnown
    <3>. QED
      BY <3>1, <3>2 DEF Pub!Next, Pub!Recover
  <2>2. CASE ~Activatable(d)
    BY <1>2, <2>2, HiddenStutters DEF Restore, Hidden
  <2>. QED
    BY <2>1, <2>2
<1>. QED
  BY <1>1, <1>2 DEF RebuildStep

LEMMA OtherMaps ==
    ASSUME StoreInv, PlanStep \/ Fault \/ Cancel \/ UNCHANGED vars
    PROVE  [Pub!Next]_(Pub!vars)
<1>1. ASSUME NEW p \in Planner, PlanMark(p)
      PROVE  [Pub!Next]_(Pub!vars)
  <2>1. {readKey[p]} \in SUBSET Key
    BY DEF StoreInv, Typed, TypeOK
  <2>. QED
    BY <1>1, <2>1, DeselectMaps DEF PlanMark, MarkCorrupt
<1>2. ASSUME NEW p \in Planner, PlanRead(p) \/ PlanValidate(p)
      PROVE  [Pub!Next]_(Pub!vars)
  BY <1>2, HiddenStutters DEF PlanRead, PlanValidate, Hidden
<1>3. CASE LoseIndex
  BY <1>3 DEF LoseIndex, ClearSnapshots, ClearRegistry, Pub!Next, Pub!Lose
<1>4. CASE Crash \/ Cancel \/ UNCHANGED vars \/ \E k \in Key : Rot(k)
  BY <1>4, HiddenStutters DEF Crash, Cancel, Rot, vars, Hidden
<1>. QED
  BY <1>1, <1>2, <1>3, <1>4 DEF PlanStep, Fault

\* The index implements Publication: for every request at most one selected snapshot,
\* and the selection only moves by whole source sets that a run published or that the
\* registry or a sidecar still describes.
THEOREM StoreImplementsPublication == Spec => ImplementsPublication
<1>1. Init => Pub!Init
  BY DEF Init, Pub!Init
<1>2. StoreInv /\ [Next]_vars => [Pub!Next]_(Pub!vars)
  BY StartMaps, RunMaps, CleanMaps, RebuildMaps, OtherMaps DEF Next, HolderStep
<1>3. Spec => []StoreInv
  BY AlwaysTyped, AlwaysSelection, AlwaysKnown, PTL DEF StoreInv
<1>. QED
  BY <1>1, <1>2, <1>3, PTL DEF Spec, Pub!Spec, ImplementsPublication

-----------------------------------------------------------------------------
(* Retention.  What clean has listed is needed by nobody while it removes it. *)

ListedUnused == phase = "cleaning" => todo \cap (active \cup Referenced) = {}

LEMMA InitUnused == Init => ListedUnused
  BY DEF Init, ListedUnused

\* While clean runs, active rows and datasets can only go.
LEMMA UnusedStep == ListedUnused /\ [Next]_vars => ListedUnused'
<1>. SUFFICES ASSUME ListedUnused, [Next]_vars PROVE ListedUnused'
  OBVIOUS
<1>1. CASE StartClean
  BY <1>1 DEF StartClean, Removable, Referenced, ListedUnused
<1>2. CASE Start /\ ~StartClean
  BY <1>2 DEF Start, StartRun, StartReplay, StartNamed, StartPinned, StartWipe,
              StartDrop, StartRebuild, ListedUnused
<1>3. CASE RunStep
  BY <1>3 DEF RunStep, Decide, PinReused, RepinMatched, PinMetadata, PinIndex, StartWrite,
              Seal, Install, Match, RecordCapture, Abort, Proceed, Publish, WriteSidecar,
              EndRun, ListedUnused
<1>4. CASE CleanStep \/ \E d \in Dataset : UnlinkSidecar(d)
  <2>1. ASSUME NEW k \in Key, Tear(k) \/ Erase(k) \/ Forget(k)
        PROVE  ListedUnused'
    BY <2>1 DEF Tear, Erase, Forget, DeleteSnapshot, Referenced, ListedUnused
  <2>. QED
    BY <1>4, <2>1 DEF CleanStep, UnlinkSidecar, EndClean, WipeSidecar, WipeIndex, ListedUnused
<1>5. CASE RebuildStep
  BY <1>5 DEF RebuildStep, RecordFile, ListDatasets, Restore, EndRebuild, ListedUnused
<1>6. CASE PlanStep
  BY <1>6 DEF PlanStep, PlanRead, PlanValidate, PlanMark, MarkCorrupt, Referenced, ListedUnused
<1>7. CASE Fault \/ Cancel \/ UNCHANGED vars
  BY <1>7 DEF Fault, Crash, LoseIndex, Rot, Cancel, Referenced, vars, ListedUnused
<1>. QED
  BY <1>1, <1>2, <1>3, <1>4, <1>5, <1>6, <1>7 DEF Next, HolderStep

LEMMA AlwaysUnused == Spec => []ListedUnused
  BY InitUnused, UnusedStep, PTL DEF Spec

\* The property, for one step.
Retains ==
    \A k \in active \cup Referenced :
        disk[k] \in Present /\ phase # "wiping" => disk'[k] \in Present

LEMMA StepRetains == Typed /\ ListedUnused /\ [Next]_vars => Retains
<1>. SUFFICES ASSUME Typed, ListedUnused, [Next]_vars PROVE Retains
  OBVIOUS
<1>. USE DEF Present
<1>1. ASSUME NEW k \in Key, Tear(k) PROVE Retains
  BY <1>1 DEF Tear, ListedUnused, Retains, Typed, TypeOK
<1>2. ASSUME NEW k \in Key, Erase(k) PROVE Retains
  BY <1>2 DEF Erase, Retains, Typed, TypeOK
<1>3. ASSUME NEW r \in Request, Install(r) PROVE Retains
  BY <1>3, KeyIsTyped DEF Install, Retains, Typed, TypeOK
<1>4. ASSUME NEW k \in Key, Rot(k) PROVE Retains
  BY <1>4 DEF Rot, Retains, Typed, TypeOK
<1>5. CASE UNCHANGED disk
  BY <1>5 DEF Retains
<1>6. CASE Start
  BY <1>5, <1>6 DEF Start, StartRun, StartReplay, StartNamed, StartPinned, StartClean,
                    StartWipe, StartDrop, StartRebuild
<1>7. CASE RunStep
  BY <1>3, <1>5, <1>7 DEF RunStep, Decide, PinReused, RepinMatched, PinMetadata, PinIndex,
                    StartWrite, Seal, Match, RecordCapture, Abort, Proceed, Publish,
                    WriteSidecar, EndRun
<1>8. CASE CleanStep \/ \E d \in Dataset : UnlinkSidecar(d)
  BY <1>1, <1>2, <1>5, <1>8 DEF CleanStep, UnlinkSidecar, Forget, EndClean, WipeSidecar, WipeIndex
<1>9. CASE RebuildStep
  BY <1>5, <1>9 DEF RebuildStep, RecordFile, ListDatasets, Restore, EndRebuild
<1>10. CASE PlanStep \/ Fault \/ Cancel \/ UNCHANGED vars
  BY <1>4, <1>5, <1>10 DEF PlanStep, PlanRead, PlanValidate, PlanMark, Fault, Crash,
                    LoseIndex, Cancel, vars
<1>. QED
  BY <1>6, <1>7, <1>8, <1>9, <1>10 DEF Next, HolderStep

\* Short of clean --all, no command, crash or concurrent planner removes the files of a
\* selected snapshot or of a member of a registered dataset.
THEOREM InputsRetained == Spec => RetainedInputs
<1>1. Typed /\ ListedUnused /\ [Next]_vars => [Retains]_vars
  BY StepRetains
<1>. QED
  BY <1>1, AlwaysTyped, AlwaysUnused, PTL DEF Spec, RetainedInputs, Retains
-----------------------------------------------------------------------------
(* Activation.  What a run has settled on, and what a rebuild has recovered,  *)
(* is on disk: nobody removes directories while the lock is theirs.           *)

\* Stages in which a request's key names a directory that was found or installed.
Resolved == {"reuse", "pinning", "ready", "installed", "matched", "repinning", "observed"}

InputsPresent ==
    phase \in {"deciding", "capturing"} =>
        \A r \in Request : stage[r] \in Resolved => disk[KeyOf(r)] \in Present

RecoveredPresent ==
    phase \in {"recording", "restoring"} =>
        \A k \in Key : row[k] = "COMMITTED" => disk[k] \in Present

FilesInv == InputsPresent /\ RecoveredPresent

\* Nothing of the run moves but its phase; no directory goes, no row is committed.
FilesKept ==
    /\ UNCHANGED <<stage, target>>
    /\ phase' \in {"deciding", "capturing"} => phase \in {"deciding", "capturing"}
    /\ phase' \in {"recording", "restoring"} => phase \in {"recording", "restoring"}
    /\ \A k \in Key : disk[k] \in Present => disk'[k] \in Present
    /\ \A k \in Key : row'[k] = "COMMITTED" => row[k] = "COMMITTED"

LEMMA KeptFiles ==
    ASSUME Typed, FilesInv, FilesKept
    PROVE  FilesInv'
<1>. USE DEF FilesInv, FilesKept, Present
<1>1. \A r \in Request : KeyOf(r)' = KeyOf(r) /\ KeyOf(r) \in Key
  BY KeyIsTyped DEF KeyOf
<1>2. InputsPresent'
  BY <1>1 DEF InputsPresent
<1>3. RecoveredPresent'
  BY DEF RecoveredPresent
<1>. QED
  BY <1>2, <1>3

LEMMA InitFiles == Init => FilesInv
  BY DEF Init, FilesInv, InputsPresent, RecoveredPresent

\* A run starts with nothing resolved, a rebuild with no rows.
LEMMA StartFiles ==
    ASSUME Typed, FilesInv, Start
    PROVE  FilesInv'
<1>. USE DEF FilesInv, InputsPresent, RecoveredPresent, Resolved
<1>1. ASSUME NEW R \in SUBSET Request, NEW pin \in KeepOptions, StartRun(R, pin)
      PROVE  FilesInv'
  BY <1>1 DEF StartRun
<1>2. ASSUME NEW d, NEW how \in {"frozen", "named"}, NEW pin, StartPinned(d, how, pin)
      PROVE  FilesInv'
  BY <1>2 DEF StartPinned
<1>3. CASE StartClean \/ StartWipe \/ \E d \in Dataset : StartDrop(d)
  BY <1>3 DEF StartClean, StartWipe, StartDrop
<1>4. CASE StartRebuild
  BY <1>4 DEF StartRebuild, ClearSnapshots
<1>. QED
  BY <1>1, <1>2, <1>3, <1>4 DEF Start, StartReplay, StartNamed

\* One request moves on; where it is resolved afterwards, its directory is there.
LEMMA AdvanceFiles ==
    ASSUME Typed, FilesInv, NEW r \in Request, phase' = phase,
           phase \in {"deciding", "capturing"},
           \A q \in Request \ {r} : stage'[q] = stage[q] /\ target'[q] = target[q],
           \A k \in Key : disk[k] \in Present => disk'[k] \in Present,
           stage'[r] \in Resolved => disk'[KeyOf(r)'] \in Present
    PROVE  FilesInv'
<1>1. \A q \in Request \ {r} : KeyOf(q)' = KeyOf(q) /\ KeyOf(q) \in Key
  BY KeyIsTyped DEF KeyOf
<1>2. InputsPresent'
  <2>. SUFFICES ASSUME NEW q \in Request, stage'[q] \in Resolved
                PROVE  disk'[KeyOf(q)'] \in Present
    BY DEF InputsPresent, Resolved, Present
  <2>1. CASE q = r
    BY <2>1
  <2>2. CASE q # r
    BY <1>1, <2>2 DEF FilesInv, InputsPresent
  <2>. QED
    BY <2>1, <2>2
<1>3. RecoveredPresent'
  BY DEF RecoveredPresent
<1>. QED
  BY <1>2, <1>3 DEF FilesInv

LEMMA RunFiles ==
    ASSUME Typed, FilesInv, RunStep
    PROVE  FilesInv'
<1>1. ASSUME NEW r \in Request, Decide(r)
      PROVE  FilesInv'
  <2>1. CASE DecideUsable(r)
    <3>1. PICK k \in Record(r) :
            /\ Readable(k)
            /\ \/ stage'[r] \in {"reuse", "ready"} /\ target' = [target EXCEPT ![r] = k[2]]
               \/ stage'[r] \in {"refresh", "missing"}
      BY <2>1 DEF DecideUsable, Typed, TypeOK
    <3>2. k \in Key /\ k[1] = r
      BY KeyIsTyped DEF Record, KeyOf, Typed, TypeOK
    <3>3. k = <<r, k[2]>>
      BY <3>2 DEF Key
    <3>4. stage'[r] \in Resolved => disk'[KeyOf(r)'] \in Present
      BY <1>1, <3>1, <3>3 DEF Decide, KeyOf, Readable, Present, Resolved, Typed, TypeOK
    <3>. QED
      BY <1>1, <2>1, <3>4, AdvanceFiles DEF Decide, DecideUsable, Typed, TypeOK
  <2>2. CASE DecideUnusable(r)
    <3>1. stage'[r] \notin Resolved
      BY <2>2 DEF DecideUnusable, Typed, TypeOK, Resolved
    <3>. QED
      BY <1>1, <2>2, <3>1, AdvanceFiles DEF Decide, DecideUnusable, Typed, TypeOK
  <2>. QED
    BY <1>1, <2>1, <2>2 DEF Decide
<1>2. ASSUME NEW r \in Request,
             \/ PinReused(r) \/ RepinMatched(r) \/ Match(r) \/ RecordCapture(r)
      PROVE  FilesInv'
  <2>1. stage[r] \in Resolved \/ disk[KeyOf(r)] = "sound" \/ stage'[r] \notin Resolved
    BY <1>2 DEF PinReused, RepinMatched, PinMetadata, PinIndex, Match, RecordCapture,
                Recordable, Resolved, Typed, TypeOK
  <2>2. /\ phase = "capturing" /\ UNCHANGED <<phase, disk, target>>
        /\ \A q \in Request \ {r} : stage'[q] = stage[q]
    BY <1>2 DEF PinReused, RepinMatched, PinMetadata, PinIndex, Match, RecordCapture,
                Typed, TypeOK
  <2>3. stage'[r] \in Resolved => disk'[KeyOf(r)'] \in Present
    BY <2>1, <2>2 DEF FilesInv, InputsPresent, Present, KeyOf
  <2>. QED
    BY <2>2, <2>3, AdvanceFiles
<1>3. ASSUME NEW r \in Request, StartWrite(r) \/ Abort(r) \/ \E c \in Content : Seal(r, c)
      PROVE  FilesInv'
  <2>1. stage'[r] \notin Resolved
    BY <1>3 DEF StartWrite, Abort, Seal, Resolved, Typed, TypeOK
  <2>. QED
    BY <1>3, <2>1, AdvanceFiles DEF StartWrite, Abort, Seal, Typed, TypeOK
<1>4. ASSUME NEW r \in Request, Install(r)
      PROVE  FilesInv'
  <2>1. disk'[KeyOf(r)'] = "sound"
    BY <1>4, KeyIsTyped DEF Install, KeyOf, Typed, TypeOK
  <2>2. \A k \in Key : disk[k] \in Present => disk'[k] \in Present
    BY <1>4 DEF Install, Present, Typed, TypeOK
  <2>. QED
    BY <1>4, <2>1, <2>2, AdvanceFiles DEF Install, Present, Typed, TypeOK
<1>5. CASE Proceed \/ Publish \/ WriteSidecar
  <2>1. FilesKept
    BY <1>5 DEF Proceed, Publish, CommitDataset, WriteSidecar, FilesKept
  <2>. QED
    BY <2>1, KeptFiles
<1>6. CASE EndRun
  BY <1>6 DEF EndRun, FilesInv, InputsPresent, RecoveredPresent
<1>. QED
  BY <1>1, <1>2, <1>3, <1>4, <1>5, <1>6 DEF RunStep

LEMMA CleanFiles ==
    ASSUME CleanStep \/ \E d \in Dataset : UnlinkSidecar(d)
    PROVE  FilesInv'
  BY DEF CleanStep, Tear, Erase, Forget, EndClean, WipeSidecar, WipeIndex, UnlinkSidecar,
         FilesInv, InputsPresent, RecoveredPresent

\* A rebuild records what it has just validated.
LEMMA RebuildFiles ==
    ASSUME Typed, FilesInv, RebuildStep
    PROVE  FilesInv'
<1>1. ASSUME NEW k \in Key, RecordFile(k)
      PROVE  FilesInv'
  <2>1. \A j \in Key : row'[j] = "COMMITTED" => row[j] = "COMMITTED" \/ disk[j] = "sound"
    BY <1>1 DEF RecordFile, RecordSnapshot, Typed, TypeOK
  <2>. QED
    BY <1>1, <2>1 DEF RecordFile, FilesInv, InputsPresent, RecoveredPresent, Present
<1>2. CASE ListDatasets \/ \E d \in Dataset : Restore(d)
  <2>1. FilesKept
    BY <1>2 DEF ListDatasets, Restore, CommitDataset, FilesKept
  <2>. QED
    BY <2>1, KeptFiles
<1>3. CASE EndRebuild
  BY <1>3 DEF EndRebuild, FilesInv, InputsPresent, RecoveredPresent
<1>. QED
  BY <1>1, <1>2, <1>3 DEF RebuildStep

\* Planners take rows away, rot leaves the directory where it is.
LEMMA OtherFiles ==
    ASSUME Typed, FilesInv, PlanStep \/ Fault \/ Cancel \/ UNCHANGED vars
    PROVE  FilesInv'
<1>1. ASSUME NEW p \in Planner, PlanRead(p) \/ PlanValidate(p) \/ PlanMark(p)
      PROVE  FilesInv'
  <2>1. FilesKept
    BY <1>1 DEF PlanRead, PlanValidate, PlanMark, MarkCorrupt, FilesKept, Typed, TypeOK
  <2>. QED
    BY <2>1, KeptFiles
<1>2. CASE Cancel \/ UNCHANGED vars \/ \E k \in Key : Rot(k)
  <2>1. FilesKept
    BY <1>2 DEF Cancel, vars, Rot, FilesKept, Present, Typed, TypeOK
  <2>. QED
    BY <2>1, KeptFiles
<1>3. CASE Crash \/ LoseIndex
  BY <1>3 DEF Crash, LoseIndex, FilesInv, InputsPresent, RecoveredPresent
<1>. QED
  BY <1>1, <1>2, <1>3 DEF PlanStep, Fault

LEMMA FilesStep == Typed /\ FilesInv /\ [Next]_vars => FilesInv'
  BY StartFiles, RunFiles, CleanFiles, RebuildFiles, OtherFiles DEF Next, HolderStep

LEMMA AlwaysFiles == Spec => []FilesInv
  BY InitFiles, FilesStep, AlwaysTyped, PTL DEF Spec

\* The property, for one step.
ActivatesPresent == \A d \in latest' \ latest : \A k \in d : disk[k] \in Present

LEMMA StepActivates == Typed /\ FilesInv /\ [Next]_vars => ActivatesPresent
<1>. SUFFICES ASSUME Typed, FilesInv, [Next]_vars PROVE ActivatesPresent
  OBVIOUS
<1>1. CASE Publish
  <2>1. ASSUME NEW k \in Inputs, \A r \in Request : stage[r] \in {"out", "ready"},
               phase = "capturing"
        PROVE  disk[k] \in Present
    BY <2>1 DEF Inputs, FilesInv, InputsPresent, Resolved
  <2>2. latest' \ latest \subseteq {Inputs}
    BY <1>1 DEF Publish, CommitDataset
  <2>. QED
    BY <1>1, <2>1, <2>2 DEF Publish, ActivatesPresent
<1>2. ASSUME NEW d \in Dataset, Restore(d)
      PROVE  ActivatesPresent
  <2>1. latest' \ latest \subseteq {d} /\ (latest' # latest => Activatable(d))
    BY <1>2 DEF Restore, CommitDataset
  <2>2. d \subseteq Key
    BY DEF Dataset
  <2>3. Activatable(d) => \A k \in d : disk[k] \in Present
    BY <1>2, <2>2 DEF Restore, Activatable, FilesInv, RecoveredPresent
  <2>. QED
    BY <2>1, <2>3 DEF ActivatesPresent
<1>3. CASE latest' \subseteq latest
  BY <1>3 DEF ActivatesPresent
<1>4. CASE Start
  BY <1>3, <1>4 DEF Start, StartRun, StartReplay, StartNamed, StartPinned, StartClean,
                    StartWipe, StartDrop, DeleteDataset, StartRebuild
<1>5. CASE RunStep
  BY <1>1, <1>3, <1>5 DEF RunStep, Decide, DecideUsable, DecideUnusable, PinReused,
                    RepinMatched, PinMetadata, PinIndex, StartWrite, Seal, Install, Match,
                    RecordCapture, Abort, Proceed, WriteSidecar, EndRun
<1>6. CASE CleanStep \/ \E d \in Dataset : UnlinkSidecar(d)
  BY <1>3, <1>6 DEF CleanStep, Tear, Erase, Forget, EndClean, WipeSidecar, WipeIndex,
                    ClearRegistry, UnlinkSidecar
<1>7. CASE RebuildStep
  BY <1>2, <1>3, <1>7 DEF RebuildStep, RecordFile, ListDatasets, EndRebuild
<1>8. CASE PlanStep \/ Fault \/ Cancel \/ UNCHANGED vars
  BY <1>3, <1>8 DEF PlanStep, PlanRead, PlanValidate, PlanMark, Fault, Crash, LoseIndex,
                    ClearRegistry, Rot, Cancel, vars
<1>. QED
  BY <1>4, <1>5, <1>6, <1>7, <1>8 DEF Next, HolderStep

\* Whatever was removed, torn or lost before, a dataset that a run publishes or a rebuild
\* restores has the directories of all its members when it becomes the active one.
THEOREM FilesBehindActive == Spec => ActivatesPresentFiles
<1>1. Typed /\ FilesInv /\ [Next]_vars => [ActivatesPresent]_vars
  BY StepActivates
<1>. QED
  BY <1>1, AlwaysTyped, AlwaysFiles, PTL DEF Spec, ActivatesPresentFiles, ActivatesPresent

-----------------------------------------------------------------------------
(* Pins.  A snapshot published under --keep-snapshot is out of clean's reach: *)
(* its pin is in metadata.json before its row is, and clean lists by rows.    *)

\* What a keeping run has come past pinning is pinned, in both places once it is ready.
InputsPinned ==
    phase \in {"deciding", "capturing"} /\ keep =>
        \A r \in Request :
            /\ stage[r] \in {"pinning", "installed", "repinning", "observed", "ready"} =>
                   KeyOf(r) \in metaPinned
            /\ stage[r] = "ready" /\ row[KeyOf(r)] # "none" => KeyOf(r) \in rowPinned

ListedUnkept == phase = "cleaning" => todo \cap kept = {}

PinInv == KeptStayPinned /\ InputsPinned /\ ListedUnkept

\* Kept snapshots are neither erased nor unpinned, and get no row without the pin.
PinsKept ==
    \A k \in kept' :
        /\ disk[k] \in Present => disk'[k] \in Present
        /\ k \in metaPinned => k \in metaPinned'
        /\ (row[k] # "none" => k \in rowPinned) => (row'[k] # "none" => k \in rowPinned')

LEMMA KeptPins ==
    ASSUME PinInv, kept' \subseteq kept, PinsKept
    PROVE  KeptStayPinned'
  BY DEF PinInv, KeptStayPinned, PinsKept, Present

\* A row is written with the pin that its metadata has.
LEMMA RecordPins ==
    ASSUME Typed, PinInv, NEW k \in Key, RecordSnapshot(k), UNCHANGED <<files, kept>>
    PROVE  KeptStayPinned'
<1>1. \A j \in kept : j \in Key
  BY DEF Typed, TypeOK
<1>2. PinsKept
  BY <1>1 DEF PinInv, KeptStayPinned, PinsKept, RecordSnapshot, Typed, TypeOK
<1>. QED
  BY <1>2, KeptPins

LEMMA MarkPins ==
    ASSUME Typed, PinInv, NEW k \in Key, MarkCorrupt(k), UNCHANGED <<files, kept>>
    PROVE  KeptStayPinned'
<1>1. PinsKept
  BY DEF PinsKept, MarkCorrupt, Typed, TypeOK
<1>. QED
  BY <1>1, KeptPins

LEMMA InitPins == Init => PinInv
  BY DEF Init, PinInv, KeptStayPinned, InputsPinned, ListedUnkept

\* The kept snapshots, step by step.
LEMMA KeptStep ==
    ASSUME Typed, FilesInv, PinInv, [Next]_vars
    PROVE  KeptStayPinned'
<1>1. ASSUME UNCHANGED <<files, rows, kept>>
      PROVE  KeptStayPinned'
  BY <1>1 DEF PinInv, KeptStayPinned, Present
<1>2. CASE Start
  <2>1. CASE StartRebuild
    BY <2>1, KeptPins DEF StartRebuild, ClearSnapshots, PinsKept, Typed, TypeOK
  <2>. QED
    BY <1>1, <1>2, <2>1 DEF Start, StartRun, StartReplay, StartNamed, StartPinned,
                            StartClean, StartWipe, StartDrop
<1>3. CASE RunStep
  <2>1. ASSUME NEW r \in Request, Decide(r) PROVE KeptStayPinned'
    <3>1. Record(r) \subseteq Key
      BY KeyIsTyped DEF Record, Typed, TypeOK
    <3>. QED
      BY <1>1, <2>1, <3>1, MarkPins DEF Decide, DecideUsable, DecideUnusable
  <2>2. ASSUME NEW r \in Request, PinReused(r) \/ RepinMatched(r) PROVE KeptStayPinned'
    BY <2>2, KeptPins DEF PinReused, RepinMatched, PinMetadata, PinIndex, PinsKept
  <2>3. ASSUME NEW r \in Request, Install(r) PROVE KeptStayPinned'
    <3>1. KeyOf(r) \in Key /\ disk[KeyOf(r)] = "absent"
      BY <2>3, KeyIsTyped DEF Install
    <3>. QED
      BY <2>3, <3>1, KeptPins DEF Install, PinsKept, Present, Typed, TypeOK
  <2>4. ASSUME NEW r \in Request, RecordCapture(r) PROVE KeptStayPinned'
    BY <2>4, KeyIsTyped, RecordPins DEF RecordCapture
  <2>5. CASE Publish
    <3>1. CASE UNCHANGED kept
      BY <1>1, <2>5, <3>1, KeptPins DEF Publish, CommitDataset, PinsKept
    <3>2. CASE kept' = kept \cup Inputs /\ keep /\ Activatable(Inputs)
      <4>1. ASSUME NEW k \in Inputs
            PROVE  disk[k] \in Present /\ k \in metaPinned /\ k \in rowPinned
        <5>1. PICK r \in Request : stage[r] = "ready" /\ k = KeyOf(r)
          BY <2>5 DEF Publish, Inputs
        <5>2. row[k] = "COMMITTED"
          BY <3>2 DEF Activatable
        <5>. QED
          BY <2>5, <3>2, <5>1, <5>2 DEF Publish, PinInv, InputsPinned, FilesInv,
                                        InputsPresent, Resolved
      <4>2. UNCHANGED <<files, row, rowPinned>>
        BY <2>5 DEF Publish, CommitDataset
      <4>. QED
        BY <3>2, <4>1, <4>2 DEF PinInv, KeptStayPinned, Present
    <3>. QED
      BY <2>5, <3>1, <3>2 DEF Publish
  <2>. QED
    BY <1>1, <1>3, <2>1, <2>2, <2>3, <2>4, <2>5
       DEF RunStep, StartWrite, Seal, Match, Abort, Proceed, WriteSidecar, EndRun
<1>4. CASE CleanStep \/ \E d \in Dataset : UnlinkSidecar(d)
  <2>1. ASSUME NEW k \in Key, Tear(k) PROVE KeptStayPinned'
    <3>1. k \notin kept'
      BY <2>1 DEF Tear, PinInv, ListedUnkept
    <3>2. kept' \subseteq kept
      BY <2>1 DEF Tear
    <3>. QED
      BY <2>1, <3>1, <3>2, KeptPins DEF Tear, PinsKept, Typed, TypeOK
  <2>2. ASSUME NEW k \in Key, Erase(k) \/ Forget(k) PROVE KeptStayPinned'
    <3>1. k \notin kept
      BY <2>2 DEF Erase, Forget, PinInv, KeptStayPinned, Present
    <3>. QED
      BY <2>2, <3>1, KeptPins DEF Erase, Forget, DeleteSnapshot, PinsKept, Typed, TypeOK
  <2>3. CASE WipeIndex
    BY <2>3, KeptPins DEF WipeIndex, ClearSnapshots, PinsKept, Typed, TypeOK
  <2>. QED
    BY <1>1, <1>4, <2>1, <2>2, <2>3 DEF CleanStep, EndClean, WipeSidecar, UnlinkSidecar
<1>5. CASE RebuildStep
  <2>1. ASSUME NEW k \in Key, RecordFile(k) PROVE KeptStayPinned'
    BY <1>1, <2>1, RecordPins DEF RecordFile
  <2>2. ASSUME NEW d \in Dataset, Restore(d) PROVE KeptStayPinned'
    BY <2>2, KeptPins DEF Restore, CommitDataset, PinsKept
  <2>. QED
    BY <1>1, <1>5, <2>1, <2>2 DEF RebuildStep, ListDatasets, EndRebuild
<1>6. CASE PlanStep
  <2>1. ASSUME NEW p \in Planner, PlanMark(p) PROVE KeptStayPinned'
    <3>1. readKey[p] \in Key
      BY DEF Typed, TypeOK
    <3>. QED
      BY <2>1, <3>1, MarkPins DEF PlanMark
  <2>. QED
    BY <1>1, <1>6, <2>1 DEF PlanStep, PlanRead, PlanValidate
<1>7. CASE Fault \/ Cancel \/ UNCHANGED vars
  <2>1. CASE LoseIndex
    BY <2>1, KeptPins DEF LoseIndex, ClearSnapshots, PinsKept, Typed, TypeOK
  <2>2. ASSUME NEW k \in Key, Rot(k) PROVE KeptStayPinned'
    BY <2>2, KeptPins DEF Rot, PinsKept, Present, Typed, TypeOK
  <2>. QED
    BY <1>1, <1>7, <2>1, <2>2 DEF Fault, Crash, Cancel, vars
<1>. QED
  BY <1>2, <1>3, <1>4, <1>5, <1>6, <1>7 DEF Next, HolderStep

\* The pins of a keeping run: other requests' keys differ, so their steps disturb nothing.
LEMMA AdvancePins ==
    ASSUME Typed, PinInv, NEW r \in Request, UNCHANGED <<phase, keep>>,
           \A q \in Request \ {r} :
               /\ stage'[q] = stage[q] /\ target'[q] = target[q]
               /\ KeyOf(q) \in metaPinned => KeyOf(q) \in metaPinned'
               /\ row'[KeyOf(q)] # "none" => row[KeyOf(q)] # "none"
               /\ KeyOf(q) \in rowPinned => KeyOf(q) \in rowPinned',
           keep =>
               /\ stage'[r] \in {"pinning", "installed", "repinning", "observed", "ready"} =>
                      KeyOf(r)' \in metaPinned'
               /\ stage'[r] = "ready" /\ row'[KeyOf(r)'] # "none" => KeyOf(r)' \in rowPinned'
    PROVE  InputsPinned'
<1>. SUFFICES ASSUME NEW q \in Request, phase \in {"deciding", "capturing"}, keep
              PROVE  /\ stage'[q] \in {"pinning", "installed", "repinning", "observed",
                                       "ready"} => KeyOf(q)' \in metaPinned'
                     /\ stage'[q] = "ready" /\ row'[KeyOf(q)'] # "none" =>
                            KeyOf(q)' \in rowPinned'
  BY DEF InputsPinned
<1>1. CASE q = r
  BY <1>1
<1>2. CASE q # r
  <2>1. KeyOf(q)' = KeyOf(q)
    BY <1>2 DEF KeyOf
  <2>. QED
    BY <1>2, <2>1 DEF PinInv, InputsPinned
<1>. QED
  BY <1>1, <1>2

\* Outside the run's own phases there is nothing to say, and planners only mark rows.
LEMMA PinnedElsewhere ==
    ASSUME PinInv,
           \/ phase' \notin {"deciding", "capturing"}
           \/ /\ UNCHANGED <<stage, target, metaPinned, rowPinned>>
              /\ phase \in {"deciding", "capturing"} /\ keep' = keep
              /\ \A k \in Key : row'[k] # "none" => row[k] # "none"
              /\ \A q \in Request : KeyOf(q) \in Key
    PROVE  InputsPinned'
  BY DEF PinInv, InputsPinned, KeyOf

\* A step of one request moves no other request's key, and takes no pin away.
LEMMA OtherKeys ==
    ASSUME Typed, NEW r \in Request, NEW q \in Request \ {r}
    PROVE  KeyOf(q) \in Key /\ KeyOf(q) # KeyOf(r)
  BY KeyIsTyped DEF KeyOf

LEMMA InputsPinnedStep ==
    ASSUME Typed, PinInv, [Next]_vars
    PROVE  InputsPinned'
<1>. \A q \in Request : KeyOf(q) \in Key
  BY KeyIsTyped
<1>1. CASE Start
  <2>1. CASE phase' = "deciding"
    <3>1. \A r \in Request : stage'[r] \in {"out", "undecided", "frozen", "named"}
      BY <1>1, <2>1 DEF Start, StartRun, StartReplay, StartNamed, StartPinned, StartClean,
                        StartWipe, StartDrop, StartRebuild
    <3>. QED
      BY <3>1 DEF InputsPinned
  <2>2. CASE phase' # "deciding"
    BY <1>1, <2>2, PinnedElsewhere
       DEF Start, StartRun, StartReplay, StartNamed, StartPinned, StartClean, StartWipe,
           StartDrop, StartRebuild
  <2>. QED
    BY <2>1, <2>2
<1>2. CASE RunStep
  <2>1. ASSUME NEW r \in Request, Decide(r) PROVE InputsPinned'
    <3>1. \A k \in Key : row'[k] # "none" => row[k] # "none"
      BY <2>1 DEF Decide, DecideUsable, DecideUnusable, MarkCorrupt, Record, Typed, TypeOK
    <3>2. keep => stage'[r] \notin {"pinning", "installed", "repinning", "observed", "ready"}
      BY <2>1 DEF Decide, DecideUsable, DecideUnusable, Typed, TypeOK
    <3>3. \A q \in Request \ {r} : stage'[q] = stage[q] /\ target'[q] = target[q]
      BY <2>1 DEF Decide, DecideUsable, DecideUnusable, Typed, TypeOK
    <3>4. UNCHANGED <<phase, keep, metaPinned, rowPinned>>
      BY <2>1 DEF Decide, DecideUsable, DecideUnusable, MarkCorrupt
    <3>. QED
      BY <3>1, <3>2, <3>3, <3>4, AdvancePins
  <2>2. ASSUME NEW r \in Request, NEW from, NEW to \in {"pinning", "repinning"},
               PinMetadata(r, from, to)
        PROVE  InputsPinned'
    <3>1. KeyOf(r)' = KeyOf(r)
      BY <2>2 DEF PinMetadata, KeyOf
    <3>. QED
      BY <2>2, <3>1, AdvancePins DEF PinMetadata, Typed, TypeOK
  <2>3. ASSUME NEW r \in Request, NEW from \in {"pinning", "repinning"},
               NEW to \in {"ready", "observed"}, PinIndex(r, from, to)
        PROVE  InputsPinned'
    <3>1. KeyOf(r)' = KeyOf(r)
      BY <2>3 DEF PinIndex, KeyOf
    <3>2. keep => KeyOf(r) \in metaPinned
      BY <2>3 DEF PinIndex, PinInv, InputsPinned
    <3>. QED
      BY <2>3, <3>1, <3>2, AdvancePins DEF PinIndex, Typed, TypeOK
  <2>4. ASSUME NEW r \in Request, Install(r) PROVE InputsPinned'
    <3>1. KeyOf(r)' = KeyOf(r)
      BY <2>4 DEF Install, KeyOf
    <3>. QED
      BY <2>4, <3>1, AdvancePins DEF Install, Typed, TypeOK
  <2>5. ASSUME NEW r \in Request, RecordCapture(r) PROVE InputsPinned'
    <3>1. KeyOf(r)' = KeyOf(r)
      BY <2>5 DEF RecordCapture, KeyOf
    <3>2. keep => KeyOf(r) \in metaPinned
      BY <2>5 DEF RecordCapture, Recordable, PinInv, InputsPinned
    <3>3. \A q \in Request \ {r} :
              /\ row'[KeyOf(q)] = row[KeyOf(q)]
              /\ KeyOf(q) \in rowPinned => KeyOf(q) \in rowPinned'
      BY <2>5, OtherKeys DEF RecordCapture, RecordSnapshot, Typed, TypeOK
    <3>. QED
      BY <2>5, <3>1, <3>2, <3>3, AdvancePins DEF RecordCapture, RecordSnapshot, Typed, TypeOK
  <2>6. ASSUME NEW r \in Request,
               \/ StartWrite(r) \/ Match(r) \/ Abort(r)
               \/ \E c \in Content : Seal(r, c)
        PROVE  InputsPinned'
    <3>1. stage'[r] \notin {"pinning", "installed", "repinning", "observed", "ready"}
      BY <2>6 DEF StartWrite, Match, Abort, Seal, Typed, TypeOK
    <3>. QED
      BY <2>6, <3>1, AdvancePins DEF StartWrite, Match, Abort, Seal, Typed, TypeOK
  <2>7. CASE Proceed \/ Publish \/ WriteSidecar \/ EndRun
    BY <2>7, PinnedElsewhere DEF Proceed, Publish, CommitDataset, WriteSidecar, EndRun
  <2>. QED
    BY <1>2, <2>1, <2>2, <2>3, <2>4, <2>5, <2>6, <2>7 DEF RunStep, PinReused, RepinMatched
<1>3. CASE CleanStep \/ RebuildStep \/ \E d \in Dataset : UnlinkSidecar(d)
  BY <1>3, PinnedElsewhere
     DEF CleanStep, UnlinkSidecar, Tear, Erase, Forget, EndClean, WipeSidecar, WipeIndex,
         RebuildStep, RecordFile, ListDatasets, Restore, EndRebuild
<1>4. CASE PlanStep \/ Fault \/ Cancel \/ UNCHANGED vars
  <2>1. \A k \in Key : row'[k] # "none" => row[k] # "none"
    BY <1>4 DEF PlanStep, PlanRead, PlanValidate, PlanMark, MarkCorrupt, Fault, Crash,
                LoseIndex, ClearSnapshots, Rot, Cancel, vars, Typed, TypeOK
  <2>. QED
    BY <1>4, <2>1, PinnedElsewhere
       DEF PlanStep, PlanRead, PlanValidate, PlanMark, MarkCorrupt, Fault, Crash,
           LoseIndex, Rot, Cancel, vars
<1>. QED
  BY <1>1, <1>2, <1>3, <1>4 DEF Next, HolderStep

\* What clean lists has an unpinned row; a kept snapshot with a row has a pinned one.
LEMMA UnkeptStep ==
    ASSUME Typed, PinInv, [Next]_vars
    PROVE  ListedUnkept'
<1>1. CASE StartClean
  BY <1>1 DEF StartClean, Removable, PinInv, KeptStayPinned, ListedUnkept
<1>2. CASE Start /\ ~StartClean
  BY <1>2 DEF Start, StartRun, StartReplay, StartNamed, StartPinned, StartWipe, StartDrop,
              StartRebuild, ListedUnkept
<1>3. CASE RunStep
  BY <1>3 DEF RunStep, Decide, PinReused, RepinMatched, PinMetadata, PinIndex, StartWrite,
              Seal, Install, Match, RecordCapture, Abort, Proceed, Publish, WriteSidecar,
              EndRun, ListedUnkept
<1>4. CASE CleanStep \/ \E d \in Dataset : UnlinkSidecar(d)
  BY <1>4 DEF CleanStep, UnlinkSidecar, Tear, Erase, Forget, EndClean, WipeSidecar,
              WipeIndex, PinInv, ListedUnkept
<1>5. CASE RebuildStep
  BY <1>5 DEF RebuildStep, RecordFile, ListDatasets, Restore, EndRebuild, ListedUnkept
<1>6. CASE PlanStep \/ Fault \/ Cancel \/ UNCHANGED vars
  BY <1>6 DEF PlanStep, PlanRead, PlanValidate, PlanMark, Fault, Crash, LoseIndex, Rot,
              Cancel, vars, PinInv, ListedUnkept
<1>. QED
  BY <1>1, <1>2, <1>3, <1>4, <1>5, <1>6 DEF Next, HolderStep

LEMMA PinStep == Typed /\ FilesInv /\ PinInv /\ [Next]_vars => PinInv'
  BY KeptStep, InputsPinnedStep, UnkeptStep DEF PinInv

LEMMA AlwaysPinned == Spec => []PinInv
  BY InitPins, PinStep, AlwaysTyped, AlwaysFiles, PTL DEF Spec

\* Once published under --keep-snapshot, a snapshot keeps its files and its pin, in its
\* metadata and in any row it has, whoever captures it again without the option, whatever
\* is rebuilt, lost or interrupted: only clean --all takes it.
THEOREM KeptPinned == Spec => []KeptStayPinned
<1>1. PinInv => KeptStayPinned
  BY DEF PinInv
<1>. QED
  BY <1>1, AlwaysPinned, PTL

-----------------------------------------------------------------------------
(* Recovery.  A rebuild restores the datasets one after the other, and the    *)
(* later ones must not undo what the earlier ones brought back.               *)

\* Each request of d has a selected snapshot, or one a planner has found corrupt.
Recovered(d) ==
    Activatable(d) =>
        /\ d \in datasets
        /\ \A j \in d :
            \E k \in Key : k[1] = j[1] /\ (k \in active \/ row[k] = "CORRUPT")

RestoredSoFar ==
    phase = "restoring" =>
        \A d \in (datasets \cup sidecars) \ (queue \cup tail) : Recovered(d)

LEMMA InitRestored == Init => RestoredSoFar
  BY DEF Init, RestoredSoFar

\* Activating one dataset replaces selections, it never leaves a request without one.
LEMMA CommitRecovers ==
    ASSUME Typed, NEW d \in Dataset, NEW payload, CommitDataset(d, payload),
           NEW e, Recovered(e)
    PROVE  Recovered(e)' /\ Recovered(d)'
<1>1. d \subseteq Key /\ active' = {k \in active : \A j \in d : j[1] # k[1]} \cup d
  BY DEF Dataset, CommitDataset
<1>2. ASSUME NEW k \in Key, k \in active
      PROVE  \E i \in Key : i[1] = k[1] /\ i \in active'
  BY <1>1, <1>2
<1>3. Recovered(d)'
  BY <1>1 DEF Recovered, CommitDataset
<1>4. Recovered(e)'
  <2>. SUFFICES ASSUME Activatable(e), NEW j \in e
                PROVE  \E k \in Key : k[1] = j[1] /\ (k \in active' \/ row'[k] = "CORRUPT")
    BY DEF Recovered, CommitDataset, Activatable
  <2>1. PICK k \in Key : k[1] = j[1] /\ (k \in active \/ row[k] = "CORRUPT")
    BY DEF Recovered
  <2>. QED
    BY <1>2, <2>1 DEF CommitDataset
<1>. QED
  BY <1>3, <1>4

\* What a planner takes out of the selection it has marked corrupt.
LEMMA MarkRecovers ==
    ASSUME Typed, ActiveIsCommitted, NEW k \in Key, MarkCorrupt(k), UNCHANGED datasets,
           NEW d \in Dataset, Recovered(d)
    PROVE  Recovered(d)'
<1>1. Activatable(d)' => Activatable(d)
  BY DEF Activatable, MarkCorrupt, Dataset, Typed, TypeOK
<1>2. ASSUME NEW i \in Key, i \in active \/ row[i] = "CORRUPT"
      PROVE  i \in active' \/ row'[i] = "CORRUPT"
  BY <1>2 DEF MarkCorrupt, ActiveIsCommitted, Typed, TypeOK
<1>. QED
  BY <1>1, <1>2 DEF Recovered

LEMMA RestoredStep ==
    ASSUME Typed, ActiveIsCommitted, RestoredSoFar, [Next]_vars
    PROVE  RestoredSoFar'
<1>1. ASSUME UNCHANGED <<row, active, datasets, sidecars, queue, tail, phase>>
      PROVE  RestoredSoFar'
  BY <1>1 DEF RestoredSoFar, Recovered, Activatable
<1>2. CASE phase' # "restoring"
  BY <1>2 DEF RestoredSoFar
<1>3. CASE ListDatasets
  BY <1>3 DEF ListDatasets, RestoredSoFar, Typed, TypeOK
<1>4. ASSUME NEW d \in Dataset, Restore(d)
      PROVE  RestoredSoFar'
  <2>1. /\ phase = "restoring" /\ UNCHANGED <<row, sidecars>>
        /\ queue' \cup tail' = (queue \cup tail) \ {d}
    BY <1>4 DEF Restore, CommitDataset
  <2>2. CASE Activatable(d)
    <3>1. CommitDataset(d, Payload(d))
      BY <1>4, <2>2 DEF Restore
    <3>2. ASSUME NEW e \in (datasets' \cup sidecars') \ (queue' \cup tail'), e # d
          PROVE  Recovered(e)
      BY <2>1, <3>1, <3>2 DEF CommitDataset, RestoredSoFar
    <3>3. Recovered(d)'
      BY <3>1 DEF CommitDataset, Recovered, Dataset
    <3>. QED
      BY <3>1, <3>2, <3>3, CommitRecovers DEF RestoredSoFar
  <2>3. CASE ~Activatable(d)
    BY <1>4, <2>1, <2>3 DEF Restore, RestoredSoFar, Recovered, Activatable
  <2>. QED
    BY <2>2, <2>3
<1>5. ASSUME NEW p \in Planner, PlanMark(p), phase' = "restoring"
      PROVE  RestoredSoFar'
  <2>1. readKey[p] \in Key
    BY DEF Typed, TypeOK
  <2>2. (datasets \cup sidecars) \subseteq Dataset
    BY DEF Typed, TypeOK
  <2>. QED
    BY <1>5, <2>1, <2>2, MarkRecovers DEF PlanMark, RestoredSoFar
<1>6. CASE Start
  BY <1>2, <1>6 DEF Start, StartRun, StartReplay, StartNamed, StartPinned, StartClean,
                    StartWipe, StartDrop, StartRebuild
<1>7. CASE RunStep \/ Cancel
  BY <1>2, <1>7 DEF RunStep, Decide, PinReused, RepinMatched, PinMetadata, PinIndex,
                    StartWrite, Seal, Install, Match, RecordCapture, Abort, Proceed,
                    Publish, WriteSidecar, EndRun, Cancel
<1>8. CASE CleanStep \/ \E d \in Dataset : UnlinkSidecar(d)
  BY <1>2, <1>8 DEF CleanStep, UnlinkSidecar, Tear, Erase, Forget, EndClean, WipeSidecar,
                    WipeIndex
<1>9. CASE RebuildStep
  BY <1>2, <1>3, <1>4, <1>9 DEF RebuildStep, RecordFile, EndRebuild
<1>10. CASE PlanStep
  BY <1>1, <1>2, <1>5, <1>10 DEF PlanStep, PlanRead, PlanValidate
<1>11. CASE Fault \/ UNCHANGED vars
  BY <1>1, <1>2, <1>11 DEF Fault, Crash, LoseIndex, Rot, vars
<1>. QED
  BY <1>6, <1>7, <1>8, <1>9, <1>10, <1>11 DEF Next, HolderStep

LEMMA AlwaysRestored == Spec => []RestoredSoFar
<1>1. SelectionInv => ActiveIsCommitted
  BY DEF SelectionInv
<1>. QED
  BY <1>1, InitRestored, RestoredStep, AlwaysTyped, AlwaysSelection, PTL DEF Spec

\* The property, for one step.
RecoversAll ==
    phase = "restoring" /\ phase' = "idle" /\ faults' = faults =>
        \A d \in datasets \cup sidecars : Recovered(d)

\* Only a rebuild's own end, or a crash, leaves its last phase.
LEMMA StepRecovers == Typed /\ RestoredSoFar /\ [Next]_vars => RecoversAll
<1>. SUFFICES ASSUME Typed, RestoredSoFar, [Next]_vars, phase = "restoring",
                     phase' = "idle", faults' = faults
              PROVE  \A d \in datasets \cup sidecars : Recovered(d)
  BY DEF RecoversAll
<1>1. EndRebuild
  <2>1. faults + 1 # faults
    BY DEF Typed, TypeOK
  <2>2. ~Start /\ ~Cancel /\ ~PlanStep /\ ~Fault /\ vars' # vars
    BY <2>1 DEF Start, StartRun, StartReplay, StartNamed, StartPinned, StartClean,
                StartWipe, StartDrop, StartRebuild, Cancel, PlanStep, PlanRead,
                PlanValidate, PlanMark, Fault, Crash, LoseIndex, Rot, vars
  <2>3. ~RunStep
    BY DEF RunStep, Decide, PinReused, RepinMatched, PinMetadata, PinIndex, StartWrite,
           Seal, Install, Match, RecordCapture, Abort, Proceed, Publish, WriteSidecar,
           EndRun
  <2>4. ~CleanStep /\ ~\E d \in Dataset : UnlinkSidecar(d)
    BY DEF CleanStep, UnlinkSidecar, Tear, Erase, Forget, EndClean, WipeSidecar, WipeIndex
  <2>. QED
    BY <2>2, <2>3, <2>4 DEF Next, HolderStep, RebuildStep, RecordFile, ListDatasets, Restore
<1>. QED
  BY <1>1 DEF EndRebuild, RestoredSoFar

\* A rebuild that ran to its end has brought back every dataset whose snapshots it could
\* read, in whatever order the payloads' times put them.
THEOREM RebuildRecoversAll == Spec => RebuildRecovers
<1>1. Typed /\ RestoredSoFar /\ [Next]_vars => [RecoversAll]_vars
  BY StepRecovers
<1>. QED
  BY <1>1, AlwaysTyped, AlwaysRestored, PTL
     DEF Spec, RebuildRecovers, RecoversAll, Recovered
=============================================================================
