------------------------ MODULE SnapshotStoreProofs ------------------------
(***************************************************************************)
(* Proofs about SnapshotStore, for every value of its constants: its type  *)
(* invariant, and that the index selects at most one snapshot per request, *)
(* only committed ones, and only ones that a dataset has published.        *)
(***************************************************************************)
EXTENDS SnapshotStore, TLAPS

\* The sources of one run are distinct, so what it resolves is a dataset.
DistinctInputs ==
    \A q, r \in Request :
        stage[q] # "out" /\ stage[r] # "out" /\ SourceOf[q] = SourceOf[r] => q = r

Typed == TypeOK /\ DistinctInputs

USE StoreAssumption
USE DEF files, rows, registry, sides, work, run, plan, history, bounds, index

LEMMA KeyIsTyped ==
    ASSUME Typed, NEW r \in Request
    PROVE  KeyOf(r) \in Key
  BY DEF Typed, TypeOK, KeyOf, Key

\* What a run has resolved is a complete source set.
LEMMA InputsAreDataset ==
    ASSUME Typed
    PROVE  Inputs \in Dataset
  BY DEF Typed, TypeOK, DistinctInputs, Inputs, KeyOf, Key, Dataset

LEMMA KeyNonEmpty == (CHOOSE k \in Key : TRUE) \in Key
<1>1. PICK r \in Request : TRUE
  OBVIOUS
<1>2. PICK c \in Content : TRUE
  OBVIOUS
<1>3. <<r, c>> \in Key
  BY DEF Key
<1>. QED
  BY <1>3

LEMMA NoTargetTyped == NoTarget \in [Request -> Content]
<1>1. PICK c \in Content : TRUE
  OBVIOUS
<1>2. (CHOOSE d \in Content : TRUE) \in Content
  BY <1>1
<1>. QED
  BY <1>2 DEF NoTarget

LEMMA InitTyped == Init => Typed
<1>. SUFFICES ASSUME Init PROVE Typed
  OBVIOUS
<1>1. TypeOK
  BY KeyNonEmpty, NoTargetTyped DEF Init, TypeOK, NoStage, Phase, Stage
<1>2. DistinctInputs
  BY DEF Init, DistinctInputs, NoStage
<1>. QED
  BY <1>1, <1>2 DEF Typed

\* The start of a run or a replay.
LEMMA StartRunTyped ==
    ASSUME Typed, NEW R \in SUBSET Request, NEW pin \in KeepOptions, StartRun(R, pin)
    PROVE  Typed'
<1>1. TypeOK'
  BY DEF Typed, TypeOK, StartRun, Phase, Stage, Unresolved
<1>2. DistinctInputs'
  BY DEF StartRun, DistinctInputs
<1>. QED
  BY <1>1, <1>2 DEF Typed

LEMMA StartPinnedTyped ==
    ASSUME Typed, NEW d \in Dataset, NEW how \in {"frozen", "named"},
           NEW pin \in KeepOptions, StartPinned(d, how, pin)
    PROVE  Typed'
<1>1. \A r \in Request : (\E k \in d : k[1] = r) => (CHOOSE k \in d : k[1] = r) \in d
  OBVIOUS
<1>2. \A k \in d : k[2] \in Content
  BY DEF Dataset, Key
<1>3. target' \in [Request -> Content]
  BY <1>1, <1>2 DEF Typed, TypeOK, StartPinned
<1>4. stage' \in [Request -> Stage]
  BY DEF StartPinned, Stage, Unresolved
<1>5. TypeOK'
  BY <1>3, <1>4 DEF Typed, TypeOK, StartPinned, Phase
<1>6. DistinctInputs'
  <2>. SUFFICES ASSUME NEW q \in Request, NEW r \in Request,
                       stage'[q] # "out", stage'[r] # "out", SourceOf[q] = SourceOf[r]
                PROVE  q = r
    BY DEF DistinctInputs
  <2>1. PICK j \in d : j[1] = q
    BY DEF StartPinned
  <2>2. PICK k \in d : k[1] = r
    BY DEF StartPinned
  <2>3. j = k
    BY <2>1, <2>2 DEF Dataset
  <2>. QED
    BY <2>1, <2>2, <2>3
<1>. QED
  BY <1>5, <1>6 DEF Typed

LEMMA StartTyped == Typed /\ Start => Typed'
<1>. SUFFICES ASSUME Typed, Start PROVE Typed'
  OBVIOUS
<1>1. CASE \E R \in SUBSET Request, pin \in KeepOptions : StartRun(R, pin)
  BY <1>1, StartRunTyped
<1>2. CASE \E pin \in KeepOptions : StartReplay(pin)
  <2>1. PICK pin \in KeepOptions, d \in datasets :
            \E e \in SUBSET d : StartPinned(e, "frozen", pin)
    BY <1>2 DEF StartReplay
  <2>4. PICK e \in SUBSET d : StartPinned(e, "frozen", pin)
    BY <2>1
  <2>2. d \in Dataset
    BY <2>1 DEF Typed, TypeOK
  <2>3. e \in Dataset
    BY <2>2 DEF Dataset
  <2>. QED
    BY <2>1, <2>3, <2>4, StartPinnedTyped
<1>3. CASE \E pin \in KeepOptions : StartNamed(pin)
  <2>1. PICK pin \in KeepOptions, k \in Key : StartPinned({k}, "named", pin)
    BY <1>3 DEF StartNamed
  <2>2. {k} \in Dataset
    BY <2>1 DEF Dataset
  <2>. QED
    BY <2>1, <2>2, StartPinnedTyped
<1>4. CASE StartClean
  BY <1>4 DEF Typed, TypeOK, DistinctInputs, StartClean, Removable, Phase
<1>5. CASE StartWipe
  BY <1>5 DEF Typed, TypeOK, DistinctInputs, StartWipe, Phase
<1>6. CASE \E d \in Dataset : StartDrop(d)
  BY <1>6 DEF Typed, TypeOK, DistinctInputs, StartDrop, DeleteDataset, Phase
<1>7. CASE StartRebuild
  BY <1>7 DEF Typed, TypeOK, DistinctInputs, StartRebuild, ClearSnapshots, Phase
<1>. QED
  BY <1>1, <1>2, <1>3, <1>4, <1>5, <1>6, <1>7 DEF Start

\* What the index transactions keep typed.
LEMMA RecordSnapshotTyped ==
    ASSUME Typed, NEW k \in Key, RecordSnapshot(k)
    PROVE  /\ row' \in [Key -> {"none", "COMMITTED", "CORRUPT"}]
           /\ active' \subseteq Key
           /\ rowPinned' \subseteq Key
  BY DEF Typed, TypeOK, RecordSnapshot

LEMMA MarkCorruptTyped ==
    ASSUME Typed, NEW k \in Key, MarkCorrupt(k)
    PROVE  /\ row' \in [Key -> {"none", "COMMITTED", "CORRUPT"}]
           /\ active' \subseteq Key
           /\ rowPinned' \subseteq Key
  BY DEF Typed, TypeOK, MarkCorrupt

LEMMA CommitDatasetTyped ==
    ASSUME Typed, NEW d \in Dataset, NEW payload \in SUBSET Nat, CommitDataset(d, payload)
    PROVE  /\ row' = row /\ rowPinned' = rowPinned
           /\ active' \subseteq Key
           /\ datasets' \subseteq Dataset
           /\ times' \in [Dataset -> SUBSET Nat]
           /\ latest' \subseteq datasets' /\ \A e, f \in latest' : e = f
<1>1. d \subseteq Key
  BY DEF Dataset
<1>. QED
  BY <1>1 DEF Typed, TypeOK, CommitDataset

LEMMA DecideTyped ==
    ASSUME Typed, NEW r \in Request, Decide(r)
    PROVE  Typed'
<1>1. Record(r) \subseteq Key
  BY KeyIsTyped DEF Record, Typed, TypeOK
<1>2. CASE DecideUsable(r)
  <2>1. stage' \in [Request -> Stage] /\ \A q \in Request : stage'[q] # "out" => stage[q] # "out"
    BY <1>2 DEF Decide, DecideUsable, Typed, TypeOK, Stage, Unresolved
  <2>2. target' \in [Request -> Content]
    BY <1>1, <1>2 DEF DecideUsable, Typed, TypeOK, Key
  <2>3. TypeOK'
    BY <1>2, <2>1, <2>2 DEF Decide, DecideUsable, Typed, TypeOK
  <2>4. DistinctInputs'
    BY <2>1 DEF Typed, DistinctInputs
  <2>. QED
    BY <2>3, <2>4 DEF Typed
<1>3. CASE DecideUnusable(r)
  <2>1. /\ row' \in [Key -> {"none", "COMMITTED", "CORRUPT"}]
        /\ active' \subseteq Key
        /\ rowPinned' \subseteq Key
    BY <1>1, <1>3, MarkCorruptTyped DEF DecideUnusable, Typed, TypeOK
  <2>. QED
    BY <1>3, <2>1 DEF Decide, DecideUnusable, Typed, TypeOK, DistinctInputs, Stage,
                      Unresolved
<1>. QED
  BY <1>2, <1>3 DEF Decide

LEMMA PinReusedTyped ==
    ASSUME Typed, NEW r \in Request, PinReused(r) \/ RepinMatched(r)
    PROVE  Typed'
<1>. KeyOf(r) \in Key
  BY KeyIsTyped
<1>1. ASSUME NEW from \in {"reuse", "matched"}, NEW to \in {"pinning", "repinning"},
             PinMetadata(r, from, to)
      PROVE  Typed'
  BY <1>1 DEF PinMetadata, Typed, TypeOK, DistinctInputs, Stage, InFlight
<1>2. ASSUME NEW from \in {"pinning", "repinning"}, NEW to \in {"ready", "observed"},
             PinIndex(r, from, to)
      PROVE  Typed'
  BY <1>2 DEF PinIndex, Typed, TypeOK, DistinctInputs, Stage, InFlight
<1>. QED
  BY <1>1, <1>2 DEF PinReused, RepinMatched

LEMMA PublishTyped ==
    ASSUME Typed, Publish
    PROVE  Typed'
<1>1. Inputs \in Dataset /\ Inputs \subseteq Key
  BY InputsAreDataset DEF Dataset
<1>2. CASE Activatable(Inputs) /\ Room(Inputs)
  <2>1. {completed[k] : k \in Inputs} \in SUBSET Nat
    BY <1>1 DEF Typed, TypeOK
  <2>2. CommitDataset(Inputs, {completed[k] : k \in Inputs})
    BY <1>2 DEF Publish
  <2>3. /\ row' = row /\ rowPinned' = rowPinned
        /\ active' \subseteq Key
        /\ datasets' \subseteq Dataset
        /\ times' \in [Dataset -> SUBSET Nat]
        /\ latest' \subseteq datasets' /\ \A e, f \in latest' : e = f
    BY <1>1, <2>1, <2>2, CommitDatasetTyped
  <2>. QED
    BY <1>1, <1>2, <2>3 DEF Publish, Typed, TypeOK, DistinctInputs, Phase
<1>3. CASE ~(Activatable(Inputs) /\ Room(Inputs))
  BY <1>3 DEF Publish, Typed, TypeOK, DistinctInputs
<1>. QED
  BY <1>2, <1>3

LEMMA RunTyped == Typed /\ RunStep => Typed'
<1>. SUFFICES ASSUME Typed, RunStep PROVE Typed'
  OBVIOUS
<1>1. ASSUME NEW r \in Request, StartWrite(r) PROVE Typed'
  BY <1>1 DEF StartWrite, Typed, TypeOK, DistinctInputs, Stage, InFlight
<1>2. ASSUME NEW r \in Request, NEW c \in Content, Seal(r, c) PROVE Typed'
  BY <1>2 DEF Seal, Typed, TypeOK, DistinctInputs, Stage, InFlight
<1>3. ASSUME NEW r \in Request, Install(r) PROVE Typed'
  BY <1>3, KeyIsTyped DEF Install, Typed, TypeOK, DistinctInputs, Stage, InFlight
<1>4. ASSUME NEW r \in Request, Match(r) PROVE Typed'
  BY <1>4 DEF Match, Typed, TypeOK, DistinctInputs, Stage, InFlight
<1>5. ASSUME NEW r \in Request, RecordCapture(r) PROVE Typed'
  <2>1. /\ row' \in [Key -> {"none", "COMMITTED", "CORRUPT"}]
        /\ active' \subseteq Key
        /\ rowPinned' \subseteq Key
    BY <1>5, KeyIsTyped, RecordSnapshotTyped DEF RecordCapture
  <2>2. stage[r] # "out"
    BY <1>5 DEF RecordCapture, Recordable
  <2>. QED
    BY <1>5, <2>1, <2>2 DEF RecordCapture, Typed, TypeOK, DistinctInputs, Stage
<1>6. ASSUME NEW r \in Request, Abort(r) PROVE Typed'
  BY <1>6 DEF Abort, Typed, TypeOK, DistinctInputs, Stage, InFlight
<1>7. CASE Proceed
  BY <1>7 DEF Proceed, Typed, TypeOK, DistinctInputs, Phase
<1>8. CASE WriteSidecar
  BY <1>8, InputsAreDataset DEF WriteSidecar, Typed, TypeOK, DistinctInputs, Phase
<1>9. CASE EndRun
  BY <1>9, NoTargetTyped DEF EndRun, ResetRun, NoStage, Typed, TypeOK, DistinctInputs, Phase, Stage
<1>. QED
  BY <1>1, <1>2, <1>3, <1>4, <1>5, <1>6, <1>7, <1>8, <1>9, DecideTyped, PinReusedTyped,
     PublishTyped DEF RunStep

LEMMA CleanTyped ==
    ASSUME Typed, CleanStep \/ \E d \in Dataset : UnlinkSidecar(d)
    PROVE  Typed'
<1>. USE DEF Typed, TypeOK, DistinctInputs
<1>1. ASSUME NEW k \in Key, Tear(k) PROVE Typed'
  BY <1>1 DEF Tear
<1>2. ASSUME NEW k \in Key, Erase(k) PROVE Typed'
  BY <1>2 DEF Erase
<1>3. ASSUME NEW k \in Key, Forget(k) PROVE Typed'
  BY <1>3 DEF Forget, DeleteSnapshot
<1>4. CASE EndClean
  BY <1>4 DEF EndClean, Phase
<1>5. ASSUME NEW d \in Dataset, WipeSidecar(d) PROVE Typed'
  BY <1>5 DEF WipeSidecar
<1>6. CASE WipeIndex
  BY <1>6 DEF WipeIndex, ClearSnapshots, ClearRegistry, Phase
<1>7. ASSUME NEW d \in Dataset, UnlinkSidecar(d) PROVE Typed'
  BY <1>7 DEF UnlinkSidecar, Phase
<1>. QED
  BY <1>1, <1>2, <1>3, <1>4, <1>5, <1>6, <1>7 DEF CleanStep

LEMMA RebuildTyped == Typed /\ RebuildStep => Typed'
<1>. SUFFICES ASSUME Typed, RebuildStep PROVE Typed'
  OBVIOUS
<1>1. ASSUME NEW k \in Key, RecordFile(k) PROVE Typed'
  <2>1. /\ row' \in [Key -> {"none", "COMMITTED", "CORRUPT"}]
        /\ active' \subseteq Key
        /\ rowPinned' \subseteq Key
    BY <1>1, RecordSnapshotTyped DEF RecordFile, Typed, TypeOK
  <2>. QED
    BY <1>1, <2>1 DEF RecordFile, Typed, TypeOK, DistinctInputs
<1>2. CASE ListDatasets
  BY <1>2 DEF ListDatasets, Typed, TypeOK, DistinctInputs, Phase
<1>3. ASSUME NEW d \in Dataset, Restore(d) PROVE Typed'
  <2>1. Payload(d) \in SUBSET Nat
    BY DEF Payload, Typed, TypeOK
  <2>2. /\ row' \in [Key -> {"none", "COMMITTED", "CORRUPT"}] /\ rowPinned' \subseteq Key
        /\ active' \subseteq Key
        /\ datasets' \subseteq Dataset
        /\ times' \in [Dataset -> SUBSET Nat]
        /\ latest' \subseteq datasets' /\ \A e, f \in latest' : e = f
    BY <1>3, <2>1, CommitDatasetTyped DEF Restore, Typed, TypeOK
  <2>. QED
    BY <1>3, <2>2 DEF Restore, Typed, TypeOK, DistinctInputs
<1>4. CASE EndRebuild
  BY <1>4 DEF EndRebuild, Typed, TypeOK, DistinctInputs, Phase
<1>. QED
  BY <1>1, <1>2, <1>3, <1>4 DEF RebuildStep

LEMMA PlanTyped == Typed /\ PlanStep => Typed'
<1>. SUFFICES ASSUME Typed, PlanStep PROVE Typed'
  OBVIOUS
<1>1. ASSUME NEW p \in Planner, PlanRead(p) PROVE Typed'
  <2>1. active \cup Referenced \subseteq Key
    BY DEF Typed, TypeOK, Referenced, Dataset
  <2>. QED
    BY <1>1, <2>1 DEF PlanRead, Typed, TypeOK, DistinctInputs
<1>2. ASSUME NEW p \in Planner, PlanValidate(p) PROVE Typed'
  BY <1>2 DEF PlanValidate, Typed, TypeOK, DistinctInputs
<1>3. ASSUME NEW p \in Planner, PlanMark(p) PROVE Typed'
  <2>1. readKey[p] \in Key
    BY DEF Typed, TypeOK
  <2>2. /\ row' \in [Key -> {"none", "COMMITTED", "CORRUPT"}]
        /\ active' \subseteq Key
        /\ rowPinned' \subseteq Key
    BY <1>3, <2>1, MarkCorruptTyped DEF PlanMark
  <2>. QED
    BY <1>3, <2>2 DEF PlanMark, Typed, TypeOK, DistinctInputs
<1>. QED
  BY <1>1, <1>2, <1>3 DEF PlanStep

LEMMA FaultTyped ==
    ASSUME Typed, Fault \/ Cancel
    PROVE  Typed'
<1>. USE DEF Typed, TypeOK, DistinctInputs
<1>1. CASE Crash
  <2>1. NoStage \in [Request -> Stage]
    BY DEF NoStage, Stage
  <2>2. stage' \in [Request -> Stage] /\ target' \in [Request -> Content]
    BY <1>1, <2>1, NoTargetTyped DEF Crash, ResetRun
  <2>3. phase' \in Phase
    BY <1>1 DEF Crash, Phase
  <2>4. keep' = FALSE /\ failing' = FALSE
    BY <1>1 DEF Crash, ResetRun
  <2>5. faults' \in Nat
    BY <1>1 DEF Crash
  <2>6. todo' = {} /\ queue' = {} /\ tail' = {} /\ selection' = {}
    BY <1>1 DEF Crash
  <2>7. UNCHANGED <<files, index, sides, plan, published, kept, clock>>
    BY <1>1 DEF Crash
  <2>8. TypeOK'
    BY <2>2, <2>3, <2>6, <2>7, <2>4, <2>5
  <2>9. DistinctInputs'
    BY <1>1 DEF Crash, ResetRun, NoStage
  <2>. QED
    BY <2>8, <2>9
<1>2. CASE LoseIndex
  BY <1>2 DEF LoseIndex, ClearSnapshots, ClearRegistry
<1>3. ASSUME NEW k \in Key, Rot(k) PROVE Typed'
  BY <1>3 DEF Rot
<1>4. CASE Cancel
  BY <1>4 DEF Cancel
<1>. QED
  BY <1>1, <1>2, <1>3, <1>4 DEF Fault

LEMMA StutterTyped == Typed /\ UNCHANGED vars => Typed'
  BY DEF Typed, TypeOK, DistinctInputs, vars

LEMMA TypedStep == Typed /\ [Next]_vars => Typed'
  BY StartTyped, RunTyped, CleanTyped, RebuildTyped, PlanTyped, FaultTyped, StutterTyped
     DEF Next, HolderStep

LEMMA AlwaysTyped == Spec => []Typed
  BY InitTyped, TypedStep, PTL DEF Spec

\* Every state of the store is well typed: in particular the dataset a run is about to
\* register has one member per source, and the active dataset is a registered one.
THEOREM TypeCorrect == Spec => []TypeOK
<1>1. Typed => TypeOK
  BY DEF Typed
<1>. QED
  BY <1>1, AlwaysTyped, PTL

-----------------------------------------------------------------------------
(* What is selected.  The three invariants are inductive together with two   *)
(* facts: every dataset that a rebuild can restore has been published, and   *)
(* so have the inputs of a run whose sidecar is still to be written.         *)

RestorablePublished ==
    /\ \A d \in datasets \cup sidecars \cup queue \cup tail : d \subseteq published
    /\ phase = "sidecar" => Inputs \in datasets

SelectionInv ==
    /\ OneActivePerRequest
    /\ ActiveIsCommitted
    /\ SelectedIsPublished
    /\ RestorablePublished

\* Nothing selected, retained or published changes.
SelectionKept ==
    /\ UNCHANGED <<active, datasets, published, phase>>
    /\ \A k \in active : row'[k] = row[k]
    /\ sidecars' \subseteq sidecars
    /\ queue' \subseteq queue
    /\ tail' \subseteq tail
    /\ phase # "sidecar"

LEMMA KeptSelection ==
    ASSUME SelectionInv, SelectionKept
    PROVE  SelectionInv'
  BY DEF SelectionInv, SelectionKept, OneActivePerRequest, ActiveIsCommitted,
         SelectedIsPublished, RestorablePublished

\* Two members of a dataset never belong to one request.
LEMMA DatasetDistinct ==
    ASSUME NEW d \in Dataset, NEW j \in d, NEW k \in d, j[1] = k[1]
    PROVE  j = k
  BY DEF Dataset

\* Activating a published dataset keeps the selection functional, committed, published.
LEMMA CommitSelects ==
    ASSUME SelectionInv, NEW d \in Dataset, NEW payload, Activatable(d),
           CommitDataset(d, payload), published' = published \cup d
    PROVE  OneActivePerRequest' /\ ActiveIsCommitted' /\ SelectedIsPublished'
<1>1. OneActivePerRequest'
  BY DatasetDistinct DEF OneActivePerRequest, CommitDataset, SelectionInv
<1>2. ActiveIsCommitted'
  BY DEF ActiveIsCommitted, CommitDataset, Activatable, SelectionInv
<1>3. SelectedIsPublished'
  BY DEF SelectedIsPublished, CommitDataset, SelectionInv
<1>. QED
  BY <1>1, <1>2, <1>3

\* Recording, marking or deleting one row selects nothing.
LEMMA RowSelection ==
    ASSUME Typed, SelectionInv, NEW k \in Key,
           RecordSnapshot(k) \/ MarkCorrupt(k) \/ DeleteSnapshot(k),
           published' = published
    PROVE  OneActivePerRequest' /\ ActiveIsCommitted' /\ SelectedIsPublished'
  BY DEF Typed, TypeOK, SelectionInv, RecordSnapshot, MarkCorrupt, DeleteSnapshot,
         OneActivePerRequest, ActiveIsCommitted, SelectedIsPublished

LEMMA InitSelection == Init => SelectionInv
  BY DEF Init, SelectionInv, OneActivePerRequest, ActiveIsCommitted, SelectedIsPublished,
         RestorablePublished

\* Commands start from idle, where nothing is selected, and drop or rebuild deselects.
LEMMA StartSelection ==
    ASSUME Typed, SelectionInv, Start
    PROVE  SelectionInv'
<1>. USE DEF SelectionInv, OneActivePerRequest, ActiveIsCommitted, SelectedIsPublished,
             RestorablePublished
<1>1. ASSUME NEW R \in SUBSET Request, NEW pin \in KeepOptions, StartRun(R, pin)
      PROVE  SelectionInv'
  BY <1>1 DEF StartRun
<1>2. ASSUME NEW d, NEW how, NEW pin, StartPinned(d, how, pin)
      PROVE  SelectionInv'
  BY <1>2 DEF StartPinned
<1>3. CASE StartClean
  BY <1>3 DEF StartClean
<1>4. CASE StartWipe
  BY <1>4 DEF StartWipe
<1>5. ASSUME NEW d \in Dataset, StartDrop(d)
      PROVE  SelectionInv'
  BY <1>5 DEF StartDrop, DeleteDataset
<1>6. CASE StartRebuild
  BY <1>6 DEF StartRebuild, ClearSnapshots
<1>. QED
  BY <1>1, <1>2, <1>3, <1>4, <1>5, <1>6 DEF Start, StartReplay, StartNamed

LEMMA RunSelection ==
    ASSUME Typed, SelectionInv, RunStep
    PROVE  SelectionInv'
<1>1. ASSUME NEW r \in Request, Decide(r)
      PROVE  SelectionInv'
  <2>1. CASE UNCHANGED rows
    BY <1>1, <2>1, KeptSelection DEF Decide, DecideUsable, DecideUnusable, SelectionKept
  <2>2. ASSUME NEW k \in Record(r), MarkCorrupt(k)
        PROVE  SelectionInv'
    <3>1. k \in Key
      BY KeyIsTyped DEF Record, Typed, TypeOK
    <3>2. UNCHANGED <<datasets, sidecars, queue, tail, published, phase>> /\ phase # "sidecar"
      BY <1>1 DEF Decide, DecideUsable, DecideUnusable
    <3>3. RestorablePublished'
      BY <3>2 DEF SelectionInv, RestorablePublished
    <3>. QED
      BY <2>2, <3>1, <3>2, <3>3, RowSelection DEF SelectionInv
  <2>. QED
    BY <1>1, <2>1, <2>2 DEF Decide, DecideUsable, DecideUnusable
<1>2. ASSUME NEW r \in Request, PinReused(r) \/ RepinMatched(r)
      PROVE  SelectionInv'
  BY <1>2, KeptSelection DEF PinReused, RepinMatched, PinMetadata, PinIndex, SelectionKept
<1>3. ASSUME NEW r \in Request, StartWrite(r) \/ Install(r) \/ Match(r) \/ Abort(r)
      PROVE  SelectionInv'
  BY <1>3, KeptSelection DEF StartWrite, Install, Match, Abort, SelectionKept
<1>4. ASSUME NEW r \in Request, NEW c \in Content, Seal(r, c)
      PROVE  SelectionInv'
  BY <1>4, KeptSelection DEF Seal, SelectionKept
<1>5. ASSUME NEW r \in Request, RecordCapture(r)
      PROVE  SelectionInv'
  <2>1. OneActivePerRequest' /\ ActiveIsCommitted' /\ SelectedIsPublished'
    BY <1>5, KeyIsTyped, RowSelection DEF RecordCapture
  <2>2. RestorablePublished'
    BY <1>5 DEF RecordCapture, SelectionInv, RestorablePublished
  <2>. QED
    BY <2>1, <2>2 DEF SelectionInv
<1>6. CASE Proceed
  BY <1>6 DEF Proceed, SelectionInv, OneActivePerRequest, ActiveIsCommitted,
              SelectedIsPublished, RestorablePublished
<1>7. CASE Publish
  <2>1. CASE Activatable(Inputs) /\ Room(Inputs)
    <3>1. CommitDataset(Inputs, {completed[k] : k \in Inputs})
      BY <1>7, <2>1 DEF Publish
    <3>2. OneActivePerRequest' /\ ActiveIsCommitted' /\ SelectedIsPublished'
      BY <1>7, <2>1, <3>1, InputsAreDataset, CommitSelects DEF Publish
    <3>3. Inputs' = Inputs
      BY <1>7 DEF Publish, Inputs, KeyOf
    <3>4. RestorablePublished'
      BY <1>7, <2>1, <3>1, <3>3 DEF Publish, CommitDataset, SelectionInv, RestorablePublished
    <3>. QED
      BY <3>2, <3>4 DEF SelectionInv
  <2>2. CASE ~(Activatable(Inputs) /\ Room(Inputs))
    BY <1>7, <2>2, KeptSelection DEF Publish, SelectionKept
  <2>. QED
    BY <2>1, <2>2
<1>8. CASE WriteSidecar
  BY <1>8 DEF WriteSidecar, SelectionInv, OneActivePerRequest, ActiveIsCommitted,
              SelectedIsPublished, RestorablePublished
<1>9. CASE EndRun
  BY <1>9 DEF EndRun, SelectionInv, OneActivePerRequest, ActiveIsCommitted,
              SelectedIsPublished, RestorablePublished
<1>. QED
  BY <1>1, <1>2, <1>3, <1>4, <1>5, <1>6, <1>7, <1>8, <1>9 DEF RunStep

LEMMA CleanSelection ==
    ASSUME Typed, SelectionInv, CleanStep \/ \E d \in Dataset : UnlinkSidecar(d)
    PROVE  SelectionInv'
<1>1. ASSUME NEW k \in Key, Tear(k) \/ Erase(k)
      PROVE  SelectionInv'
  BY <1>1, KeptSelection DEF Tear, Erase, SelectionKept
<1>2. ASSUME NEW k \in Key, Forget(k)
      PROVE  SelectionInv'
  <2>1. OneActivePerRequest' /\ ActiveIsCommitted' /\ SelectedIsPublished'
    BY <1>2, RowSelection DEF Forget
  <2>2. RestorablePublished'
    BY <1>2 DEF Forget, SelectionInv, RestorablePublished
  <2>. QED
    BY <2>1, <2>2 DEF SelectionInv
<1>3. ASSUME EndClean \/ \E d \in Dataset : WipeSidecar(d) \/ UnlinkSidecar(d)
      PROVE  SelectionInv'
  BY <1>3 DEF EndClean, WipeSidecar, UnlinkSidecar, SelectionInv, OneActivePerRequest,
              ActiveIsCommitted, SelectedIsPublished, RestorablePublished
<1>4. CASE WipeIndex
  BY <1>4 DEF WipeIndex, ClearSnapshots, ClearRegistry, SelectionInv, OneActivePerRequest,
              ActiveIsCommitted, SelectedIsPublished, RestorablePublished
<1>. QED
  BY <1>1, <1>2, <1>3, <1>4 DEF CleanStep

LEMMA RebuildSelection ==
    ASSUME Typed, SelectionInv, RebuildStep
    PROVE  SelectionInv'
<1>1. ASSUME NEW k \in Key, RecordFile(k)
      PROVE  SelectionInv'
  <2>1. OneActivePerRequest' /\ ActiveIsCommitted' /\ SelectedIsPublished'
    BY <1>1, RowSelection DEF RecordFile, SelectionInv, OneActivePerRequest,
                              ActiveIsCommitted, SelectedIsPublished
  <2>2. RestorablePublished'
    BY <1>1 DEF RecordFile, SelectionInv, RestorablePublished
  <2>. QED
    BY <2>1, <2>2 DEF SelectionInv
<1>2. CASE ListDatasets
  BY <1>2 DEF ListDatasets, Typed, TypeOK, SelectionInv, OneActivePerRequest,
              ActiveIsCommitted, SelectedIsPublished, RestorablePublished
<1>3. ASSUME NEW d \in Dataset, Restore(d)
      PROVE  SelectionInv'
  <2>1. d \subseteq published
    BY <1>3 DEF Restore, NextToRestore, SelectionInv, RestorablePublished
  <2>2. CASE Activatable(d)
    <3>1. CommitDataset(d, Payload(d)) /\ published' = published \cup d
      BY <1>3, <2>1, <2>2 DEF Restore
    <3>2. OneActivePerRequest' /\ ActiveIsCommitted' /\ SelectedIsPublished'
      BY <2>2, <3>1, CommitSelects
    <3>3. RestorablePublished'
      BY <1>3, <2>1, <3>1 DEF Restore, CommitDataset, SelectionInv, RestorablePublished
    <3>. QED
      BY <3>2, <3>3 DEF SelectionInv
  <2>3. CASE ~Activatable(d)
    BY <1>3, <2>3, KeptSelection DEF Restore, SelectionKept
  <2>. QED
    BY <2>2, <2>3
<1>4. CASE EndRebuild
  BY <1>4 DEF EndRebuild, SelectionInv, OneActivePerRequest, ActiveIsCommitted,
              SelectedIsPublished, RestorablePublished
<1>. QED
  BY <1>1, <1>2, <1>3, <1>4 DEF RebuildStep

LEMMA OtherSelection ==
    ASSUME Typed, SelectionInv, PlanStep \/ Fault \/ Cancel \/ UNCHANGED vars
    PROVE  SelectionInv'
<1>1. ASSUME NEW p \in Planner, PlanMark(p)
      PROVE  SelectionInv'
  <2>1. readKey[p] \in Key
    BY DEF Typed, TypeOK
  <2>2. OneActivePerRequest' /\ ActiveIsCommitted' /\ SelectedIsPublished'
    BY <1>1, <2>1, RowSelection DEF PlanMark
  <2>3. Inputs' = Inputs
    BY <1>1 DEF PlanMark, Inputs, KeyOf
  <2>4. RestorablePublished'
    BY <1>1, <2>3 DEF PlanMark, SelectionInv, RestorablePublished
  <2>. QED
    BY <2>2, <2>4 DEF SelectionInv
<1>2. ASSUME UNCHANGED <<index, sides, work, run, published>>
      PROVE  SelectionInv'
  <2>1. Inputs' = Inputs
    BY <1>2 DEF Inputs, KeyOf
  <2>. QED
    BY <1>2, <2>1 DEF SelectionInv, OneActivePerRequest, ActiveIsCommitted,
                      SelectedIsPublished, RestorablePublished
<1>3. CASE Crash
  BY <1>3 DEF Crash, SelectionInv, OneActivePerRequest, ActiveIsCommitted,
              SelectedIsPublished, RestorablePublished
<1>4. CASE LoseIndex
  BY <1>4 DEF LoseIndex, ClearSnapshots, ClearRegistry, SelectionInv, OneActivePerRequest,
              ActiveIsCommitted, SelectedIsPublished, RestorablePublished
<1>5. CASE Cancel
  BY <1>5, KeptSelection DEF Cancel, SelectionKept
<1>. QED
  BY <1>1, <1>2, <1>3, <1>4, <1>5 DEF PlanStep, PlanRead, PlanValidate, Fault, Rot, vars

LEMMA SelectionStep == Typed /\ SelectionInv /\ [Next]_vars => SelectionInv'
  BY StartSelection, RunSelection, CleanSelection, RebuildSelection, OtherSelection
     DEF Next, HolderStep

LEMMA AlwaysSelection == Spec => []SelectionInv
  BY InitSelection, SelectionStep, AlwaysTyped, PTL DEF Spec

\* A planner's lookup of a request never has two active snapshots to choose from,
\* whatever was published, restored, cleaned or lost before.
THEOREM UniqueSelection == Spec => []OneActivePerRequest
<1>1. SelectionInv => OneActivePerRequest
  BY DEF SelectionInv
<1>. QED
  BY <1>1, AlwaysSelection, PTL

\* The active flag and the state column never disagree, planners included.
THEOREM SelectionCommitted == Spec => []ActiveIsCommitted
<1>1. SelectionInv => ActiveIsCommitted
  BY DEF SelectionInv
<1>. QED
  BY <1>1, AlwaysSelection, PTL

\* A capture that no run published is never selected, not even by a rebuild.
THEOREM SelectionPublished == Spec => []SelectedIsPublished
<1>1. SelectionInv => SelectedIsPublished
  BY DEF SelectionInv
<1>. QED
  BY <1>1, AlwaysSelection, PTL
=============================================================================
