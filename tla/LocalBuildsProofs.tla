-------------------------- MODULE LocalBuildsProofs --------------------------
(***************************************************************************)
(* What the runs of a workspace do to its databases, for any models,       *)
(* sources, options and number of runs: every property of LocalBuilds.     *)
(*                                                                         *)
(* The invariant is in four parts, each proved with the help of those      *)
(* before it: types; what the phase of a run says of the lock, its dbt and *)
(* its records; what a run that holds the lock has bound and built so far, *)
(* whatever the dbt of a killed run builds next to it; and what a replay   *)
(* or a validation run has taken over from the run it follows.             *)
(***************************************************************************)
EXTENDS LocalBuilds, TLAPS

\* The database of a step is that of another run.
Homed(o) == o.kind = "step" => o.of \in Run

Typed ==
    /\ TypeOK
    /\ \A r \in Run : Homed(opts[r]) /\ (phase[r] = "ready" => data[r] \in Dataset)

\* What the commands that start a run make of the runs there are.
Starts(o) ==
    /\ Homed(o)
    /\ o.kind = "replay" =>
        /\ o.of \in recorded
        /\ o.models = opts[o.of].models
        /\ o.frozen = data[o.of]
        /\ o.full \/ o.models \cap Incremental = {}
    /\ o.kind = "seed" => o.full /\ o.frozen # NoDataset
    /\ o.kind = "step" =>
        /\ opts[o.of].kind = "seed" /\ exit[o.of] = "0"
        /\ o.models = opts[o.of].models
        /\ ~o.full
        /\ \A q \in Run : opts[q].kind # "step"
    /\ o.kind = "reference" => o.of \in Run /\ opts[o.of].kind = "step"

\* Every command that starts a run creates one, with options of that kind.
LEMMA StartCreates ==
    ASSUME TypeOK, NEW r \in Run, Start(r)
    PROVE  \E o \in Option : Create(r, o) /\ Starts(o)
<1>1. ASSUME Issue(r) PROVE \E o \in Option : Create(r, o) /\ Starts(o)
  BY <1>1, LocalBuildsAssumption DEF Issue, Starts, Homed
<1>2. ASSUME NEW o \in Run, NEW full \in BOOLEAN, Replay(r, o, full)
      PROVE  \E n \in Option : Create(r, n) /\ Starts(n)
  <2> DEFINE n == [kind |-> "replay", models |-> opts[o].models, full |-> full \/ opts[o].full,
                   capture |-> TRUE, frozen |-> data[o], of |-> o]
  <2>1. opts[o] \in Option /\ data[o] \in Dataset \cup {NoDataset}
    BY DEF TypeOK
  <2>2. n \in Option
    BY <2>1 DEF Option
  <2>3. Create(r, n) /\ o \in recorded /\ (full \/ opts[o].full \/ opts[o].models \cap Incremental = {})
    BY <1>2 DEF Replay
  <2> QED
    BY <2>2, <2>3 DEF Starts, Homed
<1>3. ASSUME NEW kind \in {"seed", "step", "reference"}, NEW models \in SUBSET Model,
             NEW d \in Dataset \cup {NoDataset}, NEW full \in BOOLEAN, NEW of \in Run \cup {NoRun}
      PROVE  Validation(kind, models, d, full, of) \in Option
  BY DEF Validation, Option
<1>4. ASSUME NEW models \in Selection, NEW base \in Dataset, Seed(r, models, base)
      PROVE  \E o \in Option : Create(r, o) /\ Starts(o)
  <2>1. Validation("seed", models, base, TRUE, NoRun) \in Option
    BY <1>3, LocalBuildsAssumption
  <2> QED
    BY <1>4, <2>1, LocalBuildsAssumption DEF Seed, Validation, Starts, Homed
<1>5. \A q \in Run : opts[q].models \in SUBSET Model /\ opts[q].frozen \in Dataset \cup {NoDataset}
  BY DEF TypeOK, Option
<1>6. ASSUME NEW q \in Run, NEW next \in Dataset, Step(r, q, next)
      PROVE  \E o \in Option : Create(r, o) /\ Starts(o)
  <2>1. Validation("step", opts[q].models, next, FALSE, q) \in Option
    BY <1>3, <1>5
  <2> QED
    BY <1>6, <2>1 DEF Step, Validation, Starts, Homed
<1>7. ASSUME NEW q \in Run, Reference(r, q)
      PROVE  \E o \in Option : Create(r, o) /\ Starts(o)
  <2>1. Validation("reference", opts[q].models, opts[q].frozen, TRUE, q) \in Option
    BY <1>3, <1>5
  <2> QED
    BY <1>7, <2>1 DEF Reference, Validation, Starts, Homed
<1> QED
  BY <1>1, <1>2, <1>4, <1>6, <1>7 DEF Start

\* A run's views and tables are all in one home.
LEMMA OneHome ==
    ASSUME Typed, NEW r \in Run
    PROVE  /\ Database(r) \in Home
           /\ \A s : ViewHome(r, s) = Database(r)
           /\ opts[r] \in Option
           /\ Sources(r) \subseteq Source
<1>1. opts[r] \in Option /\ Homed(opts[r])
  BY DEF Typed, TypeOK
<1>2. Sources(r) \subseteq Source
  BY <1>1, LocalBuildsAssumption DEF Sources, Option
<1> QED
  BY <1>1, <1>2 DEF Homed, Option, Database, Catalogs, ViewHome, Home

\* What a model is built from are datasets.
LEMMA InputTyped ==
    ASSUME Typed, NEW r \in Run, NEW m \in Model,
           \A s \in Reads[m] : view[ViewHome(r, s)][s] # NoDataset
    PROVE  Input(r, m) \subseteq Dataset
<1>1. /\ view[Database(r)] \in [Source -> Dataset \cup {NoDataset}]
      /\ from[Database(r)] \in [Model -> SUBSET Dataset]
  BY OneHome DEF Typed, TypeOK
<1>2. Reads[m] \subseteq Source /\ Parents[m] \subseteq Model
  BY LocalBuildsAssumption
<1> QED
  BY <1>1, <1>2, OneHome DEF Input

-----------------------------------------------------------------------------
(* Types                                                                   *)

LEMMA InitTyped == Init => TypeOK
BY LocalBuildsAssumption DEF Init, TypeOK, Option, NoOption, Nothing, Home

LEMMA RunTyped == ASSUME Typed, NEW r \in Run, RunStep(r) PROVE TypeOK'
<1> TypeOK
  BY DEF Typed
<1> USE LocalBuildsAssumption DEF Fault, Ends, Transition, asked, ending, building, local, records,
        bounds
<1>1. ASSUME Refuse(r) PROVE TypeOK'
  BY <1>1 DEF TypeOK, Refuse
<1>2. ASSUME Enter(r) PROVE TypeOK'
  BY <1>2 DEF TypeOK, Enter
<1>3. ASSUME RefuseBudget(r) PROVE TypeOK'
  BY <1>3 DEF TypeOK, RefuseBudget
<1>4. ASSUME NEW d \in Dataset, Prepare(r, d) PROVE TypeOK'
  BY <1>4 DEF TypeOK, Prepare
<1>5. ASSUME Commit(r) PROVE TypeOK'
  BY <1>5, OneHome DEF Typed, TypeOK, Commit
<1>6. ASSUME NEW s \in Source, BindSource(r, s) PROVE TypeOK'
  BY <1>6 DEF TypeOK, BindSource
<1>7. ASSUME Verify(r) PROVE TypeOK'
  BY <1>7 DEF TypeOK, Verify
<1>8. ASSUME StartDbt(r) PROVE TypeOK'
  <2>1. opts[r].models \subseteq Model
    BY OneHome DEF Option
  <2> QED
    BY <1>8, <2>1 DEF TypeOK, StartDbt
<1>9. ASSUME NEW m \in Model, DbtBuilds(r, m) PROVE TypeOK'
  <2> DEFINE h == Database(r)
             rows == (IF m \in Incremental /\ ~opts[r].full THEN from[h][m] ELSE {}) \cup Input(r, m)
  <2>1. h \in Home /\ from[h][m] \subseteq Dataset
    BY OneHome DEF TypeOK
  <2>2. rows \subseteq Dataset
    BY <1>9, <2>1, InputTyped DEF DbtBuilds
  <2>3. from' = [from EXCEPT ![h][m] = rows]
    BY <1>9 DEF DbtBuilds
  <2> HIDE DEF rows, h
  <2>4. from' \in [Home -> [Model -> SUBSET Dataset]]
    BY <2>1, <2>2, <2>3 DEF TypeOK
  <2> QED
    BY <1>9, <2>4 DEF TypeOK, DbtBuilds, Attempts
<1>10. ASSUME NEW m \in Model, DbtFails(r, m) PROVE TypeOK'
  BY <1>10 DEF TypeOK, DbtFails, Attempts
<1>11. ASSUME OrphanEnds(r) PROVE TypeOK'
  BY <1>11 DEF TypeOK, OrphanEnds
<1>12. ASSUME Complete(r) PROVE TypeOK'
  <2>1. \A m \in Model : from[Database(r)][m] \in SUBSET Dataset
    BY OneHome DEF TypeOK
  <2>2. captured' \in [Run -> [Model -> SUBSET Dataset]]
    BY <1>12, <2>1 DEF TypeOK, Complete
  <2> QED
    BY <1>12, <2>2 DEF TypeOK, Complete
<1>13. ASSUME LoseResults(r) PROVE TypeOK'
  BY <1>13 DEF TypeOK, LoseResults
<1>14. ASSUME Summarise(r) PROVE TypeOK'
  BY <1>14 DEF TypeOK, Summarise, Outcome
<1>15. ASSUME Finish(r) PROVE TypeOK'
  BY <1>15 DEF TypeOK, Finish, Outcome
<1>16. ASSUME Return(r) \/ ReturnFails(r) PROVE TypeOK'
  <2>1. CASE Return(r)
    BY <2>1 DEF TypeOK, Return
  <2>2. CASE ReturnFails(r)
    BY <2>2 DEF TypeOK, ReturnFails
  <2> QED
    BY <1>16, <2>1, <2>2
<1>17. ASSUME Fail(r) PROVE TypeOK'
  BY <1>17 DEF TypeOK, Fail
<1>18. ASSUME RecordFailure(r) PROVE TypeOK'
  BY <1>18 DEF TypeOK, RecordFailure
<1>19. ASSUME WriteFailure(r) PROVE TypeOK'
  BY <1>19 DEF TypeOK, WriteFailure
<1>20. ASSUME HandlerFails(r) PROVE TypeOK'
  BY <1>20 DEF TypeOK, HandlerFails
<1>21. ASSUME Kill(r) PROVE TypeOK'
  BY <1>21 DEF TypeOK, Kill
<1> QED
  BY <1>1, <1>2, <1>3, <1>4, <1>5, <1>6, <1>7, <1>8, <1>9, <1>10, <1>11, <1>12, <1>13, <1>14,
     <1>15, <1>16, <1>17, <1>18, <1>19, <1>20, <1>21 DEF RunStep

LEMMA NextTyped == Typed /\ [Next]_vars => Typed'
<1> SUFFICES ASSUME Typed, [Next]_vars PROVE Typed'
  OBVIOUS
<1> USE DEF asked, ending, building, local, records, bounds
<1>1. ASSUME NEW r \in Run, RunStep(r) PROVE Typed'
  <2>1. opts' = opts
    BY <1>1 DEF RunStep, Refuse, Enter, RefuseBudget, Prepare, Commit, BindSource, Verify, StartDbt,
                DbtBuilds, DbtFails, OrphanEnds, Complete, LoseResults, Summarise, Finish, Return, ReturnFails,
                Fail, RecordFailure, WriteFailure, HandlerFails, Kill
  <2>2. \A q \in Run : phase'[q] = "ready" => data'[q] \in Dataset
    BY <1>1 DEF Typed, TypeOK, RunStep, Transition, Ends, Refuse, Enter, RefuseBudget, Prepare, Commit,
                BindSource, Verify, StartDbt, DbtBuilds, DbtFails, OrphanEnds, Complete, LoseResults,
                Summarise, Finish, Return, ReturnFails, Fail, RecordFailure, WriteFailure, HandlerFails, Kill
  <2> QED
    BY <1>1, <2>1, <2>2, RunTyped DEF Typed, Homed
<1>2. ASSUME NEW r \in Run, Start(r) PROVE Typed'
  <2>1. PICK o \in Option : Create(r, o) /\ Homed(o)
    BY <1>2, StartCreates DEF Typed, Starts
  <2>2. TypeOK'
    BY <2>1 DEF Create, Typed, TypeOK
  <2> QED
    BY <2>1, <2>2 DEF Create, Typed, TypeOK, Homed
<1>3. ASSUME NEW r \in Run, Compare(r) PROVE Typed'
  BY <1>3 DEF Compare, Typed, TypeOK, Homed
<1>4. ASSUME NEW r \in Run, CleanRun(r) PROVE Typed'
  <2>1. TypeOK'
    BY <1>4, LocalBuildsAssumption DEF CleanRun, Removal, Typed, TypeOK, Nothing, Home
  <2> QED
    BY <1>4, <2>1 DEF CleanRun, Typed, TypeOK, Homed
<1>5. ASSUME CleanDatabase PROVE Typed'
  <2>1. TypeOK'
    BY <1>5, LocalBuildsAssumption DEF CleanDatabase, Removal, Typed, TypeOK, Nothing, Home
  <2> QED
    BY <1>5, <2>1 DEF CleanDatabase, Typed, TypeOK, Homed
<1>6. ASSUME NEW d \in Dataset, DropDataset(d) PROVE Typed'
  BY <1>6, LocalBuildsAssumption DEF DropDataset, Removal, Typed, TypeOK, Homed
<1>7. ASSUME NEW s \in Source, CleanCatalog(s) PROVE Typed'
  <2>1. TypeOK'
    BY <1>7, LocalBuildsAssumption DEF CleanCatalog, Removal, Typed, TypeOK, Home
  <2> QED
    BY <1>7, <2>1 DEF CleanCatalog, Typed, TypeOK, Homed
<1>8. ASSUME UNCHANGED vars PROVE Typed'
  BY <1>8 DEF vars, Typed, TypeOK, Homed
<1> QED
  BY <1>1, <1>2, <1>3, <1>4, <1>5, <1>6, <1>7, <1>8 DEF Next

-----------------------------------------------------------------------------
(* What a run's phase says of its state                                    *)

Active(r) == phase[r] \notin {"unused", "created", "over"}

\* The lock, and the dataset.
Held(r) ==
    /\ Active(r) => holder = r /\ r \notin cleaned
    /\ phase[r] \in {"unused", "created", "planning"} => data[r] = NoDataset /\ r \notin recorded
    /\ phase[r] \in {"ready", "binding", "bound", "dbt", "completed", "summarised", "finished"}
           => data[r] \in Dataset
    /\ phase[r] \in {"binding", "bound", "dbt", "completed", "summarised", "finished"} => r \in recorded
    /\ r \in recorded => data[r] \in Dataset
    /\ data[r] # NoDataset /\ opts[r].frozen # NoDataset => data[r] = opts[r].frozen

\* The dbt process, and what it left.
Process(r) ==
    /\ dbt[r] = "running" <=> phase[r] = "dbt"
    /\ dbt[r] = "orphan" => phase[r] = "over"
    /\ phase[r] \in {"unused", "created", "planning", "ready", "binding", "bound"}
           => todo[r] = {} /\ failed[r] = {}
    /\ phase[r] \in {"binding", "bound"} \/ dbt[r] # "none" => opts[r].kind # "sync"
    /\ phase[r] \in {"completed", "summarised", "finished"} => todo[r] = {}
    /\ phase[r] \in {"unused", "created", "planning", "ready", "binding", "bound", "dbt"}
           => captured[r] = Nothing

\* The records of its end.
Ended(r) ==
    /\ phase[r] # "over" => exit[r] = "none"
    /\ phase[r] \notin {"finished", "failing", "failed", "over"} => row[r] # "SUCCEEDED"
    /\ phase[r] \in {"summarised", "finished"} => runJson[r] = Outcome(r)
    /\ phase[r] = "finished" => row[r] = Outcome(r)
    /\ phase[r] = "failed" => row[r] = "FAILED"
    /\ row[r] = "SUCCEEDED" => dbt[r] = "none" /\ failed[r] = {} /\ todo[r] = {}
    /\ r \notin cleaned =>
        /\ row[r] = "SUCCEEDED" => runJson[r] = "SUCCEEDED" /\ r \in recorded
        /\ exit[r] = "0" => row[r] = "SUCCEEDED"
        /\ exit[r] = "error" => row[r] = runJson[r] /\ row[r] \in {"FAILED", Outcome(r)}

Controlled(r) == Held(r) /\ Process(r) /\ Ended(r)

Control == \A r \in Run : Controlled(r)

LEMMA InitControl == Init => Control
BY DEF Init, Control, Controlled, Held, Process, Ended, Active, NoOption

LEMMA RunControl == ASSUME Typed, Control, NEW r \in Run, RunStep(r) PROVE Control'
<1> USE LocalBuildsAssumption DEF Typed, TypeOK, Control, Controlled, Held, Process, Ended, Active,
        Outcome, Fault, Ends, Transition, asked, ending, building, local, records, bounds
<1>1. ASSUME Refuse(r) PROVE Control'
  BY <1>1 DEF Refuse
<1>2. ASSUME Enter(r) PROVE Control'
  BY <1>2 DEF Enter
<1>3. ASSUME RefuseBudget(r) PROVE Control'
  BY <1>3 DEF RefuseBudget
<1>4. ASSUME NEW d \in Dataset, Prepare(r, d) PROVE Control'
  BY <1>4 DEF Prepare
<1>5. ASSUME Commit(r) PROVE Control'
  BY <1>5 DEF Commit
<1>6. ASSUME NEW s \in Source, BindSource(r, s) PROVE Control'
  BY <1>6 DEF BindSource
<1>7. ASSUME Verify(r) PROVE Control'
  BY <1>7 DEF Verify
<1>8. ASSUME StartDbt(r) PROVE Control'
  BY <1>8 DEF StartDbt
<1>9. ASSUME NEW m \in Model, DbtBuilds(r, m) PROVE Control'
  BY <1>9 DEF DbtBuilds, Attempts
<1>10. ASSUME NEW m \in Model, DbtFails(r, m) PROVE Control'
  BY <1>10 DEF DbtFails, Attempts
<1>11. ASSUME OrphanEnds(r) PROVE Control'
  BY <1>11 DEF OrphanEnds
<1>12. ASSUME Complete(r) PROVE Control'
  BY <1>12 DEF Complete
<1>13. ASSUME LoseResults(r) PROVE Control'
  BY <1>13 DEF LoseResults
<1>14. ASSUME Summarise(r) PROVE Control'
  BY <1>14 DEF Summarise
<1>15. ASSUME Finish(r) PROVE Control'
  BY <1>15 DEF Finish
<1>16. ASSUME Return(r) \/ ReturnFails(r) PROVE Control'
  BY <1>16 DEF Return, ReturnFails
<1>17. ASSUME Fail(r) PROVE Control'
  BY <1>17 DEF Fail
<1>18. ASSUME RecordFailure(r) PROVE Control'
  BY <1>18 DEF RecordFailure
<1>19. ASSUME WriteFailure(r) PROVE Control'
  BY <1>19 DEF WriteFailure
<1>20. ASSUME HandlerFails(r) PROVE Control'
  BY <1>20 DEF HandlerFails
<1>21. ASSUME Kill(r) PROVE Control'
  BY <1>21 DEF Kill
<1> QED
  BY <1>1, <1>2, <1>3, <1>4, <1>5, <1>6, <1>7, <1>8, <1>9, <1>10, <1>11, <1>12, <1>13, <1>14,
     <1>15, <1>16, <1>17, <1>18, <1>19, <1>20, <1>21 DEF RunStep

LEMMA NextControl == Typed /\ Control /\ [Next]_vars => Control'
<1> SUFFICES ASSUME Typed, Control, [Next]_vars PROVE Control'
  OBVIOUS
<1> USE DEF Control, Controlled, Held, Process, Ended, Active, Outcome, Typed, TypeOK,
            asked, ending, building, local, records, bounds
<1>1. ASSUME NEW r \in Run, RunStep(r) PROVE Control'
  BY <1>1, RunControl
<1>2. ASSUME NEW r \in Run, Start(r) PROVE Control'
  <2>1. PICK o \in Option : Create(r, o)
    BY <1>2, StartCreates
  <2> QED
    BY <2>1 DEF Create, Fresh
<1>3. ASSUME NEW r \in Run, Compare(r) PROVE Control'
  BY <1>3 DEF Compare
<1>4. ASSUME NEW r \in Run, CleanRun(r) PROVE Control'
  BY <1>4, LocalBuildsAssumption DEF CleanRun, Removal
<1>5. ASSUME CleanDatabase PROVE Control'
  BY <1>5 DEF CleanDatabase, Removal
<1>6. ASSUME NEW d \in Dataset, DropDataset(d) PROVE Control'
  BY <1>6 DEF DropDataset, Removal
<1>7. ASSUME NEW s \in Source, CleanCatalog(s) PROVE Control'
  BY <1>7 DEF CleanCatalog, Removal
<1>8. ASSUME UNCHANGED vars PROVE Control'
  BY <1>8 DEF vars
<1> QED
  BY <1>1, <1>2, <1>3, <1>4, <1>5, <1>6, <1>7, <1>8 DEF Next

-----------------------------------------------------------------------------
(* What dbt reads                                                          *)

Shows(r, s) == view[Database(r)][s] = data[r]

Ready(r) == \A m \in Prerequisites(r) : Exists(Database(r), m)

Bound(r) ==
    /\ phase[r] = "binding" => \A s \in Sources(r) \ toBind[r] : Shows(r, s)
    /\ phase[r] \in {"bound", "dbt"} => Ready(r) /\ \A s \in Sources(r) : Shows(r, s)

\* What depends on a run's options alone.
LEMMA OptionsStay ==
    ASSUME NEW r, opts'[r] = opts[r]
    PROVE  /\ Database(r)' = Database(r)
           /\ Sources(r)' = Sources(r)
           /\ Prerequisites(r)' = Prerequisites(r)
           /\ Rebuilds(r)' = Rebuilds(r)
BY DEF Database, Sources, Prerequisites, Rebuilds

\* A run step leaves all options as they are; of its own run it may advance the phase.
LEMMA StepKeeps ==
    ASSUME NEW r \in Run, RunStep(r)
    PROVE  opts' = opts
BY DEF RunStep, Refuse, Enter, RefuseBudget, Prepare, Commit, BindSource, Verify, StartDbt,
       DbtBuilds, DbtFails, OrphanEnds, Complete, LoseResults, Summarise, Finish, Return, ReturnFails,
       Fail, RecordFailure, WriteFailure, HandlerFails, Kill, asked

\* What a model is built from is there.
LEMMA InputExists ==
    ASSUME Typed, NEW r \in Run, NEW m \in Model, DbtBuilds(r, m)
    PROVE  Input(r, m) # {}
<1>1. CASE Reads[m] # {}
  BY <1>1 DEF Input
<1>2. CASE Reads[m] = {}
  <2>1. PICK p \in Parents[m] : TRUE
    BY <1>2, LocalBuildsAssumption
  <2>2. from[Database(r)][p] # {}
    BY <2>1 DEF DbtBuilds, Exists
  <2> QED
    BY <2>1, <2>2 DEF Input
<1> QED
  BY <1>1, <1>2

\* A relation that is there stays there while dbt builds.
LEMMA BuildsKeep ==
    ASSUME Typed, NEW r \in Run, NEW m \in Model, DbtBuilds(r, m), NEW h \in Home, NEW p \in Model,
           Exists(h, p)
    PROVE  Exists(h, p)'
<1>1. /\ from \in [Home -> [Model -> SUBSET Dataset]]
      /\ Database(r) \in Home
  BY OneHome DEF Typed, TypeOK
<1>2. \E old : from' = [from EXCEPT ![Database(r)][m] = old \cup Input(r, m)]
  BY DEF DbtBuilds
<1> QED
  BY <1>1, <1>2, InputExists DEF Exists

LEMMA InitBound == Init => \A r \in Run : Bound(r)
BY DEF Init, Bound

LEMMA RunBound ==
    ASSUME Typed, Control, NEW q \in Run, Bound(q), NEW r \in Run, RunStep(r)
    PROVE  Bound(q)'
<1>a. /\ Database(q)' = Database(q) /\ Sources(q)' = Sources(q)
      /\ Prerequisites(q)' = Prerequisites(q)
  BY StepKeeps, OptionsStay
<1>b. /\ DOMAIN phase = Run /\ data \in [Run -> Dataset \cup {NoDataset}]
      /\ toBind \in [Run -> SUBSET Source]
      /\ view \in [Home -> [Source -> Dataset \cup {NoDataset}]]
      /\ Database(q) \in Home /\ Sources(q) \subseteq Source /\ Prerequisites(q) \subseteq Model
  <2>1. opts[q].models \subseteq Model
    BY OneHome DEF Option
  <2>2. Prerequisites(q) \subseteq Model
    BY <2>1, LocalBuildsAssumption DEF Prerequisites
  <2> QED
    BY <2>2, OneHome DEF Typed, TypeOK
<1>c. Active(q) /\ Active(r) => q = r
  BY DEF Control, Controlled, Held
<1> USE <1>a, <1>b, <1>c DEF Bound, Shows, Ready, Exists, Active, Fault, Ends, Transition,
        asked, ending, building, local, records, bounds
<1>1. ASSUME Refuse(r) PROVE Bound(q)'
  BY <1>1 DEF Refuse
<1>2. ASSUME Enter(r) PROVE Bound(q)'
  BY <1>2 DEF Enter
<1>3. ASSUME RefuseBudget(r) PROVE Bound(q)'
  BY <1>3 DEF RefuseBudget
<1>4. ASSUME NEW d \in Dataset, Prepare(r, d) PROVE Bound(q)'
  BY <1>4 DEF Prepare
<1>5. ASSUME Commit(r) PROVE Bound(q)'
  BY <1>5 DEF Commit
<1>6. ASSUME NEW s \in Source, BindSource(r, s) PROVE Bound(q)'
  <2>1. /\ phase[r] = "binding"
        /\ view' = [view EXCEPT ![Database(r)][s] = data[r]]
        /\ toBind' = [toBind EXCEPT ![r] = @ \ {s}]
        /\ UNCHANGED <<phase, data, from>>
    BY <1>6, OneHome DEF BindSource
  <2> QED
    BY <2>1
<1>7. ASSUME Verify(r) PROVE Bound(q)'
  BY <1>7, OneHome DEF Verify
<1>8. ASSUME StartDbt(r) PROVE Bound(q)'
  BY <1>8 DEF StartDbt
<1>9. ASSUME NEW m \in Model, DbtBuilds(r, m) PROVE Bound(q)'
  <2>1. Ready(q) => Ready(q)'
    BY <1>9, BuildsKeep
  <2> QED
    BY <1>9, <2>1 DEF DbtBuilds
<1>10. ASSUME NEW m \in Model, DbtFails(r, m) PROVE Bound(q)'
  BY <1>10 DEF DbtFails
<1>11. ASSUME OrphanEnds(r) PROVE Bound(q)'
  BY <1>11 DEF OrphanEnds
<1>12. ASSUME Complete(r) PROVE Bound(q)'
  BY <1>12 DEF Complete
<1>13. ASSUME LoseResults(r) PROVE Bound(q)'
  BY <1>13 DEF LoseResults
<1>14. ASSUME Summarise(r) PROVE Bound(q)'
  BY <1>14 DEF Summarise
<1>15. ASSUME Finish(r) PROVE Bound(q)'
  BY <1>15 DEF Finish
<1>16. ASSUME Return(r) \/ ReturnFails(r) PROVE Bound(q)'
  BY <1>16 DEF Return, ReturnFails
<1>17. ASSUME Fail(r) PROVE Bound(q)'
  BY <1>17 DEF Fail
<1>18. ASSUME RecordFailure(r) PROVE Bound(q)'
  BY <1>18 DEF RecordFailure
<1>19. ASSUME WriteFailure(r) PROVE Bound(q)'
  BY <1>19 DEF WriteFailure
<1>20. ASSUME HandlerFails(r) PROVE Bound(q)'
  BY <1>20 DEF HandlerFails
<1>21. ASSUME Kill(r) PROVE Bound(q)'
  BY <1>21 DEF Kill
<1> QED
  BY <1>1, <1>2, <1>3, <1>4, <1>5, <1>6, <1>7, <1>8, <1>9, <1>10, <1>11, <1>12, <1>13, <1>14,
     <1>15, <1>16, <1>17, <1>18, <1>19, <1>20, <1>21 DEF RunStep

LEMMA NextBound ==
    Typed /\ Control /\ (\A q \in Run : Bound(q)) /\ [Next]_vars => \A q \in Run : Bound(q)'
<1> SUFFICES ASSUME Typed, Control, NEW q \in Run, Bound(q), [Next]_vars PROVE Bound(q)'
  OBVIOUS
<1> USE DEF Bound, asked, ending, building, local, records, bounds
<1>1. ASSUME opts'[q] = opts[q], UNCHANGED <<phase, data, toBind, local>> PROVE Bound(q)'
  BY <1>1, OptionsStay DEF Shows, Ready, Exists
<1>2. ASSUME holder = NoRun, phase' = phase PROVE Bound(q)'
  BY <1>2, LocalBuildsAssumption DEF Control, Controlled, Held, Active
<1>3. ASSUME NEW r \in Run, RunStep(r) PROVE Bound(q)'
  BY <1>3, RunBound
<1>4. ASSUME NEW r \in Run, Start(r) PROVE Bound(q)'
  <2>1. PICK o \in Option : Create(r, o)
    BY <1>4, StartCreates DEF Typed
  <2>2. CASE q = r
    BY <2>1, <2>2 DEF Create, Typed, TypeOK
  <2>3. CASE q # r
    <3>1. opts'[q] = opts[q] /\ phase'[q] = phase[q] /\ UNCHANGED <<data, toBind, local>>
      BY <2>1, <2>3 DEF Create, Typed, TypeOK
    <3> QED
      BY <3>1, OptionsStay DEF Shows, Ready, Exists
  <2> QED
    BY <2>2, <2>3
<1>5. ASSUME \/ \E r \in Run : Compare(r) \/ CleanRun(r)
             \/ CleanDatabase
             \/ \E s \in Source : CleanCatalog(s)
             \/ \E d \in Dataset : DropDataset(d)
      PROVE  Bound(q)'
  BY <1>2, <1>5 DEF Compare, CleanRun, CleanDatabase, CleanCatalog, DropDataset, Removal
<1>6. ASSUME UNCHANGED vars PROVE Bound(q)'
  BY <1>1, <1>6 DEF vars
<1> QED
  BY <1>3, <1>4, <1>5, <1>6 DEF Next

-----------------------------------------------------------------------------
(* Where the rows come from                                                *)

Built(r) == opts[r].models \ (todo[r] \cup failed[r])

\* dbt builds parents first, and nothing upon what it failed to build.
InOrder(r) ==
    /\ todo[r] \subseteq opts[r].models
    /\ phase[r] = "dbt" =>
        /\ \A m \in opts[r].models \ todo[r] : Parents[m] \cap todo[r] = {}
        /\ \A m \in Built(r) : Parents[m] \cap failed[r] = {}

\* What it has built so far is from the run's dataset, whoever else builds there.
Rebuilt(r) ==
    phase[r] = "dbt" /\ Rebuilds(r) =>
        \A m \in Built(r) : from[Database(r)][m] = {data[r]}

Results(r) ==
    captured[r] # Nothing =>
        /\ data[r] \in Dataset
        /\ \A m \in Model \ opts[r].models : captured[r][m] = {}
        /\ Rebuilds(r) => \A m \in opts[r].models : captured[r][m] = {data[r]}

Sound(r) == Bound(r) /\ InOrder(r) /\ Rebuilt(r) /\ Results(r)

\* What any process builds from what the run has bound and built is from its dataset.
LEMMA InputFresh ==
    ASSUME Typed, NEW q \in Run, Bound(q), InOrder(q), Rebuilt(q), phase[q] = "dbt", Rebuilds(q),
           NEW r \in Run, NEW m \in Model, DbtBuilds(r, m), Database(r) = Database(q),
           m \in opts[q].models, Parents[m] \cap (todo[q] \cup failed[q]) = {}
    PROVE  Input(r, m) = {data[q]}
<1>1. \A s \in Reads[m] : view[ViewHome(r, s)][s] = data[q]
  <2>1. Reads[m] \subseteq Sources(q)
    BY LocalBuildsAssumption DEF Sources
  <2> QED
    BY <2>1, OneHome DEF Bound, Shows
<1>2. \A p \in Parents[m] : from[Database(r)][p] = {data[q]}
  <2>1. Parents[m] \subseteq Built(q)
    <3>1. Parents[m] \subseteq opts[q].models
      BY DEF Rebuilds, Prerequisites
    <3> QED
      BY <3>1 DEF Built
  <2> QED
    BY <2>1 DEF Rebuilt
<1>3. Input(r, m) \subseteq {data[q]}
  BY <1>1, <1>2 DEF Input
<1> QED
  BY <1>3, InputExists

LEMMA InitFresh == Init => \A r \in Run : Sound(r)
BY InitBound DEF Init, Sound, InOrder, Rebuilt, Results

\* Whatever any process builds, what a run has built is from its dataset.
LEMMA BuildsFresh ==
    ASSUME Typed, Control, NEW q \in Run, Sound(q), NEW r \in Run, NEW m \in Model, DbtBuilds(r, m)
    PROVE  Rebuilt(q)'
<1> SUFFICES ASSUME phase[q] = "dbt", Rebuilds(q), NEW n \in Built(q)'
             PROVE  from'[Database(q)][n] = {data[q]}
  <2>1. opts' = opts /\ UNCHANGED <<phase, data>>
    BY DEF DbtBuilds, asked
  <2> QED
    BY <2>1, OptionsStay DEF Rebuilt
<1> DEFINE h == Database(r)
           kept == IF m \in Incremental /\ ~opts[r].full THEN from[h][m] ELSE {}
<1>1. /\ from' = [from EXCEPT ![h][m] = kept \cup Input(r, m)]
      /\ m \in todo[r] /\ Parents[m] \cap todo[r] = {} /\ Parents[m] \cap failed[r] = {}
      /\ dbt[r] # "none"
      /\ todo' = [todo EXCEPT ![r] = @ \ {m}]
      /\ UNCHANGED <<opts, failed>>
  BY DEF DbtBuilds, Attempts, asked
<1>2. /\ from \in [Home -> [Model -> SUBSET Dataset]] /\ h \in Home /\ Database(q) \in Home
      /\ opts[q].models \subseteq Model /\ todo \in [Run -> SUBSET Model]
  BY OneHome DEF Typed, TypeOK, Option
<1>3. n \in opts[q].models /\ n \notin failed[q] /\ (n \in Built(q) \/ (q = r /\ n = m))
  BY <1>1, <1>2 DEF Built
<1>4. CASE q = r /\ n = m
  <2>1. m \in opts[q].models
    BY <1>3, <1>4
  <2>2. kept = {}
    BY <2>1, <1>4 DEF Rebuilds
  <2>3. Input(r, m) = {data[q]}
    BY <1>1, <1>4, <2>1, InputFresh DEF Sound
  <2> QED
    BY <1>1, <1>2, <1>4, <2>2, <2>3
<1>5. CASE n \in Built(q) /\ n = m /\ Database(q) = h
  <2>1. Parents[m] \cap (todo[q] \cup failed[q]) = {}
    BY <1>5 DEF Sound, InOrder, Built
  <2>2. Input(r, m) = {data[q]}
    BY <1>3, <1>5, <2>1, InputFresh DEF Sound
  <2>3. from[h][m] = {data[q]}
    BY <1>5 DEF Sound, Rebuilt
  <2> QED
    BY <1>1, <1>2, <1>5, <2>2, <2>3
<1>6. CASE n \in Built(q) /\ ~(n = m /\ Database(q) = h)
  <2>1. from[Database(q)][n] = {data[q]}
    BY <1>6 DEF Sound, Rebuilt
  <2> QED
    BY <1>1, <1>2, <1>3, <1>6, <2>1
<1> QED
  BY <1>3, <1>4, <1>5, <1>6

LEMMA RunFresh ==
    ASSUME Typed, Control, NEW q \in Run, Sound(q), NEW r \in Run, RunStep(r)
    PROVE  Sound(q)'
<1>a. /\ Database(q)' = Database(q) /\ Rebuilds(q)' = Rebuilds(q) /\ opts' = opts
  BY StepKeeps, OptionsStay
<1>b. /\ DOMAIN phase = Run /\ DOMAIN data = Run /\ DOMAIN captured = Run
      /\ todo \in [Run -> SUBSET Model] /\ failed \in [Run -> SUBSET Model]
      /\ opts[q].models \subseteq Model
  BY OneHome DEF Typed, TypeOK, Option
<1>c. Bound(q)'
  BY RunBound DEF Sound
<1>d. /\ phase[q] = "planning" => captured[q] = Nothing
      /\ phase[q] = "dbt" => data[q] \in Dataset
      /\ phase[q] = "bound" => failed[q] = {}
      /\ dbt[q] = "orphan" => phase[q] = "over"
  BY DEF Control, Controlled, Process, Held
<1> USE <1>a, <1>b, <1>c, <1>d DEF Sound, InOrder, Rebuilt, Results, Built, Fault, Ends, Transition,
        asked, ending, building, local, records, bounds
<1>1. ASSUME Refuse(r) PROVE Sound(q)'
  BY <1>1 DEF Refuse
<1>2. ASSUME Enter(r) PROVE Sound(q)'
  BY <1>2 DEF Enter
<1>3. ASSUME RefuseBudget(r) PROVE Sound(q)'
  BY <1>3 DEF RefuseBudget
<1>4. ASSUME NEW d \in Dataset, Prepare(r, d) PROVE Sound(q)'
  BY <1>4 DEF Prepare
<1>5. ASSUME Commit(r) PROVE Sound(q)'
  BY <1>5 DEF Commit
<1>6. ASSUME NEW s \in Source, BindSource(r, s) PROVE Sound(q)'
  BY <1>6 DEF BindSource
<1>7. ASSUME Verify(r) PROVE Sound(q)'
  BY <1>7 DEF Verify
<1>8. ASSUME StartDbt(r) PROVE Sound(q)'
  BY <1>8 DEF StartDbt
<1>9. ASSUME NEW m \in Model, DbtBuilds(r, m) PROVE Sound(q)'
  <2>1. Rebuilt(q)'
    BY <1>9, BuildsFresh
  <2>2. InOrder(q)' /\ Results(q)'
    BY <1>9 DEF DbtBuilds, Attempts
  <2> QED
    BY <2>1, <2>2
<1>10. ASSUME NEW m \in Model, DbtFails(r, m) PROVE Sound(q)'
  BY <1>10 DEF DbtFails, Attempts
<1>11. ASSUME OrphanEnds(r) PROVE Sound(q)'
  BY <1>11 DEF OrphanEnds
<1>12. ASSUME Complete(r) PROVE Sound(q)'
  <2>1. InOrder(q)' /\ Rebuilt(q)'
    BY <1>12 DEF Complete
  <2>2. Results(q)'
    BY <1>12 DEF Complete, Nothing
  <2> QED
    BY <2>1, <2>2
<1>13. ASSUME LoseResults(r) PROVE Sound(q)'
  BY <1>13 DEF LoseResults
<1>14. ASSUME Summarise(r) PROVE Sound(q)'
  BY <1>14 DEF Summarise
<1>15. ASSUME Finish(r) PROVE Sound(q)'
  BY <1>15 DEF Finish
<1>16. ASSUME Return(r) \/ ReturnFails(r) PROVE Sound(q)'
  BY <1>16 DEF Return, ReturnFails
<1>17. ASSUME Fail(r) PROVE Sound(q)'
  BY <1>17 DEF Fail
<1>18. ASSUME RecordFailure(r) PROVE Sound(q)'
  BY <1>18 DEF RecordFailure
<1>19. ASSUME WriteFailure(r) PROVE Sound(q)'
  BY <1>19 DEF WriteFailure
<1>20. ASSUME HandlerFails(r) PROVE Sound(q)'
  BY <1>20 DEF HandlerFails
<1>21. ASSUME Kill(r) PROVE Sound(q)'
  BY <1>21 DEF Kill
<1> QED
  BY <1>1, <1>2, <1>3, <1>4, <1>5, <1>6, <1>7, <1>8, <1>9, <1>10, <1>11, <1>12, <1>13, <1>14,
     <1>15, <1>16, <1>17, <1>18, <1>19, <1>20, <1>21 DEF RunStep

LEMMA NextFresh ==
    Typed /\ Control /\ (\A q \in Run : Sound(q)) /\ [Next]_vars => \A q \in Run : Sound(q)'
<1> SUFFICES ASSUME Typed, Control, NEW q \in Run, Sound(q), \A p \in Run : Bound(p), [Next]_vars
             PROVE  Sound(q)'
  BY DEF Sound
<1> USE DEF Sound, InOrder, Rebuilt, Results, Built, asked, ending, building, local, records, bounds
<1>0. Bound(q)'
  BY NextBound
<1>1. ASSUME opts'[q] = opts[q], phase'[q] = phase[q], data'[q] = data[q], UNCHANGED <<todo, failed>>,
             captured'[q] \in {captured[q], Nothing},
             phase[q] = "dbt" => from' = from
      PROVE  Sound(q)'
  <2>1. InOrder(q)'
    BY <1>1
  <2>2. Rebuilt(q)'
    BY <1>1, OptionsStay
  <2>3. Results(q)'
    <3>1. CASE captured'[q] = captured[q]
      BY <1>1, <3>1, OptionsStay DEF Nothing
    <3>2. CASE captured'[q] = Nothing
      BY <3>2 DEF Nothing
    <3> QED
      BY <1>1, <3>1, <3>2
  <2> QED
    BY <1>0, <2>1, <2>2, <2>3
<1>2. holder = NoRun => phase[q] # "dbt"
  BY LocalBuildsAssumption DEF Control, Controlled, Held, Active
<1>3. ASSUME NEW r \in Run, RunStep(r) PROVE Sound(q)'
  BY <1>3, RunFresh
<1>4. ASSUME NEW r \in Run, Start(r) PROVE Sound(q)'
  <2>1. PICK o \in Option : Create(r, o)
    BY <1>4, StartCreates DEF Typed
  <2>2. CASE q = r
    <3>1. phase[q] = "unused" /\ captured[q] = Nothing /\ todo[q] = {}
      BY <2>1, <2>2 DEF Create, Fresh, Control, Controlled, Process
    <3> QED
      BY <1>0, <2>1, <2>2, <3>1 DEF Create, Typed, TypeOK
  <2>3. CASE q # r
    BY <1>1, <2>1, <2>3 DEF Create, Typed, TypeOK
  <2> QED
    BY <2>2, <2>3
<1>5. ASSUME NEW r \in Run, Compare(r) PROVE Sound(q)'
  BY <1>1, <1>5 DEF Compare
<1>6. ASSUME NEW r \in Run, CleanRun(r) PROVE Sound(q)'
  BY <1>1, <1>2, <1>6 DEF CleanRun, Removal, Typed, TypeOK
<1>7. ASSUME CleanDatabase PROVE Sound(q)'
  BY <1>1, <1>2, <1>7 DEF CleanDatabase, Removal
<1>8. ASSUME NEW d \in Dataset, DropDataset(d) PROVE Sound(q)'
  BY <1>1, <1>8 DEF DropDataset
<1>9. ASSUME NEW s \in Source, CleanCatalog(s) PROVE Sound(q)'
  BY <1>1, <1>2, <1>9 DEF CleanCatalog, Removal
<1>10. ASSUME UNCHANGED vars PROVE Sound(q)'
  BY <1>1, <1>10 DEF vars
<1> QED
  BY <1>3, <1>4, <1>5, <1>6, <1>7, <1>8, <1>9, <1>10 DEF Next

-----------------------------------------------------------------------------
(* Runs that follow others: replays, and the three of validate-incremental *)

\* What a run takes over from the one it follows stays true of that one.
Follows(r) ==
    LET o == opts[r].of IN
    /\ opts[r].kind = "replay" =>
        /\ o \in Run /\ data[o] \in Dataset
        /\ opts[r].models = opts[o].models
        /\ opts[r].frozen = data[o]
        /\ opts[r].full \/ opts[r].models \cap Incremental = {}
    /\ opts[r].kind = "seed" => opts[r].full /\ opts[r].frozen # NoDataset
    /\ opts[r].kind = "step" =>
        /\ opts[o].kind = "seed" /\ exit[o] = "0"
        /\ opts[r].models = opts[o].models
        /\ ~opts[r].full
        /\ \A q \in Run : opts[q].kind = "step" => q = r
    /\ opts[r].kind = "reference" => o \in Run /\ opts[o].kind = "step"

\* A database that a replay or the initial build has for itself has only what it builds.
Alone(r) ==
    /\ phase[r] = "unused" => opts[r].kind = "build" /\ from[r] = Nothing
    /\ opts[r].kind \in {"replay", "seed"} =>
        /\ \A m \in Model \ opts[r].models : from[r][m] = {}
        /\ captured[r] # Nothing => Prerequisites(r) = {}

\* The initial state is there for as long as clean has not removed it.
Seeded(r) ==
    opts[r].kind = "seed" /\ r \notin cleaned /\ failed[r] = {}
            /\ (phase[r] \in {"completed", "summarised", "finished"} \/ exit[r] = "0")
        => \A m \in opts[r].models \cap Incremental : opts[r].frozen \in from[r][m]

Stepped(r) ==
    opts[r].kind = "step" /\ captured[r] # Nothing /\ opts[r].of \notin cleaned => Incrementally(r)

History == \A r \in Run : Follows(r) /\ Alone(r) /\ Seeded(r) /\ Stepped(r)

BuildInv == Typed /\ Control /\ (\A r \in Run : Sound(r)) /\ History

\* Nobody builds upon what a run in a database of its own has nothing of.
LEMMA AloneRebuilds ==
    ASSUME BuildInv, NEW r \in Run, opts[r].kind \in {"replay", "seed"}, phase[r] \in {"bound", "dbt"}
    PROVE  Prerequisites(r) = {} /\ Rebuilds(r)
<1>1. Database(r) = r
  BY DEF Database
<1>2. Prerequisites(r) \subseteq Model \ opts[r].models
  <2>1. opts[r].models \subseteq Model
    BY OneHome DEF BuildInv, Option
  <2> QED
    BY <2>1, LocalBuildsAssumption DEF Prerequisites
<1>3. \A m \in Prerequisites(r) : from[r][m] # {}
  BY <1>1 DEF BuildInv, Sound, Bound, Ready, Exists
<1>4. \A m \in Model \ opts[r].models : from[r][m] = {}
  BY DEF BuildInv, History, Alone
<1>5. Prerequisites(r) = {}
  BY <1>2, <1>3, <1>4
<1> QED
  BY <1>5 DEF BuildInv, History, Follows, Rebuilds

\* Whose run builds in the database of a replay or of the initial build.
LEMMA OwnBuilders ==
    ASSUME BuildInv, NEW q \in Run, NEW r \in Run, NEW m \in todo[r], Database(r) = q,
           opts[q].kind \in {"replay", "seed"} \/ phase[q] = "unused"
    PROVE  /\ phase[q] # "unused"
           /\ m \in opts[q].models
           /\ \/ r = q
              \/ opts[r].kind = "step" /\ opts[r].of = q /\ opts[q].kind = "seed"
<1>1. m \in opts[r].models /\ phase[r] # "unused"
  BY DEF BuildInv, Sound, InOrder, Control, Controlled, Process
<1>2. CASE opts[r].kind = "step"
  <2>1. opts[r].of = q /\ opts[q].kind = "seed" /\ exit[q] = "0" /\ opts[r].models = opts[q].models
    BY <1>2 DEF BuildInv, History, Follows, Database
  <2> QED
    BY <1>1, <1>2, <2>1 DEF BuildInv, Control, Controlled, Ended
<1>3. CASE opts[r].kind # "step"
  <2>1. r = q
    BY <1>3, LocalBuildsAssumption DEF Database
  <2> QED
    BY <1>1, <2>1
<1> QED
  BY <1>2, <1>3

LEMMA InitHistory == Init => History
BY DEF Init, History, Follows, Alone, Seeded, Stepped, NoOption, Home

\* What the builds of any run do to the databases of others.
LEMMA BuildsHistory ==
    ASSUME BuildInv, NEW q \in Run, NEW r \in Run, NEW m \in Model, DbtBuilds(r, m)
    PROVE  Alone(q)' /\ Seeded(q)'
<1> DEFINE h == Database(r)
           kept == IF m \in Incremental /\ ~opts[r].full THEN from[h][m] ELSE {}
<1>1. /\ from' = [from EXCEPT ![h][m] = kept \cup Input(r, m)]
      /\ m \in todo[r] /\ dbt[r] # "none"
      /\ UNCHANGED <<opts, phase, data, exit, failed, captured, cleaned>>
  BY DEF DbtBuilds, Attempts, asked, ending, records
<1>2. from \in [Home -> [Model -> SUBSET Dataset]] /\ h \in Home /\ q \in Home
  BY OneHome DEF BuildInv, Typed, TypeOK, Home
<1>3. Alone(q) /\ Seeded(q)
  BY DEF BuildInv, History
<1>4. CASE q # h
  <2>1. from'[q] = from[q]
    BY <1>1, <1>2, <1>4
  <2> QED
    BY <1>1, <1>3, <2>1, OptionsStay DEF Alone, Seeded
<1>5. CASE q = h
  <2>1. phase[q] # "unused"
    BY <1>1, <1>5, OwnBuilders
  <2>2. Alone(q)'
    <3>1. opts[q].kind \in {"replay", "seed"} => m \in opts[q].models
      BY <1>1, <1>5, OwnBuilders
    <3> QED
      BY <1>1, <1>2, <1>3, <1>5, <2>1, <3>1, OptionsStay DEF Alone
  <2>3. Seeded(q)'
    <3> SUFFICES ASSUME opts[q].kind = "seed", q \notin cleaned, failed[q] = {},
                        phase[q] \in {"completed", "summarised", "finished"} \/ exit[q] = "0"
                 PROVE  \A n \in opts[q].models \cap Incremental : opts[q].frozen \in from'[q][n]
      BY <1>1 DEF Seeded
    <3>1. r # q
      BY <1>1 DEF BuildInv, Control, Controlled, Process, Ended
    <3>2. opts[r].kind = "step"
      BY <1>1, <1>5, <3>1, OwnBuilders
    <3>3. ~opts[r].full
      BY <3>2 DEF BuildInv, History, Follows
    <3>4. \A n \in opts[q].models \cap Incremental : opts[q].frozen \in from[q][n]
      BY <1>3 DEF Seeded
    <3> QED
      BY <1>1, <1>2, <1>5, <3>3, <3>4
  <2> QED
    BY <2>2, <2>3
<1> QED
  BY <1>4, <1>5

\* What a run captures.
LEMMA CompleteHistory ==
    ASSUME BuildInv, NEW q \in Run, NEW r \in Run, Complete(r)
    PROVE  Alone(q)' /\ Seeded(q)' /\ Stepped(q)'
<1>1. /\ phase[r] = "dbt" /\ todo[r] = {} /\ dbt[r] = "running"
      /\ phase' = [phase EXCEPT ![r] = "completed"]
      /\ UNCHANGED <<opts, data, exit, failed, from, cleaned>>
      /\ \/ captured' = captured
         \/ /\ failed[r] = {}
            /\ captured' = [captured EXCEPT ![r] = [m \in Model |->
                               IF m \in opts[r].models THEN from[Database(r)][m] ELSE {}]]
  BY DEF Complete, Transition, asked, ending, local, bounds
<1>2. Alone(q) /\ Seeded(q) /\ Stepped(q) /\ Follows(q)
  BY DEF BuildInv, History
<1>3. /\ DOMAIN phase = Run /\ DOMAIN captured = Run /\ q \in Home
      /\ opts[q].models \subseteq Model
  BY OneHome DEF BuildInv, Typed, TypeOK, Home, Option
<1>4. Alone(q)'
  <2>1. q = r /\ opts[q].kind \in {"replay", "seed"} => Prerequisites(q) = {}
    BY <1>1, AloneRebuilds
  <2> QED
    BY <1>1, <1>2, <1>3, <2>1, OptionsStay DEF Alone
<1>5. Seeded(q)'
  <2>1. CASE q = r /\ opts[q].kind = "seed" /\ failed[q] = {}
    <3>1. Built(q) = opts[q].models /\ Rebuilds(q) /\ Database(q) = q
      BY <1>1, <2>1, AloneRebuilds DEF Built, Database
    <3>2. data[q] = opts[q].frozen
      BY <1>1, <1>2, <2>1, LocalBuildsAssumption DEF BuildInv, Control, Controlled, Held, Follows
    <3>3. \A m \in opts[q].models : from[q][m] = {data[q]}
      BY <1>1, <2>1, <3>1 DEF BuildInv, Sound, Rebuilt
    <3> QED
      BY <1>1, <3>2, <3>3 DEF Seeded
  <2>2. CASE ~(q = r /\ opts[q].kind = "seed" /\ failed[q] = {})
    BY <1>1, <1>2, <1>3, <2>2 DEF Seeded
  <2> QED
    BY <2>1, <2>2
<1>6. Stepped(q)'
  <2>1. CASE captured'[q] = captured[q]
    BY <1>1, <1>2, <2>1 DEF Stepped, Incrementally
  <2>2. CASE captured'[q] # captured[q]
    <3> SUFFICES ASSUME opts[q].kind = "step", opts[q].of \notin cleaned,
                        NEW m \in opts[q].models \cap Incremental
                 PROVE  opts[opts[q].of].frozen \in captured'[q][m]
      BY <1>1 DEF Stepped, Incrementally
    <3> DEFINE s == opts[q].of
    <3>1. s \in Run /\ opts[s].kind = "seed" /\ exit[s] = "0" /\ opts[q].models = opts[s].models
      BY <1>2 DEF BuildInv, Typed, Homed, Follows
    <3>2. failed[s] = {}
      BY <3>1 DEF BuildInv, Control, Controlled, Ended
    <3>3. opts[s].frozen \in from[s][m]
      BY <3>1, <3>2 DEF BuildInv, History, Seeded
    <3>4. captured'[q][m] = from[s][m]
      BY <1>1, <1>3, <2>2 DEF Database
    <3> QED
      BY <3>3, <3>4
  <2> QED
    BY <2>1, <2>2
<1> QED
  BY <1>4, <1>5, <1>6

\* What the steps of r leave of what q has taken over.
LEMMA RunHistory ==
    ASSUME BuildInv, NEW q \in Run, NEW r \in Run, RunStep(r)
    PROVE  Follows(q)' /\ Alone(q)' /\ Seeded(q)' /\ Stepped(q)'
<1>a. opts' = opts /\ Prerequisites(q)' = Prerequisites(q)
  BY StepKeeps, OptionsStay
<1>b. /\ DOMAIN phase = Run /\ DOMAIN data = Run /\ DOMAIN exit = Run /\ DOMAIN failed = Run
      /\ Typed
  BY DEF BuildInv, Typed, TypeOK
<1>c. Follows(q) /\ Alone(q) /\ Seeded(q) /\ Stepped(q)
  BY DEF BuildInv, History
<1>d. Controlled(q) /\ Controlled(r)
  BY DEF BuildInv, Control
<1>e. opts[q].kind = "step" => opts[q].of \in Run /\ Controlled(opts[q].of)
  BY <1>b DEF BuildInv, Control, Typed, Homed
<1> USE <1>a, <1>b, <1>c, <1>d, <1>e DEF Follows, Alone, Seeded, Stepped, Incrementally, Controlled,
        Held, Process, Ended, Fault, Ends, Transition, Outcome, asked, ending, building, local, records, bounds
<1>1. ASSUME Refuse(r) PROVE Follows(q)' /\ Alone(q)' /\ Seeded(q)' /\ Stepped(q)'
  BY <1>1 DEF Refuse
<1>2. ASSUME Enter(r) PROVE Follows(q)' /\ Alone(q)' /\ Seeded(q)' /\ Stepped(q)'
  BY <1>2 DEF Enter
<1>3. ASSUME RefuseBudget(r) PROVE Follows(q)' /\ Alone(q)' /\ Seeded(q)' /\ Stepped(q)'
  BY <1>3 DEF RefuseBudget
<1>4. ASSUME NEW d \in Dataset, Prepare(r, d) PROVE Follows(q)' /\ Alone(q)' /\ Seeded(q)' /\ Stepped(q)'
  BY <1>4, LocalBuildsAssumption DEF Prepare
<1>5. ASSUME Commit(r) PROVE Follows(q)' /\ Alone(q)' /\ Seeded(q)' /\ Stepped(q)'
  BY <1>5 DEF Commit
<1>6. ASSUME NEW s \in Source, BindSource(r, s)
      PROVE  Follows(q)' /\ Alone(q)' /\ Seeded(q)' /\ Stepped(q)'
  BY <1>6 DEF BindSource
<1>7. ASSUME Verify(r) PROVE Follows(q)' /\ Alone(q)' /\ Seeded(q)' /\ Stepped(q)'
  BY <1>7 DEF Verify
<1>8. ASSUME StartDbt(r) PROVE Follows(q)' /\ Alone(q)' /\ Seeded(q)' /\ Stepped(q)'
  BY <1>8 DEF StartDbt
<1>9. ASSUME NEW m \in Model, DbtBuilds(r, m) PROVE Follows(q)' /\ Alone(q)' /\ Seeded(q)' /\ Stepped(q)'
  <2>1. Alone(q)' /\ Seeded(q)'
    BY <1>9, BuildsHistory
  <2>2. Follows(q)' /\ Stepped(q)'
    BY <1>9 DEF DbtBuilds
  <2> QED
    BY <2>1, <2>2
<1>10. ASSUME NEW m \in Model, DbtFails(r, m) PROVE Follows(q)' /\ Alone(q)' /\ Seeded(q)' /\ Stepped(q)'
  BY <1>10 DEF DbtFails, Attempts
<1>11. ASSUME OrphanEnds(r) PROVE Follows(q)' /\ Alone(q)' /\ Seeded(q)' /\ Stepped(q)'
  BY <1>11 DEF OrphanEnds
<1>12. ASSUME Complete(r) PROVE Follows(q)' /\ Alone(q)' /\ Seeded(q)' /\ Stepped(q)'
  <2>1. Alone(q)' /\ Seeded(q)' /\ Stepped(q)'
    BY <1>12, CompleteHistory
  <2>2. Follows(q)'
    BY <1>12 DEF Complete
  <2> QED
    BY <2>1, <2>2
<1>13. ASSUME LoseResults(r) PROVE Follows(q)' /\ Alone(q)' /\ Seeded(q)' /\ Stepped(q)'
  BY <1>13 DEF LoseResults
<1>14. ASSUME Summarise(r) PROVE Follows(q)' /\ Alone(q)' /\ Seeded(q)' /\ Stepped(q)'
  BY <1>14 DEF Summarise
<1>15. ASSUME Finish(r) PROVE Follows(q)' /\ Alone(q)' /\ Seeded(q)' /\ Stepped(q)'
  BY <1>15 DEF Finish
<1>16. ASSUME Return(r) \/ ReturnFails(r) PROVE Follows(q)' /\ Alone(q)' /\ Seeded(q)' /\ Stepped(q)'
  BY <1>16 DEF Return, ReturnFails
<1>17. ASSUME Fail(r) PROVE Follows(q)' /\ Alone(q)' /\ Seeded(q)' /\ Stepped(q)'
  BY <1>17 DEF Fail
<1>18. ASSUME RecordFailure(r) PROVE Follows(q)' /\ Alone(q)' /\ Seeded(q)' /\ Stepped(q)'
  BY <1>18 DEF RecordFailure
<1>19. ASSUME WriteFailure(r) PROVE Follows(q)' /\ Alone(q)' /\ Seeded(q)' /\ Stepped(q)'
  BY <1>19 DEF WriteFailure
<1>20. ASSUME HandlerFails(r) PROVE Follows(q)' /\ Alone(q)' /\ Seeded(q)' /\ Stepped(q)'
  BY <1>20 DEF HandlerFails
<1>21. ASSUME Kill(r) PROVE Follows(q)' /\ Alone(q)' /\ Seeded(q)' /\ Stepped(q)'
  BY <1>21 DEF Kill
<1> QED
  BY <1>1, <1>2, <1>3, <1>4, <1>5, <1>6, <1>7, <1>8, <1>9, <1>10, <1>11, <1>12, <1>13, <1>14,
     <1>15, <1>16, <1>17, <1>18, <1>19, <1>20, <1>21 DEF RunStep

\* A new run takes over what it should, and takes nothing from the others.
LEMMA StartHistory ==
    ASSUME BuildInv, NEW q \in Run, NEW r \in Run, Start(r)
    PROVE  Follows(q)' /\ Alone(q)' /\ Seeded(q)' /\ Stepped(q)'
<1>1. PICK o \in Option : Create(r, o) /\ Starts(o)
  BY StartCreates DEF BuildInv, Typed
<1>2. /\ phase[r] = "unused"
      /\ opts' = [opts EXCEPT ![r] = o]
      /\ phase' = [phase EXCEPT ![r] = "created"]
      /\ UNCHANGED <<data, exit, failed, from, captured, cleaned, recorded>>
  BY <1>1 DEF Create, Fresh, asked, ending, building, local, records
<1>3. \A p \in Run : Follows(p) /\ Alone(p) /\ Seeded(p) /\ Stepped(p) /\ Controlled(p) /\ Homed(opts[p])
  BY DEF BuildInv, History, Control, Typed
<1>4. DOMAIN opts = Run /\ DOMAIN phase = Run /\ recorded \subseteq Run
  BY DEF BuildInv, Typed, TypeOK
<1>5. /\ opts[r].kind = "build"
      /\ data[r] = NoDataset /\ r \notin recorded /\ exit[r] = "none"
      /\ captured[r] = Nothing /\ from[r] = Nothing
  BY <1>2, <1>3 DEF Alone, Controlled, Held, Process, Ended
<1>6. CASE q = r
  <2>1. opts'[q] = o
    BY <1>2, <1>4, <1>6
  <2>2. /\ o.kind \in {"step", "reference"} => o.of # r
        /\ o.kind = "replay" => o.of \in Run /\ o.of # r /\ data[o.of] \in Dataset
    BY <1>1, <1>3, <1>4, <1>5 DEF Starts, Homed, Controlled, Held
  <2>3. Follows(q)'
    BY <1>1, <1>2, <1>4, <1>6, <2>1, <2>2 DEF Follows, Starts
  <2>4. Alone(q)'
    BY <1>2, <1>4, <1>5, <1>6, <2>1 DEF Alone, Nothing
  <2>5. Seeded(q)'
    BY <1>2, <1>4, <1>5, <1>6 DEF Seeded
  <2>6. Stepped(q)'
    BY <1>2, <1>5, <1>6 DEF Stepped
  <2> QED
    BY <2>3, <2>4, <2>5, <2>6
<1>7. CASE q # r
  <2>1. opts'[q] = opts[q] /\ phase'[q] = phase[q]
    BY <1>2, <1>7
  <2>2. /\ opts[q].kind \in {"step", "reference"} => opts[q].of # r
        /\ opts[q].kind = "replay" => opts[q].of # r
    BY <1>3, <1>5, LocalBuildsAssumption DEF Follows
  <2>3. Follows(q)'
    BY <1>1, <1>2, <1>3, <1>4, <1>7, <2>1, <2>2 DEF Follows, Starts
  <2>4. Alone(q)' /\ Seeded(q)' /\ Stepped(q)'
    BY <1>2, <1>3, <1>4, <2>1, <2>2, OptionsStay DEF Alone, Seeded, Stepped, Incrementally
  <2> QED
    BY <2>3, <2>4
<1> QED
  BY <1>6, <1>7

LEMMA NextHistory == BuildInv /\ [Next]_vars => History'
<1> SUFFICES ASSUME BuildInv, [Next]_vars, NEW q \in Run
             PROVE  Follows(q)' /\ Alone(q)' /\ Seeded(q)' /\ Stepped(q)'
  BY DEF History
<1> USE DEF asked, ending, building, local, records, bounds
<1>0. Follows(q) /\ Alone(q) /\ Seeded(q) /\ Stepped(q) /\ Typed
  BY DEF BuildInv, History
<1>1. ASSUME UNCHANGED <<opts, phase, data, exit, failed>>,
             \/ UNCHANGED <<from, cleaned, captured>>
             \/ /\ UNCHANGED <<cleaned, captured>>
                /\ from' = [from EXCEPT ![Main] = Nothing]
             \/ \E r \in Run : /\ cleaned' = cleaned \cup {r}
                              /\ from' = [from EXCEPT ![r] = Nothing]
                              /\ captured' = [captured EXCEPT ![r] = Nothing]
      PROVE  Follows(q)' /\ Alone(q)' /\ Seeded(q)' /\ Stepped(q)'
  <2>1. Follows(q)'
    BY <1>0, <1>1 DEF Follows
  <2>2. q # Main
    BY LocalBuildsAssumption
  <2>3. Prerequisites(q)' = Prerequisites(q)
    BY <1>1, OptionsStay
  <2>4. DOMAIN from = Home /\ DOMAIN captured = Run
    BY <1>0 DEF Typed, TypeOK
  <2>5. /\ from'[q] \in {from[q], Nothing}
        /\ captured'[q] \in {captured[q], Nothing}
        /\ q \notin cleaned' => q \notin cleaned /\ from'[q] = from[q]
    BY <1>1, <2>2, <2>4 DEF Home
  <2>6. Alone(q)' /\ Seeded(q)'
    BY <1>0, <1>1, <2>3, <2>5 DEF Alone, Seeded, Nothing
  <2>7. Stepped(q)'
    BY <1>0, <1>1, <2>4 DEF Stepped, Incrementally
  <2> QED
    BY <2>1, <2>6, <2>7
<1>2. ASSUME NEW r \in Run, Compare(r)
      PROVE  UNCHANGED <<opts, phase, data, exit, failed, from, cleaned, captured>>
  BY <1>2 DEF Compare
<1>3. ASSUME NEW d \in Dataset, DropDataset(d)
      PROVE  UNCHANGED <<opts, phase, data, exit, failed, from, cleaned, captured>>
  BY <1>3 DEF DropDataset
<1>4. ASSUME NEW s \in Source, CleanCatalog(s)
      PROVE  UNCHANGED <<opts, phase, data, exit, failed, from, cleaned, captured>>
  BY <1>4 DEF CleanCatalog
<1>5. ASSUME UNCHANGED vars PROVE UNCHANGED <<opts, phase, data, exit, failed, from, cleaned, captured>>
  BY <1>5 DEF vars
<1> QED
  BY <1>1, <1>2, <1>3, <1>4, <1>5, RunHistory, StartHistory DEF Next, CleanRun, CleanDatabase

\* Every state that runs, clean and drop can reach satisfies the invariant.
THEOREM BuildInvariant == Spec => []BuildInv
<1>1. Init => BuildInv
  BY InitTyped, InitControl, InitFresh, InitHistory DEF BuildInv, Typed, Init, NoOption, Homed
<1>2. BuildInv /\ [Next]_vars => BuildInv'
  BY NextTyped, NextControl, NextFresh, NextHistory DEF BuildInv
<1> QED
  BY <1>1, <1>2, PTL DEF Spec

-----------------------------------------------------------------------------
(* The theorems                                                            *)

\* Run options, records, views and tables are of the kinds the code gives them.
THEOREM BuildsTyped == Spec => []TypeOK
<1>1. BuildInv => TypeOK
  BY DEF BuildInv, Typed
<1> QED
  BY <1>1, BuildInvariant, PTL

\* bind and verify (backend/duckdb.py): dbt reads the dataset the run has recorded, through
\* every view, for as long as it builds.
THEOREM ViewsShowInputs == Spec => []DbtReadsInputs
<1>1. BuildInv => DbtReadsInputs
  BY OneHome DEF BuildInv, Sound, Bound, Shows, DbtReadsInputs
<1> QED
  BY <1>1, BuildInvariant, PTL

\* check_prerequisites: what it found is still there while dbt builds.
THEOREM PrerequisitesExist == Spec => []BuildsOnExisting
<1>1. BuildInv => BuildsOnExisting
  BY DEF BuildInv, Sound, Bound, Ready, BuildsOnExisting
<1> QED
  BY <1>1, BuildInvariant, PTL

\* capture_outputs: a run that rebuilds all it reads captures rows of its dataset alone, even
\* if the dbt of a killed run builds in the same database.
THEOREM ResultsAreFresh == Spec => []FreshResults
<1>1. BuildInv => FreshResults
  BY DEF BuildInv, Sound, Results, FreshResults
<1> QED
  BY <1>1, BuildInvariant, PTL

\* finish_run, run.json and the exit code (orchestration.py) agree wherever the run ends.
THEOREM RecordsAgree == Spec => []SucceededHasEvidence
<1>1. BuildInv => SucceededHasEvidence
  BY DEF BuildInv, Control, Controlled, Ended, SucceededHasEvidence
<1> QED
  BY <1>1, BuildInvariant, PTL

\* replay_run (validation.py): a replay reads exactly what the run it replays has read.
THEOREM ReplaysReproduce == Spec => []ReplayReproduces
<1>1. BuildInv => ReplayReproduces
  <2> SUFFICES ASSUME BuildInv, NEW q \in Run, opts[q].kind = "replay", captured[q] # Nothing,
                      captured[opts[q].of] # Nothing, opts[q].full = opts[opts[q].of].full
               PROVE  captured[q] = captured[opts[q].of]
    BY DEF ReplayReproduces
  <2> DEFINE o == opts[q].of
  <2>1. /\ o \in Run /\ data[o] \in Dataset
        /\ opts[q].models = opts[o].models /\ opts[q].frozen = data[o]
        /\ opts[q].full \/ opts[q].models \cap Incremental = {}
        /\ Prerequisites(q) = {}
    BY DEF BuildInv, History, Follows, Alone
  <2>2. Rebuilds(q) /\ Rebuilds(o)
    BY <2>1 DEF Rebuilds, Prerequisites
  <2>3. data[q] = data[o]
    BY <2>1, LocalBuildsAssumption DEF BuildInv, Sound, Results, Control, Controlled, Held
  <2>4. \A m \in Model : captured[q][m] = captured[o][m]
    <3>1. Results(q) /\ Results(o)
      BY <2>1 DEF BuildInv, Sound
    <3>2. /\ \A m \in opts[q].models : captured[q][m] = {data[q]} /\ captured[o][m] = {data[q]}
          /\ \A m \in Model \ opts[q].models : captured[q][m] = {} /\ captured[o][m] = {}
      BY <2>1, <2>2, <2>3, <3>1 DEF Results
    <3> QED
      BY <3>2
  <2>5. captured \in [Run -> [Model -> SUBSET Dataset]]
    BY DEF BuildInv, Typed, TypeOK
  <2> QED
    BY <2>1, <2>4, <2>5
<1> QED
  BY <1>1, BuildInvariant, PTL

\* The home of a run that binds or builds is the one the documentation gives it.
LEMMA HomeOfRun ==
    ASSUME BuildInv, NEW r \in Run, opts[r].kind # "sync"
    PROVE  Builds(Database(r), r)
<1>1. CASE opts[r].kind = "build"
  BY <1>1 DEF Database, Builds
<1>2. CASE opts[r].kind = "step"
  BY <1>2 DEF Database, Builds
<1>3. CASE opts[r].kind \notin {"build", "step"}
  BY <1>3 DEF Database, Builds
<1> QED
  BY <1>1, <1>2, <1>3

\* What a step may do to the homes.
KeepsApart ==
    \A h \in Home : <<view[h], from[h]>>' # <<view[h], from[h]>> =>
        \/ removals' # removals
        \/ \E r \in Run : Builds(h, r) /\ <<toBind[r], todo[r]>>' # <<toBind[r], todo[r]>>

\* A step that changes a view or a table.
LEMMA ChangesLocal ==
    ASSUME BuildInv, [Next]_vars, local' # local, removals' = removals
    PROVE  \E r \in Run : \/ \E s \in Source : BindSource(r, s)
                          \/ \E m \in Model : DbtBuilds(r, m)
<1> USE DEF asked, ending, building, local, records, bounds
<1>1. ASSUME NEW r \in Run, Start(r) PROVE UNCHANGED local
  BY <1>1, StartCreates DEF Create, BuildInv, Typed
<1>2. ASSUME NEW r \in Run, Compare(r) PROVE UNCHANGED local
  BY <1>2 DEF Compare
<1>3. ASSUME CleanDatabase \/ (\E r \in Run : CleanRun(r)) \/ \E s \in Source : CleanCatalog(s)
      PROVE  FALSE
  BY <1>3 DEF CleanDatabase, CleanCatalog, CleanRun, Removal, BuildInv, Typed, TypeOK
<1>4. ASSUME NEW d \in Dataset, DropDataset(d) PROVE UNCHANGED local
  BY <1>4 DEF DropDataset
<1>5. ASSUME NEW r \in Run, RunStep(r)
      PROVE  \/ UNCHANGED local
             \/ \E s \in Source : BindSource(r, s)
             \/ \E m \in Model : DbtBuilds(r, m)
  BY <1>5 DEF RunStep, Refuse, Enter, RefuseBudget, Prepare, Commit, Verify, StartDbt, DbtFails,
              OrphanEnds, Complete, LoseResults, Summarise, Finish, Return, ReturnFails, Fail, RecordFailure,
              WriteFailure, HandlerFails, Kill
<1> QED
  BY <1>1, <1>2, <1>3, <1>4, <1>5 DEF Next, vars

\* isolated_config (validation.py): a database and its catalogs are changed by the runs they
\* belong to and by clean alone.
THEOREM HomesStaySeparate == Spec => HomesAreSeparate
<1>1. ASSUME BuildInv, [Next]_vars PROVE [KeepsApart]_vars
  <2> SUFFICES ASSUME NEW h \in Home, <<view[h], from[h]>>' # <<view[h], from[h]>>, removals' = removals
               PROVE  \E r \in Run : Builds(h, r) /\ <<toBind[r], todo[r]>>' # <<toBind[r], todo[r]>>
    BY DEF KeepsApart
  <2>1. PICK r \in Run : \/ \E s \in Source : BindSource(r, s)
                        \/ \E m \in Model : DbtBuilds(r, m)
    BY <1>1, ChangesLocal DEF local
  <2>2. /\ Database(r) \in Home /\ \A s : ViewHome(r, s) = Database(r)
        /\ Typed
    BY <1>1, OneHome DEF BuildInv
  <2>3. CASE \E s \in Source : BindSource(r, s)
    <3>1. h = Database(r)
      BY <2>2, <2>3 DEF BindSource, Typed, TypeOK
    <3>2. Builds(h, r)
      BY <1>1, <2>3, <3>1, HomeOfRun DEF BindSource, BuildInv, Control, Controlled, Process
    <3>3. toBind'[r] # toBind[r]
      BY <2>2, <2>3 DEF BindSource, Typed, TypeOK
    <3> QED
      BY <3>2, <3>3
  <2>4. CASE \E m \in Model : DbtBuilds(r, m)
    <3>1. h = Database(r)
      BY <2>2, <2>4 DEF DbtBuilds, Typed, TypeOK
    <3>2. Builds(h, r)
      BY <1>1, <2>4, <3>1, HomeOfRun DEF DbtBuilds, Attempts, BuildInv, Control, Controlled, Process
    <3>3. todo'[r] # todo[r]
      BY <2>2, <2>4 DEF DbtBuilds, Attempts, Typed, TypeOK
    <3> QED
      BY <3>2, <3>3
  <2> QED
    BY <2>1, <2>3, <2>4
<1> QED
  BY <1>1, BuildInvariant, PTL DEF Spec, HomesAreSeparate, KeepsApart

\* What has to hold when a report is made.
Reports ==
    report' # report =>
        \A r \in Run : opts[r].kind = "step" /\ opts[r].of \notin cleaned => Incrementally(r)

\* Only a comparison reports.
LEMMA ReportChanges ==
    ASSUME BuildInv, [Next]_vars, report' # report
    PROVE  \E p \in Run : Compare(p)
<1> USE DEF asked, ending, building, local, records, bounds
<1>1. ASSUME NEW r \in Run, Start(r) PROVE UNCHANGED report
  BY <1>1, StartCreates DEF Create, BuildInv, Typed
<1>2. ASSUME \/ CleanDatabase
             \/ \E r \in Run : CleanRun(r)
             \/ \E s \in Source : CleanCatalog(s)
             \/ \E d \in Dataset : DropDataset(d)
      PROVE  UNCHANGED report
  BY <1>2 DEF CleanDatabase, CleanCatalog, CleanRun, DropDataset
<1>3. ASSUME NEW r \in Run, RunStep(r) PROVE UNCHANGED report
  BY <1>3 DEF RunStep, Refuse, Enter, RefuseBudget, Prepare, Commit, BindSource, Verify, StartDbt,
              DbtBuilds, DbtFails, OrphanEnds, Complete, LoseResults, Summarise, Finish, Return, ReturnFails, Fail,
              RecordFailure, WriteFailure, HandlerFails, Kill
<1> QED
  BY <1>1, <1>2, <1>3 DEF Next, vars

\* validate_incremental: a step it reports on was built upon the initial state, unless that
\* was cleaned.
THEOREM ReportsAreIncremental == Spec => ReportIsIncremental
<1>1. ASSUME BuildInv, [Next]_vars PROVE [Reports]_vars
  <2> SUFFICES ASSUME report' # report, NEW r \in Run, opts[r].kind = "step", opts[r].of \notin cleaned
               PROVE  Incrementally(r)
    BY DEF Reports
  <2>1. PICK p \in Run : Compare(p)
    BY <1>1, ReportChanges
  <2>2. captured[opts[p].of] # Nothing
    BY <2>1 DEF Compare
  <2>3. opts[p].of = r
    BY <1>1, <2>1 DEF Compare, BuildInv, History, Follows
  <2> QED
    BY <1>1, <2>2, <2>3 DEF BuildInv, History, Stepped
<1> QED
  BY <1>1, BuildInvariant, PTL DEF Spec, ReportIsIncremental, Reports

=============================================================================
