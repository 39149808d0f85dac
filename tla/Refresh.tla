------------------------------ MODULE Refresh ------------------------------
(***************************************************************************)
(* One run's refresh of its sources: the levels of cohort parents and      *)
(* children, the worker pool, the connector sessions the workers pass on   *)
(* to one another, the run budget with its disk monitor thread, and the    *)
(* cancellation token that Ctrl-C, the monitor and a failed source set.    *)
(*                                                                         *)
(* The main thread (pc) submits a level, collects its futures and joins    *)
(* the pool; the workers' steps (task) interleave with it, with the        *)
(* monitor's and with the user's.  Captures end in the SnapshotStore       *)
(* module's Install or Match, here one step.                               *)
(***************************************************************************)
EXTENDS Naturals, FiniteSets

CONSTANTS
    Source,         \* the sources whose decision is REFRESH
    Parent,         \* the cohort parent of a source among them, or nothing
    Connection,
    ConnectionOf,   \* the connection a source is read through
    Workers,        \* source.extraction.parallel_sources
    MaxRetries,     \* source.extraction.max_retries
    BatchRows,      \* the sizes a batch can have; a row counts as one byte
    RowLimit,       \* RunBudget.row_limit
    ByteLimit       \* RunBudget.byte_limit

\* prepare_sources has refused cyclic cohorts before.
ASSUME RefreshAssumption ==
    /\ IsFiniteSet(Source)
    /\ Parent \in [Source -> SUBSET Source]
    /\ \A s \in Source : Cardinality(Parent[s]) <= 1
    /\ \A S \in (SUBSET Source) \ {{}} : \E s \in S : Parent[s] \cap S = {}
    /\ ConnectionOf \in [Source -> Connection]
    /\ Workers \in Nat \ {0}
    /\ MaxRetries \in Nat
    /\ BatchRows \subseteq Nat \ {0}
    /\ RowLimit \in Nat
    /\ ByteLimit \in Nat

VARIABLES
    pc,             \* the main thread
    remaining,      \* sources of the levels still to come
    known,          \* sources whose snapshot the main thread has collected
    caught,         \* the error it is unwinding with
    outcome,        \* how the run is reported
    task,           \* per source, its future and where its worker stands
    error,          \* what a failed future raises
    attempt,        \* retries of a source's query
    holds,          \* the session a worker uses, named after the source that opened it
    idle,           \* sessions in the queues
    live,           \* sessions opened and not closed
    rows, bytes,    \* what the budget has counted
    stored,         \* rows handed to the store, per source
    storedBytes,    \* and over the run
    cancelled,      \* the token
    interrupted,    \* the user pressed Ctrl-C
    monitor,        \* the disk monitor thread
    failure         \* RunBudget.failure is set

main     == <<pc, remaining, known, caught, outcome>>
workers  == <<task, error, attempt>>
sessions == <<holds, idle, live>>
budget   == <<rows, bytes, stored, storedBytes>>
token    == <<cancelled, interrupted>>
disk     == <<monitor, failure>>
vars     == <<main, workers, sessions, budget, token, disk>>

Pool    == {"holding", "querying", "waiting", "streaming", "sealed"}
Busy    == Pool \cup {"begun", "opening"}
Settled == {"done", "failed", "dropped"}
Running == {s \in Source : task[s] \in Busy}

TypeOK ==
    /\ pc \in {"preparing", "levels", "collecting", "draining", "closing",
               "ready", "published", "failed", "over"}
    /\ remaining \subseteq Source
    /\ known \subseteq Source
    /\ caught \in {"none", "error", "aborted", "cancelled"}
    /\ outcome \in {"none", "published", "budget", "error", "aborted", "cancelled"}
    /\ task \in [Source -> {"absent", "queued"} \cup Busy \cup Settled]
    /\ error \in [Source -> {"none", "error", "aborted", "cancelled"}]
    /\ attempt \in [Source -> 0..MaxRetries]
    /\ holds \in [Source -> SUBSET Source]
    /\ idle \subseteq Source
    /\ live \subseteq Source
    /\ rows \in [Source -> Nat] /\ bytes \in Nat
    /\ stored \in [Source -> Nat] /\ storedBytes \in Nat
    /\ cancelled \in BOOLEAN /\ interrupted \in BOOLEAN
    /\ monitor \in {"watching", "tripped", "gone"}
    /\ failure \in BOOLEAN

Init ==
    /\ pc = "preparing" /\ remaining = Source /\ known = {}
    /\ caught = "none" /\ outcome = "none"
    /\ task = [s \in Source |-> "absent"]
    /\ error = [s \in Source |-> "none"]
    /\ attempt = [s \in Source |-> 0]
    /\ holds = [s \in Source |-> {}] /\ idle = {} /\ live = {}
    /\ rows = [s \in Source |-> 0] /\ bytes = 0
    /\ stored = [s \in Source |-> 0] /\ storedBytes = 0
    /\ cancelled = FALSE /\ interrupted = FALSE
    /\ monitor = "watching" /\ failure = FALSE

-----------------------------------------------------------------------------
(* The main thread                                                         *)

Raise(from, e, to) == pc = from /\ caught' = e /\ pc' = to

\* Capabilities and credentials, before any session exists.
Prepare ==
    /\ \/ pc = "preparing" /\ pc' = "levels" /\ UNCHANGED caught
       \/ Raise("preparing", "error", "failed")
    /\ UNCHANGED <<remaining, known, outcome, workers, sessions, budget, token, disk>>

\* Faulty variant: children are submitted beside their parents.
LevelOfAll == remaining

\* source_levels: those whose parent is in no level still to come.
Level == {s \in remaining : Parent[s] \cap remaining = {}}

\* The children's requests are built from the parents' snapshots, then all submitted.
SubmitLevel ==
    /\ pc = "levels"
    /\ remaining # {}
    /\ remaining' = remaining \ Level
    /\ task' = [s \in Source |-> IF s \in Level THEN "queued" ELSE task[s]]
    /\ pc' = "collecting"
    /\ UNCHANGED <<known, caught, outcome, error, attempt, sessions, budget, token, disk>>

\* A parent's keys cannot be read, are unsupported or too many.
MaterializeFails ==
    /\ \E s \in Level : Parent[s] # {}
    /\ Raise("levels", "error", "closing")
    /\ UNCHANGED <<remaining, known, outcome, workers, sessions, budget, token, disk>>

Collect(s) ==
    /\ pc = "collecting"
    /\ task[s] = "done"
    /\ s \notin known
    /\ known' = known \cup {s}
    /\ UNCHANGED <<pc, remaining, caught, outcome, workers, sessions, budget, token, disk>>

\* The first future seen to have failed cancels the run.
CollectFailure(s) ==
    /\ task[s] = "failed"
    /\ Raise("collecting", error[s], "draining")
    /\ cancelled' = TRUE
    /\ UNCHANGED <<remaining, known, outcome, workers, sessions, budget, interrupted, disk>>

\* future.cancel() succeeds for what no worker has taken.
DropQueued(s) ==
    /\ pc = "draining"
    /\ task[s] = "queued"
    /\ task' = [task EXCEPT ![s] = "dropped"]
    /\ UNCHANGED <<main, error, attempt, sessions, budget, token, disk>>

\* Faulty variant: after a failure the main thread does not wait for the workers.
JoinUnlessFailed ==
    /\ \/ /\ pc = "collecting"
          /\ Source \ remaining \subseteq known
          /\ pc' = "levels"
       \/ pc = "draining" /\ pc' = "closing"
    /\ UNCHANGED <<remaining, known, caught, outcome, workers, sessions, budget, token, disk>>

\* Leaving the pool's with block waits for its workers.
JoinPool ==
    /\ \A s \in Source : task[s] \in Settled \cup {"absent"}
    /\ \/ /\ pc = "collecting"
          /\ Source \ remaining \subseteq known
          /\ pc' = "levels"
       \/ pc = "draining" /\ pc' = "closing"
    /\ UNCHANGED <<remaining, known, caught, outcome, workers, sessions, budget, token, disk>>

LevelsDone ==
    /\ pc = "levels"
    /\ remaining = {}
    /\ pc' = "closing"
    /\ UNCHANGED <<remaining, known, caught, outcome, workers, sessions, budget, token, disk>>

CloseSession(x) ==
    /\ pc = "closing"
    /\ x \in idle
    /\ idle' = idle \ {x}
    /\ live' = live \ {x}
    /\ UNCHANGED <<main, workers, holds, budget, token, disk>>

\* Faulty variant: returning from the finally clause swallows the error.
SessionsClosedReturns ==
    /\ pc = "closing"
    /\ idle = {}
    /\ pc' = "ready"
    /\ UNCHANGED <<remaining, known, caught, outcome, workers, sessions, budget, token, disk>>

SessionsClosed ==
    /\ pc = "closing"
    /\ idle = {}
    /\ pc' = IF caught = "none" THEN "ready" ELSE "failed"
    /\ UNCHANGED <<remaining, known, caught, outcome, workers, sessions, budget, token, disk>>

\* The last look at the token and the disk before the dataset is committed.
Finalize ==
    /\ \/ cancelled /\ Raise("ready", "cancelled", "failed")
       \/ ~cancelled /\ Raise("ready", "error", "failed")
       \/ pc = "ready" /\ ~cancelled /\ pc' = "published" /\ UNCHANGED caught
    /\ UNCHANGED <<remaining, known, outcome, workers, sessions, budget, token, disk>>

\* The except clause reports the monitor's finding before the error it led to.
Report ==
    /\ pc \in {"published", "failed"}
    /\ outcome' = IF pc = "published" THEN "published"
                  ELSE IF failure THEN "budget" ELSE caught
    /\ pc' = "over"
    /\ UNCHANGED <<remaining, known, caught, workers, sessions, budget, token, disk>>

-----------------------------------------------------------------------------
(* A worker                                                                *)

Goto(s, from, to) == task[s] = from /\ task' = [task EXCEPT ![s] = to]

\* An exception after the session was obtained puts the session back.
Fail(s, from, e) ==
    /\ Goto(s, from, "failed")
    /\ error' = [error EXCEPT ![s] = e]
    /\ idle' = idle \cup holds[s]
    /\ holds' = [holds EXCEPT ![s] = {}]
    /\ UNCHANGED <<attempt, live>>

Begin(s) ==
    /\ Cardinality(Running) < Workers
    /\ \/ cancelled /\ Fail(s, "queued", "cancelled")
       \/ ~cancelled /\ Goto(s, "queued", "begun") /\ UNCHANGED <<error, attempt, sessions>>
    /\ UNCHANGED <<main, budget, token, disk>>

\* Faulty variant: the connector taken also stays in the queue.
TakeSessionShares(s) ==
    LET Free == {x \in idle : ConnectionOf[x] = ConnectionOf[s]} IN
    /\ \/ /\ Free = {}
          /\ Goto(s, "begun", "opening")
          /\ UNCHANGED holds
       \/ \E x \in Free :
             /\ Goto(s, "begun", "holding")
             /\ holds' = [holds EXCEPT ![s] = {x}]
    /\ UNCHANGED <<main, error, attempt, idle, live, budget, token, disk>>

\* Faulty variant: every source opens a session of its own.
TakeSessionOpens(s) ==
    /\ Goto(s, "begun", "opening")
    /\ UNCHANGED <<main, error, attempt, sessions, budget, token, disk>>

\* get_nowait on the connection's queue, or a connector of one's own.
TakeSession(s) ==
    LET Free == {x \in idle : ConnectionOf[x] = ConnectionOf[s]} IN
    /\ \/ /\ Free = {}
          /\ Goto(s, "begun", "opening")
          /\ UNCHANGED <<idle, holds>>
       \/ \E x \in Free :
             /\ Goto(s, "begun", "holding")
             /\ idle' = idle \ {x}
             /\ holds' = [holds EXCEPT ![s] = {x}]
    /\ UNCHANGED <<main, error, attempt, live, budget, token, disk>>

\* A connector that does not open is closed on the spot.
OpenSession(s) ==
    /\ \/ /\ Goto(s, "opening", "holding")
          /\ live' = live \cup {s}
          /\ holds' = [holds EXCEPT ![s] = {s}]
          /\ UNCHANGED <<error, attempt, idle>>
       \/ Fail(s, "opening", "error")
    /\ UNCHANGED <<main, budget, token, disk>>

\* The cancellation check at the head of the connector's retry loop.
StartQuery(s) ==
    /\ \E from \in {"holding", "waiting"} :
           \/ cancelled /\ Fail(s, from, "cancelled")
           \/ /\ ~cancelled
              /\ Goto(s, from, "querying")
              /\ UNCHANGED <<error, attempt, sessions>>
    /\ UNCHANGED <<main, budget, token, disk>>

\* Faulty variant: one attempt more than configured.
RetryQueryOnceMore(s) ==
    /\ attempt[s] <= MaxRetries
    /\ \/ cancelled /\ Fail(s, "querying", "cancelled")
       \/ /\ ~cancelled
          /\ Goto(s, "querying", "waiting")
          /\ attempt' = [attempt EXCEPT ![s] = @ + 1]
          /\ UNCHANGED <<error, sessions>>
    /\ UNCHANGED <<main, budget, token, disk>>

\* Faulty variant: retries are not counted.
RetryQueryForever(s) ==
    /\ \/ cancelled /\ Fail(s, "querying", "cancelled")
       \/ /\ ~cancelled
          /\ Goto(s, "querying", "waiting")
          /\ UNCHANGED <<error, attempt, sessions>>
    /\ UNCHANGED <<main, budget, token, disk>>

\* A transient error waits and tries again, unless cancelled meanwhile.
RetryQuery(s) ==
    /\ attempt[s] < MaxRetries
    /\ \/ cancelled /\ Fail(s, "querying", "cancelled")
       \/ /\ ~cancelled
          /\ Goto(s, "querying", "waiting")
          /\ attempt' = [attempt EXCEPT ![s] = @ + 1]
          /\ UNCHANGED <<error, sessions>>
    /\ UNCHANGED <<main, budget, token, disk>>

QueryEnds(s) ==
    /\ \/ Goto(s, "querying", "streaming") /\ UNCHANGED <<error, attempt, sessions>>
       \/ Fail(s, "querying", "error")
    /\ UNCHANGED <<main, budget, token, disk>>

\* The token's callback aborts a running query. The Parquet connector then asks the
\* token; the Snowflake connector wraps the driver's error in an ExtractionError.
AbortQuery(s) ==
    /\ cancelled
    /\ \E from \in {"querying", "streaming"}, e \in {"cancelled", "aborted"} :
           Fail(s, from, e)
    /\ UNCHANGED <<main, budget, token, disk>>

\* Faulty variant: the totals are judged before the batch is counted.
WithinSoFar(s) == rows[s] <= RowLimit /\ bytes <= ByteLimit

Within(s) == rows'[s] <= RowLimit /\ bytes' <= ByteLimit

\* consume counts a batch under the budget's lock, then judges the new totals.
Consume(s, n) ==
    /\ rows' = [rows EXCEPT ![s] = @ + n]
    /\ bytes' = bytes + n
    /\ \/ /\ Within(s)
          /\ Goto(s, "streaming", "streaming")
          /\ stored' = [stored EXCEPT ![s] = @ + n]
          /\ storedBytes' = storedBytes + n
          /\ UNCHANGED <<error, attempt, sessions>>
       \/ /\ ~Within(s)
          /\ Fail(s, "streaming", "error")
          /\ UNCHANGED <<stored, storedBytes>>

Batch(s) ==
    /\ \/ /\ cancelled
          /\ Fail(s, "streaming", "cancelled")
          /\ UNCHANGED budget
       \/ /\ ~cancelled
          /\ \E n \in BatchRows : Consume(s, n)
    /\ UNCHANGED <<main, token, disk>>

\* The stream ends, or something goes wrong: transfer, quota, disk, schema, version.
EndExtraction(s) ==
    /\ \/ Goto(s, "streaming", "sealed") /\ UNCHANGED <<error, attempt, sessions>>
       \/ \E from \in Pool \ {"querying", "waiting"} : Fail(s, from, "error")
    /\ UNCHANGED <<main, budget, token, disk>>

\* The snapshot is installed and recorded; the session goes back to its queue.
Commit(s) ==
    /\ Goto(s, "sealed", "done")
    /\ idle' = idle \cup holds[s]
    /\ holds' = [holds EXCEPT ![s] = {}]
    /\ UNCHANGED <<main, error, attempt, live, budget, token, disk>>

Worker(s) ==
    \/ Begin(s) \/ TakeSession(s) \/ OpenSession(s)
    \/ StartQuery(s) \/ RetryQuery(s) \/ QueryEnds(s) \/ AbortQuery(s)
    \/ Batch(s) \/ EndExtraction(s) \/ Commit(s)

-----------------------------------------------------------------------------
(* The monitor thread and the user                                         *)

\* Faulty variant: the token is cancelled before the finding is left.
MonitorCancelsFirst ==
    /\ \/ /\ monitor = "watching" /\ pc # "over"
          /\ monitor' = "tripped"
          /\ cancelled' = TRUE
          /\ UNCHANGED failure
       \/ /\ monitor = "tripped"
          /\ monitor' = "gone"
          /\ failure' = TRUE
          /\ UNCHANGED cancelled
    /\ UNCHANGED <<main, workers, sessions, budget, interrupted>>

\* The monitor leaves its finding where the main thread looks, then cancels.
Monitor ==
    /\ \/ /\ monitor = "watching" /\ pc # "over"
          /\ monitor' = "tripped"
          /\ failure' = TRUE
          /\ UNCHANGED cancelled
       \/ /\ monitor = "tripped"
          /\ monitor' = "gone"
          /\ cancelled' = TRUE
          /\ UNCHANGED failure
    /\ UNCHANGED <<main, workers, sessions, budget, interrupted>>

Interrupt ==
    /\ pc # "over"
    /\ ~interrupted
    /\ interrupted' = TRUE
    /\ cancelled' = TRUE
    /\ UNCHANGED <<main, workers, sessions, budget, disk>>

Main ==
    \/ Prepare \/ SubmitLevel \/ MaterializeFails \/ JoinPool \/ LevelsDone
    \/ SessionsClosed \/ Finalize \/ Report
    \/ \E s \in Source : Collect(s) \/ CollectFailure(s) \/ DropQueued(s) \/ CloseSession(s)

Next == Main \/ (\E s \in Source : Worker(s)) \/ Monitor \/ Interrupt

Spec == Init /\ [][Next]_vars

\* The main thread and every worker go on; a query returns or fails, batches are finite.
FairSpec ==
    /\ Spec
    /\ WF_vars(Main)
    /\ \A s \in Source : WF_vars(Worker(s))

-----------------------------------------------------------------------------
(* Properties                                                              *)

Held == UNION {holds[s] : s \in Source}

\* No session is used by two workers, none is both queued and in use, and every open one
\* is queued or in use: the queue hands a connector, whose cursor is not thread-safe, to
\* one worker at a time, and none is lost when a capture fails.
SessionsExclusive ==
    /\ live = idle \cup Held
    /\ idle \cap Held = {}
    /\ \A s, t \in Source : s # t => holds[s] \cap holds[t] = {}

\* A connection never has more sessions open than there are workers, over all levels:
\* a later level reuses what an earlier one opened.
SessionsBounded ==
    \A c \in Connection :
        Cardinality({x \in live : ConnectionOf[x] = c}
                    \cup {s \in Source : task[s] = "opening" /\ ConnectionOf[s] = c})
            <= Workers

\* When the refresh has returned or raised, no session is open and no worker is still at it.
NothingLeftOpen ==
    pc \in {"ready", "published", "failed", "over"} => live = {} /\ Running = {}

\* Whatever the workers interleave, no batch beyond the row or the byte limit
\* reaches the store.
WithinBudget ==
    /\ storedBytes <= ByteLimit
    /\ \A s \in Source : stored[s] <= RowLimit

\* A child is only captured once its parent's snapshot of this very run is known.
ParentsFirst == \A s \in Source : task[s] # "absent" => Parent[s] \subseteq known

\* A dataset is committed only when every source has been captured in full.
PublishedComplete == outcome = "published" => \A s \in Source : task[s] = "done"

\* A run reports cancellation, or a query that cancellation aborted, only if the user asked
\* for it: a full disk or a failed source, which also cancel, are reported as what they are.
CauseReported == outcome \in {"cancelled", "aborted"} => interrupted

\* A run that Ctrl-C stopped says so (docs: exit 130) and does not blame the source.
InterruptReported == interrupted => outcome # "aborted"

\* Every refresh ends: the pool joins, whatever fails and whoever cancels.
RefreshEnds == <>(pc = "over")
=============================================================================
