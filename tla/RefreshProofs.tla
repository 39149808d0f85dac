--------------------------- MODULE RefreshProofs ---------------------------
(***************************************************************************)
(* For any sources, cohorts, workers and limits: limits hold, sessions are *)
(* never shared nor left open nor more than the workers, parents come      *)
(* first, a published dataset is complete, and a run's cause is reported.  *)
(***************************************************************************)
EXTENDS Refresh, FiniteSetTheorems, TLAPS

USE RefreshAssumption DEF main, workers, sessions, budget, token, disk, Pool, Busy, Settled

-----------------------------------------------------------------------------
(* Types                                                                   *)

\* Every step keeps the types.
LEMMA TypeStep == ASSUME TypeOK, [Next]_vars PROVE TypeOK'
<1> USE DEF TypeOK
<1>1. CASE Prepare
  BY <1>1 DEF Prepare, Raise
<1>2. CASE SubmitLevel
  BY <1>2 DEF SubmitLevel, Level
<1>3. CASE MaterializeFails
  BY <1>3 DEF MaterializeFails, Raise, Level
<1>4. CASE JoinPool
  BY <1>4 DEF JoinPool
<1>5. CASE LevelsDone
  BY <1>5 DEF LevelsDone
<1>6. CASE SessionsClosed
  BY <1>6 DEF SessionsClosed
<1>7. CASE Finalize
  BY <1>7 DEF Finalize, Raise
<1>8. CASE Report
  BY <1>8 DEF Report
<1>9. ASSUME NEW s \in Source, Collect(s) PROVE TypeOK'
  BY <1>9 DEF Collect
<1>10. ASSUME NEW s \in Source, CollectFailure(s) PROVE TypeOK'
  BY <1>10 DEF CollectFailure, Raise
<1>11. ASSUME NEW s \in Source, DropQueued(s) PROVE TypeOK'
  BY <1>11 DEF DropQueued
<1>12. ASSUME NEW s \in Source, CloseSession(s) PROVE TypeOK'
  BY <1>12 DEF CloseSession
<1>13. ASSUME NEW s \in Source, Begin(s) PROVE TypeOK'
  BY <1>13 DEF Begin, Goto, Fail
<1>14. ASSUME NEW s \in Source, TakeSession(s) PROVE TypeOK'
  BY <1>14 DEF TakeSession, Goto
<1>15. ASSUME NEW s \in Source, OpenSession(s) PROVE TypeOK'
  BY <1>15 DEF OpenSession, Goto, Fail
<1>16. ASSUME NEW s \in Source, StartQuery(s) PROVE TypeOK'
  BY <1>16 DEF StartQuery, Goto, Fail
<1>17. ASSUME NEW s \in Source, RetryQuery(s) PROVE TypeOK'
  BY <1>17 DEF RetryQuery, Goto, Fail
<1>18. ASSUME NEW s \in Source, QueryEnds(s) PROVE TypeOK'
  BY <1>18 DEF QueryEnds, Goto, Fail
<1>19. ASSUME NEW s \in Source, AbortQuery(s) PROVE TypeOK'
  BY <1>19 DEF AbortQuery, Fail, Goto
<1>20. ASSUME NEW s \in Source, Batch(s) PROVE TypeOK'
  BY <1>20 DEF Batch, Consume, Within, Goto, Fail
<1>21. ASSUME NEW s \in Source, EndExtraction(s) PROVE TypeOK'
  BY <1>21 DEF EndExtraction, Goto, Fail
<1>22. ASSUME NEW s \in Source, Commit(s) PROVE TypeOK'
  BY <1>22 DEF Commit, Goto
<1>23. CASE Monitor
  BY <1>23 DEF Monitor
<1>24. CASE Interrupt
  BY <1>24 DEF Interrupt
<1>25. CASE UNCHANGED vars
  BY <1>25 DEF vars
<1> QED
  BY <1>1, <1>2, <1>3, <1>4, <1>5, <1>6, <1>7, <1>8, <1>9, <1>10, <1>11, <1>12, <1>13, <1>14,
     <1>15, <1>16, <1>17, <1>18, <1>19, <1>20, <1>21, <1>22, <1>23, <1>24, <1>25
     DEF Next, Main, Worker

\* The refresh is well typed, whatever the sources, workers and limits.
THEOREM RefreshTyped == Spec => []TypeOK
<1>1. ASSUME Init PROVE TypeOK
  <2> USE <1>1 DEF Init
  <2>1. task \in [Source -> {"absent", "queued"} \cup Busy \cup Settled]
    OBVIOUS
  <2>2. /\ error \in [Source -> {"none", "error", "aborted", "cancelled"}]
        /\ attempt \in [Source -> 0..MaxRetries]
        /\ holds \in [Source -> SUBSET Source]
    OBVIOUS
  <2>3. /\ rows \in [Source -> Nat] /\ bytes \in Nat
        /\ stored \in [Source -> Nat] /\ storedBytes \in Nat
    OBVIOUS
  <2> QED
    BY <2>1, <2>2, <2>3 DEF TypeOK
<1> QED
  BY <1>1, TypeStep, PTL DEF Spec

-----------------------------------------------------------------------------
(* The budget                                                              *)

\* What the store was handed is at most what was counted, and was within the limits when
\* it was; a batch that breaks a limit is counted but not handed over.
Counted ==
    /\ WithinBudget
    /\ storedBytes <= bytes
    /\ \A s \in Source : stored[s] <= rows[s]

\* Only Consume counts, and it hands over what it found within the limits.
LEMMA BudgetStep == ASSUME TypeOK, Counted, [Next]_vars PROVE Counted'
<1> USE DEF TypeOK, Counted, WithinBudget
<1>1. CASE Prepare
  BY <1>1 DEF Prepare, Raise
<1>2. CASE SubmitLevel
  BY <1>2 DEF SubmitLevel, Level
<1>3. CASE MaterializeFails
  BY <1>3 DEF MaterializeFails, Raise, Level
<1>4. CASE JoinPool
  BY <1>4 DEF JoinPool
<1>5. CASE LevelsDone
  BY <1>5 DEF LevelsDone
<1>6. CASE SessionsClosed
  BY <1>6 DEF SessionsClosed
<1>7. CASE Finalize
  BY <1>7 DEF Finalize, Raise
<1>8. CASE Report
  BY <1>8 DEF Report
<1>9. ASSUME NEW s \in Source, Collect(s) PROVE Counted'
  BY <1>9 DEF Collect
<1>10. ASSUME NEW s \in Source, CollectFailure(s) PROVE Counted'
  BY <1>10 DEF CollectFailure, Raise
<1>11. ASSUME NEW s \in Source, DropQueued(s) PROVE Counted'
  BY <1>11 DEF DropQueued
<1>12. ASSUME NEW s \in Source, CloseSession(s) PROVE Counted'
  BY <1>12 DEF CloseSession
<1>13. ASSUME NEW s \in Source, Begin(s) PROVE Counted'
  BY <1>13 DEF Begin, Goto, Fail
<1>14. ASSUME NEW s \in Source, TakeSession(s) PROVE Counted'
  BY <1>14 DEF TakeSession, Goto
<1>15. ASSUME NEW s \in Source, OpenSession(s) PROVE Counted'
  BY <1>15 DEF OpenSession, Goto, Fail
<1>16. ASSUME NEW s \in Source, StartQuery(s) PROVE Counted'
  BY <1>16 DEF StartQuery, Goto, Fail
<1>17. ASSUME NEW s \in Source, RetryQuery(s) PROVE Counted'
  BY <1>17 DEF RetryQuery, Goto, Fail
<1>18. ASSUME NEW s \in Source, QueryEnds(s) PROVE Counted'
  BY <1>18 DEF QueryEnds, Goto, Fail
<1>19. ASSUME NEW s \in Source, AbortQuery(s) PROVE Counted'
  BY <1>19 DEF AbortQuery, Fail, Goto
<1>20. ASSUME NEW s \in Source, Batch(s) PROVE Counted'
  BY <1>20 DEF Batch, Consume, Within, Goto, Fail
<1>21. ASSUME NEW s \in Source, EndExtraction(s) PROVE Counted'
  BY <1>21 DEF EndExtraction, Goto, Fail
<1>22. ASSUME NEW s \in Source, Commit(s) PROVE Counted'
  BY <1>22 DEF Commit, Goto
<1>23. CASE Monitor
  BY <1>23 DEF Monitor
<1>24. CASE Interrupt
  BY <1>24 DEF Interrupt
<1>25. CASE UNCHANGED vars
  BY <1>25 DEF vars
<1> QED
  BY <1>1, <1>2, <1>3, <1>4, <1>5, <1>6, <1>7, <1>8, <1>9, <1>10, <1>11, <1>12, <1>13, <1>14,
     <1>15, <1>16, <1>17, <1>18, <1>19, <1>20, <1>21, <1>22, <1>23, <1>24, <1>25
     DEF Next, Main, Worker

\* No interleaving of workers hands the store more than the limits allow.
THEOREM BudgetRespected == Spec => []WithinBudget
<1>1. Init => Counted
  BY DEF Init, Counted, WithinBudget
<1>2. Counted => WithinBudget
  BY DEF Counted
<1> QED
  BY <1>1, <1>2, BudgetStep, RefreshTyped, PTL DEF Spec

-----------------------------------------------------------------------------
(* Sessions                                                                *)

\* A source that is still to be submitted has no future; one without a session to hold
\* holds none; and the session named after a source is opened by it, once.
Ownership ==
    /\ SessionsExclusive
    /\ \A s \in Source : s \in remaining => task[s] = "absent"
    /\ \A s \in Source : task[s] \notin Pool => holds[s] = {}
    /\ \A s \in live : task[s] \in Pool \cup {"done", "failed"}

\* A session moves from a queue to one worker and back, until it is closed.
LEMMA OwnershipStep == ASSUME TypeOK, Ownership, [Next]_vars PROVE Ownership'
<1> USE DEF TypeOK, Ownership, SessionsExclusive
<1>1. CASE Prepare
  BY <1>1 DEF Prepare, Raise, Held
<1>2. CASE SubmitLevel
  BY <1>2 DEF SubmitLevel, Level, Held
<1>3. CASE MaterializeFails
  BY <1>3 DEF MaterializeFails, Raise, Level, Held
<1>4. CASE JoinPool
  BY <1>4 DEF JoinPool, Held
<1>5. CASE LevelsDone
  BY <1>5 DEF LevelsDone, Held
<1>6. CASE SessionsClosed
  BY <1>6 DEF SessionsClosed, Held
<1>7. CASE Finalize
  BY <1>7 DEF Finalize, Raise, Held
<1>8. CASE Report
  BY <1>8 DEF Report, Held
<1>9. ASSUME NEW s \in Source, Collect(s) PROVE Ownership'
  BY <1>9 DEF Collect, Held
<1>10. ASSUME NEW s \in Source, CollectFailure(s) PROVE Ownership'
  BY <1>10 DEF CollectFailure, Raise, Held
<1>11. ASSUME NEW s \in Source, DropQueued(s) PROVE Ownership'
  BY <1>11 DEF DropQueued, Held
<1>12. ASSUME NEW s \in Source, CloseSession(s) PROVE Ownership'
  <2>1. Held' = Held /\ s \notin Held
    BY <1>12 DEF CloseSession, Held
  <2> QED
    BY <1>12, <2>1 DEF CloseSession
<1>13. ASSUME NEW s \in Source, Begin(s) PROVE Ownership'
  BY <1>13 DEF Begin, Goto, Fail, Held
<1>14. ASSUME NEW s \in Source, TakeSession(s) PROVE Ownership'
  <2>1. CASE idle' = idle /\ holds' = holds
    BY <1>14, <2>1 DEF TakeSession, Goto, Held
  <2>2. ASSUME NEW x \in idle, Goto(s, "begun", "holding"), live' = live, remaining' = remaining,
               idle' = idle \ {x}, holds' = [holds EXCEPT ![s] = {x}]
        PROVE  Ownership'
    <3>1. holds[s] = {} /\ x \notin Held
      BY <2>2 DEF Goto
    <3>2. Held' = Held \cup {x}
      BY <2>2, <3>1 DEF Held
    <3>3. SessionsExclusive'
      BY <2>2, <3>1, <3>2 DEF Held
    <3> QED
      BY <2>2, <3>3 DEF Goto
  <2> QED
    BY <1>14, <2>1, <2>2 DEF TakeSession
<1>15. ASSUME NEW s \in Source, OpenSession(s) PROVE Ownership'
  BY <1>15 DEF OpenSession, Goto, Fail, Held
<1>16. ASSUME NEW s \in Source, StartQuery(s) PROVE Ownership'
  BY <1>16 DEF StartQuery, Goto, Fail, Held
<1>17. ASSUME NEW s \in Source, RetryQuery(s) PROVE Ownership'
  BY <1>17 DEF RetryQuery, Goto, Fail, Held
<1>18. ASSUME NEW s \in Source, QueryEnds(s) PROVE Ownership'
  BY <1>18 DEF QueryEnds, Goto, Fail, Held
<1>19. ASSUME NEW s \in Source, AbortQuery(s) PROVE Ownership'
  BY <1>19 DEF AbortQuery, Fail, Goto, Held
<1>20. ASSUME NEW s \in Source, Batch(s) PROVE Ownership'
  BY <1>20 DEF Batch, Consume, Within, Goto, Fail, Held
<1>21. ASSUME NEW s \in Source, EndExtraction(s) PROVE Ownership'
  BY <1>21 DEF EndExtraction, Goto, Fail, Held
<1>22. ASSUME NEW s \in Source, Commit(s) PROVE Ownership'
  BY <1>22 DEF Commit, Goto, Held
<1>23. CASE Monitor
  BY <1>23 DEF Monitor, Held
<1>24. CASE Interrupt
  BY <1>24 DEF Interrupt, Held
<1>25. CASE UNCHANGED vars
  BY <1>25 DEF vars, Held
<1> QED
  BY <1>1, <1>2, <1>3, <1>4, <1>5, <1>6, <1>7, <1>8, <1>9, <1>10, <1>11, <1>12, <1>13, <1>14,
     <1>15, <1>16, <1>17, <1>18, <1>19, <1>20, <1>21, <1>22, <1>23, <1>24, <1>25
     DEF Next, Main, Worker

\* No two workers share a session and none is lost, for any number of them.
THEOREM SessionsNeverShared == Spec => []SessionsExclusive
<1>1. Init => Ownership
  BY DEF Init, Ownership, SessionsExclusive, Held
<1>2. Ownership => SessionsExclusive
  BY DEF Ownership
<1> QED
  BY <1>1, <1>2, OwnershipStep, RefreshTyped, PTL DEF Spec

-----------------------------------------------------------------------------
(* The number of sessions                                                  *)

\* What counts against a connection's bound: its open sessions and those being opened.
Using(c) ==
    {x \in live : ConnectionOf[x] = c}
    \cup {s \in Source : task[s] = "opening" /\ ConnectionOf[s] = c}

\* A worker has one session, and there are no more workers than the pool has threads.
OneHeld     == \A s \in Source : \A x, y \in holds[s] : x = y
PoolBounded == Cardinality(Running) <= Workers

\* Only a worker's first step makes it one of the running, and only looking for a session
\* makes it one of those who use the connection: opening turns the one into the other.
Grown ==
    /\ OneHeld'
    /\ Running' \subseteq Running \/ \E s \in Source : Begin(s)
    /\ \/ \A c \in Connection : Using(c)' \subseteq Using(c)
       \/ \E s \in Source : TakeSession(s)

LEMMA GrownStep == ASSUME TypeOK, Ownership, OneHeld, [Next]_vars PROVE Grown
<1> USE DEF TypeOK, Ownership, OneHeld, Grown, Running, Using
<1>1. CASE Prepare
  BY <1>1 DEF Prepare, Raise
<1>2. CASE SubmitLevel
  BY <1>2 DEF SubmitLevel, Level
<1>3. CASE MaterializeFails
  BY <1>3 DEF MaterializeFails, Raise, Level
<1>4. CASE JoinPool
  BY <1>4 DEF JoinPool
<1>5. CASE LevelsDone
  BY <1>5 DEF LevelsDone
<1>6. CASE SessionsClosed
  BY <1>6 DEF SessionsClosed
<1>7. CASE Finalize
  BY <1>7 DEF Finalize, Raise
<1>8. CASE Report
  BY <1>8 DEF Report
<1>9. ASSUME NEW s \in Source, Collect(s) PROVE Grown
  BY <1>9 DEF Collect
<1>10. ASSUME NEW s \in Source, CollectFailure(s) PROVE Grown
  BY <1>10 DEF CollectFailure, Raise
<1>11. ASSUME NEW s \in Source, DropQueued(s) PROVE Grown
  BY <1>11 DEF DropQueued
<1>12. ASSUME NEW s \in Source, CloseSession(s) PROVE Grown
  BY <1>12 DEF CloseSession
<1>13. ASSUME NEW s \in Source, Begin(s) PROVE Grown
  <2>1. OneHeld' /\ \A c \in Connection : Using(c)' \subseteq Using(c)
    BY <1>13 DEF Begin, Goto, Fail
  <2> QED
    BY <1>13, <2>1
<1>14. ASSUME NEW s \in Source, TakeSession(s) PROVE Grown
  BY <1>14 DEF TakeSession, Goto
<1>15. ASSUME NEW s \in Source, OpenSession(s) PROVE Grown
  BY <1>15 DEF OpenSession, Goto, Fail
<1>16. ASSUME NEW s \in Source, StartQuery(s) PROVE Grown
  BY <1>16 DEF StartQuery, Goto, Fail
<1>17. ASSUME NEW s \in Source, RetryQuery(s) PROVE Grown
  BY <1>17 DEF RetryQuery, Goto, Fail
<1>18. ASSUME NEW s \in Source, QueryEnds(s) PROVE Grown
  BY <1>18 DEF QueryEnds, Goto, Fail
<1>19. ASSUME NEW s \in Source, AbortQuery(s) PROVE Grown
  BY <1>19 DEF AbortQuery, Fail, Goto
<1>20. ASSUME NEW s \in Source, Batch(s) PROVE Grown
  BY <1>20 DEF Batch, Consume, Within, Goto, Fail
<1>21. ASSUME NEW s \in Source, EndExtraction(s) PROVE Grown
  BY <1>21 DEF EndExtraction, Goto, Fail
<1>22. ASSUME NEW s \in Source, Commit(s) PROVE Grown
  BY <1>22 DEF Commit, Goto
<1>23. CASE Monitor
  BY <1>23 DEF Monitor
<1>24. CASE Interrupt
  BY <1>24 DEF Interrupt
<1>25. CASE UNCHANGED vars
  BY <1>25 DEF vars
<1> QED
  BY <1>1, <1>2, <1>3, <1>4, <1>5, <1>6, <1>7, <1>8, <1>9, <1>10, <1>11, <1>12, <1>13, <1>14,
     <1>15, <1>16, <1>17, <1>18, <1>19, <1>20, <1>21, <1>22, <1>23, <1>24, <1>25
     DEF Next, Main, Worker

LEMMA RunningFinite == IsFiniteSet(Running)
<1>1. Running \in SUBSET Source
  BY DEF Running
<1> QED
  BY <1>1, FS_Subset

\* A worker begins only while another thread of the pool is free.
LEMMA PoolStep == ASSUME TypeOK, PoolBounded, Grown PROVE PoolBounded'
<1>1. CASE Running' \subseteq Running
  <2>1. Cardinality(Running') <= Cardinality(Running)
    BY <1>1, RunningFinite, FS_Subset
  <2>2. Cardinality(Running') \in Nat /\ Cardinality(Running) \in Nat
    BY <1>1, RunningFinite, FS_Subset, FS_CardinalityType
  <2> QED
    BY <2>1, <2>2 DEF PoolBounded
<1>2. ASSUME NEW s \in Source, Begin(s)
      PROVE  PoolBounded'
  <2>1. Running' \subseteq Running \cup {s}
    BY <1>2 DEF Begin, Goto, Fail, Running, TypeOK
  <2>2. /\ IsFiniteSet(Running \cup {s})
        /\ Cardinality(Running \cup {s}) <= Cardinality(Running) + 1
    <3>1. Cardinality(Running) \in Nat
      BY RunningFinite, FS_CardinalityType
    <3>2. /\ IsFiniteSet(Running \cup {s})
          /\ Cardinality(Running \cup {s}) =
                 IF s \in Running THEN Cardinality(Running) ELSE Cardinality(Running) + 1
      BY RunningFinite, FS_AddElement
    <3> QED
      BY <3>1, <3>2
  <2>3. Cardinality(Running') <= Cardinality(Running \cup {s})
    BY <2>1, <2>2, FS_Subset
  <2>4. Cardinality(Running) < Workers
    BY <1>2 DEF Begin
  <2>5. /\ Cardinality(Running') \in Nat /\ Cardinality(Running) \in Nat
        /\ Cardinality(Running \cup {s}) \in Nat
    BY <2>1, <2>2, RunningFinite, FS_Subset, FS_CardinalityType
  <2> QED
    BY <2>2, <2>3, <2>4, <2>5 DEF PoolBounded
<1> QED
  BY <1>1, <1>2 DEF Grown

\* When no session of a connection is free, each of its users is, or is held by, another
\* worker than the one that looks for a session: so they and it fit into the pool.
LEMMA UsersAreRunning ==
    ASSUME TypeOK, Ownership, OneHeld, PoolBounded, NEW s \in Source, task[s] = "begun",
           \A x \in idle : ConnectionOf[x] # ConnectionOf[s]
    PROVE  /\ IsFiniteSet(Using(ConnectionOf[s]) \cup {s})
           /\ Cardinality(Using(ConnectionOf[s]) \cup {s}) <= Workers
<1> DEFINE U == Using(ConnectionOf[s]) \cup {s}
           holder(x) == IF x \in live THEN CHOOSE t \in Source : x \in holds[t] ELSE x
           f == [x \in U |-> holder(x)]
<1>1. s \notin live
  BY DEF Ownership
<1>2. ASSUME NEW x \in U, x \in live
      PROVE  /\ holder(x) \in Source /\ x \in holds[holder(x)]
             /\ task[holder(x)] \in Pool
  <2>1. x \in live /\ ConnectionOf[x] = ConnectionOf[s]
    BY <1>1, <1>2 DEF Using, Ownership
  <2>2. x \in Held
    BY <2>1 DEF Ownership, SessionsExclusive
  <2>3. \E t \in Source : x \in holds[t]
    BY <2>2 DEF Held
  <2>4. holder(x) \in Source /\ x \in holds[holder(x)]
    BY <2>1, <2>3
  <2> QED
    BY <2>4 DEF Ownership
<1>3. ASSUME NEW x \in U, x \notin live
      PROVE  holder(x) = x /\ x \in Source /\ task[x] \in {"begun", "opening"}
  BY <1>3 DEF Using
<1>4. \A x \in U : holder(x) \in Running
  BY <1>2, <1>3 DEF Running
<1>5. \A x, y \in U : holder(x) = holder(y) => x = y
  <2> SUFFICES ASSUME NEW x \in U, NEW y \in U, holder(x) = holder(y)
               PROVE  x = y
    OBVIOUS
  <2>1. CASE x \in live /\ y \in live
    BY <1>2, <2>1 DEF OneHeld
  <2>2. CASE x \notin live /\ y \notin live
    BY <1>3, <2>2
  <2>3. task[holder(x)] = task[holder(y)]
    OBVIOUS
  <2>4. CASE x \in live /\ y \notin live
    BY <1>2, <1>3, <2>3, <2>4
  <2>5. CASE x \notin live /\ y \in live
    BY <1>2, <1>3, <2>3, <2>5
  <2> QED
    BY <2>1, <2>2, <2>4, <2>5
<1> HIDE DEF U, holder
<1>6. f \in Injection(U, Running)
  BY <1>4, <1>5 DEF Injection, IsInjective
<1>7. IsFiniteSet(U) /\ Cardinality(U) <= Cardinality(Running)
  BY <1>6, RunningFinite, FS_Injection
<1>8. Cardinality(U) \in Nat /\ Cardinality(Running) \in Nat
  BY <1>7, RunningFinite, FS_CardinalityType
<1>9. Cardinality(U) <= Workers
  BY <1>7, <1>8 DEF PoolBounded
<1> QED
  BY <1>7, <1>9 DEF U

LEMMA BoundedStep ==
    ASSUME TypeOK, Ownership, OneHeld, PoolBounded, SessionsBounded, Grown
    PROVE  SessionsBounded'
<1> SUFFICES ASSUME NEW c \in Connection PROVE Cardinality(Using(c)') <= Workers
  BY DEF SessionsBounded, Using
<1>1. IsFiniteSet(Using(c)) /\ Cardinality(Using(c)) <= Workers
  <2>1. Using(c) \in SUBSET Source
    BY DEF Using, TypeOK
  <2> QED
    BY <2>1, FS_Subset DEF SessionsBounded, Using
<1>2. ASSUME NEW S, IsFiniteSet(S), Cardinality(S) <= Workers, Using(c)' \subseteq S
      PROVE  Cardinality(Using(c)') <= Workers
  <2>1. IsFiniteSet(Using(c)') /\ Cardinality(Using(c)') <= Cardinality(S)
    BY <1>2, FS_Subset
  <2>2. Cardinality(Using(c)') \in Nat /\ Cardinality(S) \in Nat
    BY <1>2, <2>1, FS_CardinalityType
  <2> QED
    BY <1>2, <2>1, <2>2
<1>3. CASE Using(c)' \subseteq Using(c)
  BY <1>1, <1>2, <1>3
<1>4. ASSUME NEW s \in Source, TakeSession(s)
      PROVE  Cardinality(Using(c)') <= Workers
  <2>1. CASE Using(c)' \subseteq Using(c)
    BY <1>3, <2>1
  <2>2. CASE ~(Using(c)' \subseteq Using(c))
    <3>1. /\ c = ConnectionOf[s] /\ task[s] = "begun"
          /\ \A x \in idle : ConnectionOf[x] # ConnectionOf[s]
          /\ Using(c)' \subseteq Using(c) \cup {s}
      BY <1>4, <2>2 DEF TakeSession, Goto, Using, TypeOK
    <3>2. /\ IsFiniteSet(Using(c) \cup {s})
          /\ Cardinality(Using(c) \cup {s}) <= Workers
      BY <3>1, UsersAreRunning
    <3> QED
      BY <1>2, <3>1, <3>2
  <2> QED
    BY <2>1, <2>2
<1> QED
  BY <1>3, <1>4 DEF Grown

\* However many levels and failures there are, a connection has at most as many sessions
\* open as the pool has threads: none is opened while one is free to take.
THEOREM SessionsNeverExceedWorkers == Spec => []SessionsBounded
<1> DEFINE Counts == OneHeld /\ PoolBounded /\ SessionsBounded
<1>1. Init => Ownership /\ Counts
  <2> SUFFICES ASSUME Init PROVE Ownership /\ Counts
    OBVIOUS
  <2>1. Ownership
    BY DEF Init, Ownership, SessionsExclusive, Held
  <2>2. Running = {} /\ OneHeld
    BY DEF Init, Running, OneHeld
  <2>3. \A c \in Connection : Using(c) = {}
    BY DEF Init, Using
  <2> QED
    BY <2>1, <2>2, <2>3, FS_EmptySet DEF PoolBounded, SessionsBounded, Using
<1>2. TypeOK /\ Ownership /\ Counts /\ [Next]_vars => Ownership' /\ Counts'
  BY OwnershipStep, GrownStep, PoolStep, BoundedStep DEF Grown
<1>3. Counts => SessionsBounded
  OBVIOUS
<1> QED
  BY <1>1, <1>2, <1>3, RefreshTyped, PTL DEF Spec

\* Outside collecting and draining the pool is joined; once past closing, or before the
\* first level, no session is queued.
Joined ==
    /\ pc \notin {"collecting", "draining"} =>
           \A s \in Source : task[s] \in Settled \cup {"absent"}
    /\ pc \in {"preparing", "ready", "published", "failed", "over"} => idle = {}

\* A worker runs only between a level's submission and the join.
LEMMA JoinedStep == ASSUME TypeOK, Ownership, Joined, [Next]_vars PROVE Joined'
<1> USE DEF TypeOK, Ownership, Joined
<1>1. CASE Prepare
  BY <1>1 DEF Prepare, Raise
<1>2. CASE SubmitLevel
  BY <1>2 DEF SubmitLevel, Level
<1>3. CASE MaterializeFails
  BY <1>3 DEF MaterializeFails, Raise, Level
<1>4. CASE JoinPool
  BY <1>4 DEF JoinPool
<1>5. CASE LevelsDone
  BY <1>5 DEF LevelsDone
<1>6. CASE SessionsClosed
  BY <1>6 DEF SessionsClosed
<1>7. CASE Finalize
  BY <1>7 DEF Finalize, Raise
<1>8. CASE Report
  BY <1>8 DEF Report
<1>9. ASSUME NEW s \in Source, Collect(s) PROVE Joined'
  BY <1>9 DEF Collect
<1>10. ASSUME NEW s \in Source, CollectFailure(s) PROVE Joined'
  BY <1>10 DEF CollectFailure, Raise
<1>11. ASSUME NEW s \in Source, DropQueued(s) PROVE Joined'
  BY <1>11 DEF DropQueued
<1>12. ASSUME NEW s \in Source, CloseSession(s) PROVE Joined'
  BY <1>12 DEF CloseSession
<1>13. ASSUME NEW s \in Source, Begin(s) PROVE Joined'
  BY <1>13 DEF Begin, Goto, Fail
<1>14. ASSUME NEW s \in Source, TakeSession(s) PROVE Joined'
  BY <1>14 DEF TakeSession, Goto
<1>15. ASSUME NEW s \in Source, OpenSession(s) PROVE Joined'
  BY <1>15 DEF OpenSession, Goto, Fail
<1>16. ASSUME NEW s \in Source, StartQuery(s) PROVE Joined'
  BY <1>16 DEF StartQuery, Goto, Fail
<1>17. ASSUME NEW s \in Source, RetryQuery(s) PROVE Joined'
  BY <1>17 DEF RetryQuery, Goto, Fail
<1>18. ASSUME NEW s \in Source, QueryEnds(s) PROVE Joined'
  BY <1>18 DEF QueryEnds, Goto, Fail
<1>19. ASSUME NEW s \in Source, AbortQuery(s) PROVE Joined'
  BY <1>19 DEF AbortQuery, Fail, Goto
<1>20. ASSUME NEW s \in Source, Batch(s) PROVE Joined'
  BY <1>20 DEF Batch, Consume, Within, Goto, Fail
<1>21. ASSUME NEW s \in Source, EndExtraction(s) PROVE Joined'
  BY <1>21 DEF EndExtraction, Goto, Fail
<1>22. ASSUME NEW s \in Source, Commit(s) PROVE Joined'
  BY <1>22 DEF Commit, Goto
<1>23. CASE Monitor
  BY <1>23 DEF Monitor
<1>24. CASE Interrupt
  BY <1>24 DEF Interrupt
<1>25. CASE UNCHANGED vars
  BY <1>25 DEF vars
<1> QED
  BY <1>1, <1>2, <1>3, <1>4, <1>5, <1>6, <1>7, <1>8, <1>9, <1>10, <1>11, <1>12, <1>13, <1>14,
     <1>15, <1>16, <1>17, <1>18, <1>19, <1>20, <1>21, <1>22, <1>23, <1>24, <1>25
     DEF Next, Main, Worker

\* However a refresh ends, its sessions are closed and its workers have stopped.
THEOREM NothingStaysOpen == Spec => []NothingLeftOpen
<1>1. Init => Ownership /\ Joined
  BY DEF Init, Ownership, SessionsExclusive, Held, Joined
<1>2. ASSUME Ownership, Joined PROVE NothingLeftOpen
  <2> SUFFICES ASSUME pc \in {"ready", "published", "failed", "over"}
               PROVE  live = {} /\ Running = {}
    BY DEF NothingLeftOpen
  <2>1. \A s \in Source : task[s] \in Settled \cup {"absent"}
    BY <1>2 DEF Joined
  <2>2. Running = {}
    BY <2>1 DEF Running
  <2>3. Held = {}
    BY <1>2, <2>1 DEF Ownership, Held
  <2>4. live = {}
    BY <1>2, <2>3 DEF Ownership, SessionsExclusive, Joined
  <2> QED
    BY <2>2, <2>4
<1> QED
  BY <1>1, <1>2, OwnershipStep, JoinedStep, RefreshTyped, PTL DEF Spec

-----------------------------------------------------------------------------
(* Order and completeness                                                  *)

\* Between levels everything submitted has been collected; what is submitted had its
\* parent collected before; and without an error only a complete refresh goes on.
Collected ==
    /\ ParentsFirst
    /\ \A s \in Source : s \in remaining => task[s] = "absent"
    /\ \A s \in known : task[s] = "done"
    /\ pc \in {"preparing", "levels"} => Source \ remaining \subseteq known
    /\ pc \in {"closing", "ready", "published"} => caught # "none" \/ Source \subseteq known
    /\ pc \in {"draining", "failed"} => caught # "none"
    /\ pc = "published" => Source \subseteq known
    /\ outcome = "published" => Source \subseteq known
    /\ \A s \in Source : task[s] = "failed" => error[s] # "none"
    /\ pc \in {"ready", "published"} => caught = "none"

\* A level is submitted only when the ones before it are collected.
LEMMA CollectedStep == ASSUME TypeOK, Collected, [Next]_vars PROVE Collected'
<1> USE DEF TypeOK, Collected, ParentsFirst
<1>1. CASE Prepare
  BY <1>1 DEF Prepare, Raise
<1>2. CASE SubmitLevel
  BY <1>2 DEF SubmitLevel, Level
<1>3. CASE MaterializeFails
  BY <1>3 DEF MaterializeFails, Raise, Level
<1>4. CASE JoinPool
  BY <1>4 DEF JoinPool
<1>5. CASE LevelsDone
  BY <1>5 DEF LevelsDone
<1>6. CASE SessionsClosed
  BY <1>6 DEF SessionsClosed
<1>7. CASE Finalize
  BY <1>7 DEF Finalize, Raise
<1>8. CASE Report
  BY <1>8 DEF Report
<1>9. ASSUME NEW s \in Source, Collect(s) PROVE Collected'
  BY <1>9 DEF Collect
<1>10. ASSUME NEW s \in Source, CollectFailure(s) PROVE Collected'
  BY <1>10 DEF CollectFailure, Raise
<1>11. ASSUME NEW s \in Source, DropQueued(s) PROVE Collected'
  BY <1>11 DEF DropQueued
<1>12. ASSUME NEW s \in Source, CloseSession(s) PROVE Collected'
  BY <1>12 DEF CloseSession
<1>13. ASSUME NEW s \in Source, Begin(s) PROVE Collected'
  BY <1>13 DEF Begin, Goto, Fail
<1>14. ASSUME NEW s \in Source, TakeSession(s) PROVE Collected'
  BY <1>14 DEF TakeSession, Goto
<1>15. ASSUME NEW s \in Source, OpenSession(s) PROVE Collected'
  BY <1>15 DEF OpenSession, Goto, Fail
<1>16. ASSUME NEW s \in Source, StartQuery(s) PROVE Collected'
  BY <1>16 DEF StartQuery, Goto, Fail
<1>17. ASSUME NEW s \in Source, RetryQuery(s) PROVE Collected'
  BY <1>17 DEF RetryQuery, Goto, Fail
<1>18. ASSUME NEW s \in Source, QueryEnds(s) PROVE Collected'
  BY <1>18 DEF QueryEnds, Goto, Fail
<1>19. ASSUME NEW s \in Source, AbortQuery(s) PROVE Collected'
  BY <1>19 DEF AbortQuery, Fail, Goto
<1>20. ASSUME NEW s \in Source, Batch(s) PROVE Collected'
  BY <1>20 DEF Batch, Consume, Within, Goto, Fail
<1>21. ASSUME NEW s \in Source, EndExtraction(s) PROVE Collected'
  BY <1>21 DEF EndExtraction, Goto, Fail
<1>22. ASSUME NEW s \in Source, Commit(s) PROVE Collected'
  BY <1>22 DEF Commit, Goto
<1>23. CASE Monitor
  BY <1>23 DEF Monitor
<1>24. CASE Interrupt
  BY <1>24 DEF Interrupt
<1>25. CASE UNCHANGED vars
  BY <1>25 DEF vars
<1> QED
  BY <1>1, <1>2, <1>3, <1>4, <1>5, <1>6, <1>7, <1>8, <1>9, <1>10, <1>11, <1>12, <1>13, <1>14,
     <1>15, <1>16, <1>17, <1>18, <1>19, <1>20, <1>21, <1>22, <1>23, <1>24, <1>25
     DEF Next, Main, Worker

\* A child is never captured before its parent, whatever the cohorts.
THEOREM ParentsCapturedFirst == Spec => []ParentsFirst
<1>1. Init => Collected
  BY DEF Init, Collected, ParentsFirst
<1>2. Collected => ParentsFirst
  BY DEF Collected
<1> QED
  BY <1>1, <1>2, CollectedStep, RefreshTyped, PTL DEF Spec

\* A refresh that is published has captured every source.
THEOREM CompleteOrNothing == Spec => []PublishedComplete
<1>1. Init => Collected
  BY DEF Init, Collected, ParentsFirst
<1>2. Collected => PublishedComplete
  BY DEF Collected, PublishedComplete
<1> QED
  BY <1>1, <1>2, CollectedStep, RefreshTyped, PTL DEF Spec

-----------------------------------------------------------------------------
(* The reported cause                                                      *)

\* The token is cancelled by the user, after the monitor's finding, or on an error the main
\* thread already unwinds with: nothing else makes a worker raise a cancellation.
Caused ==
    /\ monitor # "watching" => failure
    /\ cancelled => interrupted \/ failure \/ caught # "none"
    /\ \A s \in Source :
           /\ task[s] = "failed" => error[s] # "none"
           /\ error[s] \in {"cancelled", "aborted"} =>
                  interrupted \/ failure \/ caught # "none"
    /\ pc \in {"preparing", "levels", "collecting", "ready", "published"} => caught = "none"
    /\ caught \in {"cancelled", "aborted"} => interrupted \/ failure
    /\ CauseReported

\* The monitor leaves its finding before it cancels.
LEMMA CausedStep == ASSUME TypeOK, Caused, [Next]_vars PROVE Caused'
<1> USE DEF TypeOK, Caused, CauseReported
<1>1. CASE Prepare
  BY <1>1 DEF Prepare, Raise
<1>2. CASE SubmitLevel
  BY <1>2 DEF SubmitLevel, Level
<1>3. CASE MaterializeFails
  BY <1>3 DEF MaterializeFails, Raise, Level
<1>4. CASE JoinPool
  BY <1>4 DEF JoinPool
<1>5. CASE LevelsDone
  BY <1>5 DEF LevelsDone
<1>6. CASE SessionsClosed
  BY <1>6 DEF SessionsClosed
<1>7. CASE Finalize
  BY <1>7 DEF Finalize, Raise
<1>8. CASE Report
  BY <1>8 DEF Report
<1>9. ASSUME NEW s \in Source, Collect(s) PROVE Caused'
  BY <1>9 DEF Collect
<1>10. ASSUME NEW s \in Source, CollectFailure(s) PROVE Caused'
  BY <1>10 DEF CollectFailure, Raise
<1>11. ASSUME NEW s \in Source, DropQueued(s) PROVE Caused'
  BY <1>11 DEF DropQueued
<1>12. ASSUME NEW s \in Source, CloseSession(s) PROVE Caused'
  BY <1>12 DEF CloseSession
<1>13. ASSUME NEW s \in Source, Begin(s) PROVE Caused'
  BY <1>13 DEF Begin, Goto, Fail
<1>14. ASSUME NEW s \in Source, TakeSession(s) PROVE Caused'
  BY <1>14 DEF TakeSession, Goto
<1>15. ASSUME NEW s \in Source, OpenSession(s) PROVE Caused'
  BY <1>15 DEF OpenSession, Goto, Fail
<1>16. ASSUME NEW s \in Source, StartQuery(s) PROVE Caused'
  BY <1>16 DEF StartQuery, Goto, Fail
<1>17. ASSUME NEW s \in Source, RetryQuery(s) PROVE Caused'
  BY <1>17 DEF RetryQuery, Goto, Fail
<1>18. ASSUME NEW s \in Source, QueryEnds(s) PROVE Caused'
  BY <1>18 DEF QueryEnds, Goto, Fail
<1>19. ASSUME NEW s \in Source, AbortQuery(s) PROVE Caused'
  BY <1>19 DEF AbortQuery, Fail, Goto
<1>20. ASSUME NEW s \in Source, Batch(s) PROVE Caused'
  BY <1>20 DEF Batch, Consume, Within, Goto, Fail
<1>21. ASSUME NEW s \in Source, EndExtraction(s) PROVE Caused'
  BY <1>21 DEF EndExtraction, Goto, Fail
<1>22. ASSUME NEW s \in Source, Commit(s) PROVE Caused'
  BY <1>22 DEF Commit, Goto
<1>23. CASE Monitor
  BY <1>23 DEF Monitor
<1>24. CASE Interrupt
  BY <1>24 DEF Interrupt
<1>25. CASE UNCHANGED vars
  BY <1>25 DEF vars
<1> QED
  BY <1>1, <1>2, <1>3, <1>4, <1>5, <1>6, <1>7, <1>8, <1>9, <1>10, <1>11, <1>12, <1>13, <1>14,
     <1>15, <1>16, <1>17, <1>18, <1>19, <1>20, <1>21, <1>22, <1>23, <1>24, <1>25
     DEF Next, Main, Worker

\* Only a run the user interrupted is reported as cancelled.
THEOREM CausesReported == Spec => []CauseReported
<1>1. Init => Caused
  BY DEF Init, Caused, CauseReported
<1>2. Caused => CauseReported
  BY DEF Caused
<1> QED
  BY <1>1, <1>2, CausedStep, RefreshTyped, PTL DEF Spec

=============================================================================
