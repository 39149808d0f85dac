------------------------- MODULE SourcePlanningProofs -------------------------
(***************************************************************************)
(* What prepare_sources decides is within the policy and the mode, and     *)
(* what a cohort reuses was captured with the keys its parent reuses, for  *)
(* any sources, cohorts, snapshots and options.                            *)
(***************************************************************************)
EXTENDS SourcePlanning, TLAPS

USE SourcePlanningAssumption

Action == {"undecided", "REUSE", "REFRESH", "MISSING"}

PrepareTyped ==
    /\ ask \in Question
    /\ step \in {"sources", "levels", "prepared", "refused"}
    /\ todo \subseteq Item
    /\ request \in [Item -> Request]
    /\ action \in [Item -> Action]
    /\ chosen \in [Item -> Snapshot \cup {NoSnapshot}]
    /\ active \subseteq Snapshot
    /\ corrupt \subseteq Snapshot

\* The request is one that policy and tags admit.
Lawful(i) ==
    /\ ~ask.item[i].denied
    /\ ask.item[i].restricted =>
           ask.item[i].filtered /\ request[i].sampling.strategy \in {"where", "where_limit"}
    /\ request[i].sampling.strategy = "full" => ask.allowFull

\* s may be reused for request r of i.
Answers(i, r, s) ==
    /\ s \in Snapshot
    /\ Stored(s).request = r
    /\ Stored(s).intact
    /\ Pinned(i) # NoSnapshot => s = Pinned(i)

Sound(i) ==
    /\ Lawful(i)
    /\ Offline => action[i] # "REFRESH"
    /\ action[i] = "REUSE" => Answers(i, request[i], chosen[i])

\* A source is settled after its parent, and as its parent is.
Settled(i) ==
    /\ Reuses(i) => ~TooManyRows(chosen[i]) /\ ~Stored(chosen[i]).aged
    /\ Parent(i) # NoItem =>
        /\ Parent(i) \in Item \ todo
        /\ IF Reuses(Parent(i)) THEN request[i].keysOf = chosen[Parent(i)]
           ELSE action[i] = action[Parent(i)]

SoundSoFar ==
    /\ step = "sources" => \A i \in Item \ todo : Sound(i)
    /\ step \in {"levels", "prepared"} => \A i \in Item : Sound(i)

SettledSoFar ==
    /\ step = "levels" => \A i \in Item \ todo : Settled(i)
    /\ step = "prepared" => todo = {} /\ \A i \in Item : Settled(i)

PrepareInv == PrepareTyped /\ SoundSoFar /\ SettledSoFar

-----------------------------------------------------------------------------
(* Lemmas about the operators                                              *)

\* Whatever the question, its parts are of their types.
LEMMA AskTyped ==
    ASSUME PrepareTyped
    PROVE  /\ ask \in QuestionRecord
           /\ \A i \in Item : ask.item[i] \in ItemRecord
           /\ \A s \in Snapshot : Stored(s) \in SnapshotRecord
           /\ \A i \in Item : Pinned(i) \in Snapshot \cup {NoSnapshot}
           /\ \A i \in Item : Parent(i) \in Item \cup {NoItem}
<1>1. ask \in QuestionRecord
  BY DEF PrepareTyped
<1>2. /\ \A i \in Item : ask.item[i] \in ItemRecord
      /\ \A s \in Snapshot : Stored(s) \in SnapshotRecord
      /\ \A i \in Item : Pinned(i) \in Snapshot \cup {NoSnapshot}
  BY <1>1 DEF QuestionRecord, Stored, Pinned
<1>3. \A i \in Item : Parent(i) \in Item \cup {NoItem}
  BY <1>2 DEF Parent, ItemRecord
<1> QED
  BY <1>1, <1>2, <1>3

\* What is reusable answers the request.
LEMMA ReusableAnswers ==
    ASSUME PrepareTyped, NEW i \in Item, NEW r, NEW s \in Reusable(i, r)
    PROVE  Answers(i, r, s) /\ s # NoSnapshot
<1>1. s \in Matching(i, r)
  BY DEF Reusable
<1>2. s \in Candidates(i, r) /\ Stored(s).intact /\ Stored(s).request = r
  BY <1>1 DEF Matching, Intact
<1>3. s \in Snapshot /\ (Pinned(i) # NoSnapshot => s = Pinned(i))
  BY <1>2, AskTyped DEF Candidates, PrepareTyped
<1> QED
  BY <1>2, <1>3 DEF Answers

\* A run off the warehouse captures nothing, and a reuse has something to reuse.
LEMMA DecisionSound ==
    ASSUME NEW i, NEW r
    PROVE  /\ Decision(i, r) \in Action
           /\ Offline => Decision(i, r) # "REFRESH"
           /\ Decision(i, r) = "REUSE" => Reusable(i, r) # {}
BY DEF Decision, Missing, Action

\* A limit on the rows is a limit.
LEMMA CappedTyped ==
    ASSUME PrepareTyped, NEW s \in Sampling
    PROVE  /\ Capped(s) \in Sampling
           /\ Capped(s).strategy \in {"where", "where_limit"} <=> s.strategy \in {"where", "where_limit"}
<1>1. ask.budget \in Row \cup {NoLimit}
  BY AskTyped DEF QuestionRecord
<1>2. Least(s.limit, ask.budget) \in Row \cup {NoLimit}
  BY <1>1 DEF Least, Sampling
<1> QED
  BY <1>1, <1>2 DEF Capped, Sampling

LEMMA SampledTyped ==
    ASSUME PrepareTyped, NEW i \in Item
    PROVE  Sampled(i) \in Sampling
<1>1. ask.item[i].sampling \in Sampling
  BY AskTyped DEF ItemRecord
<1> QED
  BY <1>1, CappedTyped DEF Sampled, Sampling

\* evaluate_sampling and the cohort's own check admit what the policy wants admitted.
LEMMA AdmittedLawful ==
    ASSUME PrepareTyped, NEW i \in Item, Admitted(i)
    PROVE  /\ ~ask.item[i].denied
           /\ ask.item[i].restricted =>
                  ask.item[i].filtered /\ Sampled(i).strategy \in {"where", "where_limit"}
           /\ Sampled(i).strategy = "full" => ask.allowFull
<1>1. ask.item[i].sampling \in Sampling
  BY AskTyped DEF ItemRecord
<1>2. ask.item[i].sampling.strategy \in {"where", "where_limit"} => ask.item[i].filtered
  BY DEF PrepareTyped
<1>3. Capped(ask.item[i].sampling).strategy \in {"where", "where_limit"}
          <=> ask.item[i].sampling.strategy \in {"where", "where_limit"}
  BY <1>1, CappedTyped
<1> QED
  BY <1>2, <1>3 DEF Admitted, Sampled

-----------------------------------------------------------------------------
(* The invariant                                                           *)

LEMMA InitPrepareInv == PrepareInit => PrepareInv
<1> SUFFICES ASSUME NEW asked \in Question, PrepareFrom(asked) PROVE PrepareInv
  BY DEF PrepareInit
<1> USE DEF PrepareFrom
<1>1. ask \in QuestionRecord
  OBVIOUS
<1>2. \A i \in Item : ask.item[i].sampling \in Sampling
  BY <1>1 DEF QuestionRecord, ItemRecord
<1>3. request \in [Item -> Request]
  BY <1>2 DEF Request
<1>4. active \subseteq Snapshot
  BY <1>1 DEF QuestionRecord
<1>5. PrepareTyped
  BY <1>3, <1>4 DEF PrepareTyped, Action
<1> QED
  BY <1>5 DEF PrepareInv, SoundSoFar, SettledSoFar

\* The question stays as it is.
LEMMA AskStays ==
    ASSUME UNCHANGED ask
    PROVE  /\ Offline' = Offline
           /\ \A i : Pinned(i)' = Pinned(i) /\ Parent(i)' = Parent(i)
           /\ \A s : Stored(s)' = Stored(s) /\ TooManyRows(s)' = TooManyRows(s)
BY DEF Offline, Mode, Pinned, Parent, Stored, TooManyRows

\* A source that a step does not touch stays sound.
LEMMA SoundStays ==
    ASSUME UNCHANGED ask, NEW i \in Item, Sound(i), request'[i] = request[i],
           action'[i] = action[i], chosen'[i] = chosen[i]
    PROVE  Sound(i)'
BY AskStays DEF Sound, Lawful, Answers

LEMMA DecideSourceInv == ASSUME PrepareInv, NEW i \in Item, DecideSource(i) PROVE PrepareInv'
<1> DEFINE r == [request[i] EXCEPT !.sampling = Sampled(i)]
<1>1. /\ PrepareTyped
      /\ step = "sources" /\ i \in todo /\ Admitted(i)
      /\ UNCHANGED <<ask, step, active>> /\ todo' = todo \ {i}
      /\ request' = [request EXCEPT ![i] = r]
      /\ action' = [action EXCEPT ![i] = Decision(i, r)]
      /\ corrupt' = corrupt \cup (Candidates(i, r) \ Intact(i, r))
      /\ \/ /\ Decision(i, r) = "REUSE"
            /\ \E s \in Reusable(i, r) : chosen' = [chosen EXCEPT ![i] = s]
         \/ /\ Decision(i, r) # "REUSE"
            /\ chosen' = [chosen EXCEPT ![i] = NoSnapshot]
  BY DEF PrepareInv, DecideSource, Acceptable, Decide
<1>2. r \in Request /\ r.sampling = Sampled(i)
  BY <1>1, SampledTyped DEF PrepareTyped, Request
<1>3. Candidates(i, r) \subseteq Snapshot
  BY <1>1, AskTyped DEF Candidates, PrepareTyped
<1>4. chosen'[i] \in Snapshot \cup {NoSnapshot} /\ chosen' = [chosen EXCEPT ![i] = chosen'[i]]
  BY <1>1, ReusableAnswers DEF PrepareTyped, Answers
<1>5. PrepareTyped'
  BY <1>1, <1>2, <1>3, <1>4, DecisionSound DEF PrepareTyped
<1>6. request'[i] = r /\ action'[i] = Decision(i, r)
  BY <1>1 DEF PrepareTyped
<1>7. Decision(i, r) = "REUSE" => Answers(i, r, chosen'[i])
  BY <1>1, ReusableAnswers DEF PrepareTyped
<1>8. Sound(i)'
  <2>1. Lawful(i)'
    BY <1>1, <1>2, <1>6, AdmittedLawful DEF Lawful
  <2>2. Offline' => action'[i] # "REFRESH"
    <3>1. Offline => Decision(i, r) # "REFRESH"
      BY DecisionSound
    <3>2. Offline' = Offline
      BY <1>1, AskStays
    <3> QED
      BY <1>6, <3>1, <3>2
  <2>3. action'[i] = "REUSE" => Answers(i, request[i], chosen[i])'
    BY <1>1, <1>6, <1>7, AskStays DEF Answers
  <2> QED
    BY <2>1, <2>2, <2>3 DEF Sound
<1>9. \A j \in Item \ todo : Sound(j)'
  <2> SUFFICES ASSUME NEW j \in Item \ todo PROVE Sound(j)'
    OBVIOUS
  <2>1. Sound(j) /\ j # i
    BY <1>1 DEF PrepareInv, SoundSoFar
  <2>2. request'[j] = request[j] /\ action'[j] = action[j] /\ chosen'[j] = chosen[j]
    BY <1>1, <1>4, <2>1 DEF PrepareTyped
  <2> QED
    BY <1>1, <2>1, <2>2, SoundStays
<1> QED
  BY <1>1, <1>5, <1>8, <1>9 DEF PrepareInv, SoundSoFar, SettledSoFar

\* A refusal, and the steps that only go on.
LEMMA RefusedInv == ASSUME PrepareInv, Refused PROVE PrepareInv'
BY DEF PrepareInv, Refused, PrepareTyped, SoundSoFar, SettledSoFar

LEMMA LevelsInv == ASSUME PrepareInv, Levels PROVE PrepareInv'
<1>1. CASE Cyclic
  BY <1>1, RefusedInv DEF Levels
<1>2. CASE ~Cyclic
  <2>1. /\ step = "sources" /\ todo = {} /\ step' = "levels" /\ todo' = Item
        /\ UNCHANGED <<ask, request, action, chosen, active, corrupt>>
    BY <1>2 DEF Levels
  <2>2. \A i \in Item : Sound(i)'
    BY <2>1, SoundStays DEF PrepareInv, SoundSoFar
  <2> QED
    BY <2>1, <2>2 DEF PrepareInv, PrepareTyped, SoundSoFar, SettledSoFar
<1> QED
  BY <1>1, <1>2

\* A source that a step does not touch stays settled, if its parent is settled.
LEMMA SettledStays ==
    ASSUME PrepareTyped, UNCHANGED ask, NEW i \in Item, todo' = todo \ {i}, i \in todo,
           NEW j \in Item \ todo, Settled(j),
           \A k \in Item \ {i} : request'[k] = request[k] /\ action'[k] = action[k]
                                 /\ chosen'[k] = chosen[k]
    PROVE  Settled(j)'
<1>1. j # i /\ Parent(j) # i
  BY AskTyped DEF Settled
<1>2. Reuses(j)' = Reuses(j) /\ Reuses(Parent(j))' = Reuses(Parent(j))
  BY <1>1, AskTyped, AskStays DEF Reuses, Settled
<1> QED
  BY <1>1, <1>2, AskTyped, AskStays DEF Settled

\* The common part of the three ways to settle a source.
LEMMA SettleInv ==
    ASSUME PrepareInv, NEW i \in Item, Ready(i), NEW r \in Request, NEW d \in Action, NEW s,
           Settle(i, r, d, s),
           corrupt' \subseteq Snapshot,
           s \in Snapshot \cup {NoSnapshot},
           Offline => d # "REFRESH",
           d = "REUSE" => Answers(i, r, s) /\ ~TooManyRows(s),
           r.sampling = request[i].sampling \/ r.sampling.strategy = "where",
           Parent(i) # NoItem =>
               \/ Reuses(Parent(i)) /\ r.keysOf = chosen[Parent(i)]
               \/ ~Reuses(Parent(i)) /\ d = action[Parent(i)]
    PROVE  PrepareInv'
<1> DEFINE old == d = "REUSE" /\ Stored(s).aged
<1>1. /\ PrepareTyped /\ step = "levels" /\ i \in todo /\ Parent(i) \notin todo
      /\ UNCHANGED <<ask, step, active>> /\ todo' = todo \ {i}
      /\ request' = [request EXCEPT ![i] = r]
      /\ action' = [action EXCEPT ![i] = IF old THEN TooOld ELSE d]
      /\ chosen' = [chosen EXCEPT ![i] = IF old THEN NoSnapshot ELSE s]
  BY DEF PrepareInv, Ready, Settle
<1>2. TooOld \in Action /\ TooOld # "REUSE" /\ (Offline => TooOld # "REFRESH")
  BY DEF TooOld, Action
<1>3. PrepareTyped'
  BY <1>1, <1>2 DEF PrepareTyped
<1>4. /\ request'[i] = r
      /\ action'[i] = IF old THEN TooOld ELSE d
      /\ chosen'[i] = IF old THEN NoSnapshot ELSE s
      /\ \A k \in Item \ {i} : /\ request'[k] = request[k]
                               /\ action'[k] = action[k]
                               /\ chosen'[k] = chosen[k]
  BY <1>1 DEF PrepareTyped
<1>5. Sound(i)'
  <2>1. Lawful(i)
    BY <1>1 DEF PrepareInv, SoundSoFar, Sound
  <2>2. Lawful(i)'
    BY <1>1, <1>4, <2>1 DEF Lawful
  <2>3. Offline' => action'[i] # "REFRESH"
    BY <1>1, <1>2, <1>4, AskStays
  <2>4. action'[i] = "REUSE" => Answers(i, request[i], chosen[i])'
    BY <1>1, <1>2, <1>4, AskStays DEF Answers
  <2> QED
    BY <2>2, <2>3, <2>4 DEF Sound
<1>6. \A j \in Item : Sound(j)'
  <2> SUFFICES ASSUME NEW j \in Item, j # i PROVE Sound(j)'
    BY <1>5
  <2>1. Sound(j)
    BY <1>1 DEF PrepareInv, SoundSoFar
  <2> QED
    BY <1>1, <1>4, <2>1, SoundStays
<1>7. Settled(i)'
  <2>1. Reuses(i)' => ~TooManyRows(chosen[i])' /\ ~Stored(chosen[i])'.aged
    BY <1>1, <1>2, <1>4, AskStays DEF Reuses
  <2>2. ASSUME Parent(i) # NoItem
        PROVE  /\ Parent(i) \in Item \ todo'
               /\ IF Reuses(Parent(i))' THEN request'[i].keysOf = chosen'[Parent(i)]
                  ELSE action'[i] = action'[Parent(i)]
    <3>1. Parent(i) \in Item \ todo /\ Parent(i) # i
      BY <1>1, <2>2, AskTyped
    <3>2. Reuses(Parent(i))' = Reuses(Parent(i))
      BY <1>1, <1>4, <3>1, AskStays DEF Reuses
    <3>3. CASE Reuses(Parent(i))
      BY <1>1, <1>4, <2>2, <3>1, <3>2, <3>3
    <3>4. CASE ~Reuses(Parent(i))
      BY <1>1, <1>4, <2>2, <3>1, <3>2, <3>4 DEF Reuses
    <3> QED
      BY <3>3, <3>4
  <2> QED
    BY <1>1, <2>1, <2>2, AskStays DEF Settled
<1>8. \A j \in Item \ todo : Settled(j)'
  BY <1>1, <1>4, SettledStays DEF PrepareInv, SettledSoFar
<1> QED
  BY <1>1, <1>3, <1>6, <1>7, <1>8 DEF PrepareInv, SoundSoFar, SettledSoFar

LEMMA SettleSourceInv == ASSUME PrepareInv, NEW i \in Item, SettleSource(i) PROVE PrepareInv'
<1>1. /\ PrepareTyped /\ Ready(i) /\ Parent(i) = NoItem
      /\ Settle(i, request[i], action[i], chosen[i])
      /\ Reuses(i) => ~TooManyRows(chosen[i])
      /\ UNCHANGED corrupt
  BY DEF PrepareInv, SettleSource
<1>2. request[i] \in Request /\ action[i] \in Action /\ chosen[i] \in Snapshot \cup {NoSnapshot}
  BY <1>1 DEF PrepareTyped
<1>3. Sound(i)
  BY <1>1 DEF Ready, PrepareInv, SoundSoFar
<1>4. corrupt' \subseteq Snapshot
  BY <1>1 DEF PrepareTyped
<1>5. action[i] = "REUSE" => ~TooManyRows(chosen[i])
  BY <1>1 DEF Reuses
<1> QED
  BY <1>1, <1>2, <1>3, <1>4, <1>5, SettleInv DEF Sound

LEMMA SettleKeyedInv == ASSUME PrepareInv, NEW i \in Item, SettleKeyed(i) PROVE PrepareInv'
<1> DEFINE r == Keyed(i)
           d == Decision(i, r)
<1>1. PICK s \in IF d = "REUSE" THEN Reusable(i, r) ELSE {NoSnapshot} :
          /\ d = "REUSE" => ~TooManyRows(s)
          /\ Settle(i, r, d, s)
  BY DEF SettleKeyed
<1>2. /\ PrepareTyped /\ Ready(i) /\ Reuses(Parent(i))
      /\ corrupt' = corrupt \cup (Candidates(i, r) \ Intact(i, r))
  BY DEF PrepareInv, SettleKeyed
<1>3. Parent(i) \in Item
  BY <1>2, AskTyped DEF Reuses
<1>4. /\ r \in Request
      /\ r.sampling.strategy = "where"
      /\ r.keysOf = chosen[Parent(i)]
  <2>1. request[i] \in Request /\ chosen[Parent(i)] \in Snapshot \cup {NoSnapshot}
    BY <1>2, <1>3 DEF PrepareTyped
  <2>2. [strategy |-> "where", limit |-> NoLimit] \in Sampling
    BY DEF Sampling
  <2> QED
    BY <2>1, <2>2 DEF Keyed, Request
<1>5. /\ d \in Action
      /\ Offline => d # "REFRESH"
  BY DecisionSound
<1>6. /\ s \in Snapshot \cup {NoSnapshot}
      /\ d = "REUSE" => Answers(i, r, s)
  <2>1. CASE d = "REUSE"
    BY <1>1, <1>2, <2>1, ReusableAnswers DEF Answers
  <2>2. CASE d # "REUSE"
    BY <1>1, <2>2
  <2> QED
    BY <2>1, <2>2
<1>7. corrupt' \subseteq Snapshot
  BY <1>2, AskTyped DEF Candidates, PrepareTyped
<1> HIDE DEF r, d
<1> QED
  BY <1>1, <1>2, <1>4, <1>5, <1>6, <1>7, SettleInv

LEMMA SettleWaitingInv == ASSUME PrepareInv, NEW i \in Item, SettleWaiting(i) PROVE PrepareInv'
<1>1. /\ PrepareTyped /\ Ready(i) /\ Parent(i) # NoItem /\ ~Reuses(Parent(i))
      /\ Settle(i, request[i], action[Parent(i)], NoSnapshot)
      /\ UNCHANGED corrupt
  BY DEF PrepareInv, SettleWaiting
<1>2. Parent(i) \in Item
  BY <1>1, AskTyped
<1>3. /\ request[i] \in Request
      /\ action[Parent(i)] \in Action \ {"REUSE"}
      /\ corrupt' \subseteq Snapshot
  BY <1>1, <1>2 DEF PrepareTyped, Reuses
<1>4. Sound(Parent(i))
  BY <1>1, <1>2 DEF Ready, PrepareInv, SoundSoFar
<1> QED
  BY <1>1, <1>3, <1>4, SettleInv DEF Sound

LEMMA PreparedInv == ASSUME PrepareInv, Prepared PROVE PrepareInv'
<1>1. /\ step = "levels" /\ todo = {} /\ step' = "prepared"
      /\ UNCHANGED <<ask, todo, request, action, chosen, active, corrupt>>
  BY DEF Prepared
<1>2. \A i \in Item : Sound(i)' /\ Settled(i)'
  <2> SUFFICES ASSUME NEW i \in Item PROVE Sound(i)' /\ Settled(i)'
    OBVIOUS
  <2>1. Sound(i) /\ Settled(i)
    BY <1>1 DEF PrepareInv, SoundSoFar, SettledSoFar
  <2> QED
    BY <1>1, <2>1, AskStays, SoundStays DEF Settled, Reuses
<1> QED
  BY <1>1, <1>2 DEF PrepareInv, PrepareTyped, SoundSoFar, SettledSoFar

\* What other workspaces commit changes nothing that is decided.
LEMMA ElsewhereInv ==
    ASSUME PrepareInv, active' \subseteq Snapshot,
           UNCHANGED <<ask, step, todo, request, action, chosen, corrupt>>
    PROVE  PrepareInv'
<1>1. \A i \in Item : Sound(i) => Sound(i)'
  BY SoundStays
<1>2. \A i \in Item : Settled(i) => Settled(i)'
  BY AskStays DEF Settled, Reuses
<1> QED
  BY <1>1, <1>2 DEF PrepareInv, PrepareTyped, SoundSoFar, SettledSoFar

LEMMA NextPrepareInv == PrepareInv /\ [PrepareNext]_prepare => PrepareInv'
<1> SUFFICES ASSUME PrepareInv, [PrepareNext]_prepare PROVE PrepareInv'
  OBVIOUS
<1>1. ASSUME NEW i \in Item, RefuseSource(i) \/ RefuseSettled(i) PROVE PrepareInv'
  BY <1>1, RefusedInv DEF RefuseSource, RefuseSettled
<1>2. ASSUME NEW s \in Snapshot, Activate(s) PROVE PrepareInv'
  <2>1. active' \subseteq Snapshot
    BY <1>2 DEF Activate, PrepareInv, PrepareTyped
  <2> QED
    BY <1>2, <2>1, ElsewhereInv DEF Activate
<1>3. ASSUME UNCHANGED prepare PROVE PrepareInv'
  BY <1>3, ElsewhereInv DEF prepare, PrepareInv, PrepareTyped
<1> QED
  BY <1>1, <1>2, <1>3, DecideSourceInv, SettleSourceInv, SettleKeyedInv, SettleWaitingInv,
     LevelsInv, PreparedInv DEF PrepareNext

THEOREM PrepareInvariant == PrepareSpec => []PrepareInv
BY InitPrepareInv, NextPrepareInv, PTL DEF PrepareSpec

-----------------------------------------------------------------------------
(* The theorems                                                            *)

\* prepare_sources (sources.py): a run that is to stay off the warehouse captures nothing.
THEOREM StaysOffTheWarehouse == PrepareSpec => []OfflineNeverRefreshes
<1>1. PrepareInv => OfflineNeverRefreshes
  BY DEF PrepareInv, SoundSoFar, Sound, OfflineNeverRefreshes
<1> QED
  BY <1>1, PrepareInvariant, PTL

\* prepare_sources: every source it hands on is within the policy, the tags and the budget,
\* whatever sampling, cohort and snapshots there are.
THEOREM PolicyHolds == PrepareSpec => []AdmittedByPolicy
<1>1. PrepareInv => AdmittedByPolicy
  BY DEF PrepareInv, SoundSoFar, Sound, Lawful, SettledSoFar, Settled, AdmittedByPolicy
<1> QED
  BY <1>1, PrepareInvariant, PTL

\* prepare_sources: the keys of a cohort are those of the snapshot its parent is reused with.
THEOREM CohortsHold == PrepareSpec => []CohortFollowsParent
<1>1. ASSUME PrepareInv, step = "prepared", NEW i \in Item
      PROVE  Sound(i) /\ Settled(i)
  BY <1>1 DEF PrepareInv, SoundSoFar, SettledSoFar
<1>2. PrepareInv => CohortFollowsParent
  BY <1>1 DEF Sound, Settled, Answers, Reuses, CohortFollowsParent
<1> QED
  BY <1>2, PrepareInvariant, PTL
=============================================================================
