--------------------------- MODULE SourcePlanning ---------------------------
(***************************************************************************)
(* prepare_sources: for each source of a plan, whether a snapshot is       *)
(* reused, a new one is captured, or the run cannot go on.  Sources are    *)
(* decided on one after the other; then those of a cohort are decided on   *)
(* again, level by level, since the keys in the snapshot of their parent   *)
(* are part of what they ask for.  A plan holds no workspace lock: other   *)
(* commands of the workspace may activate snapshots meanwhile.             *)
(*                                                                         *)
(* A request is the source, how it is sampled, and the parent's snapshot   *)
(* once its keys are known: what request_fingerprint tells apart.          *)
(***************************************************************************)
EXTENDS Naturals, FiniteSets

CONSTANTS
    Item,         \* the sources
    Snapshot,     \* the snapshots there are, or that other commands commit
    NoItem, NoSnapshot,
    NoLimit,
    Cap,          \* policy.max_rows_per_source
    Question      \* the options, rules, tags and snapshots there may be

Row == 1..(Cap + 1)

Sampling == [strategy : {"full", "limit", "where", "where_limit", "hash"},
             limit : Row \cup {NoLimit}]

Request == [item : Item, sampling : Sampling, keysOf : Snapshot \cup {NoSnapshot}]

\* A source: the sampling rule that applies, the sources a cohort rule names as its parent,
\* and what its tags ask for.
ItemRecord == [sampling : Sampling, filtered : BOOLEAN, cohort : BOOLEAN,
               parents : SUBSET Item, denied : BOOLEAN, restricted : BOOLEAN]

\* A snapshot as the index has it: past its time to live, past the age its source's tags
\* allow, with its files as they were written.
SnapshotRecord == [request : Request, rows : Row, expired : BOOLEAN, aged : BOOLEAN,
                   intact : BOOLEAN]

QuestionRecord == [mode : {"auto", "refresh", "cached", "offline"}, frozen : BOOLEAN,
                   members : [Item -> Snapshot \cup {NoSnapshot}],
                   named : Snapshot \cup {NoSnapshot},
                   budget : Row \cup {NoLimit}, allowFull : BOOLEAN,
                   item : [Item -> ItemRecord], stored : [Snapshot -> SnapshotRecord],
                   active : SUBSET Snapshot]

ASSUME SourcePlanningAssumption ==
    /\ Cap \in Nat
    /\ NoItem \notin Item /\ NoSnapshot \notin Snapshot /\ NoLimit \notin Nat
    /\ Question \subseteq QuestionRecord
    \* SamplingRule: these two strategies have a filter.
    /\ \A q \in Question, i \in Item :
           q.item[i].sampling.strategy \in {"where", "where_limit"} => q.item[i].filtered

VARIABLES
    ask,          \* the question
    step,         \* how far prepare_sources is
    todo,         \* the sources the current loop has still to decide on
    request,      \* per source, what is asked for
    action,       \* REUSE, REFRESH or MISSING
    chosen,       \* the snapshot reused
    active,       \* the snapshots active in the index
    corrupt       \* those marked as corrupt

prepare == <<ask, step, todo, request, action, chosen, active, corrupt>>

Stored(s) == ask.stored[s]

\* A refusal that needs no state: a frozen dataset with --snapshot-id or refresh.
Conflict(q) == q.frozen /\ (q.named # NoSnapshot \/ q.mode = "refresh")

PrepareFrom(asked) ==
    /\ ask = asked
    /\ step = IF Conflict(ask) THEN "refused" ELSE "sources"
    /\ todo = Item
    /\ request = [i \in Item |->
           [item |-> i, sampling |-> ask.item[i].sampling, keysOf |-> NoSnapshot]]
    /\ action = [i \in Item |-> "undecided"]
    /\ chosen = [i \in Item |-> NoSnapshot]
    /\ active = ask.active
    /\ corrupt = {}

PrepareInit == \E asked \in Question : PrepareFrom(asked)

Refused ==
    /\ step' = "refused"
    /\ UNCHANGED <<ask, todo, request, action, chosen, active, corrupt>>

-----------------------------------------------------------------------------
(* ParquetSnapshotStore.decide                                             *)

Mode == IF ask.frozen THEN "offline" ELSE ask.mode
Offline == Mode \in {"offline", "cached"}

\* The snapshot a frozen dataset, or the user, names; for a source the dataset lacks, none.
Pinned(i) == IF ask.frozen THEN ask.members[i] ELSE ask.named

Candidates(i, r) ==
    (IF Pinned(i) # NoSnapshot THEN {Pinned(i)} ELSE {s \in active : Stored(s).request = r})
        \ corrupt

Intact(i, r) == {s \in Candidates(i, r) : Stored(s).intact}

\* Faulty variant: a snapshot that was named is taken for what was asked for.
MatchingNamed(i, r) == Intact(i, r)

Matching(i, r) == {s \in Intact(i, r) : Stored(s).request = r}

Reusable(i, r) ==
    IF Mode = "refresh" THEN {}
    ELSE {s \in Matching(i, r) : Offline \/ ~Stored(s).expired}

\* A named snapshot that is not there, or that answers another request, is never replaced.
Missing(i, r) ==
    \/ Pinned(i) # NoSnapshot /\ Matching(i, r) = {}
    \/ Offline /\ Reusable(i, r) = {}

Decision(i, r) ==
    CASE Missing(i, r) -> "MISSING"
      [] Reusable(i, r) # {} -> "REUSE"
      [] OTHER -> "REFRESH"

\* Sets the decision on i for request r.
Decide(i, r) ==
    /\ request' = [request EXCEPT ![i] = r]
    /\ action' = [action EXCEPT ![i] = Decision(i, r)]
    /\ \/ Decision(i, r) = "REUSE" /\ \E s \in Reusable(i, r) : chosen' = [chosen EXCEPT ![i] = s]
       \/ Decision(i, r) # "REUSE" /\ chosen' = [chosen EXCEPT ![i] = NoSnapshot]
    /\ corrupt' = corrupt \cup (Candidates(i, r) \ Intact(i, r))

-----------------------------------------------------------------------------
(* The first loop                                                          *)

Least(a, b) == IF a = NoLimit \/ (b # NoLimit /\ b < a) THEN b ELSE a

\* apply_max_rows; a hash without a limit stays without one.
Capped(s) ==
    CASE ask.budget = NoLimit -> s
      [] s.strategy = "full" -> [strategy |-> "limit", limit |-> ask.budget]
      [] s.strategy = "where" -> [strategy |-> "where_limit", limit |-> ask.budget]
      [] s.limit # NoLimit -> [s EXCEPT !.limit = Least(@, ask.budget)]
      [] OTHER -> s

\* The keys of the parent take the place of the sampling of a source in a cohort.
Sampled(i) ==
    IF ask.item[i].cohort THEN [strategy |-> "where", limit |-> NoLimit]
    ELSE Capped(ask.item[i].sampling)

Parent(i) ==
    IF ask.item[i].cohort /\ ask.item[i].parents # {} THEN CHOOSE p \in ask.item[i].parents : TRUE
    ELSE NoItem

\* Faulty variant: what a cohort puts in place of the sampling satisfies every tag.
AdmittedAsCohort(i) ==
    LET s == Sampled(i) IN
    /\ ~ask.item[i].denied
    /\ ask.item[i].restricted => s.strategy \in {"where", "where_limit"}
    /\ s.strategy = "full" => ask.allowFull
    /\ s.limit # NoLimit => s.limit <= Cap

\* evaluate_sampling, and the tags a cohort rule has to satisfy with a filter of its own.
Admitted(i) ==
    LET s == Sampled(i) IN
    /\ ~ask.item[i].denied
    /\ ask.item[i].restricted =>
        IF ask.item[i].cohort THEN ask.item[i].filtered
        ELSE s.strategy \in {"where", "where_limit"}
    /\ s.strategy = "full" => ask.allowFull
    /\ s.limit # NoLimit => s.limit <= Cap

Acceptable(i) ==
    /\ ask.item[i].cohort => Cardinality(ask.item[i].parents) = 1
    /\ Admitted(i)
    /\ ask.frozen => ask.members[i] # NoSnapshot

DecideSource(i) ==
    /\ step = "sources"
    /\ i \in todo
    /\ Acceptable(i)
    /\ Decide(i, [request[i] EXCEPT !.sampling = Sampled(i)])
    /\ todo' = todo \ {i}
    /\ UNCHANGED <<ask, step, active>>

\* It is not acceptable, or for a reason the question leaves out: two routes or two cohort
\* rules match, the profile cannot be read, the policy requires another fidelity.
RefuseSource(i) ==
    /\ step = "sources"
    /\ i \in todo
    /\ Refused

-----------------------------------------------------------------------------
(* The second loop                                                         *)

\* source_levels finds an order exactly if no set of sources has all its parents within.
Cyclic == \E S \in SUBSET Item : S # {} /\ \A i \in S : Parent(i) \in S

Levels ==
    /\ step = "sources" /\ todo = {}
    /\ IF Cyclic
       THEN Refused
       ELSE /\ step' = "levels"
            /\ todo' = Item
            /\ UNCHANGED <<ask, request, action, chosen, active, corrupt>>

Ready(i) == step = "levels" /\ i \in todo /\ Parent(i) \notin todo

TooManyRows(s) == Stored(s).rows > Cap \/ (ask.budget # NoLimit /\ Stored(s).rows > ask.budget)

\* Faulty variant: a snapshot past the age of its tags is captured anew, offline as well.
AgedAction == "REFRESH"

\* What becomes of a snapshot past the age its tags allow.
TooOld == IF Offline THEN "MISSING" ELSE "REFRESH"

\* The row and age limits of a snapshot about to be reused, i's decision so far being d.
Settle(i, r, d, s) ==
    /\ todo' = todo \ {i}
    /\ request' = [request EXCEPT ![i] = r]
    /\ IF d = "REUSE" /\ Stored(s).aged
       THEN action' = [action EXCEPT ![i] = TooOld] /\ chosen' = [chosen EXCEPT ![i] = NoSnapshot]
       ELSE action' = [action EXCEPT ![i] = d] /\ chosen' = [chosen EXCEPT ![i] = s]
    /\ UNCHANGED <<ask, step, active>>

Reuses(i) == i # NoItem /\ action[i] = "REUSE"

\* A source whose first decision stands.
SettleSource(i) ==
    /\ Ready(i)
    /\ Parent(i) = NoItem
    /\ Reuses(i) => ~TooManyRows(chosen[i])
    /\ Settle(i, request[i], action[i], chosen[i])
    /\ UNCHANGED corrupt

\* Faulty variant: the source keeps the decision it had before its keys were known.
SettleUnkeyed(i) ==
    /\ Ready(i)
    /\ Reuses(Parent(i))
    /\ Reuses(i) => ~TooManyRows(chosen[i])
    /\ Settle(i, request[i], action[i], chosen[i])
    /\ UNCHANGED corrupt

Keyed(i) ==
    [request[i] EXCEPT !.sampling = [strategy |-> "where", limit |-> NoLimit],
                       !.keysOf = chosen[Parent(i)]]

\* The parent's snapshot is there to take the keys from: decided on again.
SettleKeyed(i) ==
    LET r == Keyed(i)
        reusable == Reusable(i, r)
        d == Decision(i, r)
    IN
    /\ Ready(i)
    /\ Reuses(Parent(i))
    /\ \E s \in IF d = "REUSE" THEN reusable ELSE {NoSnapshot} :
        /\ d = "REUSE" => ~TooManyRows(s)
        /\ Settle(i, r, d, s)
    /\ corrupt' = corrupt \cup (Candidates(i, r) \ Intact(i, r))

\* Faulty variant: what the first loop decided stands until the parent is captured.
SettleOnItsOwn(i) ==
    /\ Ready(i)
    /\ Parent(i) # NoItem /\ ~Reuses(Parent(i))
    /\ Settle(i, request[i], action[i], chosen[i])
    /\ UNCHANGED corrupt

\* The parent is captured first, or missing.
SettleWaiting(i) ==
    /\ Ready(i)
    /\ Parent(i) # NoItem /\ ~Reuses(Parent(i))
    /\ Settle(i, request[i], action[Parent(i)], NoSnapshot)
    /\ UNCHANGED corrupt

\* More rows than the budget, or than the policy now allows; keys that cannot be read from
\* the parent's snapshot, or too many of them.
RefuseSettled(i) ==
    /\ Ready(i)
    /\ \/ Parent(i) = NoItem /\ Reuses(i) /\ TooManyRows(chosen[i])
       \/ Reuses(Parent(i))
    /\ Refused

Prepared ==
    /\ step = "levels" /\ todo = {}
    /\ step' = "prepared"
    /\ UNCHANGED <<ask, todo, request, action, chosen, active, corrupt>>

-----------------------------------------------------------------------------

\* Another command of the workspace, which plan does not lock, commits a snapshot in place
\* of the active one of the same request.
Activate(s) ==
    /\ step \in {"sources", "levels"}
    /\ s \notin active \cup corrupt
    /\ active' = {t \in active : Stored(t).request # Stored(s).request} \cup {s}
    /\ UNCHANGED <<ask, step, todo, request, action, chosen, corrupt>>

PrepareNext ==
    \/ \E i \in Item :
        \/ DecideSource(i) \/ RefuseSource(i)
        \/ SettleSource(i) \/ SettleKeyed(i) \/ SettleWaiting(i) \/ RefuseSettled(i)
    \/ Levels
    \/ Prepared
    \/ \E s \in Snapshot : Activate(s)

PrepareSpec == PrepareInit /\ [][PrepareNext]_prepare

-----------------------------------------------------------------------------
(* Properties                                                              *)

\* Nothing is captured by a run that is to stay off the warehouse: cached, offline, or over a
\* frozen dataset.  The decision is taken in three places.
OfflineNeverRefreshes ==
    step = "prepared" /\ Offline => \A i \in Item : action[i] # "REFRESH"

\* What a run reuses is within every limit of the policy and the budget as they are now, and
\* nothing is captured that a tag denies or wants filtered, whatever rule or cohort applies.
AdmittedByPolicy ==
    step = "prepared" => \A i \in Item :
        /\ ~ask.item[i].denied
        /\ ask.item[i].restricted =>
               ask.item[i].filtered /\ request[i].sampling.strategy \in {"where", "where_limit"}
        /\ request[i].sampling.strategy = "full" => ask.allowFull
        /\ Reuses(i) => ~TooManyRows(chosen[i]) /\ ~Stored(chosen[i]).aged

\* A source in a cohort is reused only with the keys of the very snapshot its parent is
\* reused with, and captured only by a run that can have those keys; and what is reused is
\* always an intact answer to the request as it is now, the pinned one if there is one.
CohortFollowsParent ==
    step = "prepared" => \A i \in Item :
        /\ Reuses(i) =>
            /\ Stored(chosen[i]).request = request[i] /\ Stored(chosen[i]).intact
            /\ Pinned(i) # NoSnapshot => chosen[i] = Pinned(i)
        /\ Parent(i) # NoItem =>
            IF Reuses(Parent(i)) THEN request[i].keysOf = chosen[Parent(i)]
            ELSE action[i] = action[Parent(i)]
=============================================================================
