---------------------------- MODULE DbtGraphProofs ----------------------------
(***************************************************************************)
(* What the walks over any two manifests find, in any order: the ancestors *)
(* of the selection, all that the run will read, and nothing more.         *)
(*                                                                         *)
(* The argument is the same for both worklists: what has been seen and     *)
(* what is still to be looked at are together closed, and lie within every *)
(* closed set around where the walk began.                                 *)
(***************************************************************************)
EXTENDS DbtGraph, TLAPS

USE DbtGraphAssumption DEF Target

Stage == {"walk", "map", "refused", "expand", "done"}

GraphTyped ==
    /\ plan \in Plan
    /\ stage \in Stage
    /\ pending \in [Target -> SUBSET Node]
    /\ visited \in [Target -> SUBSET Node]
    /\ toMap \subseteq Node /\ mapped \subseteq Node /\ errors \subseteq Node
    /\ inlined \subseteq Node /\ expanding \subseteq Node

\* What a walk has seen, or is to look at.
Seen(t) == visited[t] \cup pending[t]

Walked ==
    \A t \in Target :
        /\ plan.selected[t] \subseteq Seen(t)
        /\ \A n \in visited[t] : Onward(t, n) \subseteq Seen(t)
        /\ \A C \in SUBSET Node : plan.selected[t] \subseteq C /\ Closed(t, C) => Seen(t) \subseteq C
        /\ stage # "walk" => pending[t] = {}

Expanding == stage \in {"expand", "done"}

\* Every source of either walk is mapped, or planning ends.
Mapped ==
    /\ stage = "walk" => mapped = {} /\ errors = {}
    /\ stage # "walk" => RequiredSources = toMap \cup mapped \cup errors
    /\ Expanding => toMap = {} /\ errors = {}

\* The run's nodes and those inlined into them are among the nodes that the walk has seen.
Inlined ==
    /\ Expanding =>
        /\ Scheduled \subseteq inlined \cup expanding
        /\ inlined \cup expanding \subseteq visited["local"] \cap Known("local")
        /\ \A n \in inlined \cup expanding : ~IsSource("local", n)
        /\ \A n \in inlined : Followed(n) \subseteq inlined \cup expanding /\ RequiredBy(n) \subseteq required
    /\ stage = "done" => expanding = {}
    /\ ~Expanding => inlined = {} /\ required = {}

\* A set of nodes with the run's nodes and every ephemeral model they read.
Covers(C) ==
    /\ Scheduled \subseteq C
    /\ \A n \in C : {p \in Parents(n) : Get("local", p).ephemeral} \subseteq C

Needed ==
    Expanding =>
        /\ \A p \in required : p \notin Scheduled /\ ~Get("local", p).ephemeral
        /\ \A C \in SUBSET Known("local") : Covers(C) =>
            /\ inlined \cup expanding \subseteq C
            /\ \A p \in required : \E n \in C : p \in Parents(n)

GraphInv == GraphTyped /\ Walked /\ Mapped /\ Inlined /\ Needed

-----------------------------------------------------------------------------
(* Lemmas about the operators                                              *)

\* A closed set is one that no step of the walk leaves.
LEMMA ClosedOnward ==
    ASSUME NEW t \in Target, NEW C \in SUBSET Node, Closed(t, C), NEW n \in C
    PROVE  Onward(t, n) \subseteq C
BY DEF Closed, Onward

\* The parents of a node are nodes.
LEMMA OnwardTyped ==
    ASSUME plan \in Plan, NEW t \in Target, NEW n
    PROVE  Onward(t, n) \subseteq Node
<1>1. CASE n \in Known(t)
  <2>1. Get(t, n) \in NodeRecord
    BY <1>1 DEF Known, Get
  <2> QED
    BY <2>1 DEF Onward, NodeRecord
<1>2. CASE n \notin Known(t)
  BY <1>2 DEF Onward
<1> QED
  BY <1>1, <1>2

\* dbt runs no source.
LEMMA ScheduledNoSource ==
    ASSUME plan \in Plan
    PROVE  /\ Scheduled \subseteq plan.selected["local"] \cap Known("local")
           /\ \A n \in Scheduled : ~IsSource("local", n)
BY DEF Scheduled, ScheduledTypes, IsSource, Known

\* What is followed are parents that the run builds or that are ephemeral, and no sources.
LEMMA FollowedParents ==
    ASSUME plan \in Plan, NEW n \in Known("local")
    PROVE  /\ Followed(n) \subseteq Parents(n)
           /\ RequiredBy(n) \subseteq Parents(n)
           /\ \A p \in RequiredBy(n) : p \notin Scheduled /\ ~Get("local", p).ephemeral
           /\ \A p \in Parents(n) : p \in Known("local") /\ ~IsSource("local", p)
           /\ \A p \in Followed(n) : p \in Scheduled \/ Get("local", p).ephemeral
BY DEF Followed, RequiredBy, Parents

-----------------------------------------------------------------------------
(* The invariant                                                           *)

LEMMA InitGraphInv == GraphInit => GraphInv
<1> SUFFICES ASSUME NEW given \in Plan, GraphFrom(given) PROVE GraphInv
  BY DEF GraphInit
<1> USE DEF GraphFrom, Empty
<1>1. GraphTyped
  BY DEF GraphTyped, Stage
<1>2. Walked
  BY <1>1 DEF Walked, Seen, GraphTyped
<1>3. Mapped /\ Inlined /\ Needed
  BY DEF Mapped, Inlined, Needed, Expanding
<1> QED
  BY <1>1, <1>2, <1>3 DEF GraphInv

USE DEF GraphTyped, Stage

\* The operators of the boundaries depend on nothing but the plan.
LEMMA VisitInv ==
    ASSUME GraphInv, NEW t \in Target, NEW n \in Node, Visit(t, n) PROVE GraphInv'
<1> USE DEF GraphInv
<1>1. Onward(t, n) \subseteq Node
  BY OnwardTyped
<1>2. /\ stage = "walk" /\ n \in pending[t]
      /\ UNCHANGED <<plan, stage, toMap, mapped, errors, expanding, inlined, required>>
      /\ visited' = [visited EXCEPT ![t] = @ \cup {n}]
      /\ visited'[t] = visited[t] \cup {n}
      /\ pending' = [pending EXCEPT ![t] = (@ \cup Onward(t, n)) \ (visited[t] \cup {n})]
  BY DEF Visit
<1>3. GraphTyped'
  BY <1>1, <1>2
<1>4. Seen(t)' = Seen(t) \cup Onward(t, n)
  BY <1>2 DEF Seen
<1>5. \A u \in Target : u # t => Seen(u)' = Seen(u) /\ visited'[u] = visited[u]
  BY <1>2 DEF Seen
<1>6. \A u \in Target : \A m : Onward(u, m)' = Onward(u, m)
  BY <1>2 DEF Onward, Known, Get, IsSource
<1>7. \A u \in Target : \A C : Closed(u, C)' <=> Closed(u, C)
  BY <1>2 DEF Closed, Known, Get, IsSource
<1>8. Walked'
  <2> SUFFICES ASSUME NEW u \in Target
               PROVE  /\ plan.selected[u] \subseteq Seen(u)'
                      /\ \A m \in visited'[u] : Onward(u, m) \subseteq Seen(u)'
                      /\ \A C \in SUBSET Node :
                            plan.selected[u] \subseteq C /\ Closed(u, C) => Seen(u)' \subseteq C
    BY <1>2, <1>6, <1>7 DEF Walked
  <2>1. CASE u = t
    <3>1. n \in Seen(t)
      BY <1>2 DEF Seen
    <3>2. \A C \in SUBSET Node :
              plan.selected[t] \subseteq C /\ Closed(t, C) => Seen(t)' \subseteq C
      BY <1>4, <3>1, ClosedOnward DEF Walked
    <3>3. plan.selected[t] \subseteq Seen(t)'
      BY <1>4 DEF Walked
    <3>4. \A m \in visited'[t] : Onward(t, m) \subseteq Seen(t)'
      BY <1>2, <1>4 DEF Walked
    <3> QED
      BY <2>1, <3>2, <3>3, <3>4
  <2>2. CASE u # t
    BY <2>2, <1>5 DEF Walked
  <2> QED
    BY <2>1, <2>2
<1>9. Mapped' /\ Inlined' /\ Needed'
  BY <1>2 DEF Mapped, Inlined, Needed, Expanding
<1> QED
  BY <1>3, <1>8, <1>9

\* While the walks are left alone so is what they have found.
LEMMA WalkedStays ==
    ASSUME Walked, UNCHANGED <<plan, pending, visited>>, stage' # "walk" => pending = Empty
    PROVE  /\ Walked'
           /\ RequiredSources' = RequiredSources
<1>1. Walked'
  <2> SUFFICES ASSUME NEW t \in Target
               PROVE  /\ plan.selected[t] \subseteq Seen(t)
                      /\ \A n \in visited[t] : Onward(t, n) \subseteq Seen(t)
                      /\ \A C \in SUBSET Node :
                            plan.selected[t] \subseteq C /\ Closed(t, C) => Seen(t) \subseteq C
                      /\ stage' # "walk" => pending[t] = {}
    BY DEF Walked, Seen, Onward, Closed, Known, Get, IsSource
  <2> QED
    BY DEF Walked, Empty
<1> QED
  BY <1>1 DEF RequiredSources, Upstream, IsSource, Known, Get

\* The steps between the walks.
LEMMA StartMappingInv == ASSUME GraphInv, StartMapping PROVE GraphInv'
<1> USE DEF GraphInv, StartMapping
<1>1. Walked' /\ RequiredSources' = RequiredSources
  BY WalkedStays
<1>2. RequiredSources \subseteq Node
  BY DEF RequiredSources, Upstream
<1> QED
  BY <1>1, <1>2 DEF Mapped, Inlined, Needed, Expanding

LEMMA MapSourceInv == ASSUME GraphInv, NEW n \in Node, MapSource(n) PROVE GraphInv'
<1> USE DEF GraphInv, MapSource
<1>1. pending = Empty
  BY DEF Walked, Empty
<1>2. Walked' /\ RequiredSources' = RequiredSources
  BY <1>1, WalkedStays
<1>3. GraphTyped'
  OBVIOUS
<1>4. toMap' \cup mapped' \cup errors' = toMap \cup mapped \cup errors
  OBVIOUS
<1> QED
  BY <1>2, <1>3, <1>4 DEF Mapped, Inlined, Needed, Expanding

\* What the boundaries are computed from does not change.
LEMMA BoundariesStay ==
    ASSUME UNCHANGED plan
    PROVE  /\ Scheduled' = Scheduled /\ Known("local")' = Known("local")
           /\ \A n : /\ IsSource("local", n)' = IsSource("local", n)
                    /\ Get("local", n)' = Get("local", n)
                    /\ Parents(n)' = Parents(n)
                    /\ Followed(n)' = Followed(n)
                    /\ RequiredBy(n)' = RequiredBy(n)
           /\ \A C : Covers(C)' = Covers(C)
<1>1. /\ Known("local")' = Known("local")
      /\ \A n : /\ IsSource("local", n)' = IsSource("local", n)
               /\ Get("local", n)' = Get("local", n)
  BY DEF Known, Get, IsSource
<1>2. Scheduled' = Scheduled
  BY DEF Scheduled, ScheduledTypes, Known, Get
<1>3. \A n : Parents(n)' = Parents(n)
  BY <1>1 DEF Parents
<1>4. \A n : Followed(n)' = Followed(n)
  BY <1>1, <1>2, <1>3 DEF Followed
<1>5. \A n : RequiredBy(n)' = RequiredBy(n)
  BY <1>1, <1>3, <1>4 DEF RequiredBy, HasRelation
<1>6. \A C : Covers(C)' = Covers(C)
  BY <1>1, <1>2, <1>3 DEF Covers
<1> QED
  BY <1>1, <1>2, <1>3, <1>4, <1>5, <1>6

\* The run's nodes are in every set that covers them, and the walk has seen them.
LEMMA StartBoundariesInv == ASSUME GraphInv, StartBoundaries PROVE GraphInv'
<1> USE DEF GraphInv, StartBoundaries
<1>1. pending = Empty
  BY DEF Walked, Empty
<1>2. Walked' /\ RequiredSources' = RequiredSources
  BY <1>1, WalkedStays
<1>3. Scheduled \subseteq visited["local"] \cap Known("local")
  BY <1>1, ScheduledNoSource DEF Walked, Seen, Empty
<1>4. \A n \in Scheduled : ~IsSource("local", n)
  BY ScheduledNoSource
<1>5. GraphTyped'
  BY <1>3
<1>6. inlined = {} /\ required = {}
  BY DEF Inlined, Expanding
<1>7. Mapped'
  BY <1>2 DEF Mapped, Expanding
<1>8. Inlined'
  BY <1>3, <1>4, <1>6, BoundariesStay DEF Inlined, Expanding
<1>9. Needed'
  <2>1. \A C : Covers(C) => Scheduled \subseteq C
    BY DEF Covers
  <2> QED
    BY <1>6, <2>1, BoundariesStay DEF Needed, Expanding
<1> QED
  BY <1>2, <1>5, <1>7, <1>8, <1>9

LEMMA ExpandInv == ASSUME GraphInv, NEW n \in Node, Expand(n) PROVE GraphInv'
<1> USE DEF GraphInv
<1>1. /\ stage = "expand" /\ n \in expanding
      /\ UNCHANGED <<plan, stage, pending, visited, toMap, mapped, errors>>
      /\ inlined' = inlined \cup {n}
      /\ expanding' = (expanding \cup Followed(n)) \ (inlined \cup {n})
      /\ required' = required \cup RequiredBy(n)
  BY DEF Expand
<1>2. pending = Empty
  BY <1>1 DEF Walked, Empty
<1>3. Walked' /\ RequiredSources' = RequiredSources
  BY <1>1, <1>2, WalkedStays
<1>4. inlined' \cup expanding' = inlined \cup expanding \cup Followed(n)
  BY <1>1
<1>5. n \in visited["local"] \cap Known("local") /\ ~IsSource("local", n)
  BY <1>1 DEF Inlined, Expanding
<1>6. Parents(n) \subseteq visited["local"]
  <2>1. Onward("local", n) \subseteq Seen("local")
    BY <1>5 DEF Walked
  <2>2. Parents(n) \subseteq Onward("local", n)
    BY <1>5 DEF Parents, Onward
  <2> QED
    BY <2>1, <2>2, <1>2 DEF Seen, Empty
<1>7. /\ Followed(n) \subseteq visited["local"] \cap Known("local")
      /\ \A p \in Followed(n) : ~IsSource("local", p)
  BY <1>5, <1>6, FollowedParents
<1>8. GraphTyped'
  BY <1>1, <1>7
<1>9. Mapped'
  BY <1>1, <1>3 DEF Mapped, Expanding
<1>10. Inlined'
  BY <1>1, <1>4, <1>7, BoundariesStay DEF Inlined, Expanding
<1>11. Needed'
  <2>1. \A p \in required' : p \notin Scheduled /\ ~Get("local", p).ephemeral
    BY <1>1, <1>5, FollowedParents DEF Needed, Expanding
  <2>2. ASSUME NEW C \in SUBSET Known("local"), Covers(C)
        PROVE  /\ inlined' \cup expanding' \subseteq C
               /\ \A p \in required' : \E m \in C : p \in Parents(m)
    <3>1. inlined \cup expanding \subseteq C /\ n \in C
      BY <1>1, <2>2 DEF Needed, Expanding
    <3>2. Followed(n) \subseteq C
      BY <1>5, <2>2, <3>1, FollowedParents DEF Covers
    <3>3. \A p \in required' : \E m \in C : p \in Parents(m)
      BY <1>1, <1>5, <2>2, <3>1, FollowedParents DEF Needed, Expanding
    <3> QED
      BY <1>4, <3>1, <3>2, <3>3
  <2> QED
    BY <1>1, <2>1, <2>2, BoundariesStay DEF Needed
<1> QED
  BY <1>3, <1>8, <1>9, <1>10, <1>11

LEMMA PlannedInv == ASSUME GraphInv, Planned PROVE GraphInv'
<1> USE DEF GraphInv, Planned
<1>1. pending = Empty
  BY DEF Walked, Empty
<1>2. Walked' /\ RequiredSources' = RequiredSources
  BY <1>1, WalkedStays
<1>3. Inlined'
  BY BoundariesStay DEF Inlined, Expanding
<1>4. Needed'
  BY BoundariesStay DEF Needed, Expanding
<1> QED
  BY <1>2, <1>3, <1>4 DEF Mapped, Expanding

LEMMA NextGraphInv == GraphInv /\ [GraphNext]_graph => GraphInv'
<1> SUFFICES ASSUME GraphInv, [GraphNext]_graph PROVE GraphInv'
  OBVIOUS
<1>1. CASE UNCHANGED graph
  <2>1. stage # "walk" => pending = Empty
    BY DEF GraphInv, Walked, Empty
  <2>2. Walked' /\ RequiredSources' = RequiredSources
    BY <1>1, <2>1, WalkedStays DEF graph, GraphInv
  <2>3. Inlined' /\ Needed'
    BY <1>1, BoundariesStay DEF graph, GraphInv, Inlined, Needed, Expanding
  <2> QED
    BY <1>1, <2>2, <2>3 DEF graph, GraphInv, Mapped, Expanding
<1> QED
  BY <1>1, VisitInv, StartMappingInv, MapSourceInv, StartBoundariesInv, ExpandInv, PlannedInv DEF GraphNext

LEMMA GraphInvariant == GraphSpec => []GraphInv
BY InitGraphInv, NextGraphInv, PTL DEF GraphSpec

-----------------------------------------------------------------------------
(* The theorems                                                            *)

\* upstream_sources finds the ancestors of the selection, all and only those, in whatever
\* order it takes them from its stack.
THEOREM WalksExact == GraphSpec => []WalkIsExact
<1>1. GraphInv => WalkIsExact
  <2> SUFFICES ASSUME GraphInv, stage # "walk", NEW t \in Target
               PROVE  /\ plan.selected[t] \subseteq visited[t]
                      /\ Closed(t, visited[t])
                      /\ \A C \in SUBSET Node :
                            plan.selected[t] \subseteq C /\ Closed(t, C) => visited[t] \subseteq C
    BY DEF WalkIsExact
  <2>1. Seen(t) = visited[t]
    BY DEF GraphInv, Walked, Seen
  <2>2. Closed(t, visited[t])
    BY <2>1 DEF GraphInv, Walked, Closed, Onward
  <2> QED
    BY <2>1, <2>2 DEF GraphInv, Walked
<1> QED
  BY <1>1, GraphInvariant, PTL

\* A run that is planned finds all its nodes read: the sources from one walk, the rest from
\* the other (selection.py, boundaries.py, planner.py).
THEOREM AllReadsProvided == GraphSpec => []ReadsAreProvided
<1>1. GraphInv => ReadsAreProvided
  <2> SUFFICES ASSUME GraphInv, stage = "done",
                      NEW n \in inlined, NEW p \in Get("local", n).parents \cap Known("local")
               PROVE  \/ p \in mapped
                      \/ p \in Scheduled
                      \/ Get("local", p).ephemeral /\ p \in inlined
                      \/ p \in required
                      \/ ~IsSource("local", p) /\ ~HasRelation(p)
    BY DEF GraphInv, Inlined, Expanding, ReadsAreProvided
  <2> USE DEF GraphInv
  <2>1. n \in visited["local"] \cap Known("local") /\ ~IsSource("local", n)
    BY DEF Inlined, Expanding
  <2>2. CASE IsSource("local", p)
    <3>1. p \in Onward("local", n)
      BY <2>1 DEF Onward
    <3>2. p \in visited["local"]
      BY <2>1, <3>1 DEF Walked, Seen
    <3>3. p \in RequiredSources
      BY <2>2, <3>2 DEF RequiredSources, Upstream
    <3> QED
      BY <3>3 DEF Mapped, Expanding
  <2>3. CASE ~IsSource("local", p)
    <3>1. p \in Parents(n)
      BY <2>3 DEF Parents
    <3>2. Followed(n) \subseteq inlined /\ RequiredBy(n) \subseteq required
      BY DEF Inlined, Expanding
    <3> QED
      BY <2>3, <3>1, <3>2 DEF Followed, RequiredBy
  <2> QED
    BY <2>2, <2>3
<1> QED
  BY <1>1, GraphInvariant, PTL

\* check_prerequisites refuses a run for nothing that the run does not read.
THEOREM NothingElseRequired == GraphSpec => []OnlyReadsAreRequired
<1>1. GraphInv => OnlyReadsAreRequired
  BY DEF GraphInv, Needed, Expanding, Covers, OnlyReadsAreRequired
<1> QED
  BY <1>1, GraphInvariant, PTL
=============================================================================
