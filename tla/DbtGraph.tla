------------------------------ MODULE DbtGraph ------------------------------
(***************************************************************************)
(* What a plan takes from dbt's two manifests (production and local): the  *)
(* sources upstream of the selection under either target, the mapping of   *)
(* each, and the relations outside the run that its nodes will read, which *)
(* are looked for in the local database before dbt is started.             *)
(*                                                                         *)
(* The walks are worklists; the order in which they take nodes is left     *)
(* open.                                                                   *)
(***************************************************************************)
EXTENDS Naturals, FiniteSets

CONSTANTS
    Node,
    Plan        \* the manifests, selections and commands there may be

Target == {"production", "local"}

\* A node as normalize_manifest keeps it.  A relation is complete if it names a schema.
NodeRecord == [type : {"source", "model", "seed", "snapshot", "test", "other"},
               parents : SUBSET Node, ephemeral : BOOLEAN, relation : BOOLEAN]

ASSUME DbtGraphAssumption ==
    \A p \in Plan :
        /\ p.command \in {"run", "build", "test", "sync"}
        /\ p.selected \in [Target -> SUBSET Node]
        /\ \A t \in Target :
            /\ DOMAIN p.manifest[t] \subseteq Node
            /\ p.manifest[t] \in [DOMAIN p.manifest[t] -> NodeRecord]

VARIABLES
    plan,
    stage,      \* how far planning is
    pending,    \* per target, the nodes the walk has still to look at
    visited,
    toMap,      \* the sources still to be mapped
    mapped,
    errors,     \* the sources with a blocking finding
    expanding,  \* the nodes whose parents are still to be looked at
    inlined,    \* the nodes dbt will run, or inline into those it runs
    required    \* the relations that have to be there already

graph == <<plan, stage, pending, visited, toMap, mapped, errors, expanding, inlined, required>>

Known(t) == DOMAIN plan.manifest[t]
Get(t, n) == plan.manifest[t][n]
IsSource(t, n) == n \in Known(t) /\ Get(t, n).type = "source"

Empty == [t \in Target |-> {}]

GraphFrom(given) ==
    /\ plan = given
    /\ stage = "walk"
    /\ pending = plan.selected
    /\ visited = Empty
    /\ toMap = {} /\ mapped = {} /\ errors = {}
    /\ expanding = {} /\ inlined = {} /\ required = {}

GraphInit == \E given \in Plan : GraphFrom(given)

-----------------------------------------------------------------------------
(* upstream_sources, under both targets                                    *)

\* Faulty variant: the walk ends at the models of the selection.
OnwardFromSelected(t, n) ==
    IF n \in plan.selected[t] /\ n \in Known(t) THEN Get(t, n).parents ELSE {}

\* What the walk goes on to from a node: nothing from a source or an unknown node.
Onward(t, n) ==
    IF n \in Known(t) /\ ~IsSource(t, n) THEN Get(t, n).parents ELSE {}

Visit(t, n) ==
    /\ stage = "walk"
    /\ n \in pending[t]
    /\ visited' = [visited EXCEPT ![t] = @ \cup {n}]
    /\ pending' = [pending EXCEPT ![t] = (@ \cup Onward(t, n)) \ visited'[t]]
    /\ UNCHANGED <<plan, stage, toMap, mapped, errors, expanding, inlined, required>>

Upstream(t) == {n \in visited[t] : IsSource(t, n)}

\* Faulty variant: only what production reads is prepared.
RequiredByProduction == Upstream("production")

RequiredSources == Upstream("production") \cup Upstream("local")

StartMapping ==
    /\ stage = "walk" /\ pending = Empty
    /\ stage' = "map"
    /\ toMap' = RequiredSources
    /\ UNCHANGED <<plan, pending, visited, mapped, errors, expanding, inlined, required>>

Mappable(s) == \A t \in Target : IsSource(t, s) /\ Get(t, s).relation

MapSource(s) ==
    /\ stage = "map"
    /\ s \in toMap
    /\ toMap' = toMap \ {s}
    /\ IF Mappable(s)
       THEN mapped' = mapped \cup {s} /\ UNCHANGED errors
       ELSE errors' = errors \cup {s} /\ UNCHANGED mapped
    /\ UNCHANGED <<plan, stage, pending, visited, expanding, inlined, required>>

-----------------------------------------------------------------------------
(* dependency_boundaries, of the local manifest                            *)

ScheduledTypes ==
    CASE plan.command = "run" -> {"model"}
      [] plan.command = "build" -> {"model", "seed", "snapshot", "test"}
      [] plan.command = "test" -> {"test"}
      [] OTHER -> {}

Scheduled ==
    {n \in plan.selected["local"] \cap Known("local") : Get("local", n).type \in ScheduledTypes}

\* A plan with a blocking finding goes no further, be it of a source or, at any time, of
\* the compatibility analysis; the others are bound before this.
StartBoundaries ==
    /\ stage = "map" /\ toMap = {}
    /\ stage' \in (IF errors = {} THEN {"expand", "refused"} ELSE {"refused"})
    /\ expanding' = Scheduled
    /\ UNCHANGED <<plan, pending, visited, toMap, mapped, errors, inlined, required>>

Parents(n) ==
    {p \in Get("local", n).parents \cap Known("local") : ~IsSource("local", p)}

\* Faulty variant: the query of an ephemeral model is taken for a relation.
FollowedIfScheduled(n) == Parents(n) \cap Scheduled

\* The parents dbt runs itself, and those whose query it puts into n's own.
Followed(n) == {p \in Parents(n) : p \in Scheduled \/ Get("local", p).ephemeral}

HasRelation(p) == Get("local", p).type \in {"model", "seed", "snapshot"}

\* Faulty variant: seeds and snapshots are taken for granted.
RequiredModels(n) == {p \in Parents(n) \ Followed(n) : Get("local", p).type = "model"}

\* The parents whose relation an earlier run must have left.
RequiredBy(n) == {p \in Parents(n) \ Followed(n) : HasRelation(p)}

Expand(n) ==
    /\ stage = "expand"
    /\ n \in expanding
    /\ inlined' = inlined \cup {n}
    /\ expanding' = (expanding \cup Followed(n)) \ inlined'
    /\ required' = required \cup RequiredBy(n)
    /\ UNCHANGED <<plan, stage, pending, visited, toMap, mapped, errors>>

Planned ==
    /\ stage = "expand" /\ expanding = {}
    /\ stage' = "done"
    /\ UNCHANGED <<plan, pending, visited, toMap, mapped, errors, expanding, inlined, required>>

GraphNext ==
    \/ \E t \in Target, n \in Node : Visit(t, n)
    \/ StartMapping
    \/ \E n \in Node : MapSource(n) \/ Expand(n)
    \/ StartBoundaries
    \/ Planned

GraphSpec == GraphInit /\ [][GraphNext]_graph

-----------------------------------------------------------------------------
(* Properties                                                              *)

\* The set of nodes has the parents of each, those of a source excepted.
Closed(t, C) == \A n \in C \cap Known(t) : IsSource(t, n) \/ Get(t, n).parents \subseteq C

\* The walk has seen the ancestors of the selection, every one of them and nothing else,
\* whatever the order and however the graph is shared: the least closed set around it.
WalkIsExact ==
    stage # "walk" => \A t \in Target :
        /\ plan.selected[t] \subseteq visited[t]
        /\ Closed(t, visited[t])
        /\ \A C \in SUBSET Node : plan.selected[t] \subseteq C /\ Closed(t, C) => visited[t] \subseteq C

\* Every relation that a node of the run reads, in its own query or in that of an ephemeral
\* model inlined into it, is a source that was mapped, a node of the same run, or one that
\* check_prerequisites looks for.  The sources come from one walk, the others from another.
ReadsAreProvided ==
    stage = "done" =>
        /\ Scheduled \subseteq inlined
        /\ \A n \in inlined : \A p \in Get("local", n).parents \cap Known("local") :
            \/ p \in mapped
            \/ p \in Scheduled
            \/ Get("local", p).ephemeral /\ p \in inlined
            \/ p \in required
            \/ ~IsSource("local", p) /\ ~HasRelation(p)

\* A run is refused only for a relation that exists by itself, that the run does not build, and
\* that one of its nodes does read: any set that holds the run's nodes and the ephemeral models
\* in their queries has a reader of each.
OnlyReadsAreRequired ==
    stage = "done" =>
        /\ \A p \in required : p \notin Scheduled /\ ~Get("local", p).ephemeral
        /\ \A C \in SUBSET Known("local") :
            Scheduled \subseteq C /\ (\A n \in C : {p \in Parents(n) : Get("local", p).ephemeral} \subseteq C) =>
                \A p \in required : \E n \in C : p \in Parents(n)
=============================================================================
