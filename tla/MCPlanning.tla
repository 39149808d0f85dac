----------------------------- MODULE MCPlanning -----------------------------
(***************************************************************************)
(* The three parts of planning on small instances, one of them at a time:  *)
(* they share no state.                                                    *)
(***************************************************************************)
EXTENDS DbtGraph, ParseCache, SourcePlanning

CONSTANTS raw, ref, a, b, c, orders, lines, notes, s1, s2, k1, k2

-----------------------------------------------------------------------------
(* Manifests: a, b and c in a chain or a triangle, a and b ephemeral or    *)
(* not, with one or two sources; the production target differs in one      *)
(* parent, or lacks a source or its relation.                              *)

MCNode == {raw, ref, a, b, c}

SourceNode == [type |-> "source", parents |-> {}, ephemeral |-> FALSE, relation |-> TRUE]

ModelNode(type, parents, ephemeral) ==
    [type |-> type, parents |-> parents, ephemeral |-> ephemeral, relation |-> ~ephemeral]

Manifest(atype, ofB, ofC, ctype, inlineA, inlineB) ==
    [n \in MCNode |->
        CASE n \in {raw, ref} -> SourceNode
          [] n = a -> ModelNode(atype, IF atype = "model" THEN {raw} ELSE {}, inlineA /\ atype = "model")
          [] n = b -> ModelNode("model", ofB, inlineB)
          [] n = c -> ModelNode(ctype, ofC, FALSE)]

Without(m, n) == [x \in DOMAIN m \ {n} |-> m[x]]

\* What the production target may make of the local manifest.
Productions(m) ==
    {m, Without(m, ref), [m EXCEPT ![ref].relation = FALSE], [m EXCEPT ![b].parents = {raw}]}

MCPlan ==
    UNION {{[manifest |-> [t \in Target |-> IF t = "local" THEN m ELSE production],
             selected |-> [t \in Target |-> selection], command |-> command] :
                production \in Productions(m), selection \in {{c}, {b, c}, {a, b}, {a, c}},
                command \in {"run", "build", "test", "sync"}} :
           m \in {Manifest(atype, ofB, ofC, ctype, inlineA, inlineB) :
                      atype \in {"model", "seed"}, ofB \in {{a}, {a, ref}},
                      ofC \in {{b}, {a, b}, {b, ref}}, ctype \in {"model", "test"},
                      inlineA \in BOOLEAN, inlineB \in BOOLEAN}}

-----------------------------------------------------------------------------
(* Requests: lines takes its keys from orders; notes is on its own, takes  *)
(* them from lines, or closes a cycle.  orders has a snapshot, s1, and     *)
(* another command may commit s2; k1 and k2 hold lines for the keys of     *)
(* either.                                                                 *)

MCItem == {orders, lines, notes}
MCSnapshot == {s1, s2, k1, k2}
MCCap == 2

Hash == [strategy |-> "hash", limit |-> NoLimit]
Where == [strategy |-> "where", limit |-> NoLimit]

ItemOf(sampling, filtered, cohort, parents, denied, restricted) ==
    [sampling |-> sampling, filtered |-> filtered, cohort |-> cohort, parents |-> parents,
     denied |-> denied, restricted |-> restricted]

StoredAs(item, sampling, keysOf, rows, expired, aged, intact) ==
    [request |-> [item |-> item, sampling |-> sampling, keysOf |-> keysOf], rows |-> rows,
     expired |-> expired, aged |-> aged, intact |-> intact]

Shapes == {
    [lines |-> {orders}, notes |-> {}], [lines |-> {orders}, notes |-> {lines}],
    [lines |-> {notes}, notes |-> {lines}], [lines |-> {orders, notes}, notes |-> {}]}

Pins == {
    [frozen |-> FALSE, named |-> NoSnapshot, of |-> NoSnapshot, keys |-> NoSnapshot],
    [frozen |-> FALSE, named |-> s1, of |-> NoSnapshot, keys |-> NoSnapshot],
    [frozen |-> TRUE, named |-> NoSnapshot, of |-> s1, keys |-> k1],
    [frozen |-> TRUE, named |-> NoSnapshot, of |-> s1, keys |-> k2],
    [frozen |-> TRUE, named |-> NoSnapshot, of |-> s1, keys |-> NoSnapshot]}

\* The snapshot of orders, and that of lines with its keys: rows, expired, aged, intact.
States == {<<1, FALSE, FALSE, TRUE>>, <<3, FALSE, FALSE, TRUE>>, <<1, TRUE, FALSE, TRUE>>,
           <<1, TRUE, TRUE, TRUE>>, <<1, FALSE, FALSE, FALSE>>}

\* How orders is sampled, and whether the rule of lines filters it and a tag of it asks for that.
Rules == {<<Hash, FALSE, FALSE>>, <<Hash, TRUE, TRUE>>, <<Hash, FALSE, TRUE>>,
          <<[strategy |-> "full", limit |-> NoLimit], FALSE, FALSE>>,
          <<[strategy |-> "limit", limit |-> 3], FALSE, FALSE>>}

QuestionOf(mode, pin, budget, shape, rule, own, keyed) ==
    [mode |-> mode, frozen |-> pin.frozen, named |-> pin.named, budget |-> budget,
     members |-> [i \in MCItem |->
         CASE i = orders -> pin.of [] i = lines -> pin.keys [] OTHER -> IF pin.frozen THEN s1 ELSE NoSnapshot],
     allowFull |-> FALSE,
     item |-> [i \in MCItem |->
         CASE i = orders -> ItemOf(rule[1], FALSE, FALSE, {}, FALSE, FALSE)
           [] i = lines -> ItemOf(Hash, rule[2], TRUE, shape.lines, FALSE, rule[3])
           [] OTHER -> ItemOf(Hash, FALSE, shape.notes # {}, shape.notes, FALSE, FALSE)],
     stored |-> [s \in MCSnapshot |->
         CASE s = s1 -> StoredAs(orders, Hash, NoSnapshot, own[1], own[2], own[3], own[4])
           [] s = s2 -> StoredAs(orders, Hash, NoSnapshot, 1, FALSE, FALSE, TRUE)
           [] s = k1 -> StoredAs(lines, Where, s1, keyed[1], keyed[2], keyed[3], keyed[4])
           [] OTHER -> StoredAs(lines, Where, s2, 1, FALSE, FALSE, TRUE)],
     active |-> {s1, k1}]

MCQuestion ==
    {QuestionOf(mode, pin, budget, shape, rule, own, keyed) :
        mode \in {"auto", "refresh", "cached", "offline"}, pin \in Pins, budget \in {NoLimit, 1},
        shape \in Shapes, rule \in Rules, own \in States, keyed \in States}

-----------------------------------------------------------------------------

VARIABLE part

AnyPlan == CHOOSE x \in Plan : TRUE
AnyKeys == [x \in Plans |-> CHOOSE k \in Key : TRUE]
AnyQuestion == CHOOSE x \in Question : TRUE

MCInit ==
    \/ part = "graph" /\ GraphInit /\ CacheFrom(AnyKeys) /\ PrepareFrom(AnyQuestion)
    \/ part = "cache" /\ GraphFrom(AnyPlan) /\ CacheInit /\ PrepareFrom(AnyQuestion)
    \/ part = "prepare" /\ GraphFrom(AnyPlan) /\ CacheFrom(AnyKeys) /\ PrepareInit

MCNext ==
    \/ part = "graph" /\ GraphNext /\ UNCHANGED <<part, cache, prepare>>
    \/ part = "cache" /\ CacheNext /\ UNCHANGED <<part, graph, prepare>>
    \/ part = "prepare" /\ PrepareNext /\ UNCHANGED <<part, graph, cache>>

MCSpec == MCInit /\ [][MCNext]_<<part, graph, cache, prepare>>
=============================================================================
