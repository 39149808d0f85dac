---------------------------- MODULE Publication ----------------------------
(***************************************************************************)
(* What the dataset index promises its readers, with no files, commands or *)
(* crashes in sight: for every source request at most one snapshot is      *)
(* selected, and the selection moves forward only by whole source sets.    *)
(* A set is published by a run, or recovered from the registry or from a   *)
(* record kept beside it; everything else can only take selections away.   *)
(* SnapshotStore implements this specification.                            *)
(***************************************************************************)
CONSTANTS
    Key,        \* snapshot keys: pairs of a source request and a captured content
    Dataset     \* complete source sets: sets of snapshot keys

VARIABLES
    selected,   \* the keys a planner may reuse
    registered, \* the datasets the index retains for replay
    recorded,   \* the datasets with a recovery record outside the index
    published   \* every key that some published dataset has contained

vars == <<selected, registered, recorded, published>>

Requests(d) == {k[1] : k \in d}

\* One transaction: the members replace what their requests had selected.
Select(d) ==
    /\ selected' = {k \in selected : k[1] \notin Requests(d)} \cup d
    /\ registered' = registered \cup {d}
    /\ UNCHANGED recorded

Init ==
    /\ selected = {}
    /\ registered = {}
    /\ recorded = {}
    /\ published = {}

Publish(d) ==
    /\ Select(d)
    /\ published' = published \cup d

Recover(d) ==
    /\ d \in registered \cup recorded
    /\ Select(d)
    /\ UNCHANGED published

Deselect(S) ==
    /\ selected' = selected \ S
    /\ UNCHANGED <<registered, recorded, published>>

Release(d) ==
    /\ registered' = registered \ {d}
    /\ UNCHANGED <<selected, recorded, published>>

Retain(d) ==
    /\ d \in registered
    /\ recorded' = recorded \cup {d}
    /\ UNCHANGED <<selected, registered, published>>

Discard(d) ==
    /\ recorded' = recorded \ {d}
    /\ UNCHANGED <<selected, registered, published>>

Lose ==
    /\ selected' = {}
    /\ registered' = {}
    /\ UNCHANGED <<recorded, published>>

Next ==
    \/ \E d \in Dataset :
        Publish(d) \/ Recover(d) \/ Release(d) \/ Retain(d) \/ Discard(d)
    \/ \E S \in SUBSET Key : Deselect(S)
    \/ Lose

Spec == Init /\ [][Next]_vars
=============================================================================
