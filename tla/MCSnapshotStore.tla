-------------------------- MODULE MCSnapshotStore --------------------------
(* Small instances of SnapshotStore: requests on two sources or on one.    *)
EXTENDS SnapshotStore, TLC

CONSTANTS orders, customers

TwoSources == [r \in Request |-> r]
OneSource  == [r \in Request |-> orders]

\* Renaming the two sources renames the requests with them and changes nothing else.
Renaming == Permutations({orders, customers})
=============================================================================
