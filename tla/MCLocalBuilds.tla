---------------------------- MODULE MCLocalBuilds ----------------------------
(* Two sources, the second in a catalog of its own; a table that reads the *)
(* first, and an incremental table that reads the second and the table.    *)
EXTENDS LocalBuilds, TLC

CONSTANTS raw, ref, stage, mart, d1, d2

MCReads == stage :> {raw} @@ mart :> {ref}
MCParents == stage :> {} @@ mart :> {stage}
MCUpstream == stage :> {raw} @@ mart :> {raw, ref}

Ask(kind, models, full, capture) ==
    [kind |-> kind, models |-> models, full |-> full, capture |-> capture,
     frozen |-> NoDataset, of |-> NoRun]

\* A sync; a build of everything, upon what is there or from nothing; a rebuild of one model
\* on the other.
MCCommand == {Ask("sync", {stage, mart}, FALSE, FALSE),
              Ask("build", {stage, mart}, FALSE, TRUE),
              Ask("build", {stage, mart}, TRUE, TRUE),
              Ask("build", {mart}, TRUE, FALSE)}

MCSelection == {{stage, mart}}

DatasetSymmetry == Permutations(Dataset)
=============================================================================
