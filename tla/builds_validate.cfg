SPECIFICATION Spec
CONSTANTS
    Run = {1, 2, 3}
    raw = raw
    ref = ref
    stage = stage
    mart = mart
    d1 = d1
    d2 = d2
    Source = {raw, ref}
    Model = {stage, mart}
    Dataset = {d1, d2}
    Reads <- MCReads
    Parents <- MCParents
    Upstream <- MCUpstream
    Incremental = {mart}
    Attached = {ref}
    Command <- MCCommand
    Selection <- MCSelection
    Synced = {d1, d2}
    MaxCommands = 2
    MaxFaults = 0
    MaxRemovals = 1
    Main = Main
    NoRun = NoRun
    NoDataset = NoDataset
SYMMETRY DatasetSymmetry
CHECK_DEADLOCK FALSE
PROPERTIES
    ReportIsAlwaysIncremental
