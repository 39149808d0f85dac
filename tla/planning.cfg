CONSTANTS
    raw = raw
    ref = ref
    a = a
    b = b
    c = c
    orders = orders
    lines = lines
    notes = notes
    s1 = s1
    s2 = s2
    k1 = k1
    k2 = k2
    Node <- MCNode
    Plan <- MCPlan
    Plans = {p1, p2, p3}
    Key = {f1}
    Absent = Absent
    Torn = Torn
    Broken = Broken
    NoPlan = NoPlan
    MaxParses = 4
    Item <- MCItem
    Snapshot <- MCSnapshot
    NoItem = NoItem
    NoSnapshot = NoSnapshot
    NoLimit = NoLimit
    Cap <- MCCap
    Question <- MCQuestion

SPECIFICATION MCSpec

INVARIANTS
    WalkIsExact
    ReadsAreProvided
    OnlyReadsAreRequired
    RestoredIsWhole
    OfflineNeverRefreshes
    AdmittedByPolicy
    CohortFollowsParent

CHECK_DEADLOCK FALSE
