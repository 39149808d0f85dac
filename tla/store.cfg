SPECIFICATION Spec
SYMMETRY Renaming
CONSTANTS
    orders = orders
    customers = customers
    Request = {orders, customers}
    Source = {orders, customers}
    SourceOf <- TwoSources
    Content = {1, 2}
    KeepOptions = {FALSE}
    Planner = {}
    MaxClock = 2
    MaxDatasets = 2
    MaxFaults = 1
INVARIANTS
    TypeOK
    OneActivePerRequest
    SelectedIsPublished
PROPERTIES
    RetainedInputs
    ActivatesPresentFiles
    RebuildRecovers
    ImplementsPublication
