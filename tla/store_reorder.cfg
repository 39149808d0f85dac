SPECIFICATION Spec
SYMMETRY Renaming
CONSTANTS
    orders = orders
    customers = customers
    Request = {orders, customers}
    Source = {orders, customers}
    SourceOf <- TwoSources
    Content = {1, 2}
    KeepOptions = {FALSE}
    Planner = {}
    MaxClock = 3
    MaxDatasets = 3
    MaxFaults = 0
PROPERTIES
    RebuildKeepsSelection
