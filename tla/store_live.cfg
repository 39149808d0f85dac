SPECIFICATION FairSpec
CONSTANTS
    orders = orders
    customers = customers
    Request = {orders, customers}
    Source = {orders, customers}
    SourceOf <- TwoSources
    Content = {1}
    KeepOptions = {FALSE}
    Planner = {}
    MaxClock = 2
    MaxDatasets = 2
    MaxFaults = 1
PROPERTIES
    EveryCommandEnds
