SPECIFICATION Spec
CONSTANTS
    orders = orders
    customers = customers
    Request = {orders}
    Source = {orders, customers}
    SourceOf <- OneSource
    Content = {1}
    KeepOptions = {FALSE}
    Planner = {}
    MaxClock = 1
    MaxDatasets = 1
    MaxFaults = 1
PROPERTIES
    RefreshRepairs
