SPECIFICATION Spec
CONSTANTS
    orders = orders
    customers = customers
    Request = {orders}
    Source = {orders, customers}
    SourceOf <- OneSource
    Content = {1, 2}
    KeepOptions = {TRUE, FALSE}
    Planner = {p1}
    MaxClock = 2
    MaxDatasets = 1
    MaxFaults = 1
INVARIANTS
    ActiveIsCommitted
    KeptStayPinned
PROPERTIES
    ImplementsPublication
