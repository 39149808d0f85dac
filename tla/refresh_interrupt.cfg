SPECIFICATION Spec
CONSTANTS
    orders = orders
    customers = customers
    items = items
    warehouse = warehouse
    Source = {orders, customers, items}
    Parent <- Family
    Connection = {warehouse}
    ConnectionOf <- Shared
    Workers = 2
    MaxRetries = 1
    BatchRows = {1, 2}
    RowLimit = 2
    ByteLimit = 3
INVARIANTS
    InterruptReported
CHECK_DEADLOCK FALSE
