SPECIFICATION FairSpec
CONSTANTS
    first = first
    second = second
    Worker = {first, second}
    Dbt = dbt
    Handler = handler
    Monitor = monitor
PROPERTIES
    HandlerReturns
CHECK_DEADLOCK FALSE
