SPECIFICATION FairSpec
CONSTANTS
    first = first
    second = second
    Worker = {first, second}
    Dbt = dbt
    Handler = handler
    Monitor = monitor
INVARIANTS
    TypeOK
    NoneForgotten
    CalledOnce
PROPERTIES
    CancelStopsDbt
    ImplementsToken
CHECK_DEADLOCK FALSE
