CONSTANTS
    Spans <- MCSpans
    capacity = 2
    ttl = 2
    Wall = {1, 2}
    MaxHooks = 4
    MaxTime = 3
SPECIFICATION Spec
INVARIANT PairsExact
PROPERTY LedgerSpec
