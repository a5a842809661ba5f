CONSTANTS
    MaxSpans = 3
    SpanLens <- MCSpanLens
    ResourceBytes = 2
    ScopeBytes = 10
    SchemaFieldBytes = 0
    batch_size = 2
    MAX_REQUEST_BYTES = 200
    EXPORT_QUEUE_BYTES = 350
    EXPORT_QUEUE_ITEMS = 1
SPECIFICATION FairSpec
INVARIANTS
    EachSpanCountedOnce
    ExportedInOrder
    AccountsExact
PROPERTIES
    LedgerSpec
    EverySpanSettles
