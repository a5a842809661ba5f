CONSTANTS
    Conns = {c1, c2}
    Sizes = {1}
    max_connections = 2
    payload_budget_bytes = 1
    max_frame_bytes = 1
    EventSlots = 1
    ControlSlots = 1

SPECIFICATION DaemonFairSpec
INVARIANT IngressReconciles
PROPERTY ShutdownRequestHonoured
