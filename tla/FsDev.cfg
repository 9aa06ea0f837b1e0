SPECIFICATION Spec
CONSTANTS
    Roles = {"bulk_out", "bulk_in", "interrupt_in", "control"}
    MaxPackets = 8
    MaxConfigs = 4
INVARIANTS
    Inv
PROPERTIES
    AtomicEffect
    Delivered
CHECK_DEADLOCK FALSE
