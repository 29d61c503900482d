SPECIFICATION Spec
CONSTANTS
    Workers = {w1}
    Others = {o1}
    Events = {"updated", "retired", "left", "answer", "offer"}
    MaxEvents = 2
    MaxTraffic = 1
CHECK_DEADLOCK FALSE
INVARIANTS NeverParkedBehindOwnWork
