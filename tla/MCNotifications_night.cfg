\* Two requests around a night, one device, every fault.
CONSTANTS
    Stages = {"production", "check", "ready_for_delivery"}
    Ready = "ready_for_delivery"
    Percents = {50, 90}
    FirstRow <- Production
    Absent = Absent
    Inputs <- SomeInputs
    Requests = {r1, r2}
    Devices = {d1}
    Phone = Phone
    Instants <- AroundTheNight
    MaxAttempts = 2
    Faults <- AllFaults
    MaxSyncs = 0
    MaxRestarts = 0
SPECIFICATION Spec
CHECK_DEADLOCK FALSE
SYMMETRY Symmetry
INVARIANTS LastWordIsCurrent
PROPERTIES NightIsQuiet
