\* Two updates of the stage, two attempts each, syncs, a manager's change, every fault.
CONSTANTS
    Stages = {"production", "ready"}
    FirstStage = "production"
    Invalid = "invalid"
    Absent = Absent
    Percents <- NoPercents
    ManagerLeads <- SomeLeads
    Requests = {r1, r2}
    Syncers = {worker}
    MaxAttempts = 2
    Faults <- AllFaults
    MaxEdits = 1
SPECIFICATION FairSpec
CHECK_DEADLOCK FALSE
INVARIANTS TypeOK CopiesAgree TimelineIsCurrent
PROPERTIES UpdateIsPushed
