\* One request, one device, three attempts, a sync and a restart.
CONSTANTS
    Stages = {"production", "check", "ready_for_delivery"}
    Ready = "ready_for_delivery"
    Percents = {50, 90}
    FirstRow <- Production
    Absent = Absent
    Inputs <- SomeInputs
    Requests = {r1}
    Devices = {d1}
    Phone = Phone
    Instants <- WithTheMorning
    MaxAttempts = 3
    Faults <- AllFaults
    MaxSyncs = 1
    MaxRestarts = 1
SPECIFICATION FairSpec
CHECK_DEADLOCK FALSE
INVARIANTS RepeatsOnlyAfterFailure
PROPERTIES DueIsDispatched
