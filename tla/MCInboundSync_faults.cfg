\* One lead, every fault: the webhook path, the worker and a failsafe run together.
CONSTANTS
    NoDeal = NoDeal
    Worker = Worker
    Deals = {d1}
    Handlers = {h1}
    Runs = {c1}
    MaxAttempts = 3
    PageLimit = 1
    Faults <- AllFaults
    MaxEdits = 2
    MaxJobs = 1
    MaxRestarts = 1
SPECIFICATION FairSpec
CHECK_DEADLOCK FALSE
INVARIANTS MissedOnlyIfAbandoned
PROPERTIES GoesBackOnlyIfOvertaken ChangeReachesOrder
