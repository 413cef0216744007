\* One tab, its list of two pages, one update, a manager's change, failing requests.
CONSTANTS
    Stages = {"production", "ready"}
    FirstStage = "production"
    Invalid = "invalid"
    Absent = Absent
    Percents = {0, 100}
    ManagerLeads <- SomeLeads
    Requests = {r1}
    Syncers = {worker}
    MaxAttempts = 1
    Faults <- NoFaults
    MaxEdits = 1
    Others = 1
    PageSize = 1
    PageFaults <- AllPageFaults
SPECIFICATION PagesSpec
INVARIANTS PagesTypeOK FoundWhatMatches
PROPERTIES UndoesOnlyUnseen TypedIsKept
