\* One device of any kind, every fault.
CONSTANTS
    Platforms <- AllPlatforms
    Tabs = {t1}
    NoTab = NoTab
    Calls = {c1, c2}
    Faults <- AllFaults
    MaxIds = 4
    MaxExpiries = 1
SPECIFICATION FairSpec
CHECK_DEADLOCK FALSE
INVARIANTS TypeOK StaysSignedIn SessionsAccounted SignedOutHasNoToken
PROPERTIES CallsEnd
