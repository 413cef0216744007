\* Two tabs of the web application, nothing fails.
CONSTANTS
    Platforms <- WebOnly
    Tabs = {t1, t2}
    NoTab = NoTab
    Calls = {c1, c2}
    Faults <- NoFaults
    MaxIds = 6
    MaxExpiries = 1
SPECIFICATION Spec
CHECK_DEADLOCK FALSE
INVARIANTS NoLosers
