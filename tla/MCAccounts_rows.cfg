\* Two syncs, a login and an insert beside the profile screen, two at once; every fault.
SPECIFICATION Spec
CONSTANTS
    s1 = s1
    s2 = s2
    c1 = c1
    c2 = c2
    Syncers <- MCSyncers
    Contacts <- MCContacts
    CrmStarts <- MCStarts
    Platforms = {"web", "android", "ios"}
    Faults = {"call_lost", "sync_fails", "session_ends", "erase_fails"}
    MaxRows = 3
    MaxEdits = 1
    MaxBusy = 2
SYMMETRY MCSymmetry
INVARIANTS
    TypeOK
    DeletedStaysDeleted
    SyncRefusedOnlyIf
    ClientFindsOrder
    GoneWhenSignedOut
