\* Three posts, one file, one conversation with a page of two; every fault.
CONSTANTS
    Client = Client
    NoUser = NoUser
    NoPost = NoPost
    Admins = {a1}
    Posts = {p1, p2, p3}
    Atts = {f1}
    PageSize = 2
    Faults <- AllFaults
    MaxOpens = 1
SPECIFICATION Spec
CHECK_DEADLOCK FALSE
SYMMETRY Symmetry
INVARIANTS AttachmentsAddUp AttachedOnce ReadWasSeen
