\* Two pages with a filter, two clicks and a form sent twice; every fault.
SPECIFICATION Spec
CONSTANTS
    k1 = k1
    k2 = k2
    q1 = q1
    q2 = q2
    a1 = a1
    a2 = a2
    NoAdmin = NoAdmin
    Admins <- MCAdmins
    Clicks <- MCClicks
    Posts <- MCPosts
    Filters = {"all", "pending", "approved"}
    Faults = {"fetch_fails", "answer_lost"}
    MaxRows = 3
    MaxFills = 2
SYMMETRY MCSymmetry
INVARIANTS
    ShowsOwnChanges
    OneRowPerForm
PROPERTIES
    PaidStaysPaid
