\* Two posts; the client and an administrator open the conversation, or one of them twice.
CONSTANTS
    Client = Client
    NoUser = NoUser
    NoPost = NoPost
    Admins = {a1}
    Posts = {p1, p2}
    Atts = {}
    PageSize = 2
    Faults <- PageFaults
    MaxOpens = 2
SPECIFICATION FairSpec
CHECK_DEADLOCK FALSE
PROPERTIES UnreadClears
