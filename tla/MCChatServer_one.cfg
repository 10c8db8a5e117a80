SPECIFICATION Spec
CONSTANTS
    Root = root
    Users = {root, u1, u2}
    Chats = {c1}
    RootNickname = rootnick
    Sus = {unknown}
    Nicknames = {rootnick, unknown, n1, n2, n3}
    Texts = {hi}
    NoUser = NoUser
    NoNickname = NoNickname
    NoText = NoText
    MaxHistory = 8
SYMMETRY Symmetry
INVARIANTS
    TrailMatchesMembership
    TrailJustifiesMessages
PROPERTIES
    ChatLogsAreStamped
