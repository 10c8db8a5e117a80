SPECIFICATION PageSpec
CONSTANTS
    Root = root
    Users = {root, u1}
    Chats = {c1, c2}
    RootNickname = rootnick
    Sus = {}
    Nicknames = {rootnick, n1, n2, n3}
    Texts = {}
    NoUser = NoUser
    NoNickname = NoNickname
    NoText = NoText
    Stranger = Stranger
    Pending = Pending
    Refused = Refused
    Me = u1
    MaxHistory = 3
    MaxCalls = 2
SYMMETRY Symmetry
CONSTRAINT CallsInOrder
INVARIANTS
    ListIsTrue
