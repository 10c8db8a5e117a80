SPECIFICATION PageSpec
CONSTANTS
    Root = root
    Users = {root, u1}
    Chats = {c1}
    RootNickname = rootnick
    Sus = {}
    Nicknames = {rootnick, n1, n2}
    Texts = {}
    NoUser = NoUser
    NoNickname = NoNickname
    NoText = NoText
    Stranger = Stranger
    Pending = Pending
    Refused = Refused
    Me = u1
    OpenedChat = c1
    MaxHistory = 7
    MaxCalls = 2
SYMMETRY Symmetry
INVARIANTS
    NobodyIsMissing
    BoxesAreTrueAtFirst
    KickButtonsAgree
