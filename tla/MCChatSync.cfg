SPECIFICATION FairSpec
CONSTANTS
    Root = root
    Users = {root, u1}
    Chats = {c1}
    RootNickname = rootnick
    Sus = {}
    Nicknames = {rootnick, n1, n2}
    Texts = {hi}
    NoUser = NoUser
    NoNickname = NoNickname
    NoText = NoText
    Stranger = Stranger
    Pending = Pending
    Refused = Refused
    Me = u1
    OpenedChat = c1
    Amount = 1
    MaxHistory = 4
    MaxCalls = 2
    MaxLost = 1
INVARIANTS
    SendersAreKnown
    ShownRunIsMaximal
    PageIsCurrentToItsHistoryId
PROPERTIES
    PageNeverGoesBack
    PageCatchesUp
