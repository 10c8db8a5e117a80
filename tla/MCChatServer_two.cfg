SPECIFICATION Spec
CONSTANTS
    Root = root
    Users = {root, u1, u2}
    Chats = {c1, c2}
    RootNickname = rootnick
    Sus = {unknown}
    Nicknames = {rootnick, unknown, n1, n2, n3}
    Texts = {hi}
    NoUser = NoUser
    NoNickname = NoNickname
    NoText = NoText
    MaxHistory = 5
SYMMETRY Symmetry
INVARIANTS
    NicknameRegistryExact
    MessageIdsContiguous
    ForeignKeysHold
    MembershipStampsSound
PROPERTIES
    AdminIsNeverReplaced
    ChatListsAreStamped
