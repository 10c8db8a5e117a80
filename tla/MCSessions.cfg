SPECIFICATION Spec
CONSTANTS
    Browsers = {b1}
    Tabs = {t1, t2}
    Root = root
    Users = {root, u1}
    Passwords = {p1, p2}
    Empty = Empty
    Weak = Weak
    NoUser = NoUser
    NoPassword = NoPassword
    Idle = Idle
    Pending = Pending
    MaxTime = 3
SYMMETRY Symmetry
INVARIANTS
    SessionLasts
    CookiesAreFew
