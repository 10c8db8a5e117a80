SPECIFICATION CallSpec
CONSTANTS
    Pad = Pad
    Error = Error
    Foreign = Foreign
    Blank = Blank
    Backslash = Backslash
    Plain = Plain
    en = en
    ru = ru
    US = US
    GB = GB
    NotYet = NotYet
    Colon = Colon
    Slash = Slash
    Nul = Nul
    Refused = Refused
    Thrown = Thrown
    SunPath = 2
    White = White
    Semicolon = Semicolon
    Underscore = Underscore
    QuoteMark = QuoteMark
    AddressTexts <- MCAddressTexts
    Addresses <- MCAddresses
    Forms <- MCForms
    Jars <- MCJars
    Pages <- MCPages
    PageFrom <- RenderedPage
    Sources <- MCSources
    Encodings <- MCEncodings
    Words <- MCWords
    MaxFields = 4
    Ranges <- MCRanges
    Directories <- MCDirectories
    Whitelists <- MCWhitelists
    Orders <- MCOrders
    Headers <- MCHeaders
INVARIANTS
    Base64IsExact
    FieldsAreRead
    OrderIsForced
    AnswerIsAsked
    AddressesRoundTrip
    FormsAreRead
    CookiesAreRead
    PageIsRendered
