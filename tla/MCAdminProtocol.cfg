SPECIFICATION FairSpec
CONSTANTS
    Texts <- MCTexts
    Reply <- MCReply
    admin_to_server_ms <- MCMs1
    server_to_admin_ms <- MCMs2
    Base = 4
    SizeBytes = 2
    Weight <- MCWeight
    MaxBody = 6
    SendChunk = 3
    Window = 4
    NoOutput = NoOutput
    Failure = Failure
INVARIANTS ReadsTextToTheEnd
PROPERTIES ExchangeIsOneCall ToolComesBack
