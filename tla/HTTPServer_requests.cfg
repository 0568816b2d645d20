\* Two requests of any kind at once, over two lives of the process.
CONSTANTS
    r1 = r1
    r2 = r2
    Requests = {r1, r2}
    Dumps <- AskedDumps
    Filters <- Installed
    Listed <- AllowedLines
    MaxBody = 7
    ResponseText <- LongText
    ErrorText <- ShortText
    MaxLives = 2
SPECIFICATION Spec
SYMMETRY Symmetry
CHECK_DEADLOCK FALSE
INVARIANT TypeOK
INVARIANT RidsTellRequestsApart
INVARIANT PullsAreLogged
INVARIANT LoggedIsSent
INVARIANT StatusTellsOutcome
INVARIANT RequestsAreTrimmed
