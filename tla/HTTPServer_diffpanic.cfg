\* A goroutine of kv.Diff panics beside another request.
CONSTANTS
    r1 = r1
    r2 = r2
    Requests = {r1, r2}
    Dumps <- OneDump
    Filters <- NoFilters
    Listed <- AllowedLines
    MaxBody = 7
    ResponseText <- LongText
    ErrorText <- ShortText
    MaxLives = 2
SPECIFICATION Spec
SYMMETRY Symmetry
CHECK_DEADLOCK FALSE
INVARIANT PanicsAre500s
