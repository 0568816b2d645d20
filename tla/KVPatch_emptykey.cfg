\* A map may have the empty key.
CONSTANTS
    w1 = w1
    w2 = w2
    Keys <- WithEmptyKey
    Code <- ASCII
    Values <- ParsedTexts
    TextOf <- WriteJSON
    ValueIn <- ParseJSON
    Workers = {w1, w2}
SPECIFICATION Spec
INVARIANT PatchReachesTarget
