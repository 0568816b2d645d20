\* Every patch between maps of three keys, in any order of the workers.
CONSTANTS
    w1 = w1
    w2 = w2
    Keys <- EscapedKeys
    Code <- ASCII
    Values <- ParsedTexts
    TextOf <- WriteJSON
    ValueIn <- ParseJSON
    Workers = {w1, w2}
SPECIFICATION FairSpec
INVARIANT TypeOK
INVARIANT PatchReachesTarget
INVARIANT EachChangeOnce
INVARIANT PatchInPathOrder
PROPERTY DiffReturns
