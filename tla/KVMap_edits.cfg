\* Every sequence of edits of a map of three keys and three values.
CONSTANTS
    k1 = k1
    k2 = k2
    k3 = k3
    v1 = v1
    v2 = v2
    v3 = v3
    Keys = {k1, k2, k3}
    Values = {v1, v2, v3}
    HashEntry <- SharedHash
SPECIFICATION Spec
INVARIANT TypeOK
INVARIANT SumIsExact
