\* Handlers panic and crash, answers, datasets and the store are lost, views injected.
CONSTANTS
    c1 = c1
    s1 = s1
    r1 = r1
    r2 = r2
    k1 = k1
    v1 = v1
    d1 = d1
    d2 = d2
    Clients = {c1}
    Servers = {s1}
    Requests = {r1, r2}
    Keys = {k1}
    Values = {v1}
    Dates = {d1, d2}
    HashEntry <- ExactHash
    NoRoot = NoRoot
    MaxExact = 8
    EnableInject = TRUE
    Forms = {"good", "early", "late"}
    Faults = {"lose", "panic", "crash", "delete", "coldstart"}
    MaxLayer = 1
    MaxLMID = 1
    MaxCommits = 2
    MaxDisruptions = 2
SPECIFICATION Spec
SYMMETRY SymRequestsAndDates
INVARIANT ClientConsistent
PROPERTY ClientLMIDNeverDecreases
PROPERTY ChecksumsAgree
PROPERTY ClientNeverRewinds
