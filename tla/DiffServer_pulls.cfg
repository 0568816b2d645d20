\* Two processes and two pulls of one client at once; answers are lost.
CONSTANTS
    c1 = c1
    s1 = s1
    s2 = s2
    r1 = r1
    r2 = r2
    k1 = k1
    v1 = v1
    d1 = d1
    Clients = {c1}
    Servers = {s1, s2}
    Requests = {r1, r2}
    Keys = {k1}
    Values = {v1}
    Dates = {d1}
    HashEntry <- ExactHash
    NoRoot = NoRoot
    MaxExact = 8
    EnableInject = FALSE
    Forms = {"good"}
    Faults = {"lose"}
    MaxLayer = 3
    MaxLMID = 1
    MaxCommits = 8
    MaxDisruptions = 0
SPECIFICATION Spec
SYMMETRY SymRequests
INVARIANT ConfirmedWasProcessed
PROPERTY ClientNeverRewinds
PROPERTY HeadNeverOlder
PROPERTY ServesObservedViews
