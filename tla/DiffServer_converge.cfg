\* A client that keeps pulling, with two pulls at once, catches up.
CONSTANTS
    c1 = c1
    s1 = s1
    r1 = r1
    r2 = r2
    k1 = k1
    v1 = v1
    d1 = d1
    Clients = {c1}
    Servers = {s1}
    Requests = {r1, r2}
    Keys = {k1}
    Values = {v1}
    Dates = {d1}
    HashEntry <- ExactHash
    NoRoot = NoRoot
    MaxExact = 8
    EnableInject = FALSE
    Forms = {"good"}
    Faults = {"lose", "panic", "crash", "delete"}
    MaxLayer = 2
    MaxLMID = 1
    MaxCommits = 8
    MaxDisruptions = 1
SPECIFICATION FairSpec
PROPERTY Converges
