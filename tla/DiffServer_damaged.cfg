\* A client damages its copy or loses its dataset, the data layer lags and forgets;
\* lastMutationIDs on both sides of the last exact number.
CONSTANTS
    c1 = c1
    s1 = s1
    r1 = r1
    k1 = k1
    v1 = v1
    v2 = v2
    d1 = d1
    Clients = {c1}
    Servers = {s1}
    Requests = {r1}
    Keys = {k1}
    Values = {v1, v2}
    Dates = {d1}
    HashEntry <- ExactHash
    NoRoot = NoRoot
    MaxExact = 4
    EnableInject = FALSE
    Forms = {"good"}
    Faults = {"stale", "noLMID", "lose", "delete", "corrupt"}
    MaxLayer = 2
    MaxLMID = 7
    MaxCommits = 4
    MaxDisruptions = 2
SPECIFICATION Spec
INVARIANT TypeOK
INVARIANT ClientConsistent
PROPERTY ClientLMIDNeverDecreases
PROPERTY HeadLMIDNeverDecreases
PROPERTY PutKeepsView
