\* Two pulls share an account.DB; the host limit.
CONSTANTS
    h1 = h1
    h2 = h2
    p1 = p1
    p2 = p2
    r1 = r1
    r2 = r2
    u1 = u1
    u2 = u2
    Processes = {p1}
    Pulls = {r1, r2}
    Signups = {u1}
    ProcessOf <- SharedProcess
    Asks <- AnyOfTwo
    Hosts = {h1, h2}
    LowestASID = 1
    RegularAccounts <- Regular
    MaxASClientViewHosts = 1
    NoHead = NoHead
    NoHost = NoHost
    MaxASID = 1
    MaxStart = 1
SPECIFICATION Spec
INVARIANT HostLimit
