\* Two processes, with one pull each, and two signups.
CONSTANTS
    h1 = h1
    h2 = h2
    p1 = p1
    p2 = p2
    r1 = r1
    r2 = r2
    u1 = u1
    u2 = u2
    Processes = {p1, p2}
    Pulls = {r1, r2}
    Signups = {u1, u2}
    ProcessOf <- OwnProcess
    Asks <- OneHostEach
    Hosts = {h1, h2}
    LowestASID = 1
    RegularAccounts <- Regular
    MaxASClientViewHosts = 1
    NoHead = NoHead
    NoHost = NoHost
    MaxASID = 2
    MaxStart = 1
SPECIFICATION Spec
SYMMETRY SymSignups
INVARIANT TypeOK
INVARIANT HostsStayLimited
INVARIANT ConflictsAreReal
INVARIANT SignupsLast
INVARIANT IDsAreUnique
PROPERTY WritesFollowReads
PROPERTY ImplementsRegistry
