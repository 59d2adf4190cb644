SPECIFICATION LedgerSpec
CONSTANTS
    i1 = i1
    i2 = i2
    i3 = i3
    t1 = t1
    p1 = p1
    p2 = p2
    ann = ann
    bob = bob
    any = any
    hers = hers
    his = his
    Interactor = {i1, i2, i3}
    Topic = {t1}
    MaxCount = 1
    Pattern = {p1, p2}
    Malformed = {}
    Match <- MCMatch
    User = {ann}
    NoUser = NoUser
    Entitlement = {0}
    Text = {any}
    AnyText = any
    UserMatch <- OneUserMatch
    TopicMatch <- MCTopicMatch
    HasFile = FALSE
    FileContents <- OnlyDefault
    CommandLine <- NoArguments
    Unreadable = Unreadable
    Packets = {}
SYMMETRY SessionsAndPatterns
CHECK_DEADLOCK FALSE
INVARIANTS
    ListenersNotified
