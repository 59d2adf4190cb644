SPECIFICATION AskingSpec
CONSTANTS
    i1 = i1
    i2 = i2
    i3 = i3
    t1 = t1
    p1 = p1
    p2 = p2
    ann = ann
    bob = bob
    any = any
    hers = hers
    his = his
    Interactor = {i1, i2, i3}
    Topic = {t1}
    MaxCount = 2
    Pattern = {p1, p2}
    Malformed = {}
    Match <- MCMatch
    User = {ann, bob}
    NoUser = NoUser
    Entitlement = {0, 1, 2}
    Text = {any, hers, his}
    AnyText = any
    UserMatch <- MCUserMatch
    TopicMatch <- MCTopicMatch
    HasFile = TRUE
    FileContents <- EitherFile
    CommandLine <- NoArguments
    Unreadable = Unreadable
    Packets <- SomePackets
SYMMETRY SessionsAndPatterns
CHECK_DEADLOCK FALSE
INVARIANTS
    TypeOK
    ListenersLive
    PublishersLive
    OnlyListenersNotified
    WantedInView
    DeliveryComplete
    FeedsLive
    DeliveryAuthorized
    CacheCoherent
