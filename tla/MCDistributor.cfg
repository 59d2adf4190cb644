SPECIFICATION Spec
CONSTANTS
    ann = ann
    bob = bob
    secret = secret
    Client = {ann, bob}
    Password = {secret}
    HasPasswordFile = TRUE
    PasswordFiles <- OneFile
    BadFile = BadFile
    Fd = {4, 5}
    Listener = 3
    NoUser = NoUser
    MaxConnections = 2
    MaxMessages = 2
CHECK_DEADLOCK FALSE
INVARIANTS
    TypeOK
    DescriptorsOwned
    SessionsOwned
    HubTold
    OnlyGrantedTold
    HupHonoured
    AuthorizationsFollow
PROPERTIES
    HupHandled
    GoneForgotten
