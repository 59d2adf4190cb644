SPECIFICATION Spec
CONSTANTS
    IntRange = 4194304
    Command <- Lines
    Fragment <- Parts
    Spelling <- Users
    Option <- Options
    MaxLines = 2
    MaxParts = 2
    Accounts <- File
    Malformed <- BadPatterns
    HubMessage <- HubMessages
    MaxForwarded = 1
    Sample <- Samples
    Text <- Octets
CHECK_DEADLOCK FALSE
INVARIANTS
    TypeOK
    Agreement
    CommandsConveyed
    MessagesHeard
    MessagesReadBack
    TokensExact
PROPERTIES
    
    Settled
