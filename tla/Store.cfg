SPECIFICATION SpecAny
CONSTANTS
    c1 = c1
    c2 = c2
    chat = chat
    web = web
    ann = ann
    m1 = m1
    m2 = m2
    NoUser = NoUser
    NumSessions = 2
    Clients <- TwoClients
    Convs <- ChatAndWeb
    Direct <- Web
    Users <- Ann
    Messages <- TwoMessages
    MaxRange = 2
    Kinds <- EveryKind
    Callers = {"t1", "t2"}
    People = {"ann"}
    Places = {"global", "workspace"}
    Types = {"fact"}
    MaxItems = 3
    MaxEntries = 2
    Priorities = {1, 2}
    Lengths = {1, 2}
    Listed = 1
    Header = 1
    Budget = 4
    Turns = {"t1", "t2"}
    Contents = {"digest", "report"}
    Configured = {"digest"}
SYMMETRY ClientsAndMessages
CHECK_DEADLOCK FALSE
INVARIANTS
    MemoryIsKept
    FingerprintTells
PROPERTIES
    MessagesSettle
    BindingsSettle
    ContextSettles
