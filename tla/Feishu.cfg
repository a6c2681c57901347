SPECIFICATION SpecSome
CONSTANTS
    user = user
    app = app
    chat = chat
    NoTask = NoTask
    Turns <- ThreeTurns
    Keys <- TwoMessages
    KeyOf <- OwnKeys
    RetryLimit = 1
    Messages <- TwoMessages
    Parts <- OneOrTwoParts
    Copies <- TwoOrOneCopies
    Guarded <- App
    Chats <- OneChat
    ChatOf <- SameChat
    TextOf <- OwnTexts
    Workers = 2
    ReconnectCount = 1
CHECK_DEADLOCK FALSE
INVARIANTS
    AnsweredOnce
    NoAnswerVanishes
PROPERTIES
    ServiceGoesOn
