CONSTANTS
    NReaders = 1
    Kinds = {"card", "blank"}
    NoCard = NoCard
    MaxEvents = 4
    Pins <- MCPins
    SlotsPerCard = 2
    MaxVirtualSlots = 2
    MaxRetry = 1
    h1 = h1
    h2 = h2
    Handles = {h1, h2}
    NoSession = NoSession
    MaxInits = 2
    AtomicOption <- MCAtomicOption
    SessionFlags <- MCSessionFlags
SPECIFICATION Spec
CHECK_DEADLOCK FALSE
INVARIANTS
    TypeOK
    SessionsAreCounted
    LoginNeedsCard
    ReplaysCurrentLogin
PROPERTIES
    CardChangeEndsSessions
    NoticedCardIsPresented
    CancelledWaitReturns
