SPECIFICATION PartsSpec
CONSTANTS
    t1 = t1
    t2 = t2
    c1 = c1
    c2 = c2
    u1 = u1
    u2 = u2
    Target <- MCTarget
    NoTarget = NoTarget
    MaxOpen = 4
    Caller <- MCCaller
    TTL = 2
    MaxEntries = 4
    MaxBytes = 3
    BodyLen = 2
    MaxEdits = 4
    Malformed <- MCMalformed
    Updater <- MCUpdater
    Startup = u1
    Attempts = 2
    MaxOffer = 2
    Length <- MCLength
    PktIDs = 2
    MaxFrags = 3
    FragTTL = 1
    MaxQueued = 1
    RingSize = 3
    MaxSeq = 7
    MapTTL = 1
    Host <- MCHost
    Addr <- MCAddr
    Site <- MCSite
    Lan <- MCLan
    GeoIPcn <- MCGeoIPcn
    builtinCN <- MCbuiltinCN
    DomainValue <- MCDomainValue
    RuleList <- MCRuleList
    Address <- MCAddress
    Name <- MCName
    PatternName <- MCPatternName
    HeadLen = 2
    NameLen = 1
    MaxData = 2
INVARIANTS
    TypeOK
    OpenIsAccounted
    BytesInOrder
    MemoryIsDisk
    DeliveredIntact
    AnswerTruthful
    TailUnbroken
    OnlyByRule
    UpstreamHandedOver
PROPERTIES
    AssociationEnds
    GoodStays
    WaitersAnswered
    HandlerEnds
    RulesCatchUp
    TargetReleased
CHECK_DEADLOCK FALSE
