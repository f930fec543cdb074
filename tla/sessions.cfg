SPECIFICATION FairSpec
CONSTANTS
    Calls = {c1, c2, c3}
    Ports = {80, 8080}
    Services = {80}
    PortPrefix <- MCPortPrefix
    MaxSessions = 2
    NoPort = 0
    NoCall = NoCall
CHECK_DEADLOCK FALSE
INVARIANTS
    IdsNameOneTunnel
    CardsFollowSessions
    StatsFollowSessions
    TunnelMatchesSession
    StopReleasesAll
PROPERTIES
    CallsSettle
    LifecycleSpec
