SPECIFICATION Spec
CONSTANTS
    Calls = {c1, c2, c3}
    Ports = {80, 8080}
    Services = {80}
    PortPrefix <- MCPortPrefix
    MaxSessions = 2
    NoPort = 0
    NoCall = NoCall
CHECK_DEADLOCK FALSE
PROPERTY
    BindFailureIsContained
