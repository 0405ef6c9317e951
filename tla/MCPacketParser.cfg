CONSTANTS
    ClientControl = ClientControl
    ServerControl = ServerControl
    ClientData = ClientData
    ServerData = ServerData
    a = a
    b = b
    Short = Short
    Long = Long
    Data = Data
    NoSender = NoSender
    Party = {ClientControl, ServerControl, ClientData, ServerData}
    External = {ServerControl, ServerData}
    Listening = {ClientControl, ClientData}
    Stoppable = {ClientControl, ServerControl, ClientData, ServerData}
    SenderArg <- FtpSenders
    Fragment = {a, b}
    Message <- ShortMessages
    NT = {Short, Long, Data}
    Lang <- Accepted
    Derivable <- WithSources
    Forecasts <- ControlOrBoth
    MaxReceive = 4
    MaxSession = 1
SPECIFICATION ParserFairSpec
INVARIANTS FailureJustified
PROPERTIES ImplementsPackets TakesLongest ParseEnds
CHECK_DEADLOCK FALSE
