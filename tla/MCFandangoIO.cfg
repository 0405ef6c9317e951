CONSTANTS
    Client = Client
    Server = Server
    Log = Log
    a = a
    b = b
    NoSender = NoSender
    Party = {Client, Server, Log}
    External = {Server}
    Listening = {Client, Log}
    Stoppable = {Client, Server, Log}
    SenderArg <- SenderArgs
    Fragment = {a, b}
    Message <- ShortMessages
    MaxReceive = 3
    MaxSession = 3
SPECIFICATION FairSpec
INVARIANTS TypeOK SessionIsolation
PROPERTIES ImplementsQueues ResetEnds DeliveryEnds
CHECK_DEADLOCK FALSE
