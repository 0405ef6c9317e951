CONSTANTS
    Client = Client
    Logger = Logger
    Control = Control
    Data = Data
    NoParty = NoParty
    Party = {Client, Logger, Control, Data}
    Fuzzer = {Client, Logger}
    Packet <- Packets
    Grammars <- BothProtocols
    SingleDerivation = FALSE
    MaxRun = 2
SPECIFICATION FairSpec
INVARIANTS HistoryIsWhatWasSaid TransmittedIsRecorded YieldsCompleteRuns NeverRejectsConforming
PROPERTIES RunEnds
CHECK_DEADLOCK FALSE
