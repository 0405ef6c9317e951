----------------------------- MODULE MCPacketParser -----------------------------
(***************************************************************************)
(* Instances of PacketParser for TLC: the control and the data connection  *)
(* of an FTP client.  Types of one party share prefixes, one accepts a     *)
(* text from which its sources cannot be derived, and forecasts name one   *)
(* party or both.                                                          *)
(***************************************************************************)
EXTENDS PacketParser, TLC

CONSTANTS ClientControl, ServerControl, ClientData, ServerData, a, b,
          Short, Long, Data

FtpSenders == [p \in Party |-> IF p = ClientControl THEN ServerControl
                               ELSE IF p = ClientData THEN ServerData
                               ELSE NoSender]

ShortMessages == {<<a>>, <<a, b>>}

Accepted == [nt \in NT |-> CASE nt = Short -> {<<a>>}
                             [] nt = Long  -> {<<a, b>>, <<a, b, a>>}
                             [] nt = Data  -> {<<a>>, <<a, a>>}]

WithSources == [Accepted EXCEPT ![Long] = {<<a, b>>}]

ControlOrBoth == {ServerControl :> {Short, Long},
                  ServerControl :> {Long} @@ ServerData :> {Data}}
===============================================================================
