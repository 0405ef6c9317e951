----------------------------- MODULE MCGenerateIo -----------------------------
(***************************************************************************)
(* Instances of GenerateIo for TLC: a protocol in which a client asks, and *)
(* a server answers over a control and a data connection, which may        *)
(* overtake each other; and one in which both may speak first.             *)
(***************************************************************************)
EXTENDS GenerateIo

CONSTANTS Client, Logger, Control, Data

pkt(s, r, nt) == [sender |-> s, recipient |-> r, nt |-> nt]

ask == pkt(Client, Control, "ask")
note == pkt(Client, Logger, "note")
quit == pkt(Client, NoParty, "quit")
ok == pkt(Control, Client, "ok")
no == pkt(Control, Client, "no")
file == pkt(Data, Client, "file")

Packets == {ask, note, quit, ok, no, file}

LockStep == {<<ask, no>>, <<ask, no, ask, no>>, <<ask, ok, file, note, quit>>,
             <<ask, ok, file, ask, file, ok>>}

BothSpeak == {<<ok, ask>>, <<ask, ok>>, <<ask, no, quit>>, <<ok, file, ask, no>>}

BothProtocols == {LockStep, BothSpeak}
===============================================================================
