---------------------------- MODULE MCSocketParty ----------------------------
(***************************************************************************)
(* Instances of SocketParty for TLC: servers and clients, over TCP and     *)
(* UDP, that are stopped before they are started again, as                 *)
(* FandangoIO.reset_parties() does, with peers that may be absent at first.*)
(* One of the messages is longer than the buffer for datagrams, which      *)
(* leaves of it what is also a message of its own.                         *)
(***************************************************************************)
EXTENDS SocketParty

CONSTANTS m1, m2, long, none

CutLong == [m \in Message |-> IF m = long THEN m1 ELSE m]
=============================================================================
