----------------------------- MODULE MCFandangoIO -----------------------------
(***************************************************************************)
(* Instances of FandangoIO for TLC: the client and the server of --client, *)
(* whose listener leaves the sender to be looked up, next to a party whose *)
(* listener names itself as the sender, as a party that watches a log      *)
(* does.                                                                   *)
(***************************************************************************)
EXTENDS FandangoIO

CONSTANTS Client, Server, Log, a, b

SelfNamed == {Log}

SenderArgs == [p \in Party |-> IF p \in SelfNamed THEN p ELSE NoSender]

ShortMessages == {<<a>>, <<a, b>>}
===============================================================================
