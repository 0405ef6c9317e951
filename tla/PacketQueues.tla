----------------------------- MODULE PacketQueues -----------------------------
(***************************************************************************)
(* What parse_next_remote_packet promises its caller: it is told which     *)
(* parties may speak next and with which packet types, and hands over a    *)
(* packet of one of these types, made of the oldest unconsumed fragments   *)
(* of its sender; these fragments and no others are consumed.  Messages    *)
(* may arrive at any moment while it works.                                *)
(***************************************************************************)
EXTENDS Integers, Sequences

CONSTANTS Party,       \* names under which messages are received
          Message,     \* sequences of fragments that may arrive at once
          Forecasts,   \* forecasts: functions from parties to packet types
          Derivable    \* Derivable[nt]: the texts that are packets of type nt

VARIABLES queue,       \* queue[s]: unconsumed fragments of s, oldest first
          forecast,    \* what the caller has asked for
          packet       \* the packet last handed over

Nothing == [kind |-> "nothing"]

Init ==
    /\ queue = [s \in Party |-> <<>>]
    /\ forecast \in Forecasts
    /\ packet = Nothing

Arrive(s, message) ==
    /\ queue' = [queue EXCEPT ![s] = queue[s] \o message]
    /\ UNCHANGED <<forecast, packet>>

Ask(f) ==
    /\ forecast' = f
    /\ packet' = Nothing
    /\ UNCHANGED queue

Deliver(s, nt, n) ==
    /\ packet = Nothing
    /\ nt \in forecast[s]
    /\ SubSeq(queue[s], 1, n) \in Derivable[nt]
    /\ packet' = [kind |-> "packet", sender |-> s, nt |-> nt,
                  text |-> SubSeq(queue[s], 1, n)]
    /\ queue' = [queue EXCEPT ![s] = SubSeq(queue[s], n + 1, Len(queue[s]))]
    /\ UNCHANGED forecast

Next ==
    \/ \E s \in Party, message \in Message : Arrive(s, message)
    \/ \E f \in Forecasts : Ask(f)
    \/ \E s \in DOMAIN forecast : \E nt \in forecast[s], n \in 1..Len(queue[s]) :
          Deliver(s, nt, n)

Spec == Init /\ [][Next]_<<queue, forecast, packet>>
===============================================================================
