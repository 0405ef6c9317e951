----------------------------- MODULE PartyQueues -----------------------------
(***************************************************************************)
(* What FandangoIO promises its clients: for every party one FIFO queue of *)
(* the fragments that party has sent and nobody has consumed yet.  A       *)
(* message of one party never disturbs the queue of another, whichever     *)
(* threads deliver and whichever order they deliver in.                    *)
(***************************************************************************)
EXTENDS Integers, Sequences

CONSTANTS Party,     \* names under which messages are received
          Message    \* sequences of fragments that may arrive at once

VARIABLE queue       \* queue[s]: unconsumed fragments of s, oldest first

Init == queue = [s \in Party |-> <<>>]

Arrive(s, message) ==
    queue' = [queue EXCEPT ![s] = queue[s] \o message]

\* The oldest n fragments of s have become part of a parsed packet.
Take(s, n) ==
    /\ n \in 0..Len(queue[s])
    /\ queue' = [queue EXCEPT ![s] = SubSeq(queue[s], n + 1, Len(queue[s]))]

\* One fragment of s, the n-th oldest, is discarded.
Forget(s, n) ==
    /\ n \in 1..Len(queue[s])
    /\ queue' = [queue EXCEPT ![s] = SubSeq(queue[s], 1, n - 1)
                                     \o SubSeq(queue[s], n + 1, Len(queue[s]))]

ForgetAll == queue' = [s \in Party |-> <<>>]

Next ==
    \/ \E s \in Party, message \in Message : Arrive(s, message)
    \/ \E s \in Party : \E n \in 0..Len(queue[s]) : Take(s, n) \/ Forget(s, n)
    \/ ForgetAll

Spec == Init /\ [][Next]_queue
===============================================================================
