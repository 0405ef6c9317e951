------------------------------ MODULE FandangoIO ------------------------------
(***************************************************************************)
(* class FandangoIO (src/fandango/io/__init__.py): the receive buffer that *)
(* the listener threads of the parties fill and the evolution thread reads *)
(* and clears, and the restart of all parties between two protocol runs.   *)
(*                                                                         *)
(* Every access to the buffer is under receive_lock, so an access is one   *)
(* step; reset_parties, which holds the lock over several steps, takes and *)
(* releases it explicitly.  FandangoParty.receive looks the sender up      *)
(* before add_receive asks for the lock, so a delivery is two steps.       *)
(* Position i of the model is index i - 1 of the Python list.              *)
(***************************************************************************)
EXTENDS Selections

CONSTANTS Party,        \* the parties of the specification
          External,     \* those for which is_fuzzer_controlled() is False
          Listening,    \* those whose class runs a listener thread
          Stoppable,    \* those whose class overrides FandangoParty.stop()
          SenderArg,    \* SenderArg[p]: the sender p's class hands to receive()
          NoSender,     \* the sender None
          Fragment,     \* one-byte and one-character strings
          Message,      \* the byte strings and strings a listener may read
          MaxReceive,   \* bound on the length of the buffer
          MaxSession    \* bound on the number of protocol runs

ASSUME PartyAssumption ==
    /\ IsFiniteSet(Party)
    /\ External \subseteq Party /\ Listening \subseteq Party
    /\ Stoppable \subseteq Party
    /\ NoSender \notin Party
    /\ SenderArg \in [Party -> Party \cup {NoSender}]

ASSUME MessageAssumption ==
    /\ Message \subseteq Seq(Fragment)
    /\ MaxReceive \in Nat /\ MaxSession \in Nat \ {0}

VARIABLES
    receive,        \* FandangoIO.receive: list of (sender, receiver, fragment)
    receive_lock,   \* "free", or "main" while reset_parties holds it
    parties,        \* FandangoIO.parties: the names that are registered
    pc,             \* where the evolution thread is in (re)starting parties
    todo,           \* parties that its current loop has not come to yet
    session,        \* number of times the parties have been (re)created
    listener        \* listener[<<p, e>>]: the thread of p's instance of session e

vars == <<receive, receive_lock, parties, pc, todo, session, listener>>

Session == 1..MaxSession
Thread == Listening \X Session

\* An entry remembers (in a ghost field) the session its listener belongs to.
Entry == [sender : Party, receiver : Party, frag : Fragment, session : Session]

\* A listener thread: not running; between two reads; holding a message whose
\* sender it has looked up; or ended by an exception.
ListenerState ==
    [at : {"none", "idle", "dead"}]
      \cup [at : {"adding"}, sender : Party, message : Message]

TypeOK ==
    /\ receive \in Seq(Entry)
    /\ receive_lock \in {"free", "main"}
    /\ parties \subseteq Party /\ todo \subseteq Party
    /\ pc \in {"init", "run", "stopping", "clearing", "restarting", "raised"}
    /\ session \in Session
    /\ listener \in [Thread -> ListenerState]
-------------------------------------------------------------------------------
(* What the methods of FandangoIO compute from the buffer.                 *)

PositionsOf(buffer, s) == {i \in DOMAIN buffer : buffer[i].sender = s}

\* The unconsumed fragments of s, in the order they were received.
Pending(buffer, s) ==
    LET own == Select(buffer, PositionsOf(buffer, s))
    IN  [n \in DOMAIN own |-> own[n].frag]

\* Mutant: a message is stored as a whole.
EntriesUnsplit(s, p, message, e) ==
    <<[sender |-> s, receiver |-> p, frag |-> message, session |-> e]>>

Entries(s, p, message, e) ==
    [n \in DOMAIN message |->
        [sender |-> s, receiver |-> p, frag |-> message[n], session |-> e]]

\* Mutant: fragments of every sender go.
KeptOfNobody(buffer, p, i) == {k \in DOMAIN buffer : ~ (k <= i)}

Kept(buffer, p, i) == {k \in DOMAIN buffer : ~ (buffer[k].sender = p /\ k <= i)}

------------------------------------------------------------------------------
(* The listener threads.                                                   *)

\* FandangoParty.receive(): a missing sender is the only external party among
\* those registered at this moment.
Senders(p) ==
    IF SenderArg[p] # NoSender THEN {SenderArg[p]} ELSE External \cap parties

Receive(t, message) ==
    /\ listener[t].at = "idle"
    /\ Len(receive) + Len(message) <= MaxReceive
    /\ \E s \in Senders(t[1]) :
          /\ Senders(t[1]) = {s}
          /\ listener' = [listener EXCEPT ![t] =
                 [at |-> "adding", sender |-> s, message |-> message]]
    /\ UNCHANGED <<receive, receive_lock, parties, pc, todo, session>>

\* No such party, several of them, or a constructor adding to the dictionary
\* while it is searched: the exception ends the listener thread.
ReceiveRaises(t) ==
    /\ listener[t].at = "idle"
    /\ SenderArg[t[1]] = NoSender
    /\ \/ Cardinality(External \cap parties) # 1
       \/ pc \in {"init", "restarting"} /\ todo # {}
    /\ listener' = [listener EXCEPT ![t] = [at |-> "dead"]]
    /\ UNCHANGED <<receive, receive_lock, parties, pc, todo, session>>

AddReceive(t) ==
    /\ listener[t].at = "adding"
    /\ receive_lock = "free"
    /\ receive' = receive \o Entries(listener[t].sender, t[1],
                                     listener[t].message, t[2])
    /\ listener' = [listener EXCEPT ![t] = [at |-> "idle"]]
    /\ UNCHANGED <<receive_lock, parties, pc, todo, session>>
-------------------------------------------------------------------------------
(* The evolution thread: consuming what was received.                      *)

Consume(kept) ==
    /\ pc = "run"
    /\ receive' = Select(receive, kept)
    /\ UNCHANGED <<receive_lock, parties, pc, todo, session, listener>>

ClearByParty(p, i) == Consume(Kept(receive, p, i))

ClearReceivedMsg(i) == Consume(DOMAIN receive \ {i})

ClearReceivedMsgs == receive # <<>> /\ Consume({})
-------------------------------------------------------------------------------
(* The evolution thread: creating the parties and restarting them.         *)

\* One constructor call: the instance registers itself and starts listening.
CreateParty(p) ==
    /\ pc \in {"init", "restarting"}
    /\ p \in todo
    /\ todo' = todo \ {p}
    /\ parties' = parties \cup {p}
    /\ listener' = [t \in Thread |-> IF t = <<p, session>> THEN [at |-> "idle"]
                                                           ELSE listener[t]]
    /\ UNCHANGED <<receive, receive_lock, pc, session>>

\* Mutant: receive_lock stays taken.
PartiesCreatedLocked ==
    /\ pc \in {"init", "restarting"}
    /\ todo = {}
    /\ pc' = "run"
    /\ UNCHANGED <<receive, receive_lock, parties, todo, session, listener>>

\* All instances exist (and reset_parties, if it was it, leaves the lock).
PartiesCreated ==
    /\ pc \in {"init", "restarting"}
    /\ todo = {}
    /\ pc' = "run"
    /\ receive_lock' = "free"
    /\ UNCHANGED <<receive, parties, todo, session, listener>>

\* Mutant: receive_lock is taken for all of reset_parties.
ResetPartiesLocked ==
    /\ pc = "run"
    /\ session < MaxSession
    /\ receive_lock = "free" /\ receive_lock' = "main"
    /\ pc' = "stopping"
    /\ todo' = parties
    /\ UNCHANGED <<receive, parties, session, listener>>

ResetParties ==
    /\ pc = "run"
    /\ session < MaxSession
    /\ pc' = "stopping"
    /\ todo' = parties
    /\ UNCHANGED <<receive, receive_lock, parties, session, listener>>

\* Mutant: stop() does not end the listener.
StopPartyDetached(p) ==
    /\ pc = "stopping"
    /\ p \in todo
    /\ todo' = todo \ {p}
    /\ UNCHANGED <<receive, receive_lock, parties, pc, session, listener>>

\* party.stop() joins the listener thread, which finishes an add_receive it has
\* begun.  FandangoParty.stop() itself only raises NotImplementedError.
StopParty(p) ==
    /\ pc = "stopping"
    /\ p \in todo
    /\ todo' = todo \ {p}
    /\ IF p \in Stoppable
       THEN /\ p \in Listening => listener[<<p, session>>].at # "adding"
            /\ listener' = [t \in Thread |-> IF t = <<p, session>>
                                             THEN [at |-> "none"]
                                             ELSE listener[t]]
            /\ pc' = pc
       ELSE /\ pc' = "raised"
            /\ listener' = listener
    /\ UNCHANGED <<receive, receive_lock, parties, session>>

\* self.parties.clear()
ForgetParties ==
    /\ pc = "stopping"
    /\ todo = {}
    /\ pc' = "clearing"
    /\ todo' = parties
    /\ parties' = {}
    /\ UNCHANGED <<receive, receive_lock, session, listener>>

\* with self.receive_lock: self.receive.clear(), and the first constructor next
ClearForRestart ==
    /\ pc = "clearing"
    /\ receive_lock = "free"
    /\ receive_lock' = "main"
    /\ receive' = <<>>
    /\ session' = session + 1
    /\ pc' = "restarting"
    /\ UNCHANGED <<parties, todo, listener>>
-------------------------------------------------------------------------------
Init ==
    /\ receive = <<>>
    /\ receive_lock = "free"
    /\ parties = {}
    /\ pc = "init"
    /\ todo = Party
    /\ session = 1
    /\ listener = [t \in Thread |-> [at |-> "none"]]

ListenerStep ==
    \E t \in Thread :
        \/ \E message \in Message : Receive(t, message)
        \/ ReceiveRaises(t)
        \/ AddReceive(t)

RestartStep ==
    \/ \E p \in Party : CreateParty(p) \/ StopParty(p)
    \/ PartiesCreated \/ ForgetParties \/ ClearForRestart

ConsumeStep ==
    \/ \E p \in Party, i \in 1..Len(receive) : ClearByParty(p, i)
    \/ \E i \in 1..Len(receive) : ClearReceivedMsg(i)
    \/ ClearReceivedMsgs

Next == ListenerStep \/ ConsumeStep \/ ResetParties \/ RestartStep

Spec == Init /\ [][Next]_vars

\* A (re)start that has begun goes on, and a listener that has read a message
\* hands it over: neither waits for anything but the other.
FairSpec ==
    /\ Spec
    /\ WF_vars(RestartStep)
    /\ \A t \in Thread : WF_vars(AddReceive(t))
-------------------------------------------------------------------------------
(* Properties.                                                             *)

\* Fragments of an earlier protocol run never reach a later one: a listener of
\* the old run can neither leave anything in the buffer that reset_parties
\* clears nor add to it afterwards.
SessionIsolation ==
    /\ \A i \in DOMAIN receive : receive[i].session = session
    /\ \A t \in Thread : listener[t].at \in {"idle", "adding"} => t[2] = session

\* The buffer behaves as one FIFO queue per sender, although listeners
\* interleave their messages in one list and positions shift when it is
\* cleared.
PendingQueues == [s \in Party |-> Pending(receive, s)]
Queues == INSTANCE PartyQueues WITH queue <- PendingQueues
ImplementsQueues == Queues!Spec

\* reset_parties() always comes to an end: joining the listeners and taking
\* receive_lock never wait for each other.
ResetEnds == pc = "stopping" ~> pc = "run"

\* A message whose sender is known reaches the buffer.
DeliveryEnds ==
    \A t \in Thread : listener[t].at = "adding" ~> listener[t].at # "adding"
===============================================================================
