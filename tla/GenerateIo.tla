------------------------------- MODULE GenerateIo -------------------------------
(***************************************************************************)
(* Fandango._generate_io() (src/fandango/evolution/algorithm/simple.py):   *)
(* the main loop of protocol testing.  It forecasts which packets may come *)
(* next, evolves and transmits a packet when a party of its own may speak  *)
(* and nothing has been received, parses and checks a received packet      *)
(* otherwise, and starts a new protocol run when one is complete.  Remote  *)
(* parties act at any moment, also while a packet is being evolved.        *)
(*                                                                         *)
(* A packet stands for its derivation tree, a derivation tree for the      *)
(* packets it consists of, and the grammar for the runs it allows.         *)
(* Parsing fragments into packets is PacketParser, the buffer and the      *)
(* restart of the parties is FandangoIO.                                   *)
(***************************************************************************)
EXTENDS Selections

CONSTANTS Party,            \* the parties of the specification
          Fuzzer,           \* those for which is_fuzzer_controlled() is True
          NoParty,          \* the recipient None
          Packet,           \* [sender, recipient, nt]
          Grammars,         \* each a set of complete runs: sequences of packets
          SingleDerivation, \* coverage_goal == SINGLE_DERIVATION
          MaxRun            \* bound on the protocol runs that are asked for

External == Party \ Fuzzer

ASSUME ProtocolAssumption ==
    /\ Fuzzer \subseteq Party /\ NoParty \notin Party
    /\ \A p \in Packet : p.sender \in Party /\ p.recipient \in Party \cup {NoParty}
    /\ \A runs \in Grammars : runs \subseteq Seq(Packet) \ {<<>>} /\ runs # {}
    /\ SingleDerivation \in BOOLEAN /\ MaxRun \in Nat

VARIABLES
    grammar,        \* the protocol runs of the specification that is tested
    bounded,        \* whether max_generations is a number and not None
    pc,             \* where the loop is
    error,          \* why it has raised, or "none"
    history,        \* history_tree: the packets of this run
    past,           \* past_io_derivations: the runs that were yielded
    guide_to_end,   \* PacketSelector._guide_to_end
    next_packet,    \* <<the packet just evolved or parsed>>, or <<>>
    buffer,         \* FandangoIO.receive
    channel,        \* channel[s]: sent by remote party s and not yet received
    wire,           \* what the parties of this run have sent, in that order
    transmitted     \* what io_instance.transmit() was called with in this run

vars == <<grammar, bounded, pc, error, history, past, guide_to_end, next_packet, buffer,
          channel, wire, transmitted>>
remote == <<grammar, bounded, buffer, channel, wire, transmitted>>

TypeOK ==
    /\ grammar \in Grammars /\ bounded \in BOOLEAN
    /\ pc \in {"compute", "turn", "generating", "fallback", "generated", "transmitting",
               "sent", "waiting", "parsing", "hookin", "complete", "yielded", "done",
               "raised"}
    /\ error \in {"none", "no forecast", "no solution", "transmit", "timeout",
                  "unexpected party", "unparsable", "constraints"}
    /\ history \in Seq(Packet) /\ past \in Seq(grammar)
    /\ guide_to_end \in BOOLEAN
    /\ next_packet \in Seq(Packet)
    /\ buffer \in Seq(Packet) /\ channel \in [External -> Seq(Packet)]
    /\ wire \in Seq(Packet) /\ transmitted \in Seq(Packet)
-------------------------------------------------------------------------------
(* PacketForecaster.predict(), PacketSelector                              *)

\* The packets that may follow a run that has got as far as h.
ForecastOf(h) ==
    {p \in Packet : \E run \in grammar :
        Len(h) < Len(run) /\ SubSeq(run, 1, Len(h) + 1) = Append(h, p)}

Forecast == ForecastOf(history)
NextParties == {p.sender : p \in Forecast}

IsComplete == history \in grammar

\* is_guide_to_end() computes the flag anew only when a party of Fandango may
\* speak; else it returns what it was.
GuideChoices == IF NextParties \cap Fuzzer = {} THEN {guide_to_end} ELSE BOOLEAN

\* recipient is None or not fuzzer-controlled
LeavesFandango(p) == p.recipient \notin Fuzzer
-------------------------------------------------------------------------------
(* The loop.                                                               *)

Raise(reason) == pc' = "raised" /\ error' = reason
Goto(label) == pc' = label /\ error' = error

\* Mutant: the flag ends the run, complete or not.
ComputeFlagAlone ==
    /\ pc = "compute"
    /\ guide_to_end' \in GuideChoices
    /\ next_packet' = <<>>
    /\ IF Forecast = {} /\ ~ IsComplete
       THEN Raise("no forecast")
       ELSE Goto(IF Forecast = {} \/ guide_to_end' \/ (SingleDerivation /\ IsComplete)
                 THEN "complete" ELSE "turn")
    /\ UNCHANGED <<history, past, remote>>

Compute ==
    /\ pc = "compute"
    /\ guide_to_end' \in GuideChoices
    /\ next_packet' = <<>>
    /\ IF Forecast = {} /\ ~ IsComplete
       THEN Raise("no forecast")
       ELSE Goto(IF /\ Forecast = {} \/ guide_to_end' \/ SingleDerivation
                    /\ IsComplete
                 THEN "complete" ELSE "turn")
    /\ UNCHANGED <<history, past, remote>>

\* past_io_derivations.append(history_tree); yield history_tree
YieldRun ==
    /\ pc = "complete"
    /\ past' = Append(past, history)
    /\ Goto("yielded")
    /\ UNCHANGED <<history, guide_to_end, next_packet, remote>>

\* The caller asks for more and coverage is not full: reset_parties(), with
\* which everything in transit is gone.
NewRun ==
    /\ pc = "yielded"
    /\ ~ SingleDerivation
    /\ Len(past) < MaxRun
    /\ history' = <<>> /\ wire' = <<>> /\ transmitted' = <<>>
    /\ buffer' = <<>> /\ channel' = [s \in External |-> <<>>]
    /\ Goto("compute")
    /\ UNCHANGED <<grammar, bounded, past, guide_to_end, next_packet>>

Finish ==
    /\ pc = "yielded"
    /\ Goto("done")
    /\ UNCHANGED <<history, past, guide_to_end, next_packet, remote>>

\* next_fuzzer_parties() and not received_msg()
TakeTurn ==
    /\ pc = "turn"
    /\ Goto(IF NextParties \cap Fuzzer # {} /\ buffer = <<>>
            THEN "generating" ELSE "waiting")
    /\ UNCHANGED <<history, past, guide_to_end, next_packet, remote>>

\* A packet is found: by the first search, which has a number of generations
\* whatever max_generations is, among what it held back, or by the second search.
Generate(p) ==
    /\ pc \in {"generating", "fallback"}
    /\ p \in Forecast /\ p.sender \in Fuzzer
    /\ next_packet' = <<p>>
    /\ Goto("generated")
    /\ UNCHANGED <<history, past, guide_to_end, remote>>

\* allow_fallback_packets = True: the second search, for any packet.
FallBack ==
    /\ pc = "generating"
    /\ Goto("fallback")
    /\ UNCHANGED <<history, past, guide_to_end, next_packet, remote>>

\* "If None, the generation will run indefinitely."
MayRunForEver == pc = "fallback" /\ ~ bounded

GenerateFails ==
    /\ pc = "fallback" /\ ~ MayRunForEver
    /\ Raise("no solution")
    /\ UNCHANGED <<history, past, guide_to_end, next_packet, remote>>

\* "Abort if we received a message during fuzzing"
CheckAbort ==
    /\ pc = "generated"
    /\ Goto(IF buffer # <<>> THEN "compute" ELSE "transmitting")
    /\ UNCHANGED <<history, past, guide_to_end, next_packet, remote>>

\* transmit() has returned; a packet between two parties of Fandango is not sent.
Transmit ==
    /\ pc = "transmitting"
    /\ LET p == next_packet[1]
       IN  /\ wire' = Append(wire, p)
           /\ transmitted' = IF LeavesFandango(p) THEN Append(transmitted, p)
                                                  ELSE transmitted
    /\ Goto("sent")
    /\ UNCHANGED <<grammar, bounded, history, past, guide_to_end, next_packet, buffer, channel>>

\* transmit() raises after the peer has got the packet, nothing, or a part, which is
\* no packet to it.
Attempt ==
    /\ pc = "transmitting" /\ LeavesFandango(next_packet[1])
    /\ transmitted' = Append(transmitted, next_packet[1])
    /\ wire' \in {wire, Append(wire, next_packet[1])}
    /\ UNCHANGED <<grammar, bounded, history, past, guide_to_end, next_packet, buffer, channel>>

\* Mutant: the loop goes on after a failure.
TransmitFailureIgnored == Attempt /\ Goto("compute")

TransmitFails == Attempt /\ Raise("transmit")

\* history_tree = next_tree
Record ==
    /\ pc = "sent"
    /\ history' = history \o next_packet
    /\ Goto("compute")
    /\ UNCHANGED <<past, guide_to_end, next_packet, remote>>

Wait ==
    /\ pc = "waiting"
    /\ buffer # <<>>
    /\ Goto("parsing")
    /\ UNCHANGED <<history, past, guide_to_end, next_packet, remote>>

\* Mutant: the loop waits for ever.
WaitForEver == pc = "waiting" /\ buffer = <<>> /\ UNCHANGED vars

WaitTimesOut ==
    /\ pc = "waiting"
    /\ buffer = <<>>
    /\ Raise("timeout")
    /\ UNCHANGED <<history, past, guide_to_end, next_packet, remote>>

\* Mutant: the first message is taken whoever sent it.
HeardFromAny == DOMAIN buffer

\* parse_next_remote_packet(): the first message from a party of the forecast.
Heard == {i \in DOMAIN buffer : buffer[i].sender \in NextParties}

\* Mutant: what was parsed stays in the buffer.
WithoutNone(seq, i) == seq

\* clear_by_party()
Without(seq, i) == SubSeq(seq, 1, i - 1) \o SubSeq(seq, i + 1, Len(seq))

Parse ==
    /\ pc = "parsing"
    /\ \E i \in Heard :
          /\ \A j \in Heard : i <= j
          /\ IF buffer[i] \in Forecast
             THEN /\ next_packet' = <<buffer[i]>>
                  /\ buffer' = Without(buffer, i)
                  /\ Goto("hookin")
             ELSE /\ Raise("unparsable")
                  /\ UNCHANGED <<next_packet, buffer>>
    /\ UNCHANGED <<grammar, bounded, history, past, guide_to_end, channel, wire, transmitted>>

\* Ten seconds without a message of a party of the forecast.
UnexpectedParty ==
    /\ pc = "parsing"
    /\ Heard = {}
    /\ Raise("unexpected party")
    /\ UNCHANGED <<history, past, guide_to_end, next_packet, remote>>

Hookin ==
    /\ pc = "hookin"
    /\ history' = history \o next_packet
    /\ Goto("compute")
    /\ UNCHANGED <<past, guide_to_end, next_packet, remote>>

HookinFails ==
    /\ pc = "hookin"
    /\ Raise("constraints")
    /\ UNCHANGED <<history, past, guide_to_end, next_packet, remote>>
-------------------------------------------------------------------------------
(* Remote parties that keep to the protocol, and the network.              *)

RemoteSends(p) ==
    /\ pc \notin {"done", "raised", "yielded"}
    /\ p \in ForecastOf(wire) /\ p.sender \in External
    /\ channel' = [channel EXCEPT ![p.sender] = Append(@, p)]
    /\ wire' = Append(wire, p)
    /\ UNCHANGED <<grammar, bounded, pc, error, history, past, guide_to_end, next_packet,
                   buffer, transmitted>>

Arrive(s) ==
    /\ pc \notin {"done", "raised"}
    /\ channel[s] # <<>>
    /\ buffer' = Append(buffer, Head(channel[s]))
    /\ channel' = [channel EXCEPT ![s] = Tail(@)]
    /\ UNCHANGED <<grammar, bounded, pc, error, history, past, guide_to_end, next_packet,
                   wire, transmitted>>
-------------------------------------------------------------------------------
Init ==
    /\ grammar \in Grammars /\ bounded \in BOOLEAN
    /\ pc = "compute" /\ error = "none"
    /\ history = <<>> /\ past = <<>>
    /\ guide_to_end = FALSE
    /\ next_packet = <<>>
    /\ buffer = <<>> /\ channel = [s \in External |-> <<>>]
    /\ wire = <<>> /\ transmitted = <<>>

LoopStep ==
    \/ Compute \/ YieldRun \/ TakeTurn
    \/ (\E p \in Packet : Generate(p)) \/ FallBack \/ GenerateFails \/ CheckAbort
    \/ Transmit \/ TransmitFails \/ Record
    \/ Wait \/ WaitTimesOut \/ Parse \/ UnexpectedParty \/ Hookin \/ HookinFails

CallerStep == NewRun \/ Finish

RemoteStep ==
    \/ \E p \in Packet : RemoteSends(p)
    \/ \E s \in External : Arrive(s)

Next == LoopStep \/ CallerStep \/ RemoteStep

Spec == Init /\ [][Next]_vars

\* The loop runs on, and its waits time out; a search without a bound need not end,
\* and nobody else has to do anything.
FairSpec == Spec /\ WF_vars(LoopStep /\ ~ MayRunForEver)
-------------------------------------------------------------------------------
(* Properties.                                                             *)

\* What these parties have said, in order, of the packets of seq.
Of(parties, seq) == Select(seq, {i \in DOMAIN seq : seq[i].sender \in parties})

\* The history tells what every party has said, in its order: all that Fandango
\* sent, but for the packet it is about to record or failed to send, and of a remote
\* party a prefix of what it sent; the rest is on its way, whatever was evolved and
\* given up and in whatever order messages arrived.
InTransit(s) ==
    (IF pc = "hookin" THEN Of({s}, next_packet) ELSE <<>>)
        \o Of({s}, buffer) \o channel[s]

WithNext == history \o next_packet

HistoryIsWhatWasSaid ==
    /\ Of(Fuzzer, wire) \in IF pc = "sent" THEN {Of(Fuzzer, WithNext)}
                            ELSE IF error = "transmit"
                            THEN {Of(Fuzzer, history), Of(Fuzzer, WithNext)}
                            ELSE {Of(Fuzzer, history)}
    /\ pc # "raised" =>
          \A s \in External : Of({s}, history) \o InTransit(s) = Of({s}, wire)

\* send() was called with what the history records of packets that leave Fandango, and
\* between sending and recording, or when sending has failed, with the next packet
\* too: whatever happens then, nothing is sent that the history does not know of, and
\* nothing is sent again.
Recorded(h) ==
    Select(h, {i \in DOMAIN h : h[i].sender \in Fuzzer /\ LeavesFandango(h[i])})

TransmittedIsRecorded ==
    transmitted = Recorded(IF pc = "sent" \/ error = "transmit" THEN WithNext ELSE history)

\* What is yielded is a complete run, also when the flag that ends it is an old one.
YieldsCompleteRuns ==
    /\ \A i \in DOMAIN past : past[i] \in grammar
    /\ pc = "yielded" => past # <<>> /\ past[Len(past)] = history

\* At any moment it is the turn of Fandango, with all its parties, or of one remote
\* party.  Two remote parties that may both be next would race: the loop takes
\* what it has received first for what was said first.
TakesTurns ==
    \A run \in grammar : \A n \in 0..Len(run) :
        LET senders == {p.sender : p \in ForecastOf(SubSeq(run, 1, n))}
        IN  senders \subseteq Fuzzer \/ \E s \in External : senders \subseteq {s}

\* In a protocol in which the parties take turns, remote parties that keep to it
\* are never told that they do not, unless one message is still on its way when
\* another is given up; nor does the loop run into a history that cannot go on.
NeverRejectsConforming ==
    TakesTurns =>
        /\ error \notin {"no forecast", "unparsable"}
        /\ error = "unexpected party" => \E s \in External : channel[s] # <<>>

\* Every protocol run comes to an end: it is yielded, or the loop raises, unless it
\* searches for a packet for ever.
RunEnds == pc = "compute" ~> pc \in {"yielded", "raised"} \/ []MayRunForEver
===============================================================================
