----------------------------- MODULE PacketParser -----------------------------
(***************************************************************************)
(* parse_next_remote_packet() (src/fandango/io/packetparser.py): the       *)
(* evolution thread reads the buffer of FandangoIO, which the listeners    *)
(* keep extending, fragment by fragment, and feeds one incremental parser  *)
(* per packet type that the forecast allows, until no parser can continue  *)
(* or the next fragment is too late; the longest complete parse wins and   *)
(* its fragments are cleared.                                              *)
(*                                                                         *)
(* A parser is abstracted to the language of its packet type.  Time is     *)
(* abstracted: whenever the code compares a clock, either outcome.         *)
(***************************************************************************)
EXTENDS FandangoIO

CONSTANTS NT,           \* the packet types (nonterminals) of the grammar
          Lang,         \* Lang[nt]: the texts its parser accepts
          Derivable,    \* those whose sources grammar.populate_sources() derives
          Forecasts     \* the forecasts: from parties to packet types

ASSUME LangAssumption ==
    /\ Lang \in [NT -> SUBSET (Seq(Fragment) \ {<<>>})]
    /\ Derivable \in [NT -> SUBSET Seq(Fragment)]
    /\ \A nt \in NT : Derivable[nt] \subseteq Lang[nt]
    /\ \A f \in Forecasts : DOMAIN f \subseteq Party
    /\ \A f \in Forecasts : \A s \in DOMAIN f : f[s] \subseteq NT /\ f[s] # {}

VARIABLES
    step,                   \* where the evolution thread is
    forecast,               \* the forecast of this call
    looked,                 \* how much of the buffer received_parties is from
    msg_sender,             \* the party whose fragments are parsed
    available_non_terminals,\* packet types whose parser can go on
    text,                   \* the fragments the parsers have consumed
    complete_parses,        \* where a type first and last matched, and its tree
    current_fragment_idx,   \* position of the last consumed fragment, or 0
    next_fragment_idx,      \* position just found, or 0
    waited,                 \* whether the wait for a fragment has timed out
    result                  \* what the last call returned or raised

parserVars == <<step, forecast, looked, msg_sender, available_non_terminals,
                text, complete_parses, current_fragment_idx, next_fragment_idx,
                waited, result>>

Nothing == [kind |-> "nothing"]
Raised(error) == [kind |-> "raised", error |-> error]

ParserTypeOK ==
    /\ TypeOK
    /\ step \in {"idle", "called", "awaiting", "finding", "waiting", "found",
                 "checking", "choosing", "raised"}
    /\ forecast \in Forecasts
    /\ looked \in 0..Len(receive)
    /\ msg_sender \in Party \cup {NoSender}
    /\ available_non_terminals \subseteq NT
    /\ text \in Seq(Fragment)
    /\ DOMAIN complete_parses \subseteq NT
    /\ \A nt \in DOMAIN complete_parses :
          complete_parses[nt] \in [first : 1..Len(receive), last : 1..Len(receive),
                                  tree : Derivable[nt]]
    /\ current_fragment_idx \in 0..Len(receive)
    /\ next_fragment_idx \in 0..Len(receive)
    /\ waited \in BOOLEAN
-------------------------------------------------------------------------------
(* What the code computes from the buffer and the parsers.                 *)

\* The parties that sent one of the first n entries of the buffer.
ReceivedParties(n) == {receive[i].sender : i \in 1..n}

Least(S) == CHOOSE i \in S : \A j \in S : i <= j

\* Mutants: a fragment of any sender; the fragment after the next.
FindNextFragmentOfAny(s, start) ==
    LET later == {i \in DOMAIN receive : i >= start}
    IN  IF later = {} THEN 0 ELSE Least(later)

FindNextFragmentSkipping(s, start) ==
    LET later == {i \in PositionsOf(receive, s) : i > start}
    IN  IF later = {} THEN 0 ELSE Least(later)

\* _find_next_fragment(): the next position of a fragment of s, or 0.
FindNextFragment(s, start) ==
    LET later == {i \in PositionsOf(receive, s) : i >= start}
    IN  IF later = {} THEN 0 ELSE Least(later)

IsPrefixOf(w, v) == Len(w) <= Len(v) /\ SubSeq(v, 1, Len(w)) = w

\* IterativeParser.can_continue()
CanContinue(nt, w) == \E v \in Lang[nt] : IsPrefixOf(w, v) /\ v # w

\* The parse is complete and its sources can be derived.
Matches(nt, w) == w \in Derivable[nt]

\* complete_parses keeps its keys in the order of their first insertion.
Completed(parses, nts, idx, w) ==
    [nt \in DOMAIN parses \cup nts |->
        LET first == IF nt \in DOMAIN parses THEN parses[nt].first ELSE idx
        IN  IF nt \in nts THEN [first |-> first, last |-> idx, tree |-> w]
                          ELSE parses[nt]]

\* Mutant: the shortest parse wins.
BestIsShortest(parses) ==
    {nt \in DOMAIN parses : \A o \in DOMAIN parses : parses[nt].last <= parses[o].last}

\* The longest parses; of these, those that the loop over the dictionary meets
\* first (types that matched first at the same fragment are in either order).
Best(parses) ==
    LET longest == {nt \in DOMAIN parses :
                       \A o \in DOMAIN parses : parses[o].last <= parses[nt].last}
    IN  {nt \in longest : \A o \in longest : parses[nt].first <= parses[o].first}
-------------------------------------------------------------------------------
(* The steps of the call.                                                  *)

Main == pc = "run" /\ UNCHANGED <<receive_lock, parties, pc, todo, session, listener>>

\* The caller has seen received_msg() and has a forecast.
Call(f) ==
    /\ Main /\ step = "idle"
    /\ receive # <<>>
    /\ step' = "called"
    /\ forecast' = f
    /\ result' = Nothing
    /\ UNCHANGED <<receive, looked, msg_sender, available_non_terminals, text,
                   complete_parses, current_fragment_idx, next_fragment_idx, waited>>

\* An empty buffer ends the call; otherwise it looks who has sent something.
Enter ==
    /\ Main /\ step = "called"
    /\ IF receive = <<>>
       THEN step' = "idle" /\ result' = Raised("None returned") /\ looked' = 0
       ELSE step' = "awaiting" /\ result' = result /\ looked' = Len(receive)
    /\ UNCHANGED <<receive, forecast, msg_sender, available_non_terminals, text,
                   complete_parses, current_fragment_idx, next_fragment_idx, waited>>

Expected == ReceivedParties(looked) \cap DOMAIN forecast

\* while not forecast.contains_any_party(received_parties): look again
LookAgain ==
    /\ Main /\ step = "awaiting"
    /\ Expected = {}
    /\ looked' = Len(receive)
    /\ UNCHANGED <<receive, step, forecast, msg_sender, available_non_terminals,
                   text, complete_parses, current_fragment_idx,
                   next_fragment_idx, waited, result>>

UnexpectedParty ==
    /\ Main /\ step = "awaiting"
    /\ Expected = {}
    /\ step' = "raised"
    /\ result' = Raised("Unexpected party")
    /\ UNCHANGED <<receive, forecast, looked, msg_sender, available_non_terminals,
                   text, complete_parses, current_fragment_idx,
                   next_fragment_idx, waited>>

\* The first party of the buffer that the forecast names; a parser for each
\* packet type it may send.
SelectSender ==
    /\ Main /\ step = "awaiting"
    /\ Expected # {}
    /\ LET i == Least({k \in DOMAIN receive : receive[k].sender \in DOMAIN forecast})
       IN  /\ msg_sender' = receive[i].sender
           /\ available_non_terminals' = forecast[receive[i].sender]
    /\ step' = "finding"
    /\ text' = <<>>
    /\ complete_parses' = <<>>
    /\ current_fragment_idx' = 0
    /\ next_fragment_idx' = 0
    /\ waited' = FALSE
    /\ UNCHANGED <<receive, forecast, looked, result>>

Find(at, to) ==
    /\ Main /\ step = at
    /\ next_fragment_idx' = FindNextFragment(msg_sender, current_fragment_idx + 1)
    /\ step' = to
    /\ UNCHANGED <<receive, forecast, looked, msg_sender, available_non_terminals,
                   text, complete_parses, current_fragment_idx, waited, result>>

FindFragment == Find("finding", IF next_fragment_idx' = 0 THEN "waiting" ELSE "found")

\* In the waiting loop the buffer is read before the clock: in time, it waits
\* on or goes on with what was found; too late, it gives up in either case.
FindAgain == Find("waiting", "checking")

InTime ==
    /\ Main /\ step = "checking"
    /\ step' = IF next_fragment_idx = 0 THEN "waiting" ELSE "found"
    /\ UNCHANGED <<receive, forecast, looked, msg_sender, available_non_terminals,
                   text, complete_parses, current_fragment_idx,
                   next_fragment_idx, waited, result>>

\* Mutant: the wait is only given up when there is a parse to fall back on.
WaitTimesOutWithParse ==
    /\ Main /\ step = "checking"
    /\ complete_parses # <<>>
    /\ waited' = TRUE
    /\ step' = "choosing"
    /\ UNCHANGED <<receive, forecast, looked, msg_sender, available_non_terminals,
                   text, complete_parses, current_fragment_idx,
                   next_fragment_idx, result>>

WaitTimesOut ==
    /\ Main /\ step = "checking"
    /\ waited' = TRUE
    /\ IF complete_parses = <<>>
       THEN step' = "raised" /\ result' = Raised("Timeout")
       ELSE step' = "choosing" /\ result' = result
    /\ UNCHANGED <<receive, forecast, looked, msg_sender, available_non_terminals,
                   text, complete_parses, current_fragment_idx, next_fragment_idx>>

\* Every parser that can still continue consumes the fragment.
ConsumeFragment ==
    /\ Main /\ step = "found"
    /\ LET w == Append(text, receive[next_fragment_idx].frag)
           nts == {nt \in available_non_terminals : Matches(nt, w)}
           left == {nt \in available_non_terminals : CanContinue(nt, w)}
       IN  /\ text' = w
           /\ complete_parses' = 
                Completed(complete_parses, nts, next_fragment_idx, w)
           /\ available_non_terminals' = left
           /\ step' = IF left = {} THEN "choosing" ELSE "finding"
    /\ current_fragment_idx' = next_fragment_idx
    /\ UNCHANGED <<receive, forecast, looked, msg_sender, next_fragment_idx,
                   waited, result>>

NothingParsed ==
    /\ Main /\ step = "choosing"
    /\ complete_parses = <<>>
    /\ step' = "raised"
    /\ result' = Raised("Could not parse")
    /\ UNCHANGED <<receive, forecast, looked, msg_sender, available_non_terminals,
                   text, complete_parses, current_fragment_idx,
                   next_fragment_idx, waited>>

\* Positions are those of the buffer as it was read; clear_by_party applies
\* them to the buffer as it is by now.
ReturnPacket(nt) ==
    /\ step = "choosing"
    /\ nt \in Best(complete_parses)
    /\ ClearByParty(msg_sender, complete_parses[nt].last)
    /\ result' = [kind |-> "packet", sender |-> msg_sender, nt |-> nt,
                  text |-> complete_parses[nt].tree]
    /\ step' = "idle"
    /\ looked' = 0
    /\ msg_sender' = NoSender
    /\ available_non_terminals' = {}
    /\ text' = <<>>
    /\ complete_parses' = <<>>
    /\ current_fragment_idx' = 0
    /\ next_fragment_idx' = 0
    /\ waited' = FALSE
    /\ UNCHANGED forecast
-------------------------------------------------------------------------------
\* As FandangoIO is once the parties have been created.
ParserInit ==
    /\ receive = <<>>
    /\ receive_lock = "free"
    /\ parties = Party
    /\ pc = "run"
    /\ todo = {}
    /\ session = 1
    /\ listener = [t \in Thread |-> [at |-> IF t[2] = 1 THEN "idle" ELSE "none"]]
    /\ step = "idle"
    /\ forecast \in Forecasts
    /\ looked = 0
    /\ msg_sender = NoSender
    /\ available_non_terminals = {}
    /\ text = <<>>
    /\ complete_parses = <<>>
    /\ current_fragment_idx = 0
    /\ next_fragment_idx = 0
    /\ waited = FALSE
    /\ result = Nothing

\* What the evolution thread does once it has called.
ParserStep ==
    \/ Enter \/ LookAgain \/ SelectSender \/ UnexpectedParty
    \/ FindFragment \/ FindAgain \/ InTime \/ WaitTimesOut
    \/ ConsumeFragment \/ NothingParsed
    \/ \E nt \in NT : ReturnPacket(nt)

ParserNext ==
    \/ \E f \in Forecasts : Call(f)
    \/ ParserStep
    \/ ListenerStep /\ UNCHANGED parserVars

ParserSpec == ParserInit /\ [][ParserNext]_<<vars, parserVars>>

\* The evolution thread runs on, and its clock advances: a wait that is checked
\* again and again is found too long in the end.
ParserFairSpec ==
    /\ ParserSpec
    /\ WF_<<vars, parserVars>>(ParserStep)
    /\ WF_<<vars, parserVars>>(UnexpectedParty)
    /\ SF_<<vars, parserVars>>(WaitTimesOut)
-------------------------------------------------------------------------------
(* Properties.                                                             *)

\* The packet handed over is of a forecast type and its text is exactly what
\* clear_by_party has removed, the oldest fragments of its sender, although
\* listeners have moved the end of the buffer meanwhile.
PendingOfParties == [s \in Party |-> Pending(receive, s)]
Packets == INSTANCE PacketQueues
               WITH queue <- PendingOfParties,
                    packet <- IF result.kind = "packet" THEN result ELSE Nothing
ImplementsPackets == Packets!Spec

\* A parse takes the longest packet that the forecast allows: of all fragments
\* that are pending, or, after a timeout, of those it had read.
TakesLongest ==
    [][ step = "choosing" /\ result'.kind = "packet" =>
          LET own == Pending(receive, msg_sender)
              seen == IF waited THEN Len(text) ELSE Len(own)
          IN  \A nt \in forecast[msg_sender], n \in 1..seen :
                 SubSeq(own, 1, n) \in Derivable[nt] => n <= Len(result'.text)
      ]_<<vars, parserVars>>

\* The call fails without a timeout only if no prefix of what the sender has
\* sent is a packet of the forecast; and it never returns empty-handed, which
\* its caller asserts.
FailureJustified ==
    /\ result # Raised("None returned")
    /\ result = Raised("Could not parse") =>
          \A nt \in forecast[msg_sender], n \in 1..Len(Pending(receive, msg_sender)) :
             SubSeq(Pending(receive, msg_sender), 1, n) \notin Derivable[nt]

\* A call always comes to an end, however the listeners deliver.
ParseEnds == step # "idle" ~> step \in {"idle", "raised"}
===============================================================================
