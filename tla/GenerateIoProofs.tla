---------------------------- MODULE GenerateIoProofs ----------------------------
(***************************************************************************)
(* For every protocol, set of parties and number of runs: the history of   *)
(* the protocol loop is what was said, exactly what leaves Fandango is     *)
(* recorded, also when sending fails, only complete runs are yielded, and, *)
(* if the parties take turns, the loop does not turn down remote parties   *)
(* that keep to the protocol.                                              *)
(*                                                                         *)
(* What was said is told apart by who said it; most of the lemmas are      *)
(* about what one set of parties has said in a sequence that grows, or     *)
(* loses a packet.                                                         *)
(***************************************************************************)
EXTENDS GenerateIo, SelectionsProofs

\* Where the packets of a list come from.
Senders ==
    /\ \A i \in DOMAIN buffer : buffer[i].sender \in External
    /\ \A s \in External : \A i \in DOMAIN channel[s] : channel[s][i].sender = s

\* What is about to be transmitted, recorded or entered into the history was forecast.
NextPacketIsForecast ==
    /\ pc \in {"generated", "transmitting", "sent"} =>
          \E p \in Forecast : next_packet = <<p>> /\ p.sender \in Fuzzer
    /\ pc = "hookin" =>
          \E p \in Forecast : next_packet = <<p>> /\ p.sender \in External

CompleteIsRun == pc = "complete" => history \in grammar

\* Nothing happens after an error.
ErrorIsRaised == error # "none" => pc = "raised"

SaidInv ==
    /\ TypeOK
    /\ Senders
    /\ NextPacketIsForecast
    /\ CompleteIsRun
    /\ ErrorIsRaised
    /\ HistoryIsWhatWasSaid
    /\ TransmittedIsRecorded
    /\ YieldsCompleteRuns
-------------------------------------------------------------------------------
(* What some of the parties have said.                                     *)

PositionsIn(parties, seq) == {i \in DOMAIN seq : seq[i].sender \in parties}

LEMMA OfType ==
  ASSUME NEW A, NEW seq \in Seq(Packet)
  PROVE  /\ PositionsIn(A, seq) \in SUBSET (DOMAIN seq)
         /\ Of(A, seq) = Select(seq, PositionsIn(A, seq))
         /\ Of(A, seq) \in Seq(Packet)
<1>1. PositionsIn(A, seq) \in SUBSET (DOMAIN seq)
  BY DEF PositionsIn
<1>2. Of(A, seq) = Select(seq, PositionsIn(A, seq))
  BY DEF Of, PositionsIn
<1> QED
  BY <1>1, <1>2, SelectionType

LEMMA OfEmpty ==
  ASSUME NEW A
  PROVE  Of(A, <<>>) = <<>>
<1>1. {i \in DOMAIN <<>> : <<>>[i].sender \in A} = {}
  OBVIOUS
<1> QED
  BY <1>1, SelectNothing DEF Of

LEMMA OfAppend ==
  ASSUME NEW A, NEW seq \in Seq(Packet), NEW p \in Packet
  PROVE  Of(A, Append(seq, p)) = IF p.sender \in A THEN Append(Of(A, seq), p)
                                                   ELSE Of(A, seq)
<1> DEFINE l == Len(seq)
           longer == Append(seq, p)
           K == PositionsIn(A, seq)
           J == PositionsIn(A, longer)
<1>1. /\ DOMAIN seq = 1..l /\ l \in Nat
      /\ longer \in Seq(Packet) /\ DOMAIN longer = 1..(l + 1) /\ longer[l + 1] = p
      /\ \A k \in 1..l : longer[k] = seq[k]
  OBVIOUS
<1>2. 1..(l + 1) = 1..l \cup {l + 1}
  BY <1>1
<1>3. K \in SUBSET (DOMAIN seq) /\ Of(A, seq) = Select(seq, K)
  BY OfType
<1>4. Of(A, longer) = Select(longer, J)
  BY <1>1, OfType
<1>5. /\ Select(longer, K) = Select(seq, K)
      /\ Select(longer, K \cup {l + 1}) = Append(Select(seq, K), p)
  BY <1>3, SelectAppended
<1>6. J = IF p.sender \in A THEN K \cup {l + 1} ELSE K
  <2> HIDE DEF longer, l
  <2> QED
    BY <1>1, <1>2 DEF PositionsIn
<1> QED
  BY <1>3, <1>4, <1>5, <1>6

LEMMA OfSingle ==
  ASSUME NEW A, NEW p \in Packet
  PROVE  Of(A, <<p>>) = IF p.sender \in A THEN <<p>> ELSE <<>>
<1>1. <<>> \in Seq(Packet) /\ Append(<<>>, p) = <<p>>
  OBVIOUS
<1>2. Of(A, Append(<<>>, p)) = IF p.sender \in A THEN Append(Of(A, <<>>), p)
                                                  ELSE Of(A, <<>>)
  BY <1>1, OfAppend
<1> QED
  BY <1>1, <1>2, OfEmpty

\* A member that is of the set makes the selection nonempty.
LEMMA OfNonempty ==
  ASSUME NEW A, NEW seq \in Seq(Packet), NEW j \in DOMAIN seq, seq[j].sender \in A
  PROVE  Of(A, seq) # <<>>
<1> DEFINE K == PositionsIn(A, seq)
<1>1. /\ K \in SUBSET (DOMAIN seq) /\ Of(A, seq) = Select(seq, K)
      /\ j \in K
  BY OfType DEF PositionsIn
<1>2. FinitePositions(K) /\ Len(Select(seq, K)) = Cardinality(K) /\ Cardinality(K) \in Nat
  BY <1>1, SelectionType
<1>3. Cardinality(K) # 0
  BY <1>1, <1>2, FS_EmptySet DEF FinitePositions
<1> QED
  BY <1>1, <1>2, <1>3

\* The first packet of a party is taken out of the list.
LEMMA OfWithoutFirst ==
  ASSUME NEW seq \in Seq(Packet), NEW i \in DOMAIN seq,
         \A k \in DOMAIN seq : seq[k].sender = seq[i].sender => i <= k, NEW s
  PROVE  Of({s}, seq) = IF s = seq[i].sender THEN <<seq[i]>> \o Of({s}, Without(seq, i))
                                             ELSE Of({s}, Without(seq, i))
<1> DEFINE l == Len(seq)
           rest == Without(seq, i)
           K == PositionsIn({s}, seq)
           J == PositionsIn({s}, rest)
           others == K \ {i}
           shift(k) == IF k < i THEN k ELSE k - 1
<1>1. DOMAIN seq = 1..l /\ l \in Nat /\ i \in 1..l
  OBVIOUS
<1>2. K \in SUBSET (DOMAIN seq) /\ Of({s}, seq) = Select(seq, K)
  BY OfType
<1>3. /\ rest \in Seq(Packet) /\ DOMAIN rest = 1..(l - 1)
      /\ \A k \in 1..(l - 1) : rest[k] = IF k < i THEN seq[k] ELSE seq[k + 1]
  <2>1. rest = TakenOut(seq, i)
    BY DEF Without, TakenOut
  <2> HIDE DEF rest
  <2> QED
    BY <2>1, TakenOutAt
<1>4. Of({s}, rest) = Select(rest, J)
  BY <1>3, OfType
<1> HIDE DEF rest
<1>5. J = {shift(k) : k \in others}
  <2>1. ASSUME NEW j \in J
        PROVE  \E k \in others : j = shift(k)
    <3>1. j \in 1..(l - 1) /\ rest[j].sender = s
      BY <1>3 DEF PositionsIn
    <3>2. CASE j < i
      <4>1. j \in others /\ shift(j) = j
        BY <1>1, <1>3, <3>1, <3>2 DEF PositionsIn
      <4> QED
        BY <4>1
    <3>3. CASE ~ (j < i)
      <4>1. j + 1 \in others /\ shift(j + 1) = j
        BY <1>1, <1>3, <3>1, <3>3 DEF PositionsIn
      <4> QED
        BY <4>1
    <3> QED
      BY <3>2, <3>3
  <2>2. ASSUME NEW k \in others
        PROVE  shift(k) \in J
    <3>1. k \in 1..l /\ k # i /\ seq[k].sender = s
      BY <1>1 DEF PositionsIn
    <3>2. CASE k < i
      <4>1. k \in 1..(l - 1) /\ rest[k] = seq[k]
        BY <1>1, <1>3, <3>1, <3>2
      <4> QED
        BY <1>3, <3>1, <3>2, <4>1 DEF PositionsIn
    <3>3. CASE ~ (k < i)
      <4>1. k - 1 \in 1..(l - 1) /\ rest[k - 1] = seq[k]
        <5>1. k - 1 \in 1..(l - 1) /\ ~ (k - 1 < i) /\ (k - 1) + 1 = k
          BY <1>1, <3>1, <3>3
        <5> QED
          BY <1>3, <5>1
      <4> QED
        BY <1>3, <3>1, <3>3, <4>1 DEF PositionsIn
    <3> QED
      BY <3>2, <3>3
  <2> HIDE DEF J, others
  <2> QED
    BY <2>1, <2>2
<1>6. others \in SUBSET (DOMAIN seq) /\ i \notin others
  BY <1>2
<1>7. Select(rest, J) = Select(seq, others)
  <2> HIDE DEF others
  <2> QED
    BY <1>5, <1>6, SelectShifted DEF rest, Without, TakenOut
<1>8. CASE s = seq[i].sender
  <2>1. i \in K /\ \A k \in K : i <= k
    BY <1>8 DEF PositionsIn
  <2>2. Select(seq, K) = <<seq[i]>> \o Select(seq, others)
    <3> HIDE DEF K
    <3> QED
      BY <1>2, <2>1, SelectFirst
  <2> QED
    BY <1>2, <1>4, <1>7, <1>8, <2>2 DEF rest
<1>9. CASE s # seq[i].sender
  <2>1. others = K
    BY <1>9 DEF PositionsIn
  <2> QED
    BY <1>2, <1>4, <1>7, <1>9, <2>1 DEF rest
<1> QED
  BY <1>8, <1>9
-------------------------------------------------------------------------------
(* What is under way to the loop.                                          *)

LEMMA Associative ==
  \A a, b, c \in Seq(Packet) : (a \o b) \o c = a \o (b \o c)
BY ConcatAssociative

Waiting(s) == Of({s}, buffer) \o channel[s]

LEMMA AppendAtEnd ==
  \A a, b, c \in Seq(Packet), p \in Packet :
     a \o (b \o Append(c, p)) = Append(a \o (b \o c), p)
<1> SUFFICES ASSUME NEW a \in Seq(Packet), NEW b \in Seq(Packet), NEW c \in Seq(Packet),
                    NEW p \in Packet
             PROVE  a \o (b \o Append(c, p)) = Append(a \o (b \o c), p)
  OBVIOUS
<1> DEFINE last == <<p>>
<1>1. last \in Seq(Packet) /\ \A d \in Seq(Packet) : Append(d, p) = d \o last
  BY AppendIsConcat
<1> HIDE DEF last
<1>2. b \o c \in Seq(Packet) /\ a \o (b \o c) \in Seq(Packet)
  BY ConcatProperties
<1>3. b \o (c \o last) = (b \o c) \o last /\ a \o ((b \o c) \o last) = (a \o (b \o c)) \o last
  BY <1>1, <1>2, Associative
<1> QED
  BY <1>1, <1>2, <1>3

LEMMA AppendInside ==
  \A a, b, c \in Seq(Packet), p \in Packet :
     (a \o Append(b, p)) \o c = (a \o b) \o (<<p>> \o c)
<1> SUFFICES ASSUME NEW a \in Seq(Packet), NEW b \in Seq(Packet), NEW c \in Seq(Packet),
                    NEW p \in Packet
             PROVE  (a \o Append(b, p)) \o c = (a \o b) \o (<<p>> \o c)
  OBVIOUS
<1> DEFINE last == <<p>>
<1>1. last \in Seq(Packet) /\ Append(b, p) = b \o last
  BY AppendIsConcat
<1> HIDE DEF last
<1>2. a \o b \in Seq(Packet)
  BY ConcatProperties
<1>3. a \o (b \o last) = (a \o b) \o last /\ ((a \o b) \o last) \o c = (a \o b) \o (last \o c)
  BY <1>1, <1>2, Associative
<1> QED
  BY <1>1, <1>3 DEF last

LEMMA FirstAndRest ==
  ASSUME NEW S, NEW seq \in Seq(S), seq # <<>>
  PROVE  seq = <<Head(seq)>> \o Tail(seq)
<1> DEFINE first == <<Head(seq)>>
           rest == Tail(seq)
           both == first \o rest
<1>1. /\ Head(seq) \in S /\ rest \in Seq(S) /\ Len(rest) = Len(seq) - 1
      /\ \A i \in 1..Len(rest) : rest[i] = seq[i + 1]
  BY HeadTailProperties
<1>2. first \in Seq(S) /\ Len(first) = 1 /\ first[1] = seq[1] /\ Len(seq) \in Nat
  BY <1>1
<1> HIDE DEF first, rest
<1>3. /\ both \in Seq(S) /\ Len(both) = Len(first) + Len(rest)
      /\ \A i \in 1..(Len(first) + Len(rest)) : both[i] =
            IF i <= Len(first) THEN first[i] ELSE rest[i - Len(first)]
  <2>1. first \in Seq(S) /\ rest \in Seq(S)
    BY <1>1, <1>2
  <2> QED
    BY <2>1, ConcatProperties
<1> HIDE DEF both
<1>4. Len(both) = Len(seq)
  BY <1>1, <1>2, <1>3
<1>5. ASSUME NEW i \in 1..Len(seq)
      PROVE  seq[i] = both[i]
  <2>1. CASE i = 1
    BY <1>1, <1>2, <1>3, <2>1
  <2>2. CASE i # 1
    <3>1. i - 1 \in 1..Len(rest) /\ (i - 1) + 1 = i /\ ~ (i <= 1)
      BY <1>1, <1>2, <2>2
    <3>2. both[i] = rest[i - 1]
      BY <1>1, <1>2, <1>3, <3>1
    <3> QED
      BY <1>1, <3>1, <3>2
  <2> QED
    BY <2>1, <2>2
<1>6. seq = both
  BY <1>3, <1>4, <1>5, SeqEqual
<1> QED
  BY <1>6 DEF both, first, rest

\* Everything under way is a sequence of packets.
LEMMA WaitingType ==
  ASSUME TypeOK, NEW s \in External
  PROVE  /\ Of({s}, buffer) \in Seq(Packet) /\ channel[s] \in Seq(Packet)
         /\ Of({s}, history) \in Seq(Packet)
         /\ Waiting(s) \in Seq(Packet)
<1>1. buffer \in Seq(Packet) /\ channel[s] \in Seq(Packet) /\ history \in Seq(Packet)
  BY DEF TypeOK
<1>2. Of({s}, buffer) \in Seq(Packet) /\ Of({s}, history) \in Seq(Packet)
  BY <1>1, OfType
<1> QED
  BY <1>1, <1>2, ConcatProperties DEF Waiting

LEMMA InTransitIsWaiting ==
  ASSUME TypeOK, NEW s \in External, pc # "hookin"
  PROVE  InTransit(s) = Waiting(s)
<1>1. Of({s}, buffer) \in Seq(Packet)
  BY WaitingType
<1>2. <<>> \o Of({s}, buffer) = Of({s}, buffer)
  BY <1>1, ConcatEmptySeq
<1> QED
  BY <1>2 DEF InTransit, Waiting

LEMMA InTransitWithNext ==
  ASSUME TypeOK, NEW s \in External, pc = "hookin", NEW p \in Packet, next_packet = <<p>>
  PROVE  InTransit(s) = IF p.sender = s THEN <<p>> \o Waiting(s) ELSE Waiting(s)
<1>1. /\ Of({s}, buffer) \in Seq(Packet) /\ channel[s] \in Seq(Packet)
      /\ <<p>> \in Seq(Packet)
  <2>1. <<p>> \in Seq(Packet)
    OBVIOUS
  <2>2. Of({s}, buffer) \in Seq(Packet) /\ channel[s] \in Seq(Packet)
    BY WaitingType
  <2> QED
    BY <2>1, <2>2
<1>2. Of({s}, next_packet) = IF p.sender = s THEN <<p>> ELSE <<>>
  BY OfSingle
<1>3. (<<p>> \o Of({s}, buffer)) \o channel[s] = <<p>> \o Waiting(s)
  <2> DEFINE first == <<p>>
  <2> HIDE DEF first
  <2>1. first \in Seq(Packet)
    BY <1>1 DEF first
  <2>2. (first \o Of({s}, buffer)) \o channel[s] = first \o (Of({s}, buffer) \o channel[s])
    BY <1>1, <2>1, Associative
  <2> QED
    BY <2>2 DEF Waiting, first
<1>4. <<>> \o Of({s}, buffer) = Of({s}, buffer)
  BY <1>1, ConcatEmptySeq
<1> QED
  BY <1>2, <1>3, <1>4 DEF InTransit, Waiting

LEMMA WaitingPrimed ==
  ASSUME TypeOK', NEW s \in External, pc' # "hookin"
  PROVE  InTransit(s)' = Waiting(s)'
<1>1. Of({s}, buffer') \in Seq(Packet)
  BY OfType DEF TypeOK
<1>2. <<>> \o Of({s}, buffer') = Of({s}, buffer')
  BY <1>1, ConcatEmptySeq
<1> QED
  BY <1>2 DEF InTransit, Waiting, Of

\* What is recorded of a packet that is entered into the history.
LEMMA RecordedAppend ==
  ASSUME NEW h \in Seq(Packet), NEW p \in Packet
  PROVE  Recorded(Append(h, p)) = IF p.sender \in Fuzzer /\ LeavesFandango(p)
                                  THEN Append(Recorded(h), p) ELSE Recorded(h)
<1> DEFINE l == Len(h)
           at(q) == {i \in DOMAIN q : q[i].sender \in Fuzzer /\ LeavesFandango(q[i])}
           longer == Append(h, p)
           K == at(h)
           J == at(longer)
<1>1. /\ DOMAIN h = 1..l /\ l \in Nat
      /\ DOMAIN longer = 1..(l + 1) /\ longer[l + 1] = p
      /\ \A k \in 1..l : longer[k] = h[k]
  OBVIOUS
<1>2. 1..(l + 1) = 1..l \cup {l + 1}
  BY <1>1
<1>3. /\ Select(longer, K) = Select(h, K)
      /\ Select(longer, K \cup {l + 1}) = Append(Select(h, K), p)
  BY SelectAppended
<1>4. J = IF p.sender \in Fuzzer /\ LeavesFandango(p) THEN K \cup {l + 1} ELSE K
  <2> HIDE DEF longer, l
  <2> QED
    BY <1>1, <1>2
<1>5. Recorded(h) = Select(h, K) /\ Recorded(longer) = Select(longer, J)
  BY DEF Recorded
<1> QED
  BY <1>3, <1>4, <1>5

LEMMA RecordedEmpty == Recorded(<<>>) = <<>>
<1>1. {i \in DOMAIN <<>> : <<>>[i].sender \in Fuzzer /\ LeavesFandango(<<>>[i])} = {}
  OBVIOUS
<1> QED
  BY <1>1, SelectNothing DEF Recorded

\* What has been recorded of a sequence does not depend on the state.
LEMMA RecordedPrimed == Recorded(history)' = Recorded(history')
BY DEF Recorded, LeavesFandango

\* The history with the next packet.
LEMMA WithNextIsAppend ==
  ASSUME history \in Seq(Packet), NEW p \in Packet, next_packet = <<p>>
  PROVE  WithNext = Append(history, p)
BY AppendIsConcat DEF WithNext

\* A step that moves nothing between wire, channels, buffer and history, and neither
\* begins nor ends with a packet to enter into the history, unless the loop raises.
LEMMA StayingKeepsSaid ==
  ASSUME SaidInv, TypeOK', pc # "raised", pc # "sent", pc' # "sent", error' # "transmit",
         UNCHANGED <<grammar, history, buffer, channel, wire, transmitted>>,
         pc' = "raised" \/ (pc # "hookin" /\ pc' # "hookin")
  PROVE  HistoryIsWhatWasSaid' /\ TransmittedIsRecorded' /\ Senders'
<1>0. error # "transmit"
  BY DEF SaidInv, ErrorIsRaised
<1>1. Of(Fuzzer, history') = Of(Fuzzer, wire')
  BY <1>0 DEF SaidInv, HistoryIsWhatWasSaid
<1>2. ASSUME pc' # "raised", NEW s \in External
      PROVE  Of({s}, history') \o InTransit(s)' = Of({s}, wire')
  <2>1. TypeOK /\ pc # "hookin" /\ pc' # "hookin"
    BY <1>2 DEF SaidInv
  <2>2. Of({s}, history) \o InTransit(s) = Of({s}, wire)
    BY <1>2 DEF SaidInv, HistoryIsWhatWasSaid
  <2>3. InTransit(s)' = InTransit(s)
    BY <2>1 DEF InTransit
  <2> QED
    BY <2>2, <2>3
<1>3. HistoryIsWhatWasSaid'
  BY <1>1, <1>2 DEF HistoryIsWhatWasSaid, Of
<1>4. transmitted = Recorded(history)
  BY <1>0 DEF SaidInv, TransmittedIsRecorded
<1>5. TransmittedIsRecorded' /\ Senders'
  BY <1>4 DEF SaidInv, TransmittedIsRecorded, Senders
<1> QED
  BY <1>3, <1>5

-------------------------------------------------------------------------------
(* Types.                                                                  *)

LEMMA ForecastType ==
  /\ Forecast \subseteq Packet
  /\ \A h : ForecastOf(h) \subseteq Packet
BY DEF Forecast, ForecastOf

LEMMA SameForecast ==
  ASSUME UNCHANGED <<grammar, history>>
  PROVE  Forecast' = Forecast /\ NextParties' = NextParties
BY DEF Forecast, ForecastOf, NextParties

LEMMA GrammarType ==
  ASSUME TypeOK
  PROVE  grammar \subseteq Seq(Packet) \ {<<>>} /\ grammar # {}
BY ProtocolAssumption DEF TypeOK

LEMMA PacketParties ==
  ASSUME NEW p \in Packet
  PROVE  (p.sender \in Fuzzer /\ p.sender \notin External)
           \/ (p.sender \in External /\ p.sender \notin Fuzzer)
BY ProtocolAssumption DEF External

\* The steps of the loop and of its caller that move nothing.
StayingStep ==
    \/ Compute \/ YieldRun \/ TakeTurn \/ (\E p \in Packet : Generate(p)) \/ FallBack
    \/ GenerateFails \/ CheckAbort \/ Wait \/ WaitTimesOut \/ UnexpectedParty \/ HookinFails \/ Finish

LEMMA StayingKeepsSaidInv ==
  ASSUME SaidInv, StayingStep
  PROVE  SaidInv'
<1>1. /\ UNCHANGED <<grammar, bounded, history, buffer, channel, wire, transmitted>>
      /\ pc # "raised" /\ pc # "sent" /\ pc' # "sent"
      /\ pc' = "raised" \/ (pc # "hookin" /\ pc' # "hookin")
      /\ (error' = error) \/ (pc' = "raised" /\ error' # "transmit")
  BY DEF StayingStep, Compute, YieldRun, TakeTurn, Generate, FallBack, GenerateFails, CheckAbort,
         Wait, WaitTimesOut, UnexpectedParty, HookinFails, Finish, Goto, Raise, remote
<1>2. TypeOK
  BY DEF SaidInv
<1>3. past' \in Seq(grammar)
  <2>1. CASE YieldRun
    <3>1. history \in grammar /\ past' = Append(past, history)
      BY <2>1 DEF YieldRun, SaidInv, CompleteIsRun
    <3>2. past \in Seq(grammar)
      BY <1>2 DEF TypeOK
    <3> QED
      BY <3>1, <3>2
  <2>2. CASE ~ YieldRun
    <3>1. past' = past
      BY <2>2 DEF StayingStep, Compute, TakeTurn, Generate, FallBack, GenerateFails, CheckAbort,
                  Wait, WaitTimesOut, UnexpectedParty, HookinFails, Finish
    <3> QED
      BY <1>2, <3>1 DEF TypeOK
  <2> QED
    BY <2>1, <2>2
<1>4. next_packet' \in Seq(Packet) /\ guide_to_end' \in BOOLEAN
  <2>1. next_packet \in Seq(Packet) /\ guide_to_end \in BOOLEAN
    BY <1>2 DEF TypeOK
  <2>2. GuideChoices \subseteq BOOLEAN
    BY <2>1 DEF GuideChoices
  <2>3. guide_to_end' \in GuideChoices \/ guide_to_end' = guide_to_end
    BY DEF StayingStep, Compute, YieldRun, TakeTurn, Generate, FallBack, GenerateFails, CheckAbort,
         Wait, WaitTimesOut, UnexpectedParty, HookinFails, Finish
  <2>4. next_packet' = <<>> \/ next_packet' = next_packet \/ \E p \in Packet : next_packet' = <<p>>
    BY DEF StayingStep, Compute, YieldRun, TakeTurn, Generate, FallBack, GenerateFails, CheckAbort,
         Wait, WaitTimesOut, UnexpectedParty, HookinFails, Finish
  <2>5. \A p \in Packet : <<p>> \in Seq(Packet)
    OBVIOUS
  <2>6. <<>> \in Seq(Packet)
    OBVIOUS
  <2>7. next_packet' \in Seq(Packet)
    BY <2>1, <2>4, <2>5, <2>6, Zenon
  <2> QED
    BY <2>1, <2>2, <2>3, <2>7
<1>5. /\ pc' \in {"compute", "turn", "generating", "fallback", "generated", "transmitting",
                  "sent", "waiting", "parsing", "hookin", "complete", "yielded", "done",
                  "raised"}
      /\ error' \in {"none", "no forecast", "no solution", "transmit", "timeout",
                     "unexpected party", "unparsable", "constraints"}
  BY <1>2 DEF StayingStep, Compute, YieldRun, TakeTurn, Generate, FallBack, GenerateFails, CheckAbort,
         Wait, WaitTimesOut, UnexpectedParty, HookinFails, Finish, Goto, Raise, TypeOK
<1>6. TypeOK'
  BY <1>1, <1>2, <1>3, <1>4, <1>5 DEF TypeOK
<1>7. /\ HistoryIsWhatWasSaid' /\ TransmittedIsRecorded' /\ Senders'
      /\ ErrorIsRaised'
  <2>1. error = "none"
    BY <1>1 DEF SaidInv, ErrorIsRaised
  <2>2. error' # "transmit" /\ ErrorIsRaised'
    BY <1>1, <2>1 DEF ErrorIsRaised
  <2> QED
    BY <1>1, <1>6, <2>2, StayingKeepsSaid
<1>8. Forecast' = Forecast
  BY <1>1, SameForecast
<1>9. NextPacketIsForecast'
  <2>1. pc' # "hookin"
    BY <1>1
  <2>2. ASSUME pc' \in {"generated", "transmitting", "sent"}
        PROVE  \E p \in Forecast' : next_packet' = <<p>> /\ p.sender \in Fuzzer
    <3>1. CASE \E p \in Packet : Generate(p)
      BY <1>8, <3>1 DEF Generate
    <3>2. CASE CheckAbort
      BY <1>8, <3>2 DEF CheckAbort, SaidInv, NextPacketIsForecast
    <3> QED
      BY <1>1, <2>2, <3>1, <3>2 DEF StayingStep, Compute, YieldRun, TakeTurn, FallBack, GenerateFails,
         Wait, WaitTimesOut, UnexpectedParty, HookinFails, Finish, Goto, Raise
  <2> QED
    BY <2>1, <2>2 DEF NextPacketIsForecast
<1>10. CompleteIsRun'
  <2>1. ASSUME pc' = "complete"
        PROVE  history \in grammar
    <3>1. Compute
      BY <2>1 DEF StayingStep, YieldRun, TakeTurn, Generate, FallBack, GenerateFails, CheckAbort,
         Wait, WaitTimesOut, UnexpectedParty, HookinFails, Finish, Goto, Raise
    <3> QED
      BY <2>1, <3>1 DEF Compute, Goto, Raise, IsComplete
  <2> QED
    BY <1>1, <2>1 DEF CompleteIsRun
<1>11. YieldsCompleteRuns'
  <2>1. past' \in Seq(grammar)
    BY <1>3
  <2>2. \A i \in DOMAIN past' : past'[i] \in grammar
    BY <2>1
  <2>3. ASSUME pc' = "yielded"
        PROVE  past' # <<>> /\ past'[Len(past')] = history
    <3>1. YieldRun
      BY <2>3 DEF StayingStep, Compute, TakeTurn, Generate, FallBack, GenerateFails, CheckAbort,
         Wait, WaitTimesOut, UnexpectedParty, HookinFails, Finish, Goto, Raise
    <3>2. past \in Seq(grammar) /\ history \in grammar /\ past' = Append(past, history)
      BY <1>2, <3>1 DEF YieldRun, SaidInv, CompleteIsRun, TypeOK
    <3> QED
      BY <3>2, AppendProperties
  <2> QED
    BY <1>1, <2>2, <2>3 DEF YieldsCompleteRuns
<1> QED
  BY <1>6, <1>7, <1>9, <1>10, <1>11 DEF SaidInv
-------------------------------------------------------------------------------
(* The steps that move packets.                                            *)

\* transmit() was called with a packet, which the remote parties have got or not.
LEMMA SendingKeepsSaid ==
  ASSUME SaidInv, pc = "transmitting", TypeOK',
         NEW p \in Packet, next_packet = <<p>>, p.sender \in Fuzzer,
         wire' = Append(wire, p) \/ (wire' = wire /\ error' = "transmit" /\ pc' = "raised"),
         transmitted' = IF LeavesFandango(p) THEN Append(transmitted, p) ELSE transmitted,
         pc' = "sent" \/ (pc' = "raised" /\ error' = "transmit"),
         UNCHANGED <<history, next_packet, buffer, channel>>
  PROVE  HistoryIsWhatWasSaid' /\ TransmittedIsRecorded'
<1>1. p.sender \notin External /\ error = "none"
  BY PacketParties DEF SaidInv, ErrorIsRaised
<1>2. history \in Seq(Packet) /\ wire \in Seq(Packet)
  BY DEF SaidInv, TypeOK
<1>3. WithNext' = Append(history, p)
  <2>1. WithNext = Append(history, p)
    BY <1>2, WithNextIsAppend
  <2> QED
    BY <2>1 DEF WithNext
<1>4. \A A : Of(A, Append(wire, p)) = IF p.sender \in A THEN Append(Of(A, wire), p)
                                                      ELSE Of(A, wire)
  BY <1>2, OfAppend
<1>5. /\ Of(Fuzzer, wire) = Of(Fuzzer, history)
      /\ Of(Fuzzer, Append(wire, p)) = Of(Fuzzer, Append(history, p))
  BY <1>1, <1>2, <1>4, OfAppend DEF SaidInv, HistoryIsWhatWasSaid
<1>6. ASSUME NEW s \in External
      PROVE  Of({s}, history') \o InTransit(s)' = Of({s}, wire')
  <2>1. Of({s}, wire') = Of({s}, wire)
    BY <1>1, <1>4
  <2>2. InTransit(s)' = InTransit(s)
    BY DEF InTransit
  <2>3. Of({s}, history) \o InTransit(s) = Of({s}, wire)
    BY DEF SaidInv, HistoryIsWhatWasSaid
  <2> QED
    BY <2>1, <2>2, <2>3
<1>7. HistoryIsWhatWasSaid'
  <2>1. /\ Of(Fuzzer, wire)' = Of(Fuzzer, wire') /\ Of(Fuzzer, history)' = Of(Fuzzer, history)
        /\ Of(Fuzzer, WithNext)' = Of(Fuzzer, Append(history, p))
    BY <1>3 DEF Of
  <2>2. Of(Fuzzer, wire)' \in IF pc' = "sent" THEN {Of(Fuzzer, WithNext)'}
                              ELSE IF error' = "transmit"
                              THEN {Of(Fuzzer, history)', Of(Fuzzer, WithNext)'}
                              ELSE {Of(Fuzzer, history)'}
    <3>1. CASE wire' = Append(wire, p)
      BY <1>5, <2>1, <3>1
    <3>2. CASE wire' = wire /\ error' = "transmit" /\ pc' # "sent"
      BY <1>5, <2>1, <3>2
    <3> QED
      BY <3>1, <3>2
  <2> QED
    BY <1>6, <2>2 DEF HistoryIsWhatWasSaid, Of
<1>8. TransmittedIsRecorded'
  <2>1. transmitted = Recorded(history)
    BY <1>1 DEF SaidInv, TransmittedIsRecorded
  <2>2. transmitted' = Recorded(Append(history, p))
    BY <1>2, <2>1, RecordedAppend
  <2>3. Recorded(WithNext)' = Recorded(Append(history, p))
    BY <1>3 DEF Recorded, LeavesFandango
  <2> QED
    BY <2>2, <2>3 DEF TransmittedIsRecorded, Recorded, LeavesFandango
<1> QED
  BY <1>7, <1>8

LEMMA TransmitKeepsSaidInv ==
  ASSUME SaidInv, Transmit \/ TransmitFails
  PROVE  SaidInv'
<1>1. PICK p \in Packet : next_packet = <<p>> /\ p \in Forecast /\ p.sender \in Fuzzer
  BY ForecastType DEF Transmit, TransmitFails, Attempt, SaidInv, NextPacketIsForecast
<1>2. /\ wire' = Append(wire, p) \/ (wire' = wire /\ error' = "transmit" /\ pc' = "raised")
      /\ transmitted' = IF LeavesFandango(p) THEN Append(transmitted, p) ELSE transmitted
      /\ pc = "transmitting"
      /\ (pc' = "sent" /\ error' = error) \/ (pc' = "raised" /\ error' = "transmit")
      /\ UNCHANGED <<grammar, bounded, history, past, guide_to_end, next_packet, buffer, channel>>
  BY <1>1 DEF Transmit, TransmitFails, Attempt, Goto, Raise
<1>3. TypeOK /\ wire \in Seq(Packet) /\ transmitted \in Seq(Packet)
  BY DEF SaidInv, TypeOK
<1>4. TypeOK'
  <2>1. wire' \in Seq(Packet) /\ transmitted' \in Seq(Packet)
    BY <1>2, <1>3
  <2> QED
    BY <1>2, <1>3, <2>1 DEF TypeOK
<1>5. HistoryIsWhatWasSaid' /\ TransmittedIsRecorded'
  BY <1>1, <1>2, <1>4, SendingKeepsSaid
<1>6. Forecast' = Forecast
  BY <1>2, SameForecast
<1>7. /\ Senders' /\ NextPacketIsForecast' /\ CompleteIsRun' /\ ErrorIsRaised'
      /\ YieldsCompleteRuns'
  BY <1>1, <1>2, <1>6
     DEF SaidInv, Senders, NextPacketIsForecast, CompleteIsRun, ErrorIsRaised,
         YieldsCompleteRuns
<1> QED
  BY <1>4, <1>5, <1>7 DEF SaidInv

\* What was transmitted becomes the last of the history.
LEMMA RecordKeepsSaidInv ==
  ASSUME SaidInv, Record
  PROVE  SaidInv'
<1>1. PICK p \in Packet : next_packet = <<p>> /\ p.sender \in Fuzzer
  BY ForecastType DEF Record, SaidInv, NextPacketIsForecast
<1>2. p.sender \notin External
  BY <1>1, PacketParties
<1>3. TypeOK /\ history \in Seq(Packet)
  BY DEF SaidInv, TypeOK
<1>4. WithNext = Append(history, p)
  BY <1>1, <1>3, WithNextIsAppend
<1>5. /\ history' = Append(history, p) /\ pc = "sent" /\ pc' = "compute" /\ error' = error
      /\ UNCHANGED <<grammar, bounded, past, guide_to_end, next_packet, buffer, channel, wire,
                     transmitted>>
  BY <1>4 DEF Record, Goto, remote, WithNext
<1>6. error = "none"
  BY <1>5 DEF SaidInv, ErrorIsRaised
<1>7. TypeOK'
  <2>1. history' \in Seq(Packet)
    BY <1>3, <1>5
  <2> QED
    BY <1>3, <1>5, <2>1 DEF TypeOK
<1>8. Of(Fuzzer, history') = Of(Fuzzer, wire')
  BY <1>4, <1>5 DEF SaidInv, HistoryIsWhatWasSaid
<1>9. ASSUME NEW s \in External
      PROVE  Of({s}, history') \o InTransit(s)' = Of({s}, wire')
  <2>1. Of({s}, history') = Of({s}, history)
    BY <1>2, <1>3, <1>5, OfAppend
  <2>2. InTransit(s)' = InTransit(s)
    BY <1>5 DEF InTransit
  <2>3. Of({s}, history) \o InTransit(s) = Of({s}, wire)
    BY <1>5 DEF SaidInv, HistoryIsWhatWasSaid
  <2> QED
    BY <1>5, <2>1, <2>2, <2>3
<1>10. HistoryIsWhatWasSaid'
  BY <1>5, <1>6, <1>8, <1>9 DEF HistoryIsWhatWasSaid, Of
<1>11. TransmittedIsRecorded'
  <2>1. transmitted' = Recorded(history')
    BY <1>4, <1>5 DEF SaidInv, TransmittedIsRecorded
  <2> QED
    BY <1>5, <1>6, <2>1, RecordedPrimed DEF TransmittedIsRecorded
<1>12. /\ Senders' /\ NextPacketIsForecast' /\ CompleteIsRun' /\ ErrorIsRaised'
       /\ YieldsCompleteRuns'
  BY <1>5, <1>6 DEF SaidInv, Senders, NextPacketIsForecast, CompleteIsRun, ErrorIsRaised,
                    YieldsCompleteRuns
<1> QED
  BY <1>7, <1>10, <1>11, <1>12 DEF SaidInv

\* The first packet of its sender goes from the buffer to next_packet.
LEMMA ParseKeepsSaidInv ==
  ASSUME SaidInv, Parse
  PROVE  SaidInv'
<1>1. PICK i \in Heard :
        /\ \A j \in Heard : i <= j
        /\ IF buffer[i] \in Forecast
           THEN /\ next_packet' = <<buffer[i]>>
                /\ buffer' = Without(buffer, i)
                /\ Goto("hookin")
           ELSE /\ Raise("unparsable")
                /\ UNCHANGED <<next_packet, buffer>>
  BY DEF Parse
<1>2. /\ pc = "parsing"
      /\ UNCHANGED <<grammar, bounded, history, past, guide_to_end, channel, wire, transmitted>>
  BY DEF Parse
<1>3. TypeOK /\ buffer \in Seq(Packet) /\ history \in Seq(Packet) /\ error = "none"
  BY <1>2 DEF SaidInv, TypeOK, ErrorIsRaised
<1>4. CASE buffer[i] \notin Forecast
  <2>1. TypeOK'
    BY <1>1, <1>2, <1>3, <1>4 DEF TypeOK, Raise
  <2>2. /\ pc' = "raised" /\ pc = "parsing" /\ error' = "unparsable"
        /\ UNCHANGED <<grammar, history, buffer, channel, wire, transmitted>>
    BY <1>1, <1>2, <1>4 DEF Raise
  <2>3. HistoryIsWhatWasSaid' /\ TransmittedIsRecorded' /\ Senders'
    BY <2>1, <2>2, StayingKeepsSaid
  <2> QED
    BY <1>2, <2>1, <2>2, <2>3
       DEF SaidInv, NextPacketIsForecast, CompleteIsRun, ErrorIsRaised, YieldsCompleteRuns
<1>5. CASE buffer[i] \in Forecast
  <2> DEFINE q == buffer[i]
  <2>1. q \in Packet /\ i \in DOMAIN buffer /\ q.sender \in External
    BY <1>5, ForecastType DEF Heard, SaidInv, Senders
  <2>2. /\ next_packet' = <<q>> /\ buffer' = Without(buffer, i)
        /\ pc' = "hookin" /\ error' = error
    BY <1>1, <1>5 DEF Goto
  <2>3. /\ buffer' \in Seq(Packet) /\ DOMAIN buffer' = 1..(Len(buffer) - 1)
        /\ \A k \in 1..(Len(buffer) - 1) : buffer'[k] = IF k < i THEN buffer[k] ELSE buffer[k + 1]
    <3>1. buffer' = TakenOut(buffer, i)
      BY <2>2 DEF Without, TakenOut
    <3> QED
      BY <1>3, <2>1, <3>1, TakenOutAt
  <2>4. TypeOK'
    <3>1. <<q>> \in Seq(Packet)
      BY <2>1
    <3> QED
      BY <1>2, <1>3, <2>2, <2>3, <3>1 DEF TypeOK
  <2>5. \A k \in DOMAIN buffer : buffer[k].sender = q.sender => i <= k
    BY <1>1 DEF Heard
  <2> HIDE DEF q
  <2>6. \A s : Of({s}, buffer) = IF s = q.sender THEN <<q>> \o Of({s}, buffer')
                                                ELSE Of({s}, buffer')
    BY <1>3, <2>1, <2>2, <2>5, OfWithoutFirst DEF q
  <2>7. ASSUME NEW s \in External
        PROVE  Of({s}, history') \o InTransit(s)' = Of({s}, wire')
    <3>1. Of({s}, history) \o InTransit(s) = Of({s}, wire)
      BY <1>2 DEF SaidInv, HistoryIsWhatWasSaid
    <3>2. InTransit(s) = Waiting(s)
      BY <1>2, <1>3, InTransitIsWaiting
    <3>3. Of({s}, buffer') \in Seq(Packet) /\ channel[s] \in Seq(Packet)
      BY <1>3, <2>3, OfType, WaitingType
    <3>4. InTransit(s)' = (IF q.sender = s THEN <<q>> \o Of({s}, buffer') ELSE Of({s}, buffer'))
                              \o channel[s]
      <4>1. Of({s}, next_packet') = IF q.sender = s THEN <<q>> ELSE <<>>
        BY <2>1, <2>2, OfSingle
      <4>2. InTransit(s)' = (Of({s}, next_packet') \o Of({s}, buffer')) \o channel[s]
        BY <1>2, <2>2 DEF InTransit, Of
      <4>3. <<>> \o Of({s}, buffer') = Of({s}, buffer')
        BY <3>3, ConcatEmptySeq
      <4> QED
        BY <4>1, <4>2, <4>3
    <3>5. InTransit(s)' = Waiting(s)
      BY <2>6, <3>4 DEF Waiting
    <3> QED
      BY <1>2, <3>1, <3>2, <3>5 DEF Of
  <2>8. HistoryIsWhatWasSaid'
    BY <1>2, <1>3, <2>2, <2>7 DEF SaidInv, HistoryIsWhatWasSaid, Of
  <2>9. Senders'
    <3>1. ASSUME NEW k \in DOMAIN buffer'
          PROVE  buffer'[k].sender \in External
      <4>1. k \in 1..(Len(buffer) - 1) /\ Len(buffer) \in Nat /\ DOMAIN buffer = 1..Len(buffer)
        BY <1>3, <2>3
      <4>2. k \in DOMAIN buffer /\ k + 1 \in DOMAIN buffer
        BY <4>1
      <4>3. \A j \in DOMAIN buffer : buffer[j].sender \in External
        BY DEF SaidInv, Senders
      <4> QED
        BY <2>3, <4>1, <4>2, <4>3
    <3> QED
      BY <1>2, <3>1 DEF SaidInv, Senders
  <2>10. Forecast' = Forecast
    BY <1>2, SameForecast
  <2>11. NextPacketIsForecast' /\ CompleteIsRun' /\ ErrorIsRaised' /\ YieldsCompleteRuns'
    BY <1>2, <1>3, <1>5, <2>1, <2>2, <2>10
       DEF SaidInv, NextPacketIsForecast, CompleteIsRun, ErrorIsRaised, YieldsCompleteRuns, q
  <2>12. TransmittedIsRecorded'
    <3>1. transmitted' = Recorded(history')
      BY <1>2, <1>3 DEF SaidInv, TransmittedIsRecorded
    <3> QED
      BY <1>3, <2>2, <3>1, RecordedPrimed DEF TransmittedIsRecorded
  <2> QED
    BY <2>4, <2>8, <2>9, <2>11, <2>12 DEF SaidInv
<1> QED
  BY <1>4, <1>5

\* The packet that was parsed becomes the last of the history.
LEMMA HookinKeepsSaidInv ==
  ASSUME SaidInv, Hookin
  PROVE  SaidInv'
<1>1. PICK q \in Packet : next_packet = <<q>> /\ q.sender \in External
  BY ForecastType DEF Hookin, SaidInv, NextPacketIsForecast
<1>2. q.sender \notin Fuzzer
  BY <1>1, PacketParties
<1>3. TypeOK /\ history \in Seq(Packet) /\ error = "none"
  BY DEF Hookin, SaidInv, TypeOK, ErrorIsRaised
<1>4. /\ history' = Append(history, q) /\ pc = "hookin" /\ pc' = "compute" /\ error' = error
      /\ UNCHANGED <<grammar, bounded, past, guide_to_end, next_packet, buffer, channel, wire,
                     transmitted>>
  <2>1. history \o <<q>> = Append(history, q)
    BY <1>1, <1>3, AppendIsConcat
  <2> QED
    BY <1>1, <2>1 DEF Hookin, Goto, remote
<1>5. TypeOK'
  <2>1. history' \in Seq(Packet)
    BY <1>1, <1>3, <1>4
  <2> QED
    BY <1>3, <1>4, <2>1 DEF TypeOK
<1>6. Of(Fuzzer, history') = Of(Fuzzer, history)
  BY <1>2, <1>3, <1>4, OfAppend
<1>7. ASSUME NEW s \in External
      PROVE  Of({s}, history') \o InTransit(s)' = Of({s}, wire')
  <2>1. Of({s}, history) \o InTransit(s) = Of({s}, wire)
    BY <1>4 DEF SaidInv, HistoryIsWhatWasSaid
  <2>2. InTransit(s) = IF q.sender = s THEN <<q>> \o Waiting(s) ELSE Waiting(s)
    BY <1>1, <1>3, <1>4, InTransitWithNext
  <2>3. InTransit(s)' = Waiting(s)
    <3>1. InTransit(s)' = Waiting(s)'
      BY <1>4, <1>5, WaitingPrimed
    <3> QED
      BY <1>4, <3>1 DEF Waiting
  <2>4. Of({s}, history') = IF q.sender = s THEN Append(Of({s}, history), q)
                                            ELSE Of({s}, history)
    BY <1>1, <1>3, <1>4, OfAppend
  <2>5. Of({s}, history) \in Seq(Packet) /\ Waiting(s) \in Seq(Packet)
    BY <1>3, WaitingType
  <2>6. <<q>> \in Seq(Packet) /\ Append(Of({s}, history), q) = Of({s}, history) \o <<q>>
    BY <2>5, AppendIsConcat
  <2>7. (Of({s}, history) \o <<q>>) \o Waiting(s) = Of({s}, history) \o (<<q>> \o Waiting(s))
    BY <2>5, <2>6, Associative
  <2>8. Of({s}, history') \o InTransit(s)' = Of({s}, wire)
    BY <2>1, <2>2, <2>3, <2>4, <2>6, <2>7
  <2> QED
    BY <1>4, <2>8 DEF Of
<1>8. HistoryIsWhatWasSaid'
  <2>1. Of(Fuzzer, history') = Of(Fuzzer, wire')
    BY <1>3, <1>4, <1>6 DEF SaidInv, HistoryIsWhatWasSaid
  <2> QED
    BY <1>3, <1>4, <1>7, <2>1 DEF HistoryIsWhatWasSaid, Of
<1>9. TransmittedIsRecorded'
  <2>1. transmitted = Recorded(history)
    BY <1>3, <1>4 DEF SaidInv, TransmittedIsRecorded
  <2>2. transmitted' = Recorded(history')
    BY <1>2, <1>3, <1>4, <2>1, RecordedAppend
  <2> QED
    BY <1>3, <1>4, <2>2, RecordedPrimed DEF TransmittedIsRecorded
<1>10. Senders' /\ NextPacketIsForecast' /\ CompleteIsRun' /\ ErrorIsRaised'
       /\ YieldsCompleteRuns'
  BY <1>3, <1>4 DEF SaidInv, Senders, NextPacketIsForecast, CompleteIsRun, ErrorIsRaised,
                    YieldsCompleteRuns
<1> QED
  BY <1>5, <1>8, <1>9, <1>10 DEF SaidInv

\* A packet that a remote party sends is said, and on its way.
LEMMA RemoteSendsKeepsSaidInv ==
  ASSUME SaidInv, NEW p \in Packet, RemoteSends(p)
  PROVE  SaidInv'
<1> DEFINE r == p.sender
<1>1. r \in External /\ r \notin Fuzzer
  BY PacketParties DEF RemoteSends
<1>2. /\ channel' = [channel EXCEPT ![r] = Append(@, p)] /\ wire' = Append(wire, p)
      /\ UNCHANGED <<grammar, bounded, pc, error, history, past, guide_to_end, next_packet,
                     buffer, transmitted>>
      /\ pc # "yielded" /\ pc # "raised"
  BY DEF RemoteSends
<1>3. TypeOK /\ channel \in [External -> Seq(Packet)] /\ wire \in Seq(Packet)
  BY DEF SaidInv, TypeOK
<1> HIDE DEF r
<1>4. /\ channel'[r] = Append(channel[r], p)
      /\ \A s \in External \ {r} : channel'[s] = channel[s]
      /\ channel' \in [External -> Seq(Packet)]
  <2>1. channel[r] \in Seq(Packet)
    BY <1>1, <1>3
  <2>2. Append(channel[r], p) \in Seq(Packet)
    BY <2>1
  <2> QED
    BY <1>1, <1>2, <1>3, <2>2
<1>5. TypeOK'
  <2>1. wire' \in Seq(Packet)
    BY <1>2, <1>3
  <2> QED
    BY <1>2, <1>3, <1>4, <2>1 DEF TypeOK
<1>6. \A A : Of(A, wire') = IF r \in A THEN Append(Of(A, wire), p) ELSE Of(A, wire)
  BY <1>2, <1>3, OfAppend DEF r
<1>7. ASSUME pc # "raised", NEW s \in External
      PROVE  Of({s}, history') \o InTransit(s)' = Of({s}, wire')
  <2> DEFINE before == IF pc = "hookin" THEN Of({s}, next_packet) ELSE <<>>
             near == before \o Of({s}, buffer)
  <2>1. Of({s}, history) \o (near \o channel[s]) = Of({s}, wire)
    BY <1>7 DEF SaidInv, HistoryIsWhatWasSaid, InTransit
  <2>2. InTransit(s)' = near \o channel'[s] /\ Of({s}, history') = Of({s}, history)
    BY <1>2 DEF InTransit, Of
  <2>3. /\ near \in Seq(Packet) /\ Of({s}, history) \in Seq(Packet)
        /\ channel[s] \in Seq(Packet)
    <3>1. /\ next_packet \in Seq(Packet) /\ buffer \in Seq(Packet)
          /\ history \in Seq(Packet)
      BY <1>3 DEF TypeOK
    <3>2. /\ Of({s}, next_packet) \in Seq(Packet) /\ Of({s}, buffer) \in Seq(Packet)
          /\ Of({s}, history) \in Seq(Packet)
      BY <3>1, OfType
    <3>3. before \in Seq(Packet)
      <4>1. <<>> \in Seq(Packet)
        OBVIOUS
      <4> QED
        BY <3>2, <4>1
    <3> HIDE DEF before
    <3> QED
      BY <1>3, <3>2, <3>3, ConcatProperties
  <2> HIDE DEF near
  <2>4. CASE s # r
    <3>1. channel'[s] = channel[s]
      BY <1>4, <2>4
    <3>2. Of({s}, wire') = Of({s}, wire)
      BY <1>6, <2>4
    <3> QED
      BY <2>1, <2>2, <3>1, <3>2
  <2>5. CASE s = r
    <3>1. Of({s}, wire') = Append(Of({s}, wire), p)
      BY <1>6, <2>5
    <3>2. InTransit(s)' = near \o Append(channel[s], p)
      BY <1>4, <2>2, <2>5
    <3>3. Of({s}, history) \o (near \o Append(channel[s], p))
             = Append(Of({s}, history) \o (near \o channel[s]), p)
      BY <2>3, AppendAtEnd
    <3> QED
      BY <2>1, <2>2, <3>1, <3>2, <3>3
  <2> QED
    BY <2>4, <2>5
<1>8. HistoryIsWhatWasSaid'
  <2>1. Of(Fuzzer, wire') = Of(Fuzzer, wire) /\ WithNext' = WithNext
    BY <1>1, <1>2, <1>6 DEF WithNext
  <2>2. pc' # "raised" => \A s \in External :
           Of({s}, history') \o InTransit(s)' = Of({s}, wire')
    BY <1>2, <1>7
  <2> QED
    BY <1>2, <2>1, <2>2 DEF SaidInv, HistoryIsWhatWasSaid, Of
<1>9. Senders'
  <2>1. ASSUME NEW s \in External, NEW i \in DOMAIN channel'[s]
        PROVE  channel'[s][i].sender = s
    <3>1. CASE s # r
      BY <1>4, <2>1, <3>1 DEF SaidInv, Senders
    <3>2. CASE s = r
      <4>1. channel[s] \in Seq(Packet) /\ channel'[s] = Append(channel[s], p)
        BY <1>3, <1>4, <3>2
      <4>2. CASE i \in DOMAIN channel[s]
        BY <4>1, <4>2 DEF SaidInv, Senders
      <4>3. CASE i \notin DOMAIN channel[s]
        <5>1. channel'[s][i] = p
          BY <2>1, <4>1, <4>3
        <5> QED
          BY <3>2, <5>1 DEF r
      <4> QED
        BY <4>2, <4>3
    <3> QED
      BY <3>1, <3>2
  <2> QED
    BY <1>2, <2>1 DEF SaidInv, Senders
<1>10. TransmittedIsRecorded'
  BY <1>2 DEF SaidInv, TransmittedIsRecorded, WithNext, Recorded, LeavesFandango
<1>11. Forecast' = Forecast
  BY <1>2, SameForecast
<1>12. NextPacketIsForecast' /\ CompleteIsRun' /\ ErrorIsRaised' /\ YieldsCompleteRuns'
  BY <1>2, <1>11 DEF SaidInv, NextPacketIsForecast, CompleteIsRun, ErrorIsRaised,
                     YieldsCompleteRuns
<1> QED
  BY <1>5, <1>8, <1>9, <1>10, <1>12 DEF SaidInv

\* A packet that arrives goes from its channel to the end of the buffer.
LEMMA ArriveKeepsSaidInv ==
  ASSUME SaidInv, NEW r \in External, Arrive(r)
  PROVE  SaidInv'
<1> DEFINE p == Head(channel[r])
<1>1. /\ channel[r] # <<>>
      /\ buffer' = Append(buffer, p) /\ channel' = [channel EXCEPT ![r] = Tail(@)]
      /\ UNCHANGED <<grammar, bounded, pc, error, history, past, guide_to_end, next_packet,
                     wire, transmitted>>
  BY DEF Arrive
<1>2. /\ TypeOK /\ channel \in [External -> Seq(Packet)] /\ buffer \in Seq(Packet)
      /\ channel[r] \in Seq(Packet)
  BY DEF SaidInv, TypeOK
<1>3. /\ p \in Packet /\ Tail(channel[r]) \in Seq(Packet)
      /\ channel[r] = <<p>> \o Tail(channel[r])
      /\ Len(Tail(channel[r])) = Len(channel[r]) - 1
      /\ \A i \in 1..Len(Tail(channel[r])) : Tail(channel[r])[i] = channel[r][i + 1]
  BY <1>1, <1>2, HeadTailProperties, FirstAndRest
<1>4. p.sender = r
  <2>1. 1 \in DOMAIN channel[r] /\ p = channel[r][1]
    BY <1>1, <1>2
  <2> QED
    BY <2>1 DEF SaidInv, Senders
<1> HIDE DEF p
<1>5. /\ channel'[r] = Tail(channel[r])
      /\ \A s \in External \ {r} : channel'[s] = channel[s]
      /\ channel' \in [External -> Seq(Packet)]
  BY <1>1, <1>2, <1>3
<1>6. TypeOK'
  <2>1. buffer' \in Seq(Packet)
    BY <1>1, <1>2, <1>3
  <2> QED
    BY <1>1, <1>2, <1>5, <2>1 DEF TypeOK
<1>7. \A A : Of(A, buffer') = IF r \in A THEN Append(Of(A, buffer), p) ELSE Of(A, buffer)
  BY <1>1, <1>2, <1>3, <1>4, OfAppend
<1>8. ASSUME pc # "raised", NEW s \in External
      PROVE  Of({s}, history') \o InTransit(s)' = Of({s}, wire')
  <2> DEFINE before == IF pc = "hookin" THEN Of({s}, next_packet) ELSE <<>>
             own == Of({s}, buffer)
  <2>1. /\ InTransit(s) = (before \o own) \o channel[s]
        /\ InTransit(s)' = (before \o Of({s}, buffer')) \o channel'[s]
    BY <1>1 DEF InTransit, Of
  <2>2. before \in Seq(Packet) /\ own \in Seq(Packet)
    <3>1. next_packet \in Seq(Packet)
      BY <1>2 DEF TypeOK
    <3>2. <<>> \in Seq(Packet)
      OBVIOUS
    <3>3. Of({s}, next_packet) \in Seq(Packet) /\ Of({s}, buffer) \in Seq(Packet)
      BY <1>2, <3>1, OfType
    <3> QED
      BY <3>2, <3>3
  <2>3. Of({s}, history) \o InTransit(s) = Of({s}, wire)
    BY <1>8 DEF SaidInv, HistoryIsWhatWasSaid
  <2> HIDE DEF before, own
  <2>4. InTransit(s)' = InTransit(s)
    <3>1. CASE s # r
      <4>1. channel'[s] = channel[s]
        BY <1>5, <3>1
      <4>2. Of({s}, buffer') = own
        BY <1>7, <3>1 DEF own
      <4> QED
        BY <2>1, <4>1, <4>2
    <3>2. CASE s = r
      <4>1. Of({s}, buffer') = Append(own, p) /\ channel'[s] = Tail(channel[s])
        BY <1>5, <1>7, <3>2 DEF own
      <4>2. channel[s] = <<p>> \o Tail(channel[s]) /\ Tail(channel[s]) \in Seq(Packet)
        BY <1>3, <3>2
      <4>3. (before \o Append(own, p)) \o Tail(channel[s])
               = (before \o own) \o (<<p>> \o Tail(channel[s]))
        BY <1>3, <2>2, <4>2, AppendInside
      <4> QED
        BY <2>1, <4>1, <4>2, <4>3
    <3> QED
      BY <3>1, <3>2
  <2> QED
    BY <1>1, <2>3, <2>4 DEF Of
<1>9. HistoryIsWhatWasSaid'
  <2>1. WithNext' = WithNext
    BY <1>1 DEF WithNext
  <2> QED
    BY <1>1, <1>8, <2>1 DEF SaidInv, HistoryIsWhatWasSaid, Of
<1>10. Senders'
  <2>1. ASSUME NEW i \in DOMAIN buffer'
        PROVE  buffer'[i].sender \in External
    <3>1. CASE i \in DOMAIN buffer
      <4>1. buffer'[i] = buffer[i]
        BY <1>1, <1>2, <3>1
      <4> QED
        BY <3>1, <4>1 DEF SaidInv, Senders
    <3>2. CASE i \notin DOMAIN buffer
      <4>1. buffer'[i] = p
        BY <1>1, <1>2, <2>1, <3>2
      <4> QED
        BY <1>4, <4>1
    <3> QED
      BY <3>1, <3>2
  <2>2. ASSUME NEW s \in External, NEW i \in DOMAIN channel'[s]
        PROVE  channel'[s][i].sender = s
    <3>1. CASE s # r
      BY <1>5, <2>2, <3>1 DEF SaidInv, Senders
    <3>2. CASE s = r
      <4>1. /\ i \in 1..Len(Tail(channel[r])) /\ channel'[s][i] = channel[r][i + 1]
            /\ Len(channel[r]) \in Nat /\ DOMAIN channel[r] = 1..Len(channel[r])
        BY <1>2, <1>3, <1>5, <2>2, <3>2
      <4>2. i + 1 \in DOMAIN channel[r]
        BY <1>3, <4>1
      <4> QED
        BY <3>2, <4>1, <4>2 DEF SaidInv, Senders
    <3> QED
      BY <3>1, <3>2
  <2> QED
    BY <2>1, <2>2 DEF Senders
<1>11. TransmittedIsRecorded'
  BY <1>1 DEF SaidInv, TransmittedIsRecorded, WithNext, Recorded, LeavesFandango
<1>12. Forecast' = Forecast
  BY <1>1, SameForecast
<1>13. NextPacketIsForecast' /\ CompleteIsRun' /\ ErrorIsRaised' /\ YieldsCompleteRuns'
  BY <1>1, <1>12 DEF SaidInv, NextPacketIsForecast, CompleteIsRun, ErrorIsRaised,
                     YieldsCompleteRuns
<1> QED
  BY <1>6, <1>9, <1>10, <1>11, <1>13 DEF SaidInv

\* At the beginning of a run nothing has been said.
LEMMA NothingSaid ==
  ASSUME TypeOK', pc' = "compute", error' = "none", history' = <<>>, wire' = <<>>, transmitted' = <<>>,
         buffer' = <<>>, channel' = [s \in External |-> <<>>]
  PROVE  SaidInv'
<1>1. \A A : Of(A, <<>>) = <<>>
  BY OfEmpty
<1>2. HistoryIsWhatWasSaid'
  <2>1. Of(Fuzzer, history') = Of(Fuzzer, wire')
    BY <1>1
  <2>2. ASSUME NEW s \in External
        PROVE  Of({s}, history') \o InTransit(s)' = Of({s}, wire')
    <3>1. Of({s}, buffer') = <<>> /\ Of({s}, history') = <<>> /\ Of({s}, wire') = <<>>
          /\ channel'[s] = <<>>
      BY <1>1, <2>2
    <3>2. InTransit(s)' = (<<>> \o <<>>) \o <<>>
      BY <3>1 DEF InTransit, Of
    <3> QED
      BY <3>1, <3>2
  <2> QED
    BY <2>1, <2>2 DEF HistoryIsWhatWasSaid, Of
<1>3. TransmittedIsRecorded'
  BY RecordedEmpty, RecordedPrimed DEF TransmittedIsRecorded
<1>4. Senders' /\ NextPacketIsForecast' /\ CompleteIsRun' /\ ErrorIsRaised'
  BY DEF Senders, NextPacketIsForecast, CompleteIsRun, ErrorIsRaised
<1>5. YieldsCompleteRuns'
  BY DEF TypeOK, YieldsCompleteRuns
<1> QED
  BY <1>2, <1>3, <1>4, <1>5 DEF SaidInv

LEMMA NewRunKeepsSaidInv ==
  ASSUME SaidInv, NewRun
  PROVE  SaidInv'
<1>1. TypeOK'
  <2>1. <<>> \in Seq(Packet) /\ [s \in External |-> <<>>] \in [External -> Seq(Packet)]
    OBVIOUS
  <2> QED
    BY <2>1 DEF NewRun, SaidInv, TypeOK, Goto
<1>2. error = "none"
  BY DEF NewRun, SaidInv, ErrorIsRaised
<1> QED
  BY <1>1, <1>2, NothingSaid DEF NewRun, Goto

LEMMA InitIsSaidInv ==
  ASSUME Init
  PROVE  SaidInv
<1>1. \A A : Of(A, <<>>) = <<>>
  BY OfEmpty
<1>2. TypeOK
  <2>1. <<>> \in Seq(Packet) /\ [s \in External |-> <<>>] \in [External -> Seq(Packet)]
    OBVIOUS
  <2>2. <<>> \in Seq(grammar)
    OBVIOUS
  <2> QED
    BY <2>1, <2>2 DEF Init, TypeOK
<1>3. HistoryIsWhatWasSaid
  <2>1. Of(Fuzzer, history) = Of(Fuzzer, wire)
    BY DEF Init
  <2>2. ASSUME NEW s \in External
        PROVE  Of({s}, history) \o InTransit(s) = Of({s}, wire)
    <3>1. /\ Of({s}, buffer) = <<>> /\ Of({s}, history) = <<>> /\ Of({s}, wire) = <<>>
          /\ channel[s] = <<>>
      BY <1>1 DEF Init
    <3>2. InTransit(s) = (<<>> \o <<>>) \o <<>>
      BY <3>1 DEF InTransit, Init
    <3> QED
      BY <3>1, <3>2
  <2> QED
    BY <2>1, <2>2 DEF HistoryIsWhatWasSaid, Init
<1>4. TransmittedIsRecorded
  BY RecordedEmpty DEF Init, TransmittedIsRecorded
<1>5. /\ Senders /\ NextPacketIsForecast /\ CompleteIsRun /\ ErrorIsRaised
      /\ YieldsCompleteRuns
  BY DEF Init, Senders, NextPacketIsForecast, CompleteIsRun, ErrorIsRaised,
         YieldsCompleteRuns
<1> QED
  BY <1>2, <1>3, <1>4, <1>5 DEF SaidInv

LEMMA NextKeepsSaidInv ==
  ASSUME SaidInv, [Next]_vars
  PROVE  SaidInv'
<1>1. CASE StayingStep
  BY <1>1, StayingKeepsSaidInv
<1>2. CASE Transmit \/ TransmitFails
  BY <1>2, TransmitKeepsSaidInv
<1>3. CASE Parse
  BY <1>3, ParseKeepsSaidInv
<1>4. CASE Hookin
  BY <1>4, HookinKeepsSaidInv
<1>5. CASE NewRun
  BY <1>5, NewRunKeepsSaidInv
<1>6. CASE \E p \in Packet : RemoteSends(p)
  BY <1>6, RemoteSendsKeepsSaidInv
<1>7. CASE \E s \in External : Arrive(s)
  BY <1>7, ArriveKeepsSaidInv
<1>8. CASE Record
  BY <1>8, RecordKeepsSaidInv
<1>9. CASE UNCHANGED vars
  BY <1>9 DEF vars, SaidInv, TypeOK, Senders, NextPacketIsForecast, CompleteIsRun,
              ErrorIsRaised, YieldsCompleteRuns, HistoryIsWhatWasSaid,
              TransmittedIsRecorded, InTransit, Of, WithNext, Recorded, Forecast,
              ForecastOf, LeavesFandango
<1> QED
  BY <1>1, <1>2, <1>3, <1>4, <1>5, <1>6, <1>7, <1>8, <1>9
     DEF Next, LoopStep, CallerStep, RemoteStep, StayingStep

\* At every point of the loop, of every remote party: what is in the history, what is being
\* entered into it, what is in the buffer and what is in the network make up what it said.
THEOREM SaidAlways == Spec => []SaidInv
<1>1. Init => SaidInv
  BY InitIsSaidInv
<1>2. SaidInv /\ [Next]_vars => SaidInv'
  BY NextKeepsSaidInv
<1> QED
  BY <1>1, <1>2, PTL DEF Spec

\* Every variable of the loop keeps its type; in particular every run that was yielded
\* is a run of the specification that is tested.
THEOREM TypeCorrect == Spec => []TypeOK
BY SaidAlways, PTL DEF SaidInv

\* Whatever is evolved and given up, and in whatever order messages arrive: of every
\* remote party the history, what is being entered into it, what was received and what
\* is in the network are together exactly what that party said, in its order, and the
\* history has all that Fandango said, but for the packet it is about to record or
\* failed to send.
THEOREM HistoryAlwaysWhatWasSaid == Spec => []HistoryIsWhatWasSaid
BY SaidAlways, PTL DEF SaidInv

\* What io_instance.transmit() was called with in a run is what the history records of
\* packets that leave Fandango, in the same order, and one packet more between the call
\* and the record, or when the call raises: then the loop ends with it.
THEOREM TransmittedAlwaysRecorded == Spec => []TransmittedIsRecorded
BY SaidAlways, PTL DEF SaidInv

\* Whatever the selector's flag says, and however old it is: what is yielded is a complete
\* run of the specification.
THEOREM OnlyRunsYielded == Spec => []YieldsCompleteRuns
BY SaidAlways, PTL DEF SaidInv
-------------------------------------------------------------------------------
(* In a protocol in which the parties take turns nobody is turned down.    *)

\* One sequence is the beginning of another.
Begins(w, v) == Len(w) <= Len(v) /\ \A n \in 1..Len(w) : w[n] = v[n]

\* What was said begins a run, and the history begins what was said; they differ only
\* while a remote party's packet is on its way, and then Fandango does not speak.
TurnInv ==
    /\ \E run \in grammar : Begins(wire, run)
    /\ Begins(history, wire)
    /\ pc \in {"hookin", "sent"} =>
          \E p \in Packet : next_packet = <<p>> /\ Begins(Append(history, p), wire)
    /\ pc \in {"generating", "fallback", "generated", "transmitting"} =>
          history = wire /\ NextParties \cap Fuzzer # {}
    /\ pc = "parsing" => buffer # <<>>
    /\ error \notin {"no forecast", "unparsable"}
    /\ error = "unexpected party" => \E s \in External : channel[s] # <<>>

LEMMA BeginsTransitive ==
  ASSUME NEW a \in Seq(Packet), NEW b \in Seq(Packet), NEW c \in Seq(Packet),
         Begins(a, b), Begins(b, c)
  PROVE  Begins(a, c)
BY DEF Begins

LEMMA BeginsAndAsLong ==
  ASSUME NEW a \in Seq(Packet), NEW b \in Seq(Packet), Begins(a, b), Len(a) = Len(b)
  PROVE  a = b
BY SeqEqual DEF Begins

\* One more packet of the sequence.
LEMMA BeginsNext ==
  ASSUME NEW a \in Seq(Packet), NEW b \in Seq(Packet), Begins(a, b), Len(a) < Len(b)
  PROVE  b[Len(a) + 1] \in Packet /\ Begins(Append(a, b[Len(a) + 1]), b)
<1> DEFINE l == Len(a)
           q == b[l + 1]
           longer == Append(a, q)
<1>1. l \in Nat /\ Len(b) \in Nat /\ l + 1 \in 1..Len(b) /\ q \in Packet
  OBVIOUS
<1>2. Len(longer) = l + 1 /\ longer[l + 1] = q /\ \A n \in 1..l : longer[n] = a[n]
  BY <1>1
<1> HIDE DEF longer
<1>3. ASSUME NEW n \in 1..(l + 1)
      PROVE  longer[n] = b[n]
  <2>1. CASE n = l + 1
    BY <1>2, <2>1
  <2>2. CASE n # l + 1
    <3>1. n \in 1..l
      BY <1>1, <2>2
    <3> QED
      BY <1>2, <3>1 DEF Begins
  <2> QED
    BY <2>1, <2>2
<1>4. Begins(longer, b)
  BY <1>1, <1>2, <1>3 DEF Begins
<1> QED
  BY <1>1, <1>4 DEF longer

\* The beginning of a sequence as a subsequence.
LEMMA BeginsAsSubSeq ==
  ASSUME NEW a \in Seq(Packet), NEW b \in Seq(Packet)
  PROVE  Begins(a, b) <=> Len(a) <= Len(b) /\ SubSeq(b, 1, Len(a)) = a
<1> DEFINE l == Len(a)
           front == SubSeq(b, 1, l)
<1>1. l \in Nat /\ Len(b) \in Nat
  OBVIOUS
<1>2. ASSUME l <= Len(b)
      PROVE  front \in Seq(Packet) /\ Len(front) = l /\ \A n \in 1..l : front[n] = b[n]
  <2>1. 0 \in 0..Len(b) /\ l \in 0..Len(b) /\ 0 + 1 = 1 /\ l - 0 = l
    BY <1>1, <1>2
  <2>2. /\ SubSeq(b, 0 + 1, l) \in Seq(Packet) /\ Len(SubSeq(b, 0 + 1, l)) = l - 0
        /\ SubSeq(b, 0 + 1, l) = [n \in 1..(l - 0) |-> b[n + 0]]
    BY <2>1, SubSeqAt
  <2>3. front = [n \in 1..l |-> b[n + 0]]
    BY <2>1, <2>2
  <2>4. \A n \in 1..l : n + 0 = n
    OBVIOUS
  <2> HIDE DEF front
  <2>5. \A n \in 1..l : front[n] = b[n]
    BY <2>3, <2>4
  <2> QED
    BY <2>1, <2>2, <2>5 DEF front
<1> HIDE DEF front
<1>3. ASSUME Begins(a, b)
      PROVE  l <= Len(b) /\ front = a
  <2>1. l <= Len(b) /\ \A n \in 1..l : a[n] = b[n]
    BY <1>3 DEF Begins
  <2> QED
    BY <1>2, <2>1, SeqEqual
<1>4. ASSUME l <= Len(b), front = a
      PROVE  Begins(a, b)
  BY <1>2, <1>4 DEF Begins
<1> QED
  BY <1>3, <1>4 DEF front

\* The forecast is what may follow: exactly the packets with which some run goes on.
LEMMA ForecastIsNext ==
  ASSUME TypeOK, NEW h \in Seq(Packet), NEW p \in Packet
  PROVE  p \in ForecastOf(h) <=> \E run \in grammar : Begins(Append(h, p), run)
<1> DEFINE longer == Append(h, p)
<1>1. longer \in Seq(Packet) /\ Len(longer) = Len(h) + 1 /\ Len(h) \in Nat
  OBVIOUS
<1>2. grammar \subseteq Seq(Packet)
  BY GrammarType
<1> HIDE DEF longer
<1>3. ASSUME NEW run \in grammar
      PROVE  (Len(h) < Len(run) /\ SubSeq(run, 1, Len(h) + 1) = longer) <=> Begins(longer, run)
  <2>1. run \in Seq(Packet) /\ Len(run) \in Nat
    BY <1>2
  <2>2. Begins(longer, run) <=> Len(longer) <= Len(run) /\ SubSeq(run, 1, Len(longer)) = longer
    BY <1>1, <2>1, BeginsAsSubSeq
  <2> QED
    BY <1>1, <2>1, <2>2
<1> QED
  BY <1>3 DEF ForecastOf, longer

\* Whose turn it is after the beginning of a run.
LEMMA WhoseTurn ==
  ASSUME TypeOK, TakesTurns, NEW h \in Seq(Packet), NEW run \in grammar, Begins(h, run),
         NEW p \in ForecastOf(h), NEW q \in ForecastOf(h)
  PROVE  \/ p.sender \in Fuzzer /\ q.sender \in Fuzzer
         \/ p.sender \in External /\ q.sender = p.sender
<1>1. run \in Seq(Packet) /\ Len(run) \in Nat /\ Len(h) \in Nat
  BY GrammarType
<1>2. Len(h) \in 0..Len(run) /\ SubSeq(run, 1, Len(h)) = h
  BY <1>1, BeginsAsSubSeq
<1> DEFINE senders == {x.sender : x \in ForecastOf(h)}
<1>3. senders \subseteq Fuzzer \/ \E s \in External : senders \subseteq {s}
  BY <1>2 DEF TakesTurns
<1>4. p.sender \in senders /\ q.sender \in senders
  OBVIOUS
<1> HIDE DEF senders
<1> QED
  BY <1>3, <1>4

\* What comes next in w is what its sender has said next.
LEMMA NextOfSender ==
  ASSUME NEW A, NEW h \in Seq(Packet), NEW w \in Seq(Packet), Begins(h, w),
         Len(h) < Len(w), w[Len(h) + 1].sender \in A
  PROVE  /\ Len(Of(A, h)) < Len(Of(A, w))
         /\ Of(A, w)[Len(Of(A, h)) + 1] = w[Len(h) + 1]
<1> DEFINE l == Len(h)
           J == PositionsIn(A, h)
           K == PositionsIn(A, w)
<1>1. /\ l \in Nat /\ Len(w) \in Nat /\ l + 1 \in 1..Len(w)
      /\ DOMAIN h = 1..l /\ DOMAIN w = 1..Len(w)
  OBVIOUS
<1>2. /\ J \in SUBSET (DOMAIN h) /\ Of(A, h) = Select(h, J)
      /\ K \in SUBSET (DOMAIN w) /\ Of(A, w) = Select(w, K)
  BY OfType
<1>3. /\ FinitePositions(J) /\ Cardinality(J) \in Nat /\ Len(Of(A, h)) = Cardinality(J)
      /\ FinitePositions(K) /\ Cardinality(K) \in Nat /\ Len(Of(A, w)) = Cardinality(K)
      /\ \A n \in 1..Cardinality(K) : Of(A, w)[n] = w[Nth(K, n)]
  BY <1>2, SelectionType
<1>4. l + 1 \in K /\ l + 1 \notin J
  BY <1>1, <1>2 DEF PositionsIn
<1>5. {j \in K : j <= l + 1} = J \cup {l + 1}
  <2>1. ASSUME NEW j \in 1..Len(w), j <= l
        PROVE  j \in K <=> j \in J
    BY <1>1, <2>1 DEF PositionsIn, Begins
  <2>2. \A j \in J : j \in 1..Len(w) /\ j <= l /\ j <= l + 1
    BY <1>1, <1>2
  <2>3. \A j \in K : j \in 1..Len(w) /\ (j <= l + 1 <=> j <= l \/ j = l + 1)
    BY <1>1, <1>2
  <2>4. l + 1 <= l + 1
    BY <1>1
  <2> HIDE DEF J, K
  <2> QED
    BY <1>4, <2>1, <2>2, <2>3, <2>4
<1>6. Rank(K, l + 1) = Cardinality(J) + 1
  <2> HIDE DEF J, K
  <2> QED
    BY <1>3, <1>4, <1>5, FS_AddElement DEF Rank, FinitePositions
<1>7. Rank(K, l + 1) \in 1..Cardinality(K) /\ Nth(K, Rank(K, l + 1)) = l + 1
  <2> HIDE DEF J, K
  <2> QED
    BY <1>3, <1>4, RankType, NthRank
<1> HIDE DEF J, K
<1> QED
  BY <1>3, <1>6, <1>7

\* While something received is not in the history, the history is behind.
LEMMA BufferedIsBehind ==
  ASSUME SaidInv, pc \notin {"raised", "hookin", "sent"}, buffer # <<>>
  PROVE  history # wire
<1>1. TypeOK /\ buffer \in Seq(Packet) /\ history \in Seq(Packet)
  BY DEF SaidInv, TypeOK
<1>2. 1 \in DOMAIN buffer
  BY <1>1
<1> DEFINE s == buffer[1].sender
           a == Of({s}, history)
           b == Of({s}, buffer)
<1>3. s \in External
  BY <1>2 DEF SaidInv, Senders
<1>4. b # <<>>
  BY <1>1, <1>2, OfNonempty
<1>5. a \o Waiting(s) = Of({s}, wire)
  BY <1>1, <1>3, InTransitIsWaiting DEF SaidInv, HistoryIsWhatWasSaid
<1>6. a \in Seq(Packet) /\ b \in Seq(Packet) /\ channel[s] \in Seq(Packet)
      /\ Waiting(s) \in Seq(Packet) /\ Waiting(s) = b \o channel[s]
  BY <1>1, <1>3, WaitingType DEF Waiting
<1> HIDE DEF a, b, s
<1>7. /\ Len(a \o Waiting(s)) = Len(a) + Len(Waiting(s))
      /\ Len(Waiting(s)) = Len(b) + Len(channel[s])
      /\ Len(a) \in Nat /\ Len(b) \in Nat /\ Len(channel[s]) \in Nat /\ Len(b) # 0
  BY <1>4, <1>6, ConcatProperties
<1>8. Len(Of({s}, wire)) # Len(a)
  BY <1>5, <1>7
<1> QED
  BY <1>8 DEF a

\* If the history is behind what was said, a remote party has spoken: it is its turn
\* and nobody else's, and what it said next is the first that is on its way from it.
LEMMA HistoryBehind ==
  ASSUME SaidInv, TakesTurns, TurnInv, pc \notin {"raised", "hookin", "sent"}, history # wire
  PROVE  \E q \in Forecast :
            /\ q.sender \in External /\ NextParties = {q.sender}
            /\ Begins(Append(history, q), wire)
            /\ Waiting(q.sender) # <<>> /\ Waiting(q.sender)[1] = q
<1> DEFINE l == Len(history)
           q == wire[l + 1]
<1>1. TypeOK /\ history \in Seq(Packet) /\ wire \in Seq(Packet) /\ l \in Nat
      /\ Len(wire) \in Nat
  <2>1. TypeOK /\ history \in Seq(Packet) /\ wire \in Seq(Packet)
    BY DEF SaidInv, TypeOK
  <2> QED
    BY <2>1
<1>2. Begins(history, wire) /\ l < Len(wire)
  <2>1. Begins(history, wire) /\ l <= Len(wire)
    BY DEF TurnInv, Begins
  <2>2. l # Len(wire)
    BY <1>1, <2>1, BeginsAndAsLong
  <2> QED
    BY <1>1, <2>1, <2>2
<1>3. q \in Packet /\ Begins(Append(history, q), wire)
  BY <1>1, <1>2, BeginsNext
<1> HIDE DEF q
<1>4. PICK run \in grammar : Begins(wire, run)
  BY DEF TurnInv
<1>5. run \in Seq(Packet) /\ Append(history, q) \in Seq(Packet)
  BY <1>1, <1>3, GrammarType
<1>6. Begins(history, run) /\ Begins(Append(history, q), run)
  BY <1>1, <1>2, <1>3, <1>4, <1>5, BeginsTransitive
<1>7. q \in ForecastOf(history)
  BY <1>1, <1>3, <1>6, ForecastIsNext
<1>8. q.sender \in External
  <2>1. ASSUME q.sender \in Fuzzer
        PROVE  FALSE
    <3>1. Len(Of(Fuzzer, history)) < Len(Of(Fuzzer, wire))
      BY <1>1, <1>2, <2>1, NextOfSender DEF q
    <3>2. Of(Fuzzer, history) = Of(Fuzzer, wire) /\ Of(Fuzzer, wire) \in Seq(Packet)
      BY <1>1, OfType DEF SaidInv, HistoryIsWhatWasSaid, ErrorIsRaised
    <3>3. Len(Of(Fuzzer, wire)) \in Nat
      BY <3>2
    <3> QED
      BY <3>1, <3>2, <3>3
  <2> QED
    BY <1>3, <2>1, PacketParties
<1>9. NextParties = {q.sender}
  <2>1. \A p \in ForecastOf(history) : p.sender = q.sender
    <3>1. ASSUME NEW p \in ForecastOf(history)
          PROVE  p.sender = q.sender
      <4>1. \/ q.sender \in Fuzzer /\ p.sender \in Fuzzer
            \/ q.sender \in External /\ p.sender = q.sender
        BY <1>1, <1>6, <1>7, WhoseTurn
      <4> QED
        BY <1>3, <1>8, <4>1, PacketParties
    <3> QED
      BY <3>1
  <2> QED
    BY <1>7, <2>1 DEF NextParties, Forecast
<1>10. Waiting(q.sender) # <<>> /\ Waiting(q.sender)[1] = q
  <2> DEFINE s == q.sender
             a == Of({s}, history)
             t == Waiting(s)
  <2>1. a \in Seq(Packet) /\ t \in Seq(Packet)
    BY <1>1, <1>8, WaitingType
  <2>2. a \o t = Of({s}, wire)
    BY <1>1, <1>8, InTransitIsWaiting DEF SaidInv, HistoryIsWhatWasSaid
  <2>3. Len(a) < Len(Of({s}, wire)) /\ Of({s}, wire)[Len(a) + 1] = q
    BY <1>1, <1>2, NextOfSender DEF q
  <2> HIDE DEF a, t
  <2>4. /\ Len(a) \in Nat /\ Len(t) \in Nat /\ Len(a \o t) = Len(a) + Len(t)
        /\ \A i \in 1..(Len(a) + Len(t)) : (a \o t)[i] =
              IF i <= Len(a) THEN a[i] ELSE t[i - Len(a)]
    BY <2>1, ConcatProperties
  <2>5. Len(a) + 1 \in 1..(Len(a) + Len(t)) /\ ~ (Len(a) + 1 <= Len(a))
        /\ (Len(a) + 1) - Len(a) = 1
    BY <2>2, <2>3, <2>4
  <2>6. (a \o t)[Len(a) + 1] = t[1]
    BY <2>4, <2>5
  <2>7. t[1] = q
    BY <2>2, <2>3, <2>6
  <2>8. Len(t) # 0
    BY <2>2, <2>3, <2>4
  <2>9. t # <<>>
    BY <2>8
  <2> QED
    BY <2>7, <2>9 DEF t
<1> QED
  BY <1>3, <1>7, <1>8, <1>9, <1>10 DEF Forecast

\* The steps that move nothing.
LEMMA StayingKeepsTurnInv ==
  ASSUME SaidInv, TakesTurns, TurnInv, StayingStep
  PROVE  TurnInv'
<1>1. /\ UNCHANGED <<grammar, history, buffer, channel, wire>>
      /\ pc # "raised" /\ pc' # "hookin" /\ pc' # "sent" /\ (pc = "hookin" => pc' = "raised")
  BY DEF StayingStep, Compute, YieldRun, TakeTurn, Generate, FallBack, GenerateFails, CheckAbort,
         Wait, WaitTimesOut, UnexpectedParty, HookinFails, Finish, Goto, Raise, remote
<1>2. TypeOK /\ history \in Seq(Packet) /\ wire \in Seq(Packet) /\ buffer \in Seq(Packet)
  BY DEF SaidInv, TypeOK
<1>3. (\E run \in grammar : Begins(wire, run))' /\ Begins(history, wire)'
  BY <1>1 DEF TurnInv, Begins
<1>4. NextParties' = NextParties
  BY <1>1, SameForecast
<1>5. ASSUME pc' \in {"generating", "fallback", "generated", "transmitting"}
      PROVE  history = wire /\ NextParties \cap Fuzzer # {}
  <2>1. CASE TakeTurn
    <3>1. pc = "turn" /\ NextParties \cap Fuzzer # {}
      BY <1>5, <2>1 DEF TakeTurn, Goto
    <3>2. ASSUME history # wire
          PROVE  FALSE
      <4>1. PICK q \in Forecast : q.sender \in External /\ NextParties = {q.sender}
        BY <3>1, <3>2, HistoryBehind
      <4> QED
        BY <3>1, <4>1 DEF External
    <3> QED
      BY <3>1, <3>2
  <2>2. CASE ~ TakeTurn
    <3>1. pc \in {"generating", "fallback", "generated"}
      BY <1>5, <2>2
         DEF StayingStep, Compute, YieldRun, Generate, FallBack, GenerateFails, CheckAbort,
             Wait, WaitTimesOut, UnexpectedParty, HookinFails, Finish, Goto, Raise
    <3> QED
      BY <3>1 DEF TurnInv
  <2> QED
    BY <2>1, <2>2
<1>6. pc' = "parsing" => buffer' # <<>>
  BY <1>1 DEF StayingStep, Compute, YieldRun, TakeTurn, Generate, FallBack, GenerateFails, CheckAbort,
         Wait, WaitTimesOut, UnexpectedParty, HookinFails, Finish, Goto, Raise
<1>7. error = "none"
  BY <1>1 DEF SaidInv, ErrorIsRaised
<1>8. error' \notin {"no forecast", "unparsable"}
  <2>1. ASSUME Compute
        PROVE  Forecast # {} \/ IsComplete
    <3>1. PICK run \in grammar : Begins(wire, run)
      BY DEF TurnInv
    <3>2. run \in Seq(Packet) /\ Begins(history, wire)
      BY <1>2, GrammarType DEF TurnInv
    <3>3. Begins(history, run)
      BY <1>2, <3>1, <3>2, BeginsTransitive
    <3>4. CASE Len(history) < Len(run)
      <4>1. run[Len(history) + 1] \in Packet /\ Begins(Append(history, run[Len(history) + 1]), run)
        BY <1>2, <3>2, <3>3, <3>4, BeginsNext
      <4>2. run[Len(history) + 1] \in ForecastOf(history)
        BY <1>2, <3>1, <4>1, ForecastIsNext
      <4> QED
        BY <4>2 DEF Forecast
    <3>5. CASE ~ (Len(history) < Len(run))
      <4>1. Len(history) = Len(run)
        BY <1>2, <3>2, <3>3, <3>5 DEF Begins
      <4>2. history = run
        BY <1>2, <3>2, <3>3, <4>1, BeginsAndAsLong
      <4> QED
        BY <4>2 DEF IsComplete
    <3> QED
      BY <3>4, <3>5
  <2>2. CASE Compute
    BY <1>7, <2>1, <2>2 DEF Compute, Goto
  <2>3. CASE ~ Compute
    BY <1>7, <2>3 DEF StayingStep, YieldRun, TakeTurn, Generate, FallBack, GenerateFails, CheckAbort,
         Wait, WaitTimesOut, UnexpectedParty, HookinFails, Finish, Goto, Raise
  <2> QED
    BY <2>2, <2>3
<1>9. ASSUME error' = "unexpected party"
       PROVE  \E s \in External : channel[s] # <<>>
  <2>1. UnexpectedParty
    BY <1>7, <1>9 DEF StayingStep, Compute, YieldRun, TakeTurn, Generate, FallBack, GenerateFails,
         CheckAbort, Wait, WaitTimesOut, HookinFails, Finish, Goto, Raise
  <2>2. pc = "parsing" /\ Heard = {} /\ buffer # <<>>
    BY <2>1 DEF UnexpectedParty, TurnInv
  <2>3. history # wire
    BY <2>2, BufferedIsBehind
  <2>4. PICK q \in Forecast : /\ q.sender \in External /\ NextParties = {q.sender}
                              /\ Waiting(q.sender) # <<>>
    BY <2>2, <2>3, HistoryBehind
  <2>5. Of({q.sender}, buffer) = <<>>
    <3>1. {i \in DOMAIN buffer : buffer[i].sender \in {q.sender}} = {}
      BY <2>2, <2>4 DEF Heard
    <3> QED
      BY <3>1, SelectNothing DEF Of
  <2>6. channel[q.sender] \in Seq(Packet)
    BY <1>2, <2>4 DEF TypeOK
  <2>7. Waiting(q.sender) = channel[q.sender]
    BY <2>5, <2>6, ConcatEmptySeq DEF Waiting
  <2> QED
    BY <2>4, <2>7
<1> QED
  BY <1>1, <1>3, <1>4, <1>5, <1>6, <1>8, <1>9 DEF TurnInv

\* What Fandango sends is next in the run; it has not yet recorded it.
LEMMA TransmitKeepsTurnInv ==
  ASSUME SaidInv, TakesTurns, TurnInv, Transmit \/ TransmitFails
  PROVE  TurnInv'
<1>1. PICK p \in Packet : next_packet = <<p>> /\ p \in Forecast
  BY ForecastType DEF Transmit, TransmitFails, Attempt, SaidInv, NextPacketIsForecast
<1>2. /\ pc = "transmitting" /\ history = wire
      /\ UNCHANGED <<grammar, history, next_packet>>
      /\ wire' \in {wire, Append(wire, p)}
      /\ \/ pc' = "sent" /\ error' = error /\ wire' = Append(wire, p)
         \/ pc' = "raised" /\ error' = "transmit"
  BY <1>1 DEF Transmit, TransmitFails, Attempt, TurnInv, Goto, Raise
<1>3. TypeOK /\ history \in Seq(Packet)
  BY DEF SaidInv, TypeOK
<1>4. Append(history, p) \in Seq(Packet) /\ Begins(history, Append(history, p))
      /\ Begins(Append(history, p), Append(history, p))
  <2> DEFINE longer == Append(history, p)
  <2>1. /\ longer \in Seq(Packet) /\ Len(history) \in Nat
        /\ Len(longer) = Len(history) + 1
        /\ \A n \in 1..Len(history) : longer[n] = history[n]
    BY <1>3
  <2> HIDE DEF longer
  <2>2. Begins(history, longer) /\ Begins(longer, longer)
    BY <2>1 DEF Begins
  <2> QED
    BY <2>1, <2>2 DEF longer
<1>5. \E run \in grammar : Begins(Append(history, p), run)
  BY <1>1, <1>3, ForecastIsNext DEF Forecast
<1>6. (\E run \in grammar : Begins(wire, run))' /\ Begins(history, wire)'
  <2>1. (\E run \in grammar : Begins(wire, run)) /\ Begins(history, wire)
    BY DEF TurnInv
  <2>2. CASE wire' = wire
    BY <1>2, <2>1, <2>2 DEF Begins
  <2>3. CASE wire' = Append(history, p)
    <3>1. (\E run \in grammar' : Begins(wire', run)) /\ Begins(history', wire')
      BY <1>2, <1>4, <1>5, <2>3
    <3> QED
      BY <3>1 DEF Begins
  <2> QED
    BY <1>2, <2>2, <2>3
<1>7. (pc \in {"hookin", "sent"} =>
          \E q \in Packet : next_packet = <<q>> /\ Begins(Append(history, q), wire))'
  BY <1>1, <1>2, <1>4 DEF Begins
<1>8. error = "none"
  BY <1>2 DEF SaidInv, ErrorIsRaised
<1> QED
  BY <1>2, <1>6, <1>7, <1>8 DEF TurnInv

\* The first message of the party whose turn it is is what that party said next.
LEMMA ParseKeepsTurnInv ==
  ASSUME SaidInv, TakesTurns, TurnInv, Parse
  PROVE  TurnInv'
<1>1. PICK i \in Heard :
        /\ \A j \in Heard : i <= j
        /\ IF buffer[i] \in Forecast
           THEN /\ next_packet' = <<buffer[i]>>
                /\ buffer' = Without(buffer, i)
                /\ Goto("hookin")
           ELSE /\ Raise("unparsable")
                /\ UNCHANGED <<next_packet, buffer>>
  BY DEF Parse
<1>2. pc = "parsing" /\ UNCHANGED <<grammar, history, wire>>
  BY DEF Parse
<1>3. TypeOK /\ buffer \in Seq(Packet) /\ i \in DOMAIN buffer
  BY <1>1 DEF SaidInv, TypeOK, Heard
<1>4. history # wire
  BY <1>2, BufferedIsBehind DEF TurnInv
<1>5. PICK q \in Forecast : /\ q.sender \in External /\ NextParties = {q.sender}
                            /\ Begins(Append(history, q), wire)
                            /\ Waiting(q.sender)[1] = q
  BY <1>2, <1>4, HistoryBehind
<1>6. buffer[i] = q
  <2> DEFINE s == q.sender
             b == Of({s}, buffer)
  <2>1. buffer[i].sender = s /\ \A k \in DOMAIN buffer : buffer[k].sender = s => i <= k
    BY <1>1, <1>5 DEF Heard
  <2>2. b = <<buffer[i]>> \o Of({s}, Without(buffer, i))
    BY <1>3, <2>1, OfWithoutFirst
  <2>3. buffer[i] \in Packet /\ Of({s}, Without(buffer, i)) \in Seq(Packet)
    <3>1. TakenOut(buffer, i) \in Seq(Packet)
      BY <1>3, TakenOutAt
    <3>2. Without(buffer, i) \in Seq(Packet)
      BY <3>1 DEF Without, TakenOut
    <3> QED
      BY <1>3, <3>2, OfType
  <2>4. b[1] = buffer[i] /\ Len(b) \in Nat \ {0} /\ b \in Seq(Packet)
    <3> DEFINE first == <<buffer[i]>>
               rest == Of({s}, Without(buffer, i))
    <3>1. first \in Seq(Packet) /\ Len(first) = 1 /\ first[1] = buffer[i] /\ rest \in Seq(Packet)
      BY <2>3
    <3> HIDE DEF first, rest
    <3>2. /\ first \o rest \in Seq(Packet) /\ Len(first \o rest) = Len(first) + Len(rest)
          /\ \A k \in 1..(Len(first) + Len(rest)) : (first \o rest)[k] =
                IF k <= Len(first) THEN first[k] ELSE rest[k - Len(first)]
      BY <3>1, ConcatProperties
    <3>3. Len(rest) \in Nat
      BY <3>1
    <3> HIDE DEF b
    <3>4. b = first \o rest
      BY <2>2 DEF first, rest
    <3> QED
      BY <3>1, <3>2, <3>3, <3>4
  <2>5. Waiting(s) = b \o channel[s] /\ channel[s] \in Seq(Packet)
    BY <1>3, <1>5, WaitingType DEF Waiting
  <2> HIDE DEF b
  <2>6. Waiting(s)[1] = b[1]
    <3> DEFINE far == channel[s]
    <3>1. far \in Seq(Packet) /\ Waiting(s) = b \o far
      BY <2>5
    <3> HIDE DEF far
    <3>2. \A k \in 1..(Len(b) + Len(far)) : (b \o far)[k] =
                IF k <= Len(b) THEN b[k] ELSE far[k - Len(b)]
      BY <2>4, <3>1, ConcatProperties
    <3>3. Len(far) \in Nat
      BY <3>1
    <3> QED
      BY <2>4, <3>1, <3>2, <3>3
  <2> QED
    BY <1>5, <2>4, <2>6
<1>7. next_packet' = <<q>> /\ pc' = "hookin" /\ error' = error
  BY <1>1, <1>6 DEF Goto
<1>8. q \in Packet
  BY ForecastType
<1>9. /\ (\E run \in grammar : Begins(wire, run))' /\ Begins(history, wire)'
      /\ Begins(Append(history, q), wire)'
  BY <1>2, <1>5 DEF TurnInv, Begins
<1>10. error' = "none"
  BY <1>2, <1>7 DEF SaidInv, ErrorIsRaised
<1> QED
  BY <1>7, <1>8, <1>9, <1>10 DEF TurnInv

\* What was sent or received enters the history.
LEMMA EnteringKeepsTurnInv ==
  ASSUME SaidInv, TakesTurns, TurnInv, Hookin \/ Record
  PROVE  TurnInv'
<1>1. PICK q \in Packet : next_packet = <<q>> /\ Begins(Append(history, q), wire)
  BY DEF Hookin, Record, TurnInv
<1>2. history \in Seq(Packet)
  BY DEF SaidInv, TypeOK
<1>3. /\ history' = Append(history, q) /\ pc # "raised" /\ pc' = "compute" /\ error' = error
      /\ UNCHANGED <<grammar, wire>>
  <2>1. history \o <<q>> = Append(history, q)
    BY <1>1, <1>2, AppendIsConcat
  <2> QED
    BY <1>1, <2>1 DEF Hookin, Record, Goto, remote
<1>4. (\E run \in grammar : Begins(wire, run))' /\ Begins(history, wire)'
  BY <1>1, <1>3 DEF TurnInv, Begins
<1>5. error' = "none"
  BY <1>3 DEF SaidInv, ErrorIsRaised
<1> QED
  BY <1>3, <1>4, <1>5 DEF TurnInv

\* While Fandango speaks no remote party does.
LEMMA RemoteSendsKeepsTurnInv ==
  ASSUME SaidInv, TakesTurns, TurnInv, NEW p \in Packet, RemoteSends(p)
  PROVE  TurnInv'
<1>1. /\ wire' = Append(wire, p) /\ p \in ForecastOf(wire) /\ p.sender \in External
      /\ pc # "raised"
      /\ UNCHANGED <<grammar, pc, error, history, next_packet, buffer>>
  BY DEF RemoteSends
<1>2. TypeOK /\ wire \in Seq(Packet) /\ history \in Seq(Packet)
  BY DEF SaidInv, TypeOK
<1>3. PICK run \in grammar : Begins(Append(wire, p), run)
  BY <1>1, <1>2, ForecastIsNext
<1>4. wire' \in Seq(Packet) /\ Begins(wire, wire')
  <2>1. /\ wire' \in Seq(Packet) /\ Len(wire') = Len(wire) + 1 /\ Len(wire) \in Nat
        /\ \A n \in 1..Len(wire) : wire'[n] = wire[n]
    BY <1>1, <1>2
  <2> QED
    BY <2>1 DEF Begins
<1>5. Begins(history, wire')
  BY <1>2, <1>4, BeginsTransitive DEF TurnInv
<1>6. ASSUME NEW q \in Packet, Begins(Append(history, q), wire)
      PROVE  Begins(Append(history, q), wire')
  <2>1. Append(history, q) \in Seq(Packet)
    BY <1>2
  <2> QED
    BY <1>2, <1>4, <1>6, <2>1, BeginsTransitive
<1>7. pc \notin {"generating", "fallback", "generated", "transmitting"}
  <2>1. ASSUME pc \in {"generating", "fallback", "generated", "transmitting"}
        PROVE  FALSE
    <3>1. history = wire /\ NextParties \cap Fuzzer # {}
      BY <2>1 DEF TurnInv
    <3>2. PICK f \in ForecastOf(wire) : f.sender \in Fuzzer
      BY <3>1 DEF NextParties, Forecast
    <3>3. PICK r \in grammar : Begins(wire, r)
      BY DEF TurnInv
    <3>4. \/ p.sender \in Fuzzer /\ f.sender \in Fuzzer
          \/ p.sender \in External /\ f.sender = p.sender
      BY <1>1, <1>2, <3>2, <3>3, WhoseTurn
    <3> QED
      BY <1>1, <3>2, <3>4 DEF External
  <2> QED
    BY <2>1
<1>8. (\E r \in grammar : Begins(wire, r))' /\ Begins(history, wire)'
  BY <1>1, <1>3, <1>5 DEF Begins
<1>9. error' = "none"
  BY <1>1 DEF SaidInv, ErrorIsRaised
<1>10. (pc \in {"hookin", "sent"} =>
          \E q \in Packet : next_packet = <<q>> /\ Begins(Append(history, q), wire))'
  BY <1>1, <1>6 DEF TurnInv, Begins
<1> QED
  BY <1>1, <1>7, <1>8, <1>9, <1>10 DEF TurnInv

LEMMA ArriveKeepsTurnInv ==
  ASSUME SaidInv, TakesTurns, TurnInv, NEW r \in External, Arrive(r)
  PROVE  TurnInv'
<1>1. /\ buffer' = Append(buffer, Head(channel[r])) /\ pc # "raised"
      /\ UNCHANGED <<grammar, pc, error, history, next_packet, wire>>
  BY DEF Arrive
<1>2. buffer \in Seq(Packet)
  BY DEF SaidInv, TypeOK
<1>3. buffer' # <<>>
  BY <1>1, <1>2
<1>4. NextParties' = NextParties
  BY <1>1, SameForecast
<1>5. error' = "none"
  BY <1>1 DEF SaidInv, ErrorIsRaised
<1>6. /\ (\E run \in grammar : Begins(wire, run))' /\ Begins(history, wire)'
      /\ (pc \in {"hookin", "sent"} =>
            \E p \in Packet : next_packet = <<p>> /\ Begins(Append(history, p), wire))'
  BY <1>1 DEF TurnInv, Begins
<1> QED
  BY <1>1, <1>3, <1>4, <1>5, <1>6 DEF TurnInv

\* Nothing said begins any run.
LEMMA NothingBegins ==
  ASSUME TypeOK
  PROVE  (\E run \in grammar : Begins(<<>>, run)) /\ Begins(<<>>, <<>>)
<1>1. PICK run \in grammar : run \in Seq(Packet)
  BY GrammarType
<1>2. Len(<<>>) = 0 /\ 1..0 = {} /\ 0 <= Len(run)
  BY <1>1
<1> QED
  BY <1>2 DEF Begins

LEMMA NewRunKeepsTurnInv ==
  ASSUME SaidInv, TakesTurns, TurnInv, NewRun
  PROVE  TurnInv'
<1>1. /\ history' = <<>> /\ wire' = <<>> /\ grammar' = grammar
      /\ pc = "yielded" /\ pc' = "compute" /\ error' = error
  BY DEF NewRun, Goto
<1>2. (\E run \in grammar : Begins(wire, run))' /\ Begins(history, wire)'
  BY <1>1, NothingBegins DEF SaidInv, Begins
<1>3. error' = "none"
  BY <1>1 DEF SaidInv, ErrorIsRaised
<1> QED
  BY <1>1, <1>2, <1>3 DEF TurnInv

LEMMA NextKeepsTurnInv ==
  ASSUME SaidInv, TakesTurns, TurnInv, [Next]_vars
  PROVE  TurnInv'
<1>1. CASE StayingStep
  BY <1>1, StayingKeepsTurnInv
<1>2. CASE Transmit \/ TransmitFails
  BY <1>2, TransmitKeepsTurnInv
<1>3. CASE Parse
  BY <1>3, ParseKeepsTurnInv
<1>4. CASE Hookin \/ Record
  BY <1>4, EnteringKeepsTurnInv
<1>5. CASE NewRun
  BY <1>5, NewRunKeepsTurnInv
<1>6. CASE \E p \in Packet : RemoteSends(p)
  BY <1>6, RemoteSendsKeepsTurnInv
<1>7. CASE \E s \in External : Arrive(s)
  BY <1>7, ArriveKeepsTurnInv
<1>8. CASE UNCHANGED vars
  BY <1>8 DEF vars, TurnInv, Begins, Forecast, ForecastOf, NextParties
<1> QED
  BY <1>1, <1>2, <1>3, <1>4, <1>5, <1>6, <1>7, <1>8
     DEF Next, LoopStep, CallerStep, RemoteStep, StayingStep

\* The grammar does not change, so the parties take turns always or never.
LEMMA TurnsStay ==
  ASSUME [Next]_vars
  PROVE  grammar' = grammar /\ TakesTurns' = TakesTurns
<1>1. grammar' = grammar
  BY DEF Next, LoopStep, CallerStep, RemoteStep, Compute, YieldRun, TakeTurn, Generate,
         FallBack, GenerateFails, CheckAbort, Transmit, TransmitFails, Attempt, Record, Wait, WaitTimesOut, Parse, UnexpectedParty,
         Hookin, HookinFails, NewRun, Finish, RemoteSends, Arrive, vars, remote
<1> QED
  BY <1>1 DEF TakesTurns, ForecastOf

\* In a protocol in which the parties take turns the loop never finds itself without a
\* forecast or with a packet that does not parse, and of remote parties that keep to the
\* protocol it complains only while a message of theirs is still on its way.
THEOREM NeverRejects == Spec => []NeverRejectsConforming
<1> DEFINE Inv == SaidInv /\ (TakesTurns => TurnInv)
<1>1. Init => Inv
  <2>1. ASSUME Init
        PROVE  TurnInv
    <3>1. SaidInv /\ pc = "compute" /\ error = "none" /\ history = <<>> /\ wire = <<>>
      BY <2>1, InitIsSaidInv DEF Init
    <3>2. (\E run \in grammar : Begins(wire, run)) /\ Begins(history, wire)
      BY <3>1, NothingBegins DEF SaidInv
    <3> QED
      BY <3>1, <3>2 DEF TurnInv
  <2> QED
    BY <2>1, InitIsSaidInv
<1>2. Inv /\ [Next]_vars => Inv'
  BY NextKeepsSaidInv, NextKeepsTurnInv, TurnsStay
<1>3. Inv => NeverRejectsConforming
  BY DEF NeverRejectsConforming, TurnInv
<1> QED
  BY <1>1, <1>2, <1>3, PTL DEF Spec
===============================================================================
