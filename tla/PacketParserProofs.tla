-------------------------- MODULE PacketParserProofs --------------------------
(***************************************************************************)
(* The theorems about FandangoIO, and then those about the packet parser   *)
(* that works on its buffer.                                               *)
(*                                                                         *)
(* For all parties, messages and sessions: the buffer only ever holds      *)
(* fragments of the running protocol session, and it implements one FIFO   *)
(* queue per party (PartyQueues).                                          *)
(*                                                                         *)
(* For all parties, packet types, languages and forecasts: a packet that   *)
(* parse_next_remote_packet hands over is made of the oldest fragments of  *)
(* its sender, which are consumed and no others; it is the longest that    *)
(* could be parsed; and the call gives up only if there was none.          *)
(*                                                                         *)
(* Listeners add to the buffer while the parsers read it, which shifts no  *)
(* position that was read; that is what the parser's invariant rests on.   *)
(***************************************************************************)
EXTENDS PacketParser, SelectionsProofs

-------------------------------------------------------------------------------
(* The receive buffer of FandangoIO.                                       *)

Live(t) == listener[t].at \in {"idle", "adding"}

(***************************************************************************)
(* SessionIsolation is not inductive: that no listener survives into the   *)
(* next session rests on every live listener belonging to a registered     *)
(* party, and on reset_parties coming to every registered party before it  *)
(* clears the buffer.                                                      *)
(***************************************************************************)
LiveAreRegistered ==
    pc \in {"init", "run", "restarting"} =>
        \A t \in Thread : Live(t) => t[1] \in parties

LiveAreStillToStop ==
    pc = "stopping" => \A t \in Thread : Live(t) => t[1] \in todo

NoneLiveWhenClearing ==
    pc = "clearing" => \A t \in Thread : ~ Live(t)

AnotherSession ==
    pc \in {"stopping", "clearing"} => session < MaxSession

IInv ==
    /\ TypeOK
    /\ SessionIsolation
    /\ LiveAreRegistered
    /\ LiveAreStillToStop
    /\ NoneLiveWhenClearing
    /\ AnotherSession
-------------------------------------------------------------------------------
USE DEF Thread, Session

LEMMA InitIInv == Init => IInv
<1> SUFFICES ASSUME Init PROVE IInv
  OBVIOUS
<1> USE DEF Init
<1>1. \A t \in Thread : listener[t] = [at |-> "none"]
  OBVIOUS
<1>2. TypeOK
  <2>1. session \in Session
    BY MessageAssumption
  <2>2. listener \in [Thread -> ListenerState]
    BY DEF ListenerState
  <2> QED
    BY <2>1, <2>2, EmptySeq DEF TypeOK
<1>3. \A t \in Thread : ~ Live(t)
  BY <1>1 DEF Live
<1>4. SessionIsolation
  BY <1>3 DEF SessionIsolation, Live
<1> QED
  BY <1>2, <1>3, <1>4 DEF IInv, LiveAreRegistered, LiveAreStillToStop,
     NoneLiveWhenClearing, AnotherSession

\* A listener that is handing a message over knows its sender and its text.
LEMMA AddingType ==
  ASSUME TypeOK, NEW t \in Thread, listener[t].at = "adding"
  PROVE  listener[t].sender \in Party /\ listener[t].message \in Message
BY DEF TypeOK, ListenerState

LEMMA EntriesType ==
  ASSUME NEW s \in Party, NEW p \in Party, NEW message \in Message, NEW e \in Session
  PROVE  Entries(s, p, message, e) \in Seq(Entry)
<1>1. message \in Seq(Fragment)
  BY MessageAssumption
<1>2. DOMAIN message = 1..Len(message) /\ Len(message) \in Nat
  BY <1>1
<1>3. \A n \in 1..Len(message) : message[n] \in Fragment
  BY <1>1
<1> DEFINE out == Entries(s, p, message, e)
<1>4. out \in [1..Len(message) -> Entry]
  BY <1>2, <1>3 DEF Entries, Entry
<1> QED
  BY <1>2, <1>4, IsASeq

\* What is selected from a buffer is a buffer again, of entries it had before.
LEMMA SelectType ==
  ASSUME NEW buffer \in Seq(Entry), NEW K \in SUBSET (DOMAIN buffer)
  PROVE  /\ FinitePositions(K)
         /\ Select(buffer, K) \in Seq(Entry)
         /\ Len(Select(buffer, K)) = Cardinality(K)
         /\ \A n \in 1..Cardinality(K) :
               Nth(K, n) \in K /\ Select(buffer, K)[n] = buffer[Nth(K, n)]
BY SelectionType
-------------------------------------------------------------------------------
(* One lemma per group of actions: each preserves the invariant.           *)

LEMMA ReceiveKeepsIInv ==
  ASSUME IInv, NEW t0 \in Thread,
         \/ \E message \in Message : Receive(t0, message)
         \/ ReceiveRaises(t0)
  PROVE  IInv'
<1>1. t0[1] \in Party /\ listener[t0].at = "idle"
  BY PartyAssumption DEF Receive, ReceiveRaises
<1>2. PICK new \in ListenerState : listener' = [listener EXCEPT ![t0] = new]
  <2>1. CASE \E message \in Message : Receive(t0, message)
    <3>1. PICK message \in Message : Receive(t0, message)
      BY <2>1
    <3>2. PICK s \in Senders(t0[1]) : listener' = [listener EXCEPT ![t0] =
                 [at |-> "adding", sender |-> s, message |-> message]]
      BY <3>1 DEF Receive
    <3>3. s \in Party
      BY <1>1, PartyAssumption DEF Senders
    <3>4. [at |-> "adding", sender |-> s, message |-> message] \in ListenerState
      BY <3>3 DEF ListenerState
    <3> QED
      BY <3>2, <3>4
  <2>2. CASE ReceiveRaises(t0)
    <3>1. [at |-> "dead"] \in ListenerState
      BY DEF ListenerState
    <3> QED
      BY <2>2, <3>1 DEF ReceiveRaises
  <2> QED
    BY <2>1, <2>2
<1>3. UNCHANGED <<receive, receive_lock, parties, pc, todo, session>>
  BY DEF Receive, ReceiveRaises
<1>4. listener \in [Thread -> ListenerState]
  BY DEF IInv, TypeOK
<1>5. listener' \in [Thread -> ListenerState]
  BY <1>1, <1>2, <1>4
<1>6. \A t \in Thread : Live(t)' => Live(t)
  <2>1. \A t \in Thread : t # t0 => listener'[t] = listener[t]
    BY <1>2, <1>4
  <2> QED
    BY <1>1, <2>1 DEF Live
<1>7. TypeOK'
  BY <1>3, <1>5 DEF IInv, TypeOK
<1>8. SessionIsolation'
  BY <1>3, <1>6 DEF IInv, SessionIsolation, Live
<1> QED
  BY <1>3, <1>6, <1>7, <1>8 DEF IInv, LiveAreRegistered, LiveAreStillToStop,
     NoneLiveWhenClearing, AnotherSession

LEMMA AddReceiveKeepsIInv ==
  ASSUME IInv, NEW t0 \in Thread, AddReceive(t0)
  PROVE  IInv'
<1> DEFINE p == t0[1]
           e == t0[2]
           new == Entries(listener[t0].sender, p, listener[t0].message, e)
<1>1. listener[t0].at = "adding" /\ p \in Party /\ e \in Session
  BY PartyAssumption DEF AddReceive
<1>2. /\ listener' = [listener EXCEPT ![t0] = [at |-> "idle"]]
      /\ receive' = receive \o new
      /\ UNCHANGED <<receive_lock, parties, pc, todo, session>>
  BY DEF AddReceive
<1>3. listener[t0].sender \in Party /\ listener[t0].message \in Message
  BY <1>1, AddingType DEF IInv
<1>4. new \in Seq(Entry)
  BY <1>1, <1>3, EntriesType
<1>5. listener \in [Thread -> ListenerState] /\ receive \in Seq(Entry)
  BY DEF IInv, TypeOK
<1>6. listener' \in [Thread -> ListenerState]
  <2>1. [at |-> "idle"] \in ListenerState
    BY DEF ListenerState
  <2> QED
    BY <1>1, <1>2, <1>5, <2>1
<1>7. \A t \in Thread : Live(t)' => Live(t)
  <2>1. \A t \in Thread : t # t0 => listener'[t] = listener[t]
    BY <1>2, <1>5
  <2> QED
    BY <1>1, <2>1 DEF Live
<1>8. TypeOK'
  BY <1>2, <1>4, <1>5, <1>6 DEF IInv, TypeOK
<1>9. SessionIsolation'
  <2>1. e = session
    BY <1>1 DEF IInv, SessionIsolation
  <2>2. \A i \in DOMAIN new : new[i].session = e
    BY DEF Entries
  <2>3. \A i \in DOMAIN receive : receive[i].session = session
    BY DEF IInv, SessionIsolation
  <2> HIDE DEF new
  <2>4. ASSUME NEW i \in DOMAIN (receive \o new)
        PROVE  (receive \o new)[i].session = session
    <3>1. i \in 1..Len(receive) + Len(new) /\ Len(receive) \in Nat /\ Len(new) \in Nat
      BY <1>4, <1>5
    <3>2. CASE i <= Len(receive)
      <4>1. i \in DOMAIN receive /\ (receive \o new)[i] = receive[i]
        BY <1>4, <1>5, <3>1, <3>2
      <4> QED
        BY <2>3, <4>1
    <3>3. CASE ~ (i <= Len(receive))
      <4>1. i - Len(receive) \in DOMAIN new
            /\ (receive \o new)[i] = new[i - Len(receive)]
        BY <1>4, <1>5, <3>1, <3>3
      <4> QED
        BY <2>1, <2>2, <4>1
    <3> QED
      BY <3>2, <3>3
  <2> QED
    BY <1>2, <1>7, <2>4 DEF IInv, SessionIsolation, Live
<1> QED
  BY <1>2, <1>7, <1>8, <1>9 DEF IInv, LiveAreRegistered, LiveAreStillToStop,
     NoneLiveWhenClearing, AnotherSession

LEMMA ConsumeKeepsIInv ==
  ASSUME IInv, NEW kept \in SUBSET (DOMAIN receive), Consume(kept)
  PROVE  IInv'
<1>1. receive' = Select(receive, kept)
      /\ UNCHANGED <<receive_lock, parties, pc, todo, session, listener>>
  BY DEF Consume
<1>2. receive \in Seq(Entry)
  BY DEF IInv, TypeOK
<1>3. /\ receive' \in Seq(Entry)
      /\ Len(receive') = Cardinality(kept)
      /\ \A n \in 1..Cardinality(kept) :
            Nth(kept, n) \in kept /\ receive'[n] = receive[Nth(kept, n)]
  BY <1>1, <1>2, SelectType
<1>4. TypeOK'
  BY <1>1, <1>3 DEF IInv, TypeOK
<1>5. SessionIsolation'
  <2>1. ASSUME NEW n \in DOMAIN receive'
        PROVE  receive'[n].session = session
    <3>1. n \in 1..Cardinality(kept)
      BY <1>3
    <3>2. Nth(kept, n) \in DOMAIN receive /\ receive'[n] = receive[Nth(kept, n)]
      BY <1>3, <3>1
    <3> QED
      BY <3>2 DEF IInv, SessionIsolation
  <2> QED
    BY <1>1, <2>1 DEF IInv, SessionIsolation
<1> QED
  BY <1>1, <1>4, <1>5 DEF IInv, LiveAreRegistered, LiveAreStillToStop,
     NoneLiveWhenClearing, AnotherSession, Live

LEMMA ConsumeStepKeepsIInv ==
  ASSUME IInv, ConsumeStep
  PROVE  IInv'
<1>1. ASSUME NEW p \in Party, NEW i \in 1..Len(receive), ClearByParty(p, i)
      PROVE  IInv'
  <2>1. Kept(receive, p, i) \in SUBSET (DOMAIN receive)
    BY DEF Kept
  <2> QED
    BY <1>1, <2>1, ConsumeKeepsIInv DEF ClearByParty
<1>2. ASSUME NEW i \in 1..Len(receive), ClearReceivedMsg(i)
      PROVE  IInv'
  BY <1>2, ConsumeKeepsIInv DEF ClearReceivedMsg
<1>3. CASE ClearReceivedMsgs
  BY <1>3, ConsumeKeepsIInv DEF ClearReceivedMsgs
<1> QED
  BY <1>1, <1>2, <1>3 DEF ConsumeStep

LEMMA CreatePartyKeepsIInv ==
  ASSUME IInv, NEW p \in Party, CreateParty(p)
  PROVE  IInv'
<1> DEFINE next(t) == IF t = <<p, session>> THEN [at |-> "idle"] ELSE listener[t]
<1>1. /\ listener' = [t \in Thread |-> next(t)]
      /\ parties' = parties \cup {p} /\ todo' = todo \ {p}
      /\ UNCHANGED <<receive, receive_lock, pc, session>>
      /\ pc \in {"init", "restarting"}
  BY DEF CreateParty
<1>2. [at |-> "idle"] \in ListenerState
  BY DEF ListenerState
<1>3. listener \in [Thread -> ListenerState]
  BY DEF IInv, TypeOK
<1>4. listener' \in [Thread -> ListenerState]
  BY <1>1, <1>2, <1>3
<1>5. TypeOK'
  BY <1>1, <1>4 DEF IInv, TypeOK
<1>6. \A t \in Thread : Live(t)' => Live(t) \/ t = <<p, session>>
  BY <1>1 DEF Live
<1>7. SessionIsolation'
  BY <1>1, <1>6 DEF IInv, SessionIsolation, Live
<1>8. LiveAreRegistered'
  BY <1>1, <1>6 DEF IInv, LiveAreRegistered
<1> QED
  BY <1>1, <1>5, <1>7, <1>8 DEF IInv, LiveAreStillToStop, NoneLiveWhenClearing,
     AnotherSession

LEMMA StopPartyKeepsIInv ==
  ASSUME IInv, NEW p \in Party, StopParty(p)
  PROVE  IInv'
<1>1. pc = "stopping" /\ UNCHANGED <<receive, receive_lock, parties, session>>
      /\ todo' = todo \ {p}
  BY DEF StopParty
<1>2. listener \in [Thread -> ListenerState]
  BY DEF IInv, TypeOK
<1>3. CASE p \in Stoppable
  <2>1. /\ listener' = [t \in Thread |-> IF t = <<p, session>>
                                         THEN [at |-> "none"] ELSE listener[t]]
        /\ pc' = pc
    BY <1>3 DEF StopParty
  <2>2. [at |-> "none"] \in ListenerState
    BY DEF ListenerState
  <2>3. listener' \in [Thread -> ListenerState]
    BY <1>2, <2>1, <2>2
  <2>4. TypeOK'
    BY <1>1, <2>1, <2>3 DEF IInv, TypeOK
  <2>5. \A t \in Thread : Live(t)' => Live(t) /\ t # <<p, session>>
    BY <2>1 DEF Live
  <2>6. SessionIsolation'
    BY <1>1, <2>1, <2>5 DEF IInv, SessionIsolation, Live
  <2>7. ASSUME NEW t \in Thread, Live(t)'
        PROVE  t[1] \in todo'
    <3>1. Live(t) /\ t # <<p, session>>
      BY <2>5, <2>7
    <3>2. t = <<t[1], t[2]>> /\ t[2] = session /\ t[1] \in todo
      BY <1>1, <3>1 DEF IInv, SessionIsolation, LiveAreStillToStop, Live
    <3> QED
      BY <1>1, <3>1, <3>2
  <2> QED
    BY <1>1, <2>1, <2>4, <2>6, <2>7 DEF IInv, LiveAreRegistered,
       LiveAreStillToStop, NoneLiveWhenClearing, AnotherSession
<1>4. CASE p \notin Stoppable
  <2>1. pc' = "raised" /\ listener' = listener
    BY <1>4 DEF StopParty
  <2>2. TypeOK'
    BY <1>1, <2>1 DEF IInv, TypeOK
  <2>3. SessionIsolation'
    BY <1>1, <2>1 DEF IInv, SessionIsolation
  <2> QED
    BY <2>1, <2>2, <2>3 DEF IInv, LiveAreRegistered, LiveAreStillToStop,
       NoneLiveWhenClearing, AnotherSession
<1> QED
  BY <1>3, <1>4

LEMMA RestartKeepsIInv ==
  ASSUME IInv, RestartStep \/ ResetParties
  PROVE  IInv'
<1>1. ASSUME NEW p \in Party, CreateParty(p)
      PROVE  IInv'
  BY <1>1, CreatePartyKeepsIInv
<1>2. ASSUME NEW p \in Party, StopParty(p)
      PROVE  IInv'
  BY <1>2, StopPartyKeepsIInv
<1>3. CASE PartiesCreated
  BY <1>3 DEF PartiesCreated, IInv, TypeOK, SessionIsolation, LiveAreRegistered,
     LiveAreStillToStop, NoneLiveWhenClearing, AnotherSession, Live
<1>4. CASE ForgetParties
  BY <1>4 DEF ForgetParties, IInv, TypeOK, SessionIsolation, LiveAreRegistered,
     LiveAreStillToStop, NoneLiveWhenClearing, AnotherSession, Live
<1>5. CASE ClearForRestart
  <2>1. /\ pc = "clearing" /\ receive' = <<>> /\ session' = session + 1
        /\ receive_lock' = "main" /\ pc' = "restarting"
        /\ UNCHANGED <<parties, todo, listener>>
    BY <1>5 DEF ClearForRestart
  <2>2. \A t \in Thread : ~ Live(t)'
    BY <2>1 DEF IInv, NoneLiveWhenClearing, Live
  <2>3. session' \in Session
    BY <2>1, MessageAssumption DEF IInv, TypeOK, AnotherSession
  <2>4. TypeOK'
    BY <2>1, <2>3, EmptySeq DEF IInv, TypeOK
  <2>5. SessionIsolation'
    BY <2>1, <2>2 DEF SessionIsolation, Live
  <2> QED
    BY <2>1, <2>2, <2>4, <2>5 DEF IInv, LiveAreRegistered, LiveAreStillToStop,
       NoneLiveWhenClearing, AnotherSession
<1>6. CASE ResetParties
  BY <1>6 DEF ResetParties, IInv, TypeOK, SessionIsolation, LiveAreRegistered,
     LiveAreStillToStop, NoneLiveWhenClearing, AnotherSession, Live
<1> QED
  BY <1>1, <1>2, <1>3, <1>4, <1>5, <1>6 DEF RestartStep

LEMMA NextKeepsIInv == IInv /\ [Next]_vars => IInv'
<1> SUFFICES ASSUME IInv, [Next]_vars PROVE IInv'
  OBVIOUS
<1>1. CASE ListenerStep
  BY <1>1, ReceiveKeepsIInv, AddReceiveKeepsIInv DEF ListenerStep
<1>2. CASE ConsumeStep
  BY <1>2, ConsumeStepKeepsIInv
<1>3. CASE RestartStep \/ ResetParties
  BY <1>3, RestartKeepsIInv
<1>4. CASE UNCHANGED vars
  BY <1>4 DEF vars, IInv, TypeOK, SessionIsolation, LiveAreRegistered,
     LiveAreStillToStop, NoneLiveWhenClearing, AnotherSession, Live
<1> QED
  BY <1>1, <1>2, <1>3, <1>4 DEF Next

\* Whatever the listeners and the evolution thread do in whatever order, the
\* buffer, the parties and the threads keep their types.
THEOREM TypeCorrect == Spec => []TypeOK
<1>1. IInv => TypeOK
  BY DEF IInv
<1> QED
  BY InitIInv, NextKeepsIInv, <1>1, PTL DEF Spec

\* No fragment of an earlier protocol run is ever in the buffer of a later one.
THEOREM SessionsIsolated == Spec => []SessionIsolation
<1>1. IInv => SessionIsolation
  BY DEF IInv
<1> QED
  BY InitIInv, NextKeepsIInv, <1>1, PTL DEF Spec
-------------------------------------------------------------------------------
(* The buffer as one queue per party.                                      *)

\* The fragments at the positions in K, in order.
FragmentsAt(buffer, K) ==
    [n \in 1..Cardinality(K) |-> buffer[Nth(K, n)].frag]

LEMMA PendingIsFragmentsAt ==
  ASSUME NEW buffer \in Seq(Entry), NEW s
  PROVE  /\ PositionsOf(buffer, s) \in SUBSET (DOMAIN buffer)
         /\ Pending(buffer, s) = FragmentsAt(buffer, PositionsOf(buffer, s))
<1> DEFINE P == PositionsOf(buffer, s)
           own == Select(buffer, P)
<1>1. P \in SUBSET (DOMAIN buffer)
  BY DEF PositionsOf
<1>2. DOMAIN own = 1..Cardinality(P)
  BY DEF Select
<1>3. \A n \in 1..Cardinality(P) : own[n] = buffer[Nth(P, n)]
  BY DEF Select
<1> QED
  BY <1>1, <1>2, <1>3 DEF Pending, FragmentsAt

LEMMA FragmentsAtType ==
  ASSUME NEW buffer \in Seq(Entry), NEW K \in SUBSET (DOMAIN buffer)
  PROVE  /\ FinitePositions(K) /\ Cardinality(K) \in Nat
         /\ FragmentsAt(buffer, K) \in Seq(Fragment)
         /\ Len(FragmentsAt(buffer, K)) = Cardinality(K)
<1>1. FinitePositions(K) /\ Cardinality(K) \in Nat
  BY SelectType, FS_CardinalityType DEF FinitePositions
<1>2. ASSUME NEW n \in 1..Cardinality(K)
      PROVE  buffer[Nth(K, n)].frag \in Fragment
  <2>1. Nth(K, n) \in DOMAIN buffer
    BY <1>1, NthType
  <2>2. buffer[Nth(K, n)] \in Entry
    BY <2>1, ElementOfSeq
  <2> QED
    BY <2>2 DEF Entry
<1>3. FragmentsAt(buffer, K) \in [1..Cardinality(K) -> Fragment]
  BY <1>2 DEF FragmentsAt
<1>4. FragmentsAt(buffer, K) \in Seq(Fragment)
  BY <1>1, <1>3, IsASeq
<1> QED
  BY <1>1, <1>3, <1>4

\* Two ways of enumerating the same fragments in increasing order agree.
LEMMA FragmentsAtEnumeration ==
  ASSUME NEW buffer \in Seq(Entry), NEW K \in SUBSET (DOMAIN buffer),
         NEW m \in Nat, NEW f, Enumerates(f, m, K)
  PROVE  /\ Cardinality(K) = m
         /\ FragmentsAt(buffer, K) = [n \in 1..m |-> buffer[f[n]].frag]
<1>1. K \in SUBSET Nat
  BY SelectType DEF FinitePositions
<1>2. Cardinality(K) = m /\ \A n \in 1..m : Nth(K, n) = f[n]
  BY <1>1, EnumerationIsNth
<1> QED
  BY <1>2 DEF FragmentsAt

\* Selecting first and asking for the pending fragments of s afterwards is
\* asking for those of its fragments that were selected.
LEMMA PendingOfSelect ==
  ASSUME NEW buffer \in Seq(Entry), NEW K \in SUBSET (DOMAIN buffer), NEW s
  PROVE  Pending(Select(buffer, K), s)
           = FragmentsAt(buffer, K \cap PositionsOf(buffer, s))
<1> DEFINE picked == Select(buffer, K)
           Q == PositionsOf(picked, s)
           J == K \cap PositionsOf(buffer, s)
           f == [n \in 1..Cardinality(Q) |-> Nth(K, Nth(Q, n))]
<1>1. /\ FinitePositions(K) /\ picked \in Seq(Entry)
      /\ Len(picked) = Cardinality(K) /\ Cardinality(K) \in Nat
      /\ \A n \in 1..Cardinality(K) :
            Nth(K, n) \in K /\ picked[n] = buffer[Nth(K, n)]
  BY SelectType, FragmentsAtType
<1>2. DOMAIN picked = 1..Cardinality(K)
  BY <1>1
<1>3. Q \in SUBSET (1..Cardinality(K))
  BY <1>2 DEF PositionsOf
<1>4. FinitePositions(Q) /\ Cardinality(Q) \in Nat
  BY <1>1, <1>2, <1>3, FragmentsAtType
<1>5. J \in SUBSET (DOMAIN buffer)
  BY DEF PositionsOf
<1>6. ASSUME NEW n \in 1..Cardinality(Q)
      PROVE  Nth(Q, n) \in 1..Cardinality(K) /\ f[n] \in J
  <2>1. Nth(Q, n) \in Q
    BY <1>4, NthType
  <2>2. Nth(Q, n) \in 1..Cardinality(K) /\ picked[Nth(Q, n)].sender = s
    BY <1>3, <2>1 DEF PositionsOf
  <2>3. Nth(K, Nth(Q, n)) \in K /\ buffer[Nth(K, Nth(Q, n))].sender = s
    BY <1>1, <2>2
  <2>4. Nth(K, Nth(Q, n)) \in J
    BY <2>3 DEF PositionsOf
  <2> QED
    BY <2>2, <2>4
<1>7. Enumerates(f, Cardinality(Q), J)
  <2>1. f \in [1..Cardinality(Q) -> J]
    BY <1>6
  <2>2. ASSUME NEW i \in 1..Cardinality(Q), NEW j \in 1..Cardinality(Q), i < j
        PROVE  f[i] < f[j]
    <3>1. Nth(Q, i) < Nth(Q, j)
      BY <1>4, <2>2, NthGrows
    <3>2. Nth(K, Nth(Q, i)) < Nth(K, Nth(Q, j))
      BY <1>1, <1>6, <3>1, NthGrows
    <3> QED
      BY <3>2
  <2>3. ASSUME NEW k \in J
        PROVE  \E n \in 1..Cardinality(Q) : f[n] = k
    <3> DEFINE r == Rank(K, k)
    <3>1. r \in 1..Cardinality(K) /\ Nth(K, r) = k
      BY <1>1, RankType, NthRank
    <3>2. picked[r] = buffer[k] /\ buffer[k].sender = s
      BY <1>1, <3>1 DEF PositionsOf
    <3> HIDE DEF r
    <3>3. r \in Q
      BY <1>2, <3>1, <3>2 DEF PositionsOf
    <3>4. Rank(Q, r) \in 1..Cardinality(Q) /\ Nth(Q, Rank(Q, r)) = r
      BY <1>4, <3>3, RankType, NthRank
    <3>5. f[Rank(Q, r)] = k
      BY <3>1, <3>4
    <3> QED
      BY <3>4, <3>5
  <2> QED
    BY <2>1, <2>2, <2>3 DEF Enumerates
<1>8. /\ Cardinality(J) = Cardinality(Q)
      /\ FragmentsAt(buffer, J) = [n \in 1..Cardinality(Q) |-> buffer[f[n]].frag]
  BY <1>4, <1>5, <1>7, FragmentsAtEnumeration
<1>9. Pending(picked, s) = [n \in 1..Cardinality(Q) |-> picked[Nth(Q, n)].frag]
  BY <1>1, PendingIsFragmentsAt DEF FragmentsAt
<1>10. \A n \in 1..Cardinality(Q) : picked[Nth(Q, n)].frag = buffer[f[n]].frag
  BY <1>1, <1>6
<1> QED
  BY <1>8, <1>9, <1>10

\* What is appended to the buffer is appended to the queues.
LEMMA PendingOfConcat ==
  ASSUME NEW buffer \in Seq(Entry), NEW chunk \in Seq(Entry), NEW s
  PROVE  Pending(buffer \o chunk, s) = Pending(buffer, s) \o Pending(chunk, s)
<1> DEFINE both == buffer \o chunk
           l == Len(buffer)
           P == PositionsOf(buffer, s)
           C == PositionsOf(chunk, s)
           J == PositionsOf(both, s)
           p == Cardinality(P)
           c == Cardinality(C)
           f == [n \in 1..(p + c) |-> IF n <= p THEN Nth(P, n) ELSE l + Nth(C, n - p)]
<1>1. /\ both \in Seq(Entry) /\ DOMAIN both = 1..(l + Len(chunk))
      /\ DOMAIN buffer = 1..l /\ l \in Nat
      /\ DOMAIN chunk = 1..Len(chunk) /\ Len(chunk) \in Nat
      /\ \A n \in 1..l : both[n] = buffer[n]
      /\ \A n \in 1..Len(chunk) : both[l + n] = chunk[n]
  BY ConcatProperties, LenProperties
<1>2. /\ P \in SUBSET (1..l) /\ C \in SUBSET (1..Len(chunk))
      /\ J \in SUBSET (DOMAIN both)
  BY <1>1 DEF PositionsOf
<1>3. FinitePositions(P) /\ p \in Nat /\ FinitePositions(C) /\ c \in Nat
  BY <1>1, <1>2, FragmentsAtType
<1>4. \A n \in 1..p : Nth(P, n) \in P /\ Nth(P, n) \in 1..l
  BY <1>2, <1>3, NthType
<1>5. \A n \in 1..c : Nth(C, n) \in C /\ Nth(C, n) \in 1..Len(chunk)
  BY <1>2, <1>3, NthType
<1>6. ASSUME NEW n \in 1..(p + c)
      PROVE  /\ n <= p => n \in 1..p /\ f[n] = Nth(P, n)
             /\ ~ (n <= p) => n - p \in 1..c /\ f[n] = l + Nth(C, n - p)
  BY <1>3
<1> HIDE DEF f
<1>7. ASSUME NEW n \in 1..(p + c)
      PROVE  f[n] \in J
  <2>1. CASE n <= p
    <3>1. Nth(P, n) \in 1..l /\ buffer[Nth(P, n)].sender = s
      BY <1>4, <1>6, <2>1 DEF PositionsOf
    <3>2. Nth(P, n) \in DOMAIN both /\ both[Nth(P, n)].sender = s
      BY <1>1, <3>1
    <3> QED
      BY <1>6, <2>1, <3>2 DEF PositionsOf
  <2>2. CASE ~ (n <= p)
    <3> DEFINE k == Nth(C, n - p)
    <3>1. k \in 1..Len(chunk) /\ chunk[k].sender = s
      BY <1>5, <1>6, <2>2 DEF PositionsOf
    <3> HIDE DEF k
    <3>2. l + k \in DOMAIN both /\ both[l + k].sender = s
      BY <1>1, <3>1
    <3> QED
      BY <1>6, <2>2, <3>2 DEF PositionsOf, k
  <2> QED
    BY <2>1, <2>2
<1>8. Enumerates(f, p + c, J)
  <2>1. f \in [1..(p + c) -> J]
    BY <1>7 DEF f
  <2>2. ASSUME NEW i \in 1..(p + c), NEW j \in 1..(p + c), i < j
        PROVE  f[i] < f[j]
    <3>1. CASE j <= p
      <4>1. i <= p
        BY <1>3, <2>2, <3>1
      <4> QED
        BY <1>3, <1>6, <2>2, <3>1, <4>1, NthGrows
    <3>2. CASE ~ (i <= p)
      <4>1. ~ (j <= p) /\ i - p < j - p
        BY <1>3, <2>2, <3>2
      <4>2. /\ i - p \in 1..c /\ f[i] = l + Nth(C, i - p)
            /\ j - p \in 1..c /\ f[j] = l + Nth(C, j - p)
        BY <1>6, <3>2, <4>1
      <4>3. Nth(C, i - p) < Nth(C, j - p)
        BY <1>3, <4>1, <4>2, NthGrows
      <4>4. Nth(C, i - p) \in Nat /\ Nth(C, j - p) \in Nat
        BY <1>5, <4>2
      <4> HIDE DEF C
      <4> QED
        BY <1>1, <4>2, <4>3, <4>4
    <3>3. CASE i <= p /\ ~ (j <= p)
      <4>1. f[i] = Nth(P, i) /\ Nth(P, i) \in 1..l
        BY <1>4, <1>6, <3>3
      <4>2. f[j] = l + Nth(C, j - p) /\ Nth(C, j - p) \in 1..Len(chunk)
        BY <1>5, <1>6, <3>3
      <4> HIDE DEF C, P
      <4> QED
        BY <1>1, <4>1, <4>2
    <3> QED
      BY <3>1, <3>2, <3>3
  <2>3. ASSUME NEW k \in J
        PROVE  \E n \in 1..(p + c) : f[n] = k
    <3>1. k \in 1..(l + Len(chunk)) /\ both[k].sender = s
      BY <1>1 DEF PositionsOf
    <3>2. CASE k <= l
      <4>1. k \in P
        BY <1>1, <3>1, <3>2 DEF PositionsOf
      <4>2. Rank(P, k) \in 1..p /\ Nth(P, Rank(P, k)) = k
        BY <1>3, <4>1, RankType, NthRank
      <4>3. Rank(P, k) \in 1..(p + c) /\ Rank(P, k) <= p
        BY <1>3, <4>2
      <4> QED
        BY <1>6, <4>2, <4>3
    <3>3. CASE ~ (k <= l)
      <4>1. k - l \in 1..Len(chunk) /\ l + (k - l) = k
        BY <1>1, <3>1, <3>3
      <4>2. k - l \in C
        BY <1>1, <3>1, <4>1 DEF PositionsOf
      <4> DEFINE r == Rank(C, k - l)
      <4>3. r \in 1..c /\ Nth(C, r) = k - l
        BY <1>3, <4>2, RankType, NthRank
      <4> HIDE DEF r
      <4>4. p + r \in 1..(p + c) /\ ~ (p + r <= p) /\ (p + r) - p = r
        BY <1>3, <4>3
      <4>5. f[p + r] = l + (k - l)
        BY <1>6, <4>3, <4>4
      <4> QED
        BY <4>1, <4>4, <4>5
    <3> QED
      BY <3>2, <3>3
  <2> QED
    BY <2>1, <2>2, <2>3 DEF Enumerates
<1>9. p + c \in Nat
  BY <1>3
<1>10. Pending(both, s) = [n \in 1..(p + c) |-> both[f[n]].frag]
  <2>1. Pending(both, s) = FragmentsAt(both, J)
    BY <1>1, PendingIsFragmentsAt
  <2> DEFINE m == p + c
  <2>2. /\ m \in Nat /\ Enumerates(f, m, J)
        /\ both \in Seq(Entry) /\ J \in SUBSET (DOMAIN both)
    BY <1>1, <1>2, <1>8, <1>9
  <2> HIDE DEF J, both, m, p, c, P, C, l
  <2>3. FragmentsAt(both, J) = [n \in 1..m |-> both[f[n]].frag]
    BY <2>2, FragmentsAtEnumeration
  <2> QED
    BY <2>1, <2>3 DEF m
<1>11. /\ Pending(buffer, s) = [n \in 1..p |-> buffer[Nth(P, n)].frag]
       /\ Pending(chunk, s) = [n \in 1..c |-> chunk[Nth(C, n)].frag]
       /\ Pending(buffer, s) \in Seq(Fragment) /\ Len(Pending(buffer, s)) = p
       /\ Pending(chunk, s) \in Seq(Fragment) /\ Len(Pending(chunk, s)) = c
  <2>1. Pending(buffer, s) = FragmentsAt(buffer, P) /\ P \in SUBSET (DOMAIN buffer)
    BY PendingIsFragmentsAt
  <2>2. Pending(chunk, s) = FragmentsAt(chunk, C) /\ C \in SUBSET (DOMAIN chunk)
    BY PendingIsFragmentsAt
  <2> HIDE DEF P, C
  <2>3. FragmentsAt(buffer, P) \in Seq(Fragment) /\ Len(FragmentsAt(buffer, P)) = p
    BY <2>1, FragmentsAtType
  <2>4. FragmentsAt(chunk, C) \in Seq(Fragment) /\ Len(FragmentsAt(chunk, C)) = c
    BY <2>2, FragmentsAtType
  <2> QED
    BY <2>1, <2>2, <2>3, <2>4 DEF FragmentsAt
<1>12. ASSUME NEW n \in 1..(p + c)
       PROVE  both[f[n]].frag = IF n <= p THEN Pending(buffer, s)[n]
                                          ELSE Pending(chunk, s)[n - p]
  <2>1. CASE n <= p
    <3>1. n \in 1..p /\ f[n] = Nth(P, n) /\ Nth(P, n) \in 1..l
      BY <1>4, <1>6, <2>1
    <3>2. both[f[n]] = buffer[Nth(P, n)]
      BY <1>1, <3>1
    <3> QED
      BY <1>11, <2>1, <3>1, <3>2
  <2>2. CASE ~ (n <= p)
    <3>1. n - p \in 1..c /\ f[n] = l + Nth(C, n - p) /\ Nth(C, n - p) \in 1..Len(chunk)
      BY <1>5, <1>6, <2>2
    <3>2. both[f[n]] = chunk[Nth(C, n - p)]
      BY <1>1, <3>1
    <3> QED
      BY <1>11, <2>2, <3>1, <3>2
  <2> QED
    BY <2>1, <2>2
<1>13. Pending(buffer, s) \o Pending(chunk, s) =
          [n \in 1..(p + c) |-> IF n <= p THEN Pending(buffer, s)[n]
                                          ELSE Pending(chunk, s)[n - p]]
  <2> DEFINE x == Pending(buffer, s)
             y == Pending(chunk, s)
  <2>1. x \in Seq(Fragment) /\ y \in Seq(Fragment) /\ Len(x) = p /\ Len(y) = c
    BY <1>11
  <2> HIDE DEF x, y, p, c
  <2>2. x \o y = [n \in 1..(Len(x) + Len(y)) |->
                    IF n <= Len(x) THEN x[n] ELSE y[n - Len(x)]]
    BY <2>1, ConcatAt
  <2> QED
    BY <2>1, <2>2 DEF x, y
<1> HIDE DEF p, c, both
<1> QED
  BY <1>10, <1>12, <1>13 DEF both

\* A message arrives in the queue of its sender and in no other.
LEMMA PendingOfEntries ==
  ASSUME NEW r \in Party, NEW p \in Party, NEW message \in Message,
         NEW e \in Session, NEW s
  PROVE  Pending(Entries(r, p, message, e), s) = IF s = r THEN message ELSE <<>>
<1> DEFINE chunk == Entries(r, p, message, e)
           P == PositionsOf(chunk, s)
<1>1. message \in Seq(Fragment) /\ Len(message) \in Nat
      /\ DOMAIN message = 1..Len(message)
  BY MessageAssumption
<1>2. chunk \in Seq(Entry)
  BY EntriesType
<1>3. DOMAIN chunk = 1..Len(message)
      /\ \A n \in 1..Len(message) : chunk[n].sender = r /\ chunk[n].frag = message[n]
  BY <1>1 DEF Entries
<1> HIDE DEF chunk
<1>4. CASE s = r
  <2>1. P = 1..Len(message)
    BY <1>3, <1>4 DEF PositionsOf
  <2> DEFINE f == [n \in 1..Len(message) |-> n]
  <2>2. Enumerates(f, Len(message), P)
    BY <1>1, <2>1 DEF Enumerates
  <2>3. P \in SUBSET (DOMAIN chunk)
    BY DEF PositionsOf
  <2> HIDE DEF P
  <2>4. FragmentsAt(chunk, P) = [n \in 1..Len(message) |-> chunk[f[n]].frag]
    BY <1>1, <1>2, <2>2, <2>3, FragmentsAtEnumeration
  <2>5. FragmentsAt(chunk, P) = [n \in 1..Len(message) |-> message[n]]
    BY <1>3, <2>4
  <2>6. message = [n \in 1..Len(message) |-> message[n]]
    BY <1>1
  <2> QED
    BY <1>2, <1>4, <2>5, <2>6, PendingIsFragmentsAt DEF P, chunk
<1>5. CASE s # r
  <2>1. P = {}
    BY <1>3, <1>5 DEF PositionsOf
  <2>2. /\ FragmentsAt(chunk, P) \in Seq(Fragment)
        /\ Len(FragmentsAt(chunk, P)) = Cardinality(P)
    BY <1>2, FragmentsAtType DEF PositionsOf
  <2>3. Cardinality(P) = 0
    BY <2>1, FS_EmptySet
  <2>4. FragmentsAt(chunk, P) = <<>>
    BY <2>2, <2>3, EmptySeq
  <2> QED
    BY <1>2, <1>5, <2>4, PendingIsFragmentsAt DEF chunk
<1> QED
  BY <1>4, <1>5

\* Dropping the fragments of s up to position i takes a prefix off its queue.
LEMMA PendingAbove ==
  ASSUME NEW buffer \in Seq(Entry), NEW s, NEW i \in Nat,
         NEW J, J = {k \in PositionsOf(buffer, s) : ~ (k <= i)}
  PROVE  LET n == Rank(PositionsOf(buffer, s), i)
         IN  /\ n \in 0..Len(Pending(buffer, s))
             /\ FragmentsAt(buffer, J)
                   = SubSeq(Pending(buffer, s), n + 1, Len(Pending(buffer, s)))
<1> DEFINE P == PositionsOf(buffer, s)
           q == Pending(buffer, s)
           r == Rank(P, i)
           f == [n \in 1..(Cardinality(P) - r) |-> Nth(P, n + r)]
<1>1. P \in SUBSET (DOMAIN buffer) /\ q = FragmentsAt(buffer, P)
  BY PendingIsFragmentsAt
<1>2. /\ FinitePositions(P) /\ Cardinality(P) \in Nat
      /\ q \in Seq(Fragment) /\ Len(q) = Cardinality(P)
  BY <1>1, FragmentsAtType
<1>3. r \in 0..Len(q)
  BY <1>2, RankOfBound
<1>4. Enumerates(f, Cardinality(P) - r, J)
  BY <1>2, EnumeratesAbove
<1>5. q = [n \in 1..Len(q) |-> buffer[Nth(P, n)].frag]
  BY <1>1, <1>2 DEF FragmentsAt
<1>6. J \in SUBSET (DOMAIN buffer)
  BY <1>1
<1> HIDE DEF P, q, r, f
<1>7. Cardinality(P) - r \in Nat
  BY <1>2, <1>3
<1>8. FragmentsAt(buffer, J) = [n \in 1..(Len(q) - r) |-> buffer[f[n]].frag]
  <2>1. FragmentsAt(buffer, J) = [n \in 1..(Cardinality(P) - r) |-> buffer[f[n]].frag]
    BY <1>4, <1>6, <1>7, FragmentsAtEnumeration
  <2> QED
    BY <1>2, <2>1
<1>9. ASSUME NEW n \in 1..(Len(q) - r)
      PROVE  buffer[f[n]].frag = q[n + r]
  <2>1. f[n] = Nth(P, n + r)
    BY <1>2 DEF f
  <2>2. n + r \in 1..Len(q)
    BY <1>2, <1>3
  <2> QED
    BY <1>5, <2>1, <2>2
<1>10. SubSeq(q, r + 1, Len(q)) = [n \in 1..(Len(q) - r) |-> q[n + r]]
  BY <1>2, <1>3, SubSeqAt
<1>11. FragmentsAt(buffer, J) = SubSeq(q, r + 1, Len(q))
  BY <1>8, <1>9, <1>10
<1> QED
  BY <1>3, <1>11 DEF q, r, P

\* Dropping one fragment of s drops one element of its queue.
LEMMA PendingWithout ==
  ASSUME NEW buffer \in Seq(Entry), NEW s, NEW i \in PositionsOf(buffer, s)
  PROVE  \E n \in 1..Len(Pending(buffer, s)) :
            FragmentsAt(buffer, PositionsOf(buffer, s) \ {i})
              = SubSeq(Pending(buffer, s), 1, n - 1)
                \o SubSeq(Pending(buffer, s), n + 1, Len(Pending(buffer, s)))
<1> DEFINE P == PositionsOf(buffer, s)
           q == Pending(buffer, s)
           r == Rank(P, i)
           J == P \ {i}
           f == [n \in 1..(Cardinality(P) - 1) |->
                    IF n < r THEN Nth(P, n) ELSE Nth(P, n + 1)]
<1>1. P \in SUBSET (DOMAIN buffer) /\ q = FragmentsAt(buffer, P)
  BY PendingIsFragmentsAt
<1>2. /\ FinitePositions(P) /\ Cardinality(P) \in Nat
      /\ q \in Seq(Fragment) /\ Len(q) = Cardinality(P)
  BY <1>1, FragmentsAtType
<1>3. r \in 1..Len(q)
  BY <1>2, RankType
<1>4. Enumerates(f, Cardinality(P) - 1, J)
  BY <1>2, EnumeratesWithout
<1>5. q = [n \in 1..Len(q) |-> buffer[Nth(P, n)].frag]
  BY <1>1, <1>2 DEF FragmentsAt
<1>6. J \in SUBSET (DOMAIN buffer)
  BY <1>1
<1> HIDE DEF P, q, r, f, J
<1>7. Cardinality(P) - 1 \in Nat
  BY <1>2, <1>3
<1>8. FragmentsAt(buffer, J) = [n \in 1..(Len(q) - 1) |-> buffer[f[n]].frag]
  BY <1>2, <1>4, <1>6, <1>7, FragmentsAtEnumeration
<1> DEFINE x == SubSeq(q, 1, r - 1)
           y == SubSeq(q, r + 1, Len(q))
<1>9. x \in Seq(Fragment) /\ Len(x) = r - 1 /\ \A n \in 1..(r - 1) : x[n] = q[n]
  <2>1. 0 \in 0..Len(q) /\ r - 1 \in 0..Len(q)
    BY <1>2, <1>3
  <2>2. /\ SubSeq(q, 0 + 1, r - 1) \in Seq(Fragment)
        /\ Len(SubSeq(q, 0 + 1, r - 1)) = (r - 1) - 0
        /\ SubSeq(q, 0 + 1, r - 1) = [n \in 1..((r - 1) - 0) |-> q[n + 0]]
    BY <1>2, <2>1, SubSeqAt
  <2>3. 0 + 1 = 1 /\ (r - 1) - 0 = r - 1 /\ \A n \in 1..(r - 1) : n + 0 = n
    BY <1>3
  <2> QED
    BY <2>2, <2>3
<1>10. y \in Seq(Fragment) /\ Len(y) = Len(q) - r
       /\ \A n \in 1..(Len(q) - r) : y[n] = q[n + r]
  <2>1. r \in 0..Len(q) /\ Len(q) \in r..Len(q)
    BY <1>2, <1>3
  <2>2. y = [n \in 1..(Len(q) - r) |-> q[n + r]]
        /\ y \in Seq(Fragment) /\ Len(y) = Len(q) - r
    BY <1>2, <2>1, SubSeqAt
  <2> QED
    BY <2>2
<1> HIDE DEF x, y
<1>11. x \o y = [n \in 1..(Len(x) + Len(y)) |->
                    IF n <= Len(x) THEN x[n] ELSE y[n - Len(x)]]
  BY <1>9, <1>10, ConcatAt
<1>12. Len(x) + Len(y) = Len(q) - 1
  BY <1>2, <1>3, <1>9, <1>10
<1>13. ASSUME NEW n \in 1..(Len(q) - 1)
       PROVE  buffer[f[n]].frag = IF n <= Len(x) THEN x[n] ELSE y[n - Len(x)]
  <2>1. CASE n < r
    <3>1. n \in 1..(r - 1) /\ n <= Len(x) /\ n \in 1..Len(q)
      BY <1>2, <1>3, <1>9, <2>1
    <3>2. f[n] = Nth(P, n)
      BY <1>2, <2>1 DEF f
    <3>3. buffer[Nth(P, n)].frag = q[n]
      BY <1>5, <3>1
    <3> QED
      BY <1>9, <3>1, <3>2, <3>3
  <2>2. CASE ~ (n < r)
    <3> DEFINE k == n - Len(x)
    <3>1. ~ (n <= Len(x)) /\ k \in 1..(Len(q) - r) /\ k + r = n + 1
          /\ n + 1 \in 1..Len(q)
      BY <1>2, <1>3, <1>9, <2>2
    <3>2. f[n] = Nth(P, n + 1)
      BY <1>2, <2>2 DEF f
    <3>3. buffer[Nth(P, n + 1)].frag = q[n + 1]
      BY <1>5, <3>1
    <3> HIDE DEF k
    <3>4. y[k] = q[n + 1]
      BY <1>10, <3>1
    <3> QED
      BY <3>1, <3>2, <3>3, <3>4 DEF k
  <2> QED
    BY <2>1, <2>2
<1>14. FragmentsAt(buffer, J) = x \o y
  BY <1>8, <1>11, <1>12, <1>13
<1> QED
  BY <1>3, <1>14 DEF x, y, q, J, P
-------------------------------------------------------------------------------
(* Every step of FandangoIO is a step, or none, of the queues.             *)

LEMMA QueuesUnchanged ==
  ASSUME receive' = receive
  PROVE  PendingQueues' = PendingQueues
BY DEF PendingQueues, Pending, PositionsOf, Select

\* A message is put at the end of the buffer, and of the queue of its sender.
LEMMA AddReceiveExtends ==
  ASSUME IInv, NEW t \in Thread, AddReceive(t)
  PROVE  \E r \in Party, message \in Message, chunk \in Seq(Entry) :
            /\ receive' = receive \o chunk
            /\ \A s \in Party : Pending(receive', s) =
                  IF s = r THEN Pending(receive, s) \o message ELSE Pending(receive, s)
            /\ PendingQueues' = [PendingQueues EXCEPT ![r] = PendingQueues[r] \o message]
<1> DEFINE r == listener[t].sender
           message == listener[t].message
           chunk == Entries(r, t[1], message, t[2])
<1>1. r \in Party /\ message \in Message
  BY AddingType DEF AddReceive, IInv
<1>2. t[1] \in Party /\ t[2] \in Session
  BY PartyAssumption
<1>3. receive \in Seq(Entry) /\ chunk \in Seq(Entry) /\ receive' = receive \o chunk
  BY <1>1, <1>2, EntriesType DEF AddReceive, IInv, TypeOK
<1>4. \A s : Pending(chunk, s) = IF s = r THEN message ELSE <<>>
  BY <1>1, <1>2, PendingOfEntries
<1> HIDE DEF r, message, chunk
<1>5. ASSUME NEW s \in Party
      PROVE  Pending(receive', s) = IF s = r THEN Pending(receive, s) \o message
                                             ELSE Pending(receive, s)
  <2>1. Pending(receive', s) = Pending(receive, s) \o Pending(chunk, s)
    BY <1>3, PendingOfConcat
  <2>2. Pending(receive, s) \in Seq(Fragment)
    BY <1>3, PendingIsFragmentsAt, FragmentsAtType
  <2>3. Pending(receive, s) \o <<>> = Pending(receive, s)
    BY <2>2, ConcatEmptySeq
  <2> QED
    BY <1>4, <2>1, <2>3
<1>6. PendingQueues' = [PendingQueues EXCEPT ![r] = PendingQueues[r] \o message]
  BY <1>1, <1>5 DEF PendingQueues
<1> QED
  BY <1>1, <1>3, <1>5, <1>6

LEMMA AddReceiveArrives ==
  ASSUME IInv, NEW t \in Thread, AddReceive(t)
  PROVE  Queues!Next
<1>1. PICK r \in Party, message \in Message :
         PendingQueues' = [PendingQueues EXCEPT ![r] = PendingQueues[r] \o message]
  BY AddReceiveExtends
<1> QED
  BY <1>1 DEF Queues!Next, Queues!Arrive

\* What is left of the buffer is what is left of each queue.
LEMMA ConsumeLeaves ==
  ASSUME IInv, NEW kept \in SUBSET (DOMAIN receive), Consume(kept), NEW s
  PROVE  /\ receive \in Seq(Entry)
         /\ Pending(receive', s) = FragmentsAt(receive, kept \cap PositionsOf(receive, s))
         /\ PositionsOf(receive, s) \subseteq kept =>
               Pending(receive', s) = Pending(receive, s)
<1>1. receive \in Seq(Entry)
  BY DEF IInv, TypeOK
<1>2. Pending(receive', s) = FragmentsAt(receive, kept \cap PositionsOf(receive, s))
  BY <1>1, PendingOfSelect DEF Consume
<1>3. ASSUME PositionsOf(receive, s) \subseteq kept
      PROVE  kept \cap PositionsOf(receive, s) = PositionsOf(receive, s)
  BY <1>3
<1> QED
  BY <1>1, <1>2, <1>3, PendingIsFragmentsAt

\* The queue of the party loses its oldest fragments, up to position i.
LEMMA ClearByPartyShortens ==
  ASSUME IInv, NEW p \in Party, NEW i \in 1..Len(receive), ClearByParty(p, i)
  PROVE  LET n == Rank(PositionsOf(receive, p), i)
         IN  /\ n \in 0..Len(Pending(receive, p))
             /\ PendingQueues' = [PendingQueues EXCEPT ![p] =
                   SubSeq(PendingQueues[p], n + 1, Len(PendingQueues[p]))]
<1> DEFINE n == Rank(PositionsOf(receive, p), i)
           K == Kept(receive, p, i)
           J == {k \in PositionsOf(receive, p) : ~ (k <= i)}
<1>1. K \in SUBSET (DOMAIN receive) /\ Consume(K) /\ receive \in Seq(Entry)
  BY DEF Kept, ClearByParty, IInv, TypeOK
<1>2. K \cap PositionsOf(receive, p) = J
  BY DEF Kept, PositionsOf
<1>3. \A s : s # p => PositionsOf(receive, s) \subseteq K
  BY DEF Kept, PositionsOf
<1> HIDE DEF K
<1>4. Pending(receive', p) = FragmentsAt(receive, J)
  BY <1>1, <1>2, ConsumeLeaves
<1>5. \A s : s # p => Pending(receive', s) = Pending(receive, s)
  BY <1>1, <1>3, ConsumeLeaves
<1>6. i \in Nat
  BY <1>1
<1>7. /\ n \in 0..Len(Pending(receive, p))
      /\ FragmentsAt(receive, J)
           = SubSeq(Pending(receive, p), n + 1, Len(Pending(receive, p)))
  BY <1>1, <1>6, PendingAbove
<1> HIDE DEF J, n
<1>8. PendingQueues[p] = Pending(receive, p)
  BY DEF PendingQueues
<1>9. PendingQueues' = [PendingQueues EXCEPT ![p] =
           SubSeq(PendingQueues[p], n + 1, Len(PendingQueues[p]))]
  BY <1>4, <1>5, <1>7 DEF PendingQueues
<1> QED
  BY <1>7, <1>9 DEF n

LEMMA ClearByPartyTakes ==
  ASSUME IInv, NEW p \in Party, NEW i \in 1..Len(receive), ClearByParty(p, i)
  PROVE  Queues!Next
<1>1. PICK n \in 0..Len(Pending(receive, p)) :
         PendingQueues' = [PendingQueues EXCEPT ![p] =
            SubSeq(PendingQueues[p], n + 1, Len(PendingQueues[p]))]
  BY ClearByPartyShortens
<1>2. PendingQueues[p] = Pending(receive, p)
  BY DEF PendingQueues
<1>3. Queues!Take(p, n)
  BY <1>1, <1>2 DEF Queues!Take
<1> QED
  BY <1>1, <1>2, <1>3 DEF Queues!Next

LEMMA ClearReceivedMsgForgets ==
  ASSUME IInv, NEW i \in 1..Len(receive), ClearReceivedMsg(i)
  PROVE  Queues!Next
<1> DEFINE K == DOMAIN receive \ {i}
           p == receive[i].sender
<1>1. K \in SUBSET (DOMAIN receive) /\ Consume(K) /\ receive \in Seq(Entry)
  BY DEF ClearReceivedMsg, IInv, TypeOK
<1>2. i \in PositionsOf(receive, p) /\ p \in Party
  <2>1. receive[i] \in Entry
    BY <1>1, ElementOfSeq
  <2>2. i \in DOMAIN receive
    BY <1>1
  <2> QED
    BY <2>1, <2>2 DEF PositionsOf, Entry
<1>3. K \cap PositionsOf(receive, p) = PositionsOf(receive, p) \ {i}
  BY DEF PositionsOf
<1>4. \A s : s # p => PositionsOf(receive, s) \subseteq K
  BY DEF PositionsOf
<1> HIDE DEF K, p
<1>5. Pending(receive', p) = FragmentsAt(receive, PositionsOf(receive, p) \ {i})
  BY <1>1, <1>3, ConsumeLeaves
<1>6. \A s : s # p => Pending(receive', s) = Pending(receive, s)
  BY <1>1, <1>4, ConsumeLeaves
<1>7. PICK n \in 1..Len(Pending(receive, p)) :
           FragmentsAt(receive, PositionsOf(receive, p) \ {i})
              = SubSeq(Pending(receive, p), 1, n - 1)
                \o SubSeq(Pending(receive, p), n + 1, Len(Pending(receive, p)))
  BY <1>1, <1>2, PendingWithout
<1>8. PendingQueues[p] = Pending(receive, p)
  BY <1>2 DEF PendingQueues
<1>9. PendingQueues' = [PendingQueues EXCEPT ![p] =
           SubSeq(PendingQueues[p], 1, n - 1)
           \o SubSeq(PendingQueues[p], n + 1, Len(PendingQueues[p]))]
  BY <1>5, <1>6, <1>7 DEF PendingQueues
<1>10. Queues!Forget(p, n)
  BY <1>7, <1>8, <1>9 DEF Queues!Forget
<1>11. n \in 0..Len(PendingQueues[p])
  BY <1>7, <1>8
<1> QED
  BY <1>2, <1>10, <1>11 DEF Queues!Next

LEMMA PendingOfEmpty ==
  ASSUME NEW s
  PROVE  Pending(<<>>, s) = <<>>
<1>1. <<>> \in Seq(Entry)
  BY EmptySeq
<1>2. PositionsOf(<<>>, s) = {}
  BY <1>1 DEF PositionsOf
<1>3. Len(FragmentsAt(<<>>, {})) = 0 /\ FragmentsAt(<<>>, {}) \in Seq(Fragment)
  BY <1>1, FragmentsAtType, FS_EmptySet
<1> QED
  BY <1>1, <1>2, <1>3, PendingIsFragmentsAt, EmptySeq

LEMMA ClearReceivedMsgsForgetsAll ==
  ASSUME IInv, ClearReceivedMsgs
  PROVE  Queues!Next
<1>1. Consume({}) /\ {} \in SUBSET (DOMAIN receive) /\ receive \in Seq(Entry)
  BY DEF ClearReceivedMsgs, IInv, TypeOK
<1>2. receive' = Select(receive, {}) /\ Select(receive, {}) \in Seq(Entry)
      /\ Len(Select(receive, {})) = Cardinality({})
  BY <1>1, SelectType DEF Consume
<1>3. receive' = <<>>
  BY <1>2, FS_EmptySet, EmptySeq
<1>4. PendingQueues' = [s \in Party |-> <<>>]
  BY <1>3, PendingOfEmpty DEF PendingQueues
<1> QED
  BY <1>4 DEF Queues!Next, Queues!ForgetAll

LEMMA StepOfQueues == IInv /\ [Next]_vars => [Queues!Next]_PendingQueues
<1> SUFFICES ASSUME IInv, [Next]_vars
             PROVE  Queues!Next \/ PendingQueues' = PendingQueues
  OBVIOUS
<1>1. CASE ListenerStep
  <2>1. ASSUME NEW t \in Thread, NEW message \in Message, Receive(t, message)
        PROVE  receive' = receive
    BY <2>1 DEF Receive
  <2>2. ASSUME NEW t \in Thread, ReceiveRaises(t)
        PROVE  receive' = receive
    BY <2>2 DEF ReceiveRaises
  <2> QED
    BY <1>1, <2>1, <2>2, AddReceiveArrives, QueuesUnchanged DEF ListenerStep
<1>2. CASE ConsumeStep
  BY <1>2, ClearByPartyTakes, ClearReceivedMsgForgets, ClearReceivedMsgsForgetsAll
     DEF ConsumeStep
<1>3. CASE ResetParties
  BY <1>3, QueuesUnchanged DEF ResetParties
<1>4. CASE RestartStep
  <2>1. ASSUME NEW p \in Party, CreateParty(p) \/ StopParty(p)
        PROVE  receive' = receive
    BY <2>1 DEF CreateParty, StopParty
  <2>2. ASSUME PartiesCreated \/ ForgetParties
        PROVE  receive' = receive
    BY <2>2 DEF PartiesCreated, ForgetParties
  <2>3. ASSUME ClearForRestart
        PROVE  Queues!Next
    <3>1. receive' = <<>>
      BY <2>3 DEF ClearForRestart
    <3>2. PendingQueues' = [s \in Party |-> <<>>]
      BY <3>1, PendingOfEmpty DEF PendingQueues
    <3> QED
      BY <3>2 DEF Queues!Next, Queues!ForgetAll
  <2> QED
    BY <1>4, <2>1, <2>2, <2>3, QueuesUnchanged DEF RestartStep
<1>5. CASE UNCHANGED vars
  BY <1>5, QueuesUnchanged DEF vars
<1> QED
  BY <1>1, <1>2, <1>3, <1>4, <1>5 DEF Next

\* However listeners interleave and whatever is cleared in between, the buffer
\* is one FIFO queue per party.
THEOREM BufferIsQueues == Spec => ImplementsQueues
<1>1. Init => Queues!Init
  <2>1. ASSUME Init
        PROVE  PendingQueues = [s \in Party |-> <<>>]
    BY <2>1, PendingOfEmpty DEF Init, PendingQueues
  <2> QED
    BY <2>1 DEF Queues!Init
<1> QED
  BY InitIInv, NextKeepsIInv, StepOfQueues, <1>1, PTL
     DEF Spec, ImplementsQueues, Queues!Spec

HIDE DEF Thread, Session
-------------------------------------------------------------------------------
(* The packet parser.                                                      *)

\* The fragments of the sender whose packet is parsed, and how many of them are up to
\* position i of the buffer.
Own == Pending(receive, msg_sender)
ReadTo(i) == Rank(PositionsOf(receive, msg_sender), i)

\* The parsers are at work, or have failed for what they have read.
Parsing ==
    \/ step \in {"finding", "waiting", "found", "checking", "choosing"}
    \/ result = Raised("Could not parse")

\* What the parsers have consumed is the beginning of what the sender has sent.
ReadsInOrder ==
    /\ msg_sender \in DOMAIN forecast
    /\ Len(text) = ReadTo(current_fragment_idx)
    /\ text = SubSeq(Own, 1, Len(text))

\* The position that was found is that of the next fragment of the sender.
FoundIsNext ==
    /\ step = "found" => next_fragment_idx # 0
    /\ step \in {"found", "checking"} /\ next_fragment_idx # 0 =>
          /\ next_fragment_idx \in PositionsOf(receive, msg_sender)
          /\ ReadTo(next_fragment_idx) = Len(text) + 1

\* A complete parse is the beginning of what the sender has sent, up to the position
\* that is kept with it.
ParsesAreRead ==
    \A nt \in DOMAIN complete_parses :
        /\ nt \in forecast[msg_sender]
        /\ complete_parses[nt].last \in PositionsOf(receive, msg_sender)
        /\ complete_parses[nt].tree =
              SubSeq(Own, 1, ReadTo(complete_parses[nt].last))

\* No packet among the fragments read was passed over for good.
NoneMissed ==
    \A nt \in forecast[msg_sender], n \in 1..Len(text) :
        SubSeq(text, 1, n) \in Derivable[nt] =>
            /\ nt \in DOMAIN complete_parses
            /\ n <= ReadTo(complete_parses[nt].last)

\* Only parsers that cannot go on have been given up.
OthersCannotContinue ==
    /\ available_non_terminals \subseteq forecast[msg_sender]
    /\ \A nt \in forecast[msg_sender] \ available_non_terminals : ~ CanContinue(nt, text)

ParsingInv ==
    Parsing => /\ ReadsInOrder
               /\ FoundIsNext
               /\ ParsesAreRead
               /\ NoneMissed
               /\ OthersCannotContinue

CallInv ==
    /\ pc = "run"
    /\ step = "called" => receive # <<>>
    /\ step \notin {"idle", "raised"} => result = Nothing
    /\ step \in {"finding", "waiting", "found", "checking"} => ~ waited
    /\ step = "choosing" => IF waited THEN complete_parses # <<>>
                                      ELSE available_non_terminals = {}
    /\ result # Raised("None returned")
    /\ result = Raised("Could not parse") =>
          step = "raised" /\ complete_parses = <<>> /\ available_non_terminals = {}

ParserInv ==
    /\ IInv
    /\ ParserTypeOK
    /\ CallInv
    /\ ParsingInv
-------------------------------------------------------------------------------
(* Beginnings of sequences.                                                *)

LEMMA PrefixAt ==
  ASSUME NEW S, NEW a \in Seq(S), NEW n \in 0..Len(a)
  PROVE  /\ SubSeq(a, 1, n) \in Seq(S) /\ Len(SubSeq(a, 1, n)) = n
         /\ \A k \in 1..n : SubSeq(a, 1, n)[k] = a[k]
<1> DEFINE front == SubSeq(a, 1, n)
<1>1. n \in Nat /\ Len(a) \in Nat /\ 0 \in 0..Len(a) /\ n \in 0..Len(a)
      /\ 0 + 1 = 1 /\ n - 0 = n
  OBVIOUS
<1>2. /\ SubSeq(a, 0 + 1, n) \in Seq(S) /\ Len(SubSeq(a, 0 + 1, n)) = n - 0
      /\ SubSeq(a, 0 + 1, n) = [k \in 1..(n - 0) |-> a[k + 0]]
  BY <1>1, SubSeqAt
<1>3. front = [k \in 1..n |-> a[k + 0]] /\ front \in Seq(S) /\ Len(front) = n
  BY <1>1, <1>2
<1>4. \A k \in 1..n : k + 0 = k
  OBVIOUS
<1> HIDE DEF front
<1>5. \A k \in 1..n : front[k] = a[k]
  BY <1>3, <1>4
<1> QED
  BY <1>3, <1>5 DEF front

LEMMA PrefixOfConcat ==
  ASSUME NEW S, NEW a \in Seq(S), NEW b \in Seq(S), NEW n \in 0..Len(a)
  PROVE  SubSeq(a \o b, 1, n) = SubSeq(a, 1, n)
<1> DEFINE both == a \o b
<1>1. /\ both \in Seq(S) /\ Len(both) = Len(a) + Len(b)
      /\ \A i \in 1..(Len(a) + Len(b)) : both[i] = IF i <= Len(a) THEN a[i] ELSE b[i - Len(a)]
  BY ConcatProperties
<1>2. Len(a) \in Nat /\ Len(b) \in Nat
  OBVIOUS
<1> HIDE DEF both
<1>3. n \in 0..Len(both) /\ \A k \in 1..n : both[k] = a[k]
  BY <1>1, <1>2
<1>4. /\ SubSeq(both, 1, n) \in Seq(S) /\ Len(SubSeq(both, 1, n)) = n
      /\ \A k \in 1..n : SubSeq(both, 1, n)[k] = both[k]
  BY <1>1, <1>3, PrefixAt
<1>5. /\ SubSeq(a, 1, n) \in Seq(S) /\ Len(SubSeq(a, 1, n)) = n
      /\ \A k \in 1..n : SubSeq(a, 1, n)[k] = a[k]
  BY PrefixAt
<1>6. SubSeq(both, 1, n) = SubSeq(a, 1, n)
  BY <1>3, <1>4, <1>5, SeqEqual
<1> QED
  BY <1>6 DEF both

LEMMA PrefixOfAppend ==
  ASSUME NEW S, NEW t \in Seq(S), NEW x \in S, NEW n \in 0..Len(t)
  PROVE  SubSeq(Append(t, x), 1, n) = SubSeq(t, 1, n)
<1> DEFINE last == <<x>>
<1>1. last \in Seq(S) /\ Append(t, x) = t \o last
  BY AppendIsConcat
<1> HIDE DEF last
<1> QED
  BY <1>1, PrefixOfConcat

LEMMA PrefixOfPrefix ==
  ASSUME NEW S, NEW a \in Seq(S), NEW m \in 0..Len(a), NEW n \in 0..m
  PROVE  SubSeq(SubSeq(a, 1, m), 1, n) = SubSeq(a, 1, n)
<1> DEFINE front == SubSeq(a, 1, m)
<1>1. /\ front \in Seq(S) /\ Len(front) = m
      /\ \A k \in 1..m : front[k] = a[k]
  BY PrefixAt
<1>2. n \in 0..Len(a) /\ \A k \in 1..n : k \in 1..m
  OBVIOUS
<1> HIDE DEF front
<1>3. /\ SubSeq(front, 1, n) \in Seq(S) /\ Len(SubSeq(front, 1, n)) = n
      /\ \A k \in 1..n : SubSeq(front, 1, n)[k] = front[k]
  BY <1>1, PrefixAt
<1>4. /\ SubSeq(a, 1, n) \in Seq(S) /\ Len(SubSeq(a, 1, n)) = n
      /\ \A k \in 1..n : SubSeq(a, 1, n)[k] = a[k]
  BY <1>2, PrefixAt
<1>5. SubSeq(front, 1, n) = SubSeq(a, 1, n)
  BY <1>1, <1>2, <1>3, <1>4, SeqEqual
<1> QED
  BY <1>5 DEF front

LEMMA PrefixNext ==
  ASSUME NEW S, NEW a \in Seq(S), NEW l \in Nat, l + 1 <= Len(a)
  PROVE  SubSeq(a, 1, l + 1) = Append(SubSeq(a, 1, l), a[l + 1])
<1> DEFINE front == SubSeq(a, 1, l)
           longer == SubSeq(a, 1, l + 1)
           other == Append(front, a[l + 1])
<1>1. l \in 0..Len(a) /\ l + 1 \in 0..Len(a) /\ l + 1 \in 1..Len(a)
  OBVIOUS
<1>2. front \in Seq(S) /\ Len(front) = l /\ \A k \in 1..l : front[k] = a[k]
  BY <1>1, PrefixAt
<1>3. /\ longer \in Seq(S) /\ Len(longer) = l + 1
      /\ \A k \in 1..(l + 1) : longer[k] = a[k]
  BY <1>1, PrefixAt
<1>4. a[l + 1] \in S
  BY <1>1, ElementOfSeq
<1> HIDE DEF front, longer
<1>5. /\ other \in Seq(S) /\ Len(other) = l + 1 /\ other[l + 1] = a[l + 1]
      /\ \A k \in 1..l : other[k] = front[k]
  BY <1>2, <1>4
<1> HIDE DEF other
<1>6. \A k \in 1..(l + 1) : longer[k] = other[k]
  <2>1. ASSUME NEW k \in 1..(l + 1)
        PROVE  longer[k] = other[k]
    <3>1. k = l + 1 \/ k \in 1..l
      OBVIOUS
    <3> QED
      BY <1>2, <1>3, <1>5, <3>1
  <2> QED
    BY <2>1
<1>7. longer = other
  BY <1>3, <1>5, <1>6, SeqEqual
<1> QED
  BY <1>7 DEF longer, other, front

\* A proper beginning can be continued.
LEMMA PrefixCanContinue ==
  ASSUME NEW nt \in NT, NEW a \in Seq(Fragment), NEW n \in 0..Len(a), NEW l \in 0..n, l # n,
         SubSeq(a, 1, n) \in Derivable[nt]
  PROVE  CanContinue(nt, SubSeq(a, 1, l))
<1> DEFINE v == SubSeq(a, 1, n)
           w == SubSeq(a, 1, l)
<1>1. v \in Lang[nt]
  BY LangAssumption
<1>2. Len(v) = n /\ Len(w) = l /\ SubSeq(v, 1, l) = w
  <2>1. l \in 0..Len(a)
    OBVIOUS
  <2> QED
    BY <2>1, PrefixAt, PrefixOfPrefix
<1> HIDE DEF v, w
<1>3. IsPrefixOf(w, v) /\ v # w
  BY <1>2 DEF IsPrefixOf
<1> QED
  BY <1>1, <1>3 DEF CanContinue, w

\* Who cannot continue after w cannot after more.
LEMMA LongerCannotContinue ==
  ASSUME NEW nt \in NT, NEW w \in Seq(Fragment), NEW x \in Fragment,
         CanContinue(nt, Append(w, x))
  PROVE  CanContinue(nt, w)
<1> DEFINE longer == Append(w, x)
<1>1. /\ longer \in Seq(Fragment) /\ Len(longer) = Len(w) + 1 /\ Len(w) \in Nat
  OBVIOUS
<1>2. Len(w) \in 0..Len(w) /\ SubSeq(longer, 1, Len(w)) = SubSeq(w, 1, Len(w))
  BY <1>1, PrefixOfAppend
<1>3. SubSeq(w, 1, Len(w)) = w
  <2>1. /\ SubSeq(w, 1, Len(w)) \in Seq(Fragment) /\ Len(SubSeq(w, 1, Len(w))) = Len(w)
        /\ \A k \in 1..Len(w) : SubSeq(w, 1, Len(w))[k] = w[k]
    BY <1>2, PrefixAt
  <2> QED
    BY <2>1, SeqEqual
<1> HIDE DEF longer
<1>4. PICK v \in Lang[nt] : IsPrefixOf(longer, v) /\ v # longer
  BY DEF CanContinue, longer
<1>5. v \in Seq(Fragment) /\ Len(v) \in Nat /\ Len(longer) <= Len(v)
      /\ SubSeq(v, 1, Len(longer)) = longer
  <2>1. v \in Seq(Fragment)
    BY LangAssumption
  <2> QED
    BY <1>4, <2>1 DEF IsPrefixOf
<1>6. SubSeq(v, 1, Len(w)) = w
  <2>1. Len(longer) \in 0..Len(v) /\ Len(w) \in 0..Len(longer)
    BY <1>1, <1>5
  <2>2. SubSeq(SubSeq(v, 1, Len(longer)), 1, Len(w)) = SubSeq(v, 1, Len(w))
    BY <1>5, <2>1, PrefixOfPrefix
  <2> QED
    BY <1>2, <1>3, <1>5, <2>2
<1>7. IsPrefixOf(w, v) /\ v # w
  BY <1>1, <1>5, <1>6 DEF IsPrefixOf
<1> QED
  BY <1>7 DEF CanContinue
-------------------------------------------------------------------------------
(* Positions in the buffer.                                                *)

LEMMA LeastOf ==
  ASSUME NEW K, FinitePositions(K), K # {}
  PROVE  Least(K) \in K /\ \A j \in K : Least(K) <= j
<1> DEFINE m == Nth(K, 1)
<1>1. K \in SUBSET Nat /\ Cardinality(K) \in Nat /\ Cardinality(K) # 0
  BY FS_CardinalityType, FS_EmptySet DEF FinitePositions
<1>2. 1 \in 1..Cardinality(K)
  BY <1>1
<1>3. m \in K
  BY <1>2, NthType
<1>4. ASSUME NEW j \in K
      PROVE  m <= j
  <2>1. Rank(K, j) \in 1..Cardinality(K) /\ Nth(K, Rank(K, j)) = j
    BY RankType, NthRank
  <2>2. CASE Rank(K, j) = 1
    BY <1>1, <1>3, <2>1, <2>2
  <2>3. CASE Rank(K, j) # 1
    <3>1. 1 < Rank(K, j)
      BY <1>1, <2>1, <2>3
    <3>2. m < j
      BY <1>2, <2>1, <3>1, NthGrows
    <3>3. m \in Nat /\ j \in Nat
      BY <1>1, <1>3
    <3> QED
      BY <3>2, <3>3
  <2> QED
    BY <2>2, <2>3
<1> HIDE DEF m
<1>5. \E k \in K : \A j \in K : k <= j
  BY <1>3, <1>4
<1> QED
  BY <1>5 DEF Least

\* How many fragments of s there are up to a position.
LEMMA RankOfPositions ==
  ASSUME NEW buffer \in Seq(Entry), NEW s
  PROVE  LET P == PositionsOf(buffer, s)
         IN  /\ FinitePositions(P) /\ P \in SUBSET (DOMAIN buffer)
             /\ Pending(buffer, s) \in Seq(Fragment)
             /\ Len(Pending(buffer, s)) = Cardinality(P) /\ Cardinality(P) \in Nat
             /\ Rank(P, 0) = 0
             /\ \A i \in Nat : Rank(P, i) \in 0..Cardinality(P)
             /\ \A i, j \in Nat : i <= j => Rank(P, i) <= Rank(P, j)
             /\ \A i \in P : /\ Rank(P, i) \in 1..Cardinality(P)
                             /\ Pending(buffer, s)[Rank(P, i)] = buffer[i].frag
<1> DEFINE P == PositionsOf(buffer, s)
           own == Pending(buffer, s)
<1>1. P \in SUBSET (DOMAIN buffer) /\ own = FragmentsAt(buffer, P)
  BY PendingIsFragmentsAt
<1>2. /\ FinitePositions(P) /\ Cardinality(P) \in Nat
      /\ own \in Seq(Fragment) /\ Len(own) = Cardinality(P)
  BY <1>1, FragmentsAtType
<1>3. own = [n \in 1..Cardinality(P) |-> buffer[Nth(P, n)].frag]
  BY <1>1 DEF FragmentsAt
<1>4. DOMAIN buffer = 1..Len(buffer) /\ Len(buffer) \in Nat
  OBVIOUS
<1> HIDE DEF P, own
<1>5. Rank(P, 0) = 0
  <2>1. {j \in P : j <= 0} = {}
    BY <1>1, <1>4
  <2> QED
    BY <2>1, FS_EmptySet DEF Rank
<1>6. \A i \in Nat : Rank(P, i) \in 0..Cardinality(P)
  BY <1>2, RankOfBound
<1>7. ASSUME NEW i \in Nat, NEW j \in Nat, i <= j
      PROVE  Rank(P, i) <= Rank(P, j)
  <2> DEFINE A == {k \in P : k <= i}
             B == {k \in P : k <= j}
  <2>1. A \in SUBSET B /\ B \in SUBSET P
    BY <1>1, <1>4, <1>7
  <2>2. IsFiniteSet(B)
    BY <1>2, <2>1, FS_Subset DEF FinitePositions
  <2>3. Cardinality(A) <= Cardinality(B)
    <3> HIDE DEF A, B
    <3> QED
      BY <2>1, <2>2, FS_Subset
  <2> QED
    BY <2>3 DEF Rank
<1>8. ASSUME NEW i \in P
      PROVE  Rank(P, i) \in 1..Cardinality(P) /\ own[Rank(P, i)] = buffer[i].frag
  <2>1. Rank(P, i) \in 1..Cardinality(P) /\ Nth(P, Rank(P, i)) = i
    BY <1>2, RankType, NthRank
  <2> QED
    BY <1>3, <2>1
<1> QED
  BY <1>1, <1>2, <1>5, <1>6, <1>7, <1>8 DEF P, own

\* _find_next_fragment() finds the next fragment of the party.
LEMMA FindsNext ==
  ASSUME receive \in Seq(Entry), NEW s, NEW i \in Nat, FindNextFragment(s, i + 1) # 0
  PROVE  LET P == PositionsOf(receive, s)
         IN  /\ FindNextFragment(s, i + 1) \in P
             /\ Rank(P, FindNextFragment(s, i + 1)) = Rank(P, i) + 1
<1> DEFINE P == PositionsOf(receive, s)
           later == {k \in P : k >= i + 1}
           j == Least(later)
           upto == {k \in P : k <= i}
<1>1. FinitePositions(P) /\ P \in SUBSET Nat
  <2>1. FinitePositions(P)
    BY RankOfPositions
  <2> QED
    BY <2>1 DEF FinitePositions
<1>2. later # {} /\ FindNextFragment(s, i + 1) = j
  BY DEF FindNextFragment
<1> HIDE DEF P
<1>3. later \in SUBSET P
  OBVIOUS
<1>4. FinitePositions(later)
  BY <1>1, <1>3, FS_Subset DEF FinitePositions
<1>5. j \in later /\ \A k \in later : j <= k
  <2> HIDE DEF later
  <2> QED
    BY <1>2, <1>4, LeastOf
<1> HIDE DEF j
<1>6. j \in P /\ j \in Nat /\ j >= i + 1 /\ \A k \in P : k >= i + 1 => j <= k
  BY <1>1, <1>5
<1>7. {k \in P : k <= j} = upto \cup {j}
  <2>1. ASSUME NEW k \in P
        PROVE  k <= j <=> k <= i \/ k = j
    BY <1>1, <1>6
  <2> QED
    BY <1>6, <2>1
<1>8. IsFiniteSet(upto) /\ j \notin upto
  <2>1. upto \in SUBSET P
    OBVIOUS
  <2> QED
    BY <1>1, <1>6, <2>1, FS_Subset DEF FinitePositions
<1>9. Rank(P, j) = Rank(P, i) + 1
  <2> HIDE DEF upto
  <2>1. Cardinality(upto \cup {j}) = Cardinality(upto) + 1
    BY <1>8, FS_AddElement
  <2> QED
    BY <1>7, <2>1 DEF Rank, upto
<1> QED
  BY <1>2, <1>6, <1>9 DEF P
-------------------------------------------------------------------------------
(* What a call can rely on.                                                *)

LEMMA ForecastTypes ==
  ASSUME ParserTypeOK
  PROVE  /\ DOMAIN forecast \subseteq Party
         /\ \A s \in DOMAIN forecast : forecast[s] \subseteq NT
BY LangAssumption DEF ParserTypeOK

\* The buffer of the sender as the parsers see it.
LEMMA OwnFacts ==
  ASSUME receive \in Seq(Entry)
  PROVE  /\ Own \in Seq(Fragment) /\ Len(Own) \in Nat
         /\ ReadTo(0) = 0
         /\ \A i \in Nat : ReadTo(i) \in 0..Len(Own)
         /\ \A i, j \in Nat : i <= j => ReadTo(i) <= ReadTo(j)
         /\ \A i \in PositionsOf(receive, msg_sender) :
               /\ i \in 1..Len(receive) /\ i \in Nat
               /\ ReadTo(i) \in 1..Len(Own) /\ Own[ReadTo(i)] = receive[i].frag
<1> DEFINE P == PositionsOf(receive, msg_sender)
<1>1. /\ P \in SUBSET (DOMAIN receive)
      /\ Own \in Seq(Fragment)
      /\ Len(Own) = Cardinality(P) /\ Cardinality(P) \in Nat
      /\ Rank(P, 0) = 0
      /\ \A i \in Nat : Rank(P, i) \in 0..Cardinality(P)
      /\ \A i, j \in Nat : i <= j => Rank(P, i) <= Rank(P, j)
      /\ \A i \in P : /\ Rank(P, i) \in 1..Cardinality(P)
                      /\ Own[Rank(P, i)] = receive[i].frag
  BY RankOfPositions DEF Own
<1>2. DOMAIN receive = 1..Len(receive) /\ Len(receive) \in Nat
  OBVIOUS
<1>3. \A i \in P : i \in 1..Len(receive) /\ i \in Nat
  BY <1>1, <1>2
<1> QED
  BY <1>1, <1>3 DEF ReadTo

LEMMA BufferType ==
  ASSUME ParserTypeOK
  PROVE  /\ receive \in Seq(Entry) /\ DOMAIN receive = 1..Len(receive)
         /\ Len(receive) \in Nat /\ Len(receive) \in 0..Len(receive)
         /\ current_fragment_idx \in Nat /\ next_fragment_idx \in Nat
<1>1. receive \in Seq(Entry)
  BY DEF ParserTypeOK, TypeOK
<1>2. DOMAIN receive = 1..Len(receive) /\ Len(receive) \in Nat
  BY <1>1
<1>3. current_fragment_idx \in 0..Len(receive) /\ next_fragment_idx \in 0..Len(receive)
  BY DEF ParserTypeOK
<1> QED
  BY <1>1, <1>2, <1>3

\* The parse data and what they are about stay the same.
SameParse ==
    UNCHANGED <<receive, forecast, msg_sender, available_non_terminals, text,
                complete_parses, current_fragment_idx>>

LEMMA SameParseStays ==
  ASSUME SameParse, ReadsInOrder, ParsesAreRead, NoneMissed, OthersCannotContinue
  PROVE  (ReadsInOrder /\ ParsesAreRead /\ NoneMissed /\ OthersCannotContinue)'
BY DEF SameParse, ReadsInOrder, ParsesAreRead, NoneMissed, OthersCannotContinue, Own, ReadTo,
       Pending, PositionsOf, Select

\* The evolution thread leaves the buffer alone while it parses.
LEMMA QuietKeepsIInv ==
  ASSUME IInv, Main, receive' = receive
  PROVE  IInv' /\ pc' = "run" /\ TypeOK'
<1>1. UNCHANGED vars
  BY DEF Main, vars
<1>2. IInv'
  BY <1>1, NextKeepsIInv
<1> QED
  BY <1>1, <1>2 DEF Main, IInv
-------------------------------------------------------------------------------
(* The steps of the call.                                                  *)

LEMMA CallKeepsParserInv ==
  ASSUME ParserInv, NEW f \in Forecasts, Call(f)
  PROVE  ParserInv'
<1>1. IInv' /\ pc' = "run" /\ TypeOK'
  BY QuietKeepsIInv DEF Call, ParserInv
<1>2. ParserTypeOK'
  BY <1>1 DEF Call, ParserInv, ParserTypeOK
<1>3. CallInv' /\ ~ Parsing'
  BY <1>1 DEF Call, ParserInv, CallInv, Parsing, Nothing, Raised
<1> QED
  BY <1>1, <1>2, <1>3 DEF ParserInv, ParsingInv

LEMMA EnterKeepsParserInv ==
  ASSUME ParserInv, Enter
  PROVE  ParserInv'
<1>1. IInv' /\ pc' = "run" /\ TypeOK'
  BY QuietKeepsIInv DEF Enter, ParserInv
<1>2. receive # <<>> /\ result = Nothing /\ step = "called"
  BY DEF Enter, ParserInv, CallInv
<1>3. Len(receive) \in 0..Len(receive)
  BY DEF ParserInv, ParserTypeOK, TypeOK
<1>4. ParserTypeOK'
  BY <1>1, <1>2, <1>3 DEF Enter, ParserInv, ParserTypeOK
<1>5. CallInv' /\ ~ Parsing'
  BY <1>1, <1>2 DEF Enter, ParserInv, CallInv, Parsing, Nothing, Raised
<1> QED
  BY <1>1, <1>4, <1>5 DEF ParserInv, ParsingInv

LEMMA LookAgainKeepsParserInv ==
  ASSUME ParserInv, LookAgain
  PROVE  ParserInv'
<1>1. IInv' /\ pc' = "run" /\ TypeOK'
  BY QuietKeepsIInv DEF LookAgain, ParserInv
<1>2. result = Nothing /\ step = "awaiting"
  BY DEF LookAgain, ParserInv, CallInv
<1>3. Len(receive) \in 0..Len(receive)
  BY DEF ParserInv, ParserTypeOK, TypeOK
<1>4. ParserTypeOK'
  BY <1>1, <1>3 DEF LookAgain, ParserInv, ParserTypeOK
<1>5. CallInv' /\ ~ Parsing'
  BY <1>1, <1>2 DEF LookAgain, ParserInv, CallInv, Parsing, Nothing, Raised
<1> QED
  BY <1>1, <1>4, <1>5 DEF ParserInv, ParsingInv

LEMMA UnexpectedPartyKeepsParserInv ==
  ASSUME ParserInv, UnexpectedParty
  PROVE  ParserInv'
<1>1. IInv' /\ pc' = "run" /\ TypeOK'
  BY QuietKeepsIInv DEF UnexpectedParty, ParserInv
<1>2. ParserTypeOK'
  BY <1>1 DEF UnexpectedParty, ParserInv, ParserTypeOK
<1>3. CallInv' /\ ~ Parsing'
  BY <1>1 DEF UnexpectedParty, ParserInv, CallInv, Parsing, Nothing, Raised
<1> QED
  BY <1>1, <1>2, <1>3 DEF ParserInv, ParsingInv

\* The parsers begin at the first fragment of a party that the forecast names.
LEMMA SelectSenderKeepsParserInv ==
  ASSUME ParserInv, SelectSender
  PROVE  ParserInv'
<1> DEFINE K == {k \in DOMAIN receive : receive[k].sender \in DOMAIN forecast}
           i == Least(K)
<1>1. IInv' /\ pc' = "run" /\ TypeOK'
  BY QuietKeepsIInv DEF SelectSender, ParserInv
<1>2. /\ ParserTypeOK /\ receive \in Seq(Entry) /\ DOMAIN receive = 1..Len(receive)
      /\ Len(receive) \in Nat /\ result = Nothing
  BY BufferType DEF SelectSender, ParserInv, CallInv
<1>3. i \in K
  <2>1. K # {}
    <3>1. PICK k \in 1..looked : receive[k].sender \in DOMAIN forecast
      BY DEF SelectSender, Expected, ReceivedParties
    <3>2. looked \in 0..Len(receive)
      BY <1>2 DEF ParserTypeOK
    <3>3. k \in DOMAIN receive
      BY <1>2, <3>2
    <3> QED
      BY <3>1, <3>3
  <2>2. FinitePositions(K)
    <3>1. K \in SUBSET (DOMAIN receive)
      OBVIOUS
    <3> HIDE DEF K
    <3> QED
      BY <1>2, <3>1, SelectionType
  <2> HIDE DEF K
  <2> QED
    BY <2>1, <2>2, LeastOf
<1>4. /\ msg_sender' = receive[i].sender /\ available_non_terminals' = forecast[receive[i].sender]
      /\ step' = "finding" /\ text' = <<>> /\ complete_parses' = <<>>
      /\ current_fragment_idx' = 0 /\ next_fragment_idx' = 0 /\ waited' = FALSE
      /\ UNCHANGED <<receive, forecast, looked, result>>
  BY DEF SelectSender
<1> DEFINE s == receive[i].sender
<1>5. s \in DOMAIN forecast /\ msg_sender' = s
  BY <1>3, <1>4
<1> HIDE DEF i, s, K
<1>6. s \in Party /\ forecast[s] \subseteq NT
  BY <1>2, <1>5, ForecastTypes
<1>7. available_non_terminals' = forecast[s]
  BY <1>4 DEF s
<1>8. <<>> \in Seq(Fragment) /\ DOMAIN <<>> = {}
  OBVIOUS
<1>9. ParserTypeOK'
  <2>1. /\ current_fragment_idx' \in 0..Len(receive') /\ next_fragment_idx' \in 0..Len(receive')
        /\ looked' \in 0..Len(receive') /\ forecast' \in Forecasts
    BY <1>2, <1>4 DEF ParserTypeOK
  <2>2. /\ msg_sender' \in Party \cup {NoSender} /\ available_non_terminals' \subseteq NT
        /\ step' = "finding" /\ waited' \in BOOLEAN
    BY <1>4, <1>5, <1>6, <1>7
  <2>3. /\ text' \in Seq(Fragment) /\ DOMAIN complete_parses' = {}
    BY <1>4, <1>8
  <2> QED
    BY <1>1, <2>1, <2>2, <2>3 DEF ParserTypeOK
<1>10. CallInv'
  BY <1>1, <1>2, <1>4 DEF CallInv, ParserInv, Nothing, Raised
<1>11. ReadsInOrder'
  <2>1. Rank(PositionsOf(receive', s), 0) = 0 /\ Pending(receive', s) \in Seq(Fragment)
        /\ Len(<<>>) = 0
    BY <1>2, <1>4, RankOfPositions
  <2>2. SubSeq(Pending(receive', s), 1, 0) = <<>>
    <3>1. 0 \in 0..Len(Pending(receive', s))
      BY <2>1
    <3>2. /\ SubSeq(Pending(receive', s), 1, 0) \in Seq(Fragment)
          /\ Len(SubSeq(Pending(receive', s), 1, 0)) = 0
      BY <2>1, <3>1, PrefixAt
    <3> QED
      BY <3>2, EmptySeq
  <2> QED
    BY <1>4, <1>5, <2>1, <2>2 DEF ReadsInOrder, Own, ReadTo
<1>12. FoundIsNext' /\ ParsesAreRead' /\ NoneMissed'
  <2>1. 1..Len(text') = {}
    BY <1>4
  <2> QED
    BY <1>4, <1>8, <2>1 DEF FoundIsNext, ParsesAreRead, NoneMissed
<1>13. OthersCannotContinue'
  BY <1>4, <1>5, <1>7 DEF OthersCannotContinue
<1> QED
  BY <1>1, <1>9, <1>10, <1>11, <1>12, <1>13 DEF ParserInv, ParsingInv

\* Looking for the next fragment, the first time and while waiting for it.
LEMMA FindKeepsParserInv ==
  ASSUME ParserInv, FindFragment \/ FindAgain
  PROVE  ParserInv'
<1>1. IInv' /\ pc' = "run" /\ TypeOK'
  BY QuietKeepsIInv DEF FindFragment, FindAgain, Find, ParserInv
<1>2. /\ step \in {"finding", "waiting"}
      /\ next_fragment_idx' = FindNextFragment(msg_sender, current_fragment_idx + 1)
      /\ step' \in {"waiting", "found", "checking"}
      /\ step' = "found" => next_fragment_idx' # 0
      /\ SameParse /\ UNCHANGED <<looked, waited, result>>
  BY DEF FindFragment, FindAgain, Find, SameParse
<1>3. /\ ParserTypeOK /\ receive \in Seq(Entry) /\ current_fragment_idx \in Nat
      /\ result = Nothing /\ ~ waited
  BY <1>2, BufferType DEF ParserInv, CallInv
<1>4. ReadsInOrder /\ ParsesAreRead /\ NoneMissed /\ OthersCannotContinue
  BY <1>2 DEF ParserInv, ParsingInv, Parsing
<1>5. (ReadsInOrder /\ ParsesAreRead /\ NoneMissed /\ OthersCannotContinue)'
  BY <1>2, <1>4, SameParseStays
<1>6. ASSUME next_fragment_idx' # 0
      PROVE  /\ next_fragment_idx' \in PositionsOf(receive, msg_sender)
             /\ ReadTo(next_fragment_idx') = Len(text) + 1
  <2>1. Len(text) = ReadTo(current_fragment_idx)
    BY <1>4 DEF ReadsInOrder
  <2> QED
    BY <1>2, <1>3, <1>6, <2>1, FindsNext DEF ReadTo
<1>7. next_fragment_idx' \in 0..Len(receive)
  <2>1. Len(receive) \in Nat
    BY <1>3
  <2> QED
    BY <1>3, <1>6, <2>1, OwnFacts
<1>8. ParserTypeOK'
  BY <1>1, <1>2, <1>3, <1>7 DEF ParserTypeOK, SameParse
<1>9. CallInv'
  BY <1>1, <1>2, <1>3 DEF CallInv, ParserInv, Nothing, Raised
<1>10. FoundIsNext'
  BY <1>2, <1>6 DEF FoundIsNext, SameParse, ReadTo
<1> QED
  BY <1>1, <1>5, <1>8, <1>9, <1>10 DEF ParserInv, ParsingInv

LEMMA InTimeKeepsParserInv ==
  ASSUME ParserInv, InTime
  PROVE  ParserInv'
<1>1. IInv' /\ pc' = "run" /\ TypeOK'
  BY QuietKeepsIInv DEF InTime, ParserInv
<1>2. /\ step = "checking" /\ step' = IF next_fragment_idx = 0 THEN "waiting" ELSE "found"
      /\ SameParse /\ UNCHANGED <<looked, waited, result, next_fragment_idx>>
  BY DEF InTime, SameParse
<1>3. /\ ReadsInOrder /\ ParsesAreRead /\ NoneMissed /\ OthersCannotContinue
      /\ FoundIsNext /\ result = Nothing /\ ~ waited
  BY <1>2 DEF ParserInv, ParsingInv, Parsing, CallInv
<1>4. (ReadsInOrder /\ ParsesAreRead /\ NoneMissed /\ OthersCannotContinue)'
  BY <1>2, <1>3, SameParseStays
<1>5. FoundIsNext'
  BY <1>2, <1>3 DEF FoundIsNext, SameParse, ReadTo
<1>6. ParserTypeOK'
  BY <1>1, <1>2 DEF ParserInv, ParserTypeOK, SameParse
<1>7. CallInv'
  BY <1>1, <1>2, <1>3 DEF CallInv, ParserInv, Nothing, Raised
<1> QED
  BY <1>1, <1>4, <1>5, <1>6, <1>7 DEF ParserInv, ParsingInv

LEMMA WaitTimesOutKeepsParserInv ==
  ASSUME ParserInv, WaitTimesOut
  PROVE  ParserInv'
<1>1. IInv' /\ pc' = "run" /\ TypeOK'
  BY QuietKeepsIInv DEF WaitTimesOut, ParserInv
<1>2. /\ step = "checking" /\ waited' = TRUE
      /\ IF complete_parses = <<>>
         THEN step' = "raised" /\ result' = Raised("Timeout")
         ELSE step' = "choosing" /\ result' = result
      /\ SameParse /\ UNCHANGED <<looked, next_fragment_idx>>
  BY DEF WaitTimesOut, SameParse
<1>3. /\ ReadsInOrder /\ ParsesAreRead /\ NoneMissed /\ OthersCannotContinue
      /\ result = Nothing
  BY <1>2 DEF ParserInv, ParsingInv, Parsing, CallInv
<1>4. (ReadsInOrder /\ ParsesAreRead /\ NoneMissed /\ OthersCannotContinue)'
  BY <1>2, <1>3, SameParseStays
<1>5. FoundIsNext'
  BY <1>2 DEF FoundIsNext
<1>6. ParserTypeOK'
  BY <1>1, <1>2 DEF ParserInv, ParserTypeOK, SameParse
<1>7. CallInv'
  <2>1. CASE complete_parses = <<>>
    <3>1. step' = "raised" /\ result' = Raised("Timeout")
      BY <1>2, <2>1
    <3> QED
      BY <1>1, <3>1 DEF CallInv, Raised
  <2>2. CASE complete_parses # <<>>
    <3>1. step' = "choosing" /\ result' = Nothing /\ complete_parses' # <<>>
      BY <1>2, <1>3, <2>2 DEF SameParse
    <3>2. waited'
      BY <1>2, Zenon
    <3> QED
      BY <1>1, <3>1, <3>2 DEF CallInv, Nothing, Raised
  <2> QED
    BY <2>1, <2>2
<1> QED
  BY <1>1, <1>4, <1>5, <1>6, <1>7 DEF ParserInv, ParsingInv

LEMMA NothingParsedKeepsParserInv ==
  ASSUME ParserInv, NothingParsed
  PROVE  ParserInv'
<1>1. IInv' /\ pc' = "run" /\ TypeOK'
  BY QuietKeepsIInv DEF NothingParsed, ParserInv
<1>2. /\ step = "choosing" /\ complete_parses = <<>>
      /\ step' = "raised" /\ result' = Raised("Could not parse")
      /\ SameParse /\ UNCHANGED <<looked, next_fragment_idx, waited>>
  BY DEF NothingParsed, SameParse
<1>3. /\ ReadsInOrder /\ ParsesAreRead /\ NoneMissed /\ OthersCannotContinue
      /\ available_non_terminals = {}
  BY <1>2 DEF ParserInv, ParsingInv, Parsing, CallInv
<1>4. (ReadsInOrder /\ ParsesAreRead /\ NoneMissed /\ OthersCannotContinue)'
  BY <1>2, <1>3, SameParseStays
<1>5. FoundIsNext'
  BY <1>2 DEF FoundIsNext
<1>6. ParserTypeOK'
  BY <1>1, <1>2 DEF ParserInv, ParserTypeOK, SameParse
<1>7. CallInv'
  BY <1>1, <1>2, <1>3 DEF CallInv, ParserInv, Nothing, Raised, SameParse
<1> QED
  BY <1>1, <1>4, <1>5, <1>6, <1>7 DEF ParserInv, ParsingInv

\* The fragment that was found is the next of the sender: the parsers have read one more.
LEMMA ConsumeReadsNext ==
  ASSUME ParserInv, ConsumeFragment
  PROVE  LET l == Len(text)
             w == Append(text, receive[next_fragment_idx].frag)
         IN  /\ l \in Nat /\ l + 1 <= Len(Own) /\ w \in Seq(Fragment) /\ Len(w) = l + 1
             /\ w = SubSeq(Own, 1, l + 1)
             /\ next_fragment_idx \in PositionsOf(receive, msg_sender)
             /\ next_fragment_idx \in 1..Len(receive)
             /\ ReadTo(next_fragment_idx) = l + 1
             /\ receive[next_fragment_idx].frag \in Fragment
<1> DEFINE l == Len(text)
           x == receive[next_fragment_idx].frag
           w == Append(text, x)
<1>1. /\ receive \in Seq(Entry) /\ text \in Seq(Fragment) /\ DOMAIN receive = 1..Len(receive)
  BY BufferType DEF ParserInv, ParserTypeOK
<1>2. /\ next_fragment_idx \in PositionsOf(receive, msg_sender)
      /\ ReadTo(next_fragment_idx) = l + 1
      /\ text = SubSeq(Own, 1, l)
  BY DEF ConsumeFragment, ParserInv, ParsingInv, Parsing, FoundIsNext, ReadsInOrder
<1>3. /\ Own \in Seq(Fragment) /\ Len(Own) \in Nat
      /\ next_fragment_idx \in 1..Len(receive)
      /\ l + 1 \in 1..Len(Own) /\ Own[l + 1] = x
  BY <1>1, <1>2, OwnFacts
<1>4. l \in Nat
  BY <1>1
<1>5. x \in Fragment
  BY <1>3, ElementOfSeq
<1> HIDE DEF x
<1>6. w \in Seq(Fragment) /\ Len(w) = l + 1
  BY <1>1, <1>5
<1>7. w = SubSeq(Own, 1, l + 1)
  <2>1. SubSeq(Own, 1, l + 1) = Append(SubSeq(Own, 1, l), Own[l + 1])
    <3>1. l + 1 <= Len(Own)
      BY <1>3, <1>4
    <3> HIDE DEF l
    <3> QED
      BY <1>3, <1>4, <3>1, PrefixNext
  <2> QED
    BY <1>2, <1>3, <2>1
<1> QED
  BY <1>2, <1>3, <1>4, <1>5, <1>6, <1>7 DEF x

LEMMA ConsumeKeepsParserInv ==
  ASSUME ParserInv, ConsumeFragment
  PROVE  ParserInv'
<1> DEFINE l == Len(text)
           x == receive[next_fragment_idx].frag
           w == Append(text, x)
           nts == {nt \in available_non_terminals : Matches(nt, w)}
           left == {nt \in available_non_terminals : CanContinue(nt, w)}
           s == msg_sender
<1>1. IInv' /\ pc' = "run" /\ TypeOK'
  BY QuietKeepsIInv DEF ConsumeFragment, ParserInv
<1>2. /\ l \in Nat /\ l + 1 <= Len(Own) /\ w \in Seq(Fragment) /\ Len(w) = l + 1
      /\ w = SubSeq(Own, 1, l + 1)
      /\ next_fragment_idx \in PositionsOf(receive, s)
      /\ next_fragment_idx \in 1..Len(receive)
      /\ ReadTo(next_fragment_idx) = l + 1
      /\ x \in Fragment
  BY ConsumeReadsNext
<1>3. /\ step = "found" /\ text' = w
      /\ complete_parses' = Completed(complete_parses, nts, next_fragment_idx, w)
      /\ available_non_terminals' = left
      /\ step' = IF left = {} THEN "choosing" ELSE "finding"
      /\ current_fragment_idx' = next_fragment_idx
      /\ UNCHANGED <<receive, forecast, looked, msg_sender, next_fragment_idx, waited, result>>
  BY DEF ConsumeFragment
<1>4. /\ ParserTypeOK /\ receive \in Seq(Entry) /\ text \in Seq(Fragment)
      /\ Len(receive) \in Nat /\ result = Nothing /\ ~ waited
      /\ ReadsInOrder /\ ParsesAreRead /\ NoneMissed /\ OthersCannotContinue
  BY <1>3, BufferType DEF ParserInv, ParserTypeOK, CallInv, ParsingInv, Parsing
<1>5. /\ s \in DOMAIN forecast /\ forecast[s] \subseteq NT
      /\ available_non_terminals \subseteq forecast[s]
  BY <1>4, ForecastTypes DEF ReadsInOrder, OthersCannotContinue
<1>6. /\ nts \subseteq available_non_terminals /\ \A nt \in nts : w \in Derivable[nt]
      /\ \A nt \in available_non_terminals : w \in Derivable[nt] => nt \in nts
  BY DEF Matches
<1>7. left \subseteq available_non_terminals
      /\ \A nt \in available_non_terminals \ left : ~ CanContinue(nt, w)
  OBVIOUS
<1>8. /\ DOMAIN complete_parses' = DOMAIN complete_parses \cup nts
      /\ \A nt \in nts : /\ complete_parses'[nt].last = next_fragment_idx
                         /\ complete_parses'[nt].tree = w
      /\ \A nt \in DOMAIN complete_parses \ nts : complete_parses'[nt] = complete_parses[nt]
      /\ \A nt \in nts : complete_parses'[nt] =
            [first |-> IF nt \in DOMAIN complete_parses THEN complete_parses[nt].first
                                                        ELSE next_fragment_idx,
             last |-> next_fragment_idx, tree |-> w]
  <2> HIDE DEF nts, w
  <2> QED
    BY <1>3 DEF Completed
<1>9. \A i : ReadTo(i)' = ReadTo(i)
  BY <1>3 DEF ReadTo
<1>10. Own' = Own /\ PositionsOf(receive', msg_sender') = PositionsOf(receive, s)
  BY <1>3 DEF Own
<1> HIDE DEF nts, left, x
<1>11. ParserTypeOK'
  <2>1. ASSUME NEW nt \in DOMAIN complete_parses'
        PROVE  /\ nt \in NT
               /\ complete_parses'[nt] \in
                     [first : 1..Len(receive), last : 1..Len(receive), tree : Derivable[nt]]
    <3>1. CASE nt \in nts
      <4>1. nt \in DOMAIN complete_parses => complete_parses[nt].first \in 1..Len(receive)
        BY <1>4 DEF ParserTypeOK
      <4>2. nt \in NT /\ w \in Derivable[nt]
        BY <1>5, <1>6, <3>1
      <4>3. PICK f \in 1..Len(receive) : complete_parses'[nt] =
               [first |-> f, last |-> next_fragment_idx, tree |-> w]
        BY <1>2, <1>8, <3>1, <4>1
      <4> HIDE DEF w
      <4> QED
        BY <1>2, <4>2, <4>3
    <3>2. CASE nt \notin nts
      BY <1>4, <1>8, <2>1, <3>2 DEF ParserTypeOK
    <3> QED
      BY <3>1, <3>2
  <2>2. /\ current_fragment_idx' \in 0..Len(receive) /\ next_fragment_idx' \in 0..Len(receive)
        /\ looked' \in 0..Len(receive) /\ text' \in Seq(Fragment)
        /\ available_non_terminals' \subseteq NT
        /\ step' \in {"choosing", "finding"}
    BY <1>2, <1>3, <1>4, <1>5, <1>7 DEF ParserTypeOK
  <2>3. /\ forecast' \in Forecasts /\ msg_sender' \in Party \cup {NoSender} /\ waited' \in BOOLEAN
    BY <1>3, <1>4 DEF ParserTypeOK
  <2>4. /\ DOMAIN complete_parses' \subseteq NT
        /\ \A nt \in DOMAIN complete_parses' : complete_parses'[nt] \in
              [first : 1..Len(receive'), last : 1..Len(receive'), tree : Derivable[nt]]
    BY <1>3, <2>1
  <2> QED
    BY <1>1, <1>3, <2>2, <2>3, <2>4 DEF ParserTypeOK
<1>12. CallInv'
  <2>1. result' = Nothing
    BY <1>3, <1>4
  <2>2. ~ waited'
    BY <1>3, <1>4
  <2>3. step' = "choosing" => available_non_terminals' = {}
    BY <1>3
  <2>4. step' \in {"choosing", "finding"}
    BY <1>3
  <2> QED
    BY <1>1, <2>1, <2>2, <2>3, <2>4 DEF CallInv, Nothing, Raised
<1>13. ReadsInOrder'
  BY <1>2, <1>3, <1>5, <1>9, <1>10 DEF ReadsInOrder
<1>14. FoundIsNext'
  BY <1>3 DEF FoundIsNext
<1>15. ParsesAreRead'
  <2>1. ASSUME NEW nt \in DOMAIN complete_parses'
        PROVE  /\ nt \in forecast[s]
               /\ complete_parses'[nt].last \in PositionsOf(receive, s)
               /\ complete_parses'[nt].tree =
                     SubSeq(Own, 1, ReadTo(complete_parses'[nt].last))
    <3>1. CASE nt \in nts
      BY <1>2, <1>5, <1>6, <1>8, <3>1
    <3>2. CASE nt \notin nts
      BY <1>4, <1>8, <2>1, <3>2 DEF ParsesAreRead
    <3> QED
      BY <3>1, <3>2
  <2> QED
    BY <1>3, <1>9, <1>10, <2>1 DEF ParsesAreRead
<1>16. NoneMissed'
  <2>1. ASSUME NEW nt \in forecast[s], NEW n \in 1..(l + 1), SubSeq(w, 1, n) \in Derivable[nt]
        PROVE  nt \in DOMAIN complete_parses' /\ n <= ReadTo(complete_parses'[nt].last)
    <3>1. CASE n = l + 1
      <4>1. SubSeq(w, 1, n) = w
        <5>1. l + 1 \in 0..Len(Own) /\ n \in 0..(l + 1) /\ Own \in Seq(Fragment)
          BY <1>2, <1>4, <3>1, OwnFacts
        <5> QED
          BY <1>2, <3>1, <5>1, PrefixOfPrefix
      <4>2. CanContinue(nt, text)
        <5>1. l \in 0..(l + 1) /\ l + 1 \in 0..Len(Own) /\ l # l + 1 /\ Own \in Seq(Fragment)
          BY <1>2, <1>4, OwnFacts
        <5>2. SubSeq(Own, 1, l + 1) \in Derivable[nt]
          BY <1>2, <2>1, <4>1
        <5>3. nt \in NT
          BY <1>5
        <5>4. CanContinue(nt, SubSeq(Own, 1, l))
          BY <5>1, <5>2, <5>3, PrefixCanContinue
        <5> QED
          BY <1>4, <5>4 DEF ReadsInOrder
      <4>3. nt \in available_non_terminals
        BY <1>4, <4>2 DEF OthersCannotContinue
      <4>4. nt \in nts
        BY <1>6, <2>1, <4>1, <4>3
      <4> QED
        BY <1>2, <1>8, <3>1, <4>4
    <3>2. CASE n # l + 1
      <4>1. n \in 1..l /\ n \in 0..l
        BY <1>2, <3>2
      <4>2. SubSeq(w, 1, n) = SubSeq(text, 1, n)
        BY <1>2, <1>4, <4>1, PrefixOfAppend
      <4>3. nt \in DOMAIN complete_parses /\ n <= ReadTo(complete_parses[nt].last)
        BY <1>4, <2>1, <4>1, <4>2 DEF NoneMissed
      <4> QED
        BY <1>2, <1>8, <4>1, <4>3
    <3> QED
      BY <3>1, <3>2
  <2> HIDE DEF l, w
  <2> QED
    BY <1>2, <1>3, <1>9, <2>1 DEF NoneMissed
<1>17. OthersCannotContinue'
  <2>1. ASSUME NEW nt \in forecast[s] \ left
        PROVE  ~ CanContinue(nt, w)
    <3>1. CASE nt \in available_non_terminals
      BY <1>7, <2>1, <3>1
    <3>2. CASE nt \notin available_non_terminals
      <4>1. ~ CanContinue(nt, text)
        BY <1>4, <2>1, <3>2 DEF OthersCannotContinue
      <4>2. nt \in NT
        BY <1>5
      <4> QED
        BY <1>2, <1>4, <4>1, <4>2, LongerCannotContinue
    <3> QED
      BY <3>1, <3>2
  <2> HIDE DEF w
  <2> QED
    BY <1>3, <1>5, <1>7, <2>1 DEF OthersCannotContinue
<1> QED
  BY <1>1, <1>11, <1>12, <1>13, <1>14, <1>15, <1>16, <1>17 DEF ParserInv, ParsingInv

\* What is handed over is read: clear_by_party is called with a position of the sender.
LEMMA ReturnClears ==
  ASSUME ParserInv, NEW nt \in NT, ReturnPacket(nt)
  PROVE  /\ nt \in DOMAIN complete_parses /\ msg_sender \in Party
         /\ complete_parses[nt].last \in PositionsOf(receive, msg_sender)
         /\ complete_parses[nt].last \in 1..Len(receive)
         /\ ClearByParty(msg_sender, complete_parses[nt].last)
<1>1. step = "choosing" /\ nt \in DOMAIN complete_parses
      /\ ClearByParty(msg_sender, complete_parses[nt].last)
  BY DEF ReturnPacket, Best
<1>2. ParserTypeOK /\ ReadsInOrder /\ ParsesAreRead
  BY <1>1 DEF ParserInv, ParsingInv, Parsing
<1>3. msg_sender \in Party
  BY <1>2, ForecastTypes DEF ReadsInOrder
<1>4. complete_parses[nt].last \in PositionsOf(receive, msg_sender)
  BY <1>1, <1>2 DEF ParsesAreRead
<1> QED
  BY <1>1, <1>2, <1>3, <1>4, BufferType, OwnFacts

LEMMA ReturnPacketKeepsParserInv ==
  ASSUME ParserInv, NEW nt \in NT, ReturnPacket(nt)
  PROVE  ParserInv'
<1>1. IInv'
  <2>1. ConsumeStep
    BY ReturnClears DEF ConsumeStep
  <2> QED
    BY <2>1, NextKeepsIInv DEF Next, ParserInv
<1>2. /\ step' = "idle" /\ looked' = 0 /\ msg_sender' = NoSender
      /\ available_non_terminals' = {} /\ text' = <<>> /\ complete_parses' = <<>>
      /\ current_fragment_idx' = 0 /\ next_fragment_idx' = 0 /\ waited' = FALSE
      /\ forecast' = forecast /\ result'.kind = "packet" /\ pc' = "run"
  BY DEF ReturnPacket, ClearByParty, Consume
<1>3. receive' \in Seq(Entry) /\ TypeOK'
  BY <1>1 DEF IInv, TypeOK
<1>4. Len(receive') \in Nat
  BY <1>3
<1>5. ParserTypeOK'
  <2>1. <<>> \in Seq(Fragment) /\ DOMAIN <<>> = {}
    OBVIOUS
  <2>2. forecast' \in Forecasts
    BY <1>2 DEF ParserInv, ParserTypeOK
  <2>3. /\ current_fragment_idx' \in 0..Len(receive') /\ next_fragment_idx' \in 0..Len(receive')
        /\ looked' \in 0..Len(receive')
    BY <1>2, <1>4
  <2>4. /\ msg_sender' \in Party \cup {NoSender} /\ available_non_terminals' \subseteq NT
        /\ waited' \in BOOLEAN
    BY <1>2
  <2>5. text' \in Seq(Fragment) /\ DOMAIN complete_parses' = {}
    BY <1>2, <2>1
  <2> QED
    BY <1>2, <1>3, <2>2, <2>3, <2>4, <2>5 DEF ParserTypeOK
<1>6. CallInv' /\ ~ Parsing'
  <2>1. \A e : result' # Raised(e)
    <3>1. ASSUME NEW e
          PROVE  Raised(e).kind # "packet"
      BY DEF Raised
    <3> QED
      BY <1>2, <3>1
  <2> QED
    BY <1>2, <2>1 DEF CallInv, Parsing
<1> QED
  BY <1>1, <1>5, <1>6 DEF ParserInv, ParsingInv
-------------------------------------------------------------------------------
(* The listeners.                                                          *)

\* What is added to the buffer shifts nothing that was read.
LEMMA GrowsAtTheEnd ==
  ASSUME receive \in Seq(Entry), NEW chunk \in Seq(Entry), receive' = receive \o chunk,
         NEW s
  PROVE  LET P == PositionsOf(receive, s)
             Q == PositionsOf(receive', s)
         IN  /\ Len(receive) <= Len(receive')
             /\ P \subseteq Q
             /\ \A i \in 0..Len(receive) : Rank(Q, i) = Rank(P, i)
<1> DEFINE P == PositionsOf(receive, s)
           Q == PositionsOf(receive', s)
           l == Len(receive)
<1>1. /\ Len(receive') = l + Len(chunk) /\ l \in Nat /\ Len(chunk) \in Nat
      /\ DOMAIN receive = 1..l /\ DOMAIN receive' = 1..(l + Len(chunk))
      /\ \A i \in 1..l : receive'[i] = receive[i]
  OBVIOUS
<1>2. \A k \in 1..l : k \in P <=> k \in Q
  BY <1>1 DEF PositionsOf
<1>3. P \in SUBSET (1..l) /\ Q \in SUBSET (1..(l + Len(chunk)))
  BY <1>1 DEF PositionsOf
<1> HIDE DEF P, Q
<1>4. ASSUME NEW i \in 0..l
      PROVE  {k \in Q : k <= i} = {k \in P : k <= i}
  <2>1. \A k \in Q : k <= i => k \in 1..l
    BY <1>1, <1>3
  <2>2. \A k \in P : k \in 1..l
    BY <1>3
  <2> QED
    BY <1>2, <2>1, <2>2
<1>5. P \subseteq Q
  BY <1>2, <1>3
<1>6. \A i \in 0..l : Rank(Q, i) = Rank(P, i)
  BY <1>4 DEF Rank
<1>7. l <= l + Len(chunk)
  BY <1>1
<1> QED
  BY <1>1, <1>5, <1>6, <1>7 DEF P, Q

LEMMA AddReceiveKeepsParserInv ==
  ASSUME ParserInv, NEW t \in Thread, AddReceive(t), UNCHANGED parserVars
  PROVE  ParserInv'
<1>1. IInv /\ ParserTypeOK /\ receive \in Seq(Entry) /\ Len(receive) \in Nat
  BY BufferType DEF ParserInv
<1>2. PICK r \in Party, message \in Message, chunk \in Seq(Entry) :
        /\ receive' = receive \o chunk
        /\ \A s \in Party : Pending(receive', s) =
              IF s = r THEN Pending(receive, s) \o message ELSE Pending(receive, s)
  BY <1>1, AddReceiveExtends
<1>3. /\ pc' = pc
      /\ UNCHANGED <<step, forecast, looked, msg_sender, available_non_terminals, text,
                     complete_parses, current_fragment_idx, next_fragment_idx, waited, result>>
  BY DEF AddReceive, parserVars
<1>4. IInv' /\ TypeOK'
  <2>1. ListenerStep
    BY DEF ListenerStep
  <2> QED
    BY <1>1, <2>1, NextKeepsIInv DEF Next, IInv
<1>5. Len(receive') \in Nat /\ Len(receive) <= Len(receive')
  <2>1. receive' \in Seq(Entry)
    BY <1>4 DEF TypeOK
  <2> QED
    BY <1>1, <1>2, <2>1, GrowsAtTheEnd
<1>6. \A i \in 0..Len(receive) : i \in 0..Len(receive')
  BY <1>1, <1>5
<1>7. \A i \in 1..Len(receive) : i \in 1..Len(receive')
  BY <1>1, <1>5
<1>8. ParserTypeOK'
  <2>1. /\ current_fragment_idx' \in 0..Len(receive') /\ next_fragment_idx' \in 0..Len(receive')
        /\ looked' \in 0..Len(receive')
    BY <1>1, <1>3, <1>6 DEF ParserTypeOK
  <2>2. ASSUME NEW nt \in DOMAIN complete_parses
        PROVE  complete_parses[nt] \in
                 [first : 1..Len(receive'), last : 1..Len(receive'), tree : Derivable[nt]]
    <3>1. complete_parses[nt] \in
                 [first : 1..Len(receive), last : 1..Len(receive), tree : Derivable[nt]]
      BY <1>1 DEF ParserTypeOK
    <3> QED
      BY <1>7, <3>1
  <2>3. \A nt \in DOMAIN complete_parses' : complete_parses'[nt] \in
                 [first : 1..Len(receive'), last : 1..Len(receive'), tree : Derivable[nt]]
    BY <1>3, <2>2
  <2> QED
    BY <1>1, <1>3, <1>4, <2>1, <2>3 DEF ParserTypeOK
<1>9. receive # <<>> => receive' # <<>>
  <2>1. receive # <<>> => Len(receive) # 0
    BY <1>1
  <2>2. receive' = <<>> => Len(receive') = 0
    OBVIOUS
  <2> QED
    BY <1>1, <1>5, <2>1, <2>2
<1>10. CallInv'
  BY <1>3, <1>9 DEF ParserInv, CallInv
<1>11. ASSUME Parsing
       PROVE  (ReadsInOrder /\ FoundIsNext /\ ParsesAreRead /\ NoneMissed
                 /\ OthersCannotContinue)'
  <2>1. /\ ReadsInOrder /\ FoundIsNext /\ ParsesAreRead /\ NoneMissed /\ OthersCannotContinue
    BY <1>11 DEF ParserInv, ParsingInv
  <2> DEFINE s == msg_sender
             P == PositionsOf(receive, s)
  <2>2. s \in Party /\ s \in DOMAIN forecast
    BY <1>1, <2>1, ForecastTypes DEF ReadsInOrder
  <2>3. /\ P \subseteq PositionsOf(receive', s)
        /\ \A i \in 0..Len(receive) : ReadTo(i)' = ReadTo(i)
    BY <1>1, <1>2, <1>3, GrowsAtTheEnd DEF ReadTo
  <2>4. /\ Own \in Seq(Fragment) /\ Len(Own) \in Nat
        /\ \A i \in Nat : ReadTo(i) \in 0..Len(Own)
        /\ \A i \in P : i \in 1..Len(receive) /\ i \in Nat
    BY <1>1, OwnFacts
  <2>5. \A n \in 0..Len(Own) : SubSeq(Own', 1, n) = SubSeq(Own, 1, n)
    <3>1. Own' = IF s = r THEN Own \o message ELSE Own
      BY <1>2, <1>3, <2>2 DEF Own
    <3>2. message \in Seq(Fragment)
      BY MessageAssumption
    <3> HIDE DEF s
    <3> QED
      BY <2>4, <3>1, <3>2, PrefixOfConcat
  <2> HIDE DEF P
  <2>6. current_fragment_idx \in 0..Len(receive) /\ current_fragment_idx \in Nat
        /\ next_fragment_idx \in 0..Len(receive)
    BY <1>1, BufferType DEF ParserTypeOK
  <2>7. Len(text) \in 0..Len(Own)
    BY <2>1, <2>4, <2>6 DEF ReadsInOrder
  <2>8. ReadsInOrder'
    BY <1>3, <2>1, <2>3, <2>5, <2>6, <2>7 DEF ReadsInOrder
  <2>9. FoundIsNext'
    BY <1>3, <2>1, <2>3, <2>6 DEF FoundIsNext, P
  <2>10. ASSUME NEW nt \in DOMAIN complete_parses
         PROVE  /\ complete_parses[nt].last \in P
                /\ ReadTo(complete_parses[nt].last)' = ReadTo(complete_parses[nt].last)
                /\ ReadTo(complete_parses[nt].last) \in 0..Len(Own)
    <3>1. complete_parses[nt].last \in P
      BY <2>1 DEF ParsesAreRead, P
    <3> DEFINE j == complete_parses[nt].last
    <3>2. j \in P /\ j' = j
      BY <1>3, <3>1
    <3> HIDE DEF j
    <3>3. j \in Nat /\ j \in 1..Len(receive) /\ j \in 0..Len(receive)
      BY <1>1, <2>4, <3>2
    <3>4. ReadTo(j)' = ReadTo(j)
      BY <2>3, <3>2, <3>3
    <3>5. ReadTo(j) \in 0..Len(Own)
      BY <2>4, <3>3
    <3> QED
      BY <3>2, <3>4, <3>5 DEF j
  <2>11. ParsesAreRead'
    <3>1. ASSUME NEW nt \in DOMAIN complete_parses
          PROVE  /\ nt \in forecast[s]
                 /\ complete_parses[nt].last \in PositionsOf(receive', s)
                 /\ complete_parses[nt].tree =
                        SubSeq(Own', 1, ReadTo(complete_parses[nt].last)')
      BY <2>1, <2>3, <2>5, <2>10 DEF ParsesAreRead
    <3> QED
      BY <1>3, <3>1 DEF ParsesAreRead
  <2>12. NoneMissed'
    BY <1>3, <2>1, <2>10 DEF NoneMissed
  <2>13. OthersCannotContinue'
    BY <1>3, <2>1 DEF OthersCannotContinue
  <2> QED
    BY <2>8, <2>9, <2>11, <2>12, <2>13
<1>12. Parsing' => Parsing
  BY <1>3 DEF Parsing
<1>13. ParsingInv'
  BY <1>11, <1>12 DEF ParsingInv
<1> QED
  BY <1>4, <1>8, <1>10, <1>13 DEF ParserInv

LEMMA ListenerKeepsParserInv ==
  ASSUME ParserInv, ListenerStep, UNCHANGED parserVars
  PROVE  ParserInv'
<1>1. CASE \E t \in Thread : AddReceive(t)
  BY <1>1, AddReceiveKeepsParserInv
<1>2. CASE ~ (\E t \in Thread : AddReceive(t))
  <2>1. receive' = receive /\ pc' = pc
    BY <1>2 DEF ListenerStep, Receive, ReceiveRaises
  <2>2. IInv' /\ TypeOK'
    BY NextKeepsIInv DEF Next, IInv, ParserInv
  <2>3. /\ UNCHANGED <<step, forecast, looked, msg_sender, available_non_terminals, text,
                       complete_parses, current_fragment_idx, next_fragment_idx, waited, result>>
    BY DEF parserVars
  <2>4. ParserTypeOK'
    BY <2>1, <2>2, <2>3 DEF ParserInv, ParserTypeOK
  <2>5. CallInv'
    BY <2>1, <2>3 DEF ParserInv, CallInv
  <2>6. Parsing' => Parsing
    BY <2>3 DEF Parsing
  <2>7. SameParse
    BY <2>1, <2>3 DEF SameParse
  <2>8. FoundIsNext => FoundIsNext'
    BY <2>1, <2>3 DEF FoundIsNext, ReadTo
  <2>9. ParsingInv'
    BY <2>6, <2>7, <2>8, SameParseStays DEF ParserInv, ParsingInv
  <2> QED
    BY <2>2, <2>4, <2>5, <2>9 DEF ParserInv
<1> QED
  BY <1>1, <1>2
-------------------------------------------------------------------------------
(* The invariant.                                                          *)

LEMMA InitIsParserInv ==
  ASSUME ParserInit
  PROVE  ParserInv
<1>1. \A t \in Thread : listener[t] = [at |-> IF t[2] = 1 THEN "idle" ELSE "none"]
  BY DEF ParserInit
<1>2. TypeOK
  <2>1. listener \in [Thread -> ListenerState]
    BY DEF ParserInit, ListenerState
  <2>2. session \in Session
    BY MessageAssumption DEF ParserInit, Session
  <2>3. receive \in Seq(Entry)
    BY EmptySeq DEF ParserInit
  <2> QED
    BY <2>1, <2>2, <2>3 DEF ParserInit, TypeOK
<1>3. SessionIsolation
  BY <1>1 DEF ParserInit, SessionIsolation
<1>4. LiveAreRegistered
  <2>1. \A t \in Thread : t[1] \in Party
    BY PartyAssumption DEF Thread
  <2> QED
    BY <2>1 DEF ParserInit, LiveAreRegistered
<1>5. IInv
  BY <1>2, <1>3, <1>4
     DEF ParserInit, IInv, LiveAreStillToStop, NoneLiveWhenClearing, AnotherSession
<1>6. <<>> \in Seq(Fragment) /\ DOMAIN <<>> = {} /\ Len(<<>>) = 0 /\ 0 \in 0..0
  OBVIOUS
<1>7. ParserTypeOK
  <2>1. /\ current_fragment_idx \in 0..Len(receive) /\ next_fragment_idx \in 0..Len(receive)
        /\ looked \in 0..Len(receive)
    BY <1>6 DEF ParserInit
  <2>2. text \in Seq(Fragment) /\ DOMAIN complete_parses = {}
    BY <1>6 DEF ParserInit
  <2> QED
    BY <1>2, <2>1, <2>2 DEF ParserInit, ParserTypeOK
<1>8. CallInv /\ ~ Parsing
  BY DEF ParserInit, CallInv, Parsing, Nothing, Raised
<1> QED
  BY <1>5, <1>7, <1>8 DEF ParserInv, ParsingInv

LEMMA NextKeepsParserInv ==
  ASSUME ParserInv, [ParserNext]_<<vars, parserVars>>
  PROVE  ParserInv'
<1>1. CASE \E f \in Forecasts : Call(f)
  BY <1>1, CallKeepsParserInv
<1>2. CASE ParserStep
  BY <1>2, EnterKeepsParserInv, LookAgainKeepsParserInv, SelectSenderKeepsParserInv,
     UnexpectedPartyKeepsParserInv, FindKeepsParserInv, InTimeKeepsParserInv,
     WaitTimesOutKeepsParserInv, ConsumeKeepsParserInv, NothingParsedKeepsParserInv,
     ReturnPacketKeepsParserInv DEF ParserStep
<1>3. CASE ListenerStep /\ UNCHANGED parserVars
  BY <1>3, ListenerKeepsParserInv
<1>4. CASE UNCHANGED <<vars, parserVars>>
  <2>1. IInv' /\ TypeOK'
    BY <1>4, NextKeepsIInv DEF ParserInv, IInv
  <2>2. SameParse /\ UNCHANGED <<pc, step, looked, next_fragment_idx, waited, result>>
    BY <1>4 DEF vars, parserVars, SameParse
  <2>3. ParserTypeOK'
    BY <2>1, <2>2 DEF ParserInv, ParserTypeOK, SameParse
  <2>4. CallInv' /\ (Parsing' => Parsing)
    BY <2>2 DEF ParserInv, CallInv, Parsing, SameParse
  <2>5. FoundIsNext => FoundIsNext'
    BY <2>2 DEF FoundIsNext, ReadTo, SameParse
  <2>6. ParsingInv'
    BY <2>2, <2>4, <2>5, SameParseStays DEF ParserInv, ParsingInv
  <2> QED
    BY <2>1, <2>3, <2>4, <2>6 DEF ParserInv
<1> QED
  BY <1>1, <1>2, <1>3, <1>4 DEF ParserNext

\* What the parsers have read stays what the sender has sent first, whatever the listeners
\* add, and no parser that could go on, nor a complete parse, is lost.
THEOREM ParserInvAlways == ParserSpec => []ParserInv
<1>1. ParserInit => ParserInv
  BY InitIsParserInv
<1>2. ParserInv /\ [ParserNext]_<<vars, parserVars>> => ParserInv'
  BY NextKeepsParserInv
<1> QED
  BY <1>1, <1>2, PTL DEF ParserSpec

\* The types of what the parsers keep; every position is one of the buffer as it is,
\* although the buffer is cleared and extended.
THEOREM ParserTypeCorrect == ParserSpec => []ParserTypeOK
BY ParserInvAlways, PTL DEF ParserInv
-------------------------------------------------------------------------------
(* What the parsers promise.                                               *)

\* Once every parser has ended, a packet of the forecast at the beginning of what the
\* sender has sent has been found; of what was read this holds at any time.
LEMMA FoundIfThere ==
  ASSUME ParserInv, Parsing, NEW nt \in forecast[msg_sender], NEW n \in 1..Len(Own),
         SubSeq(Own, 1, n) \in Derivable[nt],
         n <= Len(text) \/ available_non_terminals = {}
  PROVE  nt \in DOMAIN complete_parses /\ n <= ReadTo(complete_parses[nt].last)
<1>1. /\ ReadsInOrder /\ NoneMissed /\ OthersCannotContinue /\ ParserTypeOK
      /\ receive \in Seq(Entry)
  BY BufferType DEF ParserInv, ParsingInv
<1>2. /\ Own \in Seq(Fragment) /\ Len(Own) \in Nat /\ Len(text) \in 0..Len(Own)
      /\ text = SubSeq(Own, 1, Len(text))
  BY <1>1, OwnFacts, BufferType DEF ReadsInOrder
<1>3. CASE n <= Len(text)
  <2>1. n \in 1..Len(text) /\ n \in 0..Len(text)
    BY <1>2, <1>3
  <2>2. SubSeq(SubSeq(Own, 1, Len(text)), 1, n) = SubSeq(Own, 1, n)
    <3> DEFINE l == Len(text)
    <3>1. l \in 0..Len(Own) /\ n \in 0..l
      BY <1>2, <2>1
    <3> HIDE DEF l
    <3>2. SubSeq(SubSeq(Own, 1, l), 1, n) = SubSeq(Own, 1, n)
      BY <1>2, <3>1, PrefixOfPrefix
    <3> QED
      BY <3>2 DEF l
  <2>3. SubSeq(text, 1, n) \in Derivable[nt]
    BY <1>2, <2>2
  <2> QED
    BY <1>1, <2>1, <2>3 DEF NoneMissed
<1>4. CASE ~ (n <= Len(text))
  <2>1. Len(text) \in 0..n /\ Len(text) # n /\ n \in 0..Len(Own)
    <3> DEFINE l == Len(text)
               m == Len(Own)
    <3>1. l \in 0..m /\ m \in Nat /\ n \in 1..m /\ ~ (n <= l)
      BY <1>2, <1>4
    <3> HIDE DEF l, m
    <3>2. l \in 0..n /\ l # n /\ n \in 0..m
      BY <3>1
    <3> QED
      BY <3>2 DEF l, m
  <2>2. nt \in NT
    BY <1>1, ForecastTypes DEF ReadsInOrder
  <2>3. CanContinue(nt, SubSeq(Own, 1, Len(text)))
    <3> DEFINE l == Len(text)
    <3>1. l \in 0..n /\ l # n
      BY <2>1
    <3> HIDE DEF l
    <3>2. CanContinue(nt, SubSeq(Own, 1, l))
      BY <1>2, <2>1, <2>2, <3>1, PrefixCanContinue
    <3> QED
      BY <3>2 DEF l
  <2>4. ~ CanContinue(nt, text)
    BY <1>1, <1>4 DEF OthersCannotContinue
  <2> QED
    BY <1>2, <2>3, <2>4
<1> QED
  BY <1>3, <1>4

\* The call never returns empty-handed, and unless it has timed out it only fails if no
\* prefix of what the sender has sent, by then or since, is a packet of the forecast.
THEOREM FailuresJustified == ParserSpec => []FailureJustified
<1>1. ParserInv => FailureJustified
  <2> SUFFICES ASSUME ParserInv PROVE FailureJustified
    OBVIOUS
  <2>1. result # Raised("None returned")
    BY DEF ParserInv, CallInv
  <2>2. ASSUME result = Raised("Could not parse"), NEW nt \in forecast[msg_sender],
               NEW n \in 1..Len(Own), SubSeq(Own, 1, n) \in Derivable[nt]
        PROVE  FALSE
    <3>1. Parsing /\ complete_parses = <<>> /\ available_non_terminals = {}
      BY <2>2 DEF Parsing, ParserInv, CallInv
    <3>2. nt \in DOMAIN complete_parses
      BY <2>2, <3>1, FoundIfThere
    <3> QED
      BY <3>1, <3>2
  <2> QED
    BY <2>1, <2>2 DEF FailureJustified, Own
<1> QED
  BY <1>1, ParserInvAlways, PTL

\* Of two parses the one that read further is the longer packet: what is returned is at
\* least as long as any other.
LEMMA ReturnsLongest ==
  ASSUME ParserInv, NEW nt \in NT, ReturnPacket(nt), NEW o \in DOMAIN complete_parses
  PROVE  ReadTo(complete_parses[o].last) <= Len(result'.text)
<1> DEFINE i == complete_parses[nt].last
           k == complete_parses[o].last
<1>1. /\ step = "choosing" /\ nt \in DOMAIN complete_parses /\ k <= i
      /\ result'.text = complete_parses[nt].tree
  BY DEF ReturnPacket, Best
<1>2. ParserTypeOK /\ ParsesAreRead /\ receive \in Seq(Entry)
  BY <1>1, BufferType DEF ParserInv, ParsingInv, Parsing
<1>3. /\ i \in PositionsOf(receive, msg_sender) /\ k \in PositionsOf(receive, msg_sender)
      /\ result'.text = SubSeq(Own, 1, ReadTo(i))
  BY <1>1, <1>2 DEF ParsesAreRead
<1> HIDE DEF i, k
<1>4. i \in Nat /\ k \in Nat
  BY <1>2, <1>3, OwnFacts
<1>5. ReadTo(k) <= ReadTo(i) /\ ReadTo(i) \in 0..Len(Own) /\ Own \in Seq(Fragment)
  BY <1>1, <1>2, <1>4, OwnFacts
<1>6. Len(SubSeq(Own, 1, ReadTo(i))) = ReadTo(i)
  BY <1>5, PrefixAt
<1> QED
  BY <1>3, <1>5, <1>6 DEF k

LEMMA ReturnTakesLongest ==
  ASSUME ParserInv, NEW nt \in NT, ReturnPacket(nt), NEW o \in forecast[msg_sender],
         NEW n \in 1..(IF waited THEN Len(text) ELSE Len(Own)),
         SubSeq(Own, 1, n) \in Derivable[o]
  PROVE  n <= Len(result'.text)
<1>1. step = "choosing" /\ Parsing
  BY DEF ReturnPacket, Parsing
<1>2. ReadsInOrder /\ ParserTypeOK /\ receive \in Seq(Entry)
  BY <1>1, BufferType DEF ParserInv, ParsingInv
<1>3. Own \in Seq(Fragment) /\ Len(Own) \in Nat /\ Len(text) \in 0..Len(Own)
  BY <1>2, OwnFacts, BufferType DEF ReadsInOrder
<1>4. n \in 1..Len(Own) /\ (waited => n <= Len(text))
  BY <1>3
<1>5. ~ waited => available_non_terminals = {}
  BY <1>1 DEF ParserInv, CallInv
<1>6. o \in DOMAIN complete_parses /\ n <= ReadTo(complete_parses[o].last)
  BY <1>1, <1>4, <1>5, FoundIfThere
<1> DEFINE read == ReadTo(complete_parses[o].last)
           l == Len(result'.text)
<1>7. read <= l
  BY <1>6, ReturnsLongest
<1>8. read \in Nat /\ l \in Nat
  <2>1. ReturnPacket(nt) /\ nt \in DOMAIN complete_parses /\ result'.text = complete_parses[nt].tree
    BY DEF ReturnPacket, Best
  <2>2. \A p \in DOMAIN complete_parses : ReadTo(complete_parses[p].last) \in 0..Len(Own)
    <3>1. ASSUME NEW p \in DOMAIN complete_parses
          PROVE  complete_parses[p].last \in PositionsOf(receive, msg_sender)
      BY <1>1 DEF ParserInv, ParsingInv, ParsesAreRead
    <3>2. \A i \in PositionsOf(receive, msg_sender) : ReadTo(i) \in 0..Len(Own)
      BY <1>2, OwnFacts
    <3> QED
      BY <3>1, <3>2
  <2>3. result'.text = SubSeq(Own, 1, ReadTo(complete_parses[nt].last))
    BY <1>1, <2>1 DEF ParserInv, ParsingInv, ParsesAreRead
  <2>4. l = ReadTo(complete_parses[nt].last)
    BY <1>3, <2>1, <2>2, <2>3, PrefixAt
  <2> QED
    BY <1>3, <1>6, <2>1, <2>2, <2>4
<1> HIDE DEF read, l
<1>9. n <= read /\ n \in Nat
  BY <1>4, <1>6 DEF read
<1>10. n <= l
  BY <1>7, <1>8, <1>9
<1> QED
  BY <1>10 DEF l

\* The packet returned is the longest the forecast allows: of all fragments that are
\* pending, also those that arrived after the last look at the buffer, or, after a
\* timeout, of those the parsers had read.
THEOREM LongestAlwaysTaken == ParserSpec => TakesLongest
<1> DEFINE Longest ==
             step = "choosing" /\ result'.kind = "packet" =>
               LET own == Pending(receive, msg_sender)
                   seen == IF waited THEN Len(text) ELSE Len(own)
               IN  \A nt \in forecast[msg_sender], n \in 1..seen :
                      SubSeq(own, 1, n) \in Derivable[nt] => n <= Len(result'.text)
<1>1. ParserInv /\ [ParserNext]_<<vars, parserVars>> => [Longest]_<<vars, parserVars>>
  <2> SUFFICES ASSUME ParserInv, ParserNext, step = "choosing", result'.kind = "packet"
               PROVE  Longest
    OBVIOUS
  <2>1. result = Nothing
    BY DEF ParserInv, CallInv
  <2>2. result'.kind # Nothing.kind
    BY DEF Nothing
  <2>3. PICK nt \in NT : ReturnPacket(nt)
    <3>1. ASSUME NothingParsed PROVE FALSE
      BY <3>1 DEF NothingParsed, Raised
    <3>2. ~ (\E f \in Forecasts : Call(f))
      BY DEF Call
    <3>3. result' # result
      BY <2>1, <2>2
    <3>4. ParserStep
      BY <3>2, <3>3 DEF ParserNext, parserVars
    <3> QED
      BY <3>1, <3>4 DEF ParserStep, Enter, LookAgain, SelectSender, UnexpectedParty,
         FindFragment, FindAgain, Find, InTime, WaitTimesOut, ConsumeFragment
  <2> QED
    BY <2>3, ReturnTakesLongest DEF Own
<1> QED
  BY <1>1, ParserInvAlways, PTL DEF ParserSpec, TakesLongest
-------------------------------------------------------------------------------
(* Refinement: one queue per party, from which the call takes a packet.    *)

\* The packet of the abstract specification: an exception is not handed over.
Handed == IF result.kind = "packet" THEN result ELSE Nothing

LEMMA ReturnDelivers ==
  ASSUME ParserInv, NEW nt \in NT, ReturnPacket(nt)
  PROVE  Packets!Next
<1> DEFINE s == msg_sender
           i == complete_parses[nt].last
           n == ReadTo(i)
<1>1. /\ nt \in DOMAIN complete_parses /\ s \in Party /\ i \in 1..Len(receive)
      /\ i \in PositionsOf(receive, s) /\ ClearByParty(s, i)
  BY ReturnClears
<1>2. /\ IInv /\ ParserTypeOK /\ ReadsInOrder /\ ParsesAreRead /\ result = Nothing
      /\ receive \in Seq(Entry)
  <2>1. step = "choosing"
    BY DEF ReturnPacket
  <2> QED
    BY <2>1, BufferType DEF ParserInv, ParsingInv, Parsing, CallInv
<1>3. /\ s \in DOMAIN forecast /\ nt \in forecast[s]
      /\ complete_parses[nt].tree = SubSeq(Own, 1, n)
  BY <1>1, <1>2 DEF ReadsInOrder, ParsesAreRead
<1>4. complete_parses[nt].tree \in Derivable[nt]
  BY <1>1, <1>2 DEF ParserTypeOK
<1>5. /\ result' = [kind |-> "packet", sender |-> s, nt |-> nt, text |-> SubSeq(Own, 1, n)]
      /\ forecast' = forecast
  BY <1>3 DEF ReturnPacket
<1>6. n \in 1..Len(Own)
  BY <1>1, <1>2, OwnFacts
<1>7. PendingQueues[s] = Own /\ PendingOfParties = PendingQueues
      /\ PendingOfParties' = PendingQueues'
  BY <1>1 DEF PendingQueues, PendingOfParties, Own
<1>8. PendingQueues' = [PendingQueues EXCEPT ![s] =
        SubSeq(PendingQueues[s], n + 1, Len(PendingQueues[s]))]
  <2> HIDE DEF s, i
  <2>1. PendingQueues' = [PendingQueues EXCEPT ![s] =
          SubSeq(PendingQueues[s], Rank(PositionsOf(receive, s), i) + 1,
                 Len(PendingQueues[s]))]
    BY <1>1, <1>2, ClearByPartyShortens
  <2> QED
    BY <2>1 DEF ReadTo, s
<1> HIDE DEF n, s
<1>9. Packets!Deliver(s, nt, n)
  <2>1. result.kind # "packet" /\ Nothing = Packets!Nothing /\ result'.kind = "packet"
    BY <1>2, <1>5 DEF Nothing, Packets!Nothing
  <2>2. SubSeq(PendingOfParties[s], 1, n) \in Derivable[nt]
    BY <1>3, <1>4, <1>7
  <2> QED
    BY <1>3, <1>5, <1>7, <1>8, <2>1, <2>2 DEF Packets!Deliver
<1>10. n \in 1..Len(PendingOfParties[s])
  BY <1>6, <1>7
<1> QED
  BY <1>3, <1>9, <1>10 DEF Packets!Next

LEMMA CallAsks ==
  ASSUME NEW f \in Forecasts, Call(f)
  PROVE  Packets!Next
<1>1. PendingOfParties' = PendingOfParties /\ forecast' = f /\ result' = Nothing
  BY DEF Call, PendingOfParties, Pending, PositionsOf, Select
<1>2. Packets!Ask(f)
  BY <1>1 DEF Packets!Ask, Nothing, Packets!Nothing
<1> QED
  BY <1>2 DEF Packets!Next

LEMMA AddReceiveIsArrival ==
  ASSUME IInv, NEW t \in Thread, AddReceive(t), UNCHANGED parserVars
  PROVE  Packets!Next
<1>1. PICK r \in Party, message \in Message :
        PendingQueues' = [PendingQueues EXCEPT ![r] = PendingQueues[r] \o message]
  BY AddReceiveExtends
<1>2. /\ PendingOfParties = PendingQueues /\ PendingOfParties' = PendingQueues'
      /\ forecast' = forecast /\ result' = result
  BY DEF PendingOfParties, PendingQueues, parserVars
<1>3. Packets!Arrive(r, message)
  BY <1>1, <1>2 DEF Packets!Arrive
<1> QED
  BY <1>3 DEF Packets!Next

\* Until it returns, a call leaves the queues alone, and it hands over nothing.
LEMMA ParsingIsSilent ==
  ASSUME ParserInv, ParserStep, ~ (\E nt \in NT : ReturnPacket(nt))
  PROVE  PendingOfParties' = PendingOfParties /\ forecast' = forecast /\ Handed' = Handed
<1>1. /\ receive' = receive /\ forecast' = forecast
      /\ step \notin {"idle", "raised"}
      /\ result' = result \/ \E e \in {"None returned", "Unexpected party", "Timeout",
                                        "Could not parse"} : result' = Raised(e)
  BY DEF ParserStep, Enter, LookAgain, SelectSender, UnexpectedParty, FindFragment, FindAgain,
         Find, InTime, WaitTimesOut, ConsumeFragment, NothingParsed
<1>2. result = Nothing
  BY <1>1 DEF ParserInv, CallInv
<1>3. PendingOfParties' = PendingOfParties
  BY <1>1 DEF PendingOfParties, Pending, PositionsOf, Select
<1>4. \A e : Raised(e).kind # "packet"
  BY DEF Raised
<1>5. Nothing.kind # "packet"
  BY DEF Nothing
<1>6. result.kind # "packet" /\ result'.kind # "packet"
  BY <1>1, <1>2, <1>4, <1>5
<1>7. Handed = Nothing /\ Handed' = Nothing
  BY <1>6 DEF Handed, Nothing
<1> QED
  BY <1>1, <1>3, <1>7

LEMMA StepOfPackets ==
  ASSUME ParserInv, [ParserNext]_<<vars, parserVars>>
  PROVE  \/ Packets!Next
         \/ PendingOfParties' = PendingOfParties /\ forecast' = forecast /\ Handed' = Handed
<1>1. CASE \E f \in Forecasts : Call(f)
  BY <1>1, CallAsks
<1>2. CASE ParserStep
  BY <1>2, ReturnDelivers, ParsingIsSilent
<1>3. CASE ListenerStep /\ UNCHANGED parserVars
  <2>1. CASE \E t \in Thread : AddReceive(t)
    BY <1>3, <2>1, AddReceiveIsArrival DEF ParserInv
  <2>2. CASE ~ (\E t \in Thread : AddReceive(t))
    <3>1. receive' = receive /\ forecast' = forecast /\ result' = result
      BY <1>3, <2>2 DEF ListenerStep, Receive, ReceiveRaises, parserVars
    <3> QED
      BY <3>1 DEF PendingOfParties, Pending, PositionsOf, Select, Handed
  <2> QED
    BY <2>1, <2>2
<1>4. CASE UNCHANGED <<vars, parserVars>>
  <2>1. receive' = receive /\ forecast' = forecast /\ result' = result
    BY <1>4 DEF vars, parserVars
  <2> QED
    BY <2>1 DEF PendingOfParties, Pending, PositionsOf, Select, Handed
<1> QED
  BY <1>1, <1>2, <1>3, <1>4 DEF ParserNext

\* Whatever the listeners add while it parses, a call hands over a packet of its forecast
\* that is made of the oldest fragments of its sender, and consumes these and no others.
THEOREM PacketsAreTaken == ParserSpec => ImplementsPackets
<1>1. ParserInit => Packets!Init
  <2>1. ASSUME ParserInit
        PROVE  PendingOfParties = [s \in Party |-> <<>>]
    BY <2>1, PendingOfEmpty DEF ParserInit, PendingOfParties
  <2> QED
    BY <2>1 DEF ParserInit, Packets!Init, Nothing, Packets!Nothing
<1>2. ParserInv /\ [ParserNext]_<<vars, parserVars>> =>
        [Packets!Next]_<<PendingOfParties, forecast,
                         IF result.kind = "packet" THEN result ELSE Nothing>>
  BY StepOfPackets DEF Handed
<1> QED
  BY <1>1, <1>2, ParserInvAlways, PTL DEF ParserSpec, ImplementsPackets, Packets!Spec
===============================================================================
