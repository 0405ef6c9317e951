--------------------------- MODULE SocketPartyProofs ---------------------------
(***************************************************************************)
(* Theorems about SocketParty for any number of restarts and messages, for *)
(* callers that stop a party before they start it again: stop() leaves no  *)
(* listener, both threads use the connection of the present socket, and    *)
(* the party gets what the buffer leaves of all that arrives, in order and *)
(* once.                                                                   *)
(***************************************************************************)
EXTENDS SocketParty, SequenceTheorems, TLAPS

(***************************************************************************)
(* None of the three is inductive.  That stop() leaves no listener rests   *)
(* on there being one at most, which is the one that stop() joins; that    *)
(* send() gets past _wait_accept() only with a connection rests on which   *)
(* listener may clear _running while it waits, namely none without one.    *)
(***************************************************************************)
\* The present socket is the last one, and its listener the only one.
OneListener ==
    /\ sock \in {0, starts} /\ send_thread = sock
    /\ sock = 0 => ~ running /\ main \in {"idle", "joining", "raised"}
    /\ \A n \in Socket : Live(n) => n = sock
    /\ main = "joining" => ~ running

\* Who has come past _wait_accept() has a connection, who is inside has none.
ConnectionPhases ==
    /\ connection \in {0, sock}
    /\ main = "connected" => connection # 0
    /\ main = "sending" => running \/ connection # 0
    /\ main = "accepting" => running /\ connection = 0 /\ lock = "held"
    /\ \A n \in Socket :
          /\ listener[n] \in {"looping", "delivering", "closing"} => connection # 0
          /\ listener[n] = "accepting" => lock = "held" /\ main # "accepting"

\* Only who is handing over holds something.
HeldWhileDelivering ==
    \A n \in Socket : listener[n] # "delivering" => held[n] = <<>>

\* The listener n has lost nothing of what has arrived.
Intact(n) ==
    \/ running
    \/ listener[n] \in {"waiting", "accepting", "looping", "delivering"}
    \/ listener[n] = "closing" /\ protocol = "TCP"

Line(n) == delivered[n] \o held[n] \o Left(inbox[n])

NothingLost ==
    \A n \in Socket :
        /\ IsPrefix(delivered[n], Left(arrived[n]))
        /\ n = sock /\ Intact(n) => Line(n) = Left(arrived[n])

\* Sockets to come are untouched.
Untouched ==
    \A n \in Socket : n > starts =>
        /\ delivered[n] = <<>> /\ held[n] = <<>> /\ inbox[n] = <<>> /\ arrived[n] = <<>>
        /\ peer[n] = "none"

IInv ==
    /\ TypeOK
    /\ OneListener
    /\ ConnectionPhases
    /\ HeldWhileDelivering
    /\ NothingLost
    /\ Untouched
-------------------------------------------------------------------------------
(* Sequences: what the properties say of the line of datagrams.            *)

\* What has been delivered is a prefix of the whole line.
LEMMA LinePrefix ==
  ASSUME NEW S, NEW d \in Seq(S), NEW h \in Seq(S), NEW i \in Seq(S)
  PROVE  IsPrefix(d, d \o h \o i)
<1>1. h \o i \in Seq(S) /\ (d \o h) \o i = d \o (h \o i)
  BY ConcatAssociative
<1>2. SubSeq(d \o (h \o i), 1, Len(d)) = SubSeq(d, 1, Len(d))
  <2>1. CASE Len(d) = 0
    BY <2>1, SubSeqEmpty
  <2>2. CASE Len(d) # 0
    BY <1>1, <2>2, SubSeqOfConcat1
  <2> QED
    BY <2>1, <2>2
<1>3. Len(d) <= Len(d \o (h \o i))
  BY <1>1
<1> QED
  BY <1>1, <1>2, <1>3 DEF IsPrefix

\* More may arrive.
LEMMA PrefixOfAppend ==
  ASSUME NEW S, NEW d \in Seq(S), NEW a \in Seq(S), NEW e \in S, IsPrefix(d, a)
  PROVE  IsPrefix(d, Append(a, e))
<1>1. Len(d) <= Len(a) /\ SubSeq(d, 1, Len(d)) = SubSeq(a, 1, Len(d))
  BY DEF IsPrefix
<1>2. Append(a, e) = a \o <<e>> /\ <<e>> \in Seq(S) /\ Len(Append(a, e)) = Len(a) + 1
  BY AppendIsConcat
<1>3. SubSeq(a \o <<e>>, 1, Len(d)) = SubSeq(a, 1, Len(d))
  <2>1. CASE Len(d) = 0
    BY <2>1, SubSeqEmpty
  <2>2. CASE Len(d) # 0
    BY <1>1, <1>2, <2>2, SubSeqOfConcat1
  <2> QED
    BY <2>1, <2>2
<1> QED
  BY <1>1, <1>2, <1>3 DEF IsPrefix

LEMMA LineAppend ==
  ASSUME NEW S, NEW d \in Seq(S), NEW h \in Seq(S), NEW i \in Seq(S), NEW e \in S
  PROVE  d \o h \o Append(i, e) = Append(d \o h \o i, e)
<1>1. d \o h \in Seq(S) /\ (d \o h) \o i \in Seq(S) /\ <<e>> \in Seq(S)
  BY ConcatProperties
<1>2. Append(i, e) = i \o <<e>> /\ Append(d \o h \o i, e) = (d \o h \o i) \o <<e>>
  BY <1>1, AppendIsConcat
<1> QED
  BY <1>1, <1>2, ConcatAssociative

LEMMA LineReceive ==
  ASSUME NEW S, NEW d \in Seq(S), NEW i \in Seq(S), i # <<>>
  PROVE  d \o <<Head(i)>> \o Tail(i) = d \o <<>> \o i
<1>1. Head(i) \in S /\ Tail(i) \in Seq(S) /\ <<Head(i)>> \in Seq(S)
  BY HeadTailProperties
<1>2. <<Head(i)>> \o Tail(i) = i
  BY <1>1
<1>3. d \o <<>> = d
  BY ConcatEmptySeq
<1> QED
  BY <1>1, <1>2, <1>3, ConcatAssociative

LEMMA OneHeld ==
  ASSUME NEW S, NEW e \in S
  PROVE  <<e>> \in Seq(S) /\ Len(<<e>>) = 1
OBVIOUS
-------------------------------------------------------------------------------
(* What the buffer leaves of a line.                                       *)

LEMMA ReceivedType ==
  ASSUME NEW d \in Datagram
  PROVE  Received(d) \in Datagram
BY CutAssumption DEF Received, Datagram

LEMMA LeftType ==
  ASSUME NEW s \in Seq(Datagram)
  PROVE  Left(s) \in Seq(Datagram) /\ Len(Left(s)) = Len(s)
<1>1. s \in [1..Len(s) -> Datagram] /\ Len(s) \in Nat
  OBVIOUS
<1>2. Left(s) \in [1..Len(s) -> Datagram]
  BY <1>1, ReceivedType DEF Left
<1> QED
  BY <1>1, <1>2

LEMMA LeftEmpty == Left(<<>>) = <<>>
BY DEF Left

\* What arrives last is cut on its own.
LEMMA LeftAppend ==
  ASSUME NEW s \in Seq(Datagram), NEW d \in Datagram
  PROVE  Left(Append(s, d)) = Append(Left(s), Received(d))
<1>1. /\ Append(s, d) \in Seq(Datagram) /\ Len(Append(s, d)) = Len(s) + 1
      /\ \A i \in 1..Len(s) : Append(s, d)[i] = s[i]
      /\ Append(s, d)[Len(s) + 1] = d
  BY AppendProperties
<1>2. /\ Left(s) \in Seq(Datagram) /\ Len(Left(s)) = Len(s) /\ Received(d) \in Datagram
      /\ Left(Append(s, d)) \in Seq(Datagram) /\ Len(Left(Append(s, d))) = Len(s) + 1
  BY <1>1, LeftType, ReceivedType
<1>3. /\ Append(Left(s), Received(d)) \in Seq(Datagram)
      /\ Len(Append(Left(s), Received(d))) = Len(s) + 1
      /\ \A i \in 1..Len(s) : Append(Left(s), Received(d))[i] = Left(s)[i]
      /\ Append(Left(s), Received(d))[Len(s) + 1] = Received(d)
  BY <1>2, AppendProperties
<1>4. ASSUME NEW i \in 1..(Len(s) + 1)
      PROVE  Left(Append(s, d))[i] = Append(Left(s), Received(d))[i]
  <2>0. i = Len(s) + 1 \/ i \in 1..Len(s)
    <3>1. Len(s) \in Nat /\ i \in 1..(Len(s) + 1)
      OBVIOUS
    <3> QED
      BY <3>1
  <2>1. Left(Append(s, d))[i] = Received(Append(s, d)[i])
    BY <1>1 DEF Left
  <2>2. CASE i = Len(s) + 1
    BY <1>1, <1>3, <2>1, <2>2
  <2>3. CASE i \in 1..Len(s)
    BY <1>1, <1>3, <2>1, <2>3 DEF Left
  <2> QED
    BY <2>0, <2>2, <2>3
<1> QED
  BY <1>2, <1>3, <1>4, SeqEqual

\* What is received first is the beginning of what is left.
LEMMA LeftHeadTail ==
  ASSUME NEW s \in Seq(Datagram), s # <<>>
  PROVE  /\ Left(s) # <<>>
         /\ Head(Left(s)) = Received(Head(s)) /\ Tail(Left(s)) = Left(Tail(s))
<1>1. Len(s) \in Nat /\ Len(s) >= 1
  BY EmptySeq
<1>2. Left(s) \in Seq(Datagram) /\ Len(Left(s)) = Len(s) /\ Left(s) # <<>>
  BY <1>1, LeftType
<1>3. Head(Left(s)) = Received(Head(s))
  BY <1>1, <1>2 DEF Left
<1>4. /\ Tail(s) \in Seq(Datagram) /\ Len(Tail(s)) = Len(s) - 1
      /\ \A i \in 1..Len(Tail(s)) : Tail(s)[i] = s[i + 1]
  BY HeadTailProperties
<1>5. /\ Tail(Left(s)) \in Seq(Datagram) /\ Len(Tail(Left(s))) = Len(s) - 1
      /\ \A i \in 1..Len(Tail(Left(s))) : Tail(Left(s))[i] = Left(s)[i + 1]
  BY <1>2, HeadTailProperties
<1>6. Left(Tail(s)) \in Seq(Datagram) /\ Len(Left(Tail(s))) = Len(s) - 1
  BY <1>4, LeftType
<1>7. ASSUME NEW i \in 1..(Len(s) - 1)
      PROVE  Tail(Left(s))[i] = Left(Tail(s))[i]
  BY <1>1, <1>4, <1>5, <1>7 DEF Left
<1> QED
  BY <1>2, <1>3, <1>5, <1>6, <1>7, SeqEqual

\* The protocol of a party does not change.
LEMMA LeftNext ==
  ASSUME protocol' = protocol, NEW n \in Socket
  PROVE  /\ Left(inbox[n])' = Left(inbox'[n])
         /\ Left(arrived[n])' = Left(arrived'[n])
BY DEF Left, Received
-------------------------------------------------------------------------------
(* The types.                                                              *)

LEMMA InitIInv == Init => IInv
<1> SUFFICES ASSUME Init PROVE IInv
  OBVIOUS
<1> USE SocketAssumption DEF Init, Socket
<1>1. \A n \in Socket :
         /\ listener[n] = "none" /\ peer[n] = "none"
         /\ held[n] = <<>> /\ inbox[n] = <<>> /\ arrived[n] = <<>> /\ delivered[n] = <<>>
  OBVIOUS
<1>2. TypeOK
  <2>1. <<>> \in Seq(Datagram) /\ 0 \in 0..MaxStart
    BY EmptySeq
  <2> QED
    BY <2>1 DEF TypeOK
<1>3. OneListener /\ ConnectionPhases /\ HeldWhileDelivering
  BY <1>1 DEF OneListener, ConnectionPhases, HeldWhileDelivering, Live
<1>4. NothingLost
  BY <1>1, LeftEmpty, SubSeqEmpty, EmptySeq DEF NothingLost, IsPrefix, Line, Intact
<1>5. Untouched
  BY <1>1 DEF Untouched
<1> QED
  BY <1>2, <1>3, <1>4, <1>5 DEF IInv

\* What is at the head of an inbox is a datagram.
LEMMA InboxHead ==
  ASSUME TypeOK, NEW n \in Socket, inbox[n] # <<>>
  PROVE  Head(inbox[n]) \in Datagram /\ Tail(inbox[n]) \in Seq(Datagram)
BY HeadTailProperties DEF TypeOK

LEMMA TypeStep ==
  ASSUME TypeOK, OneListener, ConnectionPhases, StopsFirst, [Next]_vars
  PROVE  TypeOK'
<1> USE SocketAssumption DEF TypeOK, own, config, world
<1>0. /\ Socket \subseteq 0..MaxStart /\ 0 \in 0..MaxStart
      /\ \A n \in 0..MaxStart : n # 0 => n \in Socket
  BY DEF Socket
<1>1. CASE Start
  <2>1. starts + 1 \in Socket /\ starts + 1 \in 0..MaxStart
    BY <1>1 DEF Start, Socket
  <2>2. starts' \in 0..MaxStart /\ sock' \in 0..MaxStart /\ send_thread' \in 0..MaxStart
    BY <1>1, <2>1 DEF Start
  <2> QED
    BY <1>1, <2>1, <2>2 DEF Start
<1>2. CASE Stop
  BY <1>2 DEF Stop
<1>3. CASE Send
  BY <1>3 DEF Send
<1>4. CASE SendWaits
  BY <1>0, <1>4 DEF SendWaits, EnterAccept
<1>5. CASE SendAccepts
  BY <1>0, <1>5 DEF SendAccepts, LeaveAccept
<1>6. CASE SendAll
  BY <1>6 DEF SendAll
<1>7. CASE Joined
  <2>1. <<>> \in Seq(Datagram)
    BY EmptySeq
  <2> QED
    BY <1>0, <1>7, <2>1 DEF Joined, ClosesSockets
<1>8. ASSUME NEW n \in Socket, PeerConnects(n) \/ PeerRefuses(n) \/ PeerCloses(n)
      PROVE  TypeOK'
  BY <1>8 DEF PeerConnects, PeerRefuses, PeerCloses
<1>9. ASSUME NEW n \in Socket, NEW m \in Message, PeerSends(n, m)
      PROVE  TypeOK'
  <2>1. <<n, m>> \in Datagram
    BY DEF Datagram
  <2>2. /\ Append(inbox[n], <<n, m>>) \in Seq(Datagram)
        /\ Append(arrived[n], <<n, m>>) \in Seq(Datagram)
    BY <2>1, AppendProperties
  <2> QED
    BY <1>9, <2>2 DEF PeerSends
<1>10. ASSUME NEW n \in Socket, NEW d \in Datagram, DatagramArrives(n, d)
       PROVE  TypeOK'
  <2>1. Append(inbox[n], d) \in Seq(Datagram) /\ Append(arrived[n], d) \in Seq(Datagram)
    BY AppendProperties
  <2> QED
    BY <1>10, <2>1 DEF DatagramArrives
<1>11. ASSUME NEW n \in Socket, ListenerStep(n)
       PROVE  TypeOK'
  <2>1. CASE ListenerWaits(n)
    BY <1>0, <2>1 DEF ListenerWaits, EnterAccept
  <2>2. CASE ListenerAccepts(n)
    BY <2>2 DEF ListenerAccepts, LeaveAccept
  <2>3. CASE ListenerEnds(n)
    BY <2>3 DEF ListenerEnds
  <2>4. CASE ReceiveData(n)
    <3>1. connection \in Socket /\ inbox[connection] # <<>>
      BY <1>0, <2>4 DEF ReceiveData, Readable
    <3>2. Head(inbox[connection]) \in Datagram /\ Tail(inbox[connection]) \in Seq(Datagram)
      BY <3>1, InboxHead
    <3>3. <<Received(Head(inbox[connection]))>> \in Seq(Datagram)
          /\ Head(inbox[connection])[1] \in Socket
      BY <3>2, ReceivedType, OneHeld DEF Datagram
    <3> QED
      BY <1>0, <2>4, <3>2, <3>3 DEF ReceiveData
  <2>5. CASE Deliver(n)
    <3>1. connection \in Socket
      BY <1>0, <2>5 DEF Deliver, ConnectionPhases
    <3>2. delivered[connection] \o held[n] \in Seq(Datagram)
      BY <3>1, ConcatProperties
    <3>3. <<>> \in Seq(Datagram)
      BY EmptySeq
    <3> QED
      BY <2>5, <3>2, <3>3 DEF Deliver
  <2>6. CASE DeliverRaises(n)
    <3>1. <<>> \in Seq(Datagram)
      BY EmptySeq
    <3> QED
      BY <2>6, <3>1 DEF DeliverRaises
  <2>7. CASE ReceiveClose(n)
    BY <2>7 DEF ReceiveClose
  <2>8. CASE ReceiveEmpty(n)
    <3>1. connection \in Socket /\ inbox[connection] # <<>>
      BY <1>0, <2>8 DEF ReceiveEmpty, Readable
    <3>2. Head(inbox[connection])[1] \in Socket /\ Tail(inbox[connection]) \in Seq(Datagram)
      BY <3>1, InboxHead DEF Datagram
    <3> QED
      BY <1>0, <2>8, <3>2 DEF ReceiveEmpty, Readable
  <2>9. CASE ListenerShutsDown(n)
    BY <2>9 DEF ListenerShutsDown
  <2> QED
    BY <1>11, <2>1, <2>2, <2>3, <2>4, <2>5, <2>6, <2>7, <2>8, <2>9 DEF ListenerStep
<1>12. CASE UNCHANGED vars
  BY <1>12 DEF vars
<1> QED
  BY <1>1, <1>2, <1>3, <1>4, <1>5, <1>6, <1>7, <1>8, <1>9, <1>10, <1>11, <1>12
     DEF Next, MainStep, PeerStep
-------------------------------------------------------------------------------
(* The listener and the connection.                                        *)

\* What the peer does leaves both threads alone, except for what arrives.
LEMMA PeerLeavesThreads ==
  ASSUME PeerStep
  PROVE  UNCHANGED <<protocol, mode, running, sock, connection, remote_addr, send_thread, lock,
                     main, starts, listener, held, delivered>>
BY DEF PeerStep, PeerConnects, PeerRefuses, PeerCloses, PeerSends, DatagramArrives, own, config

\* A listener moves itself only, may clear _running, and moves while it lives.
LEMMA ListenerLeavesOthers ==
  ASSUME TypeOK, NEW n \in Socket, ListenerStep(n)
  PROVE  /\ UNCHANGED <<protocol, mode, sock, starts, send_thread, main>>
         /\ running' = running \/ running' = FALSE
         /\ \A o \in Socket : o # n => listener'[o] = listener[o]
         /\ Live(n)
<1> USE DEF own, config, Live
<1>0. \A x : listener' = [listener EXCEPT ![n] = x] =>
                 \A o \in Socket : o # n => listener'[o] = listener[o]
  BY DEF TypeOK
<1>1. CASE ListenerWaits(n)
  BY <1>0, <1>1 DEF ListenerWaits
<1>2. CASE ListenerAccepts(n)
  BY <1>0, <1>2 DEF ListenerAccepts
<1>3. CASE ListenerEnds(n)
  BY <1>0, <1>3 DEF ListenerEnds
<1>4. CASE ReceiveData(n)
  BY <1>0, <1>4 DEF ReceiveData, Readable
<1>5. CASE Deliver(n) \/ DeliverRaises(n)
  BY <1>0, <1>5 DEF Deliver, DeliverRaises
<1>6. CASE ReceiveClose(n)
  BY <1>0, <1>6 DEF ReceiveClose
<1>7. CASE ReceiveEmpty(n)
  BY <1>0, <1>7 DEF ReceiveEmpty, Readable
<1>8. CASE ListenerShutsDown(n)
  BY <1>0, <1>8 DEF ListenerShutsDown
<1> QED
  BY <1>1, <1>2, <1>3, <1>4, <1>5, <1>6, <1>7, <1>8 DEF ListenerStep

LEMMA OneListenerStep ==
  ASSUME TypeOK, OneListener, StopsFirst, [Next]_vars
  PROVE  OneListener'
<1> USE SocketAssumption DEF OneListener, Live, own, config, world
<1>1. CASE Start
  <2>1. sock = 0 /\ main = "idle" /\ starts + 1 \in Socket
    BY <1>1 DEF Start, TypeOK, Socket
  <2>2. /\ running' = TRUE /\ sock' = starts + 1 /\ starts' = starts + 1
        /\ send_thread' = starts + 1 /\ main' = "idle"
        /\ listener' = [listener EXCEPT ![starts + 1] = "waiting"]
    BY <1>1, <2>1 DEF Start
  <2>3. starts + 1 # 0
    BY <2>1 DEF Socket
  <2>4. \A n \in Socket : n # starts + 1 => listener'[n] = listener[n]
    BY <2>2 DEF TypeOK
  <2>5. \A n \in Socket : ~ Live(n)
    BY <2>1 DEF Socket
  <2> QED
    BY <2>2, <2>3, <2>4, <2>5
<1>2. CASE Stop
  BY <1>2 DEF Stop
<1>3. CASE Send
  BY <1>3 DEF Send, TypeOK
<1>4. CASE SendWaits \/ SendAccepts \/ SendAll
  <2>1. UNCHANGED <<running, sock, starts, send_thread, listener>>
    BY <1>4 DEF SendWaits, SendAccepts, SendAll
  <2>2. main \in {"sending", "accepting", "connected"} /\ main' # "joining"
    BY <1>4 DEF SendWaits, SendAccepts, SendAll
  <2> QED
    BY <2>1, <2>2
<1>5. CASE Joined
  <2>1. \A n \in Socket : listener[n] \in {"none", "ended"}
    BY <1>5 DEF Joined, Socket
  <2> QED
    BY <1>5, <2>1 DEF Joined
<1>6. CASE PeerStep
  BY <1>6, PeerLeavesThreads
<1>7. ASSUME NEW n \in Socket, ListenerStep(n)
      PROVE  OneListener'
  <2>1. /\ UNCHANGED <<sock, starts, send_thread, main>>
        /\ running' = running \/ running' = FALSE
        /\ \A o \in Socket : o # n => listener'[o] = listener[o]
        /\ Live(n)
    BY <1>7, ListenerLeavesOthers
  <2>2. n = sock
    BY <2>1
  <2> QED
    BY <2>1, <2>2
<1>8. CASE UNCHANGED vars
  BY <1>8 DEF vars
<1> QED
  BY <1>1, <1>2, <1>3, <1>4, <1>5, <1>6, <1>7, <1>8 DEF Next, MainStep

LEMMA ConnectionStep ==
  ASSUME TypeOK, OneListener, ConnectionPhases, StopsFirst, [Next]_vars
  PROVE  ConnectionPhases'
<1> USE SocketAssumption DEF TypeOK, OneListener, ConnectionPhases, Live, Socket, own, config, world
<1>1. CASE Start
  BY <1>1 DEF Start
<1>2. CASE Stop \/ Send
  BY <1>2 DEF Stop, Send
<1>3. CASE SendWaits
  BY <1>3 DEF SendWaits, EnterAccept
<1>4. CASE SendAccepts
  BY <1>4 DEF SendAccepts, LeaveAccept
<1>5. CASE SendAll
  BY <1>5 DEF SendAll
<1>6. CASE Joined
  <2>1. \A n \in Socket : listener[n] \in {"none", "ended"}
    BY <1>6 DEF Joined
  <2> QED
    BY <1>6, <2>1 DEF Joined
<1>7. CASE PeerStep
  BY <1>7, PeerLeavesThreads
<1>8. ASSUME NEW n \in Socket, ListenerStep(n)
      PROVE  ConnectionPhases'
  <2>1. CASE ListenerWaits(n)
    BY <2>1 DEF ListenerWaits, EnterAccept
  <2>2. CASE ListenerAccepts(n)
    BY <2>2 DEF ListenerAccepts, LeaveAccept
  <2>3. CASE ListenerEnds(n)
    BY <2>3 DEF ListenerEnds
  <2>4. CASE ReceiveData(n)
    BY <2>4 DEF ReceiveData, Readable
  <2>5. CASE Deliver(n) \/ DeliverRaises(n)
    BY <2>5 DEF Deliver, DeliverRaises
  <2>6. CASE ReceiveClose(n)
    BY <2>6 DEF ReceiveClose
  <2>7. CASE ReceiveEmpty(n)
    BY <2>7 DEF ReceiveEmpty, Readable
  <2>8. CASE ListenerShutsDown(n)
    BY <2>8 DEF ListenerShutsDown
  <2> QED
    BY <1>8, <2>1, <2>2, <2>3, <2>4, <2>5, <2>6, <2>7, <2>8 DEF ListenerStep
<1>9. CASE UNCHANGED vars
  BY <1>9 DEF vars
<1> QED
  BY <1>1, <1>2, <1>3, <1>4, <1>5, <1>6, <1>7, <1>8, <1>9 DEF Next, MainStep

LEMMA HeldStep ==
  ASSUME TypeOK, OneListener, HeldWhileDelivering, StopsFirst, [Next]_vars
  PROVE  HeldWhileDelivering'
<1> USE DEF HeldWhileDelivering, own, config, world
<1>1. CASE Start
  <2>1. \A n \in Socket : listener'[n] = "delivering" <=> listener[n] = "delivering"
    <3>1. sock = 0 /\ \A n \in Socket : listener[n] # "delivering"
      BY <1>1 DEF Start, OneListener, Live, Socket
    <3>2. listener' = [listener EXCEPT ![starts + 1] = "waiting"]
      BY <1>1, <3>1 DEF Start
    <3> QED
      BY <3>1, <3>2 DEF TypeOK
  <2> QED
    BY <1>1, <2>1 DEF Start
<1>2. CASE Stop \/ Send \/ MainStep
  BY <1>2 DEF Stop, Send, MainStep, SendWaits, SendAccepts, SendAll, Joined
<1>3. CASE PeerStep
  BY <1>3, PeerLeavesThreads
<1>4. ASSUME NEW n \in Socket, ListenerStep(n)
      PROVE  HeldWhileDelivering'
  <2>1. \A o \in Socket : o # n => listener'[o] = listener[o] /\ held'[o] = held[o]
    <3>1. \/ held' = held
          \/ \E x : held' = [held EXCEPT ![n] = x]
      BY <1>4 DEF ListenerStep, ListenerWaits, ListenerAccepts, ListenerEnds, ReceiveData,
         Deliver, DeliverRaises, ReceiveClose, ReceiveEmpty, ListenerShutsDown
    <3> QED
      BY <1>4, <3>1, ListenerLeavesOthers DEF TypeOK
  <2>2. listener'[n] # "delivering" => held'[n] = <<>>
    <3>1. CASE ReceiveData(n)
      BY <3>1 DEF ReceiveData, TypeOK
    <3>2. CASE Deliver(n) \/ DeliverRaises(n)
      BY <3>2 DEF Deliver, DeliverRaises, TypeOK
    <3>3. CASE ListenerWaits(n) \/ ListenerAccepts(n) \/ ListenerEnds(n)
      BY <3>3 DEF ListenerWaits, ListenerAccepts, ListenerEnds
    <3>4. CASE ReceiveClose(n) \/ ReceiveEmpty(n) \/ ListenerShutsDown(n)
      BY <3>4 DEF ReceiveClose, ReceiveEmpty, Readable, ListenerShutsDown
    <3> QED
      BY <1>4, <3>1, <3>2, <3>3, <3>4 DEF ListenerStep
  <2> QED
    BY <2>1, <2>2
<1>5. CASE UNCHANGED vars
  BY <1>5 DEF vars
<1> QED
  BY <1>1, <1>2, <1>3, <1>4, <1>5 DEF Next

LEMMA UntouchedStep ==
  ASSUME TypeOK, OneListener, ConnectionPhases, Untouched, StopsFirst, [Next]_vars
  PROVE  Untouched'
<1> USE DEF Untouched, own, config, world
<1>0. /\ starts \in Nat /\ sock \in Nat /\ connection \in Nat /\ sock <= starts
      /\ connection <= starts /\ Socket \subseteq Nat
  BY SocketAssumption DEF TypeOK, OneListener, ConnectionPhases, Socket
<1>1. CASE Start
  <2>1. UNCHANGED <<delivered, held, inbox, arrived, peer>> /\ starts' = starts + 1
    BY <1>1 DEF Start
  <2>2. \A n \in Socket : n > starts' => n > starts
    BY <1>0, <2>1
  <2> QED
    BY <2>1, <2>2
<1>2. CASE Stop \/ Send \/ SendAccepts
  BY <1>2 DEF Stop, Send, SendAccepts
<1>3. CASE SendWaits
  BY <1>0, <1>3 DEF SendWaits, EnterAccept, TypeOK
<1>4. CASE SendAll
  BY <1>0, <1>4 DEF SendAll, TypeOK
<1>5. CASE Joined
  BY <1>0, <1>5 DEF Joined, ClosesSockets
<1>6. CASE PeerStep
  <2>1. starts' = starts /\ held' = held /\ delivered' = delivered
    BY <1>6, PeerLeavesThreads
  <2>2. ASSUME NEW n \in Socket, PeerConnects(n) \/ PeerRefuses(n) \/ PeerCloses(n)
        PROVE  Untouched'
    <3>1. n <= starts
      BY <1>0, <2>2 DEF PeerConnects, PeerRefuses, PeerCloses
    <3> QED
      BY <1>0, <2>1, <2>2, <3>1 DEF PeerConnects, PeerRefuses, PeerCloses, TypeOK
  <2>3. ASSUME NEW n \in Socket, NEW m \in Message, PeerSends(n, m)
        PROVE  Untouched'
    <3>1. n <= starts
      BY <1>0, <2>3 DEF PeerSends
    <3> QED
      BY <1>0, <2>1, <2>3, <3>1 DEF PeerSends, TypeOK
  <2>4. ASSUME NEW n \in Socket, NEW d \in Datagram, DatagramArrives(n, d)
        PROVE  Untouched'
    <3>1. n <= starts
      BY <1>0, <2>4 DEF DatagramArrives
    <3> QED
      BY <1>0, <2>1, <2>4, <3>1 DEF DatagramArrives, TypeOK
  <2> QED
    BY <1>6, <2>2, <2>3, <2>4 DEF PeerStep
<1>7. ASSUME NEW n \in Socket, ListenerStep(n)
      PROVE  Untouched'
  <2>1. starts' = starts /\ n = sock
    BY <1>7, ListenerLeavesOthers DEF OneListener
  <2>2. CASE ListenerWaits(n)
    BY <1>0, <2>1, <2>2 DEF ListenerWaits, EnterAccept, TypeOK
  <2>3. CASE ListenerAccepts(n) \/ ListenerEnds(n)
    BY <2>3 DEF ListenerAccepts, ListenerEnds
  <2>4. CASE ReceiveData(n)
    <3>1. /\ UNCHANGED <<starts, peer, arrived, delivered>>
          /\ held' = [held EXCEPT ![n] = <<Received(Head(inbox[connection]))>>]
          /\ inbox' = [inbox EXCEPT ![connection] = Tail(inbox[connection])]
      BY <2>4 DEF ReceiveData
    <3>2. ASSUME NEW o \in Socket, o > starts
          PROVE  held'[o] = held[o] /\ inbox'[o] = inbox[o]
      BY <1>0, <2>1, <3>1, <3>2 DEF TypeOK
    <3> QED
      BY <3>1, <3>2
  <2>5. CASE Deliver(n) \/ DeliverRaises(n)
    BY <1>0, <2>1, <2>5 DEF Deliver, DeliverRaises, TypeOK
  <2>6. CASE ReceiveClose(n) \/ ListenerShutsDown(n)
    BY <2>6 DEF ReceiveClose, ListenerShutsDown
  <2>7. CASE ReceiveEmpty(n)
    BY <1>0, <2>1, <2>7 DEF ReceiveEmpty, TypeOK
  <2> QED
    BY <1>7, <2>2, <2>3, <2>4, <2>5, <2>6, <2>7 DEF ListenerStep
<1>8. CASE UNCHANGED vars
  BY <1>8 DEF vars
<1> QED
  BY <1>1, <1>2, <1>3, <1>4, <1>5, <1>6, <1>7, <1>8 DEF Next, MainStep
-------------------------------------------------------------------------------
(* What arrives and what is delivered.                                     *)

\* Nothing is lost where nothing moves, unless something becomes intact.
LEMMA NothingMoves ==
  ASSUME NothingLost, UNCHANGED <<protocol, held, inbox, arrived, delivered>>,
         \A n \in Socket : n = sock' /\ Intact(n)' => n = sock /\ Intact(n)
  PROVE  NothingLost'
<1>1. \A n \in Socket : Line(n)' = Line(n) /\ Left(arrived[n])' = Left(arrived[n])
  BY LeftNext DEF Line
<1> QED
  BY <1>1 DEF NothingLost

\* A datagram that arrives comes to the end of the line.
LEMMA ArrivalKeepsLine ==
  ASSUME TypeOK, NothingLost, NEW n \in Socket, NEW d \in Datagram,
         inbox' = [inbox EXCEPT ![n] = Append(inbox[n], d)],
         arrived' = [arrived EXCEPT ![n] = Append(arrived[n], d)],
         UNCHANGED <<protocol, running, sock, listener, held, delivered>>
  PROVE  NothingLost'
<1>0. d \in Datagram
  OBVIOUS
<1>1. \A o \in Socket : Intact(o)' <=> Intact(o)
  BY DEF Intact
<1>2. ASSUME NEW o \in Socket, o # n
      PROVE  Line(o)' = Line(o) /\ Left(arrived[o])' = Left(arrived[o])
  <2>1. inbox'[o] = inbox[o] /\ arrived'[o] = arrived[o]
    BY <1>2 DEF TypeOK
  <2> QED
    BY <2>1, LeftNext DEF Line
<1>3. /\ Left(arrived[n])' = Append(Left(arrived[n]), Received(d))
      /\ Left(inbox[n])' = Append(Left(inbox[n]), Received(d))
  <2>1. arrived'[n] = Append(arrived[n], d) /\ inbox'[n] = Append(inbox[n], d)
    BY DEF TypeOK
  <2> QED
    BY <1>0, <2>1, LeftNext, LeftAppend DEF TypeOK
<1>4. IsPrefix(delivered[n], Left(arrived[n]))'
  <2>1. /\ delivered[n] \in Seq(Datagram) /\ Left(arrived[n]) \in Seq(Datagram)
        /\ Received(d) \in Datagram /\ IsPrefix(delivered[n], Left(arrived[n]))
    BY LeftType, ReceivedType DEF NothingLost, TypeOK
  <2> QED
    BY <1>3, <2>1, PrefixOfAppend
<1>5. Line(n)' = Append(Line(n), Received(d))
  <2> DEFINE out == delivered[n]
             on == held[n]
             in == Left(inbox[n])
             e == Received(d)
  <2>1. /\ out \in Seq(Datagram) /\ on \in Seq(Datagram) /\ in \in Seq(Datagram)
        /\ e \in Datagram
    BY LeftType, ReceivedType DEF TypeOK
  <2>2. Line(n)' = out \o on \o Append(in, e) /\ Line(n) = out \o on \o in
    BY <1>3 DEF Line
  <2> HIDE DEF out, on, in, e
  <2>3. out \o on \o Append(in, e) = Append(out \o on \o in, e)
    BY <2>1, LineAppend
  <2>4. Line(n)' = Append(Line(n), e)
    BY <2>2, <2>3
  <2> QED
    BY <2>4 DEF e
<1> QED
  BY <1>1, <1>2, <1>3, <1>4, <1>5 DEF NothingLost

LEMMA NothingLostStep ==
  ASSUME TypeOK, OneListener, ConnectionPhases, HeldWhileDelivering, NothingLost, Untouched,
         StopsFirst, [Next]_vars
  PROVE  NothingLost'
<1> USE DEF own, config, world
<1>1. CASE Start
  <2>1. sock = 0 /\ starts + 1 \in Socket /\ sock' = starts + 1
    BY <1>1, SocketAssumption DEF Start, TypeOK, Socket
  <2>2. Line(starts + 1) = <<>> \o <<>> \o <<>> /\ Left(arrived[starts + 1]) = <<>>
    <3>1. starts + 1 > starts
      BY DEF TypeOK
    <3> QED
      BY <2>1, <3>1, LeftEmpty DEF Untouched, Line
  <2>3. <<>> \o <<>> \o <<>> = <<>>
    BY EmptySeq, ConcatEmptySeq
  <2>4. \A n \in Socket : Line(n)' = Line(n) /\ Left(arrived[n])' = Left(arrived[n])
    BY <1>1, LeftNext DEF Start, Line
  <2> QED
    BY <1>1, <2>1, <2>2, <2>3, <2>4 DEF Start, NothingLost
<1>2. CASE Stop
  BY <1>2, NothingMoves DEF Stop, Intact
<1>3. CASE Send \/ SendWaits \/ SendAccepts \/ SendAll
  <2>1. UNCHANGED <<protocol, running, sock, listener, held, inbox, arrived, delivered>>
    BY <1>3 DEF Send, SendWaits, SendAccepts, SendAll
  <2> QED
    BY <2>1, NothingMoves DEF Intact
<1>4. CASE Joined
  <2>1. \A n \in Socket : n # sock' /\ Left(arrived[n])' = Left(arrived[n])
    BY <1>4, LeftNext DEF Joined, Socket
  <2> QED
    BY <1>4, <2>1 DEF Joined, NothingLost
<1>5. CASE PeerStep
  <2>1. UNCHANGED <<protocol, running, sock, listener, held, delivered>>
    BY <1>5, PeerLeavesThreads
  <2>2. ASSUME NEW n \in Socket, PeerConnects(n) \/ PeerRefuses(n) \/ PeerCloses(n)
        PROVE  NothingLost'
    BY <2>1, <2>2, NothingMoves DEF PeerConnects, PeerRefuses, PeerCloses, Intact
  <2>3. ASSUME NEW n \in Socket, NEW m \in Message, PeerSends(n, m)
        PROVE  NothingLost'
    <3>1. <<n, m>> \in Datagram
      BY DEF Datagram
    <3> QED
      BY <2>1, <2>3, <3>1, ArrivalKeepsLine DEF PeerSends
  <2>4. ASSUME NEW n \in Socket, NEW d \in Datagram, DatagramArrives(n, d)
        PROVE  NothingLost'
    BY <2>1, <2>4, ArrivalKeepsLine DEF DatagramArrives
  <2> QED
    BY <1>5, <2>2, <2>3, <2>4 DEF PeerStep
<1>6. ASSUME NEW n \in Socket, ListenerStep(n)
      PROVE  NothingLost'
  <2>1. /\ protocol' = protocol /\ sock' = sock /\ n = sock
        /\ \A o \in Socket : o = sock <=> o = n
        /\ \A o \in Socket : Left(inbox[o])' = Left(inbox'[o])
                             /\ Left(arrived[o])' = Left(arrived'[o])
    BY <1>6, ListenerLeavesOthers, LeftNext DEF OneListener
  <2>2. CASE ListenerWaits(n) \/ ListenerAccepts(n)
    <3>1. Intact(n)
      BY <2>2 DEF ListenerWaits, ListenerAccepts, Intact
    <3>2. UNCHANGED <<held, inbox, arrived, delivered>>
      BY <2>2 DEF ListenerWaits, ListenerAccepts
    <3> QED
      BY <2>1, <3>1, <3>2, NothingMoves
  <2>3. CASE ListenerEnds(n)
    <3>1. Intact(n)
      BY <2>3 DEF ListenerEnds, Intact
    <3> QED
      BY <2>1, <2>3, <3>1, NothingMoves DEF ListenerEnds
  <2>4. CASE ReceiveData(n)
    <3>1. connection = n /\ inbox[n] # <<>> /\ held[n] = <<>> /\ Intact(n)
      BY <2>1, <2>4 DEF ReceiveData, Readable, ConnectionPhases, HeldWhileDelivering, Intact
    <3>2. held'[n] = <<Received(Head(inbox[n]))>> /\ inbox'[n] = Tail(inbox[n])
      BY <2>4, <3>1 DEF ReceiveData, TypeOK
    <3>3. Line(n)' = Line(n)
      <4>1. delivered[n] \in Seq(Datagram) /\ Left(inbox[n]) \in Seq(Datagram)
        BY LeftType DEF TypeOK
      <4>2. delivered'[n] = delivered[n]
        BY <2>4 DEF ReceiveData
      <4>3. /\ Left(inbox[n]) # <<>>
            /\ Received(Head(inbox[n])) = Head(Left(inbox[n]))
            /\ Left(inbox[n])' = Tail(Left(inbox[n]))
        BY <2>1, <3>1, <3>2, LeftHeadTail DEF TypeOK
      <4>4. Line(n)' = delivered[n] \o <<Head(Left(inbox[n]))>> \o Tail(Left(inbox[n]))
        BY <3>2, <4>2, <4>3 DEF Line
      <4>5. Line(n) = delivered[n] \o <<>> \o Left(inbox[n])
        BY <3>1 DEF Line
      <4> QED
        BY <4>1, <4>3, <4>4, <4>5, LineReceive
    <3> QED
      BY <2>1, <2>4, <3>1, <3>3 DEF ReceiveData, NothingLost
  <2>5. CASE Deliver(n)
    <3>1. connection = n /\ Intact(n)
      BY <2>1, <2>5 DEF Deliver, ConnectionPhases, Intact
    <3>2. delivered'[n] = delivered[n] \o held[n] /\ held'[n] = <<>>
      BY <2>5, <3>1 DEF Deliver, TypeOK
    <3>3. Line(n)' = Line(n)
      <4>1. delivered[n] \o held[n] \in Seq(Datagram)
        BY ConcatProperties DEF TypeOK
      <4> QED
        BY <2>1, <2>5, <3>2, <4>1, ConcatEmptySeq DEF Deliver, Line
    <3>4. Line(n)' = Left(arrived[n])'
      BY <2>1, <2>5, <3>1, <3>3 DEF Deliver, NothingLost
    <3>5. IsPrefix(delivered'[n], Left(arrived[n])')
      <4>1. /\ delivered'[n] \in Seq(Datagram) /\ held'[n] \in Seq(Datagram)
            /\ Left(inbox[n])' \in Seq(Datagram)
        BY <2>1, <2>5, <3>2, ConcatProperties, EmptySeq, LeftType DEF Deliver, TypeOK
      <4> QED
        BY <3>4, <4>1, LinePrefix DEF Line
    <3>6. \A o \in Socket : o # n => delivered'[o] = delivered[o]
      BY <2>5, <3>1 DEF Deliver, TypeOK
    <3> QED
      BY <2>1, <2>5, <3>4, <3>5, <3>6 DEF Deliver, NothingLost
  <2>6. CASE DeliverRaises(n) \/ ReceiveEmpty(n)
    <3>1. ~ Intact(n)'
      BY <2>6 DEF DeliverRaises, ReceiveEmpty, Readable, Intact, TypeOK
    <3>2. UNCHANGED <<arrived, delivered>>
      BY <2>6 DEF DeliverRaises, ReceiveEmpty
    <3> QED
      BY <2>1, <3>1, <3>2 DEF NothingLost
  <2>7. CASE ReceiveClose(n)
    <3>1. Intact(n)
      BY <2>7 DEF ReceiveClose, Intact
    <3> QED
      BY <2>1, <2>7, <3>1, NothingMoves DEF ReceiveClose
  <2>8. CASE ListenerShutsDown(n)
    <3>1. Intact(n)' => Intact(n)
      BY <2>1, <2>8 DEF ListenerShutsDown, Intact, TypeOK
    <3> QED
      BY <2>1, <2>8, <3>1, NothingMoves DEF ListenerShutsDown
  <2> QED
    BY <1>6, <2>2, <2>3, <2>4, <2>5, <2>6, <2>7, <2>8 DEF ListenerStep
<1>7. CASE UNCHANGED vars
  BY <1>7, NothingMoves DEF vars, Intact
<1> QED
  BY <1>1, <1>2, <1>3, <1>4, <1>5, <1>6, <1>7 DEF Next, MainStep
-------------------------------------------------------------------------------
LEMMA Inductive == StopsFirst /\ IInv /\ [Next]_vars => IInv'
BY TypeStep, OneListenerStep, ConnectionStep, HeldStep, UntouchedStep, NothingLostStep DEF IInv

LEMMA Invariant == StopsFirst /\ Spec => []IInv
<1>1. ASSUME StopsFirst PROVE Spec => []IInv
  BY <1>1, InitIInv, Inductive, PTL DEF Spec
<1> QED
  BY <1>1

\* stop() leaves no listener behind, whatever peer and callers do: parties that
\* are restarted never share their fields with a thread of their past.
THEOREM StopLeavesNone == StopsFirst /\ Spec => []StopQuiesces
<1>1. IInv => StopQuiesces
  BY SocketAssumption DEF IInv, TypeOK, OneListener, StopQuiesces, Live, Socket
<1> QED
  BY <1>1, Invariant, PTL

\* Whichever thread makes the connection, both use the one of the present socket,
\* and send() has one when its assertion asks for it.
THEOREM ConnectionsCurrent == StopsFirst /\ Spec => []ConnectionIsCurrent
<1>1. IInv => ConnectionIsCurrent
  BY DEF IInv, ConnectionPhases, ConnectionIsCurrent
<1> QED
  BY <1>1, Invariant, PTL

\* What the buffer leaves of all that arrives at a socket is handed over in order and
\* once, and is lost only with the listener; over TCP it leaves everything.
THEOREM AllDeliveredInOrder == StopsFirst /\ Spec => []DeliveredInOrder
<1>1. ASSUME IInv PROVE DeliveredInOrder
  <2>1. ASSUME NEW n \in Socket, running, n = connection
        PROVE  n = sock /\ Intact(n)
    BY <1>1, <2>1 DEF IInv, ConnectionPhases, Intact, Socket
  <2> QED
    BY <1>1, <2>1 DEF IInv, NothingLost, Line, DeliveredInOrder
<1> QED
  BY <1>1, Invariant, PTL
===============================================================================
