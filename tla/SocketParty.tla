------------------------------ MODULE SocketParty ------------------------------
(***************************************************************************)
(* class UdpTcpProtocolImplementation (src/fandango/io/__init__.py): the   *)
(* thread that owns the party starts and stops it and sends through it;    *)
(* each start() spawns a listener thread; both share _running, _connection *)
(* and _sock without a lock, and _lock only guards making the connection.  *)
(* Over TCP the peer connects, sends and closes when it likes, and the     *)
(* network keeps its messages in order.  Over UDP a datagram that was sent *)
(* to the party's address may arrive late, more than once, or never, and   *)
(* of one that is longer than the buffer the end is lost.                  *)
(*                                                                         *)
(* The n-th start() creates socket n; a connection made through socket n   *)
(* is connection n, and its peer is peer n; 0 is None.                     *)
(***************************************************************************)
EXTENDS Integers, Sequences, SequencesExt

CONSTANTS Protocols,    \* "TCP", "UDP"
          Modes,        \* connection modes: "OPEN" (server), "CONNECT" (client)
          StopsFirst,   \* whether start() is only called before or after a stop()
          Message,      \* what the peer may send
          Cut,          \* Cut[m]: the first BUFFER_SIZE_UDP bytes of message m
          Empty,        \* a datagram without data
          MaxStart,     \* bound on the calls of start()
          MaxArrived    \* bound on what arrives at a socket

ASSUME SocketAssumption ==
    /\ Protocols \subseteq {"TCP", "UDP"}
    /\ Modes \subseteq {"OPEN", "CONNECT"}
    /\ StopsFirst \in BOOLEAN
    /\ Empty \notin Message
    /\ MaxStart \in Nat \ {0} /\ MaxArrived \in Nat

\* Cutting leaves something, and what it leaves fits.
ASSUME CutAssumption ==
    Cut \in [Message -> Message] /\ \A m \in Message : Cut[Cut[m]] = Cut[m]

Socket == 1..MaxStart
Datagram == Socket \X (Message \union {Empty})     \* who sent it, and what

VARIABLES
    protocol,       \* _protocol_type
    mode,           \* connection_mode
    running,        \* _running
    sock,           \* _sock
    connection,     \* _connection
    remote_addr,    \* current_remote_addr: the sender of the last datagram
    send_thread,    \* _send_thread: the listener that stop() joins
    lock,           \* _lock: "free" or "held"
    main,           \* where the owning thread is
    starts,         \* number of calls of start() so far
    listener,       \* listener[n]: where the n-th listener thread is
    held,           \* held[n]: the message it has received and not handed over
    peer,           \* peer[n]: the peer's end of connection n
    inbox,          \* inbox[n]: what has arrived at socket n and nobody has received
    arrived,        \* arrived[n]: all that has arrived at socket n
    delivered       \* delivered[n]: what the party got through socket n

vars == <<protocol, mode, running, sock, connection, remote_addr, send_thread, lock, main,
          starts, listener, held, peer, inbox, arrived, delivered>>
config == <<protocol, mode>>
own == <<config, running, sock, connection, remote_addr, send_thread, starts>>
world == <<peer, inbox, arrived, delivered>>

TypeOK ==
    /\ protocol \in Protocols /\ mode \in Modes /\ running \in BOOLEAN
    /\ sock \in 0..MaxStart /\ connection \in 0..MaxStart /\ remote_addr \in 0..MaxStart
    /\ send_thread \in 0..MaxStart /\ starts \in 0..MaxStart
    /\ lock \in {"free", "held"}
    /\ main \in {"idle", "sending", "accepting", "connected", "joining", "raised"}
    /\ listener \in [Socket -> {"none", "waiting", "accepting", "looping",
                                "delivering", "closing", "ended"}]
    /\ held \in [Socket -> Seq(Datagram)]
    /\ peer \in [Socket -> {"none", "connecting", "open", "closed"}]
    /\ inbox \in [Socket -> Seq(Datagram)] /\ arrived \in [Socket -> Seq(Datagram)]
    /\ delivered \in [Socket -> Seq(Datagram)]

Live(n) == listener[n] \notin {"none", "ended"}
-------------------------------------------------------------------------------
(* start() and stop().                                                     *)

\* Binding fails while the listening socket of an earlier start() is open; over UDP
\* SO_REUSEADDR lets both be bound, and datagrams come to the later one.
Start ==
    /\ main = "idle" /\ ~ running
    /\ starts < MaxStart
    /\ StopsFirst => sock = 0
    /\ starts' = starts + 1
    /\ sock' = starts + 1
    /\ IF mode = "OPEN" /\ protocol = "TCP" /\ sock # 0
       THEN main' = "raised" /\ UNCHANGED <<running, send_thread, listener>>
       ELSE /\ running' = TRUE
            /\ send_thread' = starts + 1
            /\ listener' = [listener EXCEPT ![starts + 1] = "waiting"]
            /\ main' = main
    /\ UNCHANGED <<config, connection, remote_addr, lock, held, world>>

\* Mutant: _running stays set.
StopKeepsRunning ==
    /\ main = "idle"
    /\ main' = "joining"
    /\ UNCHANGED <<own, lock, listener, held, world>>

Stop ==
    /\ main = "idle"
    /\ running' = FALSE
    /\ main' = "joining"
    /\ UNCHANGED <<config, sock, connection, remote_addr, send_thread, lock, starts, listener,
                   held, world>>

\* Both sockets are closed.  A peer hears of it over TCP only.
ClosesSockets ==
    LET closed == {connection, sock} IN
    /\ peer' = [n \in Socket |->
                   IF n \in closed /\ protocol = "TCP" THEN "closed" ELSE peer[n]]
    /\ inbox' = [n \in Socket |-> IF n \in closed THEN <<>> ELSE inbox[n]]

\* Mutants: the listener is not joined; _connection is not reset.
JoinedAtOnce ==
    /\ main = "joining"
    /\ send_thread' = 0 /\ connection' = 0 /\ sock' = 0
    /\ main' = "idle"
    /\ UNCHANGED <<config, running, remote_addr, lock, starts, listener, held, world>>

JoinedKeepsConnection ==
    /\ main = "joining"
    /\ send_thread # 0 => listener[send_thread] = "ended"
    /\ send_thread' = 0 /\ sock' = 0
    /\ ClosesSockets
    /\ main' = "idle"
    /\ UNCHANGED <<config, running, connection, remote_addr, lock, starts, listener, held,
                   arrived, delivered>>

\* The listener has been joined.  Where to answer (current_remote_addr) is not forgotten.
Joined ==
    /\ main = "joining"
    /\ send_thread # 0 => listener[send_thread] = "ended"
    /\ send_thread' = 0 /\ connection' = 0 /\ sock' = 0
    /\ ClosesSockets
    /\ main' = "idle"
    /\ UNCHANGED <<config, running, remote_addr, lock, starts, listener, held, arrived,
                   delivered>>
-------------------------------------------------------------------------------
(* _wait_accept(), called by the listener and by send().                   *)

\* A connection is there already, or the lock is taken to make one.  A client
\* asks for it at once, and may be refused: the OSError leaves the lock, as the
\* assertion does when there is no socket.  Over UDP the socket will do.
EnterAccept(next) ==
    /\ lock = "free"
    /\ \/ /\ next = "connected"
          /\ connection # 0 \/ (protocol = "UDP" /\ sock # 0)
          /\ connection' = IF connection # 0 THEN connection ELSE sock
          /\ UNCHANGED <<lock, peer>>
       \/ /\ next = "accepting" /\ connection = 0 /\ sock # 0 /\ protocol = "TCP"
          /\ lock' = "held"
          /\ peer' = [peer EXCEPT ![sock] =
                         IF mode = "CONNECT" /\ @ = "none" THEN "connecting" ELSE @]
          /\ UNCHANGED connection
       \/ /\ next = "failed" /\ connection = 0
          /\ sock # 0 => protocol = "TCP" /\ mode = "CONNECT" /\ peer[sock] = "none"
          /\ UNCHANGED <<lock, peer, connection>>

\* while self._running: ... select() ... break.  stop() may come between the test
\* and the select().
LeaveAccept ==
    /\ lock' = "free"
    /\ \/ ~ running /\ connection' = connection
       \/ peer[sock] \notin {"none", "connecting"} /\ connection' = sock

ListenerWaits(n) ==
    /\ listener[n] = "waiting"
    /\ \/ EnterAccept("connected")
          /\ listener' = [listener EXCEPT ![n] = IF running THEN "looping" ELSE "ended"]
       \/ EnterAccept("accepting") /\ listener' = [listener EXCEPT ![n] = "accepting"]
       \/ EnterAccept("failed") /\ listener' = [listener EXCEPT ![n] = "ended"]
    /\ UNCHANGED <<config, running, sock, remote_addr, send_thread, starts, main, held,
                   inbox, arrived, delivered>>

\* Mutant: the test of _running is the wrong way round.
ListenerAcceptsInverted(n) ==
    /\ listener[n] = "accepting"
    /\ LeaveAccept
    /\ listener' = [listener EXCEPT ![n] = IF running THEN "ended" ELSE "looping"]
    /\ UNCHANGED <<config, running, sock, remote_addr, send_thread, starts, main, held, world>>

ListenerAccepts(n) ==
    /\ listener[n] = "accepting"
    /\ LeaveAccept
    /\ listener' = [listener EXCEPT ![n] = IF running THEN "looping" ELSE "ended"]
    /\ UNCHANGED <<config, running, sock, remote_addr, send_thread, starts, main, held, world>>
-------------------------------------------------------------------------------
(* send(), by the owning thread.                                           *)

Send ==
    /\ main = "idle"
    /\ main' = IF running THEN "sending" ELSE "raised"
    /\ UNCHANGED <<own, lock, listener, held, world>>

SendWaits ==
    /\ main = "sending"
    /\ \/ EnterAccept("connected") /\ main' = "connected"
       \/ EnterAccept("accepting") /\ main' = "accepting"
       \/ EnterAccept("failed") /\ main' = "raised"
    /\ UNCHANGED <<config, running, sock, remote_addr, send_thread, starts, listener, held,
                   inbox, arrived, delivered>>

SendAccepts ==
    /\ main = "accepting"
    /\ LeaveAccept
    /\ main' = "connected"
    /\ UNCHANGED <<config, running, sock, remote_addr, send_thread, starts, listener, held,
                   world>>

\* sendall() and sendto().  They fail when the assertion does, and may when the
\* peer is gone; a UDP server has nobody to send to before it has received
\* something, and a client's first datagram tells the peer the client's address.
Connected ==
    /\ connection # 0
    /\ IF protocol = "TCP" THEN peer[connection] = "open"
       ELSE mode = "OPEN" => remote_addr # 0

SendAll ==
    /\ main = "connected"
    /\ \/ /\ main' = "idle"
          /\ connection # 0 /\ (protocol = "UDP" => Connected)
          /\ peer' = [peer EXCEPT ![connection] =
                         IF protocol = "UDP" /\ mode = "CONNECT" /\ @ = "none"
                         THEN "connecting" ELSE @]
       \/ /\ main' = "raised" /\ ~ Connected
          /\ UNCHANGED peer
    /\ UNCHANGED <<own, lock, listener, held, inbox, arrived, delivered>>
-------------------------------------------------------------------------------
(* _listen(), by the n-th listener thread.                                 *)

ListenerEnds(n) ==
    /\ listener[n] = "looping"
    /\ ~ running
    /\ listener' = [listener EXCEPT ![n] = "ended"]
    /\ UNCHANGED <<own, lock, main, held, world>>

\* There is data for this listener to read.
Readable(n) ==
    /\ listener[n] = "looping" /\ running
    /\ connection # 0 /\ inbox[connection] # <<>>

\* What recv() and recvfrom() make of what has arrived: a stream is read on from
\* where the buffer ended, the rest of a datagram is thrown away.
Received(d) ==
    IF protocol = "UDP" /\ d[2] # Empty THEN <<d[1], Cut[d[2]]>> ELSE d

\* Mutant: what is received stays in the socket.
ReceiveDataPeeks(n) ==
    /\ Readable(n) /\ Head(inbox[connection])[2] # Empty
    /\ held' = [held EXCEPT ![n] = <<Received(Head(inbox[connection]))>>]
    /\ listener' = [listener EXCEPT ![n] = "delivering"]
    /\ UNCHANGED <<own, lock, main, world>>

\* The sender of a datagram becomes the one to answer before the party has the
\* datagram.
ReceiveData(n) ==
    /\ Readable(n) /\ Head(inbox[connection])[2] # Empty
    /\ held' = [held EXCEPT ![n] = <<Received(Head(inbox[connection]))>>]
    /\ inbox' = [inbox EXCEPT ![connection] = Tail(inbox[connection])]
    /\ remote_addr' = IF protocol = "UDP" THEN Head(inbox[connection])[1] ELSE remote_addr
    /\ listener' = [listener EXCEPT ![n] = "delivering"]
    /\ UNCHANGED <<config, running, sock, connection, send_thread, starts, lock, main,
                   peer, arrived, delivered>>

\* self._party_instance.receive(data, None).  How recv() cuts the stream into
\* pieces makes no difference to the fragments that FandangoIO stores.
Deliver(n) ==
    /\ listener[n] = "delivering"
    /\ delivered' = [delivered EXCEPT ![connection] = @ \o held[n]]
    /\ held' = [held EXCEPT ![n] = <<>>]
    /\ listener' = [listener EXCEPT ![n] = "looping"]
    /\ UNCHANGED <<own, lock, main, peer, inbox, arrived>>

\* ... which may raise, as when the sender cannot be determined.
DeliverRaises(n) ==
    /\ listener[n] = "delivering"
    /\ running' = FALSE
    /\ held' = [held EXCEPT ![n] = <<>>]
    /\ listener' = [listener EXCEPT ![n] = "ended"]
    /\ UNCHANGED <<config, sock, connection, remote_addr, send_thread, starts, lock, main, world>>

\* No data: the peer has closed or refused, or this connection was shut down by
\* an earlier close.  receive(None) raises unless the party overrides it; an exception only
\* ends the thread.
ReceiveClose(n) ==
    /\ protocol = "TCP"
    /\ listener[n] = "looping" /\ running
    /\ connection # 0 /\ inbox[connection] = <<>> /\ peer[connection] = "closed"
    /\ running' = FALSE
    /\ \E next \in {"closing", "ended"} : listener' = [listener EXCEPT ![n] = next]
    /\ UNCHANGED <<config, sock, connection, remote_addr, send_thread, starts, lock, main,
                   held, world>>

\* A datagram without data is taken for a close; once stop() has begun it is handed
\* over, which adds nothing to the buffer.
ReceiveEmpty(n) ==
    /\ protocol = "UDP" /\ Readable(n) /\ Head(inbox[connection])[2] = Empty
    /\ inbox' = [inbox EXCEPT ![connection] = Tail(inbox[connection])]
    /\ remote_addr' = Head(inbox[connection])[1]
    /\ running' = FALSE
    /\ \E next \in {"closing", "ended"} : listener' = [listener EXCEPT ![n] = next]
    /\ UNCHANGED <<config, sock, connection, send_thread, starts, lock, main, held, peer,
                   arrived, delivered>>

\* shutdown() of the connection, which may raise and does so over UDP; otherwise
\* the loop looks at _running once more.
ListenerShutsDown(n) ==
    /\ listener[n] = "closing"
    /\ \/ /\ protocol = "TCP"
          /\ running' = running /\ listener' = [listener EXCEPT ![n] = "looping"]
       \/ running' = FALSE /\ listener' = [listener EXCEPT ![n] = "ended"]
    /\ UNCHANGED <<config, sock, connection, remote_addr, send_thread, starts, lock, main,
                   held, world>>
-------------------------------------------------------------------------------
(* The peer and the network.                                               *)

\* A client of ours connects, or a server of ours is reached: over UDP, by a
\* peer that knows where to send.
PeerConnects(n) ==
    /\ n = sock
    /\ peer[n] = IF mode = "OPEN" THEN "none" ELSE "connecting"
    /\ peer' = [peer EXCEPT ![n] = "open"]
    /\ UNCHANGED <<own, lock, main, listener, held, inbox, arrived, delivered>>

PeerRefuses(n) ==
    /\ protocol = "TCP" /\ peer[n] = "connecting"
    /\ peer' = [peer EXCEPT ![n] = "closed"]
    /\ UNCHANGED <<own, lock, main, listener, held, inbox, arrived, delivered>>

\* TCP: what is sent arrives.
PeerSends(n, m) ==
    /\ protocol = "TCP" /\ peer[n] = "open"
    /\ Len(arrived[n]) < MaxArrived
    /\ arrived' = [arrived EXCEPT ![n] = Append(arrived[n], <<n, m>>)]
    /\ inbox' = [inbox EXCEPT ![n] = Append(inbox[n], <<n, m>>)]
    /\ UNCHANGED <<own, lock, main, listener, held, peer, delivered>>

PeerCloses(n) ==
    /\ protocol = "TCP" /\ peer[n] = "open"
    /\ peer' = [peer EXCEPT ![n] = "closed"]
    /\ UNCHANGED <<own, lock, main, listener, held, inbox, arrived, delivered>>

\* UDP: what a peer has sent may arrive, once or more, at the socket that is bound
\* to the address: a server keeps its address when it is started again, a client
\* gets another one.
DatagramArrives(n, d) ==
    /\ protocol = "UDP" /\ n = sock
    /\ peer[d[1]] = "open"
    /\ mode = "CONNECT" => d[1] = n
    /\ Len(arrived[n]) < MaxArrived
    /\ arrived' = [arrived EXCEPT ![n] = Append(arrived[n], d)]
    /\ inbox' = [inbox EXCEPT ![n] = Append(inbox[n], d)]
    /\ UNCHANGED <<own, lock, main, listener, held, peer, delivered>>
-------------------------------------------------------------------------------
Init ==
    /\ protocol \in Protocols /\ mode \in Modes
    /\ running = FALSE
    /\ sock = 0 /\ connection = 0 /\ remote_addr = 0 /\ send_thread = 0 /\ starts = 0
    /\ lock = "free" /\ main = "idle"
    /\ listener = [n \in Socket |-> "none"]
    /\ held = [n \in Socket |-> <<>>]
    /\ peer = [n \in Socket |-> "none"]
    /\ inbox = [n \in Socket |-> <<>>] /\ arrived = [n \in Socket |-> <<>>]
    /\ delivered = [n \in Socket |-> <<>>]

ListenerStep(n) ==
    \/ ListenerWaits(n) \/ ListenerAccepts(n) \/ ListenerEnds(n)
    \/ ReceiveData(n) \/ Deliver(n) \/ DeliverRaises(n)
    \/ ReceiveClose(n) \/ ReceiveEmpty(n) \/ ListenerShutsDown(n)

MainStep == SendWaits \/ SendAccepts \/ SendAll \/ Joined

PeerStep ==
    \E n \in Socket : \/ PeerConnects(n) \/ PeerRefuses(n) \/ PeerCloses(n)
                      \/ \E m \in Message : PeerSends(n, m)
                      \/ \E d \in Datagram : DatagramArrives(n, d)

Next == Start \/ Stop \/ Send \/ MainStep \/ PeerStep \/ \E n \in Socket : ListenerStep(n)

Spec == Init /\ [][Next]_vars

\* Threads that can go on do; neither the peer nor the caller has to.
FairSpec ==
    /\ Spec
    /\ WF_vars(MainStep)
    /\ \A n \in Socket : WF_vars(ListenerStep(n))
-------------------------------------------------------------------------------
(* Properties.                                                             *)

\* When stop() has returned no listener is left: none that hands over anything
\* of the old connection, none that clears _running under the next start().
StopQuiesces == sock = 0 /\ main = "idle" => ~ running /\ \A n \in Socket : ~ Live(n)

\* The connection in use was made through the present socket; and send() never
\* gets past _wait_accept() without one, which its assertion says.
ConnectionIsCurrent ==
    /\ connection \in {0, sock}
    /\ main = "connected" => connection # 0

\* What the buffer leaves of a line of datagrams, or of a stream.
Left(line) == [i \in DOMAIN line |-> Received(line[i])]

\* Through each socket the party gets what the buffer leaves of all that arrives
\* there, in order and once; nothing more is lost before the party is stopped.
DeliveredInOrder ==
    \A n \in Socket :
        /\ IsPrefix(delivered[n], Left(arrived[n]))
        /\ running /\ n = connection =>
              delivered[n] \o held[n] \o Left(inbox[n]) = Left(arrived[n])

\* "Listens for incoming messages and forwards them to the party instance": the
\* party gets the messages that arrive.  It does not hold over UDP, where the end of
\* a long datagram is lost.
DeliveredWhole ==
    \A n \in Socket : IsPrefix(delivered[n], arrived[n])

\* stop() returns whatever the peer does.
StopReturns == main = "joining" ~> main = "idle"

\* What arrives at a server is forwarded to the party unless the party is
\* stopped, or ended by its peer's close or an exception.
ServerForwards ==
    \A n \in Socket :
        mode = "OPEN" /\ inbox[n] # <<>> ~> inbox[n] = <<>> \/ ~ running

\* A server answers a peer of the present start().  It does not hold over UDP:
\* the address to answer survives stop().
AnswersPresentPeer ==
    protocol = "UDP" /\ mode = "OPEN" /\ main = "connected" => remote_addr \in {0, sock}
===============================================================================
