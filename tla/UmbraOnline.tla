------------------------------ MODULE UmbraOnline ------------------------------
(***************************************************************************)
(* The online session of the umbra device (kernel/umbra.c, net.c).  The    *)
(* main thread carries out the game's commands; a sender and a receiver    *)
(* thread per connection, and a listener for datagrams to a fixed port,    *)
(* exchange states with it through mailboxes of one slot.                  *)
(*                                                                         *)
(* The threads have a higher priority than the main loop and do not        *)
(* preempt each other: what one does between two calls that block is one   *)
(* step, and the main thread can be interrupted anywhere.  The network     *)
(* module of IOS carries out one vectored call (send, receive) at a time,  *)
(* in order, a receive that finds nothing included (net.c:328-331).        *)
(***************************************************************************)
EXTENDS Naturals, Sequences, FiniteSets

CONSTANTS
    MaxSessions,   \* connections the game makes; 0 is no connection
    HastyLeave     \* may the game disconnect within 100 ms of a failed receive?

ASSUME UmbraOnlineAssumption == MaxSessions \in Nat /\ HastyLeave \in BOOLEAN

Session == 1 .. MaxSessions
NoSocket == 0
Sockets == Session \cup {NoSocket}
\* One half of a state in out_buf: the connection it was written in, and which of two
\* states written one after the other it is of.  Of what came in only the
\* connection is kept: nothing promises the game a state in one piece.
Half == Sockets \X {0, 1}

Main == <<"main", 0>>
Listener == <<"listener", 0>>
Sender(s) == <<"sender", s>>
Receiver(s) == <<"receiver", s>>
Callers == {Main, Listener} \cup ({"sender", "receiver"} \X Session)

VARIABLES
    main,                \* where the main thread is; "idle" between commands
    sock, active,        \* umbra_online_sock, umbra_online_active
    used,                \* connections made so far
    out_buf, out_ready,  \* mailbox to the sender
    in_buf, in_ready,    \* mailbox from the receiver
    recv_ready,          \* mailbox from the listener
    sender, receiver,    \* the threads of each connection
    listener,
    queue,               \* vectored calls the network module has; it works on the first
    inbox, udp,          \* datagrams that wait for a connection, for the listener
    overrun,             \* was the state in out_buf written over an unsent one? (history)
    sent, got            \* the last state sent, the last one read by the game (history)

mailbox == <<out_buf, out_ready, in_buf, in_ready, recv_ready>>
network == <<inbox, udp>>
history == <<overrun, sent, got>>
vars == <<main, sock, active, used, mailbox, sender, receiver, listener, queue, network, history>>

Idle == [at |-> "none", on |-> NoSocket]

-----------------------------------------------------------------------------
(* The network module                                                      *)

Call(c) == queue' = Append(queue, c)
Serving(c) == queue # <<>> /\ Head(queue) = c
NotPopped == queue
Popped == Tail(queue)
Return == queue' = Popped

Arrives == sock # NoSocket /\ inbox' = [inbox EXCEPT ![sock] = TRUE] /\ UNCHANGED udp
ArrivesUdp == udp' = TRUE /\ UNCHANGED inbox
Arrival ==
    /\ Arrives \/ ArrivesUdp
    /\ UNCHANGED <<main, sock, active, used, mailbox, sender, receiver, listener, queue, history>>

-----------------------------------------------------------------------------
(* Commands of the game, in the main thread                                *)

\* NET_CONNECT, unless it is connected: a socket, and JOIN.
Connect ==
    /\ main = "idle" /\ sock = NoSocket /\ used < MaxSessions
    /\ main' = "join" /\ Call(Main)
    /\ UNCHANGED <<sock, active, used, mailbox, sender, receiver, listener, network, history>>

\* JOIN is out: the mailboxes are emptied and the two threads start, each only if there is
\* memory for its stack; the connection stands without it.  (Slip: the mailboxes are left as
\* they are.)
KeptReady == out_ready
EmptyReady == FALSE
Joined ==
    /\ main = "join" /\ Serving(Main)
    /\ main' = "idle"
    /\ used' = used + 1 /\ sock' = used' /\ active' = TRUE
    /\ out_ready' = EmptyReady /\ in_ready' = FALSE
    /\ sender' = [sender EXCEPT ![used'] = [at |-> "delay", on |-> NoSocket]] \/ UNCHANGED sender
    /\ \/ /\ receiver' = [receiver EXCEPT ![used'] = [at |-> "recv", on |-> used']]
          /\ queue' = Append(Popped, Receiver(used'))
       \/ UNCHANGED receiver /\ Return
    /\ UNCHANGED <<out_buf, in_buf, recv_ready, listener, network, history>>

\* NET_DISCONNECT: the threads are told, and LEAVE is sent.  
Disconnect ==
    /\ main = "idle" /\ sock # NoSocket
    /\ HastyLeave \/ receiver[sock].at # "delay"
    /\ active' = FALSE
    /\ main' = "leave" /\ Call(Main)
    /\ UNCHANGED <<sock, used, mailbox, sender, receiver, listener, network, history>>

\* LEAVE is out: the socket is closed, by a plain call that does not queue.
Left ==
    /\ main = "leave" /\ Serving(Main)
    /\ sock' = NoSocket
    /\ main' = "closed" /\ Return
    /\ UNCHANGED <<active, used, mailbox, sender, receiver, listener, network, history>>

\* mdelay(20) outlasts the sender's mdelay(5) and the calls in the module, though not the
\* receiver's mdelay(100).
Over(t) == t.at \in {"none", "gone"}
Disconnected ==
    /\ main = "closed"
    /\ \A s \in Session : Over(sender[s]) /\ (Over(receiver[s]) \/ receiver[s].at = "delay")
    /\ main' = "idle"
    /\ UNCHANGED <<sock, active, used, mailbox, sender, receiver, listener, queue, network, history>>

\* NET_STATE_WRITE: the copy, which the sender may interrupt, then the flag (slip: the flag
\* first).
FlagFirst == TRUE
FlagWhileCopying == out_ready
StateWrite ==
    /\ main = "idle" /\ sock # NoSocket
    /\ out_buf' = [out_buf EXCEPT ![1] = <<sock, 1 - out_buf[1][2]>>]
    /\ out_ready' = FlagWhileCopying
    /\ overrun' = out_ready
    /\ main' = "write"
    /\ UNCHANGED <<sock, active, used, in_buf, in_ready, recv_ready, sender, receiver, listener, queue, network, sent, got>>

StateWritten ==
    /\ main = "write"
    /\ out_buf' = [out_buf EXCEPT ![2] = out_buf[1]] /\ out_ready' = TRUE
    /\ main' = "idle"
    /\ UNCHANGED <<sock, active, used, in_buf, in_ready, recv_ready, sender, receiver, listener, queue, network, history>>

\* NET_STATE_READ: the copy, in which the receiver may put another state into the mailbox,
\* then the flag; a state that comes in between is dropped with it.
StateRead ==
    /\ main = "idle" /\ sock # NoSocket /\ in_ready
    /\ got' = [from |-> [h \in {1, 2} |-> in_buf], on |-> sock]
    /\ main' = "read"
    /\ UNCHANGED <<sock, active, used, mailbox, sender, receiver, listener, queue, network, overrun, sent>>

StateRest ==
    /\ main = "read"
    /\ got' = [got EXCEPT !.from[2] = in_buf]
    /\ main' = "copied"
    /\ UNCHANGED <<sock, active, used, mailbox, sender, receiver, listener, queue, network, overrun, sent>>

StateTaken ==
    /\ main = "copied"
    /\ in_ready' = FALSE
    /\ main' = "idle"
    /\ UNCHANGED <<sock, active, used, out_buf, out_ready, in_buf, recv_ready, sender, receiver, listener, queue, network, history>>

\* NET_RECV: the listener's datagram.
NetRecv ==
    /\ main = "idle" /\ recv_ready
    /\ recv_ready' = FALSE
    /\ UNCHANGED <<main, sock, active, used, out_buf, out_ready, in_buf, in_ready, sender, receiver, listener, queue, network, history>>

\* NET_SEND: a datagram by itself, on a socket of its own.
NetSend ==
    /\ main = "idle"
    /\ main' = "send" /\ Call(Main)
    /\ UNCHANGED <<sock, active, used, mailbox, sender, receiver, listener, network, history>>

NetSent ==
    /\ main = "send" /\ Serving(Main)
    /\ main' = "idle" /\ Return
    /\ UNCHANGED <<sock, active, used, mailbox, sender, receiver, listener, network, history>>

-----------------------------------------------------------------------------
(* Threads                                                                 *)

\* The sender wakes every 5 ms.  net_sendto copies the buffer, and queues.
SenderWakes(s) ==
    /\ sender[s].at = "delay"
    /\ \/ /\ ~active
          /\ sender' = [sender EXCEPT ![s] = [at |-> "gone", on |-> NoSocket]]
          /\ UNCHANGED <<queue, sent>>
       \/ /\ active /\ out_ready
          /\ sender' = [sender EXCEPT ![s] = [at |-> "send", on |-> sock]]
          /\ sent' = [state |-> out_buf, on |-> sock, overrun |-> overrun]
          /\ Call(Sender(s))
    /\ UNCHANGED <<main, sock, active, used, mailbox, receiver, listener, network, overrun, got>>

\* Sent, or refused on a closed socket: the mailbox counts as empty, whatever it holds by now.
SenderSent(s) ==
    /\ sender[s].at = "send" /\ Serving(Sender(s))
    /\ sender' = [sender EXCEPT ![s] = [at |-> "delay", on |-> NoSocket]]
    /\ out_ready' = FALSE
    /\ Return
    /\ UNCHANGED <<main, sock, active, used, out_buf, in_buf, in_ready, recv_ready, receiver, listener, network, history>>

\* The receiver has a datagram, puts it into the mailbox and, while active, receives on.
ReceiverGets(s) ==
    /\ receiver[s].at = "recv" /\ Serving(Receiver(s))
    /\ receiver[s].on = sock /\ inbox[sock]
    /\ inbox' = [inbox EXCEPT ![sock] = FALSE]
    /\ in_buf' = sock /\ in_ready' = TRUE
    /\ IF active
       THEN queue' = Append(Popped, Receiver(s)) /\ UNCHANGED receiver
       ELSE receiver' = [receiver EXCEPT ![s] = [at |-> "gone", on |-> NoSocket]] /\ Return
    /\ UNCHANGED <<main, sock, active, used, out_buf, out_ready, recv_ready, sender, listener, udp, history>>

\* Its receive fails, perhaps because the socket was closed: it ends, or waits for 100 ms
\* (slip: it always waits).
AlwaysWaits == "delay"
AfterError == IF active THEN "delay" ELSE "gone"
ReceiverFails(s) ==
    /\ receiver[s].at = "recv" /\ Serving(Receiver(s))
    /\ receiver' = [receiver EXCEPT ![s] = [at |-> AfterError, on |-> NoSocket]]
    /\ Return
    /\ UNCHANGED <<main, sock, active, used, mailbox, sender, listener, network, history>>

ReceiverWakes(s) ==
    /\ receiver[s].at = "delay"
    /\ IF active
       THEN receiver' = [receiver EXCEPT ![s] = [at |-> "recv", on |-> sock]] /\ Call(Receiver(s))
       ELSE receiver' = [receiver EXCEPT ![s] = [at |-> "gone", on |-> NoSocket]] /\ UNCHANGED queue
    /\ UNCHANGED <<main, sock, active, used, mailbox, sender, listener, network, history>>

\* The listener receives only what net_poll, a plain call, has announced (slip: it receives
\* at once).
Unannounced == TRUE
Announced == udp
ListenerPolls ==
    /\ listener = "poll" /\ Announced
    /\ listener' = "recv" /\ Call(Listener)
    /\ UNCHANGED <<main, sock, active, used, mailbox, sender, receiver, network, history>>

ListenerGets ==
    /\ listener = "recv" /\ Serving(Listener) /\ udp
    /\ udp' = FALSE /\ recv_ready' = TRUE
    /\ listener' = "poll" /\ Return
    /\ UNCHANGED <<main, sock, active, used, out_buf, out_ready, in_buf, in_ready, sender, receiver, inbox, history>>

-----------------------------------------------------------------------------

Init ==
    /\ main = "idle" /\ sock = NoSocket /\ active = FALSE /\ used = 0
    /\ out_buf = [h \in {1, 2} |-> <<NoSocket, 0>>] /\ out_ready = FALSE
    /\ in_buf = NoSocket /\ in_ready = FALSE /\ recv_ready = FALSE
    /\ sender = [s \in Session |-> Idle] /\ receiver = [s \in Session |-> Idle]
    /\ listener = "poll" /\ queue = <<>>
    /\ inbox = [s \in Session |-> FALSE] /\ udp = FALSE
    /\ overrun = FALSE
    /\ sent = [state |-> out_buf, on |-> NoSocket, overrun |-> FALSE]
    /\ got = [from |-> [h \in {1, 2} |-> NoSocket], on |-> NoSocket]

Game == Connect \/ Disconnect \/ StateWrite \/ StateRead \/ NetRecv \/ NetSend
MainGoesOn == Joined \/ Left \/ Disconnected \/ StateWritten \/ StateRest \/ StateTaken \/ NetSent
Threads ==
    \/ \E s \in Session : SenderWakes(s) \/ SenderSent(s)
    \/ \E s \in Session : ReceiverGets(s) \/ ReceiverFails(s) \/ ReceiverWakes(s)
    \/ ListenerPolls \/ ListenerGets

Next == Game \/ MainGoesOn \/ Threads \/ Arrival

\* The threads run, delays end and the network module serves what it can.  Nobody is
\* obliged to send a datagram, and the game to issue a command.
Fairness ==
    /\ WF_vars(MainGoesOn) /\ WF_vars(ListenerPolls) /\ WF_vars(ListenerGets)
    /\ \A s \in Session :
        /\ WF_vars(SenderWakes(s)) /\ WF_vars(SenderSent(s)) /\ WF_vars(ReceiverGets(s))
        /\ WF_vars(receiver[s].on # sock /\ ReceiverFails(s)) /\ WF_vars(ReceiverWakes(s))

Spec == Init /\ [][Next]_vars /\ Fairness

-----------------------------------------------------------------------------
(* Properties                                                              *)

Thread(places) == [at : places, on : Sockets]

Typed ==
    /\ main \in {"idle", "join", "leave", "closed", "write", "read", "copied", "send"}
    /\ sock \in Sockets /\ active \in BOOLEAN /\ used \in 0 .. MaxSessions
    /\ out_buf \in [{1, 2} -> Half] /\ out_ready \in BOOLEAN
    /\ in_buf \in Sockets /\ in_ready \in BOOLEAN /\ recv_ready \in BOOLEAN
    /\ sender \in [Session -> Thread({"none", "delay", "send", "gone"})]
    /\ receiver \in [Session -> Thread({"none", "recv", "delay", "gone"})]
    /\ listener \in {"poll", "recv"}
    /\ inbox \in [Session -> BOOLEAN] /\ udp \in BOOLEAN

HasRead == got \in [from : [{1, 2} -> Sockets], on : Sockets]

\* The network module has at most one call of each thread.
TypeOK ==
    /\ Typed /\ HasRead
    /\ queue \in Seq(Callers) /\ \A i, j \in DOMAIN queue : queue[i] = queue[j] => i = j

\* However soon the game connects again, the threads of the old connection are gone: never do
\* two receive into the mailbox, or two send from it (umbra.c:338: mdelay(20)).  It fails if
\* HastyLeave: mdelay(100) outlasts mdelay(20).
OneReceiver ==
    \A r, s \in Session : r # s => (Over(receiver[r]) \/ Over(receiver[s])) /\ (Over(sender[r]) \/ Over(sender[s]))

\* A connection starts empty: what is sent on it was written in it, and what the
\* game reads from it was received on it, of however many states its bytes are.
SessionFresh ==
    \A h \in {1, 2} : sent.state[h][1] = sent.on /\ got.from[h] = got.on

\* A state written to an empty mailbox is sent whole.  (One written over a state
\* that waits for the sender may be sent half and half.)
SentWhole == ~sent.overrun => sent.state[1] = sent.state[2]

\* net.c:328: the listener never keeps the network module from others; without a connection a
\* datagram of the game's always goes out and the main loop goes on.
SendEnds == main = "send" /\ sock = NoSocket ~> main = "idle"

\* umbra.c:334: "Close socket": the main thread gets past LEAVE to close the socket,
\* which "unblocks the receiver thread's recvfrom".
LeaveEnds == main = "leave" ~> main = "closed"
=============================================================================
