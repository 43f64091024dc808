--------------------------- MODULE UmbraOnlineProofs ---------------------------
(***************************************************************************)
(* For any number of connections of the online session: the network module *)
(* has one call of each thread, what is sent and read belongs to the       *)
(* connection, a state written to an empty mailbox is sent whole, and, if  *)
(* the game does not leave within 100 ms of a failed receive, never do two *)
(* connections have threads.                                               *)
(***************************************************************************)
EXTENDS UmbraOnline, TLAPS

\* Who has a call in the network module waits for it.
Waits(c) ==
    /\ c = Main => main \in {"join", "leave", "send"}
    /\ c = Listener => listener = "recv"
    /\ \A s \in Session :
        /\ c = Sender(s) => sender[s].at = "send"
        /\ c = Receiver(s) => receiver[s].at = "recv"
Queued == \A i \in DOMAIN queue : Waits(queue[i])

\* The socket is that of the last connection, which is active up to LEAVE; later connections
\* have no threads yet.
Connected ==
    /\ sock \in {NoSocket, used}
    /\ main = "join" => sock = NoSocket /\ used < MaxSessions
    /\ main = "closed" => sock = NoSocket
    /\ main \in {"leave", "write", "read"} => sock # NoSocket
    /\ active <=> sock # NoSocket /\ main # "leave"
    /\ \A s \in Session : s > used => sender[s].at = "none" /\ receiver[s].at = "none"

\* A full mailbox holds states of this connection, and an undisturbed one a whole state.
Filled ==
    /\ out_ready /\ sock # NoSocket => out_buf[1][1] = sock /\ out_buf[2][1] = sock
    /\ main = "write" => out_buf[1][1] = sock
    /\ in_ready /\ sock # NoSocket => in_buf = sock
    /\ main = "read" => in_buf = sock /\ got.on = sock
    /\ out_ready /\ ~overrun => out_buf[1] = out_buf[2]

Base == TypeOK /\ Queued /\ Connected /\ Filled

\* Only the last connection has threads, none after the wait that follows LEAVE; and a
\* receiver that was told to end does not start a delay.
Alone ==
    /\ \A s \in Session :
        s # used \/ (sock = NoSocket /\ main # "closed") => Over(sender[s]) /\ Over(receiver[s])
    /\ ~active => \A s \in Session : receiver[s].at # "delay"

IInv == Base /\ Alone /\ SessionFresh /\ SentWhole

-----------------------------------------------------------------------------
(* The queue                                                               *)

Distinct(q) == \A i, j \in DOMAIN q : q[i] = q[j] => i = j

\* The names of the threads differ.
LEMMA Names ==
    /\ Main \in Callers /\ Listener \in Callers /\ Main # Listener
    /\ \A s \in Session :
        /\ Sender(s) \in Callers /\ Receiver(s) \in Callers
        /\ Sender(s) # Main /\ Sender(s) # Listener /\ Receiver(s) # Main /\ Receiver(s) # Listener
        /\ \A r \in Session : Sender(s) # Receiver(r) /\ (Sender(r) = Sender(s) => r = s)
                              /\ (Receiver(r) = Receiver(s) => r = s)
BY DEF Main, Listener, Sender, Receiver, Callers

\* A call of someone who has none joins the others.
LEMMA Joins ==
    ASSUME NEW q \in Seq(Callers), Distinct(q), NEW c \in Callers, \A i \in DOMAIN q : q[i] # c
    PROVE  /\ Append(q, c) \in Seq(Callers) /\ Distinct(Append(q, c))
           /\ \A k \in DOMAIN Append(q, c) :
                Append(q, c)[k] = c \/ \E i \in DOMAIN q : Append(q, c)[k] = q[i]
BY DEF Distinct

\* The first call leaves the others, and none of the same thread.
LEMMA Leaves ==
    ASSUME NEW q \in Seq(Callers), Distinct(q), q # <<>>
    PROVE  /\ Head(q) \in Callers /\ Head(q) = q[1] /\ 1 \in DOMAIN q
           /\ Tail(q) \in Seq(Callers) /\ Distinct(Tail(q))
           /\ \A k \in DOMAIN Tail(q) :
                Tail(q)[k] # Head(q) /\ \E i \in DOMAIN q : Tail(q)[k] = q[i]
<1>1. Head(q) = q[1] /\ 1 \in DOMAIN q /\ Head(q) \in Callers
  OBVIOUS
<1>2. ASSUME NEW k \in DOMAIN Tail(q)
      PROVE  k + 1 \in DOMAIN q /\ Tail(q)[k] = q[k + 1] /\ k \in Nat /\ k + 1 # 1
  OBVIOUS
<1>3. Tail(q) \in Seq(Callers)
  OBVIOUS
<1>4. Distinct(Tail(q))
  BY <1>2 DEF Distinct
<1>5. \A k \in DOMAIN Tail(q) : Tail(q)[k] # Head(q) /\ \E i \in DOMAIN q : Tail(q)[k] = q[i]
  BY <1>1, <1>2 DEF Distinct
<1> QED
  BY <1>1, <1>3, <1>4, <1>5

QueueOK == queue \in Seq(Callers) /\ Distinct(queue) /\ Queued

\* A step of thread x that calls, returns, does both, or leaves the queue alone, and that
\* makes nobody else stop waiting.
LEMMA CallKept ==
    ASSUME QueueOK, NEW x \in Callers, ~Waits(x), Waits(x)', queue' = Append(queue, x),
           \A c \in Callers : c # x /\ Waits(c) => Waits(c)'
    PROVE  QueueOK'
<1>1. \A i \in DOMAIN queue : queue[i] \in Callers /\ Waits(queue[i]) /\ queue[i] # x
  BY DEF QueueOK, Queued
<1>2. /\ queue' \in Seq(Callers) /\ Distinct(queue')
      /\ \A k \in DOMAIN queue' : queue'[k] = x \/ \E i \in DOMAIN queue : queue'[k] = queue[i]
  BY <1>1, Joins DEF QueueOK
<1> QED
  BY <1>1, <1>2 DEF QueueOK, Queued, Distinct, Waits

LEMMA ReturnKept ==
    ASSUME QueueOK, NEW x \in Callers, Serving(x), queue' = Tail(queue),
           \A c \in Callers : c # x /\ Waits(c) => Waits(c)'
    PROVE  QueueOK'
<1>1. \A i \in DOMAIN queue : queue[i] \in Callers /\ Waits(queue[i])
  BY DEF QueueOK, Queued
<1>2. /\ queue' \in Seq(Callers) /\ Distinct(queue')
      /\ \A k \in DOMAIN queue' : queue'[k] # x /\ \E i \in DOMAIN queue : queue'[k] = queue[i]
  BY Leaves DEF QueueOK, Serving
<1> QED
  BY <1>1, <1>2 DEF QueueOK, Queued, Distinct, Waits

LEMMA ReturnAndCallKept ==
    ASSUME QueueOK, NEW x \in Callers, Serving(x), NEW y \in Callers, y = x \/ ~Waits(y), Waits(y)',
           queue' = Append(Tail(queue), y), \A c \in Callers : c # x /\ c # y /\ Waits(c) => Waits(c)'
    PROVE  QueueOK'
<1>1. \A i \in DOMAIN queue : queue[i] \in Callers /\ Waits(queue[i])
  BY DEF QueueOK, Queued
<1>2. PICK t : t = Tail(queue)
  OBVIOUS
<1>3. /\ t \in Seq(Callers) /\ Distinct(t)
      /\ \A k \in DOMAIN t : t[k] # x /\ \E i \in DOMAIN queue : t[k] = queue[i]
  BY <1>2, Leaves DEF QueueOK, Serving
<1>4. \A k \in DOMAIN t : t[k] \in Callers /\ Waits(t[k]) /\ t[k] # x /\ t[k] # y
  BY <1>1, <1>3
<1>5. /\ queue' \in Seq(Callers) /\ Distinct(queue')
      /\ \A k \in DOMAIN queue' : queue'[k] = y \/ \E i \in DOMAIN t : queue'[k] = t[i]
  BY <1>2, <1>3, <1>4, Joins
<1> QED
  BY <1>4, <1>5 DEF QueueOK, Queued, Distinct, Waits

LEMMA SameKept ==
    ASSUME QueueOK, queue' = queue, \A c \in Callers : Waits(c) => Waits(c)'
    PROVE  QueueOK'
BY DEF QueueOK, Queued, Distinct, Waits

\* The queue through a step, thread by thread.
LEMMA QueueStep == Base /\ [Next]_vars => QueueOK'
<1> SUFFICES ASSUME Base, [Next]_vars PROVE QueueOK'
  OBVIOUS
<1> USE DEF NotPopped, Popped, Return, Call
<1>0. QueueOK /\ Main \in Callers /\ Listener \in Callers /\ used \in Nat
  BY Names, UmbraOnlineAssumption DEF Base, TypeOK, Typed, QueueOK, Distinct
<1>1. \A s \in Session : Sender(s) \in Callers /\ Receiver(s) \in Callers
  BY Names
<1>2. CASE Connect \/ Disconnect \/ NetSend
  <2>1. ~Waits(Main) /\ Waits(Main)'
    BY <1>2, Names DEF Connect, Disconnect, NetSend, Waits
  <2>2. queue' = Append(queue, Main)
    BY <1>2 DEF Connect, Disconnect, NetSend
  <2>3. \A c \in Callers : c # Main /\ Waits(c) => Waits(c)'
    BY <1>2 DEF Connect, Disconnect, NetSend, Waits
  <2> QED
    BY <1>0, <2>1, <2>2, <2>3, CallKept
<1>3. CASE Left \/ NetSent
  <2>1. Serving(Main) /\ queue' = Tail(queue)
    BY <1>3 DEF Left, NetSent
  <2>2. \A c \in Callers : c # Main /\ Waits(c) => Waits(c)'
    BY <1>3 DEF Left, NetSent, Waits
  <2> QED
    BY <1>0, <2>1, <2>2, ReturnKept
<1>4. CASE Joined
  <2>1. PICK n \in Session : n = used + 1 /\ used' = n
    BY <1>4, <1>0, UmbraOnlineAssumption DEF Joined, Base, Connected, Session
  <2>2. receiver[n].at = "none" /\ n \in DOMAIN receiver
    BY <2>1, <1>0 DEF Base, Connected, TypeOK, Typed, Session
  <2>3. ~Waits(Receiver(n))
    BY <2>2 DEF Waits
  <2>4. /\ Serving(Main) /\ listener' = listener /\ main' = "idle"
        /\ sender' = [sender EXCEPT ![n] = [at |-> "delay", on |-> NoSocket]] \/ sender' = sender
    BY <1>4, <2>1 DEF Joined
  <2>5. sender[n].at = "none" /\ n \in DOMAIN sender
    BY <2>1, <1>0 DEF Base, Connected, TypeOK, Typed, Session
  <2>6. \A r \in Session : sender[r].at = "send" => sender'[r].at = "send"
    BY <2>4, <2>5 DEF Base, TypeOK, Typed
  <2>7. CASE receiver' = [receiver EXCEPT ![n] = [at |-> "recv", on |-> n]] /\ queue' = Append(Tail(queue), Receiver(n))
    <3>1. receiver'[n].at = "recv"
      BY <2>2, <2>7
    <3>2. Waits(Receiver(n))'
      BY <3>1, Names DEF Waits
    <3>3. \A r \in Session : receiver[r].at = "recv" => receiver'[r].at = "recv"
      BY <2>2, <2>7 DEF Base, TypeOK, Typed
    <3>4. \A c \in Callers : c # Main /\ c # Receiver(n) /\ Waits(c) => Waits(c)'
      BY <2>4, <2>6, <3>3 DEF Waits
    <3> QED
      BY <1>0, <1>1, <2>3, <2>4, <2>7, <3>2, <3>4, ReturnAndCallKept
  <2>8. CASE receiver' = receiver /\ queue' = Tail(queue)
    <3>1. \A c \in Callers : c # Main /\ Waits(c) => Waits(c)'
      BY <2>4, <2>6, <2>8 DEF Waits
    <3> QED
      BY <1>0, <2>4, <2>8, <3>1, ReturnKept
  <2> QED
    BY <1>4, <2>1, <2>7, <2>8 DEF Joined
<1>5. CASE Disconnected \/ StateWrite \/ StateWritten \/ StateRead \/ StateRest \/ StateTaken \/ NetRecv \/ Arrival
  <2>1. queue' = queue /\ \A c \in Callers : Waits(c) => Waits(c)'
    BY <1>5 DEF Disconnected, StateWrite, StateWritten, StateRead, StateRest, StateTaken,
             NetRecv, Arrival, Waits
  <2> QED
    BY <1>0, <2>1, SameKept
<1>6. ASSUME NEW s \in Session, SenderWakes(s) PROVE QueueOK'
  <2>1. ~Waits(Sender(s))
    BY <1>6 DEF SenderWakes, Waits
  <2>2. \A c \in Callers : c # Sender(s) /\ Waits(c) => Waits(c)'
    BY <1>6 DEF SenderWakes, Waits, Base, TypeOK, Typed
  <2>3. CASE active
    <3>1. queue' = Append(queue, Sender(s)) /\ sender'[s].at = "send"
      BY <1>6, <2>3 DEF SenderWakes, Base, TypeOK, Typed
    <3>2. Waits(Sender(s))'
      BY <3>1, Names DEF Waits
    <3> QED
      BY <1>0, <1>1, <2>1, <2>2, <3>1, <3>2, CallKept
  <2>4. CASE ~active
    <3>1. queue' = queue
      BY <1>6, <2>4 DEF SenderWakes
    <3>2. \A c \in Callers : Waits(c) => Waits(c)'
      BY <2>1, <2>2
    <3> QED
      BY <1>0, <3>1, <3>2, SameKept
  <2> QED
    BY <2>3, <2>4
<1>7. ASSUME NEW s \in Session, SenderSent(s) PROVE QueueOK'
  <2>1. Serving(Sender(s)) /\ queue' = Tail(queue)
    BY <1>7 DEF SenderSent
  <2>2. \A c \in Callers : c # Sender(s) /\ Waits(c) => Waits(c)'
    BY <1>7 DEF SenderSent, Waits, Base, TypeOK, Typed
  <2> QED
    BY <1>0, <1>1, <2>1, <2>2, ReturnKept
<1>8. ASSUME NEW s \in Session, ReceiverGets(s) PROVE QueueOK'
  <2>1. Serving(Receiver(s)) /\ \A c \in Callers : c # Receiver(s) /\ Waits(c) => Waits(c)'
    BY <1>8 DEF ReceiverGets, Waits, Base, TypeOK, Typed
  <2>2. CASE active
    <3>1. queue' = Append(Tail(queue), Receiver(s)) /\ receiver'[s].at = "recv"
      BY <1>8, <2>2 DEF ReceiverGets
    <3>2. Waits(Receiver(s))'
      BY <3>1, Names DEF Waits
    <3> QED
      BY <1>0, <1>1, <2>1, <3>1, <3>2, ReturnAndCallKept
  <2>3. CASE ~active
    <3>1. queue' = Tail(queue)
      BY <1>8, <2>3 DEF ReceiverGets
    <3> QED
      BY <1>0, <1>1, <2>1, <3>1, ReturnKept
  <2> QED
    BY <2>2, <2>3
<1>9. ASSUME NEW s \in Session, ReceiverFails(s) PROVE QueueOK'
  <2>1. Serving(Receiver(s)) /\ queue' = Tail(queue)
    BY <1>9 DEF ReceiverFails
  <2>2. \A c \in Callers : c # Receiver(s) /\ Waits(c) => Waits(c)'
    BY <1>9 DEF ReceiverFails, Waits, Base, TypeOK, Typed
  <2> QED
    BY <1>0, <1>1, <2>1, <2>2, ReturnKept
<1>10. ASSUME NEW s \in Session, ReceiverWakes(s) PROVE QueueOK'
  <2>1. ~Waits(Receiver(s))
    BY <1>10 DEF ReceiverWakes, Waits
  <2>2. \A c \in Callers : c # Receiver(s) /\ Waits(c) => Waits(c)'
    BY <1>10 DEF ReceiverWakes, Waits, Base, TypeOK, Typed
  <2>3. CASE active
    <3>1. queue' = Append(queue, Receiver(s)) /\ receiver'[s].at = "recv"
      BY <1>10, <2>3 DEF ReceiverWakes, Base, TypeOK, Typed
    <3>2. Waits(Receiver(s))'
      BY <3>1, Names DEF Waits
    <3> QED
      BY <1>0, <1>1, <2>1, <2>2, <3>1, <3>2, CallKept
  <2>4. CASE ~active
    <3>1. queue' = queue /\ \A c \in Callers : Waits(c) => Waits(c)'
      BY <1>10, <2>1, <2>2, <2>4 DEF ReceiverWakes
    <3> QED
      BY <1>0, <3>1, SameKept
  <2> QED
    BY <2>3, <2>4
<1>11. CASE ListenerPolls
  <2>1. ~Waits(Listener) /\ Waits(Listener)' /\ queue' = Append(queue, Listener)
    BY <1>11, Names DEF ListenerPolls, Waits
  <2>2. \A c \in Callers : c # Listener /\ Waits(c) => Waits(c)'
    BY <1>11 DEF ListenerPolls, Waits
  <2> QED
    BY <1>0, <2>1, <2>2, CallKept
<1>12. CASE ListenerGets
  <2>1. Serving(Listener) /\ queue' = Tail(queue)
    BY <1>12 DEF ListenerGets
  <2>2. \A c \in Callers : c # Listener /\ Waits(c) => Waits(c)'
    BY <1>12 DEF ListenerGets, Waits
  <2> QED
    BY <1>0, <2>1, <2>2, ReturnKept
<1>13. CASE UNCHANGED vars
  <2>1. queue' = queue /\ \A c \in Callers : Waits(c) => Waits(c)'
    BY <1>13 DEF vars, Waits
  <2> QED
    BY <1>0, <2>1, SameKept
<1> QED
  BY <1>2, <1>3, <1>4, <1>5, <1>6, <1>7, <1>8, <1>9, <1>10, <1>11, <1>12, <1>13
     DEF Next, Game, MainGoesOn, Threads

-----------------------------------------------------------------------------
(* Types, connections and mailboxes                                        *)

\* The socket, the flag and the threads of later connections.
LEMMA ConnectedStep == Base /\ [Next]_vars => Connected'
<1> SUFFICES ASSUME Base, [Next]_vars PROVE Connected'
  OBVIOUS
<1> USE UmbraOnlineAssumption DEF Base, TypeOK, Typed, Connected, Sockets, Session, NoSocket, Thread
<1>1. CASE Connect \/ Disconnect \/ StateWrite \/ StateRead
  BY <1>1 DEF Connect, Disconnect, StateWrite, StateRead
<1>2. CASE NetRecv \/ NetSend \/ Left \/ Disconnected \/ StateWritten \/ StateRest \/ StateTaken
  BY <1>2 DEF NetRecv, NetSend, Left, Disconnected, StateWritten, StateRest, StateTaken
<1>3. CASE NetSent \/ ListenerPolls \/ ListenerGets \/ Arrival
  BY <1>3 DEF NetSent, ListenerPolls, ListenerGets, Arrival
<1>4. CASE Joined
  BY <1>4 DEF Joined
<1>5. ASSUME NEW s \in Session, SenderWakes(s) \/ SenderSent(s) PROVE Connected'
  <2>1. UNCHANGED <<main, sock, active, used, receiver>> /\ sender[s].at # "none"
    BY <1>5 DEF SenderWakes, SenderSent
  <2>2. \A r \in Session : r # s => sender'[r] = sender[r]
    BY <1>5 DEF SenderWakes, SenderSent
  <2> QED
    BY <2>1, <2>2
<1>6. ASSUME NEW s \in Session, ReceiverGets(s) \/ ReceiverFails(s) \/ ReceiverWakes(s) PROVE Connected'
  BY <1>6 DEF ReceiverGets, ReceiverFails, ReceiverWakes, AfterError
<1>7. CASE UNCHANGED vars
  BY <1>7 DEF vars
<1> QED
  BY <1>1, <1>2, <1>3, <1>4, <1>5, <1>6, <1>7
     DEF Next, Game, MainGoesOn, Threads

\* What the mailboxes hold.
LEMMA FilledStep == Base /\ [Next]_vars => Filled'
<1> SUFFICES ASSUME Base, [Next]_vars PROVE Filled'
  OBVIOUS
<1> USE DEF Base, TypeOK, Typed, Connected, Filled, mailbox, history, network
<1>1. CASE Connect \/ Disconnect \/ NetRecv \/ NetSend
  BY <1>1 DEF Connect, Disconnect, NetRecv, NetSend
<1>2. CASE Left \/ Disconnected \/ StateRead \/ StateRest \/ StateTaken \/ NetSent
  BY <1>2 DEF Left, Disconnected, StateRead, StateRest, StateTaken, NetSent
<1>3. CASE Joined
  BY <1>3 DEF Joined, EmptyReady
<1>4. CASE StateWrite
  BY <1>4 DEF StateWrite, FlagWhileCopying
<1>5. CASE StateWritten
  BY <1>5 DEF StateWritten
<1>6. ASSUME NEW s \in Session, SenderWakes(s) \/ SenderSent(s) PROVE Filled'
  BY <1>6 DEF SenderWakes, SenderSent
<1>7. ASSUME NEW s \in Session, ReceiverGets(s) \/ ReceiverFails(s) \/ ReceiverWakes(s) PROVE Filled'
  BY <1>7 DEF ReceiverGets, ReceiverFails, ReceiverWakes
<1>8. CASE ListenerPolls \/ ListenerGets \/ Arrival
  BY <1>8 DEF ListenerPolls, ListenerGets, Arrival
<1>9. CASE UNCHANGED vars
  BY <1>9 DEF vars
<1> QED
  BY <1>1, <1>2, <1>3, <1>4, <1>5, <1>6, <1>7, <1>8, <1>9
     DEF Next, Game, MainGoesOn, Threads

\* The places of the threads.
SenderAt == {"none", "delay", "send", "gone"}
ReceiverAt == {"none", "recv", "delay", "gone"}
LEMMA Places ==
    \A k \in Sockets :
        /\ \A a \in SenderAt : [at |-> a, on |-> k] \in Thread(SenderAt)
        /\ \A a \in ReceiverAt : [at |-> a, on |-> k] \in Thread(ReceiverAt)
BY DEF Thread

\* Changing one place of a function.
LEMMA Replaced ==
    ASSUME NEW D, NEW P, NEW f \in [D -> P], NEW d \in D, NEW v \in P
    PROVE  [f EXCEPT ![d] = v] \in [D -> P]
OBVIOUS

\* The types, but for the queue.
LEMMA TypedStep == Base /\ [Next]_vars => Typed'
<1> SUFFICES ASSUME Base, [Next]_vars PROVE Typed'
  OBVIOUS
<1> USE UmbraOnlineAssumption DEF Base, TypeOK, Typed, Connected, Sockets, Session, NoSocket, Thread,
        mailbox, history, network
<1>1. CASE Connect \/ Disconnect \/ NetRecv \/ NetSend
  BY <1>1 DEF Connect, Disconnect, NetRecv, NetSend
<1>2. CASE Left \/ Disconnected \/ StateRead \/ StateRest \/ StateTaken \/ NetSent
  BY <1>2 DEF Left, Disconnected, StateRead, StateRest, StateTaken, NetSent
<1>3. CASE Joined
  <2>1. PICK n \in Session : n = used + 1 /\ used' = n
    BY <1>3 DEF Joined
  <2>2. /\ sender' = [sender EXCEPT ![n] = [at |-> "delay", on |-> NoSocket]] \/ sender' = sender
        /\ receiver' = [receiver EXCEPT ![n] = [at |-> "recv", on |-> n]] \/ receiver' = receiver
        /\ sender \in [Session -> Thread(SenderAt)] /\ receiver \in [Session -> Thread(ReceiverAt)]
        /\ n \in Sockets /\ NoSocket \in Sockets
    BY <1>3, <2>1 DEF Joined, SenderAt, ReceiverAt
  <2>3. sender' \in [Session -> Thread(SenderAt)] /\ receiver' \in [Session -> Thread(ReceiverAt)]
    <3> HIDE DEF Thread, Session, Sockets, NoSocket, Base, Typed, TypeOK
    <3>1. /\ [at |-> "delay", on |-> NoSocket] \in Thread(SenderAt)
          /\ [at |-> "recv", on |-> n] \in Thread(ReceiverAt)
      BY <2>2, Places DEF SenderAt, ReceiverAt
    <3> QED
      BY <2>2, <3>1, Replaced
  <2>4. sock' \in Sockets /\ used' \in 0 .. MaxSessions
    BY <1>3, <2>1 DEF Joined
  <2> QED
    BY <1>3, <2>3, <2>4 DEF Joined, EmptyReady, SenderAt, ReceiverAt
<1>4. CASE StateWrite \/ StateWritten
  <2>1. out_buf' \in [{1, 2} -> Half]
    <3>1. out_buf[1] \in Half /\ \A b \in {0, 1} : <<sock, b>> \in Half
      BY DEF Half
    <3>2. 1 - out_buf[1][2] \in {0, 1}
      BY <3>1 DEF Half
    <3>3. PICK h \in {1, 2}, v \in Half : out_buf' = [out_buf EXCEPT ![h] = v]
      BY <1>4, <3>1, <3>2 DEF StateWrite, StateWritten
    <3> QED
      BY <3>3
  <2> QED
    BY <1>4, <2>1 DEF StateWrite, StateWritten, FlagWhileCopying
<1>6. ASSUME NEW s \in Session, SenderWakes(s) \/ SenderSent(s) PROVE Typed'
  <2>1. PICK a \in SenderAt, k \in Sockets :
            sender' = [sender EXCEPT ![s] = [at |-> a, on |-> k]] \/ sender' = sender
    BY <1>6 DEF SenderWakes, SenderSent, SenderAt
  <2>2. sender' \in [Session -> Thread(SenderAt)]
    <3>1. sender \in [Session -> Thread(SenderAt)]
      BY DEF SenderAt
    <3> HIDE DEF Thread, Session, Sockets, Base, Typed, TypeOK
    <3>2. [at |-> a, on |-> k] \in Thread(SenderAt)
      BY Places
    <3> QED
      BY <2>1, <3>1, <3>2, Replaced
  <2> QED
    BY <1>6, <2>2 DEF SenderWakes, SenderSent, SenderAt
<1>7. ASSUME NEW s \in Session, ReceiverGets(s) \/ ReceiverFails(s) \/ ReceiverWakes(s) PROVE Typed'
  <2>1. PICK a \in ReceiverAt, k \in Sockets :
            receiver' = [receiver EXCEPT ![s] = [at |-> a, on |-> k]] \/ receiver' = receiver
    BY <1>7 DEF ReceiverGets, ReceiverFails, ReceiverWakes, ReceiverAt, AfterError
  <2>2. receiver' \in [Session -> Thread(ReceiverAt)]
    <3>1. receiver \in [Session -> Thread(ReceiverAt)]
      BY DEF ReceiverAt
    <3> HIDE DEF Thread, Session, Sockets, Base, Typed, TypeOK
    <3>2. [at |-> a, on |-> k] \in Thread(ReceiverAt)
      BY Places
    <3> QED
      BY <2>1, <3>1, <3>2, Replaced
  <2> QED
    BY <1>7, <2>2 DEF ReceiverGets, ReceiverFails, ReceiverWakes, ReceiverAt
<1>8. CASE ListenerPolls \/ ListenerGets \/ Arrival
  BY <1>8 DEF ListenerPolls, ListenerGets, Arrival, Arrives, ArrivesUdp
<1>9. CASE UNCHANGED vars
  BY <1>9 DEF vars
<1> QED
  BY <1>1, <1>2, <1>3, <1>4, <1>6, <1>7, <1>8, <1>9
     DEF Next, Game, MainGoesOn, Threads

-----------------------------------------------------------------------------
(* The properties                                                          *)

\* What the game has read comes from the mailbox.
LEMMA HasReadStep == Base /\ [Next]_vars => HasRead'
<1> SUFFICES ASSUME Base, [Next]_vars PROVE HasRead'
  OBVIOUS
<1>1. HasRead /\ sock \in Sockets /\ in_buf \in Sockets
  BY DEF Base, TypeOK, Typed
<1>2. CASE StateRead \/ StateRest
  BY <1>1, <1>2 DEF StateRead, StateRest, HasRead
<1>3. ASSUME got' = got PROVE HasRead'
  BY <1>1, <1>3 DEF HasRead
<1>4. CASE \/ Connect \/ Disconnect \/ StateWrite \/ NetRecv \/ NetSend
           \/ Joined \/ Left \/ Disconnected \/ StateWritten \/ StateTaken \/ NetSent
  BY <1>3, <1>4 DEF Connect, Disconnect, StateWrite, NetRecv, NetSend, Joined, Left,
     Disconnected, StateWritten, StateTaken, NetSent, history
<1>5. CASE Threads \/ Arrival \/ UNCHANGED vars
  BY <1>3, <1>5 DEF Threads, SenderWakes, SenderSent, ReceiverGets, ReceiverFails, ReceiverWakes,
     ListenerPolls, ListenerGets, Arrival, vars, history
<1> QED
  BY <1>2, <1>4, <1>5 DEF Next, Game, MainGoesOn

\* What holds however soon the game leaves.
LEMMA BaseStep == Base /\ [Next]_vars => Base'
BY QueueStep, ConnectedStep, FilledStep, TypedStep, HasReadStep DEF Base, TypeOK, QueueOK, Distinct

\* The wait after LEAVE outlasts the threads, as no receiver is in its delay.
LEMMA AloneStep == Base /\ Alone /\ ~HastyLeave /\ [Next]_vars => Alone'
<1> SUFFICES ASSUME Base, Alone, ~HastyLeave, [Next]_vars PROVE Alone'
  OBVIOUS
<1> USE UmbraOnlineAssumption DEF Base, TypeOK, Typed, Connected, Alone, Over, Sockets, NoSocket, Session,
        network, mailbox, history
<1>1. CASE Connect \/ StateWrite \/ StateRead \/ NetRecv \/ NetSend
  BY <1>1 DEF Connect, StateWrite, StateRead, NetRecv, NetSend
<1>2. CASE Disconnect
  BY <1>2 DEF Disconnect
<1>3. CASE Left \/ Disconnected
  BY <1>3 DEF Left, Disconnected
<1>4. CASE Joined
  BY <1>4 DEF Joined
<1>5. CASE StateWritten \/ StateRest \/ StateTaken \/ NetSent
  BY <1>5 DEF StateWritten, StateRest, StateTaken, NetSent
<1>6. ASSUME NEW s \in Session, SenderWakes(s) \/ SenderSent(s) PROVE Alone'
  BY <1>6 DEF SenderWakes, SenderSent
<1>7. ASSUME NEW s \in Session, ReceiverGets(s) \/ ReceiverFails(s) \/ ReceiverWakes(s) PROVE Alone'
  BY <1>7 DEF ReceiverGets, ReceiverFails, ReceiverWakes, AfterError
<1>8. CASE ListenerPolls \/ ListenerGets \/ Arrival
  BY <1>8 DEF ListenerPolls, ListenerGets, Arrival
<1>9. CASE UNCHANGED vars
  BY <1>9 DEF vars
<1> QED
  BY <1>1, <1>2, <1>3, <1>4, <1>5, <1>6, <1>7, <1>8, <1>9
     DEF Next, Game, MainGoesOn, Threads

\* Only SenderWakes, StateRead and StateRest change the history.
LEMMA HistoryStep ==
    Base /\ SessionFresh /\ SentWhole /\ [Next]_vars => SessionFresh' /\ SentWhole'
<1> SUFFICES ASSUME Base, SessionFresh, SentWhole, [Next]_vars PROVE SessionFresh' /\ SentWhole'
  OBVIOUS
<1>1. CASE StateRead
  BY <1>1 DEF StateRead, Base, Connected, Filled, SessionFresh, SentWhole
<1>7. CASE StateRest
  <2>1. got'.on = got.on /\ got'.from[1] = got.from[1] /\ got'.from[2] = in_buf
    BY <1>7 DEF StateRest, Base, TypeOK, HasRead
  <2>2. in_buf = got.on /\ sent' = sent
    BY <1>7 DEF StateRest, Base, Filled
  <2> QED
    BY <2>1, <2>2 DEF SessionFresh, SentWhole
<1>2. ASSUME NEW s \in Session, SenderWakes(s) PROVE SessionFresh' /\ SentWhole'
  <2>1. CASE active
    <3>1. sent' = [state |-> out_buf, on |-> sock, overrun |-> overrun] /\ got' = got /\ out_ready
      BY <1>2, <2>1 DEF SenderWakes
    <3>2. sock # NoSocket
      BY <2>1 DEF Base, Connected
    <3> QED
      BY <3>1, <3>2 DEF Base, Filled, SessionFresh, SentWhole
  <2>2. CASE ~active
    BY <1>2, <2>2 DEF SenderWakes, SessionFresh, SentWhole
  <2> QED
    BY <2>1, <2>2
<1>3. ASSUME sent' = sent, got' = got PROVE SessionFresh' /\ SentWhole'
  BY <1>3 DEF SessionFresh, SentWhole
<1>4. CASE \/ Connect \/ Disconnect \/ StateWrite \/ NetRecv \/ NetSend
           \/ Joined \/ Left \/ Disconnected \/ StateWritten \/ StateTaken \/ NetSent
  BY <1>3, <1>4 DEF Connect, Disconnect, StateWrite, NetRecv, NetSend, Joined, Left,
     Disconnected, StateWritten, StateTaken, NetSent, history
<1>5. ASSUME NEW s \in Session,
             SenderSent(s) \/ ReceiverGets(s) \/ ReceiverFails(s) \/ ReceiverWakes(s)
      PROVE  SessionFresh' /\ SentWhole'
  BY <1>3, <1>5 DEF SenderSent, ReceiverGets, ReceiverFails, ReceiverWakes, history
<1>6. CASE ListenerPolls \/ ListenerGets \/ Arrival \/ UNCHANGED vars
  BY <1>3, <1>6 DEF ListenerPolls, ListenerGets, Arrival, vars, history
<1> QED
  BY <1>1, <1>2, <1>4, <1>5, <1>6, <1>7 DEF Next, Game, MainGoesOn, Threads

\* Before the first connection.
LEMMA InitIInv == Init => IInv
<1> SUFFICES ASSUME Init PROVE IInv
  OBVIOUS
<1>1. TypeOK /\ Queued
  <2>1. queue = <<>> /\ queue \in Seq(Callers) /\ DOMAIN queue = {}
    BY DEF Init
  <2>2. NoSocket \in Sockets /\ Idle \in Thread({"none", "delay", "send", "gone"})
        /\ Idle \in Thread({"none", "recv", "delay", "gone"}) /\ <<NoSocket, 0>> \in Half
    BY DEF Sockets, Idle, Thread, Half
  <2>3. 0 \in 0 .. MaxSessions /\ [h \in {1, 2} |-> NoSocket] \in [{1, 2} -> Sockets]
    BY UmbraOnlineAssumption DEF Sockets
  <2> QED
    BY <2>1, <2>2, <2>3 DEF Init, TypeOK, Typed, HasRead, Queued
<1>2. Connected /\ Alone
  BY DEF Init, Connected, Alone, Over, Idle, NoSocket, Session
<1>3. Filled /\ SessionFresh /\ SentWhole
  BY DEF Init, Filled, SessionFresh, SentWhole
<1> QED
  BY <1>1, <1>2, <1>3 DEF IInv, Base

\* The mailboxes, threads and flags keep their types, and the network module has at most one
\* call of each thread (net.c:328).
THEOREM OnlineTypes == Spec => []TypeOK
<1>1. Init => Base
  BY InitIInv DEF IInv
<1>2. Base => TypeOK
  BY DEF Base
<1> QED
  BY <1>1, <1>2, BaseStep, PTL DEF Spec

LEMMA HistoryKept == Spec => [](SessionFresh /\ SentWhole)
<1>1. Init => Base /\ SessionFresh /\ SentWhole
  BY InitIInv DEF IInv
<1>2. Base /\ SessionFresh /\ SentWhole /\ [Next]_vars => (Base /\ SessionFresh /\ SentWhole)'
  BY BaseStep, HistoryStep
<1> QED
  BY <1>1, <1>2, PTL DEF Spec

\* What is sent on a connection was written in it and what the game reads was received on
\* it, as a connection empties the mailboxes (umbra.c:285).
THEOREM FreshAlways == Spec => []SessionFresh
BY HistoryKept, PTL

\* A state written to an empty mailbox goes out whole (umbra.c: the copy, then the flag).
THEOREM SentWholeAlways == Spec => []SentWhole
BY HistoryKept, PTL

\* If the game does not leave within the receiver's 100 ms (umbra.c:338), the invariant holds.
THEOREM OnlineInvariant == ASSUME ~HastyLeave PROVE Spec => []IInv
<1>1. IInv /\ [Next]_vars => IInv'
  BY BaseStep, AloneStep, HistoryStep DEF IInv
<1> QED
  BY <1>1, InitIInv, PTL DEF Spec

\* Then never have two connections a receiver, or a sender, that runs.
THEOREM OneReceiverAlways == ASSUME ~HastyLeave PROVE Spec => []OneReceiver
<1>1. IInv => OneReceiver
  BY DEF IInv, Alone, OneReceiver
<1> QED
  BY <1>1, OnlineInvariant, PTL
=============================================================================
