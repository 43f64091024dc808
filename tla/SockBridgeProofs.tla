--------------------------- MODULE SockBridgeProofs ---------------------------
(***************************************************************************)
(* For any number of threads, descriptors and calls: a descriptor of the   *)
(* socket bridge has one owner; and if IOS's start-up does not fail and no *)
(* answer overtakes a sweep, a call is posted only where the kernel is     *)
(* done with the one before, and each call gets its own answer.            *)
(*                                                                         *)
(* The owner's place and the kernel's byte for its descriptor never get    *)
(* further apart than Carried allows; a descriptor without an owner is one *)
(* the kernel has nothing to do for (Released).                            *)
(***************************************************************************)
EXTENDS SockBridge, TLAPS

Quiet(i) == ioctl_ppc[i] = None /\ ioctl_arm[i] = None /\ ~soBusy[i]

\* A thread holds what its place needs.
Places ==
    \A c \in Caller :
        /\ fd[c] = NoFd <=> pc[c] \in {"idle", "getfd"}
        /\ sub[c] # NoFd => /\ op[c] = "getmac" /\ pc[c] \in {"post", "spin", "end", "freesub"}
                            /\ sub[c] # fd[c]
        /\ pc[c] = "freesub" => sub[c] # NoFd
        /\ pc[c] \in {"open", "getsub"} => op[c] = "getmac"
        /\ pc[c] # "idle" => call[c] # NoToken

\* Requests and answers in progress are of descriptors the kernel works on, one of each.
Single ==
    /\ \A i \in Fd : net[i] # NoToken => soBusy[i]
    /\ \A k \in DOMAIN sockqueue : soBusy[sockqueue[k].fd] /\ net[sockqueue[k].fd] = NoToken
    /\ \A k, l \in DOMAIN sockqueue : sockqueue[k].fd = sockqueue[l].fd => k = l

\* The game reads ioctl_arm as it is between sweeps; inside one it misses only what is
\* on its way to IOS.
Flushed ==
    /\ ~sweeping => armFlushed = ioctl_arm
    /\ \A i \in Fd : armFlushed[i] = None /\ ioctl_arm[i] # None => net[i] # NoToken
    /\ \A i \in Fd : ioctl_ppc[i] # None => cmd[i] # NoToken

Released == \A i \in Fd : ~so_used[i] => ioctl_ppc[i] = None /\ ~soBusy[i]

Right(c, ok) == ok \/ CallOf(c) = "startinterface"
Posted(i) == ioctl_arm[i] = None /\ ~soBusy[i] /\ busy[i]
Taken(c, i) ==
    /\ ioctl_arm[i] = CallOf(c) /\ soBusy[i] /\ busy[i]
    /\ net[i] # NoToken => net[i] = call[c]
    /\ \A k \in DOMAIN sockqueue :
          sockqueue[k].fd = i => sockqueue[k].to = call[c] /\ Right(c, sockqueue[k].ok)
Answered(c, i) ==
    /\ ioctl_arm[i] = CallOf(c) /\ ~soBusy[i] /\ ~busy[i]
    /\ retval[i].to = call[c] /\ Right(c, retval[i].ok)

\* How far the descriptor of a thread is.
CarriedBy(c) ==
    /\ sub[c] # NoFd => Quiet(fd[c])
    /\ pc[c] \in {"open", "getsub", "post"} => Quiet(Cur(c))
    /\ pc[c] \in {"spin", "sleep"} =>
        /\ ioctl_ppc[Cur(c)] = CallOf(c) /\ cmd[Cur(c)] = call[c]
        /\ Posted(Cur(c)) \/ Taken(c, Cur(c)) \/ Answered(c, Cur(c))
        /\ hsp = Cur(c) => ~busy[Cur(c)]
    /\ pc[c] = "end" => ioctl_ppc[Cur(c)] = CallOf(c) /\ Answered(c, Cur(c))
    /\ pc[c] \in {"freesub", "free"} => ioctl_ppc[Cur(c)] = None /\ ~soBusy[Cur(c)]
Carried == \A c \in Caller : CarriedBy(c)

Owners == TypeOK /\ Places /\ OneOwner
IInv == Owners /\ Single /\ Flushed /\ Released /\ Carried

-----------------------------------------------------------------------------
(* Who holds what                                                          *)

LEMMA Descriptors == NoFd \notin Fd /\ NoFd \in Nat /\ \A i \in Fd : i \in Nat
  BY SockBridgeAssumption DEF NoFd, Fd

\* A thread in a call holds the descriptors of its place, which are in use and nobody else's.
LEMMA Holding ==
  ASSUME Owners, NEW c \in Caller, pc[c] \notin {"idle", "getfd"}
  PROVE  /\ fd[c] \in Fd /\ Cur(c) \in Fd /\ fd[c] \in Held(c) /\ Cur(c) \in Held(c)
         /\ so_used[fd[c]] /\ so_used[Cur(c)]
         /\ \A d \in Caller : d # c => Cur(c) \notin Held(d) /\ fd[c] \notin Held(d)
<1>1. fd[c] \in Fd /\ fd[c] # NoFd /\ sub[c] \in Fd \cup {NoFd}
  BY DEF Owners, TypeOK, Places
<1>2. Cur(c) \in Fd /\ fd[c] \in Held(c) /\ Cur(c) \in Held(c)
  BY <1>1, Descriptors DEF Cur, Held
<1> QED BY <1>1, <1>2 DEF Owners, OneOwner

LEMMA Resting ==
  ASSUME Owners, NEW c \in Caller, pc[c] \in {"idle", "getfd"}
  PROVE  fd[c] = NoFd /\ sub[c] = NoFd /\ Held(c) = {}
  BY DEF Owners, Places, Held

\* The call a thread waits for is one of the game's, and a nested one iff it has a second descriptor.
LEMMA Kinds ==
  ASSUME TypeOK, NEW c \in Caller
  PROVE  /\ op[c] \in Ops /\ CallOf(c) \in Calls /\ CallOf(c) # None
         /\ CallOf(c) = "startinterface" <=> sub[c] # NoFd
  BY DEF TypeOK, CallOf, Ops, Calls, None

-----------------------------------------------------------------------------
(* Types and owners                                                        *)

Message == [fd : Fd, ok : BOOLEAN, to : Token]

LEMMA Waiting ==
  ASSUME TypeOK, NEW k \in DOMAIN sockqueue
  PROVE  sockqueue[k] \in Message /\ sockqueue[k].fd \in Fd /\ k \in Nat
<1>1. sockqueue \in Seq(Message)
  BY DEF TypeOK, Message
<1>2. sockqueue[k] \in Message /\ k \in Nat
  BY <1>1
<1> QED BY <1>2 DEF Message

LEMMA Oldest ==
  ASSUME NEW S, NEW q \in Seq(S), q # <<>>
  PROVE  /\ Head(q) \in S /\ Head(q) = q[1] /\ 1 \in DOMAIN q /\ Tail(q) \in Seq(S)
         /\ \A k \in DOMAIN Tail(q) : k + 1 \in DOMAIN q /\ k + 1 # 1 /\ Tail(q)[k] = q[k + 1]
         /\ \A k \in DOMAIN q : k \in Nat
<1>1. Len(q) \in Nat \ {0} /\ DOMAIN q = 1 .. Len(q)
  OBVIOUS
<1>2. Tail(q) \in Seq(S) /\ Len(Tail(q)) = Len(q) - 1 /\ DOMAIN Tail(q) = 1 .. Len(q) - 1
  BY <1>1
<1>3. \A k \in DOMAIN Tail(q) : Tail(q)[k] = q[k + 1]
  BY <1>1, <1>2
<1> QED BY <1>1, <1>2, <1>3

LEMMA Newest ==
  ASSUME NEW S, NEW q \in Seq(S), NEW m \in S
  PROVE  /\ Append(q, m) \in Seq(S)
         /\ \A k \in DOMAIN Append(q, m) :
              \/ k \in DOMAIN q /\ Append(q, m)[k] = q[k]
              \/ k = Len(q) + 1 /\ k \notin DOMAIN q /\ Append(q, m)[k] = m
  OBVIOUS

LEMMA InitTypes == Init => Owners
<1> SUFFICES ASSUME Init PROVE Owners
  OBVIOUS
<1>1. NoAnswer \in Answers
  BY DEF NoAnswer, Answers, NoToken
<1>2. sockqueue \in Seq([fd : Fd, ok : BOOLEAN, to : Token])
  BY DEF Init
<1>3. calls \in 0 .. MaxCalls /\ call \in [Caller -> 0 .. MaxCalls]
  BY SockBridgeAssumption DEF Init
<1>4. socket_started \in BOOLEAN /\ interface_started \in BOOLEAN /\ sweeping \in BOOLEAN
  BY DEF Init
<1>5. TypeOK
  BY <1>1, <1>2, <1>3, <1>4 DEF Init, TypeOK, None, NoToken, Ops
<1>6. Places /\ OneOwner
  BY DEF Init, Places, OneOwner, Held
<1> QED BY <1>5, <1>6 DEF Owners

LEMMA NextTypes == TypeOK /\ [Next]_vars => TypeOK'
<1> SUFFICES ASSUME TypeOK, [Next]_vars PROVE TypeOK'
  OBVIOUS
<1> USE DEF TypeOK, game, thread, started, entry, main, ios
<1>1. ASSUME NEW c \in Caller, Begin(c) PROVE TypeOK'
  <2>1. calls' \in 0 .. MaxCalls /\ call' \in [Caller -> 0 .. MaxCalls]
    BY <1>1, SockBridgeAssumption DEF Begin
  <2>2. op' \in [Caller -> Ops]
    BY <1>1 DEF Begin
  <2> QED BY <1>1, <2>1, <2>2 DEF Begin, Goto
<1>2. ASSUME NEW c \in Caller, GetFD(c) PROVE TypeOK'
  BY <1>2 DEF GetFD, First, Goto
<1>3. ASSUME NEW c \in Caller, OpenInterface(c) PROVE TypeOK'
  BY <1>3 DEF OpenInterface, Goto
<1>4. ASSUME NEW c \in Caller, GetSubFD(c) PROVE TypeOK'
  BY <1>4 DEF GetSubFD, First, Goto
<1>5. ASSUME NEW c \in Caller, Post(c) PROVE TypeOK'
  <2>1. call[c] \in Token \cup {NoToken}
    BY SockBridgeAssumption DEF Token, NoToken
  <2>2. cmd' \in [Fd -> Token \cup {NoToken}] /\ ioctl_ppc' \in [Fd -> Calls \cup {None}]
    BY <1>5, <2>1, Kinds DEF Post
  <2>3. busy' \in [Fd -> BOOLEAN]
    BY <1>5 DEF Post, MarkBusy
  <2> QED BY <1>5, <2>2, <2>3 DEF Post, Goto
<1>6. ASSUME NEW c \in Caller, SpinEnds(c) PROVE TypeOK'
  BY <1>6 DEF SpinEnds, Goto
<1>7. ASSUME NEW c \in Caller, End(c) PROVE TypeOK'
  <2>1. ioctl_ppc' \in [Fd -> Calls \cup {None}]
    BY <1>7 DEF End
  <2>2. interface_started' \in BOOLEAN
    BY <1>7 DEF End
  <2>3. \E p \in {"freesub", "post", "free"} : pc' = [pc EXCEPT ![c] = p]
    BY <1>7 DEF End, Goto
  <2> QED BY <1>7, <2>1, <2>2, <2>3 DEF End
<1>8. ASSUME NEW c \in Caller, FreeSub(c) PROVE TypeOK'
  BY <1>8 DEF FreeSub, Goto
<1>9. ASSUME NEW c \in Caller, Free(c) PROVE TypeOK'
  <2>1. socket_started' \in BOOLEAN /\ interface_started' \in BOOLEAN
    BY <1>9 DEF Free
  <2> QED BY <1>9, <2>1 DEF Free, Goto
<1>10. CASE Interrupt
  BY <1>10 DEF Interrupt
<1>11. CASE Sweep
  <2>1. ioctl_arm' \in [Fd -> Calls \cup {None}] /\ net' \in [Fd -> Token \cup {NoToken}]
    BY <1>11 DEF Sweep, ClearEnded
  <2>2. soBusy' \in [Fd -> BOOLEAN]
    BY <1>11 DEF Sweep
  <2>3. sweeping' \in BOOLEAN
    BY <1>11 DEF Sweep
  <2> QED BY <1>11, <2>1, <2>2, <2>3 DEF Sweep
<1>12. CASE Flush
  BY <1>12 DEF Flush
<1>13. ASSUME NEW i \in Fd, Answer(i) PROVE TypeOK'
  <2>1. PICK ok \in BOOLEAN : sockqueue' = Append(sockqueue, [fd |-> i, ok |-> ok, to |-> net[i]])
    BY <1>13 DEF Answer
  <2>2. [fd |-> i, ok |-> ok, to |-> net[i]] \in [fd : Fd, ok : BOOLEAN, to : Token]
    BY <1>13 DEF Answer
  <2>3. sockqueue' \in Seq([fd : Fd, ok : BOOLEAN, to : Token])
    BY <2>1, <2>2
  <2>4. net' \in [Fd -> Token \cup {NoToken}]
    BY <1>13 DEF Answer
  <2> QED BY <1>13, <2>3, <2>4 DEF Answer
<1>14. CASE TakeAnswer
  <2>0. sockqueue # <<>> /\ sockqueue' = Tail(sockqueue)
    BY <1>14 DEF TakeAnswer
  <2>1. Head(sockqueue) \in Message
    BY <2>0, Oldest DEF Message
  <2>2. sockqueue' \in Seq(Message)
    BY <2>0, Oldest DEF Message
  <2>3. retval' \in [Fd -> Answers]
    <3>1. PICK m \in Message : m = Head(sockqueue)
      BY <2>1
    <3>2. [to |-> m.to, ok |-> m.ok] \in Answers
      BY DEF Message, Answers
    <3> QED BY <1>14, <3>1, <3>2 DEF TakeAnswer
  <2>4. busy' \in [Fd -> BOOLEAN] /\ soBusy' \in [Fd -> BOOLEAN]
    BY <1>14, <2>1 DEF TakeAnswer, Message
  <2>5. alarm' \in {"recv", "throw", "shutdown"} /\ hsp' \in Fd \cup {NoFd}
    BY <1>14, <2>1 DEF TakeAnswer, Queue, Message
  <2> QED BY <1>14, <2>2, <2>3, <2>4, <2>5 DEF TakeAnswer, Message
<1>15. CASE Acknowledged
  BY <1>15 DEF Acknowledged
<1>16. CASE UNCHANGED vars
  BY <1>16 DEF vars
<1> QED
  BY <1>1, <1>2, <1>3, <1>4, <1>5, <1>6, <1>7, <1>8, <1>9, <1>10, <1>11, <1>12, <1>13, <1>14,
     <1>15, <1>16
  DEF Next, Thread, SOCKUpdateRegisters, SOCKAlarm

\* A step that leaves everyone's descriptors alone.
LEMMA OwnersKept ==
  ASSUME OneOwner, UNCHANGED <<so_used, fd, sub>>
  PROVE  OneOwner'
  BY DEF OneOwner, Held

LEMMA OwnersStep == Owners /\ [Next]_vars => Owners'
<1> SUFFICES ASSUME Owners, [Next]_vars PROVE Places' /\ OneOwner'
  BY NextTypes DEF Owners
<1> USE DEF Owners
<1>1. ASSUME NEW c \in Caller, Begin(c) PROVE Places' /\ OneOwner'
  <2>1. UNCHANGED <<so_used, fd, sub>> /\ pc[c] = "idle" /\ pc' = [pc EXCEPT ![c] = "getfd"]
    BY <1>1 DEF Begin, At, Goto
  <2>2. call' = [call EXCEPT ![c] = calls + 1] /\ calls + 1 # NoToken
    BY <1>1, SockBridgeAssumption DEF Begin, NoToken, TypeOK
  <2>3. \E o : op' = [op EXCEPT ![c] = o]
    BY <1>1 DEF Begin
  <2>4. Places'
    BY <2>1, <2>2, <2>3 DEF Places, TypeOK
  <2> QED BY <2>1, <2>4, OwnersKept
<1>2. ASSUME NEW c \in Caller, GetFD(c) PROVE Places' /\ OneOwner'
  <2>1. PICK i \in Fd : ~so_used[i] /\ so_used' = [so_used EXCEPT ![i] = TRUE] /\ fd' = [fd EXCEPT ![c] = i]
    BY <1>2 DEF GetFD, First, IsFree
  <2>2. UNCHANGED <<op, sub, call>> /\ pc[c] = "getfd" /\ pc' = [pc EXCEPT ![c] = IF op[c] = "getmac" THEN "open" ELSE "post"]
    BY <1>2 DEF GetFD, At, Goto
  <2>3. sub[c] = NoFd /\ i # NoFd
    BY <2>2, Resting, Descriptors
  <2>4. Places'
    BY <2>1, <2>2, <2>3 DEF Places, TypeOK
  <2>5. ASSUME NEW d \in Caller PROVE Held(d)' = IF d = c THEN {i} ELSE Held(d)
    BY <2>1, <2>2, <2>3 DEF Held, TypeOK
  <2>6. \A d \in Caller : i \notin Held(d)
    BY <2>1 DEF OneOwner
  <2>7. \A j \in Fd : so_used[j] => so_used'[j]
    BY <2>1 DEF TypeOK
  <2>8. \A d \in Caller : Held(d) \subseteq Fd
    BY DEF Held, TypeOK
  <2>9. so_used'[i]
    BY <2>1 DEF TypeOK
  <2>10. OneOwner'
    BY <2>5, <2>6, <2>7, <2>8, <2>9 DEF OneOwner
  <2> QED BY <2>4, <2>10
<1>3. ASSUME NEW c \in Caller, OpenInterface(c) PROVE Places' /\ OneOwner'
  <2>1. UNCHANGED <<so_used, fd, sub, op, call>> /\ pc[c] = "open"
    BY <1>3 DEF OpenInterface, At
  <2>2. pc' = [pc EXCEPT ![c] = IF interface_started THEN "post" ELSE "getsub"]
    BY <1>3 DEF OpenInterface, Goto
  <2>3. Places'
    BY <2>1, <2>2 DEF Places, TypeOK
  <2> QED BY <2>1, <2>3, OwnersKept
<1>4. ASSUME NEW c \in Caller, GetSubFD(c) PROVE Places' /\ OneOwner'
  <2>1. PICK i \in Fd : ~so_used[i] /\ so_used' = [so_used EXCEPT ![i] = TRUE] /\ sub' = [sub EXCEPT ![c] = i]
    BY <1>4 DEF GetSubFD, First, IsFree
  <2>2. UNCHANGED <<op, fd, call>> /\ pc[c] = "getsub" /\ pc' = [pc EXCEPT ![c] = "post"]
    BY <1>4 DEF GetSubFD, At, Goto
  <2>3. sub[c] = NoFd /\ i # NoFd /\ fd[c] # i
    BY <2>1, <2>2, Holding, Descriptors DEF Places
  <2>4. op[c] = "getmac"
    BY <2>2 DEF Places
  <2>5. Places'
    BY <2>1, <2>2, <2>3, <2>4 DEF Places, TypeOK
  <2>6. ASSUME NEW d \in Caller PROVE Held(d)' = IF d = c THEN Held(d) \cup {i} ELSE Held(d)
    BY <2>1, <2>2, <2>3 DEF Held, TypeOK
  <2>7. \A d \in Caller : i \notin Held(d)
    BY <2>1 DEF OneOwner
  <2>8. \A j \in Fd : so_used[j] => so_used'[j]
    BY <2>1 DEF TypeOK
  <2>9. \A d \in Caller : Held(d) \subseteq Fd
    BY DEF Held, TypeOK
  <2>10. so_used'[i]
    BY <2>1 DEF TypeOK
  <2>11. OneOwner'
    BY <2>6, <2>7, <2>8, <2>9, <2>10 DEF OneOwner
  <2> QED BY <2>5, <2>11
<1>5. ASSUME NEW c \in Caller, Post(c) PROVE Places' /\ OneOwner'
  <2>1. UNCHANGED <<so_used, fd, sub, op, call>> /\ pc[c] = "post"
    BY <1>5 DEF Post, At
  <2>2. pc' = [pc EXCEPT ![c] = IF op[c] = "getmac" THEN "spin" ELSE "sleep"]
    BY <1>5 DEF Post, Goto
  <2>3. Places'
    BY <2>1, <2>2 DEF Places, TypeOK
  <2> QED BY <2>1, <2>3, OwnersKept
<1>6. ASSUME NEW c \in Caller, SpinEnds(c) PROVE Places' /\ OneOwner'
  <2>1. UNCHANGED <<so_used, fd, sub, op, call>> /\ pc[c] = "spin" /\ pc' = [pc EXCEPT ![c] = "end"]
    BY <1>6 DEF SpinEnds, At, Goto
  <2>2. Places'
    BY <2>1 DEF Places, TypeOK
  <2> QED BY <2>1, <2>2, OwnersKept
<1>7. ASSUME NEW c \in Caller, End(c) PROVE Places' /\ OneOwner'
  <2>1. UNCHANGED <<so_used, fd, sub, op, call>> /\ pc[c] = "end"
    BY <1>7 DEF End, At
  <2>2. PICK p \in {"freesub", "post", "free"} :
           pc' = [pc EXCEPT ![c] = p] /\ (p = "freesub" <=> CallOf(c) = "startinterface")
    BY <1>7 DEF End, Goto
  <2>3. p = "freesub" <=> sub[c] # NoFd
    BY <2>2, Kinds
  <2>4. Places'
    BY <2>1, <2>2, <2>3 DEF Places, TypeOK
  <2> QED BY <2>1, <2>4, OwnersKept
<1>8. ASSUME NEW c \in Caller, FreeSub(c) PROVE Places' /\ OneOwner'
  <2>1. UNCHANGED <<op, fd, call>> /\ pc[c] = "freesub"
    BY <1>8 DEF FreeSub, At
  <2>2. so_used' = [so_used EXCEPT ![sub[c]] = FALSE] /\ sub' = [sub EXCEPT ![c] = NoFd]
    BY <1>8 DEF FreeSub
  <2>3. PICK p \in {"post", "free"} : pc' = [pc EXCEPT ![c] = p]
    BY <1>8 DEF FreeSub, Goto
  <2>4. Places'
    BY <2>1, <2>2, <2>3 DEF Places, TypeOK
  <2>5. sub[c] \in Held(c) /\ sub[c] # fd[c] /\ sub[c] # NoFd
    BY <2>1 DEF Places, Held
  <2>6. ASSUME NEW d \in Caller PROVE Held(d)' = IF d = c THEN Held(d) \ {sub[c]} ELSE Held(d)
    <3>1. CASE d = c
      BY <2>1, <2>2, <2>5, <3>1 DEF Held, TypeOK
    <3>2. CASE d # c
      BY <2>1, <2>2, <3>2 DEF Held, TypeOK
    <3> QED BY <3>1, <3>2
  <2>7. \A j \in Fd : j # sub[c] /\ so_used[j] => so_used'[j]
    BY <2>2 DEF TypeOK
  <2>8. \A d \in Caller : Held(d) \subseteq Fd
    BY DEF Held, TypeOK
  <2>9. OneOwner'
    BY <2>5, <2>6, <2>7, <2>8 DEF OneOwner
  <2> QED BY <2>4, <2>9
<1>9. ASSUME NEW c \in Caller, Free(c) PROVE Places' /\ OneOwner'
  <2>1. UNCHANGED <<op, sub, call>> /\ pc[c] = "free" /\ pc' = [pc EXCEPT ![c] = "idle"]
    BY <1>9 DEF Free, At, Goto
  <2>2. so_used' = [so_used EXCEPT ![fd[c]] = FALSE] /\ fd' = [fd EXCEPT ![c] = NoFd]
    BY <1>9 DEF Free
  <2>3. sub[c] = NoFd /\ fd[c] \in Held(c)
    BY <2>1, Holding DEF Places
  <2>4. Places'
    BY <2>1, <2>2, <2>3 DEF Places, TypeOK
  <2>5. ASSUME NEW d \in Caller PROVE Held(d)' = IF d = c THEN {} ELSE Held(d)
    BY <2>1, <2>2, <2>3 DEF Held, TypeOK
  <2>6. \A j \in Fd : j # fd[c] /\ so_used[j] => so_used'[j]
    BY <2>2 DEF TypeOK
  <2>7. \A d \in Caller : Held(d) \subseteq Fd
    BY DEF Held, TypeOK
  <2>8. OneOwner'
    BY <2>3, <2>5, <2>6, <2>7 DEF OneOwner
  <2> QED BY <2>4, <2>8
<1>10. CASE Interrupt
  <2>1. UNCHANGED <<so_used, fd, sub, op, call>>
    BY <1>10 DEF Interrupt
  <2>2. pc' = [c \in Caller |-> IF pc[c] = "sleep" /\ Cur(c) = hsp THEN "end" ELSE pc[c]]
    BY <1>10 DEF Interrupt
  <2>3. Places'
    BY <2>1, <2>2 DEF Places
  <2> QED BY <2>1, <2>3, OwnersKept
<1>11. CASE UNCHANGED <<so_used, thread>>
  <2>1. Places'
    BY <1>11 DEF Places, thread
  <2> QED BY <1>11, <2>1, OwnersKept DEF thread
<1> QED
  BY <1>1, <1>2, <1>3, <1>4, <1>5, <1>6, <1>7, <1>8, <1>9, <1>10, <1>11
  DEF Next, vars, Thread, SOCKUpdateRegisters, SOCKAlarm, Sweep, Flush, Answer, TakeAnswer,
      Acknowledged, game

-----------------------------------------------------------------------------
(* The kernel's side                                                       *)

LEMMA SingleStep == TypeOK /\ Single /\ [Next]_vars => Single'
<1> SUFFICES ASSUME TypeOK, Single, [Next]_vars PROVE Single'
  OBVIOUS
<1>1. sockqueue \in Seq(Message)
  BY DEF TypeOK, Message
<1>2. \A k \in DOMAIN sockqueue : sockqueue[k].fd \in Fd
  BY Waiting
<1>3. CASE Sweep
  <2>1. sockqueue' = sockqueue
    BY <1>3 DEF Sweep
  <2>2. \A i \in Fd : soBusy[i] => soBusy'[i] /\ net'[i] = net[i]
    BY <1>3 DEF Sweep, New, TypeOK
  <2>3. \A i \in Fd : net'[i] # NoToken => soBusy'[i]
    BY <1>3 DEF Sweep, TypeOK, Single
  <2> QED BY <1>2, <2>1, <2>2, <2>3 DEF Single
<1>4. ASSUME NEW i \in Fd, Answer(i) PROVE Single'
  <2>1. PICK m \in Message : m.fd = i /\ sockqueue' = Append(sockqueue, m)
    <3>1. PICK ok \in BOOLEAN : sockqueue' = Append(sockqueue, [fd |-> i, ok |-> ok, to |-> net[i]])
      BY <1>4 DEF Answer
    <3>2. [fd |-> i, ok |-> ok, to |-> net[i]] \in Message
      BY <1>4 DEF Answer, Message, TypeOK
    <3> QED BY <3>1, <3>2
  <2>2. soBusy' = soBusy /\ net' = [net EXCEPT ![i] = NoToken] /\ net[i] # NoToken /\ soBusy[i]
    BY <1>4 DEF Answer, Single
  <2>3. \A k \in DOMAIN sockqueue' :
           \/ k \in DOMAIN sockqueue /\ sockqueue'[k] = sockqueue[k]
           \/ k = Len(sockqueue) + 1 /\ sockqueue'[k] = m
    BY <1>1, <2>1, Newest
  <2>4. \A k \in DOMAIN sockqueue : sockqueue[k].fd # i
    BY <2>2 DEF Single
  <2>5. \A j \in Fd : net'[j] # NoToken => soBusy'[j]
    BY <2>2 DEF TypeOK, Single
  <2>6. \A k \in DOMAIN sockqueue' : soBusy'[sockqueue'[k].fd] /\ net'[sockqueue'[k].fd] = NoToken
    BY <1>2, <2>1, <2>2, <2>3, <2>4 DEF TypeOK, Single
  <2>7. \A k, l \in DOMAIN sockqueue' : sockqueue'[k].fd = sockqueue'[l].fd => k = l
    BY <2>1, <2>3, <2>4 DEF Single
  <2> QED BY <2>5, <2>6, <2>7 DEF Single
<1>5. CASE TakeAnswer
  <2>1. sockqueue # <<>> /\ sockqueue' = Tail(sockqueue) /\ net' = net
    BY <1>5 DEF TakeAnswer
  <2>2. PICK j \in Fd : j = sockqueue[1].fd /\ 1 \in DOMAIN sockqueue /\ Head(sockqueue) = sockqueue[1]
    BY <1>1, <1>2, <2>1, Oldest
  <2>3. \A i \in Fd : i # j => soBusy'[i] = soBusy[i]
    BY <1>5, <2>2 DEF TakeAnswer, TypeOK
  <2>4. \A k \in DOMAIN sockqueue' :
           k + 1 \in DOMAIN sockqueue /\ sockqueue'[k] = sockqueue[k + 1] /\ k + 1 # 1 /\ k \in Nat
    <3>1. \A k \in DOMAIN sockqueue' :
             k + 1 \in DOMAIN sockqueue /\ sockqueue'[k] = sockqueue[k + 1] /\ k + 1 # 1
      BY <1>1, <2>1, Oldest
    <3>2. sockqueue' \in Seq(Message)
      BY <1>1, <2>1, Oldest
    <3>3. \A k \in DOMAIN sockqueue' : k \in Nat
      BY <3>2
    <3> QED BY <3>1, <3>3
  <2>5. net[j] = NoToken
    BY <2>2 DEF Single
  <2>6. \A i \in Fd : net'[i] # NoToken => soBusy'[i]
    BY <2>1, <2>3, <2>5 DEF Single
  <2>7. \A k \in DOMAIN sockqueue' : sockqueue'[k].fd # j
    BY <2>2, <2>4 DEF Single
  <2>8. \A k \in DOMAIN sockqueue' : soBusy'[sockqueue'[k].fd] /\ net'[sockqueue'[k].fd] = NoToken
    BY <1>2, <2>1, <2>3, <2>4, <2>7 DEF Single
  <2>9. \A k, l \in DOMAIN sockqueue' : sockqueue'[k].fd = sockqueue'[l].fd => k = l
    BY <2>4 DEF Single
  <2> QED BY <2>6, <2>8, <2>9 DEF Single
<1>6. CASE UNCHANGED <<soBusy, net, sockqueue>>
  BY <1>6 DEF Single
<1> QED
  BY <1>3, <1>4, <1>5, <1>6
  DEF Next, vars, Thread, SOCKUpdateRegisters, SOCKAlarm, Begin, GetFD, OpenInterface, GetSubFD,
      Post, SpinEnds, End, FreeSub, Free, Interrupt, Flush, Acknowledged, ios

LEMMA FlushedStep ==
  ASSUME ~QuickAnswers, Owners, Flushed, [Next]_vars
  PROVE  Flushed'
<1> USE DEF Owners
<1>1. ASSUME NEW c \in Caller, Post(c) PROVE Flushed'
  <2>1. call[c] # NoToken /\ cmd' = [cmd EXCEPT ![Cur(c)] = call[c]]
    BY <1>1 DEF Post, At, Places
  <2>2. UNCHANGED <<armFlushed, ioctl_arm, net, sweeping>> /\ ioctl_ppc' = [ioctl_ppc EXCEPT ![Cur(c)] = CallOf(c)]
    BY <1>1 DEF Post, main, ios
  <2> QED BY <2>1, <2>2 DEF Flushed, TypeOK
<1>2. ASSUME NEW c \in Caller, End(c) PROVE Flushed'
  <2>1. UNCHANGED <<armFlushed, ioctl_arm, net, sweeping, cmd>> /\ ioctl_ppc' = [ioctl_ppc EXCEPT ![Cur(c)] = None]
    BY <1>2 DEF End, main, ios, entry
  <2> QED BY <2>1 DEF Flushed, TypeOK
<1>3. CASE Sweep
  <2>1. armFlushed = ioctl_arm /\ armFlushed' = armFlushed /\ sweeping' /\ UNCHANGED <<ioctl_ppc, cmd>>
    BY <1>3 DEF Sweep, Flushed, game, entry
  <2>2. \A i \in Fd : ioctl_arm'[i] # None => ioctl_arm[i] # None \/ (New(i) /\ net'[i] = cmd[i])
    BY <1>3 DEF Sweep, ClearEnded
  <2> QED BY <2>1, <2>2 DEF Flushed, New
<1>4. CASE Flush
  BY <1>4 DEF Flush, Flushed, game, entry, ios
<1>5. ASSUME NEW i \in Fd, Answer(i) PROVE Flushed'
  <2>1. ~sweeping /\ UNCHANGED <<ioctl_ppc, cmd, armFlushed, ioctl_arm, sweeping>>
    BY <1>5 DEF Answer, game, entry, main
  <2> QED BY <2>1 DEF Flushed
<1>6. CASE UNCHANGED <<ioctl_ppc, cmd, armFlushed, ioctl_arm, net, sweeping>>
  BY <1>6 DEF Flushed
<1> QED
  BY <1>1, <1>2, <1>3, <1>4, <1>5, <1>6
  DEF Next, vars, Thread, SOCKUpdateRegisters, SOCKAlarm, Begin, GetFD, OpenInterface, GetSubFD,
      SpinEnds, FreeSub, Free, Interrupt, TakeAnswer, Acknowledged, ios, main, entry, game

\* A descriptor that is free in both senses is quiet.
LEMMA FreeIsQuiet ==
  ASSUME Single, Flushed, Released, NEW i \in Fd, IsFree(i)
  PROVE  Quiet(i)
  BY DEF Single, Flushed, Released, IsFree, Quiet

LEMMA ReleasedStep ==
  ASSUME IInv, [Next]_vars
  PROVE  Released'
<1> USE DEF IInv
<1>1. ASSUME NEW c \in Caller, GetFD(c) \/ GetSubFD(c) PROVE Released'
  <2>1. \A i \in Fd : so_used[i] => so_used'[i]
    BY <1>1 DEF GetFD, GetSubFD, Owners, TypeOK
  <2> QED BY <1>1, <2>1 DEF GetFD, GetSubFD, Released
<1>2. ASSUME NEW c \in Caller, Post(c) PROVE Released'
  <2>1. so_used[Cur(c)]
    BY <1>2, Holding DEF Post, At
  <2>2. \A i \in Fd : i # Cur(c) => ioctl_ppc'[i] = ioctl_ppc[i]
    BY <1>2 DEF Post, Owners, TypeOK
  <2> QED BY <1>2, <2>1, <2>2 DEF Post, Released
<1>3. ASSUME NEW c \in Caller, End(c) PROVE Released'
  <2>1. \A i \in Fd : ioctl_ppc'[i] = None \/ ioctl_ppc'[i] = ioctl_ppc[i]
    BY <1>3 DEF End, Owners, TypeOK
  <2> QED BY <1>3, <2>1 DEF End, Released
<1>4. ASSUME NEW c \in Caller, FreeSub(c) PROVE Released'
  <2>1. sub[c] # NoFd /\ pc[c] = "freesub"
    BY <1>4 DEF FreeSub, At, Owners, Places
  <2>2. ioctl_ppc[sub[c]] = None /\ ~soBusy[sub[c]]
    BY <2>1 DEF Carried, CarriedBy, Cur
  <2>3. \A i \in Fd : i # sub[c] => so_used'[i] = so_used[i]
    BY <1>4 DEF FreeSub, Owners, TypeOK
  <2> QED BY <1>4, <2>2, <2>3 DEF FreeSub, Released
<1>5. ASSUME NEW c \in Caller, Free(c) PROVE Released'
  <2>1. sub[c] = NoFd /\ pc[c] = "free"
    BY <1>5 DEF Free, At, Owners, Places
  <2>2. ioctl_ppc[fd[c]] = None /\ ~soBusy[fd[c]]
    BY <2>1 DEF Carried, CarriedBy, Cur
  <2>3. \A i \in Fd : i # fd[c] => so_used'[i] = so_used[i]
    BY <1>5 DEF Free, Owners, TypeOK
  <2> QED BY <1>5, <2>2, <2>3 DEF Free, Released
<1>6. CASE Sweep
  <2>1. \A i \in Fd : ioctl_ppc[i] = None => soBusy'[i] = soBusy[i]
    BY <1>6 DEF Sweep, New, Owners, TypeOK
  <2> QED BY <1>6, <2>1 DEF Sweep, Released, game
<1>7. CASE TakeAnswer
  <2>1. \A i \in Fd : soBusy'[i] => soBusy[i]
    BY <1>7 DEF TakeAnswer, Owners, TypeOK
  <2> QED BY <1>7, <2>1 DEF TakeAnswer, Released, game
<1>8. CASE UNCHANGED <<so_used, ioctl_ppc, soBusy>>
  BY <1>8 DEF Released
<1> QED
  BY <1>1, <1>2, <1>3, <1>4, <1>5, <1>6, <1>7, <1>8
  DEF Next, vars, Thread, SOCKUpdateRegisters, SOCKAlarm, Begin, OpenInterface,
      SpinEnds, Interrupt, Answer, Flush, Acknowledged, game

-----------------------------------------------------------------------------
(* Threads and their descriptors                                           *)

\* A thread whose place and whose descriptors a step leaves alone.
LEMMA Undisturbed ==
  ASSUME Owners, NEW d \in Caller, CarriedBy(d),
         pc'[d] = pc[d], op'[d] = op[d], fd'[d] = fd[d], sub'[d] = sub[d], call'[d] = call[d],
         UNCHANGED <<ioctl_arm, soBusy, net, sockqueue, retval, hsp>>,
         \A i \in Held(d) : ioctl_ppc'[i] = ioctl_ppc[i] /\ cmd'[i] = cmd[i] /\ busy'[i] = busy[i]
  PROVE  CarriedBy(d)'
<1>1. Cur(d)' = Cur(d) /\ CallOf(d)' = CallOf(d)
  BY DEF Cur, CallOf
<1>2. CASE pc[d] \in {"idle", "getfd"}
  BY <1>2, Resting DEF CarriedBy
<1>3. CASE pc[d] \notin {"idle", "getfd"}
  <2>1. /\ ioctl_ppc'[Cur(d)] = ioctl_ppc[Cur(d)] /\ cmd'[Cur(d)] = cmd[Cur(d)]
        /\ busy'[Cur(d)] = busy[Cur(d)] /\ ioctl_ppc'[fd[d]] = ioctl_ppc[fd[d]]
    BY <1>3, Holding
  <2> QED BY <1>1, <2>1 DEF CarriedBy, Quiet, Posted, Taken, Answered, Right
<1> QED BY <1>2, <1>3

\* What a thread does on its own.
LEMMA ThreadStep ==
  ASSUME ~NwcFails, IInv, NEW c \in Caller, Thread(c)
  PROVE  Carried'
<1> USE DEF IInv
<1>1. UNCHANGED <<ioctl_arm, soBusy, net, sockqueue, retval, hsp>>
  BY DEF Thread, Begin, GetFD, OpenInterface, GetSubFD, Post, SpinEnds, End, FreeSub, Free,
         main, ios, entry
<1>2. ASSUME NEW d \in Caller, d # c PROVE CarriedBy(d)'
  <2>1. pc'[d] = pc[d] /\ op'[d] = op[d] /\ fd'[d] = fd[d] /\ sub'[d] = sub[d] /\ call'[d] = call[d]
    BY <1>2 DEF Thread, Begin, GetFD, OpenInterface, GetSubFD, Post, SpinEnds, End, FreeSub, Free,
         Goto, Owners, TypeOK
  <2>2. \/ UNCHANGED <<ioctl_ppc, cmd, busy>>
        \/ /\ pc[c] \notin {"idle", "getfd"}
           /\ \A i \in Fd : i # Cur(c) => ioctl_ppc'[i] = ioctl_ppc[i] /\ cmd'[i] = cmd[i] /\ busy'[i] = busy[i]
    BY DEF Thread, Begin, GetFD, OpenInterface, GetSubFD, Post, SpinEnds, End, FreeSub, Free,
         At, MarkBusy, entry, Owners, TypeOK
  <2>3. Held(d) \subseteq Fd
    BY DEF Held, Owners, TypeOK
  <2>4. \A i \in Held(d) : ioctl_ppc'[i] = ioctl_ppc[i] /\ cmd'[i] = cmd[i] /\ busy'[i] = busy[i]
    BY <1>2, <2>2, <2>3, Holding
  <2> QED BY <1>1, <2>1, <2>4, Undisturbed DEF Carried
<1>3. CarriedBy(c)
  BY DEF Carried
<1>4. CarriedBy(c)'
  <2>1. CASE Begin(c)
    <3>1. pc[c] = "idle" /\ pc'[c] = "getfd" /\ sub' = sub
      BY <2>1 DEF Begin, At, Goto, Owners, TypeOK
    <3> QED BY <3>1, Resting DEF CarriedBy
  <2>2. CASE GetFD(c)
    <3>1. PICK i \in Fd : IsFree(i) /\ fd' = [fd EXCEPT ![c] = i]
      BY <2>2 DEF GetFD, First
    <3>2. pc[c] = "getfd" /\ pc'[c] \in {"open", "post"} /\ sub' = sub /\ ioctl_ppc' = ioctl_ppc
      BY <2>2 DEF GetFD, At, Goto, Owners, TypeOK
    <3>3. sub[c] = NoFd /\ fd'[c] = i
      BY <3>1, <3>2, Resting DEF Owners, TypeOK
    <3>4. Quiet(i)
      BY <3>1, FreeIsQuiet
    <3>5. Cur(c)' = i
      BY <3>2, <3>3 DEF Cur
    <3>6. Quiet(Cur(c))'
      BY <1>1, <3>2, <3>4, <3>5 DEF Quiet
    <3> QED BY <3>2, <3>3, <3>6 DEF CarriedBy
  <2>3. CASE OpenInterface(c)
    <3>1. pc[c] = "open" /\ pc'[c] \in {"post", "getsub"} /\ UNCHANGED <<fd, sub, ioctl_ppc>>
      BY <2>3 DEF OpenInterface, At, Goto, Owners, TypeOK
    <3> QED BY <1>1, <1>3, <3>1 DEF CarriedBy, Quiet, Cur
  <2>4. CASE GetSubFD(c)
    <3>1. PICK i \in Fd : IsFree(i) /\ sub' = [sub EXCEPT ![c] = i]
      BY <2>4 DEF GetSubFD, First
    <3>2. pc[c] = "getsub" /\ pc'[c] = "post" /\ fd' = fd /\ ioctl_ppc' = ioctl_ppc
      BY <2>4 DEF GetSubFD, At, Goto, Owners, TypeOK
    <3>3. sub[c] = NoFd /\ sub'[c] = i /\ i # NoFd
      BY <3>1, <3>2, Descriptors DEF Owners, Places, TypeOK
    <3>4. Quiet(i) /\ Quiet(fd[c])
      BY <1>3, <3>1, <3>2, <3>3, FreeIsQuiet DEF CarriedBy, Cur
    <3>5. Cur(c)' = i
      BY <3>3 DEF Cur
    <3>6. Quiet(Cur(c))' /\ Quiet(fd[c])'
      BY <1>1, <3>2, <3>4, <3>5 DEF Quiet
    <3> QED BY <3>2, <3>6 DEF CarriedBy
  <2>5. CASE Post(c)
    <3>1. pc[c] = "post" /\ hsp = NoFd /\ UNCHANGED <<op, fd, sub, call>> /\ pc'[c] \in {"spin", "sleep"}
      BY <2>5 DEF Post, At, Goto, Owners, TypeOK
    <3>2. Quiet(Cur(c)) /\ Cur(c) \in Fd /\ Cur(c)' = Cur(c) /\ CallOf(c)' = CallOf(c)
      BY <1>3, <3>1, Holding DEF CarriedBy, Cur, CallOf
    <3>3. ioctl_ppc'[Cur(c)] = CallOf(c) /\ cmd'[Cur(c)] = call[c] /\ busy'[Cur(c)]
      BY <2>5, <3>2 DEF Post, MarkBusy, Owners, TypeOK
    <3>4. sub[c] # NoFd => Cur(c) # fd[c] /\ ioctl_ppc'[fd[c]] = ioctl_ppc[fd[c]]
      BY <2>5, <3>1, Holding DEF Post, Cur, Owners, Places, TypeOK
    <3>5. hsp' # Cur(c)
      BY <1>1, <3>1, <3>2, Descriptors
    <3>6. Posted(Cur(c))'
      BY <1>1, <3>2, <3>3 DEF Posted, Quiet
    <3>7. sub'[c] # NoFd => Quiet(fd[c])'
      BY <1>1, <1>3, <3>1, <3>4 DEF CarriedBy, Quiet
    <3> QED BY <3>1, <3>2, <3>3, <3>5, <3>6, <3>7 DEF CarriedBy
  <2>6. CASE SpinEnds(c)
    <3>1. pc[c] = "spin" /\ pc'[c] = "end" /\ ~busy[Cur(c)]
      BY <2>6 DEF SpinEnds, At, Goto, Owners, TypeOK
    <3>2. UNCHANGED <<ioctl_ppc, op, fd, sub, call, busy>>
      BY <2>6 DEF SpinEnds, entry
    <3>3. Answered(c, Cur(c)) /\ ioctl_ppc[Cur(c)] = CallOf(c)
      BY <1>3, <3>1 DEF CarriedBy, Posted, Taken
    <3> QED BY <1>1, <1>3, <3>1, <3>2, <3>3 DEF CarriedBy, Answered, Right, Quiet, Cur, CallOf
  <2>7. CASE End(c)
    <3>1. pc[c] = "end" /\ UNCHANGED <<op, fd, sub, call>> /\ ioctl_ppc' = [ioctl_ppc EXCEPT ![Cur(c)] = None]
      BY <2>7 DEF End, At
    <3>2. Answered(c, Cur(c)) /\ Cur(c) \in Fd
      BY <1>3, <3>1, Holding DEF CarriedBy
    <3>3. pc'[c] \in {"freesub", "free"}
      BY <2>7, <3>2 DEF End, Goto, Answered, Right, Owners, TypeOK
    <3>4. ioctl_ppc'[Cur(c)] = None /\ ~soBusy'[Cur(c)] /\ Cur(c)' = Cur(c)
      BY <1>1, <3>1, <3>2 DEF Answered, Cur, Owners, TypeOK
    <3>5. sub[c] # NoFd => ioctl_ppc'[fd[c]] = ioctl_ppc[fd[c]]
      BY <3>1, Holding DEF Cur, Owners, Places, TypeOK
    <3> QED BY <1>1, <1>3, <3>1, <3>3, <3>4, <3>5 DEF CarriedBy, Quiet
  <2>8. CASE FreeSub(c)
    <3>1. pc[c] = "freesub" /\ pc'[c] \in {"post", "free"} /\ sub'[c] = NoFd /\ UNCHANGED <<ioctl_ppc, fd>>
      BY <2>8 DEF FreeSub, At, Goto, Owners, TypeOK
    <3>2. Quiet(fd[c]) /\ Cur(c)' = fd[c]
      BY <1>3, <3>1 DEF CarriedBy, Cur, Owners, Places
    <3>3. Quiet(Cur(c))'
      BY <1>1, <3>1, <3>2 DEF Quiet
    <3> QED BY <3>1, <3>3 DEF CarriedBy, Quiet
  <2>9. CASE Free(c)
    <3>1. pc[c] = "free" /\ pc'[c] = "idle" /\ sub' = sub
      BY <2>9 DEF Free, At, Goto, Owners, TypeOK
    <3> QED BY <3>1 DEF CarriedBy, Owners, Places
  <2> QED BY <2>1, <2>2, <2>3, <2>4, <2>5, <2>6, <2>7, <2>8, <2>9 DEF Thread
<1> QED BY <1>2, <1>4 DEF Carried

\* The sweep takes what is posted and nothing else.
LEMMA SweepStep ==
  ASSUME IInv, Sweep
  PROVE  Carried'
<1> SUFFICES ASSUME NEW c \in Caller PROVE CarriedBy(c)'
  BY DEF Carried
<1>1. UNCHANGED <<game, entry, sockqueue, hsp>>
  BY DEF Sweep
<1>2. Cur(c)' = Cur(c) /\ CallOf(c)' = CallOf(c)
  BY <1>1 DEF Cur, CallOf, game, thread
<1>3. CarriedBy(c)
  BY DEF IInv, Carried
<1>4. ASSUME NEW i \in Fd, ~New(i) PROVE soBusy'[i] = soBusy[i] /\ net'[i] = net[i] /\ ioctl_arm'[i] = ClearEnded(i)
  BY <1>4 DEF Sweep, IInv, Owners, TypeOK
<1>5. ASSUME NEW i \in Fd, Quiet(i) PROVE Quiet(i)'
  BY <1>1, <1>4, <1>5 DEF Quiet, New, ClearEnded, game
<1>6. CASE pc[c] \in {"idle", "getfd"}
  BY <1>1, <1>6, Resting DEF CarriedBy, IInv, game, thread
<1>7. CASE pc[c] \notin {"idle", "getfd"}
  <2>1. PICK i \in Fd : i = Cur(c) /\ fd[c] \in Fd
    BY <1>7, Holding DEF IInv
  <2>2. CallOf(c) # None
    BY Kinds DEF IInv, Owners
  <2>3. sub'[c] # NoFd => Quiet(fd[c])'
    BY <1>1, <1>3, <1>5, <2>1 DEF CarriedBy, game, thread
  <2>4. pc'[c] \in {"open", "getsub", "post"} => Quiet(i)'
    BY <1>1, <1>3, <1>5, <2>1 DEF CarriedBy, game, thread
  <2>5. CASE pc[c] \in {"spin", "sleep"}
    <3>1. ioctl_ppc[i] = CallOf(c) /\ cmd[i] = call[c]
      BY <1>3, <2>1, <2>5 DEF CarriedBy
    <3>2. ASSUME Posted(i) PROVE Taken(c, i)'
      <4>1. New(i)
        BY <2>2, <3>1, <3>2 DEF New, Posted
      <4>2. ioctl_arm'[i] = CallOf(c) /\ soBusy'[i] /\ net'[i] = call[c] /\ busy'[i]
        BY <1>1, <3>1, <3>2, <4>1 DEF Sweep, Posted, entry
      <4>3. \A k \in DOMAIN sockqueue : sockqueue[k].fd # i
        BY <3>2 DEF Posted, IInv, Single
      <4> QED BY <1>1, <1>2, <4>2, <4>3 DEF Taken, game, thread
    <3>3. ASSUME Taken(c, i) PROVE Taken(c, i)'
      <4>1. ~New(i) /\ ClearEnded(i) = ioctl_arm[i]
        BY <2>2, <3>1, <3>3 DEF New, Taken, ClearEnded
      <4> QED BY <1>1, <1>2, <1>4, <3>3, <4>1 DEF Taken, Right, game, thread, entry
    <3>4. ASSUME Answered(c, i) PROVE Answered(c, i)'
      <4>1. ~New(i) /\ ClearEnded(i) = ioctl_arm[i]
        BY <2>2, <3>1, <3>4 DEF New, Answered, ClearEnded
      <4> QED BY <1>1, <1>2, <1>4, <3>4, <4>1 DEF Answered, Right, game, thread, entry
    <3>5. Posted(i) \/ Taken(c, i) \/ Answered(c, i)
      BY <1>3, <2>1, <2>5 DEF CarriedBy
    <3>6. Posted(i)' \/ Taken(c, i)' \/ Answered(c, i)'
      BY <3>2, <3>3, <3>4, <3>5
    <3> QED BY <1>1, <1>2, <1>3, <2>1, <2>3, <2>5, <3>6 DEF CarriedBy, game, thread, entry
  <2>6. CASE pc[c] = "end"
    <3>1. Answered(c, i) /\ ioctl_ppc[i] = CallOf(c)
      BY <1>3, <2>1, <2>6 DEF CarriedBy
    <3>2. ~New(i) /\ ClearEnded(i) = ioctl_arm[i]
      BY <2>2, <3>1 DEF New, Answered, ClearEnded
    <3>3. Answered(c, i)'
      BY <1>1, <1>2, <1>4, <3>1, <3>2 DEF Answered, Right, game, thread, entry
    <3> QED BY <1>1, <1>2, <2>1, <2>3, <2>6, <3>1, <3>3 DEF CarriedBy, game, thread
  <2>7. CASE pc[c] \in {"freesub", "free"}
    <3>1. ioctl_ppc[i] = None /\ ~soBusy[i]
      BY <1>3, <2>1, <2>7 DEF CarriedBy
    <3>2. ~soBusy'[i]
      BY <1>4, <3>1 DEF New
    <3> QED BY <1>1, <1>2, <2>1, <2>3, <2>7, <3>1, <3>2 DEF CarriedBy, game, thread
  <2>8. CASE pc[c] \in {"open", "getsub", "post"}
    BY <1>1, <1>2, <2>1, <2>3, <2>4, <2>8 DEF CarriedBy, game, thread
  <2> QED BY <1>7, <2>5, <2>6, <2>7, <2>8 DEF IInv, Owners, TypeOK
<1> QED BY <1>6, <1>7

\* IOS answers the request it was given; only a start of the interface may have failed.
LEMMA AnswerStep ==
  ASSUME ~NwcFails, IInv, NEW i \in Fd, Answer(i)
  PROVE  Carried'
<1> SUFFICES ASSUME NEW c \in Caller PROVE CarriedBy(c)'
  BY DEF Carried
<1>1. UNCHANGED <<game, entry, soBusy, ioctl_arm, hsp>> /\ net[i] # NoToken /\ net' = [net EXCEPT ![i] = NoToken]
  BY DEF Answer, main
<1>2. Cur(c)' = Cur(c) /\ CallOf(c)' = CallOf(c)
  BY <1>1 DEF Cur, CallOf, game, thread
<1>3. CarriedBy(c) /\ soBusy[i]
  BY <1>1 DEF IInv, Carried, Single
<1>4. PICK ok \in BOOLEAN : /\ ~ok => ioctl_arm[i] = "startinterface"
                            /\ sockqueue' = Append(sockqueue, [fd |-> i, ok |-> ok, to |-> net[i]])
  BY DEF Answer, MayFail
<1>5. \A k \in DOMAIN sockqueue' :
         \/ k \in DOMAIN sockqueue /\ sockqueue'[k] = sockqueue[k]
         \/ sockqueue'[k] = [fd |-> i, ok |-> ok, to |-> net[i]]
  <2>1. [fd |-> i, ok |-> ok, to |-> net[i]] \in Message
    BY <1>1 DEF Message, IInv, Owners, TypeOK
  <2>2. sockqueue \in Seq(Message)
    BY DEF Message, IInv, Owners, TypeOK
  <2> QED BY <1>4, <2>1, <2>2, Newest
<1>6. ASSUME Taken(c, Cur(c)) PROVE Taken(c, Cur(c))'
  <2>1. ASSUME NEW k \in DOMAIN sockqueue', sockqueue'[k].fd = Cur(c)
        PROVE  sockqueue'[k].to = call[c] /\ Right(c, sockqueue'[k].ok)
    <3>1. CASE k \in DOMAIN sockqueue /\ sockqueue'[k] = sockqueue[k]
      BY <1>6, <2>1, <3>1 DEF Taken
    <3>2. CASE sockqueue'[k] = [fd |-> i, ok |-> ok, to |-> net[i]]
      <4>1. Cur(c) = i /\ sockqueue'[k].to = net[i] /\ sockqueue'[k].ok = ok
        BY <2>1, <3>2
      <4>2. net[i] = call[c] /\ ioctl_arm[i] = CallOf(c)
        BY <1>1, <1>6, <4>1 DEF Taken
      <4>3. ok \/ CallOf(c) = "startinterface"
        BY <1>4, <4>2
      <4> QED BY <4>1, <4>2, <4>3 DEF Right
    <3> QED BY <1>5, <3>1, <3>2
  <2>2. net'[Cur(c)] # NoToken => net'[Cur(c)] = net[Cur(c)]
    BY <1>1 DEF IInv, Owners, TypeOK
  <2> QED BY <1>1, <1>2, <1>6, <2>1, <2>2 DEF Taken, Right, game, thread, entry
<1> QED BY <1>1, <1>2, <1>3, <1>6 DEF CarriedBy, Quiet, Posted, Answered, Right, game, thread, entry

\* SOCKAlarm hands the answer to the entry of its descriptor.
LEMMA TakeAnswerStep ==
  ASSUME IInv, TakeAnswer
  PROVE  Carried'
<1> SUFFICES ASSUME NEW c \in Caller PROVE CarriedBy(c)'
  BY DEF Carried
<1>1. UNCHANGED <<game, cmd, ioctl_arm, net>> /\ sockqueue # <<>> /\ sockqueue' = Tail(sockqueue)
  BY DEF TakeAnswer, main
<1>2. Cur(c)' = Cur(c) /\ CallOf(c)' = CallOf(c)
  BY <1>1 DEF Cur, CallOf, game, thread
<1>3. CarriedBy(c)
  BY DEF IInv, Carried
<1>4. sockqueue \in Seq(Message)
  BY DEF Message, IInv, Owners, TypeOK
<1>5. PICK m \in Message : m = Head(sockqueue) /\ m = sockqueue[1] /\ 1 \in DOMAIN sockqueue /\ m.fd \in Fd
  <2>1. Head(sockqueue) \in Message /\ Head(sockqueue) = sockqueue[1] /\ 1 \in DOMAIN sockqueue
    BY <1>1, <1>4, Oldest
  <2>2. sockqueue[1].fd \in Fd
    BY <2>1, Waiting DEF IInv, Owners
  <2> QED BY <2>1, <2>2
<1>6. soBusy[m.fd]
  BY <1>5 DEF IInv, Single
<1>7. \A k \in DOMAIN sockqueue' : k + 1 \in DOMAIN sockqueue /\ sockqueue'[k] = sockqueue[k + 1]
  BY <1>1, <1>4, Oldest
<1>8. \A j \in Fd : j # m.fd => soBusy'[j] = soBusy[j] /\ busy'[j] = busy[j] /\ retval'[j] = retval[j]
  BY <1>5 DEF TakeAnswer, IInv, Owners, TypeOK
<1>9. \A j \in Fd : soBusy'[j] => soBusy[j]
  BY <1>5 DEF TakeAnswer, IInv, Owners, TypeOK
<1>10. ASSUME NEW j \in Fd, Quiet(j) PROVE Quiet(j)'
  BY <1>1, <1>9, <1>10 DEF Quiet, game
<1>11. CASE pc[c] \in {"idle", "getfd"}
  BY <1>1, <1>11, Resting DEF CarriedBy, IInv, game, thread
<1>12. CASE pc[c] \notin {"idle", "getfd"}
  <2>1. PICK i \in Fd : i = Cur(c) /\ fd[c] \in Fd
    BY <1>12, Holding DEF IInv
  <2>2. sub'[c] # NoFd => Quiet(fd[c])'
    BY <1>1, <1>3, <1>10, <2>1 DEF CarriedBy, game, thread
  <2>3. CASE i = m.fd
    <3>1. pc[c] \in {"spin", "sleep"} /\ Taken(c, i) /\ ioctl_ppc[i] = CallOf(c) /\ cmd[i] = call[c]
      BY <1>3, <1>6, <1>12, <2>1, <2>3
      DEF CarriedBy, Quiet, Posted, Answered, IInv, Owners, TypeOK
    <3>2. m.to = call[c] /\ Right(c, m.ok) /\ ioctl_arm[i] = CallOf(c) /\ CallOf(c) # None
      BY <1>5, <2>3, <3>1, Kinds DEF Taken, IInv, Owners
    <3>3. /\ retval' = [retval EXCEPT ![i] = [to |-> m.to, ok |-> m.ok]]
          /\ busy' = [busy EXCEPT ![i] = FALSE] /\ soBusy' = [soBusy EXCEPT ![i] = FALSE]
      BY <1>5, <2>3, <3>2 DEF TakeAnswer
    <3>4. retval'[i].to = call[c] /\ retval'[i].ok = m.ok /\ ~busy'[i] /\ ~soBusy'[i]
      BY <3>2, <3>3 DEF IInv, Owners, TypeOK
    <3>5. Answered(c, i)'
      BY <1>1, <1>2, <3>2, <3>4 DEF Answered, Right, game, thread
    <3> QED BY <1>1, <1>2, <2>1, <2>2, <3>1, <3>4, <3>5 DEF CarriedBy, game, thread
  <2>4. CASE i # m.fd
    <3>1. soBusy'[i] = soBusy[i] /\ busy'[i] = busy[i] /\ retval'[i] = retval[i]
      BY <1>8, <2>4
    <3>2. Quiet(i) => Quiet(i)'
      BY <1>10
    <3>3. Taken(c, i) => Taken(c, i)'
      BY <1>1, <1>2, <1>7, <3>1 DEF Taken, Right, game, thread
    <3>4. Posted(i) => Posted(i)'
      BY <1>1, <3>1 DEF Posted
    <3>5. Answered(c, i) => Answered(c, i)'
      BY <1>1, <1>2, <3>1 DEF Answered, Right, game, thread
    <3>6. hsp' = i => hsp = i
      BY <1>5, <2>4 DEF TakeAnswer, Queue
    <3> QED BY <1>1, <1>2, <1>3, <2>1, <2>2, <3>1, <3>2, <3>3, <3>4, <3>5, <3>6 DEF CarriedBy, game, thread
  <2> QED BY <2>3, <2>4
<1> QED BY <1>11, <1>12

\* Who is woken has its answer.
LEMMA InterruptStep ==
  ASSUME IInv, Interrupt
  PROVE  Carried'
<1> SUFFICES ASSUME NEW c \in Caller PROVE CarriedBy(c)'
  BY DEF Carried
<1>1. UNCHANGED <<ioctl_ppc, op, fd, sub, call, cmd, busy, retval, soBusy, ioctl_arm, net, sockqueue>>
  BY DEF Interrupt, entry, main
<1>2. hsp' = NoFd /\ pc'[c] = IF pc[c] = "sleep" /\ Cur(c) = hsp THEN "end" ELSE pc[c]
  BY DEF Interrupt
<1>3. CarriedBy(c) /\ Cur(c)' = Cur(c) /\ CallOf(c)' = CallOf(c)
  BY <1>1 DEF IInv, Carried, Cur, CallOf
<1>4. Answered(c, Cur(c))' <=> Answered(c, Cur(c))
  BY <1>1, <1>3 DEF Answered, Right
<1>5. CASE pc[c] = "sleep" /\ Cur(c) = hsp
  <2>1. Answered(c, Cur(c)) /\ ioctl_ppc[Cur(c)] = CallOf(c)
    BY <1>3, <1>5 DEF CarriedBy, Posted, Taken
  <2>2. pc'[c] = "end"
    BY <1>2, <1>5
  <2> QED BY <1>1, <1>3, <1>4, <2>1, <2>2 DEF CarriedBy, Quiet
<1>6. CASE ~(pc[c] = "sleep" /\ Cur(c) = hsp)
  <2>1. pc'[c] = pc[c]
    BY <1>2, <1>6
  <2>2. pc[c] \in {"spin", "sleep"} => hsp' # Cur(c)
    BY <1>2, Holding, Descriptors DEF IInv
  <2> QED BY <1>1, <1>3, <1>4, <2>1, <2>2 DEF CarriedBy, Quiet, Posted, Taken, Right
<1> QED BY <1>5, <1>6

LEMMA CarriedStep ==
  ASSUME ~NwcFails, IInv, [Next]_vars
  PROVE  Carried'
<1>1. CASE UNCHANGED <<game, entry, soBusy, ioctl_arm, net, sockqueue, hsp>>
  <2> SUFFICES ASSUME NEW c \in Caller PROVE CarriedBy(c)'
    BY DEF Carried
  <2>1. CarriedBy(c) /\ Owners
    BY DEF IInv, Carried
  <2> QED BY <1>1, <2>1, Undisturbed DEF game, thread, entry
<1> QED
  BY <1>1, ThreadStep, SweepStep, AnswerStep, TakeAnswerStep, InterruptStep
  DEF Next, vars, SOCKUpdateRegisters, SOCKAlarm, Flush, Acknowledged, main, ios

LEMMA InitIInv == Init => IInv
<1> SUFFICES ASSUME Init PROVE IInv
  OBVIOUS
<1>1. Owners
  BY InitTypes
<1>2. Single /\ Flushed /\ Released
  BY DEF Init, Single, Flushed, Released
<1>3. Carried
  BY DEF Init, Carried, CarriedBy
<1> QED BY <1>1, <1>2, <1>3 DEF IInv

LEMMA NextIInv ==
  ASSUME ~NwcFails, ~QuickAnswers, IInv, [Next]_vars
  PROVE  IInv'
<1>1. Owners' /\ Single'
  BY OwnersStep, SingleStep DEF IInv, Owners
<1>2. Flushed'
  BY FlushedStep DEF IInv
<1>3. Released'
  BY ReleasedStep
<1>4. Carried'
  BY CarriedStep
<1> QED BY <1>1, <1>2, <1>3, <1>4 DEF IInv

-----------------------------------------------------------------------------
(* Theorems                                                                *)

\* The registers, entries and threads of the bridge keep their types, whether or not the
\* start-up fails and whenever IOS answers.
THEOREM SockTypes == Spec => []TypeOK
<1>1. Init => TypeOK
  BY InitTypes DEF Owners
<1> QED BY <1>1, NextTypes, PTL DEF Spec

\* Two threads never hold the same descriptor, nor does one count as free that a thread
\* holds (getFreeFD and freeUpFD), whatever IOS does.
THEOREM OneOwnerAlways == Spec => []OneOwner
<1>1. Owners => OneOwner
  BY DEF Owners
<1> QED BY <1>1, InitTypes, OwnersStep, PTL DEF Spec

\* If the network stack starts up and no answer overtakes a sweep, the kernel's bytes for a
\* descriptor are where the place of its owner says.
THEOREM SockInvariant ==
  ASSUME ~NwcFails, ~QuickAnswers
  PROVE  Spec => []IInv
<1>1. IInv /\ [Next]_vars => IInv'
  BY NextIInv
<1> QED BY <1>1, InitIInv, PTL DEF Spec

\* Under the same assumptions the kernel is done with whatever a descriptor was used for before
\* doCallStart posts the next call to it.
THEOREM FreeWhenPosted ==
  ASSUME ~NwcFails, ~QuickAnswers
  PROVE  Spec => []FreeOnIOSSide
<1>1. IInv => FreeOnIOSSide
  BY DEF IInv, Carried, CarriedBy, Quiet, FreeOnIOSSide, At
<1> QED BY <1>1, SockInvariant, PTL

\* Under the same assumptions a thread that wakes or stops spinning finds the answer to its own
\* call.
THEOREM AnswersMatch ==
  ASSUME ~NwcFails, ~QuickAnswers
  PROVE  Spec => []OwnAnswer
<1>1. IInv => OwnAnswer
  BY DEF IInv, Carried, CarriedBy, Answered, OwnAnswer, At
<1> QED BY <1>1, SockInvariant, PTL
===============================================================================
