------------------------------- MODULE SockBridge -------------------------------
(***************************************************************************)
(* The socket bridge: threads of the game post calls to IOS's network      *)
(* stack through one byte and one entry per file descriptor in shared      *)
(* memory (IOSInterface/source/sock.c); the kernel's main loop sweeps the  *)
(* bytes and issues the requests, and SOCKAlarm hands each answer back     *)
(* with an interrupt that wakes the thread (kernel/sock.c).  The two       *)
(* processors share no lock: a descriptor is free once the game has        *)
(* released it and the kernel's byte, as the game reads it, is zero.       *)
(***************************************************************************)
EXTENDS Integers, Sequences

CONSTANTS
    SOCurrentTotalFDs,  \* number of descriptors
    Caller,             \* threads of the game
    NwcFails,           \* can nwc_startup and nwc_cleanup fail?
    QuickAnswers,       \* can an answer overtake the sweep that sent its request?
    MaxCalls            \* bound: calls of all threads

ASSUME SockBridgeAssumption ==
    /\ SOCurrentTotalFDs \in Nat \ {0} /\ MaxCalls \in Nat
    /\ NwcFails \in BOOLEAN /\ QuickAnswers \in BOOLEAN

Fd == 0 .. SOCurrentTotalFDs - 1
NoFd == SOCurrentTotalFDs

\* SOStartup, SOCleanup, any call that sleeps until its answer, and one that spins
\* on it and needs the interface (IPGetMacAddr).
Ops == {"startup", "cleanup", "socket", "getmac"}
Calls == Ops \cup {"startinterface"}
None == "none"
Token == 1 .. MaxCalls       \* arguments and answers carry the number of their call
NoToken == 0
NoAnswer == [to |-> NoToken, ok |-> FALSE]

VARIABLES
    ioctl_ppc, ioctl_arm,     \* the calls as posted, and as the kernel took them
    armFlushed,               \* ioctl_arm as the game reads it
    cmd, busy, retval,        \* an entry: arguments, busy flag, result
    so_used,                  \* descriptors the game holds
    socket_started, interface_started,
    pc, op, fd, sub,          \* a thread: where it is, its call and its descriptors
    calls, call,              \* the number of calls, and of its last one
    soBusy,                   \* the kernel works on it
    sweeping,                 \* the main loop is inside its sweep
    net, sockqueue,           \* requests IOS works on, answers SOCKAlarm has to take
    alarm, hsp                \* SOCKAlarm, and the queue its interrupt wakes

entry == <<cmd, busy, retval>>
thread == <<pc, op, fd, sub, calls, call>>
started == <<socket_started, interface_started>>
game == <<ioctl_ppc, so_used, started, thread>>
main == <<ioctl_arm, armFlushed, sweeping>>
ios == <<net, sockqueue, alarm, hsp>>
vars == <<game, entry, soBusy, main, ios>>

-----------------------------------------------------------------------------
(* Threads of the game                                                     *)

Cur(c) == IF sub[c] # NoFd THEN sub[c] ELSE fd[c]
CallOf(c) == IF sub[c] # NoFd THEN "startinterface" ELSE op[c]
At(c, label) == pc[c] = label
Goto(c, label) == pc' = [pc EXCEPT ![c] = label]

Begin(c) ==
    /\ At(c, "idle") /\ calls < MaxCalls
    /\ \E o \in Ops :
          /\ o = "startup" => ~socket_started
          /\ o \in {"cleanup", "socket"} => socket_started
          /\ op' = [op EXCEPT ![c] = o]
    /\ calls' = calls + 1 /\ call' = [call EXCEPT ![c] = calls + 1]
    /\ Goto(c, "getfd")
    /\ UNCHANGED <<ioctl_ppc, so_used, started, fd, sub, entry, soBusy, main, ios>>

\* getFreeFD: the first free descriptor, or another try (slips: one of the two
\* conditions is forgotten).
FreeIgnoresUse(i) == armFlushed[i] = None
FreeIgnoresArm(i) == ~so_used[i]
IsFree(i) == armFlushed[i] = None /\ ~so_used[i]
First(i) == i \in Fd /\ IsFree(i) /\ \A j \in 0 .. i - 1 : ~IsFree(j)

GetFD(c) ==
    /\ At(c, "getfd")
    /\ \E i \in Fd :
          /\ First(i)
          /\ so_used' = [so_used EXCEPT ![i] = TRUE]
          /\ fd' = [fd EXCEPT ![c] = i]
    /\ Goto(c, IF op[c] = "getmac" THEN "open" ELSE "post")
    /\ UNCHANGED <<ioctl_ppc, started, op, sub, calls, call, entry, soBusy, main, ios>>

\* doStartSOInterface, with a descriptor of its own.
OpenInterface(c) ==
    /\ At(c, "open")
    /\ Goto(c, IF interface_started THEN "post" ELSE "getsub")
    /\ UNCHANGED <<ioctl_ppc, so_used, started, op, fd, sub, calls, call, entry, soBusy, main, ios>>

GetSubFD(c) ==
    /\ At(c, "getsub")
    /\ \E i \in Fd :
          /\ First(i)
          /\ so_used' = [so_used EXCEPT ![i] = TRUE]
          /\ sub' = [sub EXCEPT ![c] = i]
    /\ Goto(c, "post")
    /\ UNCHANGED <<ioctl_ppc, started, op, fd, calls, call, entry, soBusy, main, ios>>

\* doCallStart: interrupts are off from the post until the thread sleeps, and on
\* before, so that a pending one is taken first (slip: the entry is not marked busy).
NotMarked(i) == busy
MarkBusy(i) == [busy EXCEPT ![i] = TRUE]
Post(c) ==
    /\ At(c, "post") /\ hsp = NoFd
    /\ LET i == Cur(c) IN
          /\ cmd' = [cmd EXCEPT ![i] = call[c]]
          /\ busy' = MarkBusy(i)
          /\ ioctl_ppc' = [ioctl_ppc EXCEPT ![i] = CallOf(c)]
    /\ Goto(c, IF op[c] = "getmac" THEN "spin" ELSE "sleep")
    /\ UNCHANGED <<so_used, started, op, fd, sub, calls, call, retval, soBusy, main, ios>>

SpinEnds(c) ==
    /\ At(c, "spin") /\ ~busy[Cur(c)]
    /\ Goto(c, "end")
    /\ UNCHANGED <<ioctl_ppc, so_used, started, op, fd, sub, calls, call, entry, soBusy, main, ios>>

\* doCallEnd.
End(c) ==
    /\ At(c, "end")
    /\ ioctl_ppc' = [ioctl_ppc EXCEPT ![Cur(c)] = None]
    /\ LET ok == retval[Cur(c)].ok IN
          /\ interface_started' = (interface_started \/ (CallOf(c) = "startinterface" /\ ok))
          /\ Goto(c, CASE CallOf(c) = "startinterface" -> "freesub"
                       [] CallOf(c) \in {"startup", "cleanup"} /\ ~ok -> "post"
                       [] OTHER -> "free")
    /\ UNCHANGED <<so_used, socket_started, op, fd, sub, calls, call, entry, soBusy, main, ios>>

\* freeUpFD, and what the call leaves behind.
FreeSub(c) ==
    /\ At(c, "freesub")
    /\ so_used' = [so_used EXCEPT ![sub[c]] = FALSE]
    /\ sub' = [sub EXCEPT ![c] = NoFd]
    /\ Goto(c, IF interface_started THEN "post" ELSE "free")
    /\ UNCHANGED <<ioctl_ppc, started, op, fd, calls, call, entry, soBusy, main, ios>>

Free(c) ==
    /\ At(c, "free")
    /\ so_used' = [so_used EXCEPT ![fd[c]] = FALSE]
    /\ fd' = [fd EXCEPT ![c] = NoFd]
    /\ socket_started' = ((socket_started /\ op[c] # "cleanup") \/ op[c] = "startup")
    /\ interface_started' = ((interface_started /\ op[c] # "cleanup") \/ op[c] = "startup")
    /\ Goto(c, "idle")
    /\ UNCHANGED <<ioctl_ppc, op, sub, calls, call, entry, soBusy, main, ios>>

\* HSPIntrruptHandler acknowledges and wakes who sleeps on the queue.
Interrupt ==
    /\ hsp # NoFd
    /\ hsp' = NoFd
    /\ pc' = [c \in Caller |-> IF pc[c] = "sleep" /\ Cur(c) = hsp THEN "end" ELSE pc[c]]
    /\ UNCHANGED <<ioctl_ppc, so_used, started, op, fd, sub, calls, call, entry, soBusy, main, net, sockqueue, alarm>>

Thread(c) ==
    \/ Begin(c) \/ GetFD(c) \/ OpenInterface(c) \/ GetSubFD(c) \/ Post(c) \/ SpinEnds(c)
    \/ End(c) \/ FreeSub(c) \/ Free(c)

-----------------------------------------------------------------------------
(* The kernel                                                              *)

\* SOCKUpdateRegisters reads the posted calls at its start: what it does with one
\* depends on nothing that changes before it gets there (slip: an ended call is not
\* cleared).
New(i) == ioctl_ppc[i] # None /\ ~soBusy[i] /\ ioctl_arm[i] = None
KeepsEnded(i) == ioctl_arm[i]
ClearEnded(i) == IF ioctl_ppc[i] = None THEN None ELSE ioctl_arm[i]
Sweep ==
    /\ ~sweeping /\ sweeping' = TRUE
    /\ ioctl_arm' = [i \in Fd |-> IF New(i) THEN ioctl_ppc[i] ELSE ClearEnded(i)]
    /\ soBusy' = [i \in Fd |-> soBusy[i] \/ New(i)]
    /\ net' = [i \in Fd |-> IF New(i) THEN cmd[i] ELSE net[i]]
    /\ UNCHANGED <<game, entry, armFlushed, sockqueue, alarm, hsp>>

\* Its end writes ioctl_arm back from the cache.
Flush ==
    /\ sweeping /\ sweeping' = FALSE
    /\ armFlushed' = ioctl_arm
    /\ UNCHANGED <<game, entry, soBusy, ioctl_arm, ios>>

\* IOS answers requests in any order.
MayFail(k) ==
    \/ k = "startinterface"
    \/ k \in {"startup", "cleanup"} /\ NwcFails
Answer(i) ==
    /\ net[i] # NoToken
    /\ QuickAnswers \/ ~sweeping
    /\ \E ok \in BOOLEAN :
          /\ ~ok => MayFail(ioctl_arm[i])
          /\ sockqueue' = Append(sockqueue, [fd |-> i, ok |-> ok, to |-> net[i]])
    /\ net' = [net EXCEPT ![i] = NoToken]
    /\ UNCHANGED <<game, entry, soBusy, main, alarm, hsp>>

\* The interrupt carries the number of the queue (slip: with the thread flag on).
QueueFlagged(i) == i + SOCurrentTotalFDs + 1
Queue(i) == i

\* SOCKAlarm: the result, then the interrupt; a message for no call shuts the
\* console down.
TakeAnswer ==
    /\ alarm = "recv" /\ sockqueue # <<>>
    /\ sockqueue' = Tail(sockqueue)
    /\ LET m == Head(sockqueue) IN
          \/ /\ ioctl_arm[m.fd] # None
             /\ retval' = [retval EXCEPT ![m.fd] = [to |-> m.to, ok |-> m.ok]]
             /\ busy' = [busy EXCEPT ![m.fd] = FALSE]
             /\ soBusy' = [soBusy EXCEPT ![m.fd] = FALSE]
             /\ alarm' = "throw" /\ hsp' = Queue(m.fd)
          \/ /\ ioctl_arm[m.fd] = None
             /\ alarm' = "shutdown"
             /\ UNCHANGED <<retval, busy, soBusy, hsp>>
    /\ UNCHANGED <<game, cmd, main, net>>

\* The interrupt is thrown until it is acknowledged.
Acknowledged ==
    /\ alarm = "throw" /\ hsp = NoFd
    /\ alarm' = "recv"
    /\ UNCHANGED <<game, entry, soBusy, main, net, sockqueue, hsp>>

SOCKUpdateRegisters == Sweep \/ Flush
SOCKAlarm == TakeAnswer \/ Acknowledged

-----------------------------------------------------------------------------
\* No call in progress; the network stack may have been started by earlier ones.
Init ==
    /\ ioctl_ppc = [i \in Fd |-> None] /\ ioctl_arm = [i \in Fd |-> None]
    /\ armFlushed = [i \in Fd |-> None]
    /\ cmd = [i \in Fd |-> NoToken] /\ busy = [i \in Fd |-> FALSE]
    /\ retval = [i \in Fd |-> NoAnswer] /\ so_used = [i \in Fd |-> FALSE]
    /\ socket_started \in BOOLEAN /\ interface_started = socket_started
    /\ pc = [c \in Caller |-> "idle"] /\ op = [c \in Caller |-> "socket"]
    /\ fd = [c \in Caller |-> NoFd] /\ sub = [c \in Caller |-> NoFd]
    /\ calls = 0 /\ call = [c \in Caller |-> 0]
    /\ soBusy = [i \in Fd |-> FALSE]
    /\ sweeping = FALSE
    /\ net = [i \in Fd |-> NoToken] /\ sockqueue = <<>>
    /\ alarm = "recv" /\ hsp = NoFd

Next ==
    \/ \E c \in Caller : Thread(c)
    \/ Interrupt
    \/ SOCKUpdateRegisters
    \/ \E i \in Fd : Answer(i)
    \/ SOCKAlarm

\* Threads run, the main loop sweeps, the interrupt is taken, and IOS answers, be it
\* between two sweeps.
Fairness ==
    /\ \A c \in Caller : WF_vars(Thread(c) /\ ~At(c, "idle"))
    /\ WF_vars(Interrupt) /\ WF_vars(SOCKUpdateRegisters) /\ WF_vars(SOCKAlarm)
    /\ SF_vars(\E i \in Fd : Answer(i))

Spec == Init /\ [][Next]_vars /\ Fairness

-----------------------------------------------------------------------------
(* Properties                                                              *)

Answers == [to : Token \cup {NoToken}, ok : BOOLEAN]
TypeOK ==
    /\ ioctl_ppc \in [Fd -> Calls \cup {None}] /\ ioctl_arm \in [Fd -> Calls \cup {None}]
    /\ armFlushed \in [Fd -> Calls \cup {None}] /\ sweeping \in BOOLEAN
    /\ cmd \in [Fd -> Token \cup {NoToken}] /\ net \in [Fd -> Token \cup {NoToken}]
    /\ busy \in [Fd -> BOOLEAN] /\ soBusy \in [Fd -> BOOLEAN] /\ so_used \in [Fd -> BOOLEAN]
    /\ retval \in [Fd -> Answers]
    /\ socket_started \in BOOLEAN /\ interface_started \in BOOLEAN
    /\ pc \in [Caller -> {"idle", "getfd", "open", "getsub", "post", "spin", "sleep", "end",
                          "freesub", "free"}]
    /\ op \in [Caller -> Ops] /\ fd \in [Caller -> Fd \cup {NoFd}] /\ sub \in [Caller -> Fd \cup {NoFd}]
    /\ calls \in 0 .. MaxCalls /\ call \in [Caller -> 0 .. MaxCalls]
    /\ sockqueue \in Seq([fd : Fd, ok : BOOLEAN, to : Token])
    /\ alarm \in {"recv", "throw", "shutdown"} /\ hsp \in Fd \cup {NoFd}

\* getFreeFD hands a descriptor to one thread at a time, also while a thread holds
\* a second one for so_startinterface.
Held(c) == {fd[c], sub[c]} \ {NoFd}
OneOwner ==
    /\ \A c, d \in Caller : c # d => Held(c) \cap Held(d) = {}
    /\ \A c \in Caller : \A i \in Held(c) : so_used[i]

\* A thread that stops waiting finds the answer to the call it posted last, not one
\* of an earlier user of the descriptor.
OwnAnswer ==
    \A c \in Caller : At(c, "end") => retval[Cur(c)].to = call[c]

\* sock.c:205 (IOSInterface): a call is posted only to a descriptor that is "free on
\* IOS side", or the kernel takes it for the one before.
FreeOnIOSSide ==
    \A c \in Caller : At(c, "post") => ioctl_arm[Cur(c)] = None /\ ~soBusy[Cur(c)]

\* Every call of the game returns.
CallsEnd == \A c \in Caller : ~At(c, "idle") ~> At(c, "idle")
=============================================================================
