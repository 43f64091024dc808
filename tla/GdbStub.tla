-------------------------------- MODULE GdbStub --------------------------------
(***************************************************************************)
(* The debugger stub (kernel/gdb.c).  A thread of the kernel serves one    *)
(* GDB connection and patches the game's code in memory; the PowerPC halts *)
(* in an exception handler of its own, and the two meet in a block of      *)
(* shared words: STATE, HALT_REQ, MAGIC, the registers, and a list of the  *)
(* addresses whose instruction-cache line the PowerPC has to drop before   *)
(* it runs the game again.                                                 *)
(*                                                                         *)
(* The handler on the PowerPC is not in the repository: its steps are what *)
(* gdb.c relies on, and are marked external.                               *)
(***************************************************************************)
EXTENDS Naturals, FiniteSets

CONSTANTS
    MaxAddr,             \* code addresses are 1 .. MaxAddr, a cache line each
    GDB_MAX_BREAKPOINTS, \* slots of the breakpoint table
    InvalMax,            \* entries of the invalidation list
    Thrifty              \* does GDB change few enough addresses between two resumptions
                         \* for the list to hold them, and one line at a time?

ASSUME GdbStubAssumption ==
    /\ MaxAddr \in Nat \ {0} /\ GDB_MAX_BREAKPOINTS \in Nat /\ InvalMax \in Nat
    /\ Thrifty \in BOOLEAN

Addr == 1 .. MaxAddr
NoAddr == 0
Slot == 1 .. GDB_MAX_BREAKPOINTS

Code == {"insn", "patched"}   \* what the game has at an address, what GDB wrote there
Word == Code \cup {"trap"}    \* PPC_TRAP_INSN
States == {"IDLE", "STOPPED", "RESUME", "STEP", "DETACH"}

\* Where the server is at the end of a session, between the stores it makes for it.
Ending == {"detach", "close", "removed", "letgo", "quiet"}

VARIABLES
    mem, icache,              \* a word in memory, and as the PowerPC fetches it
    code,                     \* the word the game should run there (history)
    bp, bp_count,             \* breakpoint table
    state, magic, haltReq, shmPC,   \* the shared words
    inval, invalCnt,          \* the list of addresses to invalidate
    ppc, pc,                  \* the PowerPC: mode and program counter
    srv, over,                \* GDBServerThread: where it is, address it steps over
    view                      \* what GDB has been told

code_vars == <<mem, icache, code>>
table == <<bp, bp_count>>
shm == <<state, magic, haltReq, shmPC>>
list == <<inval, invalCnt>>
cpu == <<ppc, pc>>
server == <<srv, over, view>>
vars == <<code_vars, table, shm, list, cpu, server>>

-----------------------------------------------------------------------------
(* The breakpoint table                                                    *)

Active(a) == \E s \in Slot : s <= bp_count /\ bp[s].active /\ bp[s].addr = a
ActiveSlots == {s \in Slot : s <= bp_count /\ bp[s].active}

\* The slot bp_insert takes: the first inactive one, or one more at the end.
Reusable == {s \in Slot : s <= bp_count /\ ~bp[s].active}
FreeSlot(s) ==
    IF Reusable # {} THEN s \in Reusable /\ \A t \in Reusable : s <= t
                     ELSE s = bp_count + 1 /\ bp_count < GDB_MAX_BREAKPOINTS

\* ic_inval_add: what does not fit is dropped (slip: an entry replaces the last).
ReplacesLast(a) == inval' = {a} /\ invalCnt' = 1
Invalidate(a) ==
    IF invalCnt >= InvalMax THEN UNCHANGED list
    ELSE inval' = inval \cup {a} /\ invalCnt' = invalCnt + 1

\* bp_remove_all: every active breakpoint's word goes back, in the order of the table.
RemoveAll ==
    LET A == {s \in ActiveSlots : invalCnt + Cardinality({t \in ActiveSlots : t <= s}) <= InvalMax}
    IN  /\ mem' = [a \in Addr |-> IF Active(a)
                                  THEN bp[CHOOSE s \in ActiveSlots : bp[s].addr = a].orig
                                  ELSE mem[a]]
        /\ inval' = inval \cup {bp[s].addr : s \in A}
        /\ invalCnt' = invalCnt + Cardinality(A)
        /\ bp' = [s \in Slot |-> [bp[s] EXCEPT !.active = FALSE]]
        /\ bp_count' = 0

-----------------------------------------------------------------------------
(* Commands of a stopped target                                            *)

\* GDB asks only what it may of a target it believes stopped.
Commanding == srv = "cmd" /\ view = "stopped"

\* GDB's own restraint: room in the list for one entry more now, for the
\* removal of every breakpoint, and for the trap put back after a step.
Room == Thrifty => invalCnt + Cardinality(ActiveSlots) + 4 <= InvalMax

\* 'Z0': bp_insert.  An address that has its breakpoint is answered OK at once, a full
\* table is answered E01.
Fresh(a) == ~Active(a)
InsertBreakpoint(a) ==
    /\ Commanding /\ Room
    /\ Fresh(a)
    /\ \E s \in Slot :
        /\ FreeSlot(s)
        /\ bp' = [bp EXCEPT ![s] = [addr |-> a, orig |-> mem[a], active |-> TRUE]]
        /\ bp_count' = IF Reusable # {} THEN bp_count ELSE s
    /\ mem' = [mem EXCEPT ![a] = "trap"]
    /\ Invalidate(a)
    /\ UNCHANGED <<icache, code, shm, cpu, server>>

\* 'z0': bp_remove.
RemoveBreakpoint(a) ==
    /\ Commanding /\ Room
    /\ \E s \in ActiveSlots :
        /\ bp[s].addr = a
        /\ \A t \in ActiveSlots : bp[t].addr = a => s <= t
        /\ mem' = [mem EXCEPT ![a] = bp[s].orig]
        /\ bp' = [bp EXCEPT ![s].active = FALSE]
    /\ Invalidate(a)
    /\ UNCHANGED <<bp_count, icache, code, shm, cpu, server>>

\* 'M': gdb_write_mem stores the whole range and lists its first address, and
\* its last one.  GDB has removed its breakpoints from the range before.
WriteMemory(lo, hi) ==
    /\ Commanding /\ Room
    /\ lo <= hi /\ (Thrifty => lo = hi)
    /\ \A a \in lo .. hi : ~Active(a)
    /\ mem' = [a \in Addr |-> IF a \in lo .. hi THEN "patched" ELSE mem[a]]
    /\ code' = [a \in Addr |-> IF a \in lo .. hi THEN "patched" ELSE code[a]]
    /\ IF lo = hi \/ invalCnt + 1 >= InvalMax THEN Invalidate(lo)
       ELSE inval' = inval \cup {lo, hi} /\ invalCnt' = invalCnt + 2
    /\ UNCHANGED <<icache, table, shm, cpu, server>>

\* 'c' and 's', with or without an address: do_continue and do_step.  A breakpoint at
\* the program counter is lifted for one instruction.
Go(from, next, stepping) ==
    /\ Commanding
    /\ shmPC' = from
    /\ view' = "running"
    /\ IF Active(from)
       THEN /\ \E s \in ActiveSlots :
                /\ bp[s].addr = from
                /\ \A t \in ActiveSlots : bp[t].addr = from => s <= t
                /\ mem' = [mem EXCEPT ![from] = bp[s].orig]
            /\ Invalidate(from)
            /\ state' = "STEP"
            /\ srv' = next /\ over' = from
       ELSE /\ state' = stepping
            /\ srv' = "wait"
            /\ UNCHANGED <<mem, list, over>>
    /\ UNCHANGED <<icache, code, table, magic, haltReq, cpu>>

Continue == \E a \in Addr : Go(a, "continue", "RESUME")
Step == \E a \in Addr : Go(a, "step", "STEP")

\* Three seconds pass only while the PowerPC is not in its handler, or spins there on
\* IDLE: it halted too late for its session, and STATE has been reset for this one.
TimesOut == ppc \in {"run", "crashed"} \/ (ppc = "stopped" /\ state = "IDLE")

\* The trap goes back once the PowerPC has stopped behind it, or after three seconds;
\* do_continue then lets it run (slip: the trap stays out).
LeftOut == mem
PutBack == [mem EXCEPT ![over] = "trap"]
Reinsert ==
    /\ srv \in {"continue", "step"}
    /\ state = "STOPPED" \/ TimesOut
    /\ mem' = PutBack
    /\ Invalidate(over)
    /\ state' = IF srv = "continue" THEN "RESUME" ELSE state
    /\ srv' = "wait" /\ over' = NoAddr
    /\ UNCHANGED <<icache, code, table, magic, haltReq, shmPC, cpu, view>>

-----------------------------------------------------------------------------
(* Connection, halt and detach                                             *)

\* A client is accepted: the target is left alone until '?'.  The PowerPC has
\* answered the last DETACH by then (it spins on STATE).
Accept ==
    /\ srv = "listen" /\ ~(ppc = "stopped" /\ state = "DETACH")
    /\ haltReq' = FALSE /\ state' = "IDLE"
    /\ srv' = "cmd" /\ view' = "new"
    /\ UNCHANGED <<code_vars, table, magic, shmPC, list, cpu, over>>

\* '?', GDB's first question: the target is asked to halt.  STATE is read
\* first and written IDLE later, and the PowerPC is another processor.
Ask ==
    /\ srv = "cmd" /\ view = "new"
    /\ state # "STOPPED"
    /\ srv' = "asking"
    /\ UNCHANGED <<code_vars, table, shm, list, cpu, over, view>>

RequestHalt ==
    /\ srv = "asking"
    /\ state' = "IDLE" /\ magic' = TRUE /\ haltReq' = TRUE
    /\ srv' = "ask"
    /\ UNCHANGED <<code_vars, table, shmPC, list, cpu, over, view>>

\* The target halted, or did not within three seconds ("S02"): GDB believes it did.
Answer ==
    /\ srv = "ask"
    /\ state = "STOPPED" \/ TimesOut
    /\ srv' = "cmd" /\ view' = "stopped"
    /\ UNCHANGED <<code_vars, table, shm, list, cpu, over>>

\* 0x03 between commands, and inside the wait loop, leaves STATE alone (slip: it writes
\* IDLE first, as '?' does).
IdleFirst == "IDLE"
InterruptState == state
Interrupt ==
    /\ srv = "wait" \/ (Commanding /\ state # "STOPPED")
    /\ magic' = TRUE /\ haltReq' = TRUE /\ state' = InterruptState
    /\ srv' = "wait" /\ view' = "running"
    /\ UNCHANGED <<code_vars, table, shmPC, list, cpu, over>>

\* The wait loop reports a stop to GDB.
ReportStop ==
    /\ srv = "wait" /\ state = "STOPPED"
    /\ srv' = "cmd" /\ view' = "stopped"
    /\ UNCHANGED <<code_vars, table, shm, list, cpu, over>>

\* The session ends with 'D' or 'k', or because the connection broke.  The PowerPC may
\* halt between any two of the stores, as long as MAGIC lets it.
Remove(next) ==
    /\ RemoveAll
    /\ srv' = next
    /\ UNCHANGED <<icache, code, shm, cpu, over, view>>

Detach == srv \in {"cmd", "wait"} /\ Remove("detach")
BreakOff == srv \in {"cmd", "wait"} /\ Remove("removed")

StoreDetach ==
    /\ srv = "detach" /\ srv' = "close"
    /\ state' = "DETACH"
    /\ UNCHANGED <<code_vars, table, magic, haltReq, shmPC, list, cpu, over, view>>

CloseClient == srv = "close" /\ Remove("removed")

\* (Slip: STATE is reset as on a new connection.)
ResetState == "IDLE"
FinalState == "DETACH"
LetGo ==
    /\ srv = "removed" /\ srv' = "letgo"
    /\ state' = FinalState
    /\ UNCHANGED <<code_vars, table, magic, haltReq, shmPC, list, cpu, over, view>>

ClearRequest ==
    /\ srv = "letgo" /\ srv' = "quiet"
    /\ haltReq' = FALSE
    /\ UNCHANGED <<code_vars, table, state, magic, shmPC, list, cpu, over, view>>

ClearMagic ==
    /\ srv = "quiet" /\ srv' = "listen"
    /\ magic' = FALSE
    /\ UNCHANGED <<code_vars, table, state, haltReq, shmPC, list, cpu, over, view>>

End == StoreDetach \/ CloseClient \/ LetGo \/ ClearRequest \/ ClearMagic

-----------------------------------------------------------------------------
(* The PowerPC                                                             *)

\* It halts in its exception handler, with its program counter shared.
Halt(at) ==
    /\ ppc' = "stopped" /\ pc' = at
    /\ state' = "STOPPED" /\ shmPC' = at

\* One instruction of the game, or a trap, which halts while the stub is enabled.
PpcRun ==
    /\ ppc = "run"
    /\ IF icache[pc] = "trap"
       THEN IF magic THEN Halt(pc)
                     ELSE ppc' = "crashed" /\ UNCHANGED <<pc, state, shmPC>>
       ELSE pc' \in Addr /\ UNCHANGED <<ppc, state, shmPC>>
    /\ UNCHANGED <<code_vars, table, magic, haltReq, list, server>>

PpcHalt ==
    /\ ppc = "run" /\ magic /\ haltReq
    /\ Halt(pc)
    /\ haltReq' = FALSE
    /\ UNCHANGED <<code_vars, table, magic, list, server>>

\* STEP: one instruction, and it halts again.
PpcStep ==
    /\ ppc = "step"
    /\ IF icache[pc] = "trap" THEN Halt(pc) ELSE \E a \in Addr : Halt(a)
    /\ UNCHANGED <<code_vars, table, magic, haltReq, list, server>>

\* It obeys STATE: the listed lines are dropped, then the game runs on.
PpcLeave ==
    /\ ppc = "stopped" /\ state \in {"RESUME", "STEP", "DETACH"}
    /\ icache' = [a \in Addr |-> IF a \in inval THEN mem[a] ELSE icache[a]]
    /\ inval' = {} /\ invalCnt' = 0
    /\ ppc' = IF state = "STEP" THEN "step" ELSE "run"
    /\ pc' = shmPC
    /\ state' = "IDLE"
    /\ UNCHANGED <<mem, code, table, magic, haltReq, shmPC, server>>

\* A line of the instruction cache is replaced and fetched anew.
Refetch(a) ==
    /\ icache[a] # mem[a]
    /\ icache' = [icache EXCEPT ![a] = mem[a]]
    /\ UNCHANGED <<mem, code, table, shm, list, cpu, server>>

-----------------------------------------------------------------------------

Init ==
    /\ code = [a \in Addr |-> "insn"] /\ mem = code /\ icache = code
    /\ bp = [s \in Slot |-> [addr |-> NoAddr, orig |-> "insn", active |-> FALSE]]
    /\ bp_count = 0
    /\ state = "IDLE" /\ magic = FALSE /\ haltReq = FALSE /\ shmPC = 1
    /\ inval = {} /\ invalCnt = 0
    /\ ppc = "run" /\ pc = 1
    /\ srv = "listen" /\ over = NoAddr /\ view = "new"

Command ==
    \/ \E a \in Addr : InsertBreakpoint(a) \/ RemoveBreakpoint(a)
    \/ \E lo, hi \in Addr : WriteMemory(lo, hi)
    \/ Continue \/ Step

Server ==
    \/ Accept \/ Ask \/ RequestHalt \/ Answer \/ Interrupt \/ Reinsert \/ ReportStop
    \/ Detach \/ BreakOff \/ End

PowerPC == PpcRun \/ PpcHalt \/ PpcStep \/ PpcLeave \/ \E a \in Addr : Refetch(a)

Next == Command \/ Server \/ PowerPC

\* The thread polls on; the PowerPC obeys, and looks at HALT_REQ every frame.  Nothing
\* makes GDB send a command.
Fairness ==
    /\ WF_vars(RequestHalt) /\ WF_vars(Answer) /\ WF_vars(Reinsert) /\ WF_vars(ReportStop)
    /\ WF_vars(End)
    /\ WF_vars(PpcHalt) /\ WF_vars(PpcStep) /\ WF_vars(PpcLeave)

Spec == Init /\ [][Next]_vars /\ Fairness

-----------------------------------------------------------------------------
(* Properties                                                              *)

TypeOK ==
    /\ mem \in [Addr -> Word] /\ icache \in [Addr -> Word] /\ code \in [Addr -> Code]
    /\ bp \in [Slot -> [addr : Addr \cup {NoAddr}, orig : Code, active : BOOLEAN]]
    /\ bp_count \in 0 .. GDB_MAX_BREAKPOINTS
    /\ state \in States /\ magic \in BOOLEAN /\ haltReq \in BOOLEAN /\ shmPC \in Addr
    /\ inval \subseteq Addr /\ invalCnt \in 0 .. InvalMax
    /\ ppc \in {"run", "step", "stopped", "crashed"} /\ pc \in Addr
    /\ srv \in {"listen", "cmd", "asking", "ask", "continue", "step", "wait"} \cup Ending
    /\ over \in Addr \cup {NoAddr} /\ view \in {"new", "stopped", "running"}

\* Whatever GDB inserts, removes, writes and steps over, in whichever order, a word is
\* a trap exactly where a breakpoint is active and not stepped over, and
\* elsewhere the program's own: no removal brings back a trap or an older word.
\* Without a session none is left to "crash the game on resume" (gdb.c:1114),
\* however the session ended, and none comes back while its words are being reset.
CodePreserved ==
    /\ \A a \in Addr : mem[a] = IF Active(a) /\ a # over THEN "trap" ELSE code[a]
    /\ srv \in {"listen"} \cup Ending => mem = code

\* gdb.c:628: the PowerPC never fetches another word than the one in memory, unless
\* the line is still on the list of those it drops before it resumes.
Coherent == \A a \in Addr : icache[a] # mem[a] => a \in inval

\* A stop during a continue or a step, or the halt GDB asks a running target for with
\* 0x03, is reported to it, unless it leaves first (gdb.c:1051, "to avoid race"): the
\* stub never writes STATE over a stop it has not seen.  (A target that the session
\* before has left in its handler does not answer 0x03.)
StopReported ==
    srv = "wait" /\ (state = "STOPPED" \/ (haltReq /\ ppc # "stopped"))
        ~> view = "stopped" \/ srv = "listen" \/ ppc = "crashed"

\* A target that halts before the end of its session has written DETACH, for GDB, on a
\* trap or on a request that came with the end, runs again (gdb.c:1117).  One that halts
\* behind that store, before MAGIC is cleared, writes STOPPED over it and waits
\* for the next session.
Released == srv \in {"detach", "close", "removed"} /\ ppc = "stopped" ~> ppc # "stopped"
=============================================================================
