-------------------------------- MODULE DIDrive --------------------------------
(***************************************************************************)
(* The disc interface of DI.c for disc images: the game fills the command  *)
(* registers and waits for an interrupt, the main loop (main.c) decodes    *)
(* the command and posts reads to the DI thread through one callback       *)
(* message, and reports their end once the emulated drive (ReadSpeed.c)    *)
(* would have finished.  The same thread and message serve the audio       *)
(* stream and the USB keep-alive read, and the main thread does file I/O   *)
(* of its own: card saves, seeks, disc changes, umbra settings, the log.    *)
(***************************************************************************)
EXTENDS Integers, Sequences

CONSTANTS
    Off,        \* disc offsets
    UmbraAnytime, \* does the game send umbra settings commands during disc commands?
    LogAnytime, \* with NIN_CFG_LOG, does the main thread write the log during disc commands?
    MaxCmd      \* bound: commands it issues

ASSUME DIDriveAssumption == UmbraAnytime \in BOOLEAN /\ LogAnytime \in BOOLEAN /\ MaxCmd \in Nat

Discs == {0, 1}
NoData == [disc |-> 2, off |-> 0]
Data(d, o) == [disc |-> d, off |-> o]

\* A8 reads and interrupts, F8 reads and clears DI_CONTROL; AB seeks, E1 starts
\* the audio stream, E3 stops the motor, the others only report success, as does
\* an A8 whose buffer is no memory of the game's.
Commands == [op : {"A8", "F8"}, off : Off] \cup [op : {"AB", "E1", "E3", "E2", "A8 nowhere"}, off : {0}]

VARIABLES
    DI_CONTROL, cmd,          \* the register's start bit, the command
    diInt,                    \* DI_INT
    dest,                     \* what the buffer of the game's read holds
    game, issued,             \* what the game waits for; its commands so far
    header,                   \* the number of the disc whose header the game has read
    pc, cont,                 \* where the main thread is; where a wait leads
    DI_IRQ,                   \* a command is in progress
    finished,                 \* DI_CallbackMsg.result = 0
    DI_MessageQueue, thread,  \* requests, and the one the DI thread works on
    ticks,                    \* CMDTicks: unset, running or over
    DiscChangeIRQ, wait3,     \* the pending cover interrupt and its timer
    multiDisc,                \* DI_2disc_filenames: the game has a second disc
    path, opened,             \* the disc image of the game path, and the open one
    Streaming                 \* the audio stream plays

regs == <<DI_CONTROL, cmd, diInt>>
ppc == <<game, issued, header>>
main == <<pc, cont>>
dithread == <<finished, DI_MessageQueue, thread>>
change == <<DiscChangeIRQ, wait3, multiDisc, path>>
vars == <<regs, dest, ppc, main, DI_IRQ, dithread, ticks, change, opened, Streaming>>

NoRequest == [kind |-> "none", off |-> 0]

-----------------------------------------------------------------------------
(* The game's DVD driver (external), and time                              *)

Issue ==
    /\ game = "idle" /\ issued < MaxCmd
    /\ cmd' \in Commands
    /\ DI_CONTROL' = TRUE /\ game' = "waiting" /\ issued' = issued + 1
    /\ dest' = NoData
    /\ UNCHANGED <<diInt, header, main, DI_IRQ, dithread, ticks, change, opened, Streaming>>

\* The driver polls an F8 read and is interrupted for the others; offset 0 holds
\* the disc's header, which goes to low memory.  A stop is for changing the disc, if
\* the game has another one.
Complete ==
    /\ game = "waiting" /\ ~DI_CONTROL
    /\ diInt \/ cmd.op = "F8"
    /\ diInt' = FALSE
    /\ game' = IF cmd.op = "E3" /\ multiDisc THEN "cover" ELSE "idle"
    /\ header' = IF dest # NoData /\ dest.off = 0 THEN dest.disc ELSE header
    /\ dest' = NoData
    /\ UNCHANGED <<DI_CONTROL, cmd, issued, main, DI_IRQ, dithread, ticks, change, opened, Streaming>>

CoverInterrupt ==
    /\ game = "cover" /\ diInt
    /\ diInt' = FALSE /\ game' = "idle"
    /\ UNCHANGED <<DI_CONTROL, cmd, dest, issued, header, main, DI_IRQ, dithread, ticks, change, opened, Streaming>>

\* A stop takes at most 150 ms (ReadSpeed.c:54) and the cover's timer two seconds,
\* so that the stop is over and acknowledged before the timer is.
StopInProgress == game = "waiting" /\ cmd.op = "E3"
TimePasses ==
    \/ /\ ticks = "running" /\ ticks' = "over"
       /\ UNCHANGED <<regs, dest, ppc, main, DI_IRQ, dithread, change, opened, Streaming>>
    \/ /\ wait3 /\ ~StopInProgress /\ wait3' = FALSE
       /\ UNCHANGED <<regs, dest, ppc, main, DI_IRQ, dithread, ticks, DiscChangeIRQ, multiDisc, path, opened, Streaming>>

-----------------------------------------------------------------------------
(* The DI thread                                                           *)

Dequeue ==
    /\ thread = NoRequest /\ DI_MessageQueue # <<>>
    /\ thread' = Head(DI_MessageQueue) /\ DI_MessageQueue' = Tail(DI_MessageQueue)
    /\ UNCHANGED <<regs, dest, ppc, main, DI_IRQ, finished, ticks, change, opened, Streaming>>

\* ISORead and the copy to the game's buffer; ReadSpeed_Setup knows how long the
\* drive would have needed, which may be no time at all.
ThreadRead ==
    /\ thread.kind = "read"
    /\ dest' = Data(opened, thread.off)
    /\ ticks' \in {"running", "over"}
    /\ thread' = [thread EXCEPT !.kind = "ack"]
    /\ UNCHANGED <<regs, ppc, main, DI_IRQ, finished, DI_MessageQueue, change, opened, Streaming>>

\* A stream chunk goes to the kernel's buffer, a keep-alive sector nowhere.
ThreadOther ==
    /\ thread.kind \in {"stream", "keepalive"}
    /\ thread' = [thread EXCEPT !.kind = "ack"]
    /\ UNCHANGED <<regs, dest, ppc, main, DI_IRQ, finished, DI_MessageQueue, ticks, change, opened, Streaming>>

\* IOS_Close and IOS_Open: the image of the game path is opened.
ThreadReopen ==
    /\ thread.kind = "reopen"
    /\ opened' = path
    /\ thread' = [thread EXCEPT !.kind = "ack"]
    /\ UNCHANGED <<regs, dest, ppc, main, DI_IRQ, finished, DI_MessageQueue, ticks, change, Streaming>>

ThreadAck ==
    /\ thread.kind = "ack"
    /\ thread' = NoRequest /\ finished' = TRUE
    /\ UNCHANGED <<regs, dest, ppc, main, DI_IRQ, DI_MessageQueue, ticks, change, opened, Streaming>>

DIReadThread == Dequeue \/ ThreadRead \/ ThreadOther \/ ThreadReopen \/ ThreadAck

\* The thread is inside the file system; it is not, nor about to be.
ThreadInFile == thread.kind \in {"read", "stream", "keepalive", "reopen"}
Quiet == DI_MessageQueue = <<>> /\ ~ThreadInFile

-----------------------------------------------------------------------------
(* The main thread                                                         *)

Goto(from, to) == pc = from /\ pc' = to

\* DiscReadAsync waits for whatever the thread still does, then posts the request.
DiscReadAsync(kind, off) ==
    /\ finished
    /\ finished' = FALSE
    /\ DI_MessageQueue' = Append(DI_MessageQueue, [kind |-> kind, off |-> off])
    /\ UNCHANGED thread

\* DIFinishAsync, the end of a wait.
Finished ==
    /\ pc = "finish" /\ finished
    /\ pc' = cont
    /\ UNCHANGED <<regs, dest, ppc, cont, DI_IRQ, dithread, ticks, change, opened, Streaming>>

\* As long as it waits it prints the game's OSReports (CheckOSReport), which with
\* NIN_CFG_LOG go to /ndebug.log.
LogInWait ==
    /\ Goto("finish", "log") /\ ~finished
    /\ LogAnytime \/ Quiet
    /\ UNCHANGED <<regs, dest, ppc, cont, DI_IRQ, dithread, ticks, change, opened, Streaming>>

LogDone ==
    /\ Goto("log", "finish")
    /\ UNCHANGED <<regs, dest, ppc, cont, DI_IRQ, dithread, ticks, change, opened, Streaming>>

\* File I/O of the main thread is over.
FileDone ==
    /\ pc = "file" /\ pc' = cont
    /\ UNCHANGED <<regs, dest, ppc, cont, DI_IRQ, dithread, ticks, change, opened, Streaming>>

\* ReadSpeed_End.
ReadSpeedEnds == ticks # "running" /\ ticks' = "unset"
DIInterrupt ==
    \/ /\ ReadSpeedEnds
       /\ DI_CONTROL' = FALSE /\ diInt' = TRUE /\ DI_IRQ' = FALSE
       /\ UNCHANGED cmd
    \/ /\ ticks = "running"
       /\ UNCHANGED <<regs, DI_IRQ, ticks>>

\* main.c:371-377 (slip: the command's end is reported without asking).
Unchecked == TRUE
DiscCheckAsync == finished
Poll ==
    /\ Goto("irq", "disc") /\ DI_IRQ
    /\ IF DiscCheckAsync THEN DIInterrupt ELSE UNCHANGED <<regs, DI_IRQ, ticks>>
    /\ UNCHANGED <<dest, ppc, cont, dithread, change, opened, Streaming>>

\* A card save, which main.c:378 allows only while no command is in progress
\* (slip: at any time).
SaveAnyTime == TRUE
MaySave == ~DI_IRQ
Save ==
    /\ Goto("irq", "file") /\ cont' = "disc" /\ MaySave
    /\ UNCHANGED <<regs, dest, ppc, DI_IRQ, dithread, ticks, change, opened, Streaming>>

KeepAlive ==
    /\ Goto("irq", "finish") /\ cont' = "disc" /\ ~DI_IRQ
    /\ DiscReadAsync("keepalive", 0)
    /\ UNCHANGED <<regs, dest, ppc, DI_IRQ, ticks, change, opened, Streaming>>

NoDeviceIO ==
    /\ Goto("irq", "disc") /\ ~DI_IRQ
    /\ UNCHANGED <<regs, dest, ppc, cont, DI_IRQ, dithread, ticks, change, opened, Streaming>>

\* The cover interrupt, more than two seconds after the disc was changed.
CoverWaits ==
    /\ Goto("disc", "di")
    /\ DiscChangeIRQ = 0 \/ (DiscChangeIRQ = 2 /\ wait3)
    /\ UNCHANGED <<regs, dest, ppc, cont, DI_IRQ, dithread, ticks, change, opened, Streaming>>

CoverTimer ==
    /\ Goto("disc", "di") /\ DiscChangeIRQ = 1
    /\ DiscChangeIRQ' = 2 /\ wait3' = TRUE
    /\ UNCHANGED <<regs, dest, ppc, cont, DI_IRQ, dithread, ticks, multiDisc, path, opened, Streaming>>

CoverRaised ==
    /\ Goto("disc", "di") /\ DiscChangeIRQ = 2 /\ ~wait3
    /\ DiscChangeIRQ' = 0
    /\ DIInterrupt
    /\ UNCHANGED <<dest, ppc, cont, dithread, wait3, multiDisc, path, opened, Streaming>>

\* DIUpdateRegisters, one disjunct for each kind of command.
Command(op) == pc = "di" /\ DI_CONTROL /\ ~DI_IRQ /\ cmd.op = op

NoCommand ==
    /\ Goto("di", "exi")
    /\ DI_IRQ \/ ~DI_CONTROL
    /\ UNCHANGED <<regs, dest, ppc, cont, DI_IRQ, dithread, ticks, change, opened, Streaming>>

\* ReadSpeed_Start: the drive starts now.
Read ==
    /\ Command("A8") /\ pc' = "exi"
    /\ DiscReadAsync("read", cmd.off)
    /\ ticks' = IF ticks = "over" THEN "running" ELSE ticks
    /\ DI_IRQ' = TRUE
    /\ UNCHANGED <<regs, dest, ppc, cont, change, opened, Streaming>>

\* DIOK = 1 (slip: the start bit stays set).
ReadSync ==
    /\ Command("F8") /\ pc' = "finish" /\ cont' = "syncdone"
    /\ DiscReadAsync("read", cmd.off)
    /\ UNCHANGED <<regs, dest, ppc, DI_IRQ, ticks, change, opened, Streaming>>

LeavesControl ==
    /\ Goto("syncdone", "exi")
    /\ UNCHANGED <<regs, dest, ppc, cont, DI_IRQ, dithread, ticks, change, opened, Streaming>>
ReadSyncDone ==
    /\ Goto("syncdone", "exi")
    /\ DI_CONTROL' = FALSE
    /\ UNCHANGED <<cmd, diInt, dest, ppc, cont, DI_IRQ, dithread, ticks, change, opened, Streaming>>

Seek ==
    /\ Command("AB") /\ pc' = "file" /\ cont' = "exi"
    /\ DI_IRQ' = TRUE
    /\ UNCHANGED <<regs, dest, ppc, dithread, ticks, change, opened, Streaming>>

\* StreamStartStream reads two chunks.
StartStream ==
    /\ Command("E1") /\ pc' = "finish" /\ cont' = "chunk2"
    /\ DiscReadAsync("stream", 0)
    /\ UNCHANGED <<regs, dest, ppc, DI_IRQ, ticks, change, opened, Streaming>>

SecondChunk ==
    /\ pc = "chunk2" /\ pc' = "finish" /\ cont' = "streaming"
    /\ DiscReadAsync("stream", 1)
    /\ UNCHANGED <<regs, dest, ppc, DI_IRQ, ticks, change, opened, Streaming>>

StreamStarted ==
    /\ Goto("streaming", "exi")
    /\ Streaming' = TRUE /\ DI_IRQ' = TRUE
    /\ UNCHANGED <<regs, dest, ppc, cont, dithread, ticks, change, opened>>

\* The disc number of the header, the other one (slip: the next one).
NextDisc == header + 1
OtherDisc == 1 - header

\* DIChangeDisc, with a second disc: its path, and IOS_Close and IOS_Open, which
\* wait for the DI thread.
StopMotor ==
    /\ Command("E3") /\ multiDisc /\ pc' = "reopening"
    /\ path' = OtherDisc
    /\ DI_MessageQueue' = Append(DI_MessageQueue, [kind |-> "reopen", off |-> 0])
    /\ UNCHANGED <<regs, dest, ppc, cont, DI_IRQ, finished, thread, ticks, DiscChangeIRQ, wait3, multiDisc, opened, Streaming>>

\* ReadSpeed_Init forgets the last read, ReadSpeed_Motor takes its time.
MotorStopped ==
    /\ Goto("reopening", "exi") /\ DI_MessageQueue = <<>> /\ thread = NoRequest
    /\ DiscChangeIRQ' = 1 /\ ticks' = "running" /\ DI_IRQ' = TRUE
    /\ UNCHANGED <<regs, dest, ppc, cont, dithread, wait3, multiDisc, path, opened, Streaming>>

\* Without one DIChangeDisc does nothing, and no cover interrupt follows.
StopOnly ==
    /\ Command("E3") /\ ~multiDisc /\ pc' = "exi"
    /\ ticks' = "running" /\ DI_IRQ' = TRUE
    /\ UNCHANGED <<regs, dest, ppc, cont, dithread, change, opened, Streaming>>

Other ==
    /\ Command("E2") \/ Command("A8 nowhere")
    /\ pc' = "exi"
    /\ DI_IRQ' = TRUE
    /\ UNCHANGED <<regs, dest, ppc, cont, dithread, ticks, change, opened, Streaming>>

DIUpdateRegisters ==
    \/ NoCommand \/ Read \/ ReadSync \/ ReadSyncDone \/ Seek \/ Other
    \/ StartStream \/ SecondChunk \/ StreamStarted \/ StopMotor \/ MotorStopped \/ StopOnly

\* EXIUpdateRegistersNEW: an umbra command may read, write or delete a file.
NoFileCommand ==
    /\ Goto("exi", "stream")
    /\ UNCHANGED <<regs, dest, ppc, cont, DI_IRQ, dithread, ticks, change, opened, Streaming>>

UmbraFile ==
    /\ Goto("exi", "file") /\ cont' = "stream"
    /\ UmbraAnytime \/ ~DI_IRQ
    /\ UNCHANGED <<regs, dest, ppc, DI_IRQ, dithread, ticks, change, opened, Streaming>>

\* StreamUpdateRegisters: the next chunk, when the PPC has asked for one.
NoChunk ==
    /\ Goto("stream", "report")
    /\ UNCHANGED <<regs, dest, ppc, cont, DI_IRQ, dithread, ticks, change, opened, Streaming>>

NextChunk ==
    /\ Goto("stream", "finish") /\ cont' = "report" /\ Streaming
    /\ DiscReadAsync("stream", 1)
    /\ UNCHANGED <<regs, dest, ppc, DI_IRQ, ticks, change, opened, Streaming>>

\* CheckOSReport at the end of the iteration, and the dbgprintf calls along its way.
NoReport ==
    /\ Goto("report", "irq")
    /\ UNCHANGED <<regs, dest, ppc, cont, DI_IRQ, dithread, ticks, change, opened, Streaming>>

Report ==
    /\ Goto("report", "file") /\ cont' = "irq"
    /\ LogAnytime \/ Quiet
    /\ UNCHANGED <<regs, dest, ppc, DI_IRQ, dithread, ticks, change, opened, Streaming>>

MainLoop ==
    \/ Finished \/ LogInWait \/ LogDone \/ FileDone
    \/ Poll \/ Save \/ KeepAlive \/ NoDeviceIO
    \/ CoverWaits \/ CoverTimer \/ CoverRaised
    \/ DIUpdateRegisters
    \/ NoFileCommand \/ UmbraFile \/ NoChunk \/ NextChunk \/ NoReport \/ Report

-----------------------------------------------------------------------------
Init ==
    /\ DI_CONTROL = FALSE /\ cmd \in {c \in Commands : c.op = "E2"} /\ diInt = FALSE
    /\ dest = NoData /\ game = "idle" /\ issued = 0
    /\ multiDisc \in BOOLEAN
    /\ \E d \in Discs : (d = 0 \/ multiDisc) /\ header = d /\ path = d /\ opened = d
    /\ pc = "irq" /\ cont = "irq" /\ DI_IRQ = FALSE
    /\ finished = TRUE /\ DI_MessageQueue = <<>> /\ thread = NoRequest
    /\ ticks = "unset" /\ DiscChangeIRQ = 0 /\ wait3 = FALSE /\ Streaming = FALSE

Next == Issue \/ Complete \/ CoverInterrupt \/ TimePasses \/ DIReadThread \/ MainLoop

\* Both threads run, time passes, the driver takes its interrupts.
Fairness ==
    /\ WF_vars(MainLoop) /\ WF_vars(DIReadThread) /\ WF_vars(TimePasses)
    /\ WF_vars(Complete) /\ WF_vars(CoverInterrupt)

Spec == Init /\ [][Next]_vars /\ Fairness

-----------------------------------------------------------------------------
(* Properties                                                              *)

Flags ==
    /\ DI_CONTROL \in BOOLEAN /\ diInt \in BOOLEAN /\ DI_IRQ \in BOOLEAN /\ finished \in BOOLEAN
    /\ wait3 \in BOOLEAN /\ multiDisc \in BOOLEAN /\ Streaming \in BOOLEAN

Places ==
    /\ cmd \in Commands /\ dest \in {NoData} \cup [disc : Discs, off : Off]
    /\ game \in {"idle", "waiting", "cover"} /\ issued \in 0 .. MaxCmd /\ header \in Discs
    /\ pc \in {"irq", "disc", "di", "exi", "stream", "report", "finish", "log", "file", "syncdone",
               "chunk2", "streaming", "reopening"}
    /\ cont \in {"irq", "disc", "exi", "stream", "report", "syncdone", "chunk2", "streaming"}
    /\ ticks \in {"unset", "running", "over"}
    /\ DiscChangeIRQ \in 0 .. 2 /\ path \in Discs /\ opened \in Discs

\* The DI thread has one request at a time.
TypeOK ==
    /\ Flags /\ Places
    /\ Len(DI_MessageQueue) <= 1
    /\ thread.kind \in {"none", "read", "stream", "keepalive", "reopen", "ack"}

\* GCAM.c:356: "DONT ever try todo file i/o async", main.c:378: "DI IRQ indicates
\* we might read async, so dont write at the same time".  FatFs is built without
\* re-entrancy: the main thread is never in the file system while the DI thread is.
\* This needs ~UmbraAnytime and ~LogAnytime: the settings and the log, which are files
\* as well, are written with no look at the DI thread.
FileIOExclusive == ~(pc \in {"file", "log"} /\ ThreadInFile)

\* To the game this is a drive: commands end once, reads deliver the block asked
\* for, from the disc it was told is in the drive.
Reading(c) == c.op \in {"A8", "F8"}
Stopping(c) == c.op = "E3"
DriveReads(dc) == Reading(dc.cmd)
DriveStops(dc) == Stopping(dc.cmd) /\ dc.multi
ReadBlock(d, dc) == Data(d, dc.cmd.off)
Ended == game = "waiting" /\ ~DI_CONTROL /\ (diInt \/ cmd.op = "F8")
Phase ==
    CASE game = "idle" -> "idle"
      [] game = "waiting" -> IF Ended THEN "done" ELSE "busy"
      [] game = "cover" -> IF diInt THEN "closed" ELSE "open"
Delivered == IF Ended THEN dest ELSE NoData
Drive == INSTANCE DiscDrive WITH
    DriveCommand <- [cmd : Commands, multi : BOOLEAN],
    Reads <- DriveReads, Stops <- DriveStops, Block <- ReadBlock,
    DriveDisc <- Discs, Nothing <- NoData,
    phase <- Phase, command <- [cmd |-> cmd, multi |-> multiDisc], delivered <- Delivered, loaded <- opened
ImplementsDrive == Drive!DSpec

\* Every command ends, and a disc that was changed is announced.
CommandsEnd == (game = "waiting" ~> game # "waiting") /\ (game = "cover" ~> game # "cover")
=============================================================================
