----------------------------- MODULE DIDriveProofs -----------------------------
(***************************************************************************)
(* For any disc offsets and any number of commands: to the game the        *)
(* emulation is the abstract drive; and if neither umbra's settings nor    *)
(* the log are written during a disc command, the main thread and the DI   *)
(* thread are never in the file system together.                           *)
(*                                                                         *)
(* One callback message serves every kind of request: the proof is about   *)
(* what the main thread may conclude from its flag, finished.              *)
(***************************************************************************)
EXTENDS DIDrive, TLAPS

Posted == [kind : {"read", "stream", "keepalive", "reopen"}, off : Off \cup {0, 1}]
Worked == [kind : {"read", "stream", "keepalive", "reopen", "ack"}, off : Off \cup {0, 1}]

\* The main thread is at a place, or waits for the thread before it gets there.
At(place) == pc = place \/ (pc = "finish" /\ cont = place) \/ (pc = "log" /\ cont = place)

\* Registers and the game: a command is in progress as long as the start bit is set, and has
\* ended when it is clear.  File I/O leads to no place that ends one.
Control ==
    /\ game # "waiting" => ~DI_CONTROL
    /\ game = "idle" => ~diInt
    /\ game = "cover" => cmd.op = "E3" /\ multiDisc
    /\ DI_CONTROL => ~diInt
    /\ game = "waiting" /\ ~DI_CONTROL => diInt \/ cmd.op = "F8"
    /\ DI_IRQ => DI_CONTROL /\ cmd.op # "F8"
    /\ At("syncdone") => DI_CONTROL /\ ~DI_IRQ /\ cmd.op = "F8"
    /\ At("chunk2") \/ At("streaming") => DI_CONTROL /\ ~DI_IRQ /\ cmd.op = "E1"
    /\ pc = "reopening" => DI_CONTROL /\ ~DI_IRQ /\ cmd.op = "E3" /\ multiDisc
    /\ pc = "file" => cont \in {"irq", "disc", "exi", "stream"}

\* A pending cover interrupt belongs to a stop or to the game that waits for it, and its
\* timer is over only in the latter case.
Cover ==
    /\ DiscChangeIRQ # 0 => /\ (game = "waiting" /\ cmd.op = "E3") \/ (game = "cover" /\ ~diInt)
                           /\ multiDisc
    /\ DiscChangeIRQ = 2 /\ ~wait3 => game = "cover"

\* One request at a time.  Outside a disc change, finished says that there is none; and one
\* for which the main thread does not wait is a read of the game's.
Requests ==
    /\ DI_MessageQueue = <<>> \/ \E r \in Posted : DI_MessageQueue = <<r>>
    /\ thread = NoRequest \/ (DI_MessageQueue = <<>> /\ thread \in Worked)
    /\ pc # "reopening" => /\ finished <=> DI_MessageQueue = <<>> /\ thread = NoRequest
                           /\ thread.kind # "reopen"
                           /\ \A r \in Posted : DI_MessageQueue = <<r>> => r.kind # "reopen"
    /\ pc = "reopening" => /\ finished
                           /\ thread.kind \in {"none", "reopen", "ack"}
                           /\ \A r \in Posted : DI_MessageQueue = <<r>> => r.kind = "reopen"
    /\ pc \in {"syncdone", "chunk2", "streaming"} => finished
    /\ ~finished /\ pc # "finish" /\ pc # "log" => DI_IRQ /\ cmd.op = "A8"

\* A read of the game's is the only one, of the block it asked for, and delivers it before
\* it leaves the thread.
ReadingNow == (DI_IRQ /\ cmd.op = "A8") \/ At("syncdone")
ReadQueued == \E r \in Posted : DI_MessageQueue = <<r>> /\ r.kind = "read"
Delivery ==
    /\ ReadingNow => dest = Data(opened, cmd.off) \/ thread.kind = "read" \/ ReadQueued
    /\ thread.kind = "read" => ReadingNow /\ thread.off = cmd.off
    /\ \A r \in Posted : DI_MessageQueue = <<r>> /\ r.kind = "read" => ReadingNow /\ r.off = cmd.off
    /\ game = "waiting" /\ ~DI_CONTROL /\ Reading(cmd) => dest = Data(opened, cmd.off)
    /\ ~(game = "waiting" /\ Reading(cmd)) => dest = NoData

Base == TypeOK /\ Control /\ Cover /\ Requests /\ Delivery

\* While the main thread is in a file, the DI thread is not and has nothing to do.
FileFree == pc \in {"file", "log"} => Quiet

IInv == Base /\ FileFree

-----------------------------------------------------------------------------
(* The steps                                                               *)

\* A queue of one request.
LEMMA OneSlot ==
    \A r : /\ Append(<<>>, r) = <<r>> /\ Head(<<r>>) = r /\ Tail(<<r>>) = <<>>
           /\ <<r>> # <<>> /\ Len(<<r>>) = 1 /\ \A q : <<r>> = <<q>> => r = q
OBVIOUS

\* Only DIInterrupt and the synchronous read end a command; only the game issues one.
LEMMA ControlStep == Base /\ [Next]_vars => Control'
<1> SUFFICES ASSUME Base, [Next]_vars PROVE Control'
  OBVIOUS
<1> USE DEF Base, TypeOK, Flags, Places, regs, ppc, main, dithread, change, Goto, Command,
        DiscReadAsync, DIInterrupt, ReadSpeedEnds,
        Control, Cover, Requests, At, DiscCheckAsync, MaySave, StopInProgress
<1>1. CASE Issue
  BY <1>1 DEF Issue
<1>2. CASE Complete
  BY <1>2 DEF Complete
<1>3. CASE CoverInterrupt
  BY <1>3 DEF CoverInterrupt
<1>4. CASE TimePasses
  BY <1>4 DEF TimePasses
<1>5. CASE Dequeue
  BY <1>5 DEF Dequeue
<1>6. CASE ThreadRead
  BY <1>6 DEF ThreadRead
<1>7. CASE ThreadOther \/ ThreadReopen
  BY <1>7 DEF ThreadOther, ThreadReopen
<1>8. CASE ThreadAck
  BY <1>8 DEF ThreadAck
<1>9. CASE Finished \/ LogInWait \/ LogDone
  BY <1>9 DEF Finished, LogInWait, LogDone
<1>10. CASE FileDone \/ Save \/ NoDeviceIO \/ CoverWaits
  BY <1>10 DEF FileDone, Save, NoDeviceIO, CoverWaits
<1>11. CASE NoCommand \/ NoFileCommand \/ UmbraFile \/ NoChunk \/ NoReport \/ Report
  BY <1>11 DEF NoCommand, NoFileCommand, UmbraFile, NoChunk, NoReport, Report
<1>12. CASE Poll
  BY <1>12 DEF Poll
<1>13. CASE CoverTimer
  BY <1>13 DEF CoverTimer
<1>14. CASE CoverRaised
  BY <1>14 DEF CoverRaised
<1>15. CASE KeepAlive \/ NextChunk
  BY <1>15 DEF KeepAlive, NextChunk
<1>16. CASE Read
  BY <1>16 DEF Read
<1>17. CASE ReadSync
  BY <1>17 DEF ReadSync
<1>18. CASE ReadSyncDone
  BY <1>18 DEF ReadSyncDone
<1>19. CASE Seek \/ Other \/ StreamStarted
  <2>1. CASE Seek
    BY <2>1 DEF Seek
  <2>2. CASE Other
    BY <2>2 DEF Other
  <2>3. CASE StreamStarted
    BY <2>3 DEF StreamStarted
  <2> QED
    BY <1>19, <2>1, <2>2, <2>3
<1>20. CASE StartStream \/ SecondChunk
  BY <1>20 DEF StartStream, SecondChunk
<1>21. CASE StopMotor
  BY <1>21 DEF StopMotor
<1>22. CASE MotorStopped \/ StopOnly
  BY <1>22 DEF MotorStopped, StopOnly
<1>23. CASE UNCHANGED vars
  BY <1>23 DEF vars
<1> QED
  BY <1>1, <1>2, <1>3, <1>4, <1>5, <1>6, <1>7, <1>8, <1>9, <1>10, <1>11, <1>12, <1>13, <1>14,
     <1>15, <1>16, <1>17, <1>18, <1>19, <1>20, <1>21, <1>22, <1>23
     DEF Next, DIReadThread, MainLoop, DIUpdateRegisters

\* The cover interrupt stays with the stop it belongs to.
LEMMA CoverStep == Base /\ [Next]_vars => Cover'
<1> SUFFICES ASSUME Base, [Next]_vars PROVE Cover'
  OBVIOUS
<1> USE DEF Base, TypeOK, Flags, Places, regs, ppc, main, dithread, change, Goto, Command,
        DiscReadAsync, DIInterrupt, ReadSpeedEnds,
        Control, Cover, At, DiscCheckAsync, MaySave, StopInProgress
<1>1. CASE Issue
  BY <1>1 DEF Issue
<1>2. CASE Complete
  BY <1>2 DEF Complete
<1>3. CASE CoverInterrupt
  BY <1>3 DEF CoverInterrupt
<1>4. CASE TimePasses
  BY <1>4 DEF TimePasses
<1>5. CASE Dequeue
  BY <1>5 DEF Dequeue
<1>6. CASE ThreadRead
  BY <1>6 DEF ThreadRead
<1>7. CASE ThreadOther \/ ThreadReopen
  BY <1>7 DEF ThreadOther, ThreadReopen
<1>8. CASE ThreadAck
  BY <1>8 DEF ThreadAck
<1>9. CASE Finished \/ LogInWait \/ LogDone
  BY <1>9 DEF Finished, LogInWait, LogDone
<1>10. CASE FileDone \/ Save \/ NoDeviceIO \/ CoverWaits
  BY <1>10 DEF FileDone, Save, NoDeviceIO, CoverWaits
<1>11. CASE NoCommand \/ NoFileCommand \/ UmbraFile \/ NoChunk \/ NoReport \/ Report
  BY <1>11 DEF NoCommand, NoFileCommand, UmbraFile, NoChunk, NoReport, Report
<1>12. CASE Poll
  BY <1>12 DEF Poll
<1>13. CASE CoverTimer
  BY <1>13 DEF CoverTimer
<1>14. CASE CoverRaised
  BY <1>14 DEF CoverRaised
<1>15. CASE KeepAlive \/ NextChunk
  BY <1>15 DEF KeepAlive, NextChunk
<1>16. CASE Read
  BY <1>16 DEF Read
<1>17. CASE ReadSync
  BY <1>17 DEF ReadSync
<1>18. CASE ReadSyncDone
  BY <1>18 DEF ReadSyncDone
<1>19. CASE Seek \/ Other \/ StreamStarted
  BY <1>19 DEF Seek, Other, StreamStarted
<1>20. CASE StartStream \/ SecondChunk
  BY <1>20 DEF StartStream, SecondChunk
<1>21. CASE StopMotor
  BY <1>21 DEF StopMotor
<1>22. CASE MotorStopped \/ StopOnly
  BY <1>22 DEF MotorStopped, StopOnly
<1>23. CASE UNCHANGED vars
  BY <1>23 DEF vars
<1> QED
  BY <1>1, <1>2, <1>3, <1>4, <1>5, <1>6, <1>7, <1>8, <1>9, <1>10, <1>11, <1>12, <1>13, <1>14,
     <1>15, <1>16, <1>17, <1>18, <1>19, <1>20, <1>21, <1>22, <1>23
     DEF Next, DIReadThread, MainLoop, DIUpdateRegisters

\* A request is posted into an empty queue, and the thread takes it out.
LEMMA PostStep ==
    ASSUME Base, pc # "reopening", NEW k \in {"read", "stream", "keepalive", "reopen"},
           NEW o \in Off \cup {0, 1}, DiscReadAsync(k, o)
    PROVE  /\ DI_MessageQueue = <<>> /\ thread = NoRequest /\ finished /\ ~finished'
           /\ DI_MessageQueue' = <<[kind |-> k, off |-> o]>> /\ thread' = NoRequest
           /\ [kind |-> k, off |-> o] \in Posted
BY OneSlot DEF Base, Requests, DiscReadAsync, Posted

LEMMA TakeStep ==
    ASSUME Base, Dequeue
    PROVE  /\ thread = NoRequest /\ thread' \in Posted /\ thread' # NoRequest
           /\ DI_MessageQueue = <<thread'>> /\ DI_MessageQueue' = <<>>
<1>1. PICK r \in Posted : DI_MessageQueue = <<r>>
  BY DEF Base, Requests, Dequeue
<1>2. thread' = r /\ DI_MessageQueue' = <<>>
  BY <1>1, OneSlot DEF Dequeue
<1> QED
  BY <1>1, <1>2 DEF Dequeue, Posted, NoRequest

\* finished tells the truth about the thread.
LEMMA RequestsStep == Base /\ [Next]_vars => Requests'
<1> SUFFICES ASSUME Base, [Next]_vars PROVE Requests'
  OBVIOUS
<1> USE DEF Base, TypeOK, Flags, Places, regs, ppc, main, dithread, change, Goto, Command,
        DiscReadAsync, DIInterrupt, ReadSpeedEnds,
        Control, Cover, Requests, At, DiscCheckAsync, MaySave, StopInProgress,
        NoRequest, Worked, Posted
<1>1. CASE Issue
  BY <1>1 DEF Issue
<1>2. CASE Complete
  BY <1>2 DEF Complete
<1>3. CASE CoverInterrupt
  BY <1>3 DEF CoverInterrupt
<1>4. CASE TimePasses
  BY <1>4 DEF TimePasses
<1>5. CASE Dequeue
  BY <1>5 DEF Dequeue
<1>6. CASE ThreadRead
  BY <1>6 DEF ThreadRead
<1>7. CASE ThreadOther \/ ThreadReopen
  BY <1>7 DEF ThreadOther, ThreadReopen
<1>8. CASE ThreadAck
  BY <1>8 DEF ThreadAck
<1>9. CASE Finished \/ LogInWait \/ LogDone
  BY <1>9 DEF Finished, LogInWait, LogDone
<1>10. CASE FileDone \/ Save \/ NoDeviceIO \/ CoverWaits
  BY <1>10 DEF FileDone, Save, NoDeviceIO, CoverWaits
<1>11. CASE NoCommand \/ NoFileCommand \/ UmbraFile \/ NoChunk \/ NoReport \/ Report
  BY <1>11 DEF NoCommand, NoFileCommand, UmbraFile, NoChunk, NoReport, Report
<1>12. CASE Poll
  BY <1>12 DEF Poll
<1>13. CASE CoverTimer
  BY <1>13 DEF CoverTimer
<1>14. CASE CoverRaised
  BY <1>14 DEF CoverRaised
<1>15. CASE KeepAlive \/ NextChunk
  <2>1. PICK k \in {"stream", "keepalive"}, o \in {0, 1} : DiscReadAsync(k, o)
    BY <1>15 DEF KeepAlive, NextChunk
  <2>2. /\ DI_MessageQueue' = <<[kind |-> k, off |-> o]>> /\ thread' = NoRequest /\ ~finished'
        /\ [kind |-> k, off |-> o] \in Posted
    <3>1. pc # "reopening" /\ k \in {"read", "stream", "keepalive", "reopen"} /\ o \in Off \cup {0, 1}
      BY <1>15 DEF KeepAlive, NextChunk
    <3> HIDE DEF Base, DiscReadAsync, Posted, NoRequest
    <3> QED
      BY <2>1, <3>1, PostStep
  <2>3. \A r \in Posted : DI_MessageQueue' = <<r>> => r.kind # "reopen"
    BY <2>2, OneSlot
  <2>4. pc' = "finish"
    BY <1>15 DEF KeepAlive, NextChunk
  <2> QED
    BY <2>2, <2>3, <2>4, OneSlot
<1>16. CASE Read
  <2>1. /\ DI_MessageQueue' = <<[kind |-> "read", off |-> cmd.off]>> /\ thread' = NoRequest /\ ~finished'
        /\ [kind |-> "read", off |-> cmd.off] \in Posted
    <3>1. pc = "di" /\ cmd.off \in Off /\ DiscReadAsync("read", cmd.off)
      BY <1>16 DEF Read, Commands
    <3> HIDE DEF Base, DiscReadAsync, Posted, NoRequest
    <3> QED
      BY <3>1, PostStep
  <2>2. \A r \in Posted : DI_MessageQueue' = <<r>> => r.kind # "reopen"
    BY <2>1, OneSlot
  <2>3. pc' = "exi" /\ DI_IRQ' /\ cmd' = cmd /\ cmd.op = "A8"
    BY <1>16 DEF Read
  <2> QED
    BY <2>1, <2>2, <2>3, OneSlot
<1>17. CASE ReadSync
  <2>1. /\ DI_MessageQueue' = <<[kind |-> "read", off |-> cmd.off]>> /\ thread' = NoRequest /\ ~finished'
        /\ [kind |-> "read", off |-> cmd.off] \in Posted
    <3>1. pc = "di" /\ cmd.off \in Off /\ DiscReadAsync("read", cmd.off)
      BY <1>17 DEF ReadSync, Commands
    <3> HIDE DEF Base, DiscReadAsync, Posted, NoRequest
    <3> QED
      BY <3>1, PostStep
  <2>2. \A r \in Posted : DI_MessageQueue' = <<r>> => r.kind # "reopen"
    BY <2>1, OneSlot
  <2>3. pc' = "finish"
    BY <1>17 DEF ReadSync
  <2> QED
    BY <2>1, <2>2, <2>3, OneSlot
<1>18. CASE ReadSyncDone
  BY <1>18 DEF ReadSyncDone
<1>19. CASE Seek \/ Other \/ StreamStarted
  BY <1>19 DEF Seek, Other, StreamStarted
<1>20. CASE StartStream \/ SecondChunk
  <2>1. PICK o \in {0, 1} : DiscReadAsync("stream", o)
    BY <1>20 DEF StartStream, SecondChunk
  <2>2. /\ DI_MessageQueue' = <<[kind |-> "stream", off |-> o]>> /\ thread' = NoRequest /\ ~finished'
        /\ [kind |-> "stream", off |-> o] \in Posted
    BY <1>20, <2>1, PostStep DEF StartStream, SecondChunk
  <2>3. \A r \in Posted : DI_MessageQueue' = <<r>> => r.kind # "reopen"
    BY <2>2, OneSlot
  <2>4. pc' = "finish"
    BY <1>20 DEF StartStream, SecondChunk
  <2> QED
    BY <2>2, <2>3, <2>4, OneSlot
<1>21. CASE StopMotor
  <2>1. finished /\ DI_MessageQueue = <<>> /\ thread = NoRequest
    BY <1>21 DEF StopMotor
  <2>2. PICK r \in Posted : r = [kind |-> "reopen", off |-> 0]
    OBVIOUS
  <2>3. DI_MessageQueue' = <<r>> /\ thread' = NoRequest /\ finished' /\ pc' = "reopening"
    BY <1>21, <2>1, <2>2, OneSlot DEF StopMotor
  <2>4. \A q \in Posted : DI_MessageQueue' = <<q>> => q.kind = "reopen"
    BY <2>2, <2>3, OneSlot
  <2> QED
    BY <2>2, <2>3, <2>4, OneSlot
<1>22. CASE MotorStopped \/ StopOnly
  BY <1>22 DEF MotorStopped, StopOnly
<1>23. CASE UNCHANGED vars
  BY <1>23 DEF vars
<1> QED
  BY <1>1, <1>2, <1>3, <1>4, <1>5, <1>6, <1>7, <1>8, <1>9, <1>10, <1>11, <1>12, <1>13, <1>14,
     <1>15, <1>16, <1>17, <1>18, <1>19, <1>20, <1>21, <1>22, <1>23
     DEF Next, DIReadThread, MainLoop, DIUpdateRegisters

\* What a read delivers stays until the game has it.
LEMMA DeliveryStep == Base /\ [Next]_vars => Delivery'
<1> SUFFICES ASSUME Base, [Next]_vars PROVE Delivery'
  OBVIOUS
<1> USE DEF Base, TypeOK, Flags, Places, regs, ppc, main, dithread, change, Goto, Command,
        DiscReadAsync, DIInterrupt, ReadSpeedEnds,
        Control, Cover, Requests, Delivery, ReadingNow, ReadQueued, Reading, At,
        DiscCheckAsync, MaySave,
        StopInProgress, NoRequest, NoData, Data, Worked, Posted, Discs
<1>1. CASE Issue
  BY <1>1 DEF Issue
<1>2. CASE Complete
  BY <1>2 DEF Complete
<1>3. CASE CoverInterrupt
  BY <1>3 DEF CoverInterrupt
<1>4. CASE TimePasses
  BY <1>4 DEF TimePasses
<1>5. CASE Dequeue
  BY <1>5 DEF Dequeue
<1>6. CASE ThreadRead
  BY <1>6 DEF ThreadRead
<1>7. CASE ThreadOther \/ ThreadReopen
  BY <1>7 DEF ThreadOther, ThreadReopen
<1>8. CASE ThreadAck
  BY <1>8 DEF ThreadAck
<1>9. CASE Finished \/ LogInWait \/ LogDone
  BY <1>9 DEF Finished, LogInWait, LogDone
<1>10. CASE FileDone \/ Save \/ NoDeviceIO \/ CoverWaits
  BY <1>10 DEF FileDone, Save, NoDeviceIO, CoverWaits
<1>11. CASE NoCommand \/ NoFileCommand \/ UmbraFile \/ NoChunk \/ NoReport \/ Report
  BY <1>11 DEF NoCommand, NoFileCommand, UmbraFile, NoChunk, NoReport, Report
<1>12. CASE Poll
  <2>1. pc = "irq" /\ pc' = "disc" /\ ~At("syncdone") /\ ~At("syncdone")' /\ DI_IRQ
        /\ UNCHANGED <<dest, game, cmd, opened, DI_MessageQueue, thread>>
    BY <1>12 DEF Poll
  <2>2. CASE UNCHANGED <<DI_CONTROL, DI_IRQ>>
    <3>1. (ReadingNow' <=> ReadingNow) /\ (ReadQueued' <=> ReadQueued)
      BY <2>1, <2>2
    <3> QED
      BY <2>1, <2>2, <3>1
  <2>3. CASE ~UNCHANGED <<DI_CONTROL, DI_IRQ>>
    <3>1. finished /\ DI_IRQ' = FALSE /\ DI_CONTROL' = FALSE
      BY <1>12, <2>3 DEF Poll
    <3>2. DI_MessageQueue = <<>> /\ thread = NoRequest /\ ~ReadQueued
      BY <2>1, <3>1, OneSlot
    <3>3. Reading(cmd) /\ game = "waiting" => dest = Data(opened, cmd.off)
      BY <2>1, <3>2
    <3> QED
      BY <2>1, <3>1, <3>2, <3>3, OneSlot
  <2> QED
    BY <2>2, <2>3
<1>13. CASE CoverTimer
  BY <1>13 DEF CoverTimer
<1>14. CASE CoverRaised
  BY <1>14 DEF CoverRaised
<1>15. CASE KeepAlive \/ NextChunk
  BY <1>15 DEF KeepAlive, NextChunk
<1>16. CASE Read
  <2>1. /\ DI_MessageQueue' = <<[kind |-> "read", off |-> cmd.off]>> /\ thread' = NoRequest /\ ~finished'
        /\ [kind |-> "read", off |-> cmd.off] \in Posted
    <3>1. pc = "di" /\ cmd.off \in Off /\ DiscReadAsync("read", cmd.off)
      BY <1>16 DEF Read, Commands
    <3> HIDE DEF Base, DiscReadAsync, Posted, NoRequest
    <3> QED
      BY <3>1, PostStep
  <2>2. /\ pc' = "exi" /\ DI_IRQ' /\ cmd.op = "A8" /\ DI_CONTROL
        /\ UNCHANGED <<cmd, dest, game, opened, DI_CONTROL>>
    BY <1>16 DEF Read
  <2>3. ReadingNow' /\ ReadQueued'
    BY <2>1, <2>2
  <2>4. \A r \in Posted : DI_MessageQueue' = <<r>> => r.off = cmd.off
    BY <2>1, OneSlot
  <2> QED
    BY <2>1, <2>2, <2>3, <2>4
<1>17. CASE ReadSync
  <2>1. /\ DI_MessageQueue' = <<[kind |-> "read", off |-> cmd.off]>> /\ thread' = NoRequest /\ ~finished'
        /\ [kind |-> "read", off |-> cmd.off] \in Posted
    <3>1. pc = "di" /\ cmd.off \in Off /\ DiscReadAsync("read", cmd.off)
      BY <1>17 DEF ReadSync, Commands
    <3> HIDE DEF Base, DiscReadAsync, Posted, NoRequest
    <3> QED
      BY <3>1, PostStep
  <2>2. /\ pc' = "finish" /\ cont' = "syncdone" /\ cmd.op = "F8" /\ DI_CONTROL /\ ~DI_IRQ
        /\ UNCHANGED <<cmd, dest, game, opened, DI_CONTROL, DI_IRQ>>
    BY <1>17 DEF ReadSync
  <2>3. ReadingNow' /\ ReadQueued'
    BY <2>1, <2>2
  <2>4. \A r \in Posted : DI_MessageQueue' = <<r>> => r.off = cmd.off
    BY <2>1, OneSlot
  <2> QED
    BY <2>1, <2>2, <2>3, <2>4
<1>18. CASE ReadSyncDone
  BY <1>18 DEF ReadSyncDone
<1>19. CASE Seek \/ Other \/ StreamStarted
  BY <1>19 DEF Seek, Other, StreamStarted
<1>20. CASE StartStream \/ SecondChunk
  BY <1>20 DEF StartStream, SecondChunk
<1>21. CASE StopMotor
  <2>1. DI_MessageQueue = <<>> /\ thread = NoRequest /\ cmd.op = "E3" /\ dest = NoData
    BY <1>21 DEF StopMotor
  <2>2. PICK r \in Posted : r = [kind |-> "reopen", off |-> 0]
    OBVIOUS
  <2>3. DI_MessageQueue' = <<r>> /\ thread' = NoRequest /\ pc' = "reopening" /\ pc = "di"
        /\ UNCHANGED <<dest, game, cmd, opened, DI_CONTROL, DI_IRQ>> /\ ~DI_IRQ
    BY <1>21, <2>1, <2>2, OneSlot DEF StopMotor
  <2>4. \A q \in Posted : DI_MessageQueue' = <<q>> => q.kind = "reopen"
    BY <2>2, <2>3, OneSlot
  <2>5. ~ReadingNow' /\ ~Reading(cmd)
    BY <2>1, <2>3
  <2> QED
    BY <2>1, <2>3, <2>4, <2>5
<1>22. CASE MotorStopped \/ StopOnly
  BY <1>22 DEF MotorStopped, StopOnly
<1>23. CASE UNCHANGED vars
  BY <1>23 DEF vars
<1> QED
  BY <1>1, <1>2, <1>3, <1>4, <1>5, <1>6, <1>7, <1>8, <1>9, <1>10, <1>11, <1>12, <1>13, <1>14,
     <1>15, <1>16, <1>17, <1>18, <1>19, <1>20, <1>21, <1>22, <1>23
     DEF Next, DIReadThread, MainLoop, DIUpdateRegisters

\* Registers, places and timers.
LEMMA TypesStep == Base /\ [Next]_vars => Flags' /\ Places'
<1> SUFFICES ASSUME Base, [Next]_vars PROVE Flags' /\ Places'
  OBVIOUS
<1> USE DIDriveAssumption DEF Base, TypeOK, Flags, Places, regs, ppc, main, dithread, change, Goto, Command,
        DiscReadAsync, DIInterrupt, ReadSpeedEnds
<1>1. CASE Issue
  BY <1>1 DEF Issue
<1>2. CASE Complete
  <2>1. header' \in Discs /\ dest' = NoData
    BY <1>2 DEF Complete
  <2>2. Flags'
    BY <1>2, <2>1 DEF Complete
  <2>3. Places'
    BY <1>2, <2>1 DEF Complete
  <2> QED
    BY <2>2, <2>3
<1>3. CASE CoverInterrupt
  <2>2. Flags'
    BY <1>3 DEF CoverInterrupt
  <2>3. Places'
    BY <1>3 DEF CoverInterrupt
  <2> QED
    BY <2>2, <2>3
<1>4. CASE TimePasses
  <2>2. Flags'
    BY <1>4 DEF TimePasses
  <2>3. Places'
    BY <1>4 DEF TimePasses
  <2> QED
    BY <2>2, <2>3
<1>5. CASE Dequeue
  BY <1>5 DEF Dequeue
<1>6. CASE ThreadRead
  <2>1. Data(opened, thread.off) \in [disc : Discs, off : Off]
    BY <1>6 DEF ThreadRead, Data, Control, Requests, Delivery, ReadingNow, At, Commands
  <2> QED
    BY <1>6, <2>1 DEF ThreadRead
<1>7. CASE ThreadOther \/ ThreadReopen
  BY <1>7 DEF ThreadOther, ThreadReopen
<1>8. CASE ThreadAck
  BY <1>8 DEF ThreadAck
<1>9. CASE Finished \/ LogInWait \/ LogDone
  BY <1>9 DEF Finished, LogInWait, LogDone
<1>10. CASE FileDone \/ Save \/ NoDeviceIO \/ CoverWaits
  BY <1>10 DEF FileDone, Save, NoDeviceIO, CoverWaits
<1>11. CASE NoCommand \/ NoFileCommand \/ UmbraFile \/ NoChunk \/ NoReport \/ Report
  BY <1>11 DEF NoCommand, NoFileCommand, UmbraFile, NoChunk, NoReport, Report
<1>12. CASE Poll
  <2>1. Flags'
    BY <1>12 DEF Poll
  <2>2. Places'
    BY <1>12 DEF Poll
  <2> QED
    BY <2>1, <2>2
<1>13. CASE CoverTimer
  BY <1>13 DEF CoverTimer
<1>14. CASE CoverRaised
  <2>2. Flags'
    BY <1>14 DEF CoverRaised
  <2>3. Places'
    BY <1>14 DEF CoverRaised
  <2> QED
    BY <2>2, <2>3
<1>15. CASE KeepAlive \/ NextChunk
  BY <1>15 DEF KeepAlive, NextChunk
<1>16. CASE Read
  BY <1>16 DEF Read
<1>17. CASE ReadSync
  BY <1>17 DEF ReadSync
<1>18. CASE ReadSyncDone
  <2>1. Flags'
    BY <1>18 DEF ReadSyncDone
  <2>2. Places'
    BY <1>18 DEF ReadSyncDone
  <2> QED
    BY <2>1, <2>2
<1>19. CASE Seek \/ Other \/ StreamStarted
  <2>2. Flags'
    BY <1>19 DEF Seek, Other, StreamStarted
  <2>3. Places'
    BY <1>19 DEF Seek, Other, StreamStarted
  <2> QED
    BY <2>2, <2>3
<1>20. CASE StartStream \/ SecondChunk
  BY <1>20 DEF StartStream, SecondChunk
<1>21. CASE StopMotor
  <2>1. 1 - header \in Discs
    BY DEF Discs
  <2> QED
    BY <1>21, <2>1 DEF StopMotor, OtherDisc
<1>22. CASE MotorStopped \/ StopOnly
  <2>1. Flags'
    BY <1>22 DEF MotorStopped, StopOnly
  <2>2. Places'
    BY <1>22 DEF MotorStopped, StopOnly
  <2> QED
    BY <2>1, <2>2
<1>23. CASE UNCHANGED vars
  BY <1>23 DEF vars
<1> QED
  BY <1>1, <1>2, <1>3, <1>4, <1>5, <1>6, <1>7, <1>8, <1>9, <1>10, <1>11, <1>12, <1>13, <1>14,
     <1>15, <1>16, <1>17, <1>18, <1>19, <1>20, <1>21, <1>22, <1>23
     DEF Next, DIReadThread, MainLoop, DIUpdateRegisters

\* What holds whenever umbra's settings come.
LEMMA BaseStep == Base /\ [Next]_vars => Base'
<1> SUFFICES ASSUME Base, [Next]_vars PROVE Base'
  OBVIOUS
<1>1. Flags' /\ Places' /\ Control' /\ Cover' /\ Requests' /\ Delivery'
  BY TypesStep, ControlStep, CoverStep, RequestsStep, DeliveryStep
<1>2. Len(DI_MessageQueue') <= 1
  <2>1. CASE DI_MessageQueue' = <<>>
    BY <2>1
  <2>2. ASSUME NEW r \in Posted, DI_MessageQueue' = <<r>> PROVE Len(DI_MessageQueue') <= 1
    BY <2>2
  <2> QED
    BY <1>1, <2>1, <2>2 DEF Requests
<1>3. thread'.kind \in {"none", "read", "stream", "keepalive", "reopen", "ack"}
  BY <1>1 DEF Requests, Worked, NoRequest
<1> QED
  BY <1>1, <1>2, <1>3 DEF Base, TypeOK

LEMMA InitBase == Init => Base /\ FileFree
<1> SUFFICES ASSUME Init PROVE Base /\ FileFree
  OBVIOUS
<1>1. TypeOK
  <2>1. Flags
    BY DEF Init, Flags
  <2>2. 0 \in 0 .. MaxCmd /\ cmd \in Commands /\ Len(<<>>) = 0
    BY DIDriveAssumption DEF Init
  <2>3. Places
    BY <2>2 DEF Init, Places
  <2> QED
    BY <2>1, <2>2, <2>3 DEF Init, TypeOK, NoRequest
<1>2. Control /\ Cover /\ FileFree
  BY DEF Init, Control, Cover, At, FileFree
<1>3. \A r : <<r>> # <<>>
  OBVIOUS
<1>4. Requests /\ Delivery
  BY <1>3 DEF Init, Requests, Delivery, ReadingNow, ReadQueued, At, NoRequest
<1> QED
  BY <1>1, <1>2, <1>4 DEF Base

\* Only a request is posted while something is in progress, and nobody enters the file system
\* then: a save and a settings command need a drive at rest, a seek a new command, the log
\* a thread without work.
LEMMA FileFreeStep == Base /\ FileFree /\ ~UmbraAnytime /\ ~LogAnytime /\ [Next]_vars => FileFree'
<1> SUFFICES ASSUME Base, FileFree, ~UmbraAnytime, ~LogAnytime, [Next]_vars PROVE FileFree'
  OBVIOUS
<1> USE DEF Base, TypeOK, Flags, Places, regs, ppc, main, dithread, change, Goto, Command,
        DiscReadAsync, DIInterrupt, ReadSpeedEnds,
        Requests, FileFree, MaySave, Quiet, ThreadInFile, NoRequest, Posted
<1>1. CASE Issue
  BY <1>1 DEF Issue
<1>2. CASE Complete
  BY <1>2 DEF Complete
<1>3. CASE CoverInterrupt
  BY <1>3 DEF CoverInterrupt
<1>4. CASE TimePasses
  BY <1>4 DEF TimePasses
<1>5. CASE Dequeue
  BY <1>5 DEF Dequeue
<1>6. CASE ThreadRead
  BY <1>6 DEF ThreadRead
<1>7. CASE ThreadOther \/ ThreadReopen
  BY <1>7 DEF ThreadOther, ThreadReopen
<1>8. CASE ThreadAck
  BY <1>8 DEF ThreadAck
<1>9. CASE Finished \/ LogInWait \/ LogDone
  BY <1>9 DEF Finished, LogInWait, LogDone
<1>10. CASE FileDone \/ Save \/ NoDeviceIO \/ CoverWaits
  BY <1>10 DEF FileDone, Save, NoDeviceIO, CoverWaits
<1>11. CASE NoCommand \/ NoFileCommand \/ UmbraFile \/ NoChunk \/ NoReport \/ Report
  BY <1>11 DEF NoCommand, NoFileCommand, UmbraFile, NoChunk, NoReport, Report
<1>12. CASE Poll
  BY <1>12 DEF Poll
<1>13. CASE CoverTimer
  BY <1>13 DEF CoverTimer
<1>14. CASE CoverRaised
  BY <1>14 DEF CoverRaised
<1>15. CASE KeepAlive \/ NextChunk
  BY <1>15 DEF KeepAlive, NextChunk
<1>16. CASE Read
  BY <1>16 DEF Read
<1>17. CASE ReadSync
  BY <1>17 DEF ReadSync
<1>18. CASE ReadSyncDone
  BY <1>18 DEF ReadSyncDone
<1>19. CASE Seek \/ Other \/ StreamStarted
  <2>1. CASE Seek
    <3>1. finished /\ pc # "reopening" /\ UNCHANGED <<DI_MessageQueue, thread>>
      BY <2>1 DEF Seek
    <3> QED
      BY <3>1
  <2>2. (pc' # "file" /\ pc' # "log") \/ Seek
    BY <1>19 DEF Seek, Other, StreamStarted
  <2> QED
    BY <2>1, <2>2
<1>20. CASE StartStream \/ SecondChunk
  BY <1>20 DEF StartStream, SecondChunk
<1>21. CASE StopMotor
  BY <1>21 DEF StopMotor
<1>22. CASE MotorStopped \/ StopOnly
  BY <1>22 DEF MotorStopped, StopOnly
<1>23. CASE UNCHANGED vars
  BY <1>23 DEF vars
<1> QED
  BY <1>1, <1>2, <1>3, <1>4, <1>5, <1>6, <1>7, <1>8, <1>9, <1>10, <1>11, <1>12, <1>13, <1>14,
     <1>15, <1>16, <1>17, <1>18, <1>19, <1>20, <1>21, <1>22, <1>23
     DEF Next, DIReadThread, MainLoop, DIUpdateRegisters

-----------------------------------------------------------------------------
(* The drive of the game                                                   *)

\* What the game sees of the drive, by the start bit and the interrupt.
LEMMA Sees ==
    ASSUME Base
    PROVE  /\ Ended <=> game = "waiting" /\ ~DI_CONTROL
           /\ game = "idle" => Phase = "idle" /\ Delivered = NoData
           /\ game = "waiting" /\ DI_CONTROL => Phase = "busy" /\ Delivered = NoData
           /\ game = "waiting" /\ ~DI_CONTROL => Phase = "done" /\ Delivered = dest
           /\ game = "cover" => /\ Delivered = NoData
                                /\ Phase = IF diInt THEN "closed" ELSE "open"
<1>1. Ended <=> game = "waiting" /\ ~DI_CONTROL
  BY DEF Base, Control, Ended
<1> QED
  BY <1>1 DEF Phase, Delivered

\* The drive at rest.
LEMMA InitDrive == Init => Drive!DInit
<1> SUFFICES ASSUME Init PROVE Drive!DInit
  OBVIOUS
<1>1. Phase = "idle" /\ Delivered = NoData
  BY InitBase, Sees DEF Init
<1> QED
  BY <1>1 DEF Init, Drive!DInit

\* The game keeps its discs.
LEMMA NeverChanges == [Next]_vars => multiDisc' = multiDisc
BY DEF Next, Issue, Complete, CoverInterrupt, TimePasses, DIReadThread, Dequeue, ThreadRead, ThreadOther,
       ThreadReopen, ThreadAck, MainLoop, Finished, LogInWait, LogDone, FileDone, Poll, Save, KeepAlive,
       NoDeviceIO, CoverWaits, CoverTimer, CoverRaised, DIUpdateRegisters, NoCommand, Read, ReadSync,
       ReadSyncDone, Seek, Other, StartStream, SecondChunk, StreamStarted, StopMotor, MotorStopped,
       StopOnly, NoFileCommand, UmbraFile, NoChunk, NextChunk, NoReport, Report, change, vars

\* A step changes what the game sees as the drive does, or not at all.
LEMMA DriveStep == Base /\ Base' /\ [Next]_vars => [Drive!DNext]_<<Phase, [cmd |-> cmd, multi |-> multiDisc], Delivered, opened>>
<1> SUFFICES ASSUME Base, Base', [Next]_vars,
                    ~UNCHANGED <<Phase, [cmd |-> cmd, multi |-> multiDisc], Delivered, opened>>
             PROVE  Drive!DNext
  OBVIOUS
<1> USE DEF regs, ppc, main, dithread, change, Goto, Command,
        DiscReadAsync, DIInterrupt, ReadSpeedEnds
<1>0. multiDisc' = multiDisc
  BY NeverChanges
<1>1. /\ game = "idle" => Phase = "idle" /\ Delivered = NoData
      /\ game = "waiting" /\ DI_CONTROL => Phase = "busy" /\ Delivered = NoData
      /\ game = "waiting" /\ ~DI_CONTROL => Phase = "done" /\ Delivered = dest
      /\ game = "cover" => Delivered = NoData /\ Phase = IF diInt THEN "closed" ELSE "open"
  BY Sees
<1>2. /\ game' = "idle" => Phase' = "idle" /\ Delivered' = NoData
      /\ game' = "waiting" /\ DI_CONTROL' => Phase' = "busy" /\ Delivered' = NoData
      /\ game' = "waiting" /\ ~DI_CONTROL' => Phase' = "done" /\ Delivered' = dest'
      /\ game' = "cover" => Delivered' = NoData /\ Phase' = IF diInt' THEN "closed" ELSE "open"
  <2>1. /\ Ended' <=> game' = "waiting" /\ ~DI_CONTROL'
    BY DEF Base, Control, Ended
  <2> QED
    BY <2>1 DEF Phase, Delivered
<1>3. game \in {"idle", "waiting", "cover"}
  BY DEF Base, TypeOK, Places
<1>4. ASSUME UNCHANGED <<DI_CONTROL, diInt, game, cmd, opened>>,
             dest' = dest \/ DI_CONTROL \/ game # "waiting"
      PROVE  FALSE
  BY <1>0, <1>1, <1>2, <1>3, <1>4
<1>5. CASE Issue
  <2>1. Phase = "idle" /\ Phase' = "busy" /\ Delivered' = Delivered /\ cmd' \in Commands
    BY <1>1, <1>2, <1>5 DEF Issue
  <2> QED
    BY <1>0, <1>5, <2>1 DEF Issue, Drive!Ask, Drive!DNext, Base, TypeOK, Flags
<1>6. CASE Complete
  <2>1. /\ Phase = "done" /\ Delivered' = NoData /\ cmd' = cmd /\ opened' = opened
        /\ Phase' = IF cmd.op = "E3" /\ multiDisc THEN "open" ELSE "idle"
    BY <1>1, <1>2, <1>6 DEF Complete
  <2> QED
    BY <2>1, <1>0 DEF Drive!Acknowledge, Drive!DNext, DriveStops, Stopping
<1>7. CASE CoverInterrupt
  <2>1. Phase = "closed" /\ Phase' = "idle" /\ UNCHANGED <<cmd, Delivered, opened>>
    BY <1>1, <1>2, <1>7 DEF CoverInterrupt
  <2> QED
    BY <1>0, <2>1 DEF Drive!AcknowledgeCover, Drive!DNext
<1>8. CASE ThreadReopen
  <2>1. pc = "reopening"
    BY <1>8 DEF Base, Requests, ThreadReopen
  <2>2. game = "waiting" /\ DI_CONTROL /\ cmd.op = "E3" /\ multiDisc /\ path \in Discs
    BY <1>3, <2>1 DEF Base, Control, TypeOK, Places
  <2>3. Phase = "busy" /\ UNCHANGED <<Phase, cmd, Delivered>> /\ opened' \in Discs
    BY <1>1, <1>2, <1>8, <2>2 DEF ThreadReopen
  <2> QED
    BY <2>2, <2>3, <1>0 DEF Drive!ChangeDisc, Drive!DNext, DriveStops, Stopping
<1>9. ASSUME game = "waiting", DI_CONTROL, DI_CONTROL' = FALSE, UNCHANGED <<game, cmd, opened>>
      PROVE  Drive!DNext
  <2>1. Phase = "busy" /\ Phase' = "done" /\ Delivered' = dest'
    BY <1>1, <1>2, <1>9
  <2>2. dest' = IF Reading(cmd) THEN Data(opened, cmd.off) ELSE NoData
    <3>1. Reading(cmd)' <=> Reading(cmd)
      BY <1>9 DEF Reading
    <3> QED
      BY <1>9, <3>1 DEF Base, Delivery
  <2> QED
    BY <1>0, <1>9, <2>1, <2>2 DEF Drive!Report, Drive!DNext, DriveReads, ReadBlock
<1>10. CASE Poll
  <2>1. game = "waiting" /\ DI_CONTROL /\ UNCHANGED <<game, cmd, opened, dest>>
    BY <1>3, <1>10 DEF Poll, Base, Control
  <2>2. DI_CONTROL' = FALSE \/ UNCHANGED <<DI_CONTROL, diInt>>
    BY <1>10 DEF Poll
  <2> QED
    BY <1>4, <1>9, <2>1, <2>2
<1>11. CASE ReadSyncDone
  <2>1. game = "waiting" /\ DI_CONTROL
    BY <1>3, <1>11 DEF ReadSyncDone, Base, Control, At
  <2> QED
    BY <1>9, <1>11, <2>1 DEF ReadSyncDone
<1>12. CASE CoverRaised
  <2>1. game = "cover" /\ ~diInt /\ ~DI_CONTROL
    BY <1>12 DEF CoverRaised, Base, Cover, Control
  <2>2. CASE diInt' = TRUE
    <3>1. Phase = "open" /\ Phase' = "closed" /\ UNCHANGED <<cmd, Delivered, opened>>
      BY <1>1, <1>2, <1>12, <2>1, <2>2 DEF CoverRaised
    <3> QED
      BY <1>0, <3>1 DEF Drive!CoverCloses, Drive!DNext
  <2>3. CASE diInt' # TRUE
    BY <1>4, <1>12, <2>1, <2>3 DEF CoverRaised
  <2> QED
    BY <2>2, <2>3
<1>13. CASE ThreadRead
  <2>1. DI_CONTROL \/ game # "waiting"
    BY <1>13 DEF ThreadRead, Base, Delivery, ReadingNow, Control
  <2> QED
    BY <1>4, <1>13, <2>1 DEF ThreadRead
<1>14. CASE TimePasses \/ Dequeue \/ ThreadOther \/ ThreadAck \/ Finished \/ LogInWait
            \/ LogDone \/ FileDone \/ Save \/ NoDeviceIO
  BY <1>4, <1>14 DEF TimePasses, Dequeue, ThreadOther, ThreadAck, Finished, LogInWait,
     LogDone, FileDone, Save, NoDeviceIO
<1>15. CASE \/ CoverWaits \/ CoverTimer \/ KeepAlive \/ NextChunk \/ NoCommand \/ NoFileCommand
            \/ UmbraFile \/ NoChunk \/ NoReport \/ Report
  BY <1>4, <1>15 DEF CoverWaits, CoverTimer, KeepAlive, NextChunk, NoCommand, NoFileCommand, UmbraFile,
     NoChunk, NoReport, Report
<1>16. CASE \/ Read \/ ReadSync \/ Seek \/ Other \/ StartStream \/ SecondChunk \/ StreamStarted
            \/ StopMotor \/ MotorStopped \/ StopOnly \/ UNCHANGED vars
  BY <1>4, <1>16 DEF Read, ReadSync, Seek, Other, StartStream, SecondChunk, StreamStarted, StopMotor,
     MotorStopped, StopOnly, vars
<1> QED
  BY <1>5, <1>6, <1>7, <1>8, <1>10, <1>11, <1>12, <1>13, <1>14, <1>15, <1>16
     DEF Next, DIReadThread, MainLoop, DIUpdateRegisters

-----------------------------------------------------------------------------
(* The properties                                                          *)

\* Registers, threads and timers keep their types, and the DI thread has one request at a time
\* (DI.c:128), whenever umbra's settings come.
THEOREM DriveTypes == Spec => []TypeOK
<1>1. Init => Base
  BY InitBase
<1>2. Base => TypeOK
  BY DEF Base
<1> QED
  BY <1>1, <1>2, BaseStep, PTL DEF Spec

\* If the game sends no umbra settings command during a disc command, and the main thread
\* writes no log entry while the DI thread has work (NIN_CFG_LOG is off, or reports come at
\* quiet moments), it is in the file system only while the DI thread is not (main.c:378,
\* GCAM.c:356).
THEOREM FilesExclusive == ASSUME ~UmbraAnytime, ~LogAnytime PROVE Spec => []FileIOExclusive
<1>1. Init => IInv
  BY InitBase DEF IInv
<1>2. IInv /\ [Next]_vars => IInv'
  BY BaseStep, FileFreeStep DEF IInv
<1>3. IInv => FileIOExclusive
  BY DEF IInv, FileFree, Quiet, FileIOExclusive
<1> QED
  BY <1>1, <1>2, <1>3, PTL DEF Spec

\* To the game the emulation is a drive: every command ends once, a read after it delivered the
\* block asked for from the disc in the drive, a stop before the cover closes.
THEOREM DriveImplemented == Spec => ImplementsDrive
<1>1. Init => Base /\ Drive!DInit
  BY InitBase, InitDrive
<1>2. Base /\ [Next]_vars => Base' /\ [Drive!DNext]_<<Phase, [cmd |-> cmd, multi |-> multiDisc], Delivered, opened>>
  BY BaseStep, DriveStep
<1> QED
  BY <1>1, <1>2, PTL DEF Spec, ImplementsDrive, Drive!DSpec, Drive!dvars
=============================================================================
