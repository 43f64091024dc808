------------------------------ MODULE AudioStream ------------------------------
(***************************************************************************)
(* Audio streamed from the disc (kernel/Stream.c).  The main loop reads    *)
(* the stream chunk by chunk and decodes each into one of two PCM buffers  *)
(* in shared memory; the interrupt handler of the PowerPC                  *)
(* (asm/__DSPHandler.S) mixes them into the game's sound, one after the    *)
(* other, and asks for an update whenever it is through with one.  Nothing *)
(* but the count of updates tells the main loop which buffer that is.      *)
(*                                                                         *)
(* A chunk is decoded into as many cells as a buffer has; one run of the   *)
(* handler plays a cell.  Positions count the cells of the stream from 1.  *)
(***************************************************************************)
EXTENDS Naturals

CONSTANTS
    Cells,     \* cells of a buffer
    Sizes,     \* sizes of the streams, in cells
    Late       \* may the main loop take longer for an update than a buffer lasts?

\* Stream.c:202 does not look for the end of the stream, so that 170-172 are right only for
\* streams of more than two chunks.
ASSUME AudioStreamAssumption ==
    /\ Cells \in Nat \ {0}
    /\ Sizes \subseteq Nat /\ \A n \in Sizes : n > 2 * Cells
    /\ Late \in BOOLEAN

VARIABLES
    STREAMING, UPDATE_STREAM, AI_ADP_LOC,                   \* shared words
    pcm,                                                    \* the two buffers
    cur_buf,                                                \* first cell of the one to fill next
    StreamBuffer,                                           \* the chunk read last
    StreamCurrent, StreamSize, StreamLoop, StreamEnd,
    hist,                                                   \* the decoder's history
    main,                                                   \* what the main loop decodes for, and how far
    heard                                                   \* the cell played last (history)

shared == <<STREAMING, UPDATE_STREAM, AI_ADP_LOC>>
decoder == <<pcm, cur_buf, hist, main>>
stream == <<StreamBuffer, StreamCurrent, StreamSize, StreamLoop, StreamEnd>>
vars == <<shared, decoder, stream, heard>>

StreamStart == 1
Silence == 0
Size == {0} \cup Sizes
\* clean: decoded with the history its position needs
Sample == [of : Size, pos : Nat, clean : BOOLEAN]
Nothing == [of |-> 0, pos |-> Silence, clean |-> TRUE]

InLoop == main = [for |-> "loop", cell |-> 0]
DecodeFor(what) == main' = [for |-> what, cell |-> 0]

-----------------------------------------------------------------------------
(* Main loop                                                               *)

Chunk(p) == [c \in 0 .. Cells - 1 |-> p + c]
\* The chunk with what lies behind the end of the stream set to zero.
Cut(chunk, end) == [c \in 0 .. Cells - 1 |-> IF chunk[c] < end THEN chunk[c] ELSE Silence]

\* The history is that of the position it was left at; zero is right for the start.
\* (Slip: it is left as it is.)
KeptHistory == hist
StreamPrepare == StreamStart

\* The buffers start over (slip: they go on).
GoesOn == cur_buf
FirstBuffer == 0
\* Command E1 with a stream, while none plays: the first chunk is read.
StreamStartStream(size) ==
    /\ InLoop /\ STREAMING = 0
    /\ StreamSize' = size
    /\ StreamBuffer' = Chunk(StreamStart) /\ StreamCurrent' = StreamStart + Cells
    /\ hist' = StreamPrepare /\ cur_buf' = FirstBuffer
    /\ DecodeFor("first")
    /\ UNCHANGED <<shared, pcm, StreamLoop, StreamEnd, heard>>

\* Command E1 with neither: the stream ends when it comes to its end.
DisableLoop ==
    /\ InLoop /\ StreamLoop
    /\ StreamLoop' = FALSE
    /\ UNCHANGED <<shared, decoder, StreamBuffer, StreamCurrent, StreamSize, StreamEnd, heard>>

\* Command E1 01.
StreamEndStream ==
    /\ InLoop /\ StreamCurrent > 0
    /\ StreamCurrent' = 0 /\ STREAMING' = 0
    /\ UNCHANGED <<UPDATE_STREAM, AI_ADP_LOC, decoder, StreamBuffer, StreamSize, StreamLoop, StreamEnd, heard>>

\* StreamUpdate, cell by cell, in the time of which the PowerPC plays on; zeros leave a zero
\* history.
StreamUpdate ==
    /\ ~InLoop /\ main.cell < Cells
    /\ LET p == StreamBuffer[main.cell] IN
       /\ pcm' = [pcm EXCEPT ![cur_buf + main.cell] =
                    [of |-> StreamSize, pos |-> p, clean |-> p = Silence \/ p = hist]]
       /\ hist' = p + 1
    /\ main' = [main EXCEPT !.cell = @ + 1]
    /\ UNCHANGED <<shared, cur_buf, stream, heard>>

Updated(what) ==
    /\ main = [for |-> what, cell |-> Cells]
    /\ cur_buf' = IF cur_buf = 0 THEN Cells ELSE 0

SecondChunk ==
    /\ Updated("first")
    /\ StreamBuffer' = Chunk(StreamCurrent) /\ StreamCurrent' = StreamCurrent + Cells
    /\ DecodeFor("second")
    /\ UNCHANGED <<shared, pcm, hist, StreamSize, StreamLoop, StreamEnd, heard>>

StreamStarted ==
    /\ Updated("second")
    /\ AI_ADP_LOC' = 0 /\ UPDATE_STREAM' = 0 /\ STREAMING' = 1
    /\ StreamLoop' = TRUE /\ StreamEnd' = FALSE
    /\ DecodeFor("loop")
    /\ heard' = Nothing
    /\ UNCHANGED <<pcm, hist, StreamBuffer, StreamCurrent, StreamSize>>

\* StreamUpdateRegisters, asked for an update after the last chunk: the stream stops (slip: it
\* keeps its place, by which DI.c:511 takes it for playing).
KeepsPlace == StreamCurrent
NoPlace == 0
Stop ==
    /\ InLoop /\ UPDATE_STREAM = 1 /\ StreamEnd
    /\ StreamEnd' = FALSE /\ StreamCurrent' = NoPlace
    /\ STREAMING' = 0 /\ UPDATE_STREAM' = 0
    /\ UNCHANGED <<AI_ADP_LOC, decoder, StreamBuffer, StreamSize, StreamLoop, heard>>

Ignore ==
    /\ InLoop /\ UPDATE_STREAM = 1 /\ ~StreamEnd /\ StreamCurrent = 0
    /\ UPDATE_STREAM' = 0
    /\ UNCHANGED <<STREAMING, AI_ADP_LOC, decoder, stream, heard>>

\* The next chunk.  At the end of the stream the rest of it is silent, and the next one is the
\* first again or there is none.
Refill ==
    LET end == StreamStart + StreamSize
        ended == StreamCurrent + Cells >= end
    IN  /\ InLoop /\ UPDATE_STREAM = 1 /\ ~StreamEnd /\ StreamCurrent > 0
        /\ StreamBuffer' = IF ended THEN Cut(Chunk(StreamCurrent), end) ELSE Chunk(StreamCurrent)
        /\ StreamCurrent' = IF ended /\ StreamLoop THEN StreamStart ELSE StreamCurrent + Cells
        /\ hist' = IF ended /\ StreamLoop THEN StreamPrepare ELSE hist
        /\ StreamEnd' = (ended /\ ~StreamLoop)
        /\ DecodeFor("update")
        /\ UNCHANGED <<shared, pcm, cur_buf, StreamSize, StreamLoop, heard>>

\* The request is cleared, and with it one that came in the meantime.
Refilled ==
    /\ Updated("update")
    /\ UPDATE_STREAM' = 0
    /\ DecodeFor("loop")
    /\ UNCHANGED <<STREAMING, AI_ADP_LOC, pcm, hist, stream, heard>>

-----------------------------------------------------------------------------
(* PowerPC                                                                 *)

\* Where the handler goes on (slip: it does not return to the first buffer).
NoWrap(loc) == loc + 1
Wrapped(loc) == IF loc + 1 = 2 * Cells THEN 0 ELSE loc + 1
\* The handler mixes one cell, and asks for an update at the end of a buffer.
Play ==
    LET through == AI_ADP_LOC + 1 \in {Cells, 2 * Cells}
    IN  /\ STREAMING = 1
        /\ through /\ UPDATE_STREAM = 1 => Late
        /\ heard' = pcm[AI_ADP_LOC]
        /\ AI_ADP_LOC' = Wrapped(AI_ADP_LOC)
        /\ UPDATE_STREAM' = IF through THEN 1 ELSE UPDATE_STREAM
        /\ UNCHANGED <<STREAMING, decoder, stream>>

-----------------------------------------------------------------------------

Init ==
    /\ STREAMING = 0 /\ UPDATE_STREAM = 0 /\ AI_ADP_LOC = 0
    /\ pcm = [c \in 0 .. 2 * Cells - 1 |-> Nothing] /\ cur_buf = 0
    /\ StreamBuffer = [c \in 0 .. Cells - 1 |-> Silence]
    /\ StreamCurrent = 0 /\ StreamSize = 0 /\ StreamLoop = FALSE /\ StreamEnd = FALSE
    /\ hist = StreamStart
    /\ main = [for |-> "loop", cell |-> 0]
    /\ heard = Nothing

Commands == (\E size \in Sizes : StreamStartStream(size)) \/ DisableLoop \/ StreamEndStream
StreamUpdateRegisters == Stop \/ Ignore \/ Refill \/ Refilled
Starting == SecondChunk \/ StreamStarted

Next == Commands \/ Starting \/ StreamUpdate \/ StreamUpdateRegisters \/ Play

\* The main loop goes on, and the game leaves its sound on.
Fairness == WF_vars(Starting) /\ WF_vars(StreamUpdate) /\ WF_vars(StreamUpdateRegisters) /\ WF_vars(Play)

Spec == Init /\ [][Next]_vars /\ Fairness

-----------------------------------------------------------------------------
(* Properties                                                              *)

TypeOK ==
    /\ STREAMING \in {0, 1} /\ UPDATE_STREAM \in {0, 1} /\ AI_ADP_LOC \in 0 .. 2 * Cells - 1
    /\ pcm \in [0 .. 2 * Cells - 1 -> Sample] /\ cur_buf \in {0, Cells}
    /\ StreamBuffer \in [0 .. Cells - 1 -> Nat]
    /\ StreamCurrent \in Nat /\ StreamSize \in Size /\ StreamLoop \in BOOLEAN /\ StreamEnd \in BOOLEAN
    /\ hist \in Nat
    /\ main \in [for : {"loop", "first", "second", "update"}, cell : 0 .. Cells]
    /\ heard \in Sample

\* The position that has to be heard after one.
Follows(pos) ==
    IF pos \in 1 .. StreamSize - 1 THEN pos + 1
    ELSE IF AI_ADP_LOC \in {0, Cells} THEN StreamStart ELSE Silence

\* What is heard is the stream that was started, from its start, in its order and again from
\* the start after the last chunk was filled up with silence: updates, the order of the
\* buffers and the PowerPC's place in them never come apart, in whatever state the stream
\* before was left.  It needs updates in time: after a lost one (Late) they stay apart.
PlayedInOrder ==
    [][Play => heard'.of = StreamSize /\ heard'.pos = Follows(heard.pos)]_vars

\* A chunk is decoded with the history that the one before it in the stream has left, except
\* where a stream repeats: StreamPrepare comes before the last chunk is decoded
\* (Stream.c:176, 181) and not after it.
DecodedInContext ==
    \/ heard.clean
    \/ heard.pos % Cells = 1 % Cells /\ heard.pos + Cells > heard.of
    \/ heard.pos = StreamStart /\ heard.of % Cells = 0

\* A stream that shall not repeat ends, wherever in its chunks its end falls: the update that
\* meets the end marks it (StreamEnd), and the one after it stops the PowerPC (Stream.c:157-162).
StreamStops == StreamCurrent > 0 /\ ~StreamLoop ~> StreamCurrent = 0 \/ StreamLoop
=============================================================================
