--------------------------- MODULE AudioStreamProofs ---------------------------
(***************************************************************************)
(* For any number of cells and streams of any size: while updates come in  *)
(* time, what AudioStream plays is the stream in its order; and it was     *)
(* decoded with the history it needs whether they do or not.               *)
(***************************************************************************)
EXTENDS AudioStream, TLAPS

Cell == 0 .. Cells - 1
End == StreamStart + StreamSize
\* What the chunk that begins at p has in a cell, and where the next one begins.
Val(p, c) == IF p + c < End THEN p + c ELSE Silence
After(p) == IF p + Cells >= End THEN StreamStart ELSE p + Cells

\* The first c cells of the buffer at b are those of the chunk at p.
Filled(b, p, c) ==
    \A i \in Cell : i < c => pcm[b + i].of = StreamSize /\ pcm[b + i].pos = Val(p, i)
Read(p) == \A i \in Cell : StreamBuffer[i] = Val(p, i)

Other(b) == IF b = 0 THEN Cells ELSE 0
Playing == IF AI_ADP_LOC < Cells THEN 0 ELSE Cells
Place == AI_ADP_LOC - Playing

\* A stream that is set up: nothing plays, and what is ready is in the first buffer.
Setup ==
    /\ main.for = "first" =>
        STREAMING = 0 /\ cur_buf = 0 /\ StreamCurrent = 1 + Cells /\ Read(1) /\ Filled(0, 1, main.cell)
    /\ main.for = "second" =>
        /\ STREAMING = 0 /\ cur_buf = Cells /\ StreamCurrent = 1 + Cells + Cells
        /\ Filled(0, 1, Cells) /\ Read(1 + Cells) /\ Filled(Cells, 1 + Cells, main.cell)

\* The chunk at p plays.  If no update is due the one after it is ready and the one after
\* that is the next to be read; if one is due the other buffer is being filled.
Plays(p) ==
    /\ Filled(Playing, p, Cells)
    /\ Follows(heard.pos) = Val(p, Place)
    /\ UPDATE_STREAM = 0 =>
        /\ main.for = "loop" /\ cur_buf = Playing
        /\ Filled(Other(Playing), After(p), Cells)
        /\ StreamEnd \/ StreamCurrent = After(After(p))
    /\ UPDATE_STREAM = 1 =>
        /\ cur_buf = Other(Playing)
        /\ main.for = "loop" => StreamEnd \/ StreamCurrent = After(p)
        /\ main.for = "update" =>
            /\ Read(After(p)) /\ Filled(cur_buf, After(p), main.cell)
            /\ StreamEnd \/ StreamCurrent = After(After(p))

InTime ==
    STREAMING = 1 =>
        main.for \in {"loop", "update"} /\ StreamCurrent > 0 /\ \E p \in 1 .. StreamSize : Plays(p)

Steady ==
    /\ main.for = "loop" => main.cell = 0
    /\ STREAMING = 0 => main.for \in {"first", "second"} \/ (main.for = "loop" /\ StreamCurrent = 0)
    /\ StreamSize \in Sizes \/ (STREAMING = 0 /\ main.for = "loop")

IInv == TypeOK /\ Steady /\ Setup /\ InTime

-----------------------------------------------------------------------------
(* Chunks and buffers                                                      *)

\* The assumptions on the constants, and what arithmetic needs of them.
LEMMA Numbers ==
  /\ Cells \in Nat /\ Cells > 0
  /\ \A n \in Sizes : n \in Nat /\ n > Cells + Cells
  /\ 0 \notin Sizes
  BY AudioStreamAssumption

\* The chunk after one begins inside the stream.
LEMMA AfterInside ==
  ASSUME StreamSize \in Sizes, NEW p \in 1 .. StreamSize
  PROVE  After(p) \in 1 .. StreamSize
  BY Numbers DEF After, End, StreamStart

\* What follows a cell in its chunk, and what follows the last one.
LEMMA FollowsInside ==
  ASSUME StreamSize \in Sizes, NEW p \in 1 .. StreamSize, NEW c \in Cell, c + 1 < Cells
  PROVE  (IF Val(p, c) \in 1 .. StreamSize - 1 THEN Val(p, c) + 1 ELSE Silence) = Val(p, c + 1)
  BY Numbers DEF Val, End, StreamStart, Silence, Cell

\* What follows the last cell of a chunk.
LEMMA FollowsAcross ==
  ASSUME StreamSize \in Sizes, NEW p \in 1 .. StreamSize
  PROVE  (IF Val(p, Cells - 1) \in 1 .. StreamSize - 1 THEN Val(p, Cells - 1) + 1 ELSE StreamStart)
            = Val(After(p), 0)
  BY Numbers DEF Val, After, End, StreamStart, Silence

\* Where the PowerPC is.
LEMMA PlaceInBuffer ==
  ASSUME TypeOK
  PROVE  /\ Playing \in {0, Cells} /\ Place \in Cell /\ Playing + Place = AI_ADP_LOC
         /\ AI_ADP_LOC \in 0 .. 2 * Cells - 1
         /\ Place = 0 <=> AI_ADP_LOC \in {0, Cells}
         /\ AI_ADP_LOC + 1 \in {Cells, 2 * Cells} <=> Place + 1 = Cells
  BY Numbers DEF TypeOK, Playing, Place, Cell

\* A decoded cell is right if the chunk read is, and no other cell is disturbed.
LEMMA DecodedCell ==
  ASSUME TypeOK, StreamUpdate
  PROVE  /\ main.cell \in 0 .. Cells - 1 /\ cur_buf + main.cell \in 0 .. 2 * Cells - 1
         /\ pcm'[cur_buf + main.cell].of = StreamSize
         /\ pcm'[cur_buf + main.cell].pos = StreamBuffer[main.cell]
         /\ \A i \in 0 .. 2 * Cells - 1 : i # cur_buf + main.cell => pcm'[i] = pcm[i]
         /\ main'.for = main.for /\ main'.cell = main.cell + 1
  BY Numbers DEF TypeOK, StreamUpdate

\* The cell that is decoded is the next one of a half filled buffer.
LEMMA FillsCell ==
  ASSUME TypeOK, StreamUpdate, NEW p \in Nat, Read(p), Filled(cur_buf, p, main.cell)
  PROVE  Filled(cur_buf, p, main.cell)'
<1> SUFFICES ASSUME NEW i \in Cell, i < main'.cell
             PROVE  pcm'[cur_buf + i].of = StreamSize /\ pcm'[cur_buf + i].pos = Val(p, i)
  BY DEF Filled, StreamUpdate, stream, Val, End, Cell
<1>1. cur_buf \in {0, Cells} /\ cur_buf + i \in 0 .. 2 * Cells - 1
  BY Numbers DEF TypeOK, Cell
<1>2. CASE i = main.cell
  BY <1>2, DecodedCell DEF Read
<1>3. CASE i < main.cell
  BY <1>1, <1>3, DecodedCell, Numbers DEF Filled, Cell
<1> QED BY <1>2, <1>3, DecodedCell, Numbers DEF Cell

\* Decoding into one buffer leaves the other as it is.
LEMMA KeepsOther ==
  ASSUME TypeOK, StreamUpdate, NEW b \in {0, Cells}, b # cur_buf, NEW p \in Nat, NEW c,
         Filled(b, p, c)
  PROVE  Filled(b, p, c)'
<1> SUFFICES ASSUME NEW i \in Cell, i < c
             PROVE  pcm'[b + i].of = StreamSize /\ pcm'[b + i].pos = Val(p, i)
  BY DEF Filled, StreamUpdate, stream, Val, End, Cell
<1>1. b + i # cur_buf + main.cell /\ b + i \in 0 .. 2 * Cells - 1
  BY DecodedCell, Numbers DEF TypeOK, Cell
<1> QED BY <1>1, DecodedCell DEF Filled

\* What a step that changes neither buffers nor stream leaves as it is.
LEMMA FilledSame ==
  ASSUME UNCHANGED <<pcm, StreamSize>>, NEW b, NEW p, NEW c, Filled(b, p, c)
  PROVE  Filled(b, p, c)'
  BY DEF Filled, Val, End, Cell
-----------------------------------------------------------------------------
(* Types                                                                   *)

\* The invariant holds before any stream is started.
LEMMA InitIInv == Init => IInv
<1> SUFFICES ASSUME Init PROVE IInv
  OBVIOUS
<1>1. Nothing \in Sample
  BY DEF Nothing, Sample, Size, Silence
<1>2. main \in [for : {"loop", "first", "second", "update"}, cell : 0 .. Cells]
  BY Numbers DEF Init
<1>3. pcm \in [0 .. 2 * Cells - 1 -> Sample] /\ StreamBuffer \in [0 .. Cells - 1 -> Nat]
  BY <1>1, Numbers DEF Init, Silence
<1>4. AI_ADP_LOC \in 0 .. 2 * Cells - 1 /\ hist \in Nat /\ StreamSize \in Size
  BY Numbers DEF Init, Size, StreamStart
<1>5. StreamLoop \in BOOLEAN /\ StreamEnd \in BOOLEAN
  BY DEF Init
<1>6. TypeOK
  BY <1>1, <1>2, <1>3, <1>4, <1>5, Numbers DEF Init, TypeOK
<1>7. Steady /\ Setup /\ InTime
  BY DEF Init, Steady, Setup, InTime
<1> QED BY <1>6, <1>7 DEF IInv

\* What is read of the disc (Chunk), and what is left of it behind the end of the stream (Cut).
LEMMA Chunks ==
  ASSUME NEW p \in Nat, NEW e \in Nat
  PROVE  /\ Chunk(p) \in [Cell -> Nat] /\ \A c \in Cell : Chunk(p)[c] = p + c
         /\ Cut(Chunk(p), e) \in [Cell -> Nat]
         /\ \A c \in Cell : Cut(Chunk(p), e)[c] = IF p + c < e THEN p + c ELSE Silence
  BY Numbers DEF Chunk, Cut, Cell, Silence

\* A step that begins to decode for something has that in main.
LEMMA Decoding ==
  ASSUME NEW what \in {"loop", "first", "second", "update"}, DecodeFor(what)
  PROVE  main' \in [for : {"loop", "first", "second", "update"}, cell : 0 .. Cells] /\ main'.for = what /\ main'.cell = 0
  BY Numbers DEF DecodeFor

\* No step leaves the types, late updates included.
LEMMA NextTypes == TypeOK /\ [Next]_vars => TypeOK'
<1> SUFFICES ASSUME TypeOK, [Next]_vars PROVE TypeOK'
  OBVIOUS
<1> USE Numbers
<1>1. ASSUME NEW size \in Sizes, StreamStartStream(size) PROVE TypeOK'
  <2>1. Chunk(1) \in [0 .. Cells - 1 -> Nat]
    BY Chunks DEF Cell
  <2>2. StreamCurrent' \in Nat /\ hist' \in Nat /\ StreamBuffer' \in [0 .. Cells - 1 -> Nat]
    BY <1>1, <2>1 DEF StreamStartStream, StreamStart, StreamPrepare
  <2> QED BY <1>1, <2>2, Decoding DEF StreamStartStream, shared, TypeOK, Size, FirstBuffer
<1>2. CASE DisableLoop
  BY <1>2 DEF DisableLoop, shared, decoder, TypeOK
<1>3. CASE StreamEndStream
  BY <1>3 DEF StreamEndStream, decoder, TypeOK
<1>4. CASE StreamUpdate
  <2>1. StreamBuffer[main.cell] \in Nat /\ main.cell + 1 \in 0 .. Cells
    BY <1>4 DEF StreamUpdate, TypeOK
  <2>2. pcm' \in [0 .. 2 * Cells - 1 -> Sample] /\ hist' \in Nat
    BY <1>4, <2>1 DEF StreamUpdate, TypeOK, Sample
  <2>3. main' \in [for : {"loop", "first", "second", "update"}, cell : 0 .. Cells]
    BY <1>4, <2>1 DEF StreamUpdate, TypeOK
  <2> QED BY <1>4, <2>2, <2>3 DEF StreamUpdate, shared, stream, TypeOK
<1>5. CASE SecondChunk
  <2>0. StreamCurrent \in Nat
    BY DEF TypeOK
  <2>1. Chunk(StreamCurrent) \in [0 .. Cells - 1 -> Nat]
    BY <2>0, Chunks DEF Cell
  <2>2. StreamBuffer' \in [0 .. Cells - 1 -> Nat] /\ StreamCurrent' \in Nat
    BY <1>5, <2>0, <2>1 DEF SecondChunk
  <2> QED BY <1>5, <2>2, Decoding DEF SecondChunk, Updated, shared, TypeOK
<1>6. CASE StreamStarted
  <2>1. heard' \in Sample
    BY <1>6 DEF StreamStarted, Nothing, Sample, Size, Silence
  <2>2. StreamLoop' \in BOOLEAN /\ StreamEnd' \in BOOLEAN
    BY <1>6 DEF StreamStarted
  <2> QED BY <1>6, <2>1, <2>2, Decoding DEF StreamStarted, Updated, TypeOK
<1>7. CASE Stop
  BY <1>7 DEF Stop, decoder, TypeOK, NoPlace
<1>8. CASE Ignore
  BY <1>8 DEF Ignore, decoder, stream, TypeOK
<1>9. CASE Refill
  <2>1. StreamStart + StreamSize \in Nat
    BY <1>9 DEF TypeOK, StreamStart, Size
  <2>2. StreamBuffer' \in [0 .. Cells - 1 -> Nat]
    BY <1>9, <2>1, Chunks DEF Refill, TypeOK, Cell
  <2>3. StreamCurrent' \in Nat /\ hist' \in Nat /\ StreamEnd' \in BOOLEAN
    BY <1>9 DEF Refill, TypeOK, StreamStart, StreamPrepare
  <2> QED BY <1>9, <2>2, <2>3, Decoding DEF Refill, shared, TypeOK
<1>10. CASE Refilled
  BY <1>10, Decoding DEF Refilled, Updated, stream, TypeOK
<1>11. CASE Play
  <2>1. AI_ADP_LOC' \in 0 .. 2 * Cells - 1 /\ UPDATE_STREAM' \in {0, 1}
    BY <1>11 DEF Play, Wrapped, TypeOK
  <2> QED BY <1>11, <2>1 DEF Play, decoder, stream, TypeOK
<1>12. CASE UNCHANGED vars
  BY <1>12 DEF vars, shared, decoder, stream, TypeOK
<1> QED
  BY <1>1, <1>2, <1>3, <1>4, <1>5, <1>6, <1>7, <1>8, <1>9, <1>10, <1>11, <1>12
  DEF Next, Commands, Starting, StreamUpdateRegisters
-----------------------------------------------------------------------------
(* Steps                                                                   *)

\* A step that changes nothing the invariant reads keeps it.
LEMMA Untouched ==
  ASSUME UNCHANGED <<STREAMING, UPDATE_STREAM, AI_ADP_LOC, pcm, cur_buf, StreamBuffer>>,
         UNCHANGED <<StreamCurrent, StreamSize, StreamEnd, main, heard>>,
         Steady, Setup, InTime
  PROVE  Steady' /\ Setup' /\ InTime'
<1>1. Steady'
  BY DEF Steady
<1>2. Setup'
  BY DEF Setup, Read, Filled, Val, End, Cell
<1>3. ASSUME NEW p, Plays(p) PROVE Plays(p)'
  BY <1>3 DEF Plays, Read, Filled, Val, After, End, Cell, Playing, Place, Other, Follows
<1>4. InTime'
  BY <1>3 DEF InTime
<1> QED BY <1>1, <1>2, <1>4

\* Command E1 with a stream: the first chunk is read.
LEMMA StartStep ==
  ASSUME TypeOK, NEW size \in Sizes, StreamStartStream(size)
  PROVE  Steady' /\ Setup' /\ InTime'
<1>1. main'.for = "first" /\ main'.cell = 0 /\ STREAMING' = 0 /\ cur_buf' = 0
  BY Decoding DEF StreamStartStream, shared, FirstBuffer
<1>2. StreamCurrent' = 1 + Cells /\ StreamSize' = size
  BY DEF StreamStartStream, StreamStart
<1>3. Read(1)'
  <2>1. \A i \in Cell : StreamBuffer'[i] = 1 + i
    BY Chunks DEF StreamStartStream, StreamStart
  <2> QED BY <1>2, <2>1, Numbers DEF Read, Val, End, Cell, StreamStart
<1>4. Filled(0, 1, main.cell)'
  BY <1>1, Numbers DEF Filled, Cell
<1> QED BY <1>1, <1>2, <1>3, <1>4 DEF Steady, Setup, InTime

\* The first chunk is decoded, and the second one read.
LEMMA SecondStep ==
  ASSUME IInv, SecondChunk
  PROVE  Steady' /\ Setup' /\ InTime'
<1>1. main.for = "first" /\ main.cell = Cells /\ main'.for = "second" /\ main'.cell = 0
  BY Decoding DEF SecondChunk, Updated
<1>2. STREAMING' = 0 /\ cur_buf' = Cells /\ StreamSize' = StreamSize /\ StreamSize \in Sizes
  BY <1>1, Numbers DEF SecondChunk, Updated, shared, IInv, Setup, Steady
<1>3. StreamCurrent = 1 + Cells /\ StreamCurrent' = 1 + Cells + Cells
  BY <1>1 DEF SecondChunk, IInv, Setup
<1>4. Filled(0, 1, Cells)'
  BY <1>1, <1>2, FilledSame DEF SecondChunk, IInv, Setup
<1>5. Read(1 + Cells)'
  <2>1. \A i \in Cell : StreamBuffer'[i] = 1 + Cells + i
    BY <1>3, Chunks, Numbers DEF SecondChunk
  <2> QED BY <1>2, <2>1, Numbers DEF Read, Val, End, Cell, StreamStart
<1>6. Filled(Cells, 1 + Cells, main.cell)'
  BY <1>1, Numbers DEF Filled, Cell
<1> QED BY <1>1, <1>2, <1>3, <1>4, <1>5, <1>6 DEF Steady, Setup, InTime

\* The second chunk is decoded: the stream begins to play.
LEMMA StartedStep ==
  ASSUME IInv, StreamStarted
  PROVE  Steady' /\ Setup' /\ InTime'
<1>1. main.for = "second" /\ main.cell = Cells /\ main'.for = "loop" /\ main'.cell = 0
  BY Decoding DEF StreamStarted, Updated
<1>2. StreamSize' = StreamSize /\ StreamSize \in Sizes /\ cur_buf' = 0
  BY <1>1, Numbers DEF StreamStarted, Updated, IInv, Setup, Steady
<1>3. StreamCurrent' = 1 + Cells + Cells
  BY <1>1 DEF StreamStarted, IInv, Setup
<1>4. Playing' = 0 /\ Place' = 0 /\ UPDATE_STREAM' = 0 /\ STREAMING' = 1
  <2>1. AI_ADP_LOC' = 0 /\ UPDATE_STREAM' = 0 /\ STREAMING' = 1
    BY DEF StreamStarted
  <2>2. Playing' = 0
    BY <2>1, Numbers DEF Playing
  <2>3. Place' = 0 - 0
    BY <2>1, <2>2 DEF Place
  <2> QED BY <2>1, <2>2, <2>3
<1>5. Filled(0, 1, Cells)' /\ Filled(Cells, 1 + Cells, Cells)'
  <2>1. Filled(0, 1, Cells) /\ Filled(Cells, 1 + Cells, Cells) /\ UNCHANGED <<pcm, StreamSize>>
    BY <1>1 DEF StreamStarted, IInv, Setup
  <2>2. Filled(0, 1, Cells)'
    BY <2>1 DEF Filled, Val, End, Cell
  <2>3. Filled(Cells, 1 + Cells, Cells)'
    BY <2>1 DEF Filled, Val, End, Cell
  <2> QED BY <2>2, <2>3
<1>6. After(1)' = 1 + Cells /\ After(1 + Cells)' = 1 + Cells + Cells
  BY <1>2, Numbers DEF After, End, StreamStart
<1>7. Follows(heard.pos)' = Val(1, Place)'
  BY <1>2, <1>4, Numbers DEF StreamStarted, Follows, Nothing, Silence, Val, End, StreamStart
<1>8. Plays(1)'
  BY <1>1, <1>2, <1>3, <1>4, <1>5, <1>6, <1>7, Numbers DEF Plays, Other
<1>9. InTime'
  BY <1>1, <1>2, <1>3, <1>8, Numbers DEF InTime
<1> QED BY <1>1, <1>2, <1>4, <1>9 DEF Steady, Setup

\* The phases of the main loop, as far as they tell whether the stream plays.
LEMMA Phases ==
  ASSUME IInv
  PROVE  /\ main.for = "update" => STREAMING = 1
         /\ main.for = "loop" /\ StreamCurrent > 0 => STREAMING = 1
         /\ STREAMING = 1 => main.for # "first" /\ main.for # "second" /\ StreamSize \in Sizes
  BY DEF IInv, TypeOK, Steady, InTime

\* Decoding goes on in a buffer that does not play.
LEMMA DecodeStep ==
  ASSUME IInv, StreamUpdate
  PROVE  Steady' /\ Setup' /\ InTime'
<1> USE DecodedCell, Numbers DEF IInv
<1>1. main'.for = main.for /\ UNCHANGED <<STREAMING, UPDATE_STREAM, AI_ADP_LOC, cur_buf, heard>>
  BY DEF StreamUpdate, shared
<1>2. UNCHANGED <<StreamBuffer, StreamCurrent, StreamSize, StreamEnd>>
  BY DEF StreamUpdate, stream
<1>3. main.for # "loop"
  BY DEF StreamUpdate, InLoop, Steady, TypeOK
<1>4. ASSUME NEW p, Read(p) PROVE Read(p)'
  BY <1>2, <1>4 DEF Read, Val, End, Cell
<1>5. Steady'
  BY <1>1, <1>2, <1>3 DEF Steady
<1>6. CASE main.for = "first"
  <2>1. Read(1) /\ Filled(cur_buf, 1, main.cell)
    BY <1>6 DEF Setup
  <2>2. Filled(cur_buf, 1, main.cell)'
    BY <2>1, FillsCell
  <2>3. Setup'
    BY <1>1, <1>2, <1>4, <1>6, <2>1, <2>2 DEF Setup
  <2> QED BY <1>1, <1>5, <1>6, <2>3 DEF Setup, InTime
<1>7. CASE main.for = "second"
  <2>1. Read(1 + Cells) /\ Filled(cur_buf, 1 + Cells, main.cell) /\ cur_buf = Cells /\ Filled(0, 1, Cells)
    BY <1>7 DEF Setup
  <2>2. Filled(cur_buf, 1 + Cells, main.cell)'
    BY <2>1, FillsCell
  <2>3. Filled(0, 1, Cells)'
    BY <2>1, KeepsOther
  <2>4. Setup'
    BY <1>1, <1>2, <1>4, <1>7, <2>1, <2>2, <2>3 DEF Setup
  <2> QED BY <1>1, <1>5, <1>7, <2>4 DEF Setup, InTime
<1>8. CASE main.for = "update"
  <2>1. STREAMING = 1 /\ StreamSize \in Sizes
    BY <1>8, Phases
  <2>2. PICK p \in 1 .. StreamSize : Plays(p)
    BY <2>1 DEF InTime
  <2>3. UPDATE_STREAM = 1 /\ cur_buf = Other(Playing)
    BY <1>8, <2>2 DEF Plays, TypeOK
  <2>4. After(p) \in Nat /\ p \in Nat
    BY <2>1, <2>2, AfterInside
  <2>5. Read(After(p)) /\ Filled(cur_buf, After(p), main.cell)
    BY <1>8, <2>2, <2>3 DEF Plays
  <2>6. After(p)' = After(p) /\ After(After(p))' = After(After(p)) /\ Playing' = Playing /\ Place' = Place
    BY <1>1, <1>2 DEF After, End, Playing, Place
  <2>7. Filled(cur_buf, After(p), main.cell)'
    <3>1. PICK q \in Nat : q = After(p)
      BY <2>4
    <3>2. Filled(cur_buf, q, main.cell)'
      BY <2>5, <3>1, FillsCell
    <3> QED BY <2>6, <3>1, <3>2
  <2>8. Read(After(p))'
    <3>1. PICK q \in Nat : q = After(p)
      BY <2>4
    <3>2. Read(q)'
      BY <1>4, <2>5, <3>1
    <3> QED BY <2>6, <3>1, <3>2
  <2>9. Filled(Playing, p, Cells)'
    <3>1. PICK b \in {0, Cells} : b = Playing
      BY PlaceInBuffer
    <3>2. b # cur_buf /\ Filled(b, p, Cells)
      BY <2>2, <2>3, <3>1 DEF Other, Plays
    <3>3. Filled(b, p, Cells)'
      BY <2>4, <3>2, KeepsOther
    <3> QED BY <2>6, <3>1, <3>3
  <2>10. Follows(heard.pos)' = Val(p, Place)'
    <3>1. Follows(heard.pos)' = Follows(heard.pos) /\ Val(p, Place)' = Val(p, Place)
      BY <1>1, <1>2, <2>6 DEF Follows, Val, End
    <3> QED BY <2>2, <3>1 DEF Plays
  <2>11. StreamEnd' \/ StreamCurrent' = After(After(p))'
    BY <1>2, <1>8, <2>2, <2>3, <2>6 DEF Plays
  <2>12. Other(Playing)' = Other(Playing)
    BY <2>6 DEF Other
  <2>13. Plays(p)'
    BY <1>1, <1>8, <2>3, <2>7, <2>8, <2>9, <2>10, <2>11, <2>12 DEF Plays
  <2>14. InTime'
    BY <1>1, <1>2, <1>8, <2>1, <2>2, <2>13 DEF InTime
  <2> QED BY <1>1, <1>5, <1>8, <2>14 DEF Setup
<1> QED BY <1>3, <1>6, <1>7, <1>8 DEF TypeOK

\* The chunk after the one that plays is read; no cell of it is decoded yet.
LEMMA RefillStep ==
  ASSUME IInv, Refill
  PROVE  Steady' /\ Setup' /\ InTime'
<1>1. main.for = "loop" /\ main'.for = "update" /\ main'.cell = 0 /\ UPDATE_STREAM = 1
  BY Decoding DEF Refill, InLoop
<1>2. UNCHANGED <<STREAMING, UPDATE_STREAM, AI_ADP_LOC, pcm, cur_buf, StreamSize, heard>>
  BY DEF Refill, shared
<1>3. STREAMING = 1 /\ StreamSize \in Sizes /\ StreamCurrent > 0 /\ ~StreamEnd
  BY <1>1, Phases DEF Refill
<1>4. PICK p \in 1 .. StreamSize : Plays(p)
  BY <1>3 DEF IInv, InTime
<1>5. PICK q \in Nat : q = After(p) /\ q \in 1 .. StreamSize
  BY <1>3, <1>4, AfterInside
<1>6. cur_buf = Other(Playing) /\ StreamCurrent = q
  BY <1>1, <1>3, <1>4, <1>5 DEF Plays
<1>7. After(p)' = q /\ After(q)' = After(q) /\ Playing' = Playing /\ Place' = Place /\ Other(Playing)' = Other(Playing)
  BY <1>2, <1>5 DEF After, End, Playing, Place, Other
<1>8. Read(q)'
  <2>1. PICK e \in Nat : e = End
    BY <1>3, Numbers DEF End, StreamStart
  <2>2. StreamBuffer' = IF q + Cells >= e THEN Cut(Chunk(q), e) ELSE Chunk(q)
    BY <1>6, <2>1 DEF Refill, End
  <2>3. \A i \in Cell : StreamBuffer'[i] = IF q + i < e THEN q + i ELSE Silence
    <3>0. \A i \in Cell : Chunk(q)[i] = q + i /\ Cut(Chunk(q), e)[i] = IF q + i < e THEN q + i ELSE Silence
      BY Chunks
    <3>1. CASE q + Cells >= e
      BY <3>0, <3>1, <2>2
    <3>2. CASE ~(q + Cells >= e)
      BY <3>0, <3>2, <2>2, Numbers DEF Cell
    <3> QED BY <3>1, <3>2
  <2>4. End' = e
    BY <1>2, <2>1 DEF End
  <2> QED BY <2>3, <2>4 DEF Read, Val, Cell
<1>9. StreamEnd' \/ StreamCurrent' = After(q)
  BY <1>6 DEF Refill, After, End
<1>10. StreamCurrent' > 0
  BY <1>5, <1>6, Numbers DEF Refill, StreamStart
<1>11. Filled(cur_buf, q, main.cell)'
  BY <1>1, Numbers DEF Filled, Cell
<1>12. Filled(Playing, p, Cells)'
  <2>1. PICK b : b = Playing
    OBVIOUS
  <2>2. Filled(b, p, Cells)'
    BY <1>2, <1>4, <2>1, FilledSame DEF Plays
  <2> QED BY <1>7, <2>1, <2>2
<1>13. Follows(heard.pos)' = Val(p, Place)'
  <2>1. Follows(heard.pos)' = Follows(heard.pos) /\ Val(p, Place)' = Val(p, Place)
    BY <1>2, <1>7 DEF Follows, Val, End
  <2> QED BY <1>4, <2>1 DEF Plays
<1>14. Plays(p)'
  BY <1>1, <1>2, <1>6, <1>7, <1>8, <1>9, <1>11, <1>12, <1>13 DEF Plays
<1>15. InTime'
  BY <1>1, <1>2, <1>4, <1>10, <1>14 DEF InTime
<1> QED BY <1>1, <1>2, <1>3, <1>15 DEF Steady, Setup

\* The chunk after the one that plays is ready, and the buffer that plays is the next to fill.
LEMMA RefilledStep ==
  ASSUME IInv, Refilled
  PROVE  Steady' /\ Setup' /\ InTime'
<1>1. main.for = "update" /\ main.cell = Cells /\ main'.for = "loop" /\ main'.cell = 0
  BY Decoding DEF Refilled, Updated
<1>2. UNCHANGED <<STREAMING, AI_ADP_LOC, pcm, StreamBuffer, StreamCurrent, StreamSize, StreamEnd, heard>>
  BY DEF Refilled, stream
<1>3. STREAMING = 1 /\ StreamSize \in Sizes
  BY <1>1, Phases
<1>4. PICK p \in 1 .. StreamSize : Plays(p)
  BY <1>3 DEF IInv, InTime
<1>5. UPDATE_STREAM = 1
  BY <1>1, <1>4 DEF Plays, IInv, TypeOK
<1>6. PICK q \in Nat : q = After(p)
  BY <1>3, <1>4, AfterInside, Numbers
<1>7. cur_buf = Other(Playing) /\ Filled(cur_buf, q, Cells) /\ (StreamEnd \/ StreamCurrent = After(q))
  BY <1>1, <1>4, <1>5, <1>6 DEF Plays
<1>8. cur_buf' = Playing
  BY <1>7, PlaceInBuffer, Numbers DEF Refilled, Updated, Other, IInv
<1>9. After(p)' = q /\ After(q)' = After(q) /\ Playing' = Playing /\ Place' = Place /\ Other(Playing)' = Other(Playing)
  BY <1>2, <1>6 DEF After, End, Playing, Place, Other
<1>10. Filled(Other(Playing), q, Cells)'
  <2>1. PICK b : b = Other(Playing)
    OBVIOUS
  <2>2. Filled(b, q, Cells)'
    BY <1>2, <1>7, <2>1, FilledSame
  <2> QED BY <1>9, <2>1, <2>2
<1>11. Filled(Playing, p, Cells)'
  <2>1. PICK b : b = Playing
    OBVIOUS
  <2>2. Filled(b, p, Cells)'
    BY <1>2, <1>4, <2>1, FilledSame DEF Plays
  <2> QED BY <1>9, <2>1, <2>2
<1>12. Follows(heard.pos)' = Val(p, Place)'
  <2>1. Follows(heard.pos)' = Follows(heard.pos) /\ Val(p, Place)' = Val(p, Place)
    BY <1>2, <1>9 DEF Follows, Val, End
  <2> QED BY <1>4, <2>1 DEF Plays
<1>13. UPDATE_STREAM' = 0
  BY DEF Refilled
<1>14. Plays(p)'
  BY <1>1, <1>2, <1>7, <1>8, <1>9, <1>10, <1>11, <1>12, <1>13 DEF Plays
<1>15. InTime'
  BY <1>1, <1>2, <1>4, <1>14 DEF InTime, IInv
<1> QED BY <1>1, <1>2, <1>3, <1>15 DEF Steady, Setup

\* What the handler of the PowerPC plays is what follows.
LEMMA PlayHeard ==
  ASSUME IInv, Play, NEW p \in 1 .. StreamSize, Plays(p)
  PROVE  heard'.of = StreamSize /\ heard'.pos = Val(p, Place)
<1>1. Place \in Cell /\ Playing + Place = AI_ADP_LOC /\ Place < Cells
  BY PlaceInBuffer, Numbers DEF IInv, Cell
<1>2. heard' = pcm[Playing + Place]
  BY <1>1 DEF Play
<1> QED BY <1>1, <1>2 DEF Plays, Filled

\* Inside a buffer the handler goes on in its chunk; at the end it comes to the one that is
\* ready, and the buffer it leaves is the one an update fills.
LEMMA PlayStep ==
  ASSUME ~Late, IInv, Play
  PROVE  Steady' /\ Setup' /\ InTime'
<1>1. UNCHANGED <<STREAMING, pcm, cur_buf, main, StreamBuffer, StreamCurrent, StreamSize, StreamEnd>>
  BY DEF Play, decoder, stream
<1>2. STREAMING = 1 /\ StreamSize \in Sizes /\ main.for # "first" /\ main.for # "second"
  BY Phases DEF Play
<1>3. PICK p \in 1 .. StreamSize : Plays(p)
  BY <1>2 DEF IInv, InTime
<1>4. Steady' /\ Setup'
  BY <1>1, <1>2 DEF Steady, Setup, IInv
<1>5. heard'.pos = Val(p, Place)
  BY <1>3, PlayHeard
<1>6. PICK q \in Nat : q = After(p) /\ q \in 1 .. StreamSize
  BY <1>2, <1>3, AfterInside
<1>7. \A r : After(r)' = After(r)
  BY <1>1 DEF After, End
<1>8. CASE AI_ADP_LOC + 1 \notin {Cells, 2 * Cells}
  <2>1. AI_ADP_LOC' = AI_ADP_LOC + 1 /\ UPDATE_STREAM' = UPDATE_STREAM
    BY <1>8 DEF Play, Wrapped
  <2>2. PICK c \in Cell : c = Place /\ c + 1 < Cells
    BY <1>8, PlaceInBuffer, Numbers DEF IInv, Cell
  <2>3. Playing' = Playing /\ Place' = c + 1
    BY <1>8, <2>1, <2>2, PlaceInBuffer, Numbers DEF Playing, Place, IInv, TypeOK
  <2>4. AI_ADP_LOC' \notin {0, Cells}
    BY <1>8, <2>1, PlaceInBuffer, Numbers DEF IInv
  <2>5. Follows(heard.pos)' = Val(p, Place)'
    <3>1. Follows(heard.pos)' = IF Val(p, c) \in 1 .. StreamSize - 1 THEN Val(p, c) + 1 ELSE Silence
      BY <1>1, <1>5, <2>2, <2>4 DEF Follows
    <3>2. Val(p, Place)' = Val(p, c + 1)
      BY <1>1, <2>3 DEF Val, End
    <3> QED BY <1>2, <1>3, <2>2, <3>1, <3>2, FollowsInside
  <2>6. \A b, r, n : Filled(b, r, n) => Filled(b, r, n)'
    BY <1>1 DEF Filled, Val, End, Cell
  <2>7. Read(q)' <=> Read(q)
    BY <1>1 DEF Read, Val, End, Cell
  <2>8. Plays(p)'
    BY <1>1, <1>3, <1>6, <1>7, <2>1, <2>3, <2>5, <2>6, <2>7 DEF Plays, Other
  <2> QED BY <1>1, <1>3, <1>4, <2>8 DEF InTime, IInv
<1>9. CASE AI_ADP_LOC + 1 \in {Cells, 2 * Cells}
  <2>1. UPDATE_STREAM = 0 /\ UPDATE_STREAM' = 1
    BY <1>9 DEF Play, IInv, TypeOK
  <2>2. main.for = "loop" /\ cur_buf = Playing /\ Filled(Other(Playing), q, Cells) /\ (StreamEnd \/ StreamCurrent = After(q))
    BY <1>3, <1>6, <2>1 DEF Plays
  <2>3. AI_ADP_LOC' = Other(Playing) /\ Place = Cells - 1
    BY <1>9, PlaceInBuffer, Numbers DEF Play, Wrapped, Playing, Place, Other, IInv, TypeOK
  <2>4. Playing' = Other(Playing) /\ Place' = 0 /\ AI_ADP_LOC' \in {0, Cells} /\ Other(Playing)' = Playing
    BY <2>3, PlaceInBuffer, Numbers DEF Playing, Place, Other, IInv
  <2>5. Follows(heard.pos)' = Val(q, Place)'
    <3>1. Follows(heard.pos)' = IF Val(p, Cells - 1) \in 1 .. StreamSize - 1 THEN Val(p, Cells - 1) + 1 ELSE StreamStart
      BY <1>1, <1>5, <2>3, <2>4 DEF Follows
    <3>2. Val(q, Place)' = Val(q, 0)
      BY <1>1, <2>4 DEF Val, End
    <3> QED BY <1>2, <1>3, <1>6, <3>1, <3>2, FollowsAcross
  <2>6. Filled(Playing, q, Cells)'
    <3>1. PICK b : b = Other(Playing)
      OBVIOUS
    <3>2. Filled(b, q, Cells)'
      BY <1>1, <2>2, <3>1, FilledSame
    <3> QED BY <2>4, <3>1, <3>2
  <2>7. Plays(q)'
    BY <1>1, <1>7, <2>1, <2>2, <2>4, <2>5, <2>6 DEF Plays
  <2> QED BY <1>1, <1>3, <1>4, <1>6, <2>7 DEF InTime, IInv
<1> QED BY <1>8, <1>9

\* No step breaks the invariant while updates come in time.
LEMMA NextIInv ==
  ASSUME ~Late, IInv, [Next]_vars
  PROVE  IInv'
<1>1. TypeOK'
  BY NextTypes DEF IInv
<1>2. Steady' /\ Setup' /\ InTime'
  <2> USE DEF IInv
  <2>1. ASSUME NEW size \in Sizes, StreamStartStream(size) PROVE Steady' /\ Setup' /\ InTime'
    BY <2>1, StartStep
  <2>2. CASE DisableLoop
    BY <2>2, Untouched DEF DisableLoop, shared, decoder
  <2>3. CASE StreamEndStream
    <3>1. STREAMING' = 0 /\ StreamCurrent' = 0 /\ UNCHANGED <<main, StreamSize>>
      BY <2>3 DEF StreamEndStream, decoder
    <3>2. main.for = "loop"
      BY <2>3 DEF StreamEndStream, InLoop
    <3> QED BY <3>1, <3>2 DEF Steady, Setup, InTime
  <2>4. CASE SecondChunk
    BY <2>4, SecondStep
  <2>5. CASE StreamStarted
    BY <2>5, StartedStep
  <2>6. CASE StreamUpdate
    BY <2>6, DecodeStep
  <2>7. CASE Stop
    <3>1. STREAMING' = 0 /\ StreamCurrent' = 0 /\ UNCHANGED <<main, StreamSize>>
      BY <2>7 DEF Stop, decoder, NoPlace
    <3>2. main.for = "loop"
      BY <2>7 DEF Stop, InLoop
    <3> QED BY <3>1, <3>2 DEF Steady, Setup, InTime
  <2>8. CASE Ignore
    <3>1. STREAMING # 1 /\ STREAMING' = STREAMING /\ UNCHANGED <<main, StreamSize, StreamCurrent>>
      BY <2>8, Numbers DEF Ignore, InTime, decoder, stream
    <3>2. main.for = "loop"
      BY <2>8 DEF Ignore, InLoop
    <3> QED BY <3>1, <3>2 DEF Steady, Setup, InTime
  <2>9. CASE Refill
    BY <2>9, RefillStep
  <2>10. CASE Refilled
    BY <2>10, RefilledStep
  <2>11. CASE Play
    BY <2>11, PlayStep
  <2>12. CASE UNCHANGED vars
    BY <2>12, Untouched DEF vars, shared, decoder, stream
  <2> QED
    BY <2>1, <2>2, <2>3, <2>4, <2>5, <2>6, <2>7, <2>8, <2>9, <2>10, <2>11, <2>12
    DEF Next, Commands, Starting, StreamUpdateRegisters
<1> QED BY <1>1, <1>2 DEF IInv
-----------------------------------------------------------------------------
(* The decoder's history                                                   *)

\* What DecodedInContext says of the cell heard last, of any cell.
InContext(x) ==
    \/ x.clean
    \/ x.pos % Cells = 1 % Cells /\ x.pos + Cells > x.of
    \/ x.pos = StreamStart /\ x.of % Cells = 0
AllInContext == InContext(heard) /\ \A i \in 0 .. 2 * Cells - 1 : InContext(pcm[i])

\* Where chunks begin, and whether the stream ends in the one at b.
Base(b) == b \in 1 .. StreamSize /\ \E k \in Nat : b = Cells * k + 1
Last(b) == b + Cells > StreamSize
\* The history fits what begins at b, but for a stream that starts over after a full chunk.
Fitting(b) == hist = b \/ (b = 1 /\ StreamSize % Cells = 0)

\* The chunk at b is being decoded: its history is right, or reset for the next round.
Decodes(b) ==
    /\ Base(b) /\ Read(b)
    /\ main.cell = 0 => Fitting(b) \/ Last(b)
    /\ main.cell > 0 => hist = StreamBuffer[main.cell - 1] + 1
    /\ Last(b) => StreamEnd \/ StreamCurrent = 1
    /\ ~Last(b) => StreamCurrent = b + Cells
    /\ main.for = "first" => b = 1
    /\ main.for = "second" => b = 1 + Cells

Reading ==
    /\ main.for # "loop" \/ StreamCurrent > 0 => StreamSize \in Sizes
    /\ main.for # "loop" => \E b \in Nat : Decodes(b)
    /\ main.for = "loop" /\ StreamCurrent > 0 /\ ~StreamEnd => Base(StreamCurrent) /\ Fitting(StreamCurrent)
    /\ main.for = "loop" => main.cell = 0

CInv == TypeOK /\ AllInContext /\ Reading

\* The remainder of a division that is written out.
LEMMA Quotient ==
  ASSUME NEW n \in Nat, NEW m \in Nat, m > 0, NEW d \in Nat, NEW r \in 0 .. m - 1, n = m * d + r
  PROVE  n % m = r
  OBVIOUS

\* A multiple of the size of a chunk, and the position after it.
LEMMA Remainder ==
  ASSUME NEW q \in Nat
  PROVE  (Cells * q) % Cells = 0 /\ (Cells * q + 1) % Cells = 1 % Cells
<1>1. Cells * q \in Nat /\ Cells * q = Cells * q + 0 /\ 0 \in 0 .. Cells - 1
  BY Numbers
<1>2. (Cells * q) % Cells = 0
  BY <1>1, Quotient, Numbers
<1>3. CASE Cells > 1
  <2>1. 1 \in 0 .. Cells - 1 /\ 1 = Cells * 0 + 1 /\ Cells * q + 1 \in Nat
    BY <1>1, <1>3, Numbers
  <2>2. ASSUME NEW n \in Nat, NEW d \in Nat, n = Cells * d + 1
        PROVE  n % Cells = 1
    BY <2>1, <2>2, Numbers, Quotient
  <2>3. 1 % Cells = 1
    BY <2>1, <2>2
  <2>4. (Cells * q + 1) % Cells = 1
    <3>1. PICK n \in Nat : n = Cells * q + 1
      BY <2>1
    <3>2. n % Cells = 1
      BY <2>2, <3>1
    <3> QED BY <3>1, <3>2
  <2> QED BY <1>2, <2>3, <2>4
<1>4. CASE Cells = 1
  BY <1>4
<1> QED BY <1>2, <1>3, <1>4, Numbers

\* Chunks follow each other, and only a stream of full chunks ends with one.
LEMMA Bases ==
  ASSUME StreamSize \in Sizes, NEW b, Base(b)
  PROVE  /\ b \in Nat /\ b > 0 /\ b % Cells = 1 % Cells
         /\ ~Last(b) => Base(b + Cells)
         /\ b + Cells - 1 = StreamSize => StreamSize % Cells = 0
<1>1. PICK k \in Nat : b = Cells * k + 1
  BY DEF Base
<1>2. b \in Nat /\ b > 0 /\ StreamSize \in Nat
  BY Numbers DEF Base
<1>3. Cells * (k + 1) = Cells * k + Cells /\ k + 1 \in Nat /\ Cells * k \in Nat
  BY Numbers
<1>4. b % Cells = 1 % Cells
  BY <1>1, Remainder
<1>5. ~Last(b) => Base(b + Cells)
  BY <1>1, <1>2, <1>3, Numbers DEF Base, Last
<1>6. b + Cells - 1 = Cells * (k + 1)
  BY <1>1, <1>3, Numbers
<1> QED BY <1>2, <1>3, <1>4, <1>5, <1>6, Remainder

\* Where the two chunks begin that are decoded before a stream plays.
LEMMA FirstBases ==
  ASSUME StreamSize \in Sizes
  PROVE  /\ Base(1) /\ Base(1 + Cells) /\ ~Last(1) /\ ~Last(1 + Cells)
<1>1. 1 = Cells * 0 + 1 /\ 1 + Cells = Cells * 1 + 1
  BY Numbers
<1>2. 1 \in 1 .. StreamSize /\ 1 + Cells \in 1 .. StreamSize /\ ~Last(1) /\ ~Last(1 + Cells)
  BY Numbers DEF Last
<1> QED BY <1>1, <1>2 DEF Base

\* What a cell of the buffers says.
LEMMA CellFields ==
  ASSUME NEW o, NEW p, NEW b \in BOOLEAN, NEW x, x = [of |-> o, pos |-> p, clean |-> b]
  PROVE  x.of = o /\ x.pos = p /\ x.clean = b
  OBVIOUS

\* A cell is decoded in context, except the first one after a repeat.
LEMMA DecodesInContext ==
  ASSUME CInv, StreamUpdate, NEW b \in Nat, Decodes(b)
  PROVE  /\ InContext(pcm'[cur_buf + main.cell])
         /\ hist' = StreamBuffer[main.cell] + 1
<1> DEFINE c == main.cell
           p == StreamBuffer[c]
<1>1. c \in Cell /\ p \in Nat /\ hist \in Nat /\ cur_buf + c \in 0 .. 2 * Cells - 1 /\ InLoop = FALSE
  BY Numbers DEF CInv, TypeOK, StreamUpdate, Cell
<1>2. pcm'[cur_buf + c] = [of |-> StreamSize, pos |-> p, clean |-> p = Silence \/ p = hist]
  BY <1>1 DEF StreamUpdate, CInv, TypeOK
<1>3. StreamSize \in Sizes
  BY DEF StreamUpdate, InLoop, CInv, TypeOK, Reading
<1>4. b \in Nat /\ b > 0 /\ b % Cells = 1 % Cells /\ b <= StreamSize /\ StreamSize \in Nat
  <2>1. Base(b)
    BY DEF Decodes
  <2>2. StreamSize \in Nat
    BY <1>3, Numbers
  <2>3. b <= StreamSize
    BY <2>1, <2>2 DEF Base
  <2> QED BY <1>3, <2>1, <2>2, <2>3, Bases
<1>5. p = Val(b, c)
  BY <1>1 DEF Decodes, Read
<1>6. hist' = p + 1
  BY DEF StreamUpdate
<1>7. PICK fit \in BOOLEAN : fit = (p = Silence \/ p = hist)
  OBVIOUS
<1>8. PICK x : x = pcm'[cur_buf + c]
  OBVIOUS
<1>9. x.of = StreamSize /\ x.pos = p /\ x.clean = fit
  BY <1>2, <1>7, <1>8, CellFields
<1>10. CASE c > 0
  <2>1. hist = Val(b, c - 1) + 1
    BY <1>1, <1>10, Numbers DEF Decodes, Read, Cell
  <2>2. c \in Nat /\ p = IF b + c < End THEN b + c ELSE Silence
    BY <1>1, <1>5, Numbers DEF Val, Cell
  <2>3. hist = (IF b + (c - 1) < End THEN b + (c - 1) ELSE Silence) + 1
    BY <2>1 DEF Val
  <2>4. PICK e \in Nat : e = End
    BY <1>4 DEF End, StreamStart
  <2>5. b + (c - 1) = b + c - 1
    BY <1>4, <2>2
  <2>6. p = Silence \/ p = hist
    <3>1. CASE b + c < e
      <4>1. p = b + c /\ b + c - 1 < e
        BY <1>4, <2>2, <2>4, <3>1
      <4>2. hist = (b + c - 1) + 1
        BY <2>3, <2>4, <2>5, <4>1
      <4> QED BY <1>4, <2>2, <4>1, <4>2
    <3>2. CASE ~(b + c < e)
      BY <2>2, <2>4, <3>2
    <3> QED BY <3>1, <3>2
  <2>7. x.clean
    BY <1>7, <1>9, <2>6
  <2>8. InContext(x)
    BY <2>7 DEF InContext
  <2> QED BY <1>6, <1>8, <2>8
<1>11. CASE c = 0
  <2>1. p = b
    BY <1>4, <1>5, <1>11 DEF Val, End, StreamStart
  <2>2. p = hist \/ Last(b) \/ (b = 1 /\ StreamSize % Cells = 0)
    BY <1>11, <2>1 DEF Decodes, Fitting
  <2>3. CASE p = hist
    <3>1. x.clean
      BY <1>7, <1>9, <2>3
    <3> QED BY <1>6, <1>8, <3>1 DEF InContext
  <2>4. CASE Last(b)
    <3>1. x.pos % Cells = 1 % Cells /\ x.pos + Cells > x.of
      BY <1>4, <1>9, <2>1, <2>4 DEF Last
    <3> QED BY <1>6, <1>8, <3>1 DEF InContext
  <2>5. CASE b = 1 /\ StreamSize % Cells = 0
    <3>1. x.pos = StreamStart /\ x.of % Cells = 0
      BY <1>9, <2>1, <2>5 DEF StreamStart
    <3> QED BY <1>6, <1>8, <3>1 DEF InContext
  <2> QED BY <2>2, <2>3, <2>4, <2>5
<1> QED BY <1>1, <1>10, <1>11, Numbers DEF Cell

\* StreamUpdate decodes one cell more.
LEMMA UpdateInContext ==
  ASSUME CInv, StreamUpdate
  PROVE  AllInContext' /\ Reading'
<1>1. main.for \in {"first", "second", "update"} /\ StreamSize \in Sizes
  BY DEF StreamUpdate, InLoop, CInv, TypeOK, Reading
<1>2. PICK b \in Nat : Decodes(b)
  BY <1>1 DEF CInv, Reading
<1>3. /\ UNCHANGED <<StreamBuffer, StreamCurrent, StreamSize, StreamEnd, heard>>
      /\ main'.for = main.for /\ main'.cell = main.cell + 1 /\ main.cell \in 0 .. Cells - 1
  BY DecodedCell DEF StreamUpdate, stream, CInv
<1>4. AllInContext'
  <2>1. ASSUME NEW i \in 0 .. 2 * Cells - 1 PROVE InContext(pcm'[i])
    BY <1>2, DecodedCell, DecodesInContext DEF CInv, AllInContext
  <2> QED BY <1>3, <2>1 DEF AllInContext, InContext, CInv
<1>5. Decodes(b)'
  <2>1. hist' = StreamBuffer'[main'.cell - 1] + 1
    BY <1>2, <1>3, DecodesInContext, Numbers
  <2>2. Read(b)' /\ Base(b)' /\ Last(b)' = Last(b)
    BY <1>2, <1>3 DEF Decodes, Read, Val, End, Base, Last, Cell
  <2> QED BY <1>2, <1>3, <2>1, <2>2, Numbers DEF Decodes
<1> QED BY <1>1, <1>3, <1>4, <1>5 DEF Reading

\* A step that decodes nothing, and plays at most a cell.
LEMMA HeardInContext ==
  ASSUME CInv, UNCHANGED pcm,
         heard' \in {heard, Nothing} \cup {pcm[i] : i \in 0 .. 2 * Cells - 1}
  PROVE  AllInContext'
<1>1. InContext(Nothing)
  BY DEF InContext, Nothing
<1>2. InContext(heard')
  BY <1>1 DEF CInv, AllInContext
<1> QED BY <1>2 DEF CInv, AllInContext, InContext

\* Nothing is read or decoded.
LEMMA ReadingSame ==
  ASSUME Reading, UNCHANGED <<main, StreamBuffer, StreamCurrent, StreamSize, StreamEnd, hist>>
  PROVE  Reading'
  BY DEF Reading, Decodes, Read, Base, Last, Fitting, Val, End, Cell

\* A stream is started with its first chunk and the history of its start.
LEMMA FirstReading ==
  ASSUME TypeOK, NEW size \in Sizes, StreamStartStream(size)
  PROVE  Reading'
<1>1. main'.for = "first" /\ main'.cell = 0 /\ StreamCurrent' = 1 + Cells /\ StreamSize' = size /\ hist' = 1
  BY Decoding DEF StreamStartStream, StreamStart, StreamPrepare
<1>2. Read(1)'
  <2>1. \A i \in Cell : StreamBuffer'[i] = 1 + i
    BY Chunks DEF StreamStartStream, StreamStart
  <2> QED BY <1>1, <2>1, Numbers DEF Read, Val, End, Cell, StreamStart
<1>3. Base(1)' /\ ~Last(1)'
  <2>1. 1 = Cells * 0 + 1
    BY Numbers
  <2> QED BY <1>1, <2>1, Numbers DEF Base, Last
<1>4. Decodes(1)'
  BY <1>1, <1>2, <1>3 DEF Decodes, Fitting
<1> QED BY <1>1, <1>4 DEF Reading

\* What the history is when a chunk has been decoded.
LEMMA ChunkDone ==
  ASSUME CInv, main.for # "loop", main.cell = Cells, NEW b \in Nat, Decodes(b)
  PROVE  /\ StreamSize \in Sizes /\ StreamCurrent \in Nat
         /\ ~Last(b) => Base(b + Cells) /\ StreamCurrent = b + Cells /\ hist = b + Cells
         /\ Last(b) => StreamEnd \/ (StreamCurrent = 1 /\ Base(1) /\ Fitting(1))
<1>1. StreamSize \in Sizes /\ StreamCurrent \in Nat
  BY DEF CInv, TypeOK, Reading
<1>2. Base(b) /\ b \in Nat /\ b > 0 /\ b <= StreamSize /\ StreamSize \in Nat
  BY <1>1, Numbers DEF Decodes, Base
<1>3. hist = Val(b, Cells - 1) + 1
  BY Numbers DEF Decodes, Read, Cell
<1>4. ~Last(b) => hist = b + Cells
  BY <1>2, <1>3, Numbers DEF Last, Val, End, StreamStart
<1>5. Last(b) => hist = 1 \/ b + Cells - 1 = StreamSize
  BY <1>2, <1>3, Numbers DEF Last, Val, End, StreamStart, Silence
<1> QED BY <1>1, <1>2, <1>4, <1>5, Bases, FirstBases DEF Decodes, Fitting

\* The second chunk follows the first.
LEMMA SecondReading ==
  ASSUME CInv, SecondChunk
  PROVE  Reading'
<1>1. main.for = "first" /\ main.cell = Cells /\ main'.for = "second" /\ main'.cell = 0
  BY Decoding DEF SecondChunk, Updated
<1>2. Decodes(1)
  BY <1>1 DEF CInv, Reading, Decodes
<1>3. StreamSize \in Sizes /\ StreamCurrent = 1 + Cells /\ hist = 1 + Cells
  BY <1>1, <1>2, ChunkDone, FirstBases DEF CInv, Reading
<1>4. UNCHANGED <<StreamSize, hist, StreamEnd>> /\ StreamCurrent' = 1 + Cells + Cells
  BY <1>3 DEF SecondChunk
<1>5. Read(1 + Cells)'
  <2>1. \A i \in Cell : StreamBuffer'[i] = 1 + Cells + i
    <3>1. PICK n \in Nat : n = StreamCurrent
      BY <1>3, Numbers
    <3>2. StreamBuffer' = Chunk(n)
      BY <3>1 DEF SecondChunk
    <3>3. \A i \in Cell : StreamBuffer'[i] = n + i
      BY <3>2, Chunks
    <3> QED BY <1>3, <3>1, <3>3
  <2> QED BY <1>3, <1>4, <2>1, Numbers DEF Read, Val, End, Cell, StreamStart
<1>6. Base(1 + Cells)' /\ ~Last(1 + Cells)'
  BY <1>3, <1>4, FirstBases DEF Base, Last
<1>7. Decodes(1 + Cells)'
  BY <1>1, <1>3, <1>4, <1>5, <1>6 DEF Decodes, Fitting
<1>8. 1 + Cells \in Nat
  BY Numbers
<1> QED BY <1>1, <1>3, <1>4, <1>7, <1>8 DEF Reading

\* A stream begins to play with the third chunk to be read.
LEMMA StartedReading ==
  ASSUME CInv, StreamStarted
  PROVE  Reading'
<1>1. main.for = "second" /\ main.cell = Cells /\ main'.for = "loop" /\ main'.cell = 0
  BY Decoding DEF StreamStarted, Updated
<1>2. Decodes(1 + Cells) /\ 1 + Cells \in Nat
  BY <1>1, Numbers DEF CInv, Reading, Decodes
<1>3. StreamSize \in Sizes /\ Base(StreamCurrent) /\ hist = StreamCurrent
  BY <1>1, <1>2, ChunkDone, FirstBases
<1>4. UNCHANGED <<StreamSize, hist, StreamCurrent>>
  BY DEF StreamStarted
<1> QED BY <1>1, <1>3, <1>4 DEF Reading, Base, Fitting

\* A chunk is decoded, and the next one has the history it needs.
LEMMA RefilledReading ==
  ASSUME CInv, Refilled
  PROVE  Reading'
<1>1. main.for = "update" /\ main.cell = Cells /\ main'.for = "loop" /\ main'.cell = 0
  BY Decoding DEF Refilled, Updated
<1>2. PICK b \in Nat : Decodes(b)
  BY <1>1 DEF CInv, Reading
<1>3. UNCHANGED <<StreamSize, hist, StreamCurrent, StreamEnd>>
  BY DEF Refilled, stream
<1>4. StreamSize \in Sizes /\ (~StreamEnd => Base(StreamCurrent) /\ Fitting(StreamCurrent))
  BY <1>1, <1>2, ChunkDone DEF Fitting
<1> QED BY <1>1, <1>3, <1>4 DEF Reading, Base, Fitting

\* The next chunk is read with the history it needs, or is the last one.
LEMMA RefillReading ==
  ASSUME CInv, Refill
  PROVE  Reading'
<1>1. main.for = "loop" /\ main'.for = "update" /\ main'.cell = 0 /\ ~StreamEnd /\ StreamCurrent > 0
  BY Decoding DEF Refill, InLoop
<1>2. PICK b \in Nat : b = StreamCurrent
  BY DEF CInv, TypeOK
<1>3. StreamSize \in Sizes /\ Base(b) /\ Fitting(b) /\ b > 0 /\ StreamSize \in Nat
  BY <1>1, <1>2, Numbers DEF CInv, Reading
<1>4. StreamSize' = StreamSize /\ Base(b)' /\ Last(b)' = Last(b)
  BY <1>3 DEF Refill, Base, Last
<1>5. Last(b) <=> StreamCurrent + Cells >= StreamStart + StreamSize
  BY <1>2, <1>3, Numbers DEF Last, StreamStart
<1>6. Read(b)'
  <2>1. PICK e \in Nat : e = End
    BY <1>3, Numbers DEF End, StreamStart
  <2>2. StreamBuffer' = IF b + Cells >= e THEN Cut(Chunk(b), e) ELSE Chunk(b)
    BY <1>2, <2>1 DEF Refill, End
  <2>3. \A i \in Cell : StreamBuffer'[i] = IF b + i < e THEN b + i ELSE Silence
    <3>0. \A i \in Cell : Chunk(b)[i] = b + i /\ Cut(Chunk(b), e)[i] = IF b + i < e THEN b + i ELSE Silence
      BY Chunks
    <3>1. CASE b + Cells >= e
      BY <3>0, <3>1, <2>2
    <3>2. CASE ~(b + Cells >= e)
      BY <3>0, <3>2, <2>2, Numbers DEF Cell
    <3> QED BY <3>1, <3>2
  <2>4. End' = e
    BY <1>4, <2>1 DEF End
  <2> QED BY <2>3, <2>4 DEF Read, Val, Cell
<1>7. CASE Last(b)
  <2>1. StreamEnd' \/ StreamCurrent' = 1
    BY <1>5, <1>7 DEF Refill, StreamStart, CInv, TypeOK
  <2>2. Decodes(b)'
    BY <1>1, <1>4, <1>6, <1>7, <2>1 DEF Decodes
  <2> QED BY <1>1, <1>3, <1>4, <2>2 DEF Reading
<1>8. CASE ~Last(b)
  <2>1. hist' = hist /\ StreamCurrent' = b + Cells
    BY <1>2, <1>5, <1>8 DEF Refill
  <2>2. Fitting(b)'
    BY <1>3, <1>4, <2>1 DEF Fitting
  <2>3. Decodes(b)'
    BY <1>1, <1>4, <1>6, <1>8, <2>1, <2>2 DEF Decodes
  <2> QED BY <1>1, <1>3, <1>4, <2>3 DEF Reading
<1> QED BY <1>7, <1>8

\* No step breaks it, whether updates are late or not.
LEMMA NextCInv == CInv /\ [Next]_vars => CInv'
<1> SUFFICES ASSUME CInv, [Next]_vars PROVE AllInContext' /\ Reading'
  BY NextTypes DEF CInv
<1>1. ASSUME NEW size \in Sizes, StreamStartStream(size) PROVE AllInContext' /\ Reading'
  BY <1>1, HeardInContext, FirstReading DEF StreamStartStream, CInv
<1>2. CASE DisableLoop
  BY <1>2, HeardInContext, ReadingSame DEF DisableLoop, decoder, CInv
<1>3. CASE StreamEndStream
  BY <1>3, HeardInContext DEF StreamEndStream, decoder, CInv, Reading, InLoop
<1>4. CASE StreamUpdate
  BY <1>4, UpdateInContext
<1>5. CASE SecondChunk
  BY <1>5, HeardInContext, SecondReading DEF SecondChunk
<1>6. CASE StreamStarted
  BY <1>6, HeardInContext, StartedReading DEF StreamStarted
<1>7. CASE Stop
  BY <1>7, HeardInContext DEF Stop, NoPlace, decoder, CInv, Reading, InLoop
<1>8. CASE Ignore
  BY <1>8, HeardInContext, ReadingSame DEF Ignore, decoder, stream, CInv
<1>9. CASE Refill
  BY <1>9, HeardInContext, RefillReading DEF Refill
<1>10. CASE Refilled
  BY <1>10, HeardInContext, RefilledReading DEF Refilled
<1>11. CASE Play
  BY <1>11, HeardInContext, ReadingSame DEF Play, decoder, stream, CInv, TypeOK
<1>12. CASE UNCHANGED vars
  BY <1>12, HeardInContext, ReadingSame DEF vars, decoder, stream, CInv
<1> QED
  BY <1>1, <1>2, <1>3, <1>4, <1>5, <1>6, <1>7, <1>8, <1>9, <1>10, <1>11, <1>12
  DEF Next, Commands, Starting, StreamUpdateRegisters

\* Nothing is decoded at first.
LEMMA InitCInv == Init => CInv
<1> SUFFICES ASSUME Init PROVE CInv
  OBVIOUS
<1>1. \A i \in 0 .. 2 * Cells - 1 : pcm[i] = Nothing
  BY DEF Init
<1>2. AllInContext
  BY <1>1 DEF Init, AllInContext, InContext, Nothing
<1>3. Reading
  BY DEF Init, Reading
<1> QED BY <1>2, <1>3, InitIInv DEF CInv, IInv
-----------------------------------------------------------------------------
(* Theorems                                                                *)

\* The variables keep their types, whether updates are late or not: the buffers are written
\* and played inside their bounds.
THEOREM StreamTypes == Spec => []TypeOK
<1>1. Init => TypeOK
  BY InitIInv DEF IInv
<1> QED BY <1>1, NextTypes, PTL DEF Spec

\* While updates come in time, the buffer that plays holds the chunk that shall be heard, and
\* the other one the chunk after it or the part of it that is decoded.
THEOREM StreamInvariant ==
  ASSUME ~Late
  PROVE  Spec => []IInv
<1>1. IInv /\ [Next]_vars => IInv'
  BY NextIInv
<1> QED BY <1>1, InitIInv, PTL DEF Spec

\* While updates come in time, a listener hears the cells of the stream that was started in
\* their order (Stream.c:139-185, __DSPHandler.S).
THEOREM HeardInOrder ==
  ASSUME ~Late
  PROVE  Spec => PlayedInOrder
<1>1. IInv /\ [Next]_vars => [Play => heard'.of = StreamSize /\ heard'.pos = Follows(heard.pos)]_vars
  <2> SUFFICES ASSUME IInv, Play
               PROVE  heard'.of = StreamSize /\ heard'.pos = Follows(heard.pos)
    OBVIOUS
  <2>1. PICK p \in 1 .. StreamSize : Plays(p)
    BY DEF Play, IInv, InTime
  <2> QED BY <2>1, PlayHeard DEF Plays
<1> QED BY <1>1, StreamInvariant, PTL DEF Spec, PlayedInOrder

\* What is heard was decoded with the history of the cell before it, except where a stream
\* repeats (StreamUpdate, StreamPrepare), and whether updates are late or not.
THEOREM HeardInItsContext == Spec => []DecodedInContext
<1>1. CInv => DecodedInContext
  BY DEF CInv, AllInContext, InContext, DecodedInContext
<1> QED BY <1>1, InitCInv, NextCInv, PTL DEF Spec
=============================================================================
