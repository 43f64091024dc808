-------------------------------- MODULE IsoCache --------------------------------
(***************************************************************************)
(* The disc image reader of ISO.c: a read of the game is served in         *)
(* portions by the DI thread, from a cache that fills up, replaces its     *)
(* entries and is dropped as a whole, reads ahead when the game reads in   *)
(* sequence, skips seeks it believes needless, and starts again when the   *)
(* disc is changed.  A CISO image leaves out the disc's unused blocks and  *)
(* is read block by block.  Data are abstracted to where they come from: a *)
(* cell is a disc and an address on it, so that "the right data" can be    *)
(* said.                                                                   *)
(***************************************************************************)
EXTENDS Integers, FiniteSets

CONSTANTS
    Discs, NoDisc,      \* disc images, and none of them
    Ciso, Used,         \* those in CISO format, and the blocks each of them stores
    CISO_HEADER_SIZE, CISO_BLOCK_SIZE, CISO_MAP_SIZE,
    Shifts,             \* values of ISOShift64: where the game starts in its image
    Offsets, MaxLength, \* the game's reads
    HeaderEnd,          \* where ISOInit's last read ends, less the shift
    CACHE_MAX,          \* entries of the cache
    DCacheLimit,        \* size of its data area
    PreloadBelow,       \* 0x8000: reads shorter than this may be extended
    PreloadUpTo,        \* 0x10000: until they are at least this long
    DI_READ_BUFFER_LENGTH   \* portion of a read without the cache

ASSUME IsoCacheAssumption ==
    /\ Shifts \subseteq Nat /\ Offsets \subseteq Nat /\ HeaderEnd \in Nat
    /\ MaxLength \in Nat \ {0} /\ CACHE_MAX \in Nat \ {0} /\ DCacheLimit \in Nat
    /\ PreloadBelow \in Nat /\ PreloadUpTo \in Nat /\ DI_READ_BUFFER_LENGTH \in Nat \ {0}
    /\ PreloadBelow <= PreloadUpTo /\ PreloadUpTo + MaxLength <= DCacheLimit

Block == 0 .. CISO_MAP_SIZE - 1

\* The block map has an entry for all that a game may read, the read-ahead behind it
\* included: 2 GB for discs of 1.4 GB.
ASSUME CisoAssumption ==
    /\ Ciso \subseteq Discs /\ Used \in [Ciso -> SUBSET Block]
    /\ CISO_HEADER_SIZE \in Nat /\ CISO_BLOCK_SIZE \in Nat \ {0} /\ CISO_MAP_SIZE \in Nat
    /\ HeaderEnd > 0
    /\ \A o \in Offsets \cup {HeaderEnd}, s \in Shifts :
          o + s + PreloadUpTo + 2 * MaxLength <= CISO_MAP_SIZE * CISO_BLOCK_SIZE

Slot == 0 .. CACHE_MAX - 1
Area == 0 .. DCacheLimit - 1
Buffer == 0 .. MaxLength - 1
Junk == <<NoDisc, 0>>
Zero == <<NoDisc, 1>>
Cell == (Discs \cup {NoDisc}) \X Nat
EmptyEntry == [Offset |-> 0, Size |-> 0, Data |-> 0]
NoRead == [disc |-> NoDisc, off |-> 0, len |-> 0, cached |-> TRUE]

VARIABLES
    ISOShift64,
    image, position,            \* the open image, and its file pointer
    LastOffset64,               \* where ISO.c believes the file pointer is
    CacheInited, DC, TempCacheCount, DataCacheOffset,
    mem,                        \* the cache's data area
    req, done,                  \* the read of the game, and what is served of it
    dest, written               \* its buffer, and where the last copy ended

file == <<image, position, LastOffset64>>
cache == <<CacheInited, DC, TempCacheCount, DataCacheOffset, mem>>
buffer == <<dest, written>>
vars == <<ISOShift64, file, cache, req, done, buffer>>

Idle == done >= req.len

-----------------------------------------------------------------------------
(* Image files                                                             *)

BlockOf(x) == x \div CISO_BLOCK_SIZE
Empty(d, x) == d \in Ciso /\ BlockOf(x) \notin Used[d]

\* What is on a disc: nothing where its image leaves a block out.
OnDisc(d, x) == IF Empty(d, x) THEN Zero ELSE <<d, x>>

\* What is in its file: of a CISO image, the blocks it stores, in their order.
Rank(d, b) == Cardinality({c \in Used[d] : c < b})
StoredAt(d, b, p) ==
    /\ b \in Used[d] /\ p >= CISO_HEADER_SIZE
    /\ Rank(d, b) = BlockOf(p - CISO_HEADER_SIZE)
InFile(d, p) ==
    IF d \notin Ciso THEN <<d, p>>
    ELSE IF \E b \in Used[d] : StoredAt(d, b, p)
         THEN <<d, (CHOOSE b \in Used[d] : StoredAt(d, b, p)) * CISO_BLOCK_SIZE
                   + ((p - CISO_HEADER_SIZE) % CISO_BLOCK_SIZE)>>
         ELSE Junk

-----------------------------------------------------------------------------
(* The direct reader                                                       *)

\* The map that ISOInit makes: used blocks are counted (slip: all are).
CountsAll(d, b) == b
ciso_block_map(d, b) == Cardinality({c \in Used[d] : c < b})
Physical(d, x) ==
    CISO_HEADER_SIZE + ciso_block_map(d, BlockOf(x)) * CISO_BLOCK_SIZE + (x % CISO_BLOCK_SIZE)

\* A CISO image is read in parts, each in one block: it begins where the read does,
\* or its block.
PartStart(a, x) ==
    IF a >= BlockOf(x) * CISO_BLOCK_SIZE THEN a ELSE BlockOf(x) * CISO_BLOCK_SIZE

\* A plain image is sought unless the pointer is there already (a read error, after
\* which FatFs refuses the file, is left out).
Start(a) == IF LastOffset64 # a THEN a ELSE position
Fetched(a, j) ==
    LET x == a + j
        part == PartStart(a, x)
    IN IF image \notin Ciso THEN InFile(image, Start(a) + j)
       ELSE IF Empty(image, x) THEN Zero
       ELSE InFile(image, Physical(image, part) + (x - part))

\* Each part that is stored moves the pointer; the length of a last part that begins
\* its block and does not fill it is added twice.
PointerAfter(d, a, n, p, q) ==
    LET stored == {x \in a .. a + n - 1 : ~Empty(d, x)}
    IN IF stored = {} THEN q = p
       ELSE \E x \in stored : (\A y \in stored : y <= x) /\ q = 1 + Physical(d, x)
LastPart(a, n) ==
    LET rest == n - ((CISO_BLOCK_SIZE - (a % CISO_BLOCK_SIZE)) % CISO_BLOCK_SIZE)
    IN IF rest > 0 THEN rest % CISO_BLOCK_SIZE ELSE 0
ISOReadDirect(a, n) ==
    /\ \/ image \notin Ciso /\ position' = Start(a) + n
       \/ image \in Ciso /\ PointerAfter(image, a, n, position, position')
    /\ LastOffset64' = a + n + IF image \in Ciso THEN LastPart(a, n) ELSE 0
    /\ UNCHANGED image

-----------------------------------------------------------------------------
(* The DI thread                                                           *)

Remaining == req.len - done

\* The copy to the game's buffer (slip: all that ISORead returned).
CopyAll(n) == n
Copied(n) == IF n > req.len THEN req.len ELSE n
Deliver(n, src) ==
    /\ dest' = [i \in Buffer |-> IF i \in done .. done + Copied(n) - 1 THEN src[i - done] ELSE dest[i]]
    /\ written' = done + Copied(n)
    /\ done' = done + n

\* ISORead without the cache: in portions, and at the offset the game gave.
Uncached ==
    /\ ~Idle /\ ~CacheInited
    /\ LET n == IF Remaining > DI_READ_BUFFER_LENGTH THEN DI_READ_BUFFER_LENGTH ELSE Remaining
           a == req.off + done
       IN /\ ISOReadDirect(a, n)
          /\ Deliver(n, [j \in 0 .. n - 1 |-> Fetched(a, j)])
    /\ UNCHANGED <<ISOShift64, cache, req>>

\* The first entry that holds the whole read (slip: that holds its beginning).
HoldsStart(p, o, n) == DC[p].Size # 0 /\ o >= DC[p].Offset /\ o < DC[p].Offset + DC[p].Size
Holds(p, o, n) == DC[p].Size # 0 /\ o >= DC[p].Offset /\ o + n <= DC[p].Offset + DC[p].Size
Hit(p) ==
    /\ ~Idle /\ CacheInited
    /\ LET o == req.off + done
           n == Remaining
       IN /\ Holds(p, o, n) /\ \A q \in 0 .. p - 1 : ~Holds(q, o, n)
          /\ Deliver(n, [j \in 0 .. n - 1 |-> mem[DC[p].Data + (o - DC[p].Offset) + j]])
    /\ UNCHANGED <<ISOShift64, file, cache, req>>

\* A short read where the last one ended is doubled, tripled... until it is long
\* enough.
Preloaded(n, m) ==
    /\ m \in 2 * n .. PreloadUpTo + 2 * n /\ (\E k \in 2 .. PreloadUpTo + 2 : m = k * n)
    /\ m >= PreloadUpTo /\ (m = 2 * n \/ m - n < PreloadUpTo)
Reads(o, n, m) ==
    IF o + ISOShift64 = LastOffset64 /\ n < PreloadBelow THEN Preloaded(n, m) ELSE m = n

\* No position left, no space left (slip: entries survive their data).
Wrapped(c) == IF c >= CACHE_MAX THEN 0 ELSE c
Full(m) == DataCacheOffset + m >= DCacheLimit
EntriesKept == DC
EntriesDropped == [p \in Slot |-> [DC[p] EXCEPT !.Size = 0]]

Miss(m) ==
    /\ ~Idle /\ CacheInited
    /\ LET o == req.off + done
           a == o + ISOShift64
           base == IF Full(m) THEN 0 ELSE DataCacheOffset
           pos == IF Full(m) THEN 0 ELSE Wrapped(TempCacheCount)
       IN /\ \A p \in Slot : ~Holds(p, o, Remaining)
          /\ Reads(o, Remaining, m)
          /\ DC' = [IF Full(m) THEN EntriesDropped ELSE DC
                       EXCEPT ![pos] = [Offset |-> o, Size |-> m, Data |-> base]]
          /\ TempCacheCount' = pos + 1
          /\ DataCacheOffset' = base + m
          /\ mem' = [x \in Area |-> IF x \in base .. base + m - 1 THEN Fetched(a, x - base) ELSE mem[x]]
          /\ ISOReadDirect(a, m)
          /\ Deliver(m, [j \in 0 .. m - 1 |-> Fetched(a, j)])
    /\ UNCHANGED <<ISOShift64, CacheInited, req>>

Lengths == 1 .. PreloadUpTo + 2 * MaxLength
ISORead == Uncached \/ (\E p \in Slot : Hit(p)) \/ (\E m \in Lengths : Miss(m))

\* ISOClose and ISOInit, which reads the header and some fields behind it; the
\* thread is between two reads.
HeaderRead(d, shift) ==
    IF d \notin Ciso THEN HeaderEnd + shift
    ELSE IF Empty(d, HeaderEnd + shift - 1) THEN CISO_HEADER_SIZE
    ELSE 1 + Physical(d, HeaderEnd + shift - 1)
ISOInit(d) ==
    /\ Idle
    /\ image' = d
    /\ position' = HeaderRead(d, ISOShift64) /\ LastOffset64' = HeaderEnd + ISOShift64
    /\ CacheInited' = FALSE
    /\ UNCHANGED <<ISOShift64, DC, TempCacheCount, DataCacheOffset, mem, req, done, buffer>>

-----------------------------------------------------------------------------
(* The main thread, while no read is in progress                           *)

DiscReadAsync(o, n) ==
    /\ Idle
    /\ req' = [disc |-> image, off |-> o, len |-> n, cached |-> CacheInited]
    /\ done' = 0 /\ written' = 0
    /\ dest' = [i \in Buffer |-> Junk]
    /\ UNCHANGED <<ISOShift64, file, cache>>

\* ISOSeek: to a block that is not stored there is no way.
ISOSeek(o) ==
    /\ Idle /\ LastOffset64 # o + ISOShift64 /\ ~Empty(image, o + ISOShift64)
    /\ position' = IF image \in Ciso THEN Physical(image, o + ISOShift64) ELSE o + ISOShift64
    /\ LastOffset64' = o + ISOShift64
    /\ UNCHANGED <<ISOShift64, image, cache, req, done, buffer>>

\* ISOSetupCache, from PatchGame: the game's loader waits for it.
ISOSetupCache ==
    /\ Idle /\ ~CacheInited
    /\ CacheInited' = TRUE
    /\ DC' = [p \in Slot |-> EmptyEntry]
    /\ TempCacheCount' = 0 /\ DataCacheOffset' = 0
    /\ UNCHANGED <<ISOShift64, file, mem, req, done, buffer>>

-----------------------------------------------------------------------------
Init ==
    /\ ISOShift64 \in Shifts /\ image \in Discs
    /\ position = HeaderRead(image, ISOShift64) /\ LastOffset64 = HeaderEnd + ISOShift64
    /\ CacheInited = FALSE /\ DC = [p \in Slot |-> EmptyEntry]
    /\ TempCacheCount = 0 /\ DataCacheOffset = 0
    /\ mem = [x \in Area |-> Junk]
    /\ req = NoRead /\ done = 0
    /\ dest = [i \in Buffer |-> Junk] /\ written = 0

Next ==
    \/ ISORead
    \/ \E d \in Discs : ISOInit(d)
    \/ \E o \in Offsets, n \in 1 .. MaxLength : DiscReadAsync(o, n)
    \/ \E o \in Offsets : ISOSeek(o)
    \/ ISOSetupCache

Spec == Init /\ [][Next]_vars

-----------------------------------------------------------------------------
(* Properties                                                              *)

Entry == [Offset : Nat, Size : Nat, Data : Nat]
Request == [disc : Discs \cup {NoDisc}, off : Nat, len : 0 .. MaxLength, cached : BOOLEAN]
TypeOK ==
    /\ ISOShift64 \in Shifts /\ image \in Discs /\ position \in Nat /\ LastOffset64 \in Nat
    /\ CacheInited \in BOOLEAN /\ DC \in [Slot -> Entry]
    /\ TempCacheCount \in 0 .. CACHE_MAX /\ DataCacheOffset \in 0 .. DCacheLimit
    /\ mem \in [Area -> Cell]
    /\ req \in Request /\ done \in Nat
    /\ dest \in [Buffer -> Cell] /\ written \in Nat

\* ISOReadDirect and ISOSeek skip a seek only when the file pointer is there; in a
\* CISO image every part of a read seeks.
PositionKnown == image \notin Ciso => LastOffset64 = position

\* Every entry of the cache lies in its data area and holds the data of the image
\* that is open, at the place it claims to hold: whatever was replaced, dropped,
\* read ahead or left over from another disc.
CacheCoherent ==
    CacheInited =>
        \A p \in Slot :
            /\ DC[p].Data + DC[p].Size <= DCacheLimit
            /\ \A j \in 0 .. DC[p].Size - 1 :
                  mem[DC[p].Data + j] = OnDisc(image, DC[p].Offset + j + ISOShift64)

\* A read delivers the game's data: that of its own image where the image holds
\* several (a read without the cache adds no shift: ISO.c:463), and zeros where a
\* CISO image stores no block.
ReadRight(i) == dest[i] = OnDisc(req.disc, req.off + i + ISOShift64)
ReadsDisc ==
    Idle /\ (req.cached \/ ISOShift64 = 0) => \A i \in 0 .. req.len - 1 : ReadRight(i)

\* The copy of a portion stays inside the game's buffer, although ISORead may
\* return more than was asked for.
WritesInside == written <= req.len
=============================================================================
