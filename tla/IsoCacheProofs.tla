---------------------------- MODULE IsoCacheProofs ----------------------------
(***************************************************************************)
(* Proofs about IsoCache for every set of images, shift, read, cache size   *)
(* and read-ahead.  What is checked on a small instance is not inductive:   *)
(* that entries do not overlap what is fetched next needs EntriesBelow, and *)
(* that a read is right when it ends needs what is right of it until then.  *)
(***************************************************************************)
EXTENDS IsoCache, FiniteSetTheorems, TLAPS

\* Entries end where the next one will begin.
EntriesBelow ==
    CacheInited =>
        \A p \in Slot : DC[p].Size # 0 => DC[p].Data + DC[p].Size <= DataCacheOffset

\* A read is of the open image and served in one way from beginning to end; with
\* the cache, in one portion.
ReadInProgress ==
    ~Idle => req.disc = image /\ req.cached = CacheInited /\ (CacheInited => done = 0)

\* What is served so far is right.
ServedRight ==
    req.cached \/ ISOShift64 = 0 => \A i \in 0 .. req.len - 1 : i < done => ReadRight(i)

IInv ==
    /\ TypeOK
    /\ PositionKnown
    /\ CacheCoherent
    /\ EntriesBelow
    /\ WritesInside
    /\ ReadInProgress
    /\ ServedRight

-----------------------------------------------------------------------------
(* CISO images                                                             *)

\* Quotient and remainder of an address.
LEMMA BlockArith ==
    ASSUME NEW B \in Nat \ {0}, NEW x \in Nat
    PROVE  /\ x \div B \in Nat /\ x % B \in Nat /\ x % B < B
           /\ x = (x \div B) * B + (x % B)
OBVIOUS

\* An address is in one block, at one place.
LEMMA BlockUnique ==
    ASSUME NEW B \in Nat \ {0}, NEW k \in Nat, NEW r \in Nat, r < B
    PROVE  (k * B + r) \div B = k /\ (k * B + r) % B = r
<1> DEFINE x == k * B + r
<1> DEFINE q == x \div B
<1>1. x \in Nat
  OBVIOUS
<1>2. q \in Nat /\ x % B \in Nat /\ x % B < B /\ x = q * B + (x % B)
  BY <1>1, BlockArith
<1>3. ~(q < k)
  <2> SUFFICES ASSUME q < k PROVE FALSE
    OBVIOUS
  <2>1. k - q >= 1 /\ k - q \in Nat
    BY <1>2
  <2>2. (k - q) * B >= B
    BY <2>1
  <2>3. (k - q) * B = k * B - q * B
    BY <1>2
  <2> QED BY <1>1, <1>2, <2>2, <2>3
<1>4. ~(k < q)
  <2> SUFFICES ASSUME k < q PROVE FALSE
    OBVIOUS
  <2>1. q - k >= 1 /\ q - k \in Nat
    BY <1>2
  <2>2. (q - k) * B >= B
    BY <2>1
  <2>3. (q - k) * B = q * B - k * B
    BY <1>2
  <2> QED BY <1>1, <1>2, <2>2, <2>3
<1>5. q = k
  BY <1>2, <1>3, <1>4
<1> QED BY <1>2, <1>5

\* Blocks are numbered, and two blocks that are stored have different numbers.
LEMMA Ranks ==
    ASSUME NEW d \in Ciso
    PROVE  /\ \A b \in Nat : Rank(d, b) \in Nat /\ ciso_block_map(d, b) = Rank(d, b)
           /\ \A b, c \in Used[d] : Rank(d, b) = Rank(d, c) => b = c
<1>1. Used[d] \subseteq Nat /\ IsFiniteSet(Used[d])
  <2>1. Used[d] \subseteq Block /\ CISO_MAP_SIZE \in Nat
    BY CisoAssumption
  <2>2. IsFiniteSet(Block) /\ Block \subseteq Nat
    BY <2>1, FS_Interval DEF Block
  <2> QED BY <2>1, <2>2, FS_Subset
<1> DEFINE Below(b) == {c \in Used[d] : c < b}
<1>2. \A b \in Nat : IsFiniteSet(Below(b)) /\ Cardinality(Below(b)) \in Nat
  BY <1>1, FS_Subset, FS_CardinalityType
<1>3. ASSUME NEW b \in Used[d], NEW c \in Used[d], b < c
      PROVE  Rank(d, b) # Rank(d, c)
  <2>1. Below(b) \subseteq Below(c) /\ b \in Below(c) /\ b \notin Below(b)
    BY <1>1, <1>3
  <2>2. IsFiniteSet(Below(c)) /\ Below(b) \in SUBSET Below(c)
    BY <1>1, <1>2, <2>1
  <2>3. Cardinality(Below(b)) # Cardinality(Below(c))
    BY <2>1, <2>2, FS_Subset
  <2> QED BY <2>3 DEF Rank
<1>4. \A b, c \in Used[d] : Rank(d, b) = Rank(d, c) => b = c
  <2> SUFFICES ASSUME NEW b \in Used[d], NEW c \in Used[d], Rank(d, b) = Rank(d, c)
               PROVE  b = c
    OBVIOUS
  <2>1. ~(b < c) /\ ~(c < b)
    BY <1>3
  <2> QED BY <1>1, <2>1
<1> QED BY <1>2, <1>4 DEF Rank, ciso_block_map

\* An address of the file is that of one block's cell.
LEMMA StoredCell ==
    ASSUME NEW d \in Ciso, NEW b \in Used[d], NEW o \in Nat, o < CISO_BLOCK_SIZE
    PROVE  InFile(d, CISO_HEADER_SIZE + Rank(d, b) * CISO_BLOCK_SIZE + o)
               = <<d, b * CISO_BLOCK_SIZE + o>>
<1> DEFINE p == CISO_HEADER_SIZE + Rank(d, b) * CISO_BLOCK_SIZE + o
<1>1. CISO_HEADER_SIZE \in Nat /\ CISO_BLOCK_SIZE \in Nat \ {0} /\ Used[d] \subseteq Nat
  BY CisoAssumption DEF Block
<1>2. Rank(d, b) \in Nat
  BY <1>1, Ranks
<1>3. Rank(d, b) * CISO_BLOCK_SIZE \in Nat
  BY <1>1, <1>2
<1>4. p >= CISO_HEADER_SIZE /\ p - CISO_HEADER_SIZE = Rank(d, b) * CISO_BLOCK_SIZE + o
  BY <1>1, <1>3
<1>5. /\ BlockOf(p - CISO_HEADER_SIZE) = Rank(d, b)
      /\ (p - CISO_HEADER_SIZE) % CISO_BLOCK_SIZE = o
  BY <1>1, <1>2, <1>4, BlockUnique DEF BlockOf
<1> HIDE DEF p
<1>6. StoredAt(d, b, p)
  BY <1>4, <1>5 DEF StoredAt
<1>7. \A c \in Used[d] : StoredAt(d, c, p) => c = b
  BY <1>5, Ranks DEF StoredAt
<1>8. (CHOOSE c \in Used[d] : StoredAt(d, c, p)) = b
  BY <1>6, <1>7
<1>9. InFile(d, p) = <<d, b * CISO_BLOCK_SIZE + o>>
  BY <1>5, <1>6, <1>8 DEF InFile
<1> QED BY <1>9 DEF p

\* A part of a read stays in its block, and finds there what is on the disc.
THEOREM PartRight ==
    ASSUME NEW d \in Ciso, NEW a \in Nat, NEW x \in Nat, a <= x, ~Empty(d, x)
    PROVE  InFile(d, Physical(d, PartStart(a, x)) + (x - PartStart(a, x))) = <<d, x>>
<1> DEFINE B == CISO_BLOCK_SIZE
<1> DEFINE b == BlockOf(x)
<1> DEFINE part == PartStart(a, x)
<1>1. B \in Nat \ {0} /\ CISO_HEADER_SIZE \in Nat /\ b \in Used[d]
  BY CisoAssumption DEF Empty
<1>2. b \in Nat /\ x % B \in Nat /\ x % B < B /\ x = b * B + (x % B)
  BY <1>1, BlockArith DEF BlockOf
<1>3. b * B \in Nat
  BY <1>1, <1>2
<1>4. part \in Nat /\ b * B <= part /\ part <= x
  BY <1>2, <1>3 DEF PartStart
<1> DEFINE r == part - b * B
<1>5. r \in Nat /\ r < B /\ part = b * B + r /\ x - part = (x % B) - r
  BY <1>1, <1>2, <1>3, <1>4
<1> HIDE DEF part, r
<1>6. BlockOf(part) = b /\ part % B = r
  <2> HIDE DEF b
  <2> QED BY <1>1, <1>2, <1>5, BlockUnique DEF BlockOf
<1>7. /\ ciso_block_map(d, b) = Rank(d, b)
      /\ Rank(d, b) \in Nat
  BY <1>2, Ranks
<1>8. Rank(d, b) * B \in Nat
  BY <1>1, <1>7
<1>9. Physical(d, part) = CISO_HEADER_SIZE + Rank(d, b) * B + r
  BY <1>6, <1>7 DEF Physical
<1>10. Physical(d, part) + (x - part) = CISO_HEADER_SIZE + Rank(d, b) * B + (x % B)
  BY <1>1, <1>2, <1>4, <1>5, <1>8, <1>9
<1>11. InFile(d, CISO_HEADER_SIZE + Rank(d, b) * B + (x % B)) = <<d, b * B + (x % B)>>
  BY <1>1, <1>2, StoredCell
<1> QED BY <1>2, <1>10, <1>11 DEF part

\* Where a cell is in the file is an address of it.
LEMMA PhysicalType ==
    ASSUME NEW d \in Ciso, NEW x \in Nat
    PROVE  Physical(d, x) \in Nat
<1>1. CISO_HEADER_SIZE \in Nat /\ CISO_BLOCK_SIZE \in Nat \ {0}
  BY CisoAssumption
<1>2. BlockOf(x) \in Nat /\ x % CISO_BLOCK_SIZE \in Nat
  BY <1>1, BlockArith DEF BlockOf
<1>3. ciso_block_map(d, BlockOf(x)) \in Nat
  BY <1>2, Ranks
<1>4. ciso_block_map(d, BlockOf(x)) * CISO_BLOCK_SIZE \in Nat
  BY <1>1, <1>3
<1> QED BY <1>1, <1>2, <1>4 DEF Physical

-----------------------------------------------------------------------------
(* The direct reader                                                       *)

LEMMA OnDiscType ==
    ASSUME NEW d \in Discs, NEW x \in Nat
    PROVE  OnDisc(d, x) \in Cell
BY DEF OnDisc, Zero, Cell

\* What is fetched is the disc's data at the address asked for, moved pointer or
\* not, in a plain image and in a CISO one.
LEMMA FetchedRight ==
    ASSUME TypeOK, PositionKnown, NEW a \in Nat, NEW j \in Nat
    PROVE  Fetched(a, j) = OnDisc(image, a + j) /\ Fetched(a, j) \in Cell
<1>1. image \in Discs /\ a + j \in Nat /\ a <= a + j
  BY DEF TypeOK
<1>2. Fetched(a, j) = OnDisc(image, a + j)
  <2>1. CASE image \notin Ciso
    BY <2>1 DEF TypeOK, PositionKnown, Fetched, Start, InFile, OnDisc, Empty
  <2>2. CASE image \in Ciso /\ Empty(image, a + j)
    BY <2>2 DEF Fetched, OnDisc
  <2>3. CASE image \in Ciso /\ ~Empty(image, a + j)
    BY <1>1, <2>3, PartRight DEF Fetched, OnDisc
  <2> QED BY <2>1, <2>2, <2>3
<1> QED BY <1>1, <1>2, OnDiscType

\* The file pointer of a plain image stays where it is believed to be.
LEMMA PositionKept ==
    ASSUME TypeOK, PositionKnown, NEW a \in Nat, NEW n \in Nat, ISOReadDirect(a, n)
    PROVE  /\ PositionKnown'
           /\ position' \in Nat /\ LastOffset64' \in Nat /\ image' = image
<1>1. image' = image
  BY DEF ISOReadDirect
<1>2. CASE image \notin Ciso
  BY <1>2 DEF TypeOK, PositionKnown, ISOReadDirect, Start
<1>3. CASE image \in Ciso
  <2>1. CISO_BLOCK_SIZE \in Nat \ {0}
    BY CisoAssumption
  <2>2. LastPart(a, n) \in Nat
    <3> DEFINE B == CISO_BLOCK_SIZE
    <3> DEFINE head == (B - (a % B)) % B
    <3>1. a % B \in Nat /\ a % B < B
      BY <2>1, BlockArith
    <3>2. head \in Nat
      BY <2>1, <3>1, BlockArith
    <3> HIDE DEF head
    <3>3. n - head > 0 => (n - head) % B \in Nat
      BY <2>1, <3>2, BlockArith
    <3> QED BY <3>3 DEF LastPart, head
  <2>3. LastOffset64' \in Nat
    BY <1>3, <2>2 DEF ISOReadDirect
  <2>4. PointerAfter(image, a, n, position, position')
    BY <1>3 DEF ISOReadDirect
  <2>5. \A x \in a .. a + n - 1 : x \in Nat
    OBVIOUS
  <2>6. position' \in Nat
    BY <1>3, <2>4, <2>5, PhysicalType DEF PointerAfter, TypeOK
  <2> QED BY <1>1, <1>3, <2>3, <2>6 DEF PositionKnown
<1> QED BY <1>1, <1>2, <1>3

\* So do the reads of ISOInit.
LEMMA HeaderReadType ==
    ASSUME NEW d \in Discs, NEW s \in Nat
    PROVE  HeaderRead(d, s) \in Nat /\ (d \notin Ciso => HeaderRead(d, s) = HeaderEnd + s)
<1>1. CISO_HEADER_SIZE \in Nat /\ HeaderEnd + s \in Nat /\ HeaderEnd + s - 1 \in Nat
  BY IsoCacheAssumption, CisoAssumption
<1> QED BY <1>1, PhysicalType DEF HeaderRead

-----------------------------------------------------------------------------
(* The cache                                                               *)

\* A read-ahead fits in the data area, and covers what was asked for.
LEMMA ReadsBound ==
    ASSUME NEW o \in Nat, NEW n \in 1 .. MaxLength, NEW m \in Lengths,
           TypeOK, Reads(o, n, m)
    PROVE  m \in Nat /\ n <= m /\ m <= DCacheLimit
<1>1. /\ MaxLength \in Nat /\ PreloadBelow \in Nat /\ PreloadUpTo \in Nat /\ DCacheLimit \in Nat
      /\ PreloadBelow <= PreloadUpTo /\ PreloadUpTo + MaxLength <= DCacheLimit
  BY IsoCacheAssumption
<1>2. n \in Nat /\ n <= MaxLength /\ m \in Nat
  BY <1>1 DEF Lengths
<1>3. CASE o + ISOShift64 = LastOffset64 /\ n < PreloadBelow
  <2>1. 2 * n <= m /\ (m = 2 * n \/ m - n < PreloadUpTo)
    BY <1>1, <1>2, <1>3 DEF Reads, Preloaded
  <2> QED BY <1>1, <1>2, <1>3, <2>1
<1>4. CASE ~(o + ISOShift64 = LastOffset64 /\ n < PreloadBelow)
  <2>1. m = n
    BY <1>4 DEF Reads
  <2> QED BY <1>1, <1>2, <2>1
<1> QED BY <1>3, <1>4

-----------------------------------------------------------------------------
(* The copy to the game                                                    *)

\* Copying a portion that is right, or the rest of the read and what is read ahead
\* behind it, keeps the read right and inside the buffer.
LEMMA Delivered ==
    ASSUME IInv, ~Idle, NEW n \in Nat, NEW src, Deliver(n, src),
           n <= Remaining \/ done = 0,
           CacheInited => Remaining <= n,
           UNCHANGED <<req, image, ISOShift64, CacheInited>>,
           \A j \in 0 .. n - 1 : src[j] \in Cell,
           req.cached \/ ISOShift64 = 0 =>
               \A j \in 0 .. n - 1 : src[j] = OnDisc(image, req.off + (done + j) + ISOShift64)
    PROVE  /\ dest' \in [Buffer -> Cell] /\ done' \in Nat /\ written' \in Nat
           /\ WritesInside' /\ ReadInProgress' /\ ServedRight'
<1>1. /\ req.len \in Nat /\ req.len <= MaxLength /\ MaxLength \in Nat /\ req.off \in Nat
      /\ done \in Nat /\ done < req.len /\ dest \in [Buffer -> Cell]
  BY IsoCacheAssumption DEF IInv, TypeOK, Request, Idle
<1>2. /\ Copied(n) \in Nat /\ Copied(n) <= n
      /\ Copied(n) = n \/ (Copied(n) = req.len /\ req.len < n)
      /\ done + Copied(n) <= req.len
  BY <1>1 DEF Copied, Remaining
<1>3. /\ done' = done + n /\ written' = done + Copied(n)
      /\ dest' = [i \in Buffer |-> IF i \in done .. done + Copied(n) - 1
                                   THEN src[i - done] ELSE dest[i]]
  BY DEF Deliver
<1>4. done' \in Nat /\ written' \in Nat /\ WritesInside'
  BY <1>1, <1>2, <1>3 DEF WritesInside
<1>5. dest' \in [Buffer -> Cell]
  <2>1. ASSUME NEW i \in Buffer, i \in done .. done + Copied(n) - 1
        PROVE  src[i - done] \in Cell
    <3>1. i - done \in 0 .. n - 1
      BY <1>1, <1>2, <2>1 DEF Buffer
    <3> QED BY <3>1
  <2> QED BY <1>1, <1>3, <2>1
<1>6. ReadInProgress'
  <2>1. CASE CacheInited
    <3>1. done' >= req'.len
      BY <1>1, <1>3, <2>1 DEF Remaining
    <3> QED BY <3>1 DEF ReadInProgress, Idle
  <2>2. CASE ~CacheInited
    BY <2>2 DEF IInv, ReadInProgress
  <2> QED BY <2>1, <2>2
<1>7. ServedRight'
  <2> SUFFICES ASSUME req.cached \/ ISOShift64 = 0,
                      NEW i \in 0 .. req.len - 1, i < done + n
               PROVE  dest'[i] = OnDisc(req.disc, req.off + i + ISOShift64)
    BY <1>3 DEF ServedRight, ReadRight
  <2>1. i \in Buffer /\ i \in Nat /\ i < req.len
    BY <1>1 DEF Buffer
  <2>2. CASE i < done
    <3>1. dest'[i] = dest[i]
      BY <1>1, <1>3, <2>1, <2>2
    <3> QED BY <2>2, <3>1 DEF IInv, ServedRight, ReadRight
  <2>3. CASE ~(i < done)
    <3>1. i \in done .. done + Copied(n) - 1 /\ i - done \in 0 .. n - 1
      BY <1>1, <1>2, <2>1, <2>3
    <3>2. dest'[i] = src[i - done]
      BY <1>3, <2>1, <3>1
    <3>3. src[i - done] = OnDisc(image, req.off + (done + (i - done)) + ISOShift64)
      BY <3>1
    <3>4. done + (i - done) = i
      BY <1>1, <2>1
    <3>5. req.disc = image
      BY DEF IInv, ReadInProgress
    <3> QED BY <3>2, <3>3, <3>4, <3>5
  <2> QED BY <2>2, <2>3
<1> QED BY <1>4, <1>5, <1>6, <1>7

-----------------------------------------------------------------------------
(* The actions                                                             *)

LEMMA InitIInv == Init => IInv
<1> SUFFICES ASSUME Init PROVE IInv
  OBVIOUS
<1>1. /\ Shifts \subseteq Nat /\ HeaderEnd \in Nat /\ MaxLength \in Nat
      /\ CACHE_MAX \in Nat \ {0} /\ DCacheLimit \in Nat
  BY IsoCacheAssumption
<1>2. /\ req = [disc |-> NoDisc, off |-> 0, len |-> 0, cached |-> TRUE]
      /\ req.len = 0 /\ done = 0 /\ Idle
  BY DEF Init, NoRead, Idle
<1>3. req \in Request
  <2>1. 0 \in 0 .. MaxLength /\ TRUE \in BOOLEAN
    BY <1>1
  <2> QED BY <1>2, <2>1 DEF Request
<1>4. TypeOK
  <2>1. DC \in [Slot -> Entry]
    BY DEF Init, Entry, EmptyEntry
  <2>2. mem \in [Area -> Cell] /\ dest \in [Buffer -> Cell]
    BY DEF Init, Junk, Cell
  <2>3. ISOShift64 \in Shifts /\ position \in Nat /\ LastOffset64 \in Nat
    BY <1>1, HeaderReadType DEF Init
  <2>4. CacheInited \in BOOLEAN
    BY Zenon DEF Init
  <2>5. /\ image \in Discs /\ TempCacheCount \in 0 .. CACHE_MAX
        /\ DataCacheOffset \in 0 .. DCacheLimit /\ done \in Nat /\ written \in Nat
    BY <1>1 DEF Init
  <2> QED BY <1>3, <2>1, <2>2, <2>3, <2>4, <2>5, Zenon DEF TypeOK
<1>5. PositionKnown /\ CacheCoherent /\ EntriesBelow /\ WritesInside
  <2>1. PositionKnown
    BY <1>1, HeaderReadType DEF Init, PositionKnown
  <2> QED BY <1>2, <2>1 DEF Init, CacheCoherent, EntriesBelow, WritesInside
<1>6. ReadInProgress /\ ServedRight
  BY <1>2 DEF ReadInProgress, ServedRight
<1> QED BY <1>4, <1>5, <1>6 DEF IInv

\* A portion without the cache: the pointer may be anywhere, and the data are
\* those of the game where it starts at the beginning of its image.
LEMMA UncachedIInv ==
    ASSUME IInv, Uncached
    PROVE  IInv'
<1> DEFINE n == IF Remaining > DI_READ_BUFFER_LENGTH THEN DI_READ_BUFFER_LENGTH ELSE Remaining
<1> DEFINE a == req.off + done
<1> DEFINE src == [j \in 0 .. n - 1 |-> Fetched(a, j)]
<1>1. /\ ~Idle /\ ~CacheInited
      /\ ISOReadDirect(a, n) /\ Deliver(n, src)
      /\ UNCHANGED <<ISOShift64, cache, req>>
  BY DEF Uncached
<1>2. TypeOK /\ PositionKnown
  BY DEF IInv
<1>3. /\ req.len \in Nat /\ req.off \in Nat /\ done \in Nat /\ done < req.len
      /\ ISOShift64 \in Nat /\ DI_READ_BUFFER_LENGTH \in Nat
  BY <1>1, <1>2, IsoCacheAssumption DEF TypeOK, Request, Idle
<1>4. a \in Nat /\ n \in Nat /\ n <= Remaining
  BY <1>3 DEF Remaining
<1>5. position' \in Nat /\ LastOffset64' \in Nat /\ image' = image /\ PositionKnown'
  <2> HIDE DEF a, n, src
  <2> QED BY <1>1, <1>2, <1>4, PositionKept
<1>6. \A j \in 0 .. n - 1 : src[j] = OnDisc(image, a + j) /\ src[j] \in Cell
  <2> SUFFICES ASSUME NEW j \in 0 .. n - 1 PROVE src[j] = OnDisc(image, a + j) /\ src[j] \in Cell
    OBVIOUS
  <2>1. j \in Nat /\ src[j] = Fetched(a, j)
    BY <1>4
  <2> HIDE DEF a, n, src
  <2> QED BY <1>2, <1>4, <2>1, FetchedRight
<1>7. ASSUME req.cached \/ ISOShift64 = 0
      PROVE  \A j \in 0 .. n - 1 : src[j] = OnDisc(image, req.off + (done + j) + ISOShift64)
  <2> SUFFICES ASSUME NEW j \in 0 .. n - 1
               PROVE  src[j] = OnDisc(image, req.off + (done + j) + ISOShift64)
    OBVIOUS
  <2>1. ISOShift64 = 0
    BY <1>1, <1>7 DEF IInv, ReadInProgress
  <2>2. a + j = req.off + (done + j) + ISOShift64
    BY <1>3, <1>4, <2>1
  <2> HIDE DEF n, src
  <2> QED BY <1>6, <2>2
<1>8. /\ dest' \in [Buffer -> Cell] /\ done' \in Nat /\ written' \in Nat
      /\ WritesInside' /\ ReadInProgress' /\ ServedRight'
  <2>1. UNCHANGED <<req, image, ISOShift64, CacheInited>>
    BY <1>1, <1>5 DEF cache
  <2> HIDE DEF a, n, src
  <2> QED BY <1>1, <1>4, <1>6, <1>7, <2>1, Delivered
<1>9. TypeOK'
  BY <1>1, <1>2, <1>5, <1>8 DEF TypeOK, cache
<1>10. CacheCoherent' /\ EntriesBelow'
  BY <1>1 DEF CacheCoherent, EntriesBelow, cache
<1> QED BY <1>5, <1>8, <1>9, <1>10 DEF IInv

\* A read that an entry holds: the entry is right, and holds all of it.
LEMMA HitIInv ==
    ASSUME IInv, NEW p \in Slot, Hit(p)
    PROVE  IInv'
<1> DEFINE o == req.off + done
<1> DEFINE n == Remaining
<1> DEFINE src == [j \in 0 .. n - 1 |-> mem[DC[p].Data + (o - DC[p].Offset) + j]]
<1>1. /\ ~Idle /\ CacheInited /\ Holds(p, o, n) /\ Deliver(n, src)
      /\ UNCHANGED <<ISOShift64, file, cache, req>>
  BY DEF Hit
<1>2. /\ TypeOK /\ CacheCoherent /\ done = 0 /\ req.disc = image
  BY <1>1 DEF IInv, ReadInProgress
<1>3. /\ req.len \in Nat /\ req.off \in Nat /\ req.len > 0 /\ ISOShift64 \in Nat
      /\ DCacheLimit \in Nat
  BY <1>1, <1>2, IsoCacheAssumption DEF TypeOK, Request, Idle
<1>4. o = req.off /\ n = req.len /\ n \in Nat
  BY <1>2, <1>3 DEF Remaining
<1>5. /\ DC[p].Data \in Nat /\ DC[p].Offset \in Nat /\ DC[p].Size \in Nat
      /\ DC[p].Data + DC[p].Size <= DCacheLimit
  BY <1>1, <1>2 DEF TypeOK, Entry, CacheCoherent
<1>6. o >= DC[p].Offset /\ o + n <= DC[p].Offset + DC[p].Size
  BY <1>1 DEF Holds
<1>7. ASSUME NEW j \in 0 .. n - 1
      PROVE  src[j] \in Cell /\ src[j] = OnDisc(image, req.off + (done + j) + ISOShift64)
  <2> DEFINE k == (o - DC[p].Offset) + j
  <2>1. k \in 0 .. DC[p].Size - 1 /\ j \in Nat
    BY <1>3, <1>4, <1>5, <1>6
  <2>2. /\ DC[p].Data + (o - DC[p].Offset) + j = DC[p].Data + k
        /\ DC[p].Offset + k + ISOShift64 = req.off + (done + j) + ISOShift64
        /\ DC[p].Data + k \in Area
    BY <1>2, <1>3, <1>4, <1>5, <2>1 DEF Area
  <2>3. src[j] = mem[DC[p].Data + k]
    BY <2>2
  <2>4. mem[DC[p].Data + k] = OnDisc(image, DC[p].Offset + k + ISOShift64)
    <3> HIDE DEF k
    <3> QED BY <1>1, <1>2, <2>1 DEF CacheCoherent
  <2>5. mem[DC[p].Data + k] \in Cell
    BY <1>2, <2>2 DEF TypeOK
  <2> QED BY <2>2, <2>3, <2>4, <2>5
<1>8. /\ dest' \in [Buffer -> Cell] /\ done' \in Nat /\ written' \in Nat
      /\ WritesInside' /\ ReadInProgress' /\ ServedRight'
  <2>1. UNCHANGED <<req, image, ISOShift64, CacheInited>>
    BY <1>1 DEF cache, file
  <2>2. n <= Remaining /\ Remaining <= n
    BY <1>4
  <2> HIDE DEF o, n, src
  <2> QED BY <1>1, <1>2, <1>4, <1>7, <2>1, <2>2, Delivered
<1>9. TypeOK'
  BY <1>1, <1>2, <1>8 DEF TypeOK, cache, file
<1>10. PositionKnown' /\ CacheCoherent' /\ EntriesBelow'
  BY <1>1 DEF IInv, PositionKnown, CacheCoherent, EntriesBelow, cache, file
<1> QED BY <1>8, <1>9, <1>10 DEF IInv

\* A read that no entry holds: the new entry does not touch what the others hold,
\* because it begins where they end or because they are all dropped.
LEMMA MissIInv ==
    ASSUME IInv, NEW m \in Lengths, Miss(m)
    PROVE  IInv'
<1> DEFINE o == req.off + done
<1> DEFINE a == o + ISOShift64
<1> DEFINE base == IF Full(m) THEN 0 ELSE DataCacheOffset
<1> DEFINE pos == IF Full(m) THEN 0 ELSE Wrapped(TempCacheCount)
<1> DEFINE new == [Offset |-> o, Size |-> m, Data |-> base]
<1> DEFINE src == [j \in 0 .. m - 1 |-> Fetched(a, j)]
<1>1. /\ ~Idle /\ CacheInited /\ Reads(o, Remaining, m)
      /\ TempCacheCount' = pos + 1 /\ DataCacheOffset' = base + m
      /\ ISOReadDirect(a, m) /\ Deliver(m, src)
      /\ UNCHANGED <<ISOShift64, CacheInited, req>>
  BY DEF Miss
<1>2. DC' = [IF Full(m) THEN EntriesDropped ELSE DC EXCEPT ![pos] = new]
  BY DEF Miss
<1>3. mem' = [x \in Area |-> IF x \in base .. base + m - 1 THEN Fetched(a, x - base) ELSE mem[x]]
  BY DEF Miss
<1>4. /\ TypeOK /\ PositionKnown /\ CacheCoherent /\ EntriesBelow
      /\ done = 0 /\ req.disc = image
  BY <1>1 DEF IInv, ReadInProgress
<1>5. /\ req.len \in Nat /\ req.len <= MaxLength /\ req.off \in Nat /\ req.len > 0
      /\ ISOShift64 \in Nat /\ DCacheLimit \in Nat /\ MaxLength \in Nat
      /\ CACHE_MAX \in Nat /\ CACHE_MAX > 0
      /\ TempCacheCount \in 0 .. CACHE_MAX /\ DataCacheOffset \in 0 .. DCacheLimit
  BY <1>1, <1>4, IsoCacheAssumption DEF TypeOK, Request, Idle
<1>6. o = req.off /\ a = o + ISOShift64 /\ a \in Nat /\ o \in Nat /\ Remaining \in 1 .. MaxLength
      /\ Remaining = req.len
  BY <1>4, <1>5 DEF Remaining
<1>7. m \in Nat /\ Remaining <= m /\ m <= DCacheLimit
  <2> HIDE DEF o
  <2> QED BY <1>1, <1>4, <1>6, ReadsBound
<1>8. base \in Nat /\ base + m <= DCacheLimit /\ pos \in Slot
  BY <1>5, <1>7 DEF Full, Wrapped, Slot
<1>9. position' \in Nat /\ LastOffset64' \in Nat /\ image' = image /\ PositionKnown'
  <2> HIDE DEF a, src
  <2> QED BY <1>1, <1>4, <1>6, <1>7, PositionKept
<1>10. ASSUME NEW j \in Nat
       PROVE  Fetched(a, j) = OnDisc(image, a + j) /\ Fetched(a, j) \in Cell
  <2> HIDE DEF a
  <2> QED BY <1>4, <1>6, FetchedRight
<1>11. /\ dest' \in [Buffer -> Cell] /\ done' \in Nat /\ written' \in Nat
       /\ WritesInside' /\ ReadInProgress' /\ ServedRight'
  <2>1. UNCHANGED <<req, image, ISOShift64, CacheInited>>
    BY <1>1, <1>9
  <2>2. ASSUME NEW j \in 0 .. m - 1
        PROVE  src[j] \in Cell /\ src[j] = OnDisc(image, req.off + (done + j) + ISOShift64)
    <3>1. j \in Nat /\ src[j] = Fetched(a, j)
      BY <1>7
    <3>2. a + j = req.off + (done + j) + ISOShift64
      BY <1>4, <1>5, <1>6, <3>1
    <3> HIDE DEF a, src
    <3> QED BY <1>10, <3>1, <3>2
  <2> HIDE DEF o, a, base, src
  <2> QED BY <1>1, <1>4, <1>7, <2>1, <2>2, Delivered DEF IInv
<1>12. mem' \in [Area -> Cell]
  <2>1. ASSUME NEW x \in Area, x \in base .. base + m - 1
        PROVE  Fetched(a, x - base) \in Cell
    <3>1. x - base \in Nat
      BY <1>7, <1>8, <2>1
    <3> HIDE DEF a, base
    <3> QED BY <1>10, <3>1
  <2> HIDE DEF a, base
  <2> QED BY <1>3, <1>4, <2>1 DEF TypeOK
\* What becomes of the entries.
<1>13. /\ DC'[pos] = new
       /\ \A q \in Slot \ {pos} :
             DC'[q] = IF Full(m) THEN [DC[q] EXCEPT !.Size = 0] ELSE DC[q]
       /\ DC' \in [Slot -> Entry]
  <2>1. new \in Entry
    BY <1>6, <1>7, <1>8 DEF Entry
  <2>2. \A q \in Slot : DC[q] \in Entry /\ [DC[q] EXCEPT !.Size = 0] \in Entry
    BY <1>4 DEF TypeOK, Entry
  <2>3. DC \in [Slot -> Entry]
    BY <1>4 DEF TypeOK
  <2> HIDE DEF new, pos
  <2> QED BY <1>2, <1>8, <2>1, <2>2, <2>3 DEF EntriesDropped
<1>14. ASSUME NEW q \in Slot \ {pos}
       PROVE  /\ DC[q].Size \in Nat /\ DC[q].Data \in Nat /\ DC[q].Offset \in Nat
              /\ DC[q].Data + DC[q].Size <= DCacheLimit
              /\ DC'[q].Data = DC[q].Data /\ DC'[q].Offset = DC[q].Offset
              /\ DC'[q].Size = IF Full(m) THEN 0 ELSE DC[q].Size
  <2>1. DC[q] \in Entry /\ DC[q].Data + DC[q].Size <= DCacheLimit
    BY <1>1, <1>4 DEF TypeOK, CacheCoherent
  <2>2. DC'[q] = IF Full(m) THEN [DC[q] EXCEPT !.Size = 0] ELSE DC[q]
    BY <1>13
  <2> QED BY <2>1, <2>2 DEF Entry
<1>15. DC'[pos].Offset = o /\ DC'[pos].Size = m /\ DC'[pos].Data = base
  BY <1>13
<1>16. EntriesBelow'
  <2> SUFFICES ASSUME NEW q \in Slot, DC'[q].Size # 0
               PROVE  DC'[q].Data + DC'[q].Size <= base + m
    BY <1>1 DEF EntriesBelow
  <2>1. CASE q = pos
    BY <1>7, <1>8, <1>15, <2>1
  <2>2. CASE q # pos
    <3>1. ~Full(m) /\ DC[q].Size # 0
      BY <1>14, <2>2
    <3>2. DC[q].Data + DC[q].Size <= DataCacheOffset
      BY <1>1, <1>4, <3>1 DEF EntriesBelow
    <3> QED BY <1>5, <1>7, <1>14, <2>2, <3>1, <3>2
  <2> QED BY <2>1, <2>2
<1>17. CacheCoherent'
  <2> SUFFICES ASSUME NEW q \in Slot
               PROVE  /\ DC'[q].Data + DC'[q].Size <= DCacheLimit
                      /\ \A j \in 0 .. DC'[q].Size - 1 :
                            mem'[DC'[q].Data + j] = OnDisc(image, DC'[q].Offset + j + ISOShift64)
    BY <1>1, <1>9 DEF CacheCoherent
  <2>1. CASE q = pos
    <3>1. DC'[q].Data + DC'[q].Size <= DCacheLimit
      BY <1>8, <1>15, <2>1
    <3>2. ASSUME NEW j \in 0 .. m - 1
          PROVE  mem'[base + j] = OnDisc(image, o + j + ISOShift64)
      <4>1. /\ base + j \in Area /\ base + j \in base .. base + m - 1
            /\ (base + j) - base = j /\ j \in Nat
        BY <1>5, <1>7, <1>8 DEF Area
      <4>2. a + j = o + j + ISOShift64
        BY <1>5, <1>6, <4>1
      <4> HIDE DEF a, base
      <4>3. mem'[base + j] = Fetched(a, j)
        BY <1>3, <4>1
      <4> QED BY <1>10, <4>1, <4>2, <4>3
    <3> HIDE DEF base, o
    <3> QED BY <1>15, <2>1, <3>1, <3>2
  <2>2. CASE q # pos
    <3>1. DC'[q].Data + DC'[q].Size <= DCacheLimit
      BY <1>5, <1>14, <2>2
    <3>2. ASSUME NEW j \in 0 .. DC'[q].Size - 1
          PROVE  mem'[DC'[q].Data + j] = OnDisc(image, DC'[q].Offset + j + ISOShift64)
      <4>1. ~Full(m) /\ DC[q].Size # 0 /\ DC'[q].Size = DC[q].Size /\ j \in 0 .. DC[q].Size - 1
        BY <1>14, <2>2, <3>2
      <4>2. DC[q].Data + DC[q].Size <= DataCacheOffset
        BY <1>1, <1>4, <4>1 DEF EntriesBelow
      <4>3. DC[q].Data + j \in Area /\ DC[q].Data + j \notin base .. base + m - 1
        BY <1>5, <1>7, <1>14, <2>2, <4>1, <4>2 DEF Area
      <4>4. mem'[DC[q].Data + j] = mem[DC[q].Data + j]
        <5> HIDE DEF a, base
        <5> QED BY <1>3, <4>3
      <4>5. mem[DC[q].Data + j] = OnDisc(image, DC[q].Offset + j + ISOShift64)
        BY <1>1, <1>4, <4>1 DEF CacheCoherent
      <4> QED BY <1>14, <2>2, <4>4, <4>5
    <3> QED BY <3>1, <3>2
  <2> QED BY <2>1, <2>2
<1>18. TypeOK'
  <2>1. TempCacheCount' \in 0 .. CACHE_MAX /\ DataCacheOffset' \in 0 .. DCacheLimit
    BY <1>1, <1>5, <1>7, <1>8 DEF Slot
  <2>2. /\ ISOShift64' \in Shifts /\ image' \in Discs /\ req' \in Request
    BY <1>1, <1>4, <1>9 DEF TypeOK
  <2>3. CacheInited' \in BOOLEAN
    BY <1>1, <1>4, Zenon DEF TypeOK
  <2> QED BY <1>9, <1>11, <1>12, <1>13, <2>1, <2>2, <2>3, Zenon DEF TypeOK
<1> QED BY <1>9, <1>11, <1>16, <1>17, <1>18 DEF IInv

\* A disc change: the entries stay, and the cache that held them is gone.
LEMMA ISOInitIInv ==
    ASSUME IInv, NEW d \in Discs, ISOInit(d)
    PROVE  IInv'
<1>1. /\ Idle /\ image' = d /\ CacheInited' = FALSE
      /\ position' = HeaderRead(d, ISOShift64) /\ LastOffset64' = HeaderEnd + ISOShift64
      /\ UNCHANGED <<ISOShift64, DC, TempCacheCount, DataCacheOffset, mem, req, done, buffer>>
  BY DEF ISOInit
<1>2. TypeOK /\ WritesInside /\ ServedRight
  BY DEF IInv
<1>3. /\ HeaderRead(d, ISOShift64) \in Nat /\ HeaderEnd + ISOShift64 \in Nat
      /\ d \notin Ciso => HeaderRead(d, ISOShift64) = HeaderEnd + ISOShift64
  <2>1. ISOShift64 \in Nat
    BY <1>2, IsoCacheAssumption DEF TypeOK
  <2> QED BY <2>1, HeaderReadType, IsoCacheAssumption
<1>4. TypeOK'
  <2>1. CacheInited' \in BOOLEAN
    BY <1>1, Zenon
  <2>2. position' \in Nat /\ LastOffset64' \in Nat
    BY <1>1, <1>3
  <2> QED BY <1>1, <1>2, <2>1, <2>2, Zenon DEF TypeOK, buffer
<1>5. PositionKnown' /\ CacheCoherent' /\ EntriesBelow'
  BY <1>1, <1>3 DEF PositionKnown, CacheCoherent, EntriesBelow
<1>6. WritesInside' /\ ReadInProgress' /\ ServedRight'
  BY <1>1, <1>2 DEF WritesInside, ReadInProgress, ServedRight, ReadRight, Idle, buffer
<1> QED BY <1>4, <1>5, <1>6 DEF IInv

LEMMA DiscReadAsyncIInv ==
    ASSUME IInv, NEW o \in Offsets, NEW n \in 1 .. MaxLength, DiscReadAsync(o, n)
    PROVE  IInv'
<1>1. /\ req' = [disc |-> image, off |-> o, len |-> n, cached |-> CacheInited]
      /\ done' = 0 /\ written' = 0 /\ dest' = [i \in Buffer |-> Junk]
      /\ UNCHANGED <<ISOShift64, file, cache>>
  BY DEF DiscReadAsync
<1>2. TypeOK /\ PositionKnown /\ CacheCoherent /\ EntriesBelow
  BY DEF IInv
<1>3. n \in Nat /\ n > 0 /\ n <= MaxLength /\ MaxLength \in Nat /\ o \in Nat
  BY IsoCacheAssumption
<1>4. TypeOK'
  <2>1. req' \in Request
    <3>1. image \in Discs \cup {NoDisc} /\ CacheInited \in BOOLEAN
      BY <1>2, Zenon DEF TypeOK
    <3>2. n \in 0 .. MaxLength
      BY <1>3
    <3> QED BY <1>1, <1>3, <3>1, <3>2, Zenon DEF Request
  <2>2. dest' \in [Buffer -> Cell]
    BY <1>1 DEF Junk, Cell
  <2>3. done' \in Nat /\ written' \in Nat
    BY <1>1
  <2> QED BY <1>1, <1>2, <2>1, <2>2, <2>3, Zenon DEF TypeOK, file, cache
<1>5. PositionKnown' /\ CacheCoherent' /\ EntriesBelow'
  BY <1>1, <1>2 DEF PositionKnown, CacheCoherent, EntriesBelow, file, cache
<1>6. req'.disc = image /\ req'.cached = CacheInited /\ req'.len = n
  BY <1>1
<1>7. WritesInside'
  BY <1>1, <1>3, <1>6 DEF WritesInside
<1>8. ReadInProgress'
  BY <1>1, <1>6 DEF ReadInProgress, file, cache
<1>9. ServedRight'
  BY <1>1 DEF ServedRight
<1> QED BY <1>4, <1>5, <1>7, <1>8, <1>9 DEF IInv

LEMMA ISOSeekIInv ==
    ASSUME IInv, NEW o \in Offsets, ISOSeek(o)
    PROVE  IInv'
<1>1. /\ position' = IF image \in Ciso THEN Physical(image, o + ISOShift64) ELSE o + ISOShift64
      /\ LastOffset64' = o + ISOShift64
      /\ UNCHANGED <<ISOShift64, image, cache, req, done, buffer>>
  BY DEF ISOSeek
<1>2. TypeOK
  BY DEF IInv
<1>3. o + ISOShift64 \in Nat
  BY <1>2, IsoCacheAssumption DEF TypeOK
<1>4. TypeOK' /\ PositionKnown'
  <2>1. position' \in Nat /\ LastOffset64' \in Nat
    BY <1>1, <1>3, PhysicalType
  <2> QED BY <1>1, <1>2, <2>1 DEF TypeOK, PositionKnown, cache, buffer
<1>5. CacheCoherent' /\ EntriesBelow' /\ WritesInside'
  BY <1>1 DEF IInv, CacheCoherent, EntriesBelow, WritesInside, cache, buffer
<1>6. ReadInProgress' /\ ServedRight'
  BY <1>1 DEF IInv, ReadInProgress, ServedRight, ReadRight, Idle, cache, buffer
<1> QED BY <1>4, <1>5, <1>6 DEF IInv

LEMMA ISOSetupCacheIInv ==
    ASSUME IInv, ISOSetupCache
    PROVE  IInv'
<1>1. /\ Idle /\ CacheInited' = TRUE /\ DC' = [p \in Slot |-> EmptyEntry]
      /\ TempCacheCount' = 0 /\ DataCacheOffset' = 0
      /\ UNCHANGED <<ISOShift64, file, mem, req, done, buffer>>
  BY DEF ISOSetupCache
<1>2. TypeOK /\ CACHE_MAX \in Nat /\ DCacheLimit \in Nat
  BY IsoCacheAssumption DEF IInv
<1>3. TypeOK'
  <2>1. CacheInited' \in BOOLEAN
    BY <1>1, Zenon
  <2>2. DC' \in [Slot -> Entry]
    BY <1>1 DEF EmptyEntry, Entry
  <2>3. TempCacheCount' \in 0 .. CACHE_MAX /\ DataCacheOffset' \in 0 .. DCacheLimit
    BY <1>1, <1>2
  <2> QED BY <1>1, <1>2, <2>1, <2>2, <2>3, Zenon DEF TypeOK, file, buffer
<1>4. \A p \in Slot : DC'[p].Size = 0 /\ DC'[p].Data = 0
  BY <1>1 DEF EmptyEntry
<1>5. CacheCoherent' /\ EntriesBelow'
  BY <1>2, <1>4 DEF CacheCoherent, EntriesBelow
<1>6. PositionKnown' /\ WritesInside'
  BY <1>1 DEF IInv, PositionKnown, WritesInside, file, buffer
<1>7. ReadInProgress' /\ ServedRight'
  BY <1>1 DEF IInv, ReadInProgress, ServedRight, ReadRight, Idle, file, buffer
<1> QED BY <1>3, <1>5, <1>6, <1>7 DEF IInv

LEMMA NextIInv == IInv /\ [Next]_vars => IInv'
<1> SUFFICES ASSUME IInv, [Next]_vars PROVE IInv'
  OBVIOUS
<1>1. CASE ISORead
  BY <1>1, UncachedIInv, HitIInv, MissIInv DEF ISORead
<1>2. CASE \E d \in Discs : ISOInit(d)
  BY <1>2, ISOInitIInv
<1>3. CASE \E o \in Offsets, n \in 1 .. MaxLength : DiscReadAsync(o, n)
  BY <1>3, DiscReadAsyncIInv
<1>4. CASE \E o \in Offsets : ISOSeek(o)
  BY <1>4, ISOSeekIInv
<1>5. CASE ISOSetupCache
  BY <1>5, ISOSetupCacheIInv
<1>6. CASE UNCHANGED vars
  <2>1. UNCHANGED <<ISOShift64, image, position, LastOffset64, CacheInited, DC, TempCacheCount,
                    DataCacheOffset, mem, req, done, dest, written>>
    BY <1>6 DEF vars, file, cache, buffer
  <2> QED BY <2>1 DEF IInv, TypeOK, PositionKnown, CacheCoherent, EntriesBelow, WritesInside,
             ReadInProgress, ServedRight, ReadRight, Idle
<1> QED BY <1>1, <1>2, <1>3, <1>4, <1>5, <1>6 DEF Next

-----------------------------------------------------------------------------
(* The theorems                                                            *)

\* The strengthened invariant of the reader holds in every reachable state.
THEOREM IsoInvariant == Spec => []IInv
BY InitIInv, NextIInv, PTL DEF Spec

\* Types: in particular the cache never fills beyond its data area.
THEOREM IsoTypes == Spec => []TypeOK
<1>1. IInv => TypeOK
  BY DEF IInv
<1> QED BY <1>1, IsoInvariant, PTL

\* Whatever the direct reader, a seek or a disc change did, ISO.c knows where the
\* file pointer is when it skips a seek.
THEOREM IsoPositionKnown == Spec => []PositionKnown
<1>1. IInv => PositionKnown
  BY DEF IInv
<1> QED BY <1>1, IsoInvariant, PTL

\* The cache holds the data of the open image through replacement, read-ahead and
\* disc changes, for every number of entries and size of the data area.
THEOREM IsoCacheCoherent == Spec => []CacheCoherent
<1>1. IInv => CacheCoherent
  BY DEF IInv
<1> QED BY <1>1, IsoInvariant, PTL

\* Every read that is over has delivered the game's own data.
THEOREM IsoReadsDisc == Spec => []ReadsDisc
<1>1. IInv => ReadsDisc
  <2> SUFFICES ASSUME IInv, Idle, req.cached \/ ISOShift64 = 0, NEW i \in 0 .. req.len - 1
               PROVE  ReadRight(i)
    BY DEF ReadsDisc
  <2>1. req.len \in Nat /\ done \in Nat /\ MaxLength \in Nat
    BY IsoCacheAssumption DEF IInv, TypeOK, Request
  <2>2. i < done
    BY <2>1 DEF Idle
  <2> QED BY <2>2 DEF IInv, ServedRight
<1> QED BY <1>1, IsoInvariant, PTL

\* No read writes behind the end of the game's buffer, however far it reads ahead.
THEOREM IsoWritesInside == Spec => []WritesInside
<1>1. IInv => WritesInside
  BY DEF IInv
<1> QED BY <1>1, IsoInvariant, PTL
================================================================================
