------------------------------- MODULE MemCard -------------------------------
(***************************************************************************)
(* The emulated memory cards: the images and dirty ranges of GCNCard.c and *)
(* the main loop of main.c that decides when they are written to the       *)
(* storage device.  Offsets count cells (the code counts bytes); a write   *)
(* gives every cell it touches the same content.                           *)
(*                                                                         *)
(* Everything below runs on the kernel's main thread, one handler after    *)
(* the other; the game on the other processor only decides what the        *)
(* handlers find in the registers.                                         *)
(***************************************************************************)
EXTENDS Integers

CONSTANTS
    CardSize,     \* CardSize[s]: cells of the card in slot s, 0 when disabled
    SysEnd,       \* first cell after the system area (0xA000)
    NoOffset,     \* the low offset of an empty dirty range (0xFFFFFFFF)
    Content,      \* what a cell may hold
    Lengths,      \* lengths of a DMA write
    SaveDelay,    \* seconds a change must be older than (2)
    StorageFails  \* may f_open of a card file fail?

Slots == 0 .. 1                   \* slot A and slot B
Cells(s) == 0 .. CardSize[s] - 1
IsEnabled(s) == CardSize[s] > 0

ASSUME MemCardAssumption ==
    /\ CardSize \in [Slots -> Nat]
    /\ SysEnd \in Nat /\ NoOffset \in Nat /\ SaveDelay \in Nat
    /\ \A s \in Slots : CardSize[s] <= NoOffset
    /\ SysEnd <= NoOffset
    /\ Lengths \subseteq Nat \ {0}
    /\ StorageFails \in BOOLEAN

VARIABLES
    mem,             \* mem[s]: the card image in RAM
    file,            \* file[s]: the card file on the storage device
    changed, changed_system, BlockOffLow, BlockOffHigh,   \* GCNCard_ctx
    SaveCard,        \* a save is due
    sinceNow,        \* seconds since Now, capped above SaveDelay
    DI_IRQ,          \* a disc command is in progress
    pc,              \* where the main loop is
    quiet            \* history: seconds since the game wrote a card, capped

ctx == <<changed, changed_system, BlockOffLow, BlockOffHigh>>
vars == <<mem, file, ctx, SaveCard, sinceNow, DI_IRQ, pc, quiet>>

ImagesOK ==
    /\ mem = [s \in Slots |-> mem[s]] /\ file = [s \in Slots |-> file[s]]
    /\ \A s \in Slots : /\ mem[s] \in [Cells(s) -> Content]
                        /\ file[s] \in [Cells(s) -> Content]

ContextsOK ==
    /\ changed \in [Slots -> BOOLEAN]
    /\ changed_system \in [Slots -> BOOLEAN]
    /\ BlockOffLow \in [Slots -> 0 .. NoOffset]
    /\ BlockOffHigh \in [Slots -> 0 .. NoOffset]

LoopOK ==
    /\ SaveCard \in BOOLEAN
    /\ sinceNow \in 0 .. SaveDelay + 1
    /\ DI_IRQ \in BOOLEAN
    /\ pc \in {"top", "registers", "check", "reset", "exited"}
    /\ quiet \in 0 .. SaveDelay + 1

TypeOK == ImagesOK /\ ContextsOK /\ LoopOK

-----------------------------------------------------------------------------
(* GCNCard.c                                                               *)

\* The cells the context remembers as unsaved, which GCNCard_Save copies.
\* The slip TrackedElse: "else if" for the general area.
TrackedElse(s, a) ==
    IF changed_system[s] THEN a < SysEnd ELSE BlockOffLow[s] <= a /\ a < BlockOffHigh[s]

Tracked(s, a) ==
    \/ a < SysEnd /\ changed_system[s]
    \/ BlockOffLow[s] <= a /\ a < BlockOffHigh[s]

\* GCNCard_Load: the image is the file and nothing is marked.
Loaded(image) ==
    /\ mem' = image
    /\ changed' = [s \in Slots |-> FALSE]
    /\ changed_system' = [s \in Slots |-> FALSE]
    /\ BlockOffLow' = [s \in Slots |-> NoOffset]
    /\ BlockOffHigh' = [s \in Slots |-> 0]

\* The dirty range after a write at off that is not wholly in the system area.
\* (Slip: a write that reaches into the system area from the range's old start only is
\* flagged.)
HighAfter(s, off, len) ==
    IF off + len > BlockOffHigh[s] THEN off + len ELSE BlockOffHigh[s]

LowUnclamped(s, off) == IF off < BlockOffLow[s] THEN off ELSE BlockOffLow[s]
LowAfter(s, off) ==
    IF LowUnclamped(s, off) < SysEnd THEN SysEnd ELSE LowUnclamped(s, off)

OldLowInSystem(s, off) == BlockOffLow[s] < SysEnd
TouchesSystem(s, off) == off < SysEnd \/ BlockOffLow[s] < SysEnd

\* The game learns the card's size from its code, so its pages lie in the card.
GCNCard_Write(s, off, len, c) ==
    LET inSystem == off < SysEnd /\ off + len < SysEnd
    IN  /\ IsEnabled(s) /\ off + len <= CardSize[s]
        /\ changed' = [changed EXCEPT ![s] = TRUE]
        /\ changed_system' = [changed_system EXCEPT ![s] =
               @ \/ inSystem \/ TouchesSystem(s, off)]
        /\ BlockOffLow' = [BlockOffLow EXCEPT ![s] =
               IF inSystem THEN @ ELSE LowAfter(s, off)]
        /\ BlockOffHigh' = [BlockOffHigh EXCEPT ![s] =
               IF inSystem THEN @ ELSE HighAfter(s, off, len)]
        /\ mem' = [mem EXCEPT ![s] =
               [a \in Cells(s) |-> IF off <= a /\ a < off + len THEN c ELSE mem[s][a]]]

NeedsSave(s) ==
    IsEnabled(s) /\ (changed_system[s] \/ BlockOffLow[s] < BlockOffHigh[s])

\* opened: the slots whose card file could be opened.  The marks are reset in
\* either case.
GCNCard_Save(opened) ==
    /\ file' = [s \in Slots |->
           IF NeedsSave(s) /\ s \in opened
           THEN [a \in Cells(s) |-> IF Tracked(s, a) THEN mem[s][a] ELSE file[s][a]]
           ELSE file[s]]
    /\ BlockOffLow' = [s \in Slots |-> IF NeedsSave(s) THEN NoOffset ELSE BlockOffLow[s]]
    /\ BlockOffHigh' = [s \in Slots |-> IF NeedsSave(s) THEN 0 ELSE BlockOffHigh[s]]
    /\ changed_system' = [s \in Slots |-> changed_system[s] /\ ~NeedsSave(s)]
    /\ UNCHANGED <<mem, changed>>

\* The card files f_open_char manages to open in one save.
Openable == IF StorageFails THEN SUBSET Slots ELSE {Slots}

-----------------------------------------------------------------------------
(* main.c: one iteration of the loop is LoopTop, LoopRegisters,             *)
(* LoopCheckChanges, LoopReset.                                            *)

Goto(from, to) == pc = from /\ pc' = to

\* The disc command finishes, or a due save is made, or neither.
DiscDone ==
    /\ Goto("top", "registers")
    /\ DI_IRQ /\ DI_IRQ' = FALSE
    /\ UNCHANGED <<mem, file, ctx, SaveCard, sinceNow, quiet>>

DueSave ==
    /\ Goto("top", "registers")
    /\ ~DI_IRQ /\ SaveCard /\ sinceNow > SaveDelay
    /\ \E opened \in Openable : GCNCard_Save(opened)
    /\ SaveCard' = FALSE
    /\ UNCHANGED <<sinceNow, DI_IRQ, quiet>>

NothingDue ==
    /\ Goto("top", "registers")
    /\ DI_IRQ \/ ~SaveCard \/ sinceNow <= SaveDelay
    /\ UNCHANGED <<mem, file, ctx, SaveCard, sinceNow, DI_IRQ, quiet>>

LoopTop == DiscDone \/ DueSave \/ NothingDue

\* DIUpdateRegisters may accept a disc command; then EXIUpdateRegistersNEW
\* takes at most one command, here a page for a card or none that writes.
DiscCommand == DI_IRQ' \in {DI_IRQ, TRUE}

CardWrite(s) ==
    /\ Goto("registers", "check")
    /\ DiscCommand
    /\ \E off \in Cells(s), len \in Lengths, c \in Content : GCNCard_Write(s, off, len, c)
    /\ quiet' = 0
    /\ UNCHANGED <<file, SaveCard, sinceNow>>

NoCardWrite ==
    /\ Goto("registers", "check")
    /\ DiscCommand
    /\ UNCHANGED <<mem, file, ctx, SaveCard, sinceNow, quiet>>

LoopRegisters == NoCardWrite \/ \E s \in Slots : CardWrite(s)

\* GCNCard_CheckChanges looks at every slot, and the save is put off again.
\* Slips: only slot A is asked, the flags are kept, a pending save is not put off.
ChangedInSlotA == changed[0]
CardsChanged == \E s \in Slots : changed[s]
KeepChanged == UNCHANGED changed
ClearChanged == changed' = [s \in Slots |-> FALSE]
FirstChangeCounts == SaveCard' = TRUE /\ sinceNow' = IF SaveCard THEN sinceNow ELSE 0
ScheduleSave == SaveCard' = TRUE /\ sinceNow' = 0

LoopCheckChanges ==
    /\ Goto("check", "reset")
    /\ ClearChanged
    /\ IF CardsChanged THEN ScheduleSave ELSE UNCHANGED <<SaveCard, sinceNow>>
    /\ UNCHANGED <<mem, file, changed_system, BlockOffLow, BlockOffHigh, DI_IRQ, quiet>>

NoReset ==
    /\ Goto("reset", "top")
    /\ UNCHANGED <<mem, file, ctx, SaveCard, sinceNow, DI_IRQ, quiet>>

\* EXIShutdown saves, whether or not the delay is over (the slip
\* ShutdownWhenDue: only if it is).
ShutdownWhenDue ==
    IF SaveCard /\ sinceNow > SaveDelay
    THEN \E opened \in Openable : GCNCard_Save(opened) ELSE UNCHANGED <<mem, file, ctx>>
EXIShutdown == \E opened \in Openable : GCNCard_Save(opened)

\* Game exit or the power button: DIFinishAsync, then EXIShutdown.
ExitGame ==
    /\ Goto("reset", "exited")
    /\ DI_IRQ' = FALSE
    /\ EXIShutdown
    /\ UNCHANGED <<SaveCard, sinceNow, quiet>>

LoopReset == NoReset \/ ExitGame

MainLoop == LoopTop \/ LoopRegisters \/ LoopCheckChanges \/ LoopReset

\* A second passes; the ages are capped.
Older(age) == IF age > SaveDelay THEN age ELSE age + 1
Tick ==
    /\ pc # "exited"
    /\ sinceNow' = Older(sinceNow) /\ quiet' = Older(quiet)
    /\ UNCHANGED <<mem, file, ctx, SaveCard, DI_IRQ, pc>>

\* The kernel starts again, after a clean exit or because the power was cut.
Boot ==
    /\ Loaded(file)
    /\ pc' = "top" /\ SaveCard' = FALSE /\ sinceNow' = 0 /\ DI_IRQ' = FALSE
    /\ quiet' = SaveDelay + 1
    /\ UNCHANGED file

Init ==
    /\ \E slotA \in [Cells(0) -> Content], slotB \in [Cells(1) -> Content] :
           file = [s \in Slots |-> IF s = 0 THEN slotA ELSE slotB]
    /\ mem = file
    /\ changed = [s \in Slots |-> FALSE]
    /\ changed_system = [s \in Slots |-> FALSE]
    /\ BlockOffLow = [s \in Slots |-> NoOffset]
    /\ BlockOffHigh = [s \in Slots |-> 0]
    /\ SaveCard = FALSE /\ sinceNow = 0 /\ DI_IRQ = FALSE /\ pc = "top"
    /\ quiet = SaveDelay + 1

Next == MainLoop \/ Tick \/ Boot

\* The loop never stops and time passes.  Nothing is assumed of the disc drive.
Fairness == WF_vars(MainLoop) /\ WF_vars(Tick)

Spec == Init /\ [][Next]_vars /\ Fairness

-----------------------------------------------------------------------------
(* Properties                                                              *)

\* Every cell of a card that differs from the card file is one the context
\* remembers as unsaved, so the next GCNCard_Save writes it.
DirtyCovered ==
    \A s \in Slots : \A a \in Cells(s) : mem[s][a] # file[s][a] => Tracked(s, a)

\* The dirty range never reaches into the system area (GCNCard.c:21), which has
\* a flag of its own: no save writes a cell twice.
LowAboveSystem == \A s \in Slots : BlockOffLow[s] >= SysEnd

\* Whenever a card holds unsaved data, a save is due or the loop is about to
\* schedule one: no write can slip between CheckChanges and the end of a save.
DirtyScheduled ==
    (\E s \in Slots : mem[s] # file[s]) => SaveCard \/ \E s \in Slots : changed[s]

\* A clean exit (0x1DEA, 0x7DEA or the power button) loses nothing, however
\* long the game had been writing and whatever the disc drive was doing.
CleanExit == pc = "exited" => file = mem

\* The loop writes the cards only when the game has been silent for more than
\* SaveDelay seconds: a save that begins while the game is still writing a file
\* would leave half of it on the device.
DebouncedSave ==
    [][SaveCard /\ ~SaveCard' /\ pc' = "registers" => quiet > SaveDelay]_vars

\* With a device that works, the dirty ranges are invisible: the kernel behaves
\* as if each save copied whole images.
Store == INSTANCE CardStore WITH
    CardSlot <- Slots,
    CardImage <- [s \in Slots |-> [Cells(s) -> Content]],
    image <- mem, durable <- file
ImplementsCardStore == Store!CSpec

\* Once the game stops writing, and as long as the disc drive is idle again and
\* again when the loop comes round, everything it wrote reaches the device.
EventuallySaved ==
    <>[](quiet > SaveDelay) /\ []<>(pc = "top" /\ ~DI_IRQ) => <>[](file = mem)
=============================================================================
