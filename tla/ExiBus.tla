-------------------------------- MODULE ExiBus --------------------------------
(***************************************************************************)
(* The EXI mailbox between the game (PPC) and the kernel (ARM): the game's *)
(* EXISelect, EXIImm and EXIDMA (kernel/asm) store a pointer or a word in  *)
(* EXI_CMD_1 and a command in EXI_CMD_0 and spin until EXI_CMD_0 changes;  *)
(* EXIUpdateRegistersNEW takes the command, hands it to the memory card or *)
(* to the umbra device and clears EXI_CMD_0.  A transfer ends with an      *)
(* interrupt, whose handler on the PPC issues commands of its own, in the  *)
(* middle of whatever the game's threads were doing: EXILock.S grants every *)
(* lock.  The channels here are those of the two card slots.               *)
(***************************************************************************)
EXTENDS Integers, Sequences

CONSTANTS
    Slot,      \* the slots the game uses, a part of {0, 1}
    Page,      \* page addresses of a card
    PageContent, \* what a page may hold
    GZ,        \* the contents that begin with "GZ", UMBRA_MAGIC
    Setting,   \* what the settings file may hold
    Short,     \* the settings whose write fits a DMA of 32 bytes
    Overlap,   \* may umbra commands be sent while a card transfer is pending?
    MaxCard,   \* bound: card transfers the game starts
    MaxUmbra   \* bound: umbra commands it sends

ASSUME ExiBusAssumption ==
    /\ Slot \subseteq {0, 1}
    /\ GZ \subseteq PageContent /\ Short \subseteq Setting
    /\ Setting \cap {"ok", "error", "none", "zeros", "torn"} = {}
    /\ Overlap \in BOOLEAN /\ MaxCard \in Nat /\ MaxUmbra \in Nat

VARIABLES
    cmd0, cmd1,              \* EXI_CMD_0 and what EXI_CMD_1 holds or points to
    handling,                \* the command EXIUpdateRegistersNEW has read
    EXI_IRQ, IRQ_Cause,      \* an interrupt is due, with these causes
    EXICommand, BlockOff,    \* the card protocol, per channel and slot
    card,                    \* the card images
    umbra_pending_read, umbra_cmd, umbra_last_status, settings,
    exiInt, cause,           \* raised interrupt and its causes (0x10, 0x14)
    prog, stage,             \* per PPC context: commands left to issue
    waiting,                 \* per slot: the transfer the game waits for
    buffer,                  \* per slot: what the game's page buffer holds
    shadow,                  \* history: what the game believes the card holds
    asked, answer,           \* the umbra command last sent and what was read for it
    lost,                    \* history: the change it made did not all reach the medium
    issued                   \* transfers and umbra commands so far

mailbox == <<cmd0, cmd1>>
dev == <<EXICommand, BlockOff, card, umbra_pending_read, umbra_cmd, umbra_last_status, settings>>
irq == <<EXI_IRQ, IRQ_Cause>>
line == <<exiInt, cause>>
ppc == <<prog, stage>>
game == <<waiting, shadow, asked, answer, lost, issued>>
exi_vars == <<mailbox, handling, irq, dev, line, ppc, buffer, game>>

Channel == Slot \cup {0}        \* umbra's commands go to channel 0 even without a card there
Context == {"main", "isr"}      \* the game's thread and its EXI interrupt handler

NoCmd == [op |-> "none", chn |-> 0, mode |-> "w"]
Word(op, chn, mode) == [op |-> op, chn |-> chn, mode |-> mode]
Words == {NoCmd} \cup [op : {"select", "imm", "dma"}, chn : Channel, mode : {"w", "r"}]

\* The umbra client's commands about settings, and those that change the file.
Changes == ({"write"} \X Setting) \cup {<<"delete", 0>>}
Requests == Changes \cup {<<"read", 0>>}
NoRequest == <<"none", 0>>

\* What EXI_CMD_1 may hold or point to: a word of the card protocol, a page, an
\* umbra command, a buffer to fill, a result.
Args == (({"F1", "F2", "52"} \X Page) \cup ({"page"} \X PageContent)
         \cup ({"umbra"} \X Requests) \cup ({"8300", "umbrabuf", "result"} \X {0})
         \cup ({"pagebuf"} \X Slot))
Step(word, arg) == [word |-> word, arg |-> arg]

Statuses == {"ok", "error"}
NoFile == "none"

-----------------------------------------------------------------------------
(* The game: the command sequences of the CARD library and of the umbra    *)
(* client, as the kernel's decoders expect them (external).                *)

NoTransfer == [op |-> "none", page |-> 0, content |-> 0]
Transfers ==
    [op : {"write"}, page : Page, content : PageContent]
    \cup [op : {"read", "erase"}, page : Page, content : {0}]

Select(s) == Step(Word("select", s, "w"), <<"result", 0>>)
Program(s, t) ==
    CASE t.op = "write" -> << Select(s), Step(Word("imm", s, "w"), <<"F2", t.page>>),
                              Step(Word("dma", s, "w"), <<"page", t.content>>) >>
      [] t.op = "read"  -> << Select(s), Step(Word("imm", s, "w"), <<"52", t.page>>),
                              Step(Word("dma", s, "r"), <<"pagebuf", s>>) >>
      [] t.op = "erase" -> << Select(s), Step(Word("imm", s, "w"), <<"F1", t.page>>) >>

\* After the interrupt the library reads the card's status.
StatusProgram(s) ==
    << Select(s), Step(Word("imm", s, "w"), <<"8300", 0>>),
       Step(Word("imm", s, "r"), <<"result", 0>>) >>

UmbraProgram(q) ==
    << Step(Word("dma", 0, "w"), <<"umbra", q>>), Step(Word("dma", 0, "r"), <<"umbrabuf", 0>>) >>

Active(c) == prog[c] # <<>>
Runs(c) == Active(c) /\ (c = "main" => ~Active("isr"))   \* the handler preempts

\* EXISelect.S does not touch EXI_CMD_1; EXIImm.S and EXIDMA.S store it first.
StoreArg(c) ==
    /\ Runs(c) /\ stage[c] = "arg"
    /\ stage' = [stage EXCEPT ![c] = "cmd"]
    /\ cmd1' = IF Head(prog[c]).word.op = "select" THEN cmd1 ELSE Head(prog[c]).arg
    /\ UNCHANGED <<cmd0, handling, irq, dev, line, prog, buffer, game>>

StoreCmd(c) ==
    /\ Runs(c) /\ stage[c] = "cmd"
    /\ stage' = [stage EXCEPT ![c] = "spin"]
    /\ cmd0' = Head(prog[c]).word
    /\ UNCHANGED <<cmd1, handling, irq, dev, line, prog, buffer, game>>

\* ready_loop: leaves as soon as EXI_CMD_0 is not the word it stored.
SpinEnds(c) ==
    /\ Runs(c) /\ stage[c] = "spin"
    /\ cmd0 # Head(prog[c]).word
    /\ prog' = [prog EXCEPT ![c] = Tail(@)]
    /\ stage' = [stage EXCEPT ![c] = "arg"]
    /\ UNCHANGED <<mailbox, handling, irq, dev, line, buffer, game>>

StartTransfer(c, s, t) ==
    /\ issued[1] < MaxCard
    /\ issued' = <<issued[1] + 1, issued[2]>>
    /\ waiting' = [waiting EXCEPT ![s] = t]

\* A card transfer the game's thread starts.
CardOp(s) ==
    /\ ~Active("main") /\ ~Active("isr") /\ waiting[s] = NoTransfer
    /\ \E t \in Transfers :
        /\ StartTransfer("main", s, t)
        /\ prog' = [prog EXCEPT !["main"] = Program(s, t)]
    /\ UNCHANGED <<mailbox, handling, irq, dev, line, stage, buffer, shadow, asked, answer, lost>>

\* A command through the umbra device, then the read of its status or of the settings.
UmbraOp ==
    /\ ~Active("main") /\ ~Active("isr")
    /\ Overlap \/ \A s \in Slot : waiting[s] = NoTransfer
    /\ issued[2] < MaxUmbra
    /\ issued' = <<issued[1], issued[2] + 1>>
    /\ \E q \in Requests :
        /\ prog' = [prog EXCEPT !["main"] = UmbraProgram(q)]
        /\ asked' = q
    /\ answer' = "none" /\ lost' = FALSE
    /\ UNCHANGED <<mailbox, handling, irq, dev, line, stage, buffer, waiting, shadow>>

\* What the game takes the card to hold once a transfer has ended.
Believed(s, t) ==
    IF t.op = "write" THEN [shadow EXCEPT ![s][t.page] = t.content] ELSE shadow

\* The interrupt handler: the transfer of slot s is over; the library reads the
\* status and may go on with the next page.
Interrupt(s) ==
    /\ exiInt /\ ~Active("isr")
    /\ cause[s] # 0 /\ \A o \in Slot \ {s} : cause[o] = 0
    /\ exiInt' = FALSE
    /\ shadow' = Believed(s, waiting[s])
    /\ \/ /\ prog' = [prog EXCEPT !["isr"] = StatusProgram(s)]
          /\ waiting' = [waiting EXCEPT ![s] = NoTransfer]
          /\ UNCHANGED issued
       \/ \E t \in Transfers :
            /\ StartTransfer("isr", s, t)
            /\ prog' = [prog EXCEPT !["isr"] = StatusProgram(s) \o Program(s, t)]
    /\ UNCHANGED <<mailbox, handling, irq, dev, cause, stage, buffer, asked, answer, lost>>

Game ==
    \/ \E c \in Context : StoreArg(c) \/ StoreCmd(c) \/ SpinEnds(c)
    \/ \E s \in Slot : CardOp(s) \/ Interrupt(s)
    \/ UmbraOp

-----------------------------------------------------------------------------
(* The kernel                                                              *)

\* EXIUpdateRegistersNEW reads the mailbox, unless an interrupt is due.
Take ==
    /\ ~EXI_IRQ /\ handling = <<>> /\ cmd0 # NoCmd
    /\ handling' = << [word |-> cmd0, arg |-> cmd1] >>
    /\ UNCHANGED <<mailbox, irq, dev, line, ppc, buffer, game>>

h == handling[1]
Taken(op) == handling # <<>> /\ h.word.op = op

\* Every handler clears EXI_CMD_0 at its end, whatever is in it by then.
Finish ==
    /\ cmd0' = NoCmd
    /\ handling' = <<>>

DoSelect ==
    /\ Taken("select") /\ Finish
    /\ EXICommand' = [EXICommand EXCEPT ![h.word.chn] = "none"]
    /\ umbra_pending_read' = (umbra_pending_read /\ h.word.chn # 0)
    /\ cmd1' = <<"result", 0>>
    /\ UNCHANGED <<irq, BlockOff, card, umbra_cmd, umbra_last_status, settings, line, ppc, buffer, game>>

Raise(s, c) ==
    /\ EXI_IRQ' = TRUE
    /\ IRQ_Cause' = [IRQ_Cause EXCEPT ![s] = c]

Busy(s) == EXICommand[s] \in {"block_read", "block_write"}

\* A page address is taken from a write, a read or an erase, but not while a
\* DMA is expected.  Slips: any word sets the offset; a write keeps the old one.
AddressOfAnyWord(s) == h.word.mode = "w"
AddressButWrites(s) == h.word.mode = "w" /\ h.arg[1] \in {"52", "F1"} /\ ~Busy(s)
TakesAddress(s) ==
    h.word.mode = "w" /\ h.arg[1] \in {"F2", "52", "F1"} /\ (h.arg[1] = "F1" \/ ~Busy(s))

\* The erase command only reports success (the slip: it forgets to).
EraseUnsignalled(s) == UNCHANGED irq
EraseSignals(s) == Raise(s, 2)

CommandAfter(s) ==
    IF h.word.mode = "r" THEN EXICommand[s]
    ELSE CASE h.arg[1] = "8300" -> "status"
           [] h.arg[1] = "F2" /\ ~Busy(s) -> "block_write"
           [] h.arg[1] = "52" /\ ~Busy(s) -> "block_read"
           [] h.arg[1] = "F1" -> "block_erase"
           [] OTHER -> EXICommand[s]

\* EXIImm to a card: a page address, a status request or the read of the status.
DoImm ==
    /\ Taken("imm") /\ Finish
    /\ LET s == h.word.chn
       IN  /\ EXICommand' = [EXICommand EXCEPT ![s] = CommandAfter(s)]
           /\ BlockOff' = IF TakesAddress(s) THEN [BlockOff EXCEPT ![s] = h.arg[2]] ELSE BlockOff
           /\ IF h.word.mode = "w" /\ h.arg[1] = "F1" THEN EraseSignals(s) ELSE UNCHANGED irq
           /\ cmd1' = IF h.word.mode = "r" /\ EXICommand[s] = "status" THEN <<"result", 0>> ELSE cmd1
    /\ UNCHANGED <<card, umbra_pending_read, umbra_cmd, umbra_last_status, settings, line, ppc, buffer, game>>

\* Does the buffer of a DMA begin with UMBRA_MAGIC?  The game leaves its magic
\* in the buffer of an umbra read; the page buffer keeps the last page read.
NoMagicTest(arg) == TRUE   \* slip: every DMA on channel 0 is a command
Magic(arg) ==
    \/ arg[1] \in {"umbra", "umbrabuf"}
    \/ arg[1] = "page" /\ arg[2] \in GZ
    \/ arg[1] = "pagebuf" /\ buffer[arg[2]] \in GZ

\* The intercept looks at channel 0 only, and at reads only while one is pending.
\* Slip: any read that begins with the magic.
ForUmbraAnyRead == Taken("dma") /\ h.word.chn = 0 /\ Magic(h.arg)
ForUmbra ==
    /\ Taken("dma") /\ h.word.chn = 0 /\ Magic(h.arg)
    /\ h.word.mode = "w" \/ umbra_pending_read

\* Every DMA ends the card command (slip: only EXISelect does).
DmaContinues == UNCHANGED EXICommand
DmaEnds == EXICommand' = [EXICommand EXCEPT ![h.word.chn] = "none"]

\* umbra_write_settings ignores what f_write, f_sync and f_close return: it reports success
\* once f_write has taken every byte, and the file may still be as it was, or torn.
WriteSettings(d) ==
    \/ /\ umbra_last_status' = "ok"
       /\ \/ settings' = d /\ UNCHANGED lost
          \/ settings' \in {settings, "torn"} /\ lost' = TRUE
    \/ settings' \in {settings, "torn"} /\ umbra_last_status' = "error" /\ UNCHANGED lost

\* umbra_delete_settings reports what f_unlink returns: an error with or without a part of
\* its writes done, and success too when the SD card took none of them (diskio.c:103).
DeleteSettings ==
    \/ /\ settings # NoFile /\ umbra_last_status' = "ok"
       /\ \/ settings' = NoFile /\ UNCHANGED lost
          \/ settings' \in {settings, "torn"} /\ lost' = TRUE
    \/ /\ umbra_last_status' = "error" /\ UNCHANGED lost
       /\ settings' \in IF settings = NoFile THEN {NoFile} ELSE {settings, "torn", NoFile}

\* EXIDeviceUmbra: a write of more than 32 bytes and a delete are carried out at once; a
\* read, a shorter write, or a page taken for a command, only becomes umbra_cmd.
UmbraWrite ==
    /\ ForUmbra /\ h.word.mode = "w" /\ Finish /\ DmaEnds
    /\ umbra_pending_read' = TRUE
    /\ umbra_cmd' = IF h.arg[1] = "umbra" THEN h.arg[2][1] ELSE "unknown"
    /\ \/ umbra_cmd' = "write" /\ h.arg[2][2] \notin Short /\ WriteSettings(h.arg[2][2])
       \/ umbra_cmd' = "delete" /\ DeleteSettings
       \/ /\ umbra_cmd' = "write" => h.arg[2][2] \in Short
          /\ umbra_cmd' # "delete"
          /\ UNCHANGED <<settings, umbra_last_status, lost>>
    /\ UNCHANGED <<cmd1, irq, BlockOff, card, line, ppc, buffer, waiting, shadow, asked, answer, issued>>

\* umbra_read_settings: the file, zeros without one, and what was read of it if reading
\* fails; the game gets no status with it.
ReadSettings == {"zeros"} \cup (IF settings = NoFile THEN {} ELSE {settings, "torn"})
UmbraRead ==
    /\ ForUmbra /\ h.word.mode = "r" /\ Finish /\ DmaEnds
    /\ umbra_pending_read' = FALSE
    /\ IF h.arg[1] = "umbrabuf" /\ umbra_cmd # "unknown"
       THEN answer' \in IF umbra_cmd = "read" THEN ReadSettings ELSE {umbra_last_status}
       ELSE UNCHANGED answer
    /\ UNCHANGED <<cmd1, irq, BlockOff, card, umbra_cmd, umbra_last_status, settings, line, ppc, buffer,
                   waiting, shadow, asked, lost, issued>>

\* EXIDeviceMemoryCard with more than four bytes.
DoCardDma ==
    /\ Taken("dma") /\ ~ForUmbra /\ Finish /\ DmaEnds
    /\ LET s == h.word.chn
       IN  \/ /\ h.word.mode = "w" /\ EXICommand[s] = "block_write"
              /\ card' = [card EXCEPT ![s][BlockOff[s]] = h.arg[2]]
              /\ Raise(s, 10)
              /\ UNCHANGED buffer
           \/ /\ h.word.mode = "r" /\ EXICommand[s] = "block_read"
              /\ buffer' = IF h.arg[1] = "pagebuf"
                             THEN [buffer EXCEPT ![h.arg[2]] = card[s][BlockOff[s]]] ELSE buffer
              /\ Raise(s, 8)
              /\ UNCHANGED card
           \/ /\ EXICommand[s] # (IF h.word.mode = "w" THEN "block_write" ELSE "block_read")
              /\ UNCHANGED <<irq, card, buffer>>
    /\ UNCHANGED <<cmd1, BlockOff, umbra_pending_read, umbra_cmd, umbra_last_status, settings, line, ppc, game>>

IrqDone == EXI_IRQ' = FALSE

\* The timer of the due interrupt has run out, EXICheckTimer.
EXIInterrupt ==
    /\ EXI_IRQ /\ handling = <<>>
    /\ cause' = IRQ_Cause /\ exiInt' = TRUE
    /\ IrqDone /\ IRQ_Cause' = [s \in Slot |-> 0]
    /\ UNCHANGED <<mailbox, handling, dev, ppc, buffer, game>>

Kernel == Take \/ DoSelect \/ DoImm \/ UmbraWrite \/ UmbraRead \/ DoCardDma \/ EXIInterrupt

-----------------------------------------------------------------------------
ExiInit ==
    /\ cmd0 = NoCmd /\ cmd1 = <<"result", 0>> /\ handling = <<>>
    /\ EXI_IRQ = FALSE /\ IRQ_Cause = [s \in Slot |-> 0]
    /\ EXICommand = [s \in Channel |-> "none"] /\ BlockOff \in [Slot -> Page]
    /\ \E c \in PageContent : /\ card = [s \in Slot |-> [p \in Page |-> c]]
                         /\ buffer = [s \in Slot |-> c]
    /\ umbra_pending_read = FALSE /\ umbra_cmd = "none" /\ umbra_last_status = "ok"
    /\ settings = NoFile
    /\ exiInt = FALSE /\ cause = [s \in Slot |-> 0]
    /\ prog = [c \in Context |-> <<>>] /\ stage = [c \in Context |-> "arg"]
    /\ waiting = [s \in Slot |-> NoTransfer] /\ shadow = card
    /\ asked = NoRequest /\ answer = "none" /\ lost = FALSE /\ issued = <<0, 0>>

\* The bounds are reached and nothing is left to do.
Done ==
    /\ \A c \in Context : ~Active(c)
    /\ \A s \in Slot : waiting[s] = NoTransfer
    /\ UNCHANGED exi_vars

ExiNext == Game \/ Kernel \/ Done

ExiFairness ==
    /\ WF_exi_vars(Kernel)
    /\ WF_exi_vars(\E c \in Context : StoreArg(c) \/ StoreCmd(c) \/ SpinEnds(c))
    /\ WF_exi_vars(\E s \in Slot : Interrupt(s))

ExiSpec == ExiInit /\ [][ExiNext]_exi_vars /\ ExiFairness

-----------------------------------------------------------------------------
(* Properties                                                              *)

ExiTypeOK ==
    /\ cmd0 \in Words /\ cmd1 \in Args
    /\ handling \in {<<>>} \cup {<<Step(w, a)>> : w \in Words \ {NoCmd}, a \in Args}
    /\ EXI_IRQ \in BOOLEAN /\ IRQ_Cause \in [Slot -> {0, 2, 8, 10}]
    /\ EXICommand \in [Channel -> {"none", "status", "block_read", "block_write", "block_erase"}]
    /\ BlockOff \in [Slot -> Page] /\ card \in [Slot -> [Page -> PageContent]]
    /\ umbra_pending_read \in BOOLEAN /\ umbra_cmd \in {"none", "write", "delete", "read", "unknown"}
    /\ umbra_last_status \in Statuses /\ settings \in Setting \cup {NoFile, "torn"}
    /\ exiInt \in BOOLEAN /\ cause \in [Slot -> {0, 2, 8, 10}]
    /\ stage \in [Context -> {"arg", "cmd", "spin"}]
    /\ waiting \in [Slot -> Transfers \cup {NoTransfer}]
    /\ buffer \in [Slot -> PageContent] /\ shadow \in [Slot -> [Page -> PageContent]]
    /\ asked \in Requests \cup {NoRequest} /\ answer \in Statuses \cup Setting \cup {"none", "zeros", "torn"}
    /\ lost \in BOOLEAN /\ issued \in (0 .. MaxCard) \X (0 .. MaxUmbra)

\* When the game waits for no transfer of a slot, the card holds every page it
\* was told had been written, and nothing else.
CardHolds == \A s \in Slot : waiting[s] = NoTransfer => card[s] = shadow[s]

\* Once EXIDMA has returned, the card holds the page it was given.  Settings go
\* "without going through the memory card subsystem" (README.md:7), so no page
\* can be taken for them.
PageStored ==
    \A s \in Slot : waiting[s].op = "write" /\ (\A c \in Context : ~Active(c)) =>
        card[s][waiting[s].page] = waiting[s].content

\* An interrupt reports the transfer the game waits for, with the cause its
\* handler expects, and a read has by then delivered the page.
Expected(t) == CASE t.op = "write" -> 10 [] t.op = "read" -> 8 [] t.op = "erase" -> 2
                 [] OTHER -> 0
SignalsMatch ==
    exiInt => \A s \in Slot : cause[s] # 0 =>
        /\ cause[s] = Expected(waiting[s])
        /\ waiting[s].op = "read" => buffer[s] = shadow[s][waiting[s].page]

\* A status "ok" that the game reads is that of the change it asked for last, which is in
\* the file, or was lost below the file system; and settings it reads are those of the file,
\* asked for.  README.md:8, "the kernel reports actual success/failure of SD operations",
\* says more than this: `lost` is the code's exception, results that nothing looks at.
StatusIsActual ==
    /\ answer = "ok" =>
         /\ asked \in Changes
         /\ lost \/ settings = IF asked[1] = "write" THEN asked[2] ELSE NoFile
    /\ answer \in Setting => asked[1] = "read" /\ settings = answer

\* The game never waits forever, neither for a transfer nor in ready_loop.
TransfersEnd ==
    []<>((\A s \in Slot : waiting[s] = NoTransfer) /\ \A c \in Context : ~Active(c))
=============================================================================
