------------------------------ MODULE CardProofs ------------------------------
(***************************************************************************)
(* Proofs about the two stages a page goes through.  First ExiBus: from the *)
(* game's commands to the card image, for any pages, contents, settings and *)
(* bounds, with one card.  Then MemCard: from the image to the card file,   *)
(* for every card size, content and delay.                                  *)
(***************************************************************************)
EXTENDS ExiBus, MemCard, TLAPS

(***************************************************************************)
(* ExiBus.  The invariant says, of every store and every step of the kernel *)
(* where the programs of the game's thread and of its interrupt handler     *)
(* stand, whose command the mailbox holds and with which argument, and what *)
(* the card protocol is in the middle of.                                   *)
(***************************************************************************)
\* One of the two slots has a card the game uses; channel 0 is there in any case.
OneSlot == \E s \in {0, 1} : Slot = {s}
s0 == CHOOSE s \in Slot : TRUE
T == waiting[s0]

-----------------------------------------------------------------------------
(* Where a program stands                                                  *)

Steps == [word : Words, arg : Args]
Programs == prog \in [Context -> Seq(Steps)]

\* The steps of the programs.
AddressStep(t) ==
    Step(Word("imm", s0, "w"),
         <<CASE t.op = "write" -> "F2" [] t.op = "read" -> "52" [] OTHER -> "F1", t.page>>)
DataStep(t) ==
    IF t.op = "write" THEN Step(Word("dma", s0, "w"), <<"page", t.content>>)
                      ELSE Step(Word("dma", s0, "r"), <<"pagebuf", s0>>)
LastStep(t) == IF t.op = "erase" THEN AddressStep(t) ELSE DataStep(t)
AskStep == Step(Word("imm", s0, "w"), <<"8300", 0>>)
ReplyStep == Step(Word("imm", s0, "r"), <<"result", 0>>)
WriteStep == Step(Word("dma", 0, "w"), <<"umbra", asked>>)
ReadStep == Step(Word("dma", 0, "r"), <<"umbrabuf", 0>>)

\* What is left of a transfer, of the handler's program, of the umbra client's.
AtAddress(t) == IF t.op = "erase" THEN <<AddressStep(t)>> ELSE <<AddressStep(t), DataStep(t)>>
AtSelect(t) == IF t.op = "erase" THEN <<Select(s0), AddressStep(t)>>
               ELSE <<Select(s0), AddressStep(t), DataStep(t)>>
Follow == IF T = NoTransfer THEN <<>> ELSE AtSelect(T)
First == prog["isr"] = <<Select(s0), AskStep, ReplyStep>> \o Follow
AtAsk == prog["isr"] = <<AskStep, ReplyStep>> \o Follow
AtReply == prog["isr"] = <<ReplyStep>> \o Follow
AtWrite == prog["main"] = <<WriteStep, ReadStep>>
AtRead == prog["main"] = <<ReadStep>>

-----------------------------------------------------------------------------
(* The invariant                                                           *)

Waits == T \in Transfers
Signal == EXI_IRQ \/ exiInt
Clear == cmd0 = NoCmd /\ handling = <<>>
Handled(c) == stage[c] = "spin" /\ Clear
Ready == /\ EXICommand[s0] = (IF T.op = "write" THEN "block_write" ELSE "block_read")
         /\ BlockOff[s0] = T.page

\* The transfer the game waits for is still being programmed, by context c.
Due(c) ==
    /\ Waits /\ ~Signal
    /\ \/ prog[c] = AtSelect(T) /\ ~Busy(s0)
       \/ prog[c] = AtAddress(T) /\ ~Handled(c) /\ ~Busy(s0)
       \/ prog[c] = AtAddress(T) /\ Handled(c) /\ T.op # "erase" /\ Ready
       \/ prog[c] = <<DataStep(T)>> /\ ~Handled(c) /\ T.op # "erase" /\ Ready

\* The handler asks for the card's status.
Asks ==
    /\ ~Signal /\ ~Busy(s0) /\ (Waits \/ T = NoTransfer)
    /\ First \/ AtAsk \/ AtReply

Idle(c) == prog[c] = <<>> /\ stage[c] = "arg"
InUmbra == asked \in Requests /\ (AtWrite \/ AtRead)
Spent == /\ \E t \in Transfers : prog["main"] = <<LastStep(t)>>
         /\ stage["main"] = "spin" /\ (Active("isr") \/ Clear)
MainAside == Idle("main") \/ InUmbra \/ Spent

\* No transfer is being programmed: the one the game waits for is under way, and
\* will be signalled, unless umbra took its page.
Settled ==
    /\ ~Busy(s0)
    /\ Idle("isr") \/ (Waits /\ prog["isr"] = <<LastStep(T)>> /\ Handled("isr"))
    /\ T = NoTransfer => ~Signal
    /\ Waits /\ (GZ = {} \/ s0 = 1) => Signal

Phase ==
    \/ Due("main") /\ Idle("isr")
    \/ MainAside /\ (Due("isr") \/ Asks \/ Settled)

\* An argument is the one its step stored, unless the handler has run since the
\* umbra client stored it.
UmbraArgs == {"umbra", "umbrabuf"}
Fits(step, a) ==
    \/ step.word.op = "select" \/ a = step.arg
    \/ step.arg[1] \in UmbraArgs /\ a[1] \notin UmbraArgs

Carries(c) ==
    handling # <<>> /\ handling[1].word = Head(prog[c]).word /\ Fits(Head(prog[c]), handling[1].arg)
Box(c) ==
    /\ Active(c)
    /\ \/ Clear
       \/ /\ stage[c] = "spin" /\ cmd0 = Head(prog[c]).word
          /\ (handling = <<>> /\ Fits(Head(prog[c]), cmd1)) \/ Carries(c)

\* What is in the mailbox belongs to the context that runs, but for the handler's first
\* step, which may find, and overwrite, a command of the umbra client.
Mail ==
    \/ Box("isr")
    \/ Box("main") /\ (Active("isr") => First /\ stage["isr"] # "spin" /\ (InUmbra \/ Clear))
    \/ Clear /\ ~Active("main") /\ ~Active("isr")
    \/ /\ First /\ stage["isr"] = "spin" /\ cmd0 = Select(s0).word
       /\ InUmbra /\ stage["main"] = "spin" /\ Carries("main")
Kept == \A c \in Context : Active(c) /\ stage[c] = "cmd" => Fits(Head(prog[c]), cmd1)

Unused == \A c \in Channel \ {s0} : EXICommand[c] = "none"

Cards ==
    /\ ~(EXI_IRQ /\ exiInt)
    /\ IF Signal THEN /\ card = Believed(s0, T)
                      /\ T.op = "read" => buffer[s0] = shadow[s0][T.page]
                 ELSE card = shadow
    /\ EXI_IRQ => IRQ_Cause[s0] = Expected(T)
    /\ exiInt => cause[s0] = Expected(T)

ExiIInv == ExiTypeOK /\ Programs /\ Phase /\ Mail /\ Kept /\ Unused /\ Cards

-----------------------------------------------------------------------------
(* Lemmas about programs                                                   *)

\* The one slot is the one the definitions name.
LEMMA Sole == ASSUME OneSlot PROVE Slot = {s0} /\ s0 \in {0, 1} /\ s0 \in Channel
<1>1. PICK s \in {0, 1} : Slot = {s}
  BY DEF OneSlot
<1>2. s0 \in Slot
  BY <1>1 DEF s0
<1> QED
  BY <1>1, <1>2 DEF Channel

\* What is left of a transfer, step by step.
LEMMA TransferSteps ==
    ASSUME NEW t \in Transfers
    PROVE  /\ AtSelect(t) # <<>> /\ AtAddress(t) # <<>> /\ <<DataStep(t)>> # <<>>
           /\ Program(s0, t) = AtSelect(t)
           /\ Head(AtSelect(t)) = Select(s0) /\ Tail(AtSelect(t)) = AtAddress(t)
           /\ Head(AtAddress(t)) = AddressStep(t)
           /\ Tail(AtAddress(t)) = IF t.op = "erase" THEN <<>> ELSE <<DataStep(t)>>
           /\ Head(<<DataStep(t)>>) = DataStep(t) /\ Tail(<<DataStep(t)>>) = <<>>
           /\ t.op = "erase" => AtAddress(t) = <<LastStep(t)>>
           /\ t.op # "erase" => LastStep(t) = DataStep(t)
<1>1. t.op \in {"write", "read", "erase"}
  BY DEF Transfers
<1>2. CASE t.op = "write"
  BY <1>2 DEF AtSelect, AtAddress, Program, AddressStep, DataStep, LastStep
<1>3. CASE t.op = "read"
  BY <1>3 DEF AtSelect, AtAddress, Program, AddressStep, DataStep, LastStep
<1>4. CASE t.op = "erase"
  BY <1>4 DEF AtSelect, AtAddress, Program, AddressStep, DataStep, LastStep
<1> QED
  BY <1>1, <1>2, <1>3, <1>4

\* No transfer is the empty one.
LEMMA OpNeverNone == ASSUME NEW t \in Transfers PROVE t # NoTransfer /\ t.op \in {"write", "read", "erase"}
BY DEF Transfers, NoTransfer

\* The steps are steps.
LEMMA StepTypes ==
    ASSUME OneSlot, NEW t \in Transfers
    PROVE  /\ Select(s0) \in Steps /\ AddressStep(t) \in Steps /\ DataStep(t) \in Steps
           /\ AskStep \in Steps /\ ReplyStep \in Steps
           /\ AtSelect(t) \in Seq(Steps)
<1>1. s0 \in Slot /\ s0 \in Channel
  BY Sole
<1>2. /\ t.op \in {"write", "read", "erase"} /\ t.page \in Page
      /\ t.op = "write" => t.content \in PageContent
  BY DEF Transfers
<1>3. \A op \in {"select", "imm", "dma"}, m \in {"w", "r"} : Word(op, s0, m) \in Words
  BY <1>1 DEF Words, Word
<1>4. \A w \in Words, a \in Args : Step(w, a) \in Steps
  BY DEF Steps, Step
<1>5. /\ <<"result", 0>> \in Args /\ <<"8300", 0>> \in Args /\ <<"pagebuf", s0>> \in Args
      /\ \A k \in {"F1", "F2", "52"} : <<k, t.page>> \in Args
      /\ t.op = "write" => <<"page", t.content>> \in Args
  BY <1>1, <1>2 DEF Args
<1>6. /\ Select(s0) \in Steps /\ AskStep \in Steps /\ ReplyStep \in Steps
  BY <1>3, <1>4, <1>5 DEF Select, AskStep, ReplyStep
<1>7. AddressStep(t) \in Steps
  BY <1>2, <1>3, <1>4, <1>5 DEF AddressStep
<1>8. DataStep(t) \in Steps
  BY <1>2, <1>3, <1>4, <1>5 DEF DataStep
<1> QED
  BY <1>6, <1>7, <1>8 DEF AtSelect

\* The umbra client's two steps are steps.
LEMMA UmbraTypes ==
    ASSUME NEW q \in Requests
    PROVE  UmbraProgram(q) \in Seq(Steps)
<1>1. <<"umbra", q>> \in Args /\ <<"umbrabuf", 0>> \in Args
  BY DEF Args
<1>2. Word("dma", 0, "w") \in Words /\ Word("dma", 0, "r") \in Words
  BY DEF Words, Word, Channel
<1> QED
  BY <1>1, <1>2 DEF UmbraProgram, Step, Steps

\* What the handler has left to do.
LEMMA HandlerSteps ==
    ASSUME OneSlot, Waits \/ T = NoTransfer
    PROVE  /\ Follow \in Seq(Steps)
           /\ <<Select(s0), AskStep, ReplyStep>> \o Follow \in Seq(Steps)
           /\ StatusProgram(s0) = <<Select(s0), AskStep, ReplyStep>>
           /\ First => /\ prog["isr"] # <<>> /\ Head(prog["isr"]) = Select(s0)
                       /\ Tail(prog["isr"]) = <<AskStep, ReplyStep>> \o Follow
           /\ AtAsk => /\ prog["isr"] # <<>> /\ Head(prog["isr"]) = AskStep
                       /\ Tail(prog["isr"]) = <<ReplyStep>> \o Follow
           /\ AtReply => /\ prog["isr"] # <<>> /\ Head(prog["isr"]) = ReplyStep
                         /\ Tail(prog["isr"]) = Follow
<1>0. Select(s0) \in Steps /\ AskStep \in Steps /\ ReplyStep \in Steps
  <2>1. s0 \in Channel
    BY Sole
  <2> QED
    BY <2>1 DEF Steps, Select, AskStep, ReplyStep, Step, Word, Words, Args
<1>1. Follow \in Seq(Steps)
  BY StepTypes DEF Follow, Waits
<1>2. <<Select(s0), AskStep, ReplyStep>> \o Follow \in Seq(Steps)
  BY <1>0, <1>1
<1>3. StatusProgram(s0) = <<Select(s0), AskStep, ReplyStep>>
  BY DEF StatusProgram, AskStep, ReplyStep
<1>4. First => /\ prog["isr"] # <<>> /\ Head(prog["isr"]) = Select(s0)
               /\ Tail(prog["isr"]) = <<AskStep, ReplyStep>> \o Follow
  BY <1>1 DEF First
<1>5. AtAsk => /\ prog["isr"] # <<>> /\ Head(prog["isr"]) = AskStep
               /\ Tail(prog["isr"]) = <<ReplyStep>> \o Follow
  BY <1>1 DEF AtAsk
<1>6. AtReply => /\ prog["isr"] # <<>> /\ Head(prog["isr"]) = ReplyStep
                 /\ Tail(prog["isr"]) = Follow
  BY <1>1 DEF AtReply
<1> QED
  BY <1>1, <1>2, <1>3, <1>4, <1>5, <1>6

\* The umbra client's two steps.
LEMMA UmbraSteps ==
    /\ UmbraProgram(asked) = <<WriteStep, ReadStep>>
    /\ AtWrite => /\ prog["main"] # <<>> /\ Head(prog["main"]) = WriteStep
                  /\ Tail(prog["main"]) = <<ReadStep>>
    /\ AtRead => /\ prog["main"] # <<>> /\ Head(prog["main"]) = ReadStep
                 /\ Tail(prog["main"]) = <<>>
<1>1. UmbraProgram(asked) = <<WriteStep, ReadStep>>
  BY DEF UmbraProgram, WriteStep, ReadStep
<1>2. ASSUME AtWrite
      PROVE  prog["main"] # <<>> /\ Head(prog["main"]) = WriteStep /\ Tail(prog["main"]) = <<ReadStep>>
  BY <1>2 DEF AtWrite
<1>3. ASSUME AtRead
      PROVE  prog["main"] # <<>> /\ Head(prog["main"]) = ReadStep /\ Tail(prog["main"]) = <<>>
  BY <1>3 DEF AtRead
<1> QED
  BY <1>1, <1>2, <1>3

\* No two places of a program are taken for each other.
LEMMA Places ==
    ASSUME OneSlot, NEW t \in Transfers
    PROVE  /\ Select(s0).word.op = "select" /\ Select(s0).word.chn = s0
           /\ AskStep.word.op = "imm" /\ AskStep.word.mode = "w" /\ AskStep.arg = <<"8300", 0>>
           /\ ReplyStep.word.op = "imm" /\ ReplyStep.word.mode = "r"
           /\ AddressStep(t).word = AskStep.word /\ AddressStep(t).arg[2] = t.page
           /\ AddressStep(t).arg[1] = IF t.op = "write" THEN "F2" ELSE IF t.op = "read" THEN "52" ELSE "F1"
           /\ DataStep(t).word.op = "dma" /\ DataStep(t).word.chn = s0
           /\ WriteStep.word.op = "dma" /\ WriteStep.word.chn = 0 /\ WriteStep.word.mode = "w"
           /\ ReadStep.word.op = "dma" /\ ReadStep.word.chn = 0 /\ ReadStep.word.mode = "r"
           /\ WriteStep.arg = <<"umbra", asked>> /\ ReadStep.arg = <<"umbrabuf", 0>>
           /\ AskStep.word.chn = s0 /\ ReplyStep.word.chn = s0
           /\ DataStep(t).word.mode = (IF t.op = "write" THEN "w" ELSE "r")
           /\ DataStep(t).arg = (IF t.op = "write" THEN <<"page", t.content>> ELSE <<"pagebuf", s0>>)
           /\ Select(s0) # AddressStep(t) /\ AskStep # AddressStep(t) /\ Select(s0) # DataStep(t)
           /\ AddressStep(t).arg[1] \notin UmbraArgs /\ DataStep(t).arg[1] \notin UmbraArgs
           /\ AskStep.arg[1] \notin UmbraArgs /\ ReplyStep.arg[1] \notin UmbraArgs
<1> USE DEF Select, AskStep, ReplyStep, AddressStep, DataStep, WriteStep, ReadStep, Step, Word, UmbraArgs
<1>1. /\ Select(s0).word.op = "select" /\ Select(s0).word.chn = s0
      /\ AskStep.word.op = "imm" /\ AskStep.word.mode = "w" /\ AskStep.arg = <<"8300", 0>>
      /\ ReplyStep.word.op = "imm" /\ ReplyStep.word.mode = "r"
      /\ AddressStep(t).word = AskStep.word /\ AddressStep(t).arg[2] = t.page
      /\ AddressStep(t).arg[1] = IF t.op = "write" THEN "F2" ELSE IF t.op = "read" THEN "52" ELSE "F1"
      /\ AskStep.word.chn = s0 /\ ReplyStep.word.chn = s0
  OBVIOUS
<1>2. /\ DataStep(t).word.op = "dma" /\ DataStep(t).word.chn = s0
      /\ DataStep(t).word.mode = (IF t.op = "write" THEN "w" ELSE "r")
      /\ DataStep(t).arg = (IF t.op = "write" THEN <<"page", t.content>> ELSE <<"pagebuf", s0>>)
  OBVIOUS
<1>3. /\ WriteStep.word.op = "dma" /\ WriteStep.word.chn = 0 /\ WriteStep.word.mode = "w"
      /\ ReadStep.word.op = "dma" /\ ReadStep.word.chn = 0 /\ ReadStep.word.mode = "r"
      /\ WriteStep.arg = <<"umbra", asked>> /\ ReadStep.arg = <<"umbrabuf", 0>>
  OBVIOUS
<1>4. DataStep(t).arg[1] \notin UmbraArgs
  BY <1>2
<1>5. AddressStep(t).arg[1] \notin UmbraArgs /\ AskStep.arg[1] \notin UmbraArgs /\ ReplyStep.arg[1] \notin UmbraArgs
  OBVIOUS
<1>6. Select(s0) # AddressStep(t) /\ AskStep # AddressStep(t) /\ Select(s0) # DataStep(t)
  <2>1. AskStep.arg[1] = "8300"
    OBVIOUS
  <2>2. Select(s0).word.op # AddressStep(t).word.op /\ AskStep.arg[1] # AddressStep(t).arg[1]
    BY <1>1, <2>1
  <2> QED
    BY <1>1, <1>2, <2>2
<1> QED
  BY <1>1, <1>2, <1>3, <1>4, <1>5, <1>6

\* A handler at its first step asks for the status.
LEMMA FirstAsks == ASSUME OneSlot, Phase, T \in Transfers \cup {NoTransfer}, First PROVE Asks /\ MainAside
<1>0. Waits \/ T = NoTransfer
  BY DEF Waits
<1>1. /\ prog["isr"] # <<>> /\ Head(prog["isr"]) = Select(s0)
      /\ Tail(prog["isr"]) = <<AskStep, ReplyStep>> \o Follow /\ Follow \in Seq(Steps)
  BY <1>0, HandlerSteps
<1>2. Head(Tail(prog["isr"])) = AskStep
  BY <1>1
<1>3. ~Due("isr")
  <2> SUFFICES ASSUME Due("isr") PROVE FALSE
    OBVIOUS
  <2>1. Waits
    BY DEF Due
  <2>2. CASE prog["isr"] = AtSelect(T)
    BY <2>1, <2>2, <1>2, TransferSteps, Places DEF Waits
  <2>3. CASE prog["isr"] = AtAddress(T)
    BY <2>1, <2>3, <1>1, TransferSteps, Places DEF Waits
  <2>4. CASE prog["isr"] = <<DataStep(T)>>
    BY <2>1, <2>4, <1>1, TransferSteps, Places DEF Waits
  <2> QED
    BY <2>2, <2>3, <2>4 DEF Due
<1>4. ~Settled
  <2> SUFFICES ASSUME Waits, prog["isr"] = <<LastStep(T)>> PROVE FALSE
    BY <1>1 DEF Settled, Idle
  <2>1. Head(prog["isr"]) = LastStep(T)
    OBVIOUS
  <2> QED
    BY <2>1, <1>1, TransferSteps, Places DEF Waits, LastStep
<1> QED
  BY <1>1, <1>3, <1>4 DEF Phase, Idle

\* What the kernel has in hand.
Selecting(c) == prog[c] = AtSelect(T) /\ Due(c) /\ handling[1].word = Select(s0).word
Addressing(c) ==
    /\ Due(c) /\ prog[c] = AtAddress(T) /\ ~Busy(s0)
    /\ handling[1] = [word |-> AddressStep(T).word, arg |-> AddressStep(T).arg]
Moving(c) ==
    /\ Due(c) /\ prog[c] = <<DataStep(T)>> /\ T.op # "erase" /\ Ready
    /\ handling[1] = [word |-> DataStep(T).word, arg |-> DataStep(T).arg]
Answering ==
    /\ ~Busy(s0) /\ (Asks \/ (Settled /\ ~Active("isr")))
    /\ InUmbra /\ stage["main"] = "spin" /\ handling[1].word = Head(prog["main"]).word
    /\ Fits(Head(prog["main"]), handling[1].arg)

IsrInHand ==
    /\ stage["isr"] = "spin" /\ Active("isr") /\ MainAside
    /\ \/ First /\ Asks /\ handling[1].word = Select(s0).word
       \/ AtAsk /\ Asks /\ handling[1].word = AskStep.word /\ handling[1].arg = AskStep.arg
       \/ AtReply /\ Asks /\ handling[1].word = ReplyStep.word
       \/ Selecting("isr") \/ Addressing("isr") \/ Moving("isr")
MainInHand ==
    /\ stage["main"] = "spin" /\ Idle("isr")
    /\ Selecting("main") \/ Addressing("main") \/ Moving("main")

\* A command in hand is the next step of the context that spins for it.
LEMMA InHand ==
    ASSUME OneSlot, ExiIInv, handling # <<>>
    PROVE  /\ handling = << handling[1] >> /\ handling[1] = [word |-> handling[1].word, arg |-> handling[1].arg]
           /\ handling[1].word \in Words /\ handling[1].arg \in Args /\ ~Clear
           /\ IsrInHand \/ MainInHand \/ Answering
<1>1. /\ handling = << handling[1] >> /\ handling[1] = [word |-> handling[1].word, arg |-> handling[1].arg]
      /\ handling[1].word \in Words /\ handling[1].arg \in Args /\ ~Clear
  <2>1. PICK w \in Words \ {NoCmd}, a \in Args : handling = <<Step(w, a)>>
    BY DEF ExiIInv, ExiTypeOK
  <2> QED
    BY <2>1 DEF Step, Clear
<1>2. T \in Transfers \cup {NoTransfer} /\ (Waits \/ T = NoTransfer)
  BY Sole DEF ExiIInv, ExiTypeOK, T, Waits
<1>. DEFINE w == handling[1].word
            a == handling[1].arg
<1>3. CASE Box("isr")
  <2>1. stage["isr"] = "spin" /\ Active("isr") /\ Carries("isr")
    BY <1>1, <1>3 DEF Box
  <2>2. MainAside /\ (Due("isr") \/ Asks)
    BY <1>1, <2>1 DEF ExiIInv, Phase, Settled, Idle, Active, Handled
  <2>3. CASE Asks
    <3>1. CASE First
      BY <3>1, <2>1, <2>2, <2>3, <1>1, <1>2, HandlerSteps DEF Carries, IsrInHand
    <3>2. CASE AtAsk
      <4>1. Head(prog["isr"]) = AskStep
        BY <3>2, <1>2, HandlerSteps
      <4>2. AskStep.word.op = "imm" /\ AskStep.arg[1] = "8300"
        BY DEF AskStep, Step, Word
      <4>3. w = AskStep.word /\ a = AskStep.arg
        BY <4>1, <4>2, <2>1 DEF Carries, Fits, UmbraArgs
      <4> QED
        BY <4>3, <3>2, <2>1, <2>2, <2>3, <1>1 DEF IsrInHand
    <3>3. CASE AtReply
      BY <3>3, <2>1, <2>2, <2>3, <1>1, <1>2, HandlerSteps DEF Carries, IsrInHand
    <3> QED
      BY <2>3, <3>1, <3>2, <3>3 DEF Asks
  <2>4. CASE Due("isr")
    <3>1. T \in Transfers /\ ~Handled("isr")
      BY <2>4, <1>1 DEF Due, Waits, Handled
    <3>2. CASE prog["isr"] = AtSelect(T)
      BY <3>2, <3>1, <2>1, <2>2, <2>4, <1>1, TransferSteps DEF Carries, Selecting, IsrInHand
    <3>3. CASE prog["isr"] = AtAddress(T) /\ ~Busy(s0)
      <4>1. Head(prog["isr"]) = AddressStep(T)
        BY <3>1, <3>3, TransferSteps
      <4>2. w = AddressStep(T).word /\ a = AddressStep(T).arg
        BY <4>1, <3>1, <2>1, Places DEF Carries, Fits, UmbraArgs
      <4> QED
        BY <4>2, <3>3, <2>1, <2>2, <2>4, <1>1 DEF Addressing, IsrInHand
    <3>4. CASE prog["isr"] = <<DataStep(T)>> /\ T.op # "erase" /\ Ready
      <4>1. Head(prog["isr"]) = DataStep(T)
        BY <3>1, <3>4, TransferSteps
      <4>2. w = DataStep(T).word /\ a = DataStep(T).arg
        BY <4>1, <3>1, <2>1, Places DEF Carries, Fits, UmbraArgs
      <4> QED
        BY <4>2, <3>4, <2>1, <2>2, <2>4, <1>1 DEF Moving, IsrInHand
    <3> QED
      BY <2>4, <3>1, <3>2, <3>3, <3>4 DEF Due
  <2> QED
    BY <2>2, <2>3, <2>4
<1>4. CASE Box("main") /\ ~Active("isr")
  <2>1. stage["main"] = "spin" /\ Active("main") /\ Carries("main")
    BY <1>1, <1>4 DEF Box
  <2>2. ~Due("isr") /\ ~Asks
    BY <1>2, <1>4, HandlerSteps, TransferSteps DEF Active, Due, Asks, Waits
  <2>3. CASE Due("main")
    <3>1. T \in Transfers /\ ~Handled("main")
      BY <2>3, <1>1 DEF Due, Waits, Handled
    <3>0. Idle("isr")
      BY <1>4, <2>2 DEF ExiIInv, Phase, Settled, Active, Idle
    <3>2. CASE prog["main"] = AtSelect(T)
      BY <3>0, <3>2, <3>1, <2>1, <2>3, <1>1, TransferSteps DEF Carries, Selecting, MainInHand
    <3>3. CASE prog["main"] = AtAddress(T) /\ ~Busy(s0)
      <4>1. Head(prog["main"]) = AddressStep(T)
        BY <3>1, <3>3, TransferSteps
      <4>2. w = AddressStep(T).word /\ a = AddressStep(T).arg
        BY <4>1, <3>1, <2>1, Places DEF Carries, Fits, UmbraArgs
      <4> QED
        BY <4>2, <3>0, <3>3, <2>1, <2>3, <1>1 DEF Addressing, MainInHand
    <3>4. CASE prog["main"] = <<DataStep(T)>> /\ T.op # "erase" /\ Ready
      <4>1. Head(prog["main"]) = DataStep(T)
        BY <3>1, <3>4, TransferSteps
      <4>2. w = DataStep(T).word /\ a = DataStep(T).arg
        BY <4>1, <3>1, <2>1, Places DEF Carries, Fits, UmbraArgs
      <4> QED
        BY <4>2, <3>0, <3>4, <2>1, <2>3, <1>1 DEF Moving, MainInHand
    <3> QED
      BY <2>3, <3>1, <3>2, <3>3, <3>4 DEF Due
  <2>4. CASE MainAside /\ Settled
    <3>1. InUmbra
      BY <2>1, <2>4, <1>1, <1>4 DEF MainAside, Idle, Active, Spent
    <3> QED
      BY <3>1, <2>1, <2>4, <1>1, <1>4 DEF Answering, Carries, Settled
  <2> QED
    BY <2>2, <2>3, <2>4 DEF ExiIInv, Phase
<1>5. CASE /\ First /\ InUmbra /\ Carries("main") /\ stage["main"] = "spin"
  <2>1. Asks
    BY <1>2, <1>5, FirstAsks DEF ExiIInv
  <2> QED
    BY <2>1, <1>1, <1>5 DEF Asks, Answering, Carries
<1> QED
  BY <1>1, <1>3, <1>4, <1>5 DEF ExiIInv, Mail, Box

-----------------------------------------------------------------------------
(* The kernel's steps                                                      *)

\* Whatever it handles, the kernel leaves the mailbox clear, and the programs alone.
LEMMA Cleared ==
    ASSUME Finish, UNCHANGED <<ppc, asked>>
    PROVE  Clear' /\ Mail' /\ (MainAside => MainAside') /\ (Idle("isr") => Idle("isr")')
<1>1. Clear'
  BY DEF Finish, Clear
<1>2. Mail'
  BY <1>1 DEF Mail, Box
<1>3. MainAside => MainAside'
  <2>1. WriteStep' = WriteStep /\ ReadStep' = ReadStep
    BY DEF WriteStep, ReadStep
  <2> QED
    BY <1>1, <2>1 DEF MainAside, Idle, InUmbra, Spent, AtWrite, AtRead, ppc
<1>4. Idle("isr") => Idle("isr")'
  BY DEF Idle, ppc
<1> QED
  BY <1>1, <1>2, <1>3, <1>4

\* A result stored in EXI_CMD_1 spoils nobody's argument.
LEMMA StillKept ==
    ASSUME OneSlot, ExiIInv, handling # <<>>, UNCHANGED <<ppc, asked>>,
           \/ cmd1' = cmd1
           \/ cmd1' = <<"result", 0>> /\ handling[1].word.op # "dma"
    PROVE  Kept'
<1>1. CASE cmd1' = cmd1
  BY <1>1 DEF ExiIInv, Kept, Active, ppc
<1>2. CASE cmd1' = <<"result", 0>> /\ handling[1].word.op # "dma"
  <2>1. ASSUME NEW c \in Context, Active(c), stage[c] = "cmd"
        PROVE  Fits(Head(prog[c]), <<"result", 0>>)
    <3>1. c = "main" /\ MainAside
      <4>1. NoTransfer \notin Transfers
        BY OpNeverNone
      <4>2. ~Answering
        <5>1. Answering => handling[1].word \in {WriteStep.word, ReadStep.word}
          BY UmbraSteps DEF Answering, InUmbra
        <5>2. WriteStep.word.op = "dma" /\ ReadStep.word.op = "dma"
          BY DEF WriteStep, ReadStep, Step, Word
        <5> QED
          BY <1>2, <5>1, <5>2
      <4>3. IsrInHand \/ MainInHand
        BY <4>2, InHand
      <4>4. CASE IsrInHand
        BY <2>1, <4>4 DEF IsrInHand, Context
      <4>5. CASE MainInHand
        BY <2>1, <4>5 DEF MainInHand, Context, Idle, Active
      <4> QED
        BY <4>3, <4>4, <4>5
    <3>2. InUmbra
      BY <2>1, <3>1 DEF MainAside, Idle, Spent, Active
    <3>3. Head(prog[c]) \in {WriteStep, ReadStep}
      BY <3>1, <3>2, UmbraSteps DEF InUmbra
    <3> QED
      BY <3>3 DEF Fits, UmbraArgs, WriteStep, ReadStep, Step
  <2> QED
    BY <1>2, <2>1 DEF Kept, Active, ppc
<1> QED
  BY <1>1, <1>2

\* A select ends the protocol of its channel, whose program then goes on with the address.
LEMMA SelectPreserves == ASSUME OneSlot, ExiIInv, DoSelect PROVE ExiIInv'
<1> USE DEF DoSelect
<1>0. handling # <<>> /\ h = handling[1] /\ h.word.op = "select" /\ UNCHANGED <<ppc, asked>>
  BY DEF Taken, h, game
<1>1. Clear' /\ Mail' /\ (MainAside => MainAside') /\ (Idle("isr") => Idle("isr")')
  BY <1>0, Cleared
<1>2. Kept'
  BY <1>0, StillKept
<1>3. Slot = {s0} /\ s0 \in {0, 1} /\ s0 \in Channel
  BY Sole
<1>4. T' = T /\ Waits' = Waits /\ Signal' = Signal /\ Follow' = Follow
  BY DEF T, Waits, Signal, irq, line, game, Follow
<1>5. /\ \/ First /\ Asks /\ MainAside
         \/ Selecting("isr") /\ MainAside
         \/ Selecting("main") /\ Idle("isr")
      /\ h.word = Select(s0).word
  <2>1. /\ AskStep.word.op = "imm" /\ ReplyStep.word.op = "imm"
        /\ \A t : AddressStep(t).word.op = "imm" /\ DataStep(t).word.op = "dma"
        /\ WriteStep.word.op = "dma" /\ ReadStep.word.op = "dma"
    BY DEF AskStep, ReplyStep, AddressStep, DataStep, WriteStep, ReadStep, Step, Word
  <2>2. ~Answering
    BY <1>0, <2>1, UmbraSteps DEF Answering, InUmbra
  <2> QED
    BY <1>0, <2>1, <2>2, InHand DEF IsrInHand, MainInHand, Addressing, Moving, Selecting
<1>6. h.word.chn = s0
  BY <1>5 DEF Select, Step, Word
<1>7. ExiTypeOK'
  <2>1. EXICommand' \in [Channel -> {"none", "status", "block_read", "block_write", "block_erase"}]
    <3>1. EXICommand \in [Channel -> {"none", "status", "block_read", "block_write", "block_erase"}]
      BY DEF ExiIInv, ExiTypeOK
    <3> QED
      BY <3>1
  <2>2. /\ cmd0' \in Words /\ cmd1' \in Args /\ handling' = <<>> /\ umbra_pending_read' \in BOOLEAN
    BY DEF ExiIInv, ExiTypeOK, Finish, Words, Args
  <2> QED
    BY <2>1, <2>2 DEF ExiIInv, ExiTypeOK, irq, line, ppc, game
<1>8. ~Busy(s0)' /\ Unused'
  BY <1>3, <1>6 DEF Busy, ExiIInv, ExiTypeOK, Unused
<1>9. Phase'
  <2>1. Asks => Asks'
    BY <1>4, <1>8 DEF Asks, First, AtAsk, AtReply, ppc
  <2>2. \A c \in Context : Selecting(c) => Due(c)'
    BY <1>4, <1>8 DEF Selecting, Due, ppc
  <2> QED
    BY <1>1, <1>5, <2>1, <2>2 DEF Phase, Context
<1>10. Cards' /\ Programs'
  BY <1>4 DEF ExiIInv, Cards, Programs, Believed, irq, line, ppc, game
<1> QED
  BY <1>1, <1>2, <1>7, <1>8, <1>9, <1>10 DEF ExiIInv

\* An immediate word of a card: the status request, its answer, or a page address.
ImmCases ==
    \/ /\ AtAsk /\ Asks /\ MainAside /\ handling[1].word = AskStep.word /\ handling[1].arg = AskStep.arg
    \/ /\ AtReply /\ Asks /\ MainAside /\ handling[1].word = ReplyStep.word
    \/ Addressing("isr") /\ stage["isr"] = "spin" /\ MainAside
    \/ Addressing("main") /\ stage["main"] = "spin" /\ Idle("isr")

\* An EXIImm in hand asks for the status, reads it or gives the address of a transfer.
LEMMA ImmHandled ==
    ASSUME OneSlot, ExiIInv, handling # <<>>, handling[1].word.op = "imm"
    PROVE  ImmCases
<1>1. /\ Select(s0).word.op = "select" /\ \A t : DataStep(t).word.op = "dma"
      /\ WriteStep.word.op = "dma" /\ ReadStep.word.op = "dma"
  BY DEF Select, DataStep, WriteStep, ReadStep, Step, Word
<1>2. ~Answering
  BY <1>1, UmbraSteps DEF Answering, InUmbra
<1>3. IsrInHand \/ MainInHand
  BY <1>2, InHand
<1>4. CASE IsrInHand
  BY <1>1, <1>4 DEF IsrInHand, ImmCases, Moving, Selecting
<1>5. CASE MainInHand
  BY <1>1, <1>5 DEF MainInHand, ImmCases, Moving, Selecting
<1> QED
  BY <1>3, <1>4, <1>5

\* An address is taken while no page is expected; an erase is signalled at once.
LEMMA ImmPreserves == ASSUME OneSlot, ExiIInv, DoImm PROVE ExiIInv'
<1>0. handling # <<>> /\ h = handling[1] /\ h.word.op = "imm" /\ UNCHANGED <<ppc, asked>>
  BY DEF DoImm, Taken, h, game
<1>1. Clear' /\ Mail' /\ (MainAside => MainAside') /\ (Idle("isr") => Idle("isr")')
  BY <1>0, Cleared DEF DoImm
<1>2. Kept'
  BY <1>0, StillKept DEF DoImm
<1>3. Slot = {s0} /\ s0 \in {0, 1} /\ s0 \in Channel
  BY Sole
<1>4. T' = T /\ Waits' = Waits /\ Follow' = Follow
  BY DEF DoImm, T, Waits, game, Follow
<1>5. ImmCases
  BY <1>0, ImmHandled
<1>6. h.word.chn = s0 /\ h.word = [op |-> h.word.op, chn |-> h.word.chn, mode |-> h.word.mode]
  BY <1>0, <1>5 DEF ImmCases, Addressing, AskStep, ReplyStep, AddressStep, Step, Word
<1>7. /\ EXICommand' = [EXICommand EXCEPT ![s0] = CommandAfter(s0)]
      /\ BlockOff' = IF TakesAddress(s0) THEN [BlockOff EXCEPT ![s0] = h.arg[2]] ELSE BlockOff
      /\ IF h.word.mode = "w" /\ h.arg[1] = "F1" THEN Raise(s0, 2) ELSE UNCHANGED irq
      /\ cmd1' \in {cmd1, <<"result", 0>>}
  BY <1>6 DEF DoImm, EraseSignals
<1>8. /\ EXICommand \in [Channel -> {"none", "status", "block_read", "block_write", "block_erase"}]
      /\ BlockOff \in [Slot -> Page] /\ IRQ_Cause \in [Slot -> {0, 2, 8, 10}]
  BY DEF ExiIInv, ExiTypeOK
<1>9. Unused'
  BY <1>3, <1>7, <1>8 DEF ExiIInv, Unused
<1>10. Programs'
  BY <1>0 DEF ExiIInv, Programs, ppc
<1>11. ASSUME EXICommand'[s0] \in {"none", "status", "block_read", "block_write", "block_erase"},
              BlockOff'[s0] \in Page, EXI_IRQ' \in BOOLEAN, IRQ_Cause' \in [Slot -> {0, 2, 8, 10}]
       PROVE  ExiTypeOK'
  <2>1. EXICommand' \in [Channel -> {"none", "status", "block_read", "block_write", "block_erase"}]
    BY <1>3, <1>7, <1>8, <1>11
  <2>2. BlockOff' \in [Slot -> Page]
    BY <1>3, <1>7, <1>8, <1>11
  <2>3. cmd0' \in Words /\ cmd1' \in Args /\ handling' = <<>>
    BY <1>7 DEF ExiIInv, ExiTypeOK, DoImm, Finish, Words, Args
  <2> QED
    BY <2>1, <2>2, <2>3, <1>11 DEF ExiIInv, ExiTypeOK, DoImm, line, ppc, game
<1>12. CASE AtAsk /\ Asks /\ MainAside /\ handling[1].word = AskStep.word /\ handling[1].arg = AskStep.arg
  <2>1. h.word.mode = "w" /\ h.arg = <<"8300", 0>>
    BY <1>0, <1>12 DEF AskStep, Step, Word
  <2>2. EXICommand'[s0] = "status" /\ BlockOff' = BlockOff /\ UNCHANGED irq
    BY <1>3, <1>7, <1>8, <2>1 DEF CommandAfter, TakesAddress
  <2>3. ExiTypeOK'
    BY <1>3, <1>8, <1>11, <2>2 DEF ExiIInv, ExiTypeOK, irq
  <2>4. Asks'
    BY <1>4, <1>12, <2>2 DEF Asks, AtAsk, Busy, Signal, DoImm, irq, line, ppc
  <2>5. Cards'
    BY <1>4, <2>2 DEF ExiIInv, Cards, Believed, Signal, DoImm, irq, line, game
  <2> QED
    BY <1>1, <1>2, <1>9, <1>10, <1>12, <2>3, <2>4, <2>5 DEF ExiIInv, Phase
<1>13. CASE AtReply /\ Asks /\ MainAside /\ handling[1].word = ReplyStep.word
  <2>1. h.word.mode = "r"
    BY <1>0, <1>13 DEF ReplyStep, Step, Word
  <2>2. EXICommand'[s0] = EXICommand[s0] /\ BlockOff' = BlockOff /\ UNCHANGED irq
    <3>1. CommandAfter(s0) = EXICommand[s0]
      BY <2>1 DEF CommandAfter
    <3>2. ~TakesAddress(s0)
      BY <2>1 DEF TakesAddress
    <3> QED
      BY <1>3, <1>7, <1>8, <2>1, <3>1, <3>2
  <2>3. ExiTypeOK'
    BY <1>3, <1>8, <1>11, <2>2 DEF ExiIInv, ExiTypeOK, irq
  <2>4. Asks'
    BY <1>4, <1>13, <2>2 DEF Asks, AtReply, Busy, Signal, DoImm, irq, line, ppc
  <2>5. Cards'
    BY <1>4, <2>2 DEF ExiIInv, Cards, Believed, Signal, DoImm, irq, line, game
  <2> QED
    BY <1>1, <1>2, <1>9, <1>10, <1>13, <2>3, <2>4, <2>5 DEF ExiIInv, Phase
<1>14. ASSUME NEW c \in Context, Addressing(c), stage[c] = "spin",
              c = "isr" => MainAside, c = "main" => Idle("isr")
       PROVE  ExiIInv'
  <2>0. T \in Transfers /\ ~Busy(s0) /\ ~Signal /\ prog[c] = AtAddress(T)
    BY <1>14 DEF Addressing, Due, Waits
  <2>1. /\ T.op \in {"write", "read", "erase"} /\ h.word.mode = "w" /\ h.arg[2] = T.page /\ T.page \in Page
        /\ h.arg[1] = IF T.op = "write" THEN "F2" ELSE IF T.op = "read" THEN "52" ELSE "F1"
    <3>1. h.word = AddressStep(T).word /\ h.arg = AddressStep(T).arg
      BY <1>0, <1>14 DEF Addressing
    <3>2. T.op \in {"write", "read", "erase"} /\ T.page \in Page
      BY <2>0 DEF Transfers
    <3> QED
      BY <2>0, <3>1, <3>2, Places
  <2>2. /\ BlockOff'[s0] = T.page
        /\ EXICommand'[s0] = IF T.op = "write" THEN "block_write"
                             ELSE IF T.op = "read" THEN "block_read" ELSE "block_erase"
    BY <1>3, <1>7, <1>8, <2>0, <2>1 DEF CommandAfter, TakesAddress
  <2>3. Handled(c)'
    BY <1>0, <1>1, <1>14 DEF Handled, ppc
  <2>4. CASE T.op # "erase"
    <3>1. UNCHANGED irq
      BY <1>7, <2>1, <2>4
    <3>2. ExiTypeOK'
      BY <1>11, <2>1, <2>2, <3>1 DEF ExiIInv, ExiTypeOK, irq
    <3>3. Due(c)'
      BY <1>0, <1>4, <2>0, <2>1, <2>2, <2>3, <2>4, <3>1
      DEF Due, Waits, Ready, Signal, AtAddress, DoImm, irq, line, ppc
    <3>4. Cards'
      BY <1>4, <3>1 DEF ExiIInv, Cards, Believed, Signal, DoImm, irq, line, game
    <3>5. Phase'
      BY <1>1, <1>14, <3>3 DEF Phase, Context
    <3> QED
      BY <1>1, <1>2, <1>9, <1>10, <3>2, <3>4, <3>5 DEF ExiIInv
  <2>5. CASE T.op = "erase"
    <3>1. EXI_IRQ' = TRUE /\ IRQ_Cause' = [IRQ_Cause EXCEPT ![s0] = 2]
      BY <1>7, <2>1, <2>5 DEF Raise
    <3>2. ExiTypeOK'
      <4>1. EXI_IRQ' \in BOOLEAN /\ IRQ_Cause' \in [Slot -> {0, 2, 8, 10}]
        BY <1>8, <3>1
      <4>2. EXICommand'[s0] \in {"none", "status", "block_read", "block_write", "block_erase"}
        BY <2>2
      <4>3. BlockOff'[s0] \in Page
        BY <2>1, <2>2
      <4> QED
        BY <1>11, <4>1, <4>2, <4>3
    <3>3. prog[c] = <<LastStep(T)>> /\ prog'[c] = <<LastStep(T)>>
      BY <1>0, <2>0, <2>5, TransferSteps DEF ppc
    <3>4. Signal' /\ ~Busy(s0)'
      BY <2>2, <2>5, <3>1 DEF Signal, Busy
    <3>5. Settled' /\ MainAside'
      <4>1. CASE c = "isr"
        BY <1>1, <1>4, <1>14, <2>0, <2>3, <3>3, <3>4, <4>1, OpNeverNone DEF Settled, Waits
      <4>2. CASE c = "main"
        <5>1. Idle("isr")'
          BY <1>1, <1>14, <4>2
        <5>2. Spent'
          BY <1>1, <2>0, <2>3, <3>3, <4>2 DEF Spent, Handled
        <5> QED
          BY <1>4, <2>0, <3>4, <5>1, <5>2, OpNeverNone DEF Settled, MainAside, Waits
      <4> QED
        BY <4>1, <4>2 DEF Context
    <3>6. Cards'
      <4>1. ~EXI_IRQ /\ ~exiInt /\ ~exiInt' /\ card = shadow /\ card' = card /\ shadow' = shadow
        BY <2>0 DEF Signal, ExiIInv, Cards, DoImm, line, game
      <4>2. Believed(s0, T)' = shadow'
        BY <1>4, <2>5 DEF Believed
      <4>3. IRQ_Cause'[s0] = Expected(T)
        BY <1>3, <1>8, <2>5, <3>1 DEF Expected
      <4> QED
        BY <1>4, <2>0, <2>5, <3>1, <3>4, <4>1, <4>2, <4>3 DEF Cards, Waits
    <3> QED
      BY <1>1, <1>2, <1>9, <1>10, <3>2, <3>5, <3>6 DEF ExiIInv, Phase
  <2> QED
    BY <2>4, <2>5
<1>15. CASE Addressing("isr") /\ stage["isr"] = "spin" /\ MainAside
  BY <1>14, <1>15 DEF Context
<1>16. CASE Addressing("main") /\ stage["main"] = "spin" /\ Idle("isr")
  BY <1>14, <1>16 DEF Context
<1> QED
  BY <1>5, <1>12, <1>13, <1>15, <1>16 DEF ImmCases

\* A DMA moves the page of the transfer the game waits for, or belongs to the umbra
\* client, and comes while no page is expected.
Rests == Idle("isr") \/ (Waits /\ prog["isr"] = <<LastStep(T)>> /\ Handled("isr"))
DmaDone(c) == Moving(c) /\ MainAside' /\ Rests'

\* What every handler of a DMA establishes, whatever it does with the page.
LEMMA DmaHandled ==
    ASSUME OneSlot, ExiIInv, handling # <<>>, handling[1].word.op = "dma",
           Finish, DmaEnds, UNCHANGED <<cmd1, ppc, asked, waiting, line>>
    PROVE  /\ Clear' /\ Mail' /\ Kept' /\ Unused' /\ Programs' /\ ~Busy(s0)' /\ T' = T
           /\ EXICommand' \in [Channel -> {"none", "status", "block_read", "block_write", "block_erase"}]
           /\ \/ (DmaDone("isr") \/ DmaDone("main")) /\ handling[1].word.chn = s0
              \/ /\ Answering /\ MainAside' /\ (EXI_IRQ' = EXI_IRQ => (Asks \/ Settled)')
                 /\ handling[1].word.chn = 0
                 /\ EXICommand[0] \notin {"block_read", "block_write"}
<1>0. h = handling[1] /\ T' = T /\ Waits' = Waits /\ Follow' = Follow
  BY DEF h, T, Waits, Follow
<1>1. Clear' /\ Mail' /\ (MainAside => MainAside') /\ (Idle("isr") => Idle("isr")')
  BY Cleared
<1>2. Kept' /\ Programs'
  BY StillKept DEF ExiIInv, Programs, ppc
<1>3. Slot = {s0} /\ s0 \in {0, 1} /\ s0 \in Channel /\ 0 \in Channel
  BY Sole DEF Channel
<1>4. EXICommand \in [Channel -> {"none", "status", "block_read", "block_write", "block_erase"}]
  BY DEF ExiIInv, ExiTypeOK
<1>5. EXICommand' = [EXICommand EXCEPT ![h.word.chn] = "none"]
  BY DEF DmaEnds
<1>6. EXICommand' \in [Channel -> {"none", "status", "block_read", "block_write", "block_erase"}]
  BY <1>4, <1>5
<1>7. Unused'
  BY <1>4, <1>5 DEF Unused, ExiIInv
<1>8. /\ Select(s0).word.op = "select" /\ AskStep.word.op = "imm" /\ ReplyStep.word.op = "imm"
      /\ AddressStep(T).word.op = "imm"
  BY DEF Select, AskStep, ReplyStep, AddressStep, Step, Word
<1>9. (IsrInHand /\ Moving("isr")) \/ (MainInHand /\ Moving("main")) \/ Answering
  BY <1>8, InHand DEF IsrInHand, MainInHand, Selecting, Addressing
<1>10. ASSUME NEW c \in Context, Moving(c), stage[c] = "spin",
              c = "isr" => MainAside, c = "main" => Idle("isr")
       PROVE  ~Busy(s0)' /\ DmaDone(c) /\ h.word.chn = s0
  <2>1. T \in Transfers /\ T.op # "erase" /\ prog[c] = <<DataStep(T)>> /\ h.word = DataStep(T).word
    BY <1>0, <1>10 DEF Moving, Due, Waits
  <2>2. h.word.chn = s0
    BY <2>1, Places
  <2>3. ~Busy(s0)'
    BY <1>3, <1>4, <1>5, <2>2 DEF Busy
  <2>4. prog'[c] = <<LastStep(T)>> /\ Handled(c)'
    BY <1>1, <1>10, <2>1 DEF Handled, ppc, LastStep
  <2>5. CASE c = "isr"
    BY <1>0, <1>1, <1>10, <2>1, <2>2, <2>3, <2>4, <2>5 DEF DmaDone, Rests, Waits, LastStep, DataStep
  <2>6. CASE c = "main"
    <3>1. Spent'
      BY <1>1, <2>1, <2>4, <2>6 DEF Spent, Handled
    <3> QED
      BY <1>1, <1>10, <2>2, <2>3, <2>6, <3>1 DEF DmaDone, Rests, MainAside
  <2> QED
    BY <2>5, <2>6 DEF Context
<1>11. CASE Answering
  <2>1. h.word.chn = 0
    <3>1. WriteStep.word.chn = 0 /\ ReadStep.word.chn = 0
      BY DEF WriteStep, ReadStep, Step, Word
    <3> QED
      BY <1>0, <1>11, <3>1, UmbraSteps DEF Answering, InUmbra
  <2>2. EXICommand[0] \notin {"block_read", "block_write"} /\ ~Busy(s0)'
    BY <1>3, <1>4, <1>5, <1>11, <2>1 DEF Answering, Busy, ExiIInv, Unused
  <2>3. MainAside'
    BY <1>1, <1>11 DEF MainAside, Answering
  <2>4. ASSUME EXI_IRQ' = EXI_IRQ PROVE (Asks \/ Settled)'
    <3>1. Signal' = Signal
      BY <2>4 DEF Signal, line
    <3>2. CASE Asks
      BY <1>0, <2>2, <3>1, <3>2 DEF Asks, First, AtAsk, AtReply, ppc
    <3>3. CASE Settled /\ ~Active("isr")
      <4>0. <<LastStep(T)>> # <<>>
        OBVIOUS
      <4>1. Idle("isr")
        BY <3>3, <4>0 DEF Settled, Active
      <4> QED
        BY <1>0, <1>1, <2>2, <3>1, <3>3, <4>1 DEF Settled
    <3> QED
      BY <1>11, <3>2, <3>3 DEF Answering
  <2> QED
    BY <1>0, <1>1, <1>2, <1>6, <1>7, <1>11, <2>1, <2>2, <2>3, <2>4
<1>12. CASE IsrInHand /\ Moving("isr")
  BY <1>0, <1>1, <1>2, <1>6, <1>7, <1>10, <1>12 DEF IsrInHand, Context
<1>13. CASE MainInHand /\ Moving("main")
  BY <1>0, <1>1, <1>2, <1>6, <1>7, <1>10, <1>13 DEF MainInHand, Context
<1> QED
  BY <1>9, <1>11, <1>12, <1>13

\* What the words and arguments of the mailbox hold.
LEMMA ArgTypes ==
    ASSUME NEW a \in Args
    PROVE  /\ a[1] = "umbra" => /\ a[2] \in Requests /\ a[2][1] \in {"write", "delete", "read"}
                                /\ a[2][1] = "write" => a[2][2] \in Setting
           /\ a[1] = "page" => a[2] \in PageContent
           /\ a[1] = "pagebuf" => a[2] \in Slot
<1>1. CASE a \in {"umbra"} \X Requests
  BY <1>1 DEF Requests, Changes
<1>2. CASE a \in {"page"} \X PageContent
  BY <1>2
<1>3. CASE a \in {"pagebuf"} \X Slot
  BY <1>3
<1>4. CASE a \in ({"F1", "F2", "52"} \X Page) \cup ({"8300", "umbrabuf", "result"} \X {0})
  BY <1>4
<1> QED
  BY <1>1, <1>2, <1>3, <1>4 DEF Args

\* A command of the umbra client, or the page of a transfer taken for one.
LEMMA UmbraKeeps ==
    ASSUME OneSlot, ExiIInv, ForUmbra, Finish, DmaEnds,
           UNCHANGED <<cmd1, irq, BlockOff, card, line, ppc, buffer, waiting, shadow, asked, issued>>,
           ExiTypeOK'
    PROVE  ExiIInv'
<1>1. handling # <<>> /\ h = handling[1] /\ h.word.op = "dma" /\ h.word.chn = 0 /\ Magic(h.arg)
  BY DEF ForUmbra, Taken, h
<1>2. /\ Clear' /\ Mail' /\ Kept' /\ Unused' /\ Programs' /\ ~Busy(s0)' /\ T' = T
      /\ \/ (DmaDone("isr") \/ DmaDone("main")) /\ h.word.chn = s0
         \/ MainAside' /\ (Asks \/ Settled)'
  BY <1>1, DmaHandled DEF irq
<1>3. Signal' = Signal /\ Waits' = Waits
  BY <1>2 DEF Signal, Waits, irq, line
<1>4. Cards'
  BY <1>2, <1>3 DEF ExiIInv, Cards, Believed, irq, line
<1>5. ASSUME NEW c \in Context, DmaDone(c), h.word.chn = s0 PROVE Phase'
  <2>1. T \in Transfers /\ ~Signal /\ h.arg = DataStep(T).arg
    BY <1>1, <1>5 DEF DmaDone, Moving, Due, Waits
  <2>2. s0 = 0 /\ GZ # {}
    BY <1>1, <1>5, <2>1, Places DEF Magic, UmbraArgs
  <2>3. Settled'
    BY <1>2, <1>3, <1>5, <2>1, <2>2, OpNeverNone DEF Settled, DmaDone, Rests
  <2> QED
    BY <1>5, <2>3 DEF Phase, DmaDone
<1>6. Phase'
  BY <1>2, <1>5 DEF Phase, Context
<1> QED
  BY <1>2, <1>4, <1>6 DEF ExiIInv

\* A command of the umbra client leaves the card's transfer where it was.
LEMMA UmbraWritePreserves == ASSUME OneSlot, ExiIInv, UmbraWrite PROVE ExiIInv'
<1> USE DEF UmbraWrite
<1>1. handling # <<>> /\ h = handling[1] /\ h.word.chn \in Channel
  BY DEF ForUmbra, Taken, h, Channel
<1>2. h.arg \in Args
  BY <1>1, InHand
<1>3. /\ umbra_cmd' \in {"none", "write", "delete", "read", "unknown"}
      /\ umbra_cmd' = "write" => h.arg[2][2] \in Setting
  BY <1>2, ArgTypes
<1>4. settings \in Setting \cup {NoFile, "torn"} /\ umbra_last_status \in Statuses /\ lost \in BOOLEAN
  BY DEF ExiIInv, ExiTypeOK
<1>5. settings' \in Setting \cup {NoFile, "torn"} /\ umbra_last_status' \in Statuses /\ lost' \in BOOLEAN
  <2>1. CASE umbra_cmd' = "write" /\ WriteSettings(h.arg[2][2])
    BY <1>3, <1>4, <2>1 DEF WriteSettings, Statuses
  <2>2. CASE DeleteSettings
    BY <1>4, <2>2 DEF DeleteSettings, Statuses
  <2>3. CASE UNCHANGED <<settings, umbra_last_status, lost>>
    BY <1>4, <2>3
  <2> QED
    BY <2>1, <2>2, <2>3
<1>6. EXICommand' \in [Channel -> {"none", "status", "block_read", "block_write", "block_erase"}]
  <2>1. EXICommand \in [Channel -> {"none", "status", "block_read", "block_write", "block_erase"}]
    BY DEF ExiIInv, ExiTypeOK
  <2> QED
    BY <2>1 DEF DmaEnds
<1>7. cmd0' \in Words /\ handling' = <<>> /\ umbra_pending_read' \in BOOLEAN
  BY DEF Finish, Words
<1>8. ExiTypeOK'
  BY <1>3, <1>5, <1>6, <1>7 DEF ExiIInv, ExiTypeOK, irq, line, ppc, game
<1> QED
  BY <1>8, UmbraKeeps DEF game

\* So does the read of its answer.
LEMMA UmbraReadPreserves == ASSUME OneSlot, ExiIInv, UmbraRead PROVE ExiIInv'
<1> USE DEF UmbraRead
<1>1. answer' \in Statuses \cup Setting \cup {"none", "zeros", "torn"}
  <2>1. /\ settings \in Setting \cup {NoFile, "torn"} /\ umbra_last_status \in Statuses
        /\ answer \in Statuses \cup Setting \cup {"none", "zeros", "torn"}
    BY DEF ExiIInv, ExiTypeOK
  <2>2. ReadSettings \subseteq Setting \cup {"zeros", "torn"}
    BY <2>1 DEF ReadSettings
  <2> QED
    BY <2>1, <2>2
<1>2. EXICommand' \in [Channel -> {"none", "status", "block_read", "block_write", "block_erase"}]
  <2>1. EXICommand \in [Channel -> {"none", "status", "block_read", "block_write", "block_erase"}]
    BY DEF ExiIInv, ExiTypeOK
  <2> QED
    BY <2>1 DEF DmaEnds
<1>3. cmd0' \in Words /\ handling' = <<>> /\ umbra_pending_read' \in BOOLEAN
  BY DEF Finish, Words
<1>4. ExiTypeOK'
  BY <1>1, <1>2, <1>3 DEF ExiIInv, ExiTypeOK, irq, line, ppc
<1> QED
  BY <1>4, UmbraKeeps

\* A page reaches the card, or the game, with the interrupt that says so; any other
\* DMA reaches nothing.
LEMMA CardDmaPreserves == ASSUME OneSlot, ExiIInv, DoCardDma PROVE ExiIInv'
<1> USE DEF DoCardDma
<1>1. handling # <<>> /\ h = handling[1] /\ h.word.op = "dma"
  BY DEF Taken, h
<1>2. /\ Clear' /\ Mail' /\ Kept' /\ Unused' /\ Programs' /\ ~Busy(s0)' /\ T' = T
      /\ EXICommand' \in [Channel -> {"none", "status", "block_read", "block_write", "block_erase"}]
      /\ \/ (DmaDone("isr") \/ DmaDone("main")) /\ h.word.chn = s0
         \/ /\ MainAside' /\ (EXI_IRQ' = EXI_IRQ => (Asks \/ Settled)')
            /\ h.word.chn = 0 /\ EXICommand[0] \notin {"block_read", "block_write"}
  BY <1>1, DmaHandled DEF game
<1>3. Slot = {s0} /\ Waits' = Waits
  BY <1>2, Sole DEF Waits
<1>4. /\ card \in [Slot -> [Page -> PageContent]] /\ buffer \in [Slot -> PageContent]
      /\ BlockOff \in [Slot -> Page] /\ IRQ_Cause \in [Slot -> {0, 2, 8, 10}]
  BY DEF ExiIInv, ExiTypeOK
<1>5. cmd0' \in Words /\ handling' = <<>>
  BY DEF Finish, Words
<1>6. ASSUME card' \in [Slot -> [Page -> PageContent]], buffer' \in [Slot -> PageContent],
             EXI_IRQ' \in BOOLEAN, IRQ_Cause' \in [Slot -> {0, 2, 8, 10}]
      PROVE  ExiTypeOK'
  BY <1>2, <1>5, <1>6 DEF ExiIInv, ExiTypeOK, line, ppc, game
<1>7. CASE MainAside' /\ (EXI_IRQ' = EXI_IRQ => (Asks \/ Settled)')
           /\ h.word.chn = 0 /\ EXICommand[0] \notin {"block_read", "block_write"}
  <2>1. UNCHANGED <<irq, card, buffer>>
    BY <1>7
  <2>2. Phase'
    BY <1>7, <2>1 DEF Phase, irq
  <2>3. Cards'
    BY <1>2, <1>3, <2>1 DEF ExiIInv, Cards, Signal, Believed, irq, line, game
  <2>4. ExiTypeOK'
    BY <1>4, <1>6, <2>1 DEF ExiIInv, ExiTypeOK, irq
  <2> QED
    BY <1>2, <2>2, <2>3, <2>4 DEF ExiIInv
<1>8. ASSUME NEW c \in Context, DmaDone(c), h.word.chn = s0 PROVE ExiIInv'
  <2>1. /\ T \in Transfers /\ T.op \in {"write", "read"} /\ ~Signal /\ Ready
        /\ h.word = DataStep(T).word /\ h.arg = DataStep(T).arg
    BY <1>1, <1>8, OpNeverNone DEF DmaDone, Moving, Due, Waits
  <2>2. /\ T.page \in Page /\ BlockOff[s0] = T.page
        /\ T.op = "write" => /\ EXICommand[s0] = "block_write" /\ h.word.mode = "w"
                             /\ h.arg = <<"page", T.content>> /\ T.content \in PageContent
        /\ T.op = "read" => EXICommand[s0] = "block_read" /\ h.word.mode = "r" /\ h.arg = <<"pagebuf", s0>>
    <3>1. T.page \in Page /\ (T.op = "write" => T.content \in PageContent)
      BY <2>1 DEF Transfers
    <3> QED
      BY <2>1, <3>1, Places DEF Ready
  <2>3. /\ ~EXI_IRQ /\ ~exiInt /\ ~exiInt' /\ card = shadow /\ shadow' = shadow
    BY <2>1 DEF Signal, ExiIInv, Cards, line, game
  <2>4. ASSUME Signal' PROVE Phase'
    <3>1. Settled'
      BY <1>2, <1>3, <1>8, <2>1, <2>4, OpNeverNone DEF Settled, DmaDone, Rests, Waits
    <3> QED
      BY <1>8, <3>1 DEF Phase, DmaDone
  <2>5. CASE T.op = "write"
    <3>1. /\ card' = [card EXCEPT ![s0][T.page] = T.content] /\ buffer' = buffer
          /\ EXI_IRQ' = TRUE /\ IRQ_Cause' = [IRQ_Cause EXCEPT ![s0] = 10]
      BY <1>8, <2>2, <2>5 DEF Raise
    <3>2. Believed(s0, T)' = card'
      BY <1>2, <2>3, <2>5, <3>1 DEF Believed
    <3>3. Cards'
      BY <1>2, <1>3, <1>4, <2>1, <2>3, <2>5, <3>1, <3>2 DEF Cards, Waits, Expected, Signal
    <3>4. ExiTypeOK'
      BY <1>4, <1>6, <2>2, <2>5, <3>1
    <3> QED
      BY <1>2, <2>4, <3>1, <3>3, <3>4 DEF ExiIInv, Signal
  <2>6. CASE T.op = "read"
    <3>1. /\ buffer' = [buffer EXCEPT ![s0] = card[s0][T.page]] /\ card' = card
          /\ EXI_IRQ' = TRUE /\ IRQ_Cause' = [IRQ_Cause EXCEPT ![s0] = 8]
      BY <1>8, <2>2, <2>6 DEF Raise
    <3>2. Believed(s0, T)' = card'
      BY <1>2, <2>3, <2>6, <3>1 DEF Believed
    <3>3. buffer'[s0] = shadow'[s0][T.page]
      BY <1>3, <1>4, <2>3, <3>1
    <3>4. Cards'
      BY <1>2, <1>3, <1>4, <2>1, <2>3, <2>6, <3>1, <3>2, <3>3 DEF Cards, Waits, Expected, Signal
    <3>5. ExiTypeOK'
      <4>1. card[s0][T.page] \in PageContent
        BY <1>3, <1>4, <2>2
      <4> QED
        BY <1>3, <1>4, <1>6, <3>1, <4>1
    <3> QED
      BY <1>2, <2>4, <3>1, <3>4, <3>5 DEF ExiIInv, Signal
  <2> QED
    BY <2>1, <2>5, <2>6
<1> QED
  BY <1>2, <1>7, <1>8 DEF Context

\* The kernel takes the command with the argument it was stored with.
LEMMA TakePreserves == ASSUME OneSlot, ExiIInv, Take PROVE ExiIInv'
<1> USE DEF Take
<1>1. handling = <<>> /\ ~Clear /\ ~Clear' /\ handling' # <<>>
      /\ handling'[1].word = cmd0 /\ handling'[1].arg = cmd1
  BY DEF Clear
<1>2. /\ UNCHANGED <<mailbox, irq, dev, line, ppc, buffer, game>>
      /\ T' = T /\ Waits' = Waits /\ Signal' = Signal /\ Follow' = Follow
  BY DEF T, Waits, Signal, Follow, irq, line, game
<1>3. ExiTypeOK'
  <2>1. handling' = <<Step(cmd0, cmd1)>>
    BY DEF Step
  <2> QED
    BY <1>2, <2>1 DEF ExiIInv, ExiTypeOK, mailbox, irq, dev, line, ppc, game
<1>4. Programs' /\ Kept' /\ Unused' /\ Cards'
  BY <1>2 DEF ExiIInv, Programs, Kept, Unused, Cards, Active, Believed, mailbox, irq, dev, line, ppc, game
<1>5. Phase'
  <2>1. \A c \in Context : Due(c) => Due(c)'
    BY <1>1, <1>2 DEF Due, Handled, Ready, Busy, ppc, dev
  <2>2. Asks => Asks'
    BY <1>2 DEF Asks, First, AtAsk, AtReply, Busy, ppc, dev
  <2>3. Settled => Settled'
    BY <1>1, <1>2 DEF Settled, Idle, Handled, Busy, ppc, dev
  <2>4. MainAside => MainAside'
    <3>1. WriteStep' = WriteStep /\ ReadStep' = ReadStep
      BY <1>2 DEF WriteStep, ReadStep, game
    <3> QED
      BY <1>1, <1>2, <3>1 DEF MainAside, Idle, InUmbra, Spent, AtWrite, AtRead, Active, ppc, game
  <2>5. Idle("isr") => Idle("isr")'
    BY <1>2 DEF Idle, ppc
  <2> QED
    BY <2>1, <2>2, <2>3, <2>4, <2>5 DEF ExiIInv, Phase, Context
<1>6. Mail'
  <2>1. ASSUME NEW c \in Context, Box(c) PROVE Box(c)'
    <3>1. stage[c] = "spin" /\ cmd0 = Head(prog[c]).word /\ Fits(Head(prog[c]), cmd1)
      BY <1>1, <2>1 DEF Box, Carries
    <3> QED
      BY <1>1, <1>2, <2>1, <3>1 DEF Box, Carries, Active, ppc, mailbox
  <2>2. ~Carries("main")
    BY <1>1 DEF Carries
  <2>3. Box("isr") \/ (Box("main") /\ (Active("isr") => First /\ stage["isr"] # "spin" /\ (InUmbra \/ Clear)))
    BY <1>1, <2>2 DEF ExiIInv, Mail
  <2>4. CASE Box("isr")
    BY <2>1, <2>4 DEF Mail, Context
  <2>5. CASE Box("main") /\ (Active("isr") => First /\ stage["isr"] # "spin" /\ InUmbra)
    <3>1. Box("main")'
      BY <2>1, <2>5 DEF Context
    <3>2. WriteStep' = WriteStep /\ ReadStep' = ReadStep
      BY <1>2 DEF WriteStep, ReadStep, game
    <3> QED
      BY <1>2, <2>5, <3>1, <3>2 DEF Mail, Active, First, InUmbra, AtWrite, AtRead, ppc, game
  <2> QED
    BY <1>1, <2>3, <2>4, <2>5
<1> QED
  BY <1>3, <1>4, <1>5, <1>6 DEF ExiIInv

\* The interrupt that becomes visible is the one that was due.
LEMMA InterruptDuePreserves == ASSUME OneSlot, ExiIInv, EXIInterrupt PROVE ExiIInv'
<1> USE DEF EXIInterrupt, IrqDone
<1>1. /\ UNCHANGED <<mailbox, handling, dev, ppc, buffer, game>> /\ Signal /\ Signal'
      /\ T' = T /\ Waits' = Waits /\ Follow' = Follow /\ Clear' = Clear
  BY DEF T, Waits, Signal, Follow, Clear, mailbox, game
<1>2. Slot = {s0}
  BY Sole
<1>3. ExiTypeOK'
  <2>1. cause' \in [Slot -> {0, 2, 8, 10}] /\ IRQ_Cause' \in [Slot -> {0, 2, 8, 10}]
    BY DEF ExiIInv, ExiTypeOK
  <2>2. EXI_IRQ' \in BOOLEAN /\ exiInt' \in BOOLEAN
    OBVIOUS
  <2> QED
    BY <1>1, <2>1, <2>2 DEF ExiIInv, ExiTypeOK, mailbox, dev, ppc, game
<1>4. Programs' /\ Kept' /\ Unused'
  BY <1>1 DEF ExiIInv, Programs, Kept, Unused, Active, mailbox, dev, ppc
<1>5. WriteStep' = WriteStep /\ ReadStep' = ReadStep /\ (InUmbra => InUmbra')
  BY <1>1 DEF WriteStep, ReadStep, InUmbra, AtWrite, AtRead, ppc, game
<1>6. MainAside' /\ Settled'
  <2>1. MainAside /\ Settled
    BY <1>1 DEF ExiIInv, Phase, Due, Asks
  <2>2. MainAside'
    BY <1>1, <1>5, <2>1 DEF MainAside, Idle, Spent, Active, ppc
  <2>3. Settled'
    BY <1>1, <2>1 DEF Settled, Idle, Handled, Busy, ppc, dev
  <2> QED
    BY <2>2, <2>3
<1>7. Mail'
  <2>1. \A c \in Context : (Box(c) => Box(c)') /\ (Carries(c) => Carries(c)')
    BY <1>1 DEF Box, Carries, Active, ppc, mailbox
  <2> QED
    BY <1>1, <1>5, <2>1 DEF ExiIInv, Mail, First, Active, Context, ppc, mailbox
<1>8. Cards'
  BY <1>1 DEF ExiIInv, Cards, Believed, Signal, dev, game
<1> QED
  BY <1>3, <1>4, <1>6, <1>7, <1>8 DEF ExiIInv, Phase

-----------------------------------------------------------------------------
(* The game's steps                                                        *)

\* The handler's next step is one of a card program; meanwhile the thread's is one of
\* the umbra client, or it only spins.
LEMMA HandlerStep ==
    ASSUME OneSlot, ExiIInv, Active("isr")
    PROVE  /\ MainAside
           /\ Head(prog["isr"]).arg[1] \notin UmbraArgs \/ Head(prog["isr"]).word.op = "select"
<1>1. T \in Transfers \cup {NoTransfer} /\ (Waits \/ T = NoTransfer)
  BY Sole DEF ExiIInv, ExiTypeOK, T, Waits
<1>2. MainAside /\ (Due("isr") \/ Asks \/ (Waits /\ prog["isr"] = <<LastStep(T)>>))
  BY DEF ExiIInv, Phase, Idle, Active, Settled
<1>3. /\ Select(s0).word.op = "select"
      /\ AskStep.arg[1] \notin UmbraArgs /\ ReplyStep.arg[1] \notin UmbraArgs
  BY DEF Select, AskStep, ReplyStep, Step, Word, UmbraArgs
<1>4. CASE Due("isr")
  BY <1>2, <1>3, <1>4, TransferSteps, Places DEF Due, Waits
<1>5. CASE Asks
  BY <1>1, <1>2, <1>3, <1>5, HandlerSteps DEF Asks
<1>6. CASE Waits /\ prog["isr"] = <<LastStep(T)>>
  <2>1. Head(prog["isr"]) = LastStep(T)
    BY <1>6
  <2> QED
    BY <1>2, <1>6, <2>1, Places DEF Waits, LastStep
<1> QED
  BY <1>2, <1>4, <1>5, <1>6

\* The steps of a program are steps, and a word of one is a command.
LEMMA NextStep ==
    ASSUME OneSlot, ExiIInv, NEW c \in Context, Active(c)
    PROVE  Head(prog[c]) \in Steps /\ Tail(prog[c]) \in Seq(Steps)
BY DEF ExiIInv, Programs, Active

\* The programs stand where they stood: so does the phase, if what is said of the
\* mailbox still holds.
LEMMA SamePhase ==
    ASSUME ExiIInv, UNCHANGED <<prog, irq, dev, line, waiting, asked>>,
           \A c \in Context : Handled(c)' <=> Handled(c),
           \A c \in Context : stage'[c] = stage[c] \/ prog[c] # <<>>,
           MainAside => MainAside'
    PROVE  Phase'
<1>1. T' = T /\ Waits' = Waits /\ Signal' = Signal /\ Follow' = Follow
  BY DEF T, Waits, Signal, Follow, irq, line
<1>2. \A c \in Context : Due(c) => Due(c)'
  BY <1>1 DEF Due, Ready, Busy, dev
<1>3. Asks => Asks'
  BY <1>1 DEF Asks, First, AtAsk, AtReply, Busy, dev
<1>4. \A c \in Context : Idle(c) => Idle(c)'
  BY DEF Idle
<1>5. Settled => Settled'
  BY <1>1, <1>4 DEF Settled, Busy, dev, Context
<1> QED
  BY <1>2, <1>3, <1>4, <1>5 DEF ExiIInv, Phase, Context

\* The store to EXI_CMD_1 spoils only an argument of the umbra client.
LEMMA StoreArgPreserves == ASSUME OneSlot, ExiIInv, NEW c \in Context, StoreArg(c) PROVE ExiIInv'
<1> USE DEF StoreArg
<1>1. Active(c) /\ (c = "main" => ~Active("isr")) /\ stage[c] = "arg"
  BY DEF Runs
<1>2. /\ UNCHANGED <<cmd0, handling, irq, dev, line, prog, buffer, game>> /\ Clear' = Clear
      /\ stage \in [Context -> {"arg", "cmd", "spin"}]
  BY DEF Clear, ExiIInv, ExiTypeOK
<1>3. stage' = [stage EXCEPT ![c] = "cmd"] /\ stage'[c] = "cmd"
      /\ \A d \in Context : d # c => stage'[d] = stage[d]
  BY <1>2
<1>4. cmd1' \in Args
  <2>1. Head(prog[c]).arg \in Args
    BY <1>1, NextStep DEF Steps
  <2> QED
    BY <2>1 DEF ExiIInv, ExiTypeOK
<1>5. ExiTypeOK'
  BY <1>2, <1>3, <1>4 DEF ExiIInv, ExiTypeOK, irq, dev, line, game
<1>6. Programs' /\ Unused' /\ Cards'
  BY <1>2 DEF ExiIInv, Programs, Unused, Cards, T, Signal, Waits, Believed, irq, dev, line, game
<1>7. Phase'
  <2>1. \A d \in Context : Handled(d)' <=> Handled(d)
    BY <1>1, <1>2, <1>3 DEF Handled
  <2>2. \A d \in Context : stage'[d] = stage[d] \/ prog[d] # <<>>
    BY <1>1, <1>3 DEF Active
  <2>3. MainAside => MainAside'
    <3>1. WriteStep' = WriteStep /\ ReadStep' = ReadStep
      BY <1>2 DEF WriteStep, ReadStep, game
    <3> QED
      BY <1>1, <1>2, <1>3, <3>1 DEF MainAside, Idle, InUmbra, Spent, AtWrite, AtRead, Active, Context, game
  <2> QED
    BY <1>2, <2>1, <2>2, <2>3, SamePhase DEF game
<1>8. Kept'
  <2>1. Fits(Head(prog[c]), cmd1')
    BY DEF Fits
  <2>2. ASSUME NEW d \in Context, d # c, Active(d), stage[d] = "cmd" PROVE Fits(Head(prog[d]), cmd1')
    <3>1. Fits(Head(prog[d]), cmd1)
      BY <2>2 DEF ExiIInv, Kept
    <3>2. d = "main" /\ c = "isr" /\ Active("isr")
      BY <1>1, <2>2 DEF Context
    <3>3. InUmbra
      BY <2>2, <3>2, HandlerStep DEF MainAside, Idle, Spent, Active
    <3>4. Head(prog["main"]).arg[1] \in UmbraArgs
      BY <3>3, UmbraSteps DEF InUmbra, WriteStep, ReadStep, Step, UmbraArgs
    <3> QED
      BY <3>1, <3>2, <3>4, HandlerStep DEF Fits
  <2> QED
    BY <1>2, <1>3, <2>1, <2>2 DEF Kept, Active
<1>9. Mail'
  <2>1. CASE Clear
    BY <1>1, <1>2, <2>1 DEF Mail, Box, Active, Context
  <2>2. CASE c = "isr" /\ ~Clear
    <3>1. Box("main") /\ First /\ InUmbra
      BY <1>1, <2>2 DEF ExiIInv, Mail, Box
    <3>2. T \in Transfers \cup {NoTransfer}
      BY Sole DEF ExiIInv, ExiTypeOK, T
    <3>3. Head(prog["isr"]).word.op = "select"
      BY <3>1, <3>2, HandlerSteps DEF Waits, Select, Step, Word
    <3>4. cmd1' = cmd1
      BY <2>2, <3>3
    <3>5. Box("main")'
      BY <1>2, <1>3, <2>2, <3>1, <3>4 DEF Box, Carries, Active, Context
    <3>6. InUmbra' /\ First'
      BY <1>2, <3>1 DEF InUmbra, AtWrite, AtRead, WriteStep, ReadStep, First, Follow, T, game
    <3> QED
      BY <1>1, <1>2, <1>3, <2>2, <3>5, <3>6 DEF Mail
  <2>3. CASE c = "main" /\ ~Clear
    BY <1>1, <2>3, HandlerSteps DEF ExiIInv, Mail, Box, Active
  <2> QED
    BY <2>1, <2>2, <2>3 DEF Context
<1> QED
  BY <1>5, <1>6, <1>7, <1>8, <1>9 DEF ExiIInv

\* The words of the programs are commands.
LEMMA NextWord ==
    ASSUME OneSlot, ExiIInv, NEW c \in Context, Active(c)
    PROVE  Head(prog[c]).word # NoCmd /\ Head(prog[c]).word \in Words
<1>1. T \in Transfers \cup {NoTransfer} /\ (Waits \/ T = NoTransfer)
  BY Sole DEF ExiIInv, ExiTypeOK, T, Waits
<1>2. /\ Select(s0).word.op # "none" /\ AskStep.word.op # "none" /\ ReplyStep.word.op # "none"
      /\ \A t : AddressStep(t).word.op # "none" /\ DataStep(t).word.op # "none" /\ LastStep(t).word.op # "none"
      /\ WriteStep.word.op # "none" /\ ReadStep.word.op # "none" /\ NoCmd.op = "none"
  BY DEF Select, AskStep, ReplyStep, AddressStep, DataStep, WriteStep, ReadStep, LastStep, Step, Word, NoCmd
<1>3. ASSUME Due(c) PROVE Head(prog[c]).word.op # "none"
  BY <1>2, <1>3, TransferSteps DEF Due, Waits
<1>4. ASSUME Asks PROVE prog["isr"] # <<>> /\ Head(prog["isr"]).word.op # "none"
  BY <1>1, <1>2, <1>4, HandlerSteps DEF Asks
<1>5. \A t : Head(<<LastStep(t)>>) = LastStep(t)
  OBVIOUS
<1>6. ASSUME Settled, Active("isr") PROVE Head(prog["isr"]).word.op # "none"
  BY <1>2, <1>5, <1>6 DEF Settled, Idle, Active
<1>7. ASSUME MainAside, Active("main") PROVE Head(prog["main"]).word.op # "none"
  BY <1>2, <1>5, <1>7, UmbraSteps DEF MainAside, InUmbra, Spent, Idle, Active
<1>8. Head(prog[c]).word.op # "none"
  BY <1>3, <1>4, <1>6, <1>7 DEF ExiIInv, Phase, Idle, Active, Context
<1> QED
  BY <1>2, <1>8, NextStep DEF Steps

\* The store to EXI_CMD_0 finds it empty, or overwrites a command of the umbra client.
LEMMA StoreCmdPreserves == ASSUME OneSlot, ExiIInv, NEW c \in Context, StoreCmd(c) PROVE ExiIInv'
<1> USE DEF StoreCmd
<1>1. Active(c) /\ (c = "main" => ~Active("isr")) /\ stage[c] = "cmd"
  BY DEF Runs
<1>2. /\ UNCHANGED <<cmd1, handling, irq, dev, line, prog, buffer, game>>
      /\ stage \in [Context -> {"arg", "cmd", "spin"}]
  BY DEF ExiIInv, ExiTypeOK
<1>3. stage' = [stage EXCEPT ![c] = "spin"] /\ stage'[c] = "spin"
      /\ \A d \in Context : d # c => stage'[d] = stage[d]
  BY <1>2
<1>4. cmd0' = Head(prog[c]).word /\ cmd0' \in Words /\ ~Clear'
  BY <1>1, NextWord DEF Clear
<1>5. ExiTypeOK'
  BY <1>2, <1>3, <1>4 DEF ExiIInv, ExiTypeOK, irq, dev, line, game
<1>6. Programs' /\ Unused' /\ Cards'
  BY <1>2 DEF ExiIInv, Programs, Unused, Cards, T, Signal, Waits, Believed, irq, dev, line, game
<1>7. WriteStep' = WriteStep /\ ReadStep' = ReadStep /\ InUmbra' = InUmbra /\ First' = First
  BY <1>2 DEF WriteStep, ReadStep, InUmbra, AtWrite, AtRead, First, Follow, T, game
<1>8. Fits(Head(prog[c]), cmd1)
  BY <1>1 DEF ExiIInv, Kept
<1>9. ASSUME ~Clear PROVE c = "isr" /\ Box("main") /\ First /\ InUmbra
  BY <1>1, <1>9, HandlerSteps DEF ExiIInv, Mail, Box, Context
<1>10. ASSUME NEW d \in Context PROVE ~Handled(d)' /\ (Handled(d) => d = "main" /\ c = "isr")
  <2>1. Active("isr") \/ stage["isr"] = "arg"
    <3>1. T \in Transfers \cup {NoTransfer} /\ (Waits \/ T = NoTransfer)
      BY Sole DEF ExiIInv, ExiTypeOK, T, Waits
    <3>2. Due("isr") \/ Asks => Active("isr")
      BY <3>1, TransferSteps, HandlerSteps DEF Due, Asks, Active, Waits
    <3>3. <<LastStep(T)>> # <<>>
      OBVIOUS
    <3> QED
      BY <3>2, <3>3 DEF ExiIInv, Phase, Settled, Idle, Active
  <2> QED
    BY <1>1, <1>4, <2>1 DEF Handled, Context
<1>11. MainAside => MainAside'
  BY <1>1, <1>2, <1>3, <1>7 DEF MainAside, Idle, Spent, Active, Context
<1>12. Phase'
  <2>1. T' = T /\ Waits' = Waits /\ Signal' = Signal /\ Follow' = Follow
    BY <1>2 DEF T, Waits, Signal, Follow, irq, line, game
  <2>2. CASE c = "main"
    <3>1. \A d \in Context : Handled(d)' <=> Handled(d)
      BY <1>10, <2>2
    <3>2. \A d \in Context : stage'[d] = stage[d] \/ prog[d] # <<>>
      BY <1>1, <1>3 DEF Active
    <3> QED
      BY <1>2, <1>11, <3>1, <3>2, SamePhase DEF game
  <2>3. CASE c = "isr"
    <3>1. MainAside /\ (Due("isr") \/ Asks)
      BY <1>1, <2>3 DEF ExiIInv, Phase, Settled, Idle, Active, Handled
    <3>2. Due("isr") => Due("isr")'
      BY <1>2, <1>10, <2>1, <2>3 DEF Due, Ready, Busy, dev, Context
    <3>3. Asks => Asks'
      BY <1>2, <2>1 DEF Asks, First, AtAsk, AtReply, Busy, dev
    <3> QED
      BY <1>11, <3>1, <3>2, <3>3 DEF Phase
  <2> QED
    BY <2>2, <2>3 DEF Context
<1>13. Kept'
  BY <1>2, <1>3 DEF ExiIInv, Kept, Active
<1>14. Mail'
  <2>1. CASE handling = <<>>
    <3>1. Box(c)'
      BY <1>1, <1>2, <1>3, <1>4, <1>8, <2>1 DEF Box, Active
    <3> QED
      BY <1>1, <1>2, <3>1 DEF Mail, Active, Context
  <2>2. CASE handling # <<>>
    <3>1. c = "isr" /\ Box("main") /\ First /\ InUmbra
      BY <1>9, <2>2 DEF Clear
    <3>2. Carries("main") /\ stage["main"] = "spin"
      BY <2>2, <3>1 DEF Box, Clear
    <3>3. T \in Transfers \cup {NoTransfer}
      BY Sole DEF ExiIInv, ExiTypeOK, T
    <3>4. cmd0' = Select(s0).word /\ Select(s0)' = Select(s0)
      BY <1>4, <3>1, <3>3, HandlerSteps DEF Waits, Select
    <3> QED
      BY <1>2, <1>3, <1>7, <3>1, <3>2, <3>4 DEF Mail, Carries, Context
  <2> QED
    BY <2>1, <2>2
<1> QED
  BY <1>5, <1>6, <1>12, <1>13, <1>14 DEF ExiIInv

\* A context leaves ready_loop with its command done, and the mailbox empty.
LEMMA SpinEndsPreserves == ASSUME OneSlot, ExiIInv, NEW c \in Context, SpinEnds(c) PROVE ExiIInv' /\ Clear
<1> USE DEF SpinEnds
<1>1. Active(c) /\ (c = "main" => ~Active("isr")) /\ stage[c] = "spin" /\ cmd0 # Head(prog[c]).word
  BY DEF Runs
<1>2. /\ UNCHANGED <<cmd0, cmd1, handling, irq, dev, line, buffer, game>>
      /\ stage \in [Context -> {"arg", "cmd", "spin"}] /\ prog \in [Context -> Seq(Steps)]
  BY DEF ExiIInv, ExiTypeOK, Programs, mailbox
<1>3. /\ stage' = [stage EXCEPT ![c] = "arg"] /\ prog' = [prog EXCEPT ![c] = Tail(prog[c])]
      /\ stage'[c] = "arg" /\ prog'[c] = Tail(prog[c])
      /\ \A d \in Context : d # c => stage'[d] = stage[d] /\ prog'[d] = prog[d]
  BY <1>2
<1>4. T \in Transfers \cup {NoTransfer} /\ (Waits \/ T = NoTransfer)
  BY Sole DEF ExiIInv, ExiTypeOK, T, Waits
<1>5. T' = T /\ Waits' = Waits /\ Signal' = Signal /\ Follow' = Follow /\ Ready' = Ready /\ Busy(s0)' = Busy(s0)
  BY <1>2 DEF T, Waits, Signal, Follow, Ready, Busy, irq, line, game, dev
<1>6. Clear /\ Clear'
  <2>1. Clear
    BY <1>1, <1>4, HandlerSteps DEF ExiIInv, Mail, Box, Context, Active
  <2> QED
    BY <1>2, <2>1 DEF Clear
<1>7. ExiTypeOK'
  BY <1>2, <1>3 DEF ExiIInv, ExiTypeOK, irq, dev, line, game
<1>8. Programs'
  <2>1. Tail(prog[c]) \in Seq(Steps)
    BY <1>1, NextStep
  <2> QED
    BY <1>2, <1>3, <2>1 DEF Programs
<1>9. Unused' /\ Cards'
  BY <1>2 DEF ExiIInv, Unused, Cards, T, Signal, Waits, Believed, irq, dev, line, game
<1>10. Mail'
  BY <1>6 DEF Mail, Box
<1>11. Kept'
  BY <1>2, <1>3 DEF ExiIInv, Kept, Active
<1>12. WriteStep' = WriteStep /\ ReadStep' = ReadStep
  BY <1>2 DEF WriteStep, ReadStep, game
<1>13. Handled(c) /\ ~Handled(c)'
  BY <1>1, <1>3, <1>6 DEF Handled
<1>14. ASSUME Due(c)
       PROVE  Due(c)'
  <2>0. T \in Transfers
    BY <1>14 DEF Due, Waits
  <2>1. CASE prog[c] = AtSelect(T) /\ ~Busy(s0)
    BY <1>3, <1>5, <1>13, <1>14, <2>0, <2>1, TransferSteps DEF Due
  <2>2. CASE prog[c] = AtAddress(T) /\ T.op # "erase" /\ Ready
    BY <1>3, <1>5, <1>13, <1>14, <2>0, <2>2, TransferSteps DEF Due
  <2> QED
    BY <1>13, <1>14, <2>1, <2>2 DEF Due
<1>15. CASE c = "isr"
  <2>0. SUFFICES Phase'
    BY <1>6, <1>7, <1>8, <1>9, <1>10, <1>11 DEF ExiIInv
  <2>1. MainAside /\ (Due("isr") \/ Asks \/ (Settled /\ prog["isr"] = <<LastStep(T)>>))
    BY <1>1, <1>15 DEF ExiIInv, Phase, Idle, Active, Settled
  <2>2. MainAside'
    BY <1>2, <1>3, <1>6, <1>12, <1>15, <2>1
    DEF MainAside, Idle, InUmbra, Spent, AtWrite, AtRead, Context, game
  <2>3. CASE Due("isr")
    BY <1>14, <1>15, <2>2, <2>3 DEF Phase
  <2>4. CASE Asks
    <3>1. CASE First
      <4>1. AtAsk'
        BY <1>3, <1>4, <1>5, <1>15, <3>1, HandlerSteps DEF AtAsk, AskStep, ReplyStep
      <4> QED
        BY <1>5, <2>2, <2>4, <4>1 DEF Phase, Asks
    <3>2. CASE AtAsk
      <4>1. AtReply'
        BY <1>3, <1>4, <1>5, <1>15, <3>2, HandlerSteps DEF AtReply, ReplyStep
      <4> QED
        BY <1>5, <2>2, <2>4, <4>1 DEF Phase, Asks
    <3>3. CASE AtReply /\ T = NoTransfer
      <4>1. prog'["isr"] = <<>> /\ stage'["isr"] = "arg"
        BY <1>3, <1>4, <1>15, <3>3, HandlerSteps DEF Follow
      <4>2. Settled'
        BY <1>5, <2>4, <3>3, <4>1, OpNeverNone DEF Settled, Asks, Idle, Waits
      <4> QED
        BY <2>2, <4>2 DEF Phase
    <3>4. CASE AtReply /\ Waits
      <4>1. prog'["isr"] = AtSelect(T)
        BY <1>3, <1>4, <1>15, <3>4, HandlerSteps, OpNeverNone DEF Follow, Waits
      <4>2. Due("isr")'
        BY <1>5, <2>4, <3>4, <4>1 DEF Due, Asks
      <4> QED
        BY <2>2, <4>2 DEF Phase
    <3> QED
      BY <1>4, <2>4, <3>1, <3>2, <3>3, <3>4 DEF Asks
  <2>5. CASE Settled /\ prog["isr"] = <<LastStep(T)>>
    <3>1. Tail(prog["isr"]) = <<>>
      BY <2>5
    <3>2. Settled'
      BY <1>3, <1>5, <1>15, <2>5, <3>1 DEF Settled, Idle
    <3> QED
      BY <2>2, <3>2 DEF Phase
  <2> QED
    BY <2>1, <2>3, <2>4, <2>5
<1>16. CASE c = "main"
  <2>0. SUFFICES Phase'
    BY <1>6, <1>7, <1>8, <1>9, <1>10, <1>11 DEF ExiIInv
  <2>1. prog["isr"] = <<>>
    BY <1>1, <1>16 DEF Active
  <2>2. Idle("isr") /\ (Due("main") \/ (MainAside /\ Settled))
    <3>1. ~Due("isr") /\ ~Asks
      BY <1>4, <2>1, TransferSteps, HandlerSteps DEF Due, Asks, Waits
    <3>2. <<LastStep(T)>> # <<>>
      OBVIOUS
    <3> QED
      BY <2>1, <3>1, <3>2 DEF ExiIInv, Phase, Settled
  <2>3. Idle("isr")'
    BY <1>3, <1>16, <2>2 DEF Idle, Context
  <2>4. CASE Due("main")
    BY <1>14, <1>16, <2>3, <2>4 DEF Phase
  <2>5. CASE MainAside /\ Settled
    <3>1. ASSUME InUmbra PROVE MainAside'
      BY <1>2, <1>3, <1>12, <1>16, <3>1, UmbraSteps
      DEF InUmbra, MainAside, Idle, AtWrite, AtRead, game
    <3>2. ASSUME Spent PROVE MainAside'
      <4>1. PICK t \in Transfers : prog["main"] = <<LastStep(t)>>
        BY <3>2 DEF Spent
      <4>2. Tail(prog["main"]) = <<>>
        BY <4>1
      <4> QED
        BY <1>3, <1>16, <4>2 DEF MainAside, Idle
    <3>3. MainAside'
      BY <1>1, <1>16, <2>5, <3>1, <3>2 DEF MainAside, Idle, Active
    <3>4. Settled'
      BY <1>5, <2>2, <2>3, <2>5 DEF Settled
    <3> QED
      BY <3>3, <3>4 DEF Phase
  <2> QED
    BY <2>2, <2>4, <2>5
<1> QED
  BY <1>15, <1>16 DEF Context


\* A transfer starts with the card at rest.
LEMMA CardOpPreserves == ASSUME OneSlot, ExiIInv, NEW s \in Slot, CardOp(s) PROVE ExiIInv'
<1>1. s = s0 /\ s0 \in Slot /\ Slot = {s0} /\ s0 \in {0, 1}
  BY Sole
<1>2. PICK t \in Transfers : /\ waiting' = [waiting EXCEPT ![s] = t]
                             /\ prog' = [prog EXCEPT !["main"] = Program(s, t)]
                             /\ issued[1] < MaxCard /\ issued' = <<issued[1] + 1, issued[2]>>
  BY DEF CardOp, StartTransfer
<1>3. /\ UNCHANGED <<cmd0, cmd1, handling, irq, dev, line, stage, buffer, shadow, asked, answer, lost>>
      /\ prog["main"] = <<>> /\ prog["isr"] = <<>> /\ T = NoTransfer
  BY <1>1 DEF CardOp, Active, mailbox, T
<1>4. /\ waiting \in [Slot -> Transfers \cup {NoTransfer}] /\ prog \in [Context -> Seq(Steps)]
      /\ stage \in [Context -> {"arg", "cmd", "spin"}]
  BY DEF ExiIInv, ExiTypeOK, Programs
<1>5. T' = t /\ Waits' /\ prog'["main"] = Program(s0, t) /\ prog'["isr"] = <<>>
  BY <1>1, <1>2, <1>3, <1>4 DEF T, Waits, Context
<1>6. Program(s0, t) = AtSelect(t) /\ Program(s0, t) \in Seq(Steps) /\ Program(s0, t) # <<>>
  BY <1>1, TransferSteps, StepTypes DEF Program, AtSelect, AddressStep, DataStep, Transfers
<1>7. Idle("isr") /\ Idle("main") /\ ~Signal /\ ~Busy(s0)
  <2>1. ~Due("isr") /\ ~Due("main") /\ ~Asks /\ ~InUmbra /\ ~Spent
    <3>1. ~Due("isr") /\ ~Due("main")
      BY <1>3, OpNeverNone DEF Due, Waits
    <3>2. ~Asks
      BY <1>1, <1>3, HandlerSteps DEF Asks
    <3>3. ~InUmbra
      BY <1>3, UmbraSteps DEF InUmbra, AtWrite, AtRead
    <3>4. ~Spent
      <4>1. \A u : <<u>> # <<>>
        OBVIOUS
      <4> QED
        BY <1>3, <4>1 DEF Spent
    <3> QED
      BY <3>1, <3>2, <3>3, <3>4
  <2>2. MainAside /\ Settled
    BY <2>1 DEF ExiIInv, Phase
  <2> QED
    BY <1>3, <2>1, <2>2, OpNeverNone DEF MainAside, Settled, Waits
<1>8. Clear /\ Clear'
  <2>1. Clear
    BY <1>1, <1>3, HandlerSteps DEF ExiIInv, Mail, Box, Active
  <2> QED
    BY <1>3, <2>1 DEF Clear
<1>9. ExiTypeOK'
  <2>1. issued' \in (0 .. MaxCard) \X (0 .. MaxUmbra)
    BY <1>2, ExiBusAssumption DEF ExiIInv, ExiTypeOK
  <2> QED
    BY <1>2, <1>3, <1>4, <2>1 DEF ExiIInv, ExiTypeOK, irq, dev, line
<1>10. Programs'
  BY <1>1, <1>2, <1>4, <1>6 DEF Programs
<1>11. Phase'
  <2>1. Due("main")'
    BY <1>3, <1>5, <1>6, <1>7 DEF Due, Signal, Busy, irq, line, dev
  <2>2. Idle("isr")'
    BY <1>3, <1>5, <1>7 DEF Idle
  <2> QED
    BY <2>1, <2>2 DEF Phase
<1>12. Mail'
  BY <1>5, <1>6, <1>8 DEF Mail, Box, Active
<1>13. Kept'
  BY <1>3, <1>7, <1>5 DEF Kept, Active, Idle, Context
<1>14. Unused' /\ Cards'
  BY <1>3, <1>7 DEF ExiIInv, Unused, Cards, Signal, irq, line, dev
<1> QED
  BY <1>9, <1>10, <1>11, <1>12, <1>13, <1>14 DEF ExiIInv

\* The umbra client starts with the game's thread at rest, a transfer pending or not.
LEMMA UmbraOpPreserves == ASSUME OneSlot, ExiIInv, UmbraOp PROVE ExiIInv'
<1>1. s0 \in Slot /\ Slot = {s0} /\ s0 \in {0, 1}
  BY Sole
<1>2. PICK q \in Requests : prog' = [prog EXCEPT !["main"] = UmbraProgram(q)] /\ asked' = q
  BY DEF UmbraOp
<1>3. /\ UNCHANGED <<cmd0, cmd1, handling, irq, dev, line, stage, buffer, waiting, shadow>>
      /\ prog["main"] = <<>> /\ prog["isr"] = <<>> /\ answer' = "none" /\ lost' \in BOOLEAN
      /\ issued[2] < MaxUmbra /\ issued' = <<issued[1], issued[2] + 1>>
  BY DEF UmbraOp, Active, mailbox
<1>4. /\ waiting \in [Slot -> Transfers \cup {NoTransfer}] /\ prog \in [Context -> Seq(Steps)]
      /\ stage \in [Context -> {"arg", "cmd", "spin"}]
  BY DEF ExiIInv, ExiTypeOK, Programs
<1>5. /\ T' = T /\ (T = NoTransfer \/ Waits) /\ Waits' = Waits /\ Signal' = Signal
      /\ Busy(s0)' = Busy(s0) /\ LastStep(T)' = LastStep(T)
      /\ prog'["main"] = UmbraProgram(q) /\ prog'["isr"] = <<>>
  BY <1>1, <1>2, <1>3, <1>4 DEF T, Waits, Context, Signal, Busy, irq, line, dev
<1>6. AtWrite' /\ UmbraProgram(q) # <<>> /\ UmbraProgram(q) \in Seq(Steps)
  BY <1>1, <1>2, <1>5, UmbraTypes DEF UmbraProgram, AtWrite, WriteStep, ReadStep
<1>7. Idle("isr") /\ Idle("main") /\ Settled
  <2>1. ~Due("isr") /\ ~Due("main")
    BY <1>3, TransferSteps DEF Due, Waits
  <2>2. ~Asks
    BY <1>1, <1>3, <1>5, HandlerSteps DEF Asks
  <2>3. ~InUmbra
    BY <1>3, UmbraSteps DEF InUmbra, AtWrite, AtRead
  <2>4. ~Spent
    <3>1. \A u : <<u>> # <<>>
      OBVIOUS
    <3> QED
      BY <1>3, <3>1 DEF Spent
  <2>5. MainAside /\ Settled
    BY <2>1, <2>2 DEF ExiIInv, Phase
  <2>6. prog["isr"] # <<LastStep(T)>>
    BY <1>3
  <2> QED
    BY <2>3, <2>4, <2>5, <2>6 DEF MainAside, Settled
<1>8. Clear /\ Clear'
  <2>1. Clear
    BY <1>1, <1>3, <1>5, HandlerSteps DEF ExiIInv, Mail, Box, Active
  <2> QED
    BY <1>3, <2>1 DEF Clear
<1>9. ExiTypeOK'
  <2>1. issued' \in (0 .. MaxCard) \X (0 .. MaxUmbra)
    BY <1>3, ExiBusAssumption DEF ExiIInv, ExiTypeOK
  <2> QED
    BY <1>2, <1>3, <2>1 DEF ExiIInv, ExiTypeOK, irq, dev, line
<1>10. Programs'
  BY <1>1, <1>2, <1>4, <1>6 DEF Programs
<1>11. Phase'
  <2>1. MainAside'
    BY <1>2, <1>6 DEF MainAside, InUmbra
  <2>2. Settled'
    BY <1>3, <1>5, <1>7 DEF Settled, Idle
  <2> QED
    BY <2>1, <2>2 DEF Phase
<1>12. Mail'
  BY <1>5, <1>6, <1>8 DEF Mail, Box, Active
<1>13. Kept'
  BY <1>3, <1>7, <1>5 DEF Kept, Active, Idle, Context
<1>14. Unused' /\ Cards'
  BY <1>3, <1>5 DEF ExiIInv, Unused, Cards, Signal, Believed, T, irq, line, dev
<1> QED
  BY <1>9, <1>10, <1>11, <1>12, <1>13, <1>14 DEF ExiIInv

\* The handler finds the transfer done and starts by asking for the status.
LEMMA InterruptPreserves == ASSUME OneSlot, ExiIInv, NEW s \in Slot, Interrupt(s)
                           PROVE  ExiIInv' /\ First' /\ Idle("isr")
<1>1. s = s0 /\ s0 \in Slot /\ Slot = {s0} /\ s0 \in {0, 1}
  BY Sole
<1>2. /\ exiInt /\ prog["isr"] = <<>> /\ exiInt' = FALSE /\ shadow' = Believed(s0, T)
      /\ UNCHANGED <<cmd0, cmd1, handling, EXI_IRQ, IRQ_Cause, dev, cause, stage, buffer, asked, answer, lost>>
  BY <1>1 DEF Interrupt, Active, T, mailbox, irq
<1>3. /\ waiting \in [Slot -> Transfers \cup {NoTransfer}] /\ prog \in [Context -> Seq(Steps)]
      /\ stage \in [Context -> {"arg", "cmd", "spin"}]
  BY DEF ExiIInv, ExiTypeOK, Programs
<1>4. Signal /\ ~EXI_IRQ /\ ~Signal' /\ Busy(s0)' = Busy(s0)
  BY <1>2 DEF ExiIInv, Cards, Signal, Busy, dev
<1>5. MainAside /\ Settled /\ Waits /\ Idle("isr") /\ ~Busy(s0)
  <2>1. MainAside /\ Settled
    BY <1>4 DEF ExiIInv, Phase, Due, Asks
  <2>2. T \in Transfers \cup {NoTransfer}
    BY <1>1, <1>3 DEF T
  <2>3. <<LastStep(T)>> # <<>>
    OBVIOUS
  <2> QED
    BY <1>2, <1>4, <2>1, <2>2, <2>3 DEF Settled, Waits
<1>6. /\ prog'["isr"] # <<>> /\ First' /\ (Waits' \/ T' = NoTransfer) /\ prog'["main"] = prog["main"]
      /\ issued' \in (0 .. MaxCard) \X (0 .. MaxUmbra)
      /\ waiting' \in [Slot -> Transfers \cup {NoTransfer}] /\ prog' \in [Context -> Seq(Steps)]
  <2>1. CASE /\ prog' = [prog EXCEPT !["isr"] = StatusProgram(s)]
             /\ waiting' = [waiting EXCEPT ![s] = NoTransfer]
             /\ UNCHANGED issued
    <3>1. T' = NoTransfer /\ Follow' = <<>>
      BY <1>1, <1>3, <2>1 DEF T, Follow
    <3>2. StatusProgram(s0) = <<Select(s0), AskStep, ReplyStep>>
      BY DEF StatusProgram, AskStep, ReplyStep
    <3>3. StatusProgram(s0) \in Seq(Steps)
      <4>1. Select(s0) \in Steps /\ AskStep \in Steps /\ ReplyStep \in Steps
        BY <1>5, StepTypes DEF Waits
      <4> QED
        BY <3>2, <4>1
    <3>4. <<Select(s0), AskStep, ReplyStep>> \o <<>> = <<Select(s0), AskStep, ReplyStep>>
      <4> DEFINE p == <<Select(s0), AskStep, ReplyStep>>
      <4>1. p \in Seq(Steps)
        BY <3>2, <3>3
      <4> HIDE DEF p
      <4>2. p \o <<>> = p
        BY <4>1
      <4> QED
        BY <4>2 DEF p
    <3>5. Select(s0)' = Select(s0) /\ AskStep' = AskStep /\ ReplyStep' = ReplyStep
      BY DEF Select, AskStep, ReplyStep, s0
    <3>6. First'
      BY <1>1, <1>3, <2>1, <3>1, <3>2, <3>4, <3>5 DEF First, Context
    <3>7. StatusProgram(s0) # <<>>
      BY DEF StatusProgram
    <3> QED
      BY <1>1, <1>3, <2>1, <3>1, <3>3, <3>6, <3>7 DEF Context, ExiIInv, ExiTypeOK
  <2>2. ASSUME NEW t \in Transfers,
               StartTransfer("isr", s, t),
               prog' = [prog EXCEPT !["isr"] = StatusProgram(s) \o Program(s, t)]
        PROVE  /\ prog'["isr"] # <<>> /\ First' /\ (Waits' \/ T' = NoTransfer) /\ prog'["main"] = prog["main"]
               /\ issued' \in (0 .. MaxCard) \X (0 .. MaxUmbra)
               /\ waiting' \in [Slot -> Transfers \cup {NoTransfer}] /\ prog' \in [Context -> Seq(Steps)]
    <3>1. T' = t /\ Waits' /\ waiting' \in [Slot -> Transfers \cup {NoTransfer}]
      BY <1>1, <1>3, <2>2 DEF T, Waits, StartTransfer
    <3>2. Follow' = AtSelect(t)
      BY <3>1, OpNeverNone DEF Follow, AtSelect
    <3>3. StatusProgram(s0) \o Program(s0, t) = <<Select(s0), AskStep, ReplyStep>> \o AtSelect(t)
      BY TransferSteps DEF StatusProgram, AskStep, ReplyStep
    <3>4. AtSelect(t) \in Seq(Steps) /\ Select(s0) \in Steps /\ AskStep \in Steps /\ ReplyStep \in Steps
      BY StepTypes
    <3>5. <<Select(s0), AskStep, ReplyStep>> \o AtSelect(t) \in Seq(Steps)
      BY <3>4
    <3>6. Select(s0)' = Select(s0) /\ AskStep' = AskStep /\ ReplyStep' = ReplyStep
      BY DEF Select, AskStep, ReplyStep, s0
    <3>7. First'
      BY <1>1, <1>3, <2>2, <3>2, <3>3, <3>6 DEF First, Context
    <3>8. issued' \in (0 .. MaxCard) \X (0 .. MaxUmbra)
      BY <2>2, ExiBusAssumption DEF ExiIInv, ExiTypeOK, StartTransfer
    <3>9. prog' \in [Context -> Seq(Steps)] /\ prog'["main"] = prog["main"]
      BY <1>1, <1>3, <2>2, <3>3, <3>5 DEF Context
    <3>10. <<Select(s0), AskStep, ReplyStep>> \o AtSelect(t) # <<>>
      BY <3>4
    <3>11. prog'["isr"] # <<>>
      BY <1>1, <1>3, <2>2, <3>3, <3>10 DEF Context
    <3> QED
      BY <3>1, <3>7, <3>8, <3>9, <3>11
  <2> QED
    BY <2>1, <2>2 DEF Interrupt
<1>7. Clear' = Clear /\ stage' = stage /\ Active("isr")' /\ ~Active("isr")
  BY <1>2, <1>6 DEF Clear, Active
<1>8. WriteStep' = WriteStep /\ ReadStep' = ReadStep
  BY <1>2 DEF WriteStep, ReadStep
<1>9. InUmbra' = InUmbra
  BY <1>2, <1>6, <1>8 DEF InUmbra, AtWrite, AtRead
<1>10. ExiTypeOK'
  <2>1. shadow' \in [Slot -> [Page -> PageContent]]
    BY <1>1, <1>2, <1>5 DEF ExiIInv, ExiTypeOK, Believed, Waits, Transfers
  <2>2. exiInt' \in BOOLEAN /\ UNCHANGED <<umbra_cmd, settings, EXICommand, BlockOff, card,
                                          umbra_pending_read, umbra_last_status>>
    BY <1>2 DEF dev
  <2> QED
    BY <1>2, <1>6, <2>1, <2>2 DEF ExiIInv, ExiTypeOK
<1>11. Programs'
  BY <1>6 DEF Programs
<1>12. Phase'
  <2>1. MainAside'
    BY <1>2, <1>5, <1>6, <1>7, <1>9 DEF MainAside, Idle, Spent, LastStep, AddressStep, DataStep, s0
  <2>2. Asks'
    BY <1>4, <1>5, <1>6 DEF Asks
  <2> QED
    BY <2>1, <2>2 DEF Phase
<1>13. Mail'
  <2>1. Clear \/ Box("main")
    BY <1>7, <1>2, HandlerSteps, <1>5 DEF ExiIInv, Mail, Box, Active, First
  <2>2. CASE Clear
    BY <1>7, <2>2 DEF Mail, Box
  <2>3. CASE Box("main") /\ ~Clear
    <3>1. Box("main")'
      BY <1>2, <1>6, <2>3 DEF Box, Active, Clear, Carries
    <3>2. InUmbra
      BY <1>5, <1>7, <2>3 DEF Box, MainAside, Idle, Spent, Active
    <3> QED
      BY <1>2, <1>5, <1>6, <1>9, <3>1, <3>2 DEF Mail, Idle
  <2> QED
    BY <2>1, <2>2, <2>3
<1>14. Kept'
  BY <1>2, <1>5, <1>6 DEF ExiIInv, Kept, Active, Idle, Context
<1>15. Unused'
  BY <1>2 DEF ExiIInv, Unused, dev
<1>16. Cards'
  BY <1>2, <1>4 DEF ExiIInv, Cards, Signal, Believed, dev
<1> QED
  BY <1>5, <1>6, <1>10, <1>11, <1>12, <1>13, <1>14, <1>15, <1>16 DEF ExiIInv

\* The invariant holds when the game starts.
LEMMA InitHolds == ASSUME OneSlot, ExiInit PROVE ExiIInv
<1>1. s0 \in Slot /\ Slot = {s0} /\ s0 \in {0, 1}
  BY Sole
<1>2. T = NoTransfer /\ Idle("main") /\ Idle("isr") /\ ~Signal /\ ~Busy(s0) /\ Clear
  BY <1>1 DEF ExiInit, T, Idle, Signal, Busy, Clear, Context, Channel
<1>3. ExiTypeOK
  <2>1. NoTransfer \in Transfers \cup {NoTransfer} /\ <<"result", 0>> \in Args /\ NoCmd \in Words
    BY DEF Args, Words
  <2>2. <<0, 0>> \in (0 .. MaxCard) \X (0 .. MaxUmbra)
    BY ExiBusAssumption
  <2>3. /\ card \in [Slot -> [Page -> PageContent]] /\ buffer \in [Slot -> PageContent]
        /\ shadow \in [Slot -> [Page -> PageContent]]
    BY DEF ExiInit
  <2>4. /\ cmd0 \in Words /\ cmd1 \in Args /\ handling = <<>>
        /\ EXI_IRQ \in BOOLEAN /\ IRQ_Cause \in [Slot -> {0, 2, 8, 10}]
        /\ exiInt \in BOOLEAN /\ cause \in [Slot -> {0, 2, 8, 10}]
        /\ EXICommand \in [Channel -> {"none", "status", "block_read", "block_write", "block_erase"}]
        /\ BlockOff \in [Slot -> Page]
    BY <2>1 DEF ExiInit
  <2>5. /\ umbra_pending_read \in BOOLEAN /\ umbra_cmd = "none"
        /\ umbra_last_status \in Statuses /\ settings = NoFile
        /\ stage \in [Context -> {"arg", "cmd", "spin"}]
        /\ waiting \in [Slot -> Transfers \cup {NoTransfer}]
        /\ asked = NoRequest /\ answer = "none" /\ lost \in BOOLEAN /\ issued \in (0 .. MaxCard) \X (0 .. MaxUmbra)
    BY <2>1, <2>2 DEF ExiInit, Statuses
  <2> QED
    BY <2>3, <2>4, <2>5 DEF ExiTypeOK
<1>4. Programs
  BY DEF ExiInit, Programs
<1>5. Phase
  BY <1>2, OpNeverNone DEF Phase, MainAside, Settled, Waits
<1>6. Mail /\ Kept
  BY <1>2 DEF Mail, Kept, Active, Idle, Context
<1>7. Unused /\ Cards
  BY <1>1, <1>2 DEF ExiInit, Unused, Cards, Signal, Channel
<1> QED
  BY <1>3, <1>4, <1>5, <1>6, <1>7 DEF ExiIInv

\* It speaks of the variables only.
LEMMA StutterPreserves == ASSUME ExiIInv, UNCHANGED exi_vars PROVE ExiIInv'
<1>1. /\ UNCHANGED <<cmd0, cmd1, handling, EXI_IRQ, IRQ_Cause, EXICommand, BlockOff, card,
                     umbra_pending_read, umbra_cmd, umbra_last_status, settings, exiInt, cause>>
      /\ UNCHANGED <<prog, stage, buffer, waiting, shadow, asked, answer, lost, issued>>
      /\ s0' = s0
  BY DEF exi_vars, mailbox, irq, dev, line, ppc, game, s0
<1>2. ExiTypeOK'
  BY <1>1 DEF ExiIInv, ExiTypeOK
<1>3. Programs' /\ Kept' /\ Unused'
  BY <1>1 DEF ExiIInv, Programs, Kept, Fits, Unused, Active
<1>4. T' = T /\ Signal' = Signal /\ Clear' = Clear /\ InUmbra' = InUmbra /\ Follow' = Follow
  BY <1>1 DEF T, Signal, Clear, InUmbra, AtWrite, AtRead, WriteStep, ReadStep, Follow, AtSelect,
              AddressStep, DataStep, Select
<1>5. Phase'
  <2>1. MainAside => MainAside'
    BY <1>1, <1>4 DEF MainAside, Idle, Spent, Active, LastStep, AddressStep, DataStep
  <2>2. \A c \in Context : Handled(c)' <=> Handled(c)
    BY <1>1, <1>4 DEF Handled
  <2> QED
    BY <1>1, <2>1, <2>2, SamePhase DEF irq, dev, line
<1>6. Mail'
  BY <1>1, <1>4 DEF ExiIInv, Mail, Box, Active, Carries, Fits, First, Select, AskStep, ReplyStep
<1>7. Cards'
  BY <1>1, <1>4 DEF ExiIInv, Cards, Believed, Expected
<1> QED
  BY <1>2, <1>3, <1>5, <1>6, <1>7 DEF ExiIInv

-----------------------------------------------------------------------------
(* The theorems                                                            *)

\* It is inductive.
LEMMA StepPreserves == ASSUME OneSlot, ExiIInv, [ExiNext]_exi_vars PROVE ExiIInv'
<1>1. CASE Game
  BY <1>1, StoreArgPreserves, StoreCmdPreserves, SpinEndsPreserves, CardOpPreserves, UmbraOpPreserves,
     InterruptPreserves DEF Game
<1>2. CASE Kernel
  BY <1>2, TakePreserves, SelectPreserves, ImmPreserves, UmbraWritePreserves, UmbraReadPreserves,
     CardDmaPreserves, InterruptDuePreserves DEF Kernel
<1>3. CASE Done \/ UNCHANGED exi_vars
  BY <1>3, StutterPreserves DEF Done
<1> QED
  BY <1>1, <1>2, <1>3 DEF ExiNext

\* With one card, every reachable state satisfies the invariant, for any pages, contents,
\* settings and bounds.
THEOREM ExiInvariant == ASSUME OneSlot PROVE ExiSpec => []ExiIInv
<1>1. ExiInit => ExiIInv
  BY InitHolds
<1>2. ExiIInv /\ [ExiNext]_exi_vars => ExiIInv'
  BY StepPreserves
<1> QED
  BY <1>1, <1>2, PTL DEF ExiSpec

\* The mailbox, the card protocol and the devices keep their types: no DMA indexes a card
\* outside its pages (EXI.c:343), and EXI_CMD_1 holds no other argument.
THEOREM ExiTypes == ASSUME OneSlot PROVE ExiSpec => []ExiTypeOK
<1>1. ExiIInv => ExiTypeOK
  BY DEF ExiIInv
<1> QED
  BY <1>1, ExiInvariant, PTL

\* When the game waits for no transfer, the card holds every page it was told had been
\* written, and nothing else (EXIDeviceMemoryCard), however its handler interrupts its thread.
THEOREM CardIsAsBelieved == ASSUME OneSlot PROVE ExiSpec => []CardHolds
<1>1. ASSUME ExiIInv PROVE CardHolds
  <2>1. T = NoTransfer => ~Signal
    BY <1>1, OpNeverNone DEF ExiIInv, Phase, Due, Asks, Settled, Waits
  <2> QED
    BY <1>1, <2>1, Sole DEF ExiIInv, Cards, CardHolds, T
<1> QED
  BY <1>1, ExiInvariant, PTL

\* An EXI interrupt (EXIInterrupt) reports the transfer the game waits for, with its cause,
\* and after a read the page is in the game's buffer.
THEOREM SignalsReportTheTransfer == ASSUME OneSlot PROVE ExiSpec => []SignalsMatch
<1>1. ASSUME ExiIInv PROVE SignalsMatch
  BY <1>1, Sole DEF ExiIInv, Cards, Signal, SignalsMatch, T
<1> QED
  BY <1>1, ExiInvariant, PTL

\* Once EXIDMA has returned the card holds its page, if no page begins with UMBRA_MAGIC or the
\* card is in slot B, which the intercept of channel 0 (EXI.c:806) does not look at.
THEOREM PagesAreStored == ASSUME OneSlot, GZ = {} \/ Slot = {1} PROVE ExiSpec => []PageStored
<1>1. ASSUME ExiIInv PROVE PageStored
  <2>1. GZ = {} \/ s0 = 1
    BY Sole
  <2>2. SUFFICES ASSUME T.op = "write", \A c \in Context : ~Active(c) PROVE card[s0][T.page] = T.content
    BY Sole DEF PageStored, T
  <2>3. T \in Transfers
    BY <1>1, <2>2, Sole DEF ExiIInv, ExiTypeOK, T, NoTransfer
  <2>4. Signal
    <3>1. ~Due("main") /\ ~Due("isr")
      BY <2>2, <2>3, TransferSteps DEF Due, Active, Context
    <3>2. ~Asks
      BY <2>2, <2>3, HandlerSteps DEF Asks, Waits, Active, Context
    <3> QED
      BY <1>1, <2>1, <2>3, <3>1, <3>2 DEF ExiIInv, Phase, Settled, Waits
  <2>5. card = [shadow EXCEPT ![s0][T.page] = T.content] /\ shadow \in [Slot -> [Page -> PageContent]]
    BY <1>1, <2>2, <2>4 DEF ExiIInv, Cards, Believed, ExiTypeOK
  <2>6. T.page \in Page /\ s0 \in Slot
    BY <2>3, Sole DEF Transfers
  <2> QED
    BY <2>5, <2>6
<1> QED
  BY <1>1, ExiInvariant, PTL

-----------------------------------------------------------------------------
(* The umbra client and the status it reads                                *)

\* The umbra client uses channel 0, the kernel carries out every write at once, and
\* no page is taken for a command.
Plain == Slot = {0} /\ GZ = {} /\ Short = {}

\* What the settings file holds once the command last sent has been carried out.
Outcome == IF asked[1] = "write" THEN asked[2] ELSE NoFile

NoDma == cmd0.op # "dma" /\ (handling # <<>> => handling[1].word.op # "dma")
WriteDone == AtWrite /\ stage["main"] = "spin" /\ ((Active("isr") /\ ~First) \/ NoDma)

\* The client's read is to come: it is not stored yet, or the handler's first command
\* stands in its place, or it is in the mailbox with the argument it was stored with.
SelectComes ==
    /\ First /\ stage["isr"] = "spin" /\ cmd0.op = "select"
    /\ handling # <<>> => handling[1].word.op = "select"
ReadStored ==
    /\ ~Active("isr") \/ First
    /\ handling = <<>> => cmd0.op = "dma" /\ cmd1 = ReadStep.arg
    /\ handling # <<>> => handling[1].word.op = "dma" /\ handling[1].arg = ReadStep.arg
ReadComes ==
    /\ AtRead
    /\ \/ stage["main"] = "arg"
       \/ SelectComes
       \/ /\ stage["main"] = "cmd" /\ cmd1 = ReadStep.arg
          /\ Active("isr") => First /\ stage["isr"] # "spin"
       \/ stage["main"] = "spin" /\ ReadStored

\* While an answer is pending it is the answer to the command last sent.
Pending ==
    /\ answer = "none" /\ asked \in Requests /\ umbra_cmd = asked[1]
    /\ umbra_last_status = "ok" /\ asked \in Changes => lost \/ settings = Outcome
    /\ WriteDone \/ ReadComes

SInv ==
    /\ AtWrite => answer = "none"
    /\ umbra_pending_read => Pending
    /\ StatusIsActual

\* The hypotheses of this part imply those of the first.
LEMMA PlainSlot == ASSUME Plain PROVE OneSlot /\ s0 = 0 /\ Channel = {0}
<1>1. OneSlot
  BY DEF Plain, OneSlot
<1> QED
  BY <1>1, Sole DEF Plain, Channel

\* What the umbra device takes is the client's step, with the argument it stored.
LEMMA UmbraTaken ==
    ASSUME Plain, ExiIInv, ForUmbra
    PROVE  /\ handling # <<>> /\ stage["main"] = "spin" /\ asked \in Requests
           /\ h.word.mode = "w" => AtWrite /\ h.arg = <<"umbra", asked>>
           /\ h.word.mode = "r" => AtRead /\ h.arg = <<"umbrabuf", 0>>
           /\ h.word.mode \in {"w", "r"}
<1>0. OneSlot
  BY PlainSlot
<1>1. handling # <<>> /\ h = handling[1] /\ h.word.op = "dma" /\ Magic(h.arg)
  BY DEF ForUmbra, Taken, h
<1>2. h.arg[1] \in UmbraArgs
  BY <1>1 DEF Magic, UmbraArgs, Plain
<1>3. /\ AskStep.word.op = "imm" /\ ReplyStep.word.op = "imm" /\ Select(s0).word.op = "select"
      /\ AddressStep(T).word.op = "imm"
  BY DEF Select, AskStep, ReplyStep, AddressStep, Step, Word
<1>4. ~Moving("isr") /\ ~Moving("main")
  <2>1. \A c \in Context : Moving(c) => T \in Transfers /\ h.arg = DataStep(T).arg
    BY <1>1 DEF Moving, Due, Waits
  <2> QED
    BY <1>0, <1>2, <2>1, Places DEF Context
<1>5. Answering
  BY <1>0, <1>1, <1>3, <1>4, InHand DEF IsrInHand, MainInHand, Selecting, Addressing
<1>6. /\ WriteStep.word.op = "dma" /\ WriteStep.word.mode = "w" /\ WriteStep.arg = <<"umbra", asked>>
      /\ ReadStep.word.op = "dma" /\ ReadStep.word.mode = "r" /\ ReadStep.arg = <<"umbrabuf", 0>>
  BY DEF WriteStep, ReadStep, Step, Word
<1>7. CASE AtWrite
  <2>1. h.word = WriteStep.word /\ Fits(WriteStep, h.arg)
    BY <1>1, <1>5, <1>7, UmbraSteps DEF Answering
  <2>2. h.arg = <<"umbra", asked>>
    BY <1>2, <1>6, <2>1 DEF Fits
  <2> QED
    BY <1>1, <1>5, <1>6, <1>7, <2>1, <2>2 DEF Answering, InUmbra
<1>8. CASE AtRead
  <2>1. h.word = ReadStep.word /\ Fits(ReadStep, h.arg)
    BY <1>1, <1>5, <1>8, UmbraSteps DEF Answering
  <2>2. h.arg = <<"umbrabuf", 0>>
    BY <1>2, <1>6, <2>1 DEF Fits
  <2> QED
    BY <1>1, <1>5, <1>6, <1>8, <2>1, <2>2 DEF Answering, InUmbra
<1> QED
  BY <1>5, <1>7, <1>8 DEF Answering, InUmbra

\* Requests are what they say they are.
LEMMA RequestTypes ==
    ASSUME NEW q \in Requests
    PROVE  /\ q[1] \in {"write", "delete", "read"}
           /\ q[1] = "write" => q[2] \in Setting
           /\ q \in Changes <=> q[1] # "read"
<1>1. CASE q \in {"write"} \X Setting
  BY <1>1 DEF Changes
<1>2. CASE q = <<"delete", 0>>
  BY <1>2 DEF Changes
<1>3. CASE q = <<"read", 0>>
  <2>1. q[1] = "read" /\ q # <<"delete", 0>>
    BY <1>3
  <2> QED
    BY <1>3, <2>1 DEF Changes
<1> QED
  BY <1>1, <1>2, <1>3 DEF Requests, Changes

\* The client's programs differ.
LEMMA WriteOrRead == ~(AtWrite /\ AtRead)
<1>1. AtWrite => Tail(prog["main"]) # <<>>
  BY DEF AtWrite
<1>2. AtRead => Tail(prog["main"]) = <<>>
  BY DEF AtRead
<1> QED
  BY <1>1, <1>2

\* No status in an answer, no false status.
LEMMA NoAnswer == ASSUME answer = "none" PROVE StatusIsActual
BY ExiBusAssumption DEF StatusIsActual

\* A command that reaches the device leaves its own status, or leaves a read to answer.
LEMMA UmbraWriteStatus == ASSUME Plain, ExiIInv, SInv, UmbraWrite PROVE SInv'
<1>1. AtWrite /\ stage["main"] = "spin" /\ h.arg = <<"umbra", asked>> /\ asked \in Requests
  BY UmbraTaken DEF UmbraWrite
<1>2. /\ UNCHANGED <<prog, stage, asked, answer>> /\ handling' = <<>> /\ cmd0' = NoCmd
      /\ umbra_pending_read' = TRUE
  BY DEF UmbraWrite, ppc, game, Finish
<1>3. umbra_cmd' = asked[1] /\ h.arg[2] = asked
  BY <1>1 DEF UmbraWrite
<1>4. umbra_last_status' = "ok" /\ asked \in Changes => lost' \/ settings' = Outcome
  <2>1. asked[1] = "write" => WriteSettings(asked[2])
    BY <1>3, <1>1, RequestTypes DEF UmbraWrite, Plain
  <2>2. asked[1] = "delete" => DeleteSettings
    BY <1>3, <1>1 DEF UmbraWrite
  <2> QED
    BY <1>1, <2>1, <2>2, RequestTypes DEF WriteSettings, DeleteSettings, Outcome
<1>5. AtWrite' /\ answer' = "none"
  BY <1>1, <1>2 DEF AtWrite, WriteStep, ReadStep, SInv
<1>6. WriteDone'
  BY <1>1, <1>2, <1>5 DEF WriteDone, NoDma, NoCmd
<1>7. Pending'
  BY <1>1, <1>2, <1>3, <1>4, <1>5, <1>6 DEF Pending, Outcome
<1>8. StatusIsActual'
  BY <1>5, NoAnswer, ExiBusAssumption DEF StatusIsActual
<1> QED
  BY <1>5, <1>7, <1>8 DEF SInv

\* The answer is that status, or the file.
LEMMA UmbraReadStatus == ASSUME Plain, ExiIInv, SInv, UmbraRead PROVE SInv'
<1>1. AtRead /\ h.arg = <<"umbrabuf", 0>> /\ asked \in Requests /\ Pending
  BY UmbraTaken DEF UmbraRead, ForUmbra, SInv
<1>2. UNCHANGED <<prog, stage, asked, lost, settings>> /\ umbra_pending_read' = FALSE
  BY DEF UmbraRead, ppc
<1>3. AtRead' /\ ~AtWrite'
  BY <1>1, <1>2, WriteOrRead DEF AtRead, AtWrite, ReadStep, WriteStep
<1>4. asked[1] \in {"write", "delete", "read"} /\ asked[1] # "unknown" /\ umbra_cmd = asked[1]
  BY <1>1, RequestTypes DEF Pending
<1>5. answer' \in IF asked[1] = "read" THEN ReadSettings ELSE {umbra_last_status}
  BY <1>1, <1>4 DEF UmbraRead
<1>6. settings \in Setting \cup {NoFile, "torn"} /\ umbra_last_status \in {"ok", "error"}
  BY DEF ExiIInv, ExiTypeOK, Statuses
<1>7. StatusIsActual'
  <2>1. CASE asked[1] = "read"
    <3>1. answer' \in {"zeros", "torn"} \/ (answer' = settings /\ settings # NoFile)
      BY <1>5, <2>1 DEF ReadSettings
    <3>2. answer' # "ok"
      BY <1>6, <3>1, ExiBusAssumption
    <3>3. answer' \in Setting => settings = answer'
      BY <3>1, ExiBusAssumption
    <3> QED
      BY <1>2, <2>1, <3>2, <3>3 DEF StatusIsActual
  <2>2. CASE asked[1] # "read"
    <3>1. answer' = umbra_last_status /\ answer' \notin Setting
      BY <1>5, <1>6, <2>2, ExiBusAssumption
    <3>2. answer' = "ok" => asked \in Changes /\ (lost \/ settings = Outcome)
      BY <1>1, <2>2, <3>1, RequestTypes DEF Pending
    <3> QED
      BY <1>2, <3>1, <3>2 DEF StatusIsActual, Outcome
  <2> QED
    BY <2>1, <2>2
<1> QED
  BY <1>2, <1>3, <1>7 DEF SInv

\* With nothing of a DMA in hand, or nothing at all, a step of the kernel moves nothing
\* in the client's sequence.
LEMMA Undisturbed ==
    ASSUME Plain, ExiIInv, SInv, Finish, handling # <<>>, handling[1].word.op # "select",
           umbra_pending_read => ~(handling[1].word.op = "dma" /\ handling[1].arg = ReadStep.arg),
           UNCHANGED <<ppc, asked, answer, lost, umbra_pending_read, umbra_cmd, umbra_last_status, settings>>
    PROVE  SInv'
<1>1. UNCHANGED <<prog, stage>> /\ handling' = <<>> /\ cmd0' = NoCmd
  BY DEF ppc, Finish
<1>2. AtWrite' = AtWrite /\ AtRead' = AtRead /\ ReadStep' = ReadStep /\ StatusIsActual' = StatusIsActual
  BY <1>1 DEF AtWrite, AtRead, WriteStep, ReadStep, StatusIsActual
<1>3. ASSUME umbra_pending_read PROVE Pending'
  <2>1. Pending
    BY <1>3 DEF SInv
  <2>2. WriteDone => WriteDone'
    BY <1>1, <1>2 DEF WriteDone, NoDma, NoCmd
  <2>3. ASSUME ReadComes PROVE ReadComes'
    <3>1. ~SelectComes
      BY DEF SelectComes
    <3>2. ~(stage["main"] = "spin" /\ ReadStored)
      BY <1>3 DEF ReadStored
    <3>3. ~(stage["main"] = "cmd" /\ (Active("isr") => First /\ stage["isr"] # "spin"))
      <4>1. IsrInHand \/ MainInHand \/ Answering
        BY InHand, PlainSlot
      <4> QED
        BY <4>1 DEF IsrInHand, MainInHand, Answering
    <3> QED
      BY <1>1, <1>2, <2>3, <3>1, <3>2, <3>3 DEF ReadComes
  <2> QED
    BY <1>2, <2>1, <2>2, <2>3 DEF Pending, Outcome
<1> QED
  BY <1>2, <1>3 DEF SInv

\* EXIImm is no part of the client's sequence.
LEMMA ImmStatus == ASSUME Plain, ExiIInv, SInv, DoImm PROVE SInv'
<1>1. handling # <<>> /\ handling[1].word.op = "imm"
  BY DEF DoImm, Taken, h
<1> QED
  BY <1>1, Undisturbed DEF DoImm, game

\* A DMA of the card is not the client's read, which the device takes while it is pending.
LEMMA CardDmaStatus == ASSUME Plain, ExiIInv, SInv, DoCardDma PROVE SInv'
<1>1. handling # <<>> /\ handling[1].word.op = "dma" /\ h = handling[1]
  BY DEF DoCardDma, Taken, h
<1>2. h.word.chn = 0 /\ h.word.mode \in {"w", "r"}
  <2>1. h.word \in Words
    BY <1>1, InHand, PlainSlot
  <2> QED
    BY <1>1, <2>1, PlainSlot DEF Words, NoCmd
<1>3. umbra_pending_read => h.arg # ReadStep.arg
  <2>1. ReadStep.arg[1] = "umbrabuf"
    BY DEF ReadStep, Step
  <2> QED
    BY <1>1, <1>2, <2>1 DEF DoCardDma, ForUmbra, Magic, Taken
<1> QED
  BY <1>1, <1>3, Undisturbed DEF DoCardDma, game

\* A select of channel 0 drops the pending answer.
LEMMA SelectStatus == ASSUME Plain, ExiIInv, SInv, DoSelect PROVE SInv'
<1>1. handling # <<>> /\ handling[1].word.op = "select" /\ h = handling[1]
  BY DEF DoSelect, Taken, h
<1>2. h.word.chn = 0
  <2>1. h.word \in Words
    BY <1>1, InHand, PlainSlot
  <2> QED
    BY <1>1, <2>1, PlainSlot DEF Words, NoCmd
<1>3. umbra_pending_read' = FALSE /\ UNCHANGED <<prog, answer, asked, lost, settings>>
  BY <1>2 DEF DoSelect, ppc, game, ExiIInv, ExiTypeOK
<1> QED
  BY <1>3 DEF SInv, AtWrite, WriteStep, ReadStep, StatusIsActual

\* Taking a command moves it from the mailbox to the kernel.
LEMMA TakeStatus == ASSUME Plain, ExiIInv, SInv, Take PROVE SInv'
<1>1. /\ UNCHANGED <<cmd0, cmd1, prog, stage, asked, answer, umbra_pending_read, umbra_cmd,
                     umbra_last_status, settings, lost>>
      /\ handling = <<>> /\ handling' # <<>> /\ handling'[1].word = cmd0 /\ handling'[1].arg = cmd1
  BY DEF Take, mailbox, ppc, game, dev
<1>2. /\ AtWrite' = AtWrite /\ AtRead' = AtRead /\ ReadStep' = ReadStep /\ First' = First
      /\ Active("isr")' = Active("isr") /\ StatusIsActual' = StatusIsActual
  BY <1>1 DEF AtWrite, AtRead, WriteStep, ReadStep, StatusIsActual, First, Follow, T, Active, AskStep,
              ReplyStep, AtSelect, AddressStep, DataStep, Select, s0, Take, game
<1>3. ASSUME umbra_pending_read PROVE Pending'
  <2>1. Pending
    BY <1>3 DEF SInv
  <2>2. WriteDone => WriteDone'
    BY <1>1, <1>2 DEF WriteDone, NoDma
  <2>3. ReadComes => ReadComes'
    BY <1>1, <1>2 DEF ReadComes, SelectComes, ReadStored
  <2> QED
    BY <1>1, <1>2, <2>1, <2>2, <2>3 DEF Pending, Outcome
<1> QED
  BY <1>1, <1>2, <1>3 DEF SInv

\* A step that leaves the mailbox, the programs and the umbra device alone.
LEMMA SameStatus ==
    ASSUME SInv, UNCHANGED <<mailbox, handling, ppc, umbra_pending_read, umbra_cmd, umbra_last_status,
                             settings, asked, answer, lost, waiting>>
    PROVE  SInv'
<1>1. UNCHANGED <<cmd0, cmd1, prog, stage>>
  BY DEF mailbox, ppc
<1>2. /\ AtWrite' = AtWrite /\ AtRead' = AtRead /\ ReadStep' = ReadStep /\ First' = First
      /\ Active("isr")' = Active("isr") /\ StatusIsActual' = StatusIsActual
  BY <1>1 DEF AtWrite, AtRead, WriteStep, ReadStep, StatusIsActual, First, Follow, T, Active, AskStep,
              ReplyStep, AtSelect, AddressStep, DataStep, Select, s0
<1>3. WriteDone' = WriteDone /\ ReadComes' = ReadComes
  BY <1>1, <1>2 DEF WriteDone, NoDma, ReadComes, SelectComes, ReadStored
<1> QED
  BY <1>2, <1>3 DEF SInv, Pending, Outcome

\* The words of the client's steps.
LEMMA ClientWords ==
    /\ WriteStep.word.op = "dma" /\ ReadStep.word.op = "dma" /\ Select(s0).word.op = "select"
    /\ WriteStep.word # ReadStep.word
BY DEF WriteStep, ReadStep, Select, Step, Word

\* The client's read stores its argument, which the handler's first select does not touch.
LEMMA StoreArgStatus == ASSUME Plain, ExiIInv, SInv, NEW c \in Context, StoreArg(c) PROVE SInv'
<1>1. /\ Runs(c) /\ stage[c] = "arg" /\ stage' = [stage EXCEPT ![c] = "cmd"]
      /\ cmd1' = IF Head(prog[c]).word.op = "select" THEN cmd1 ELSE Head(prog[c]).arg
      /\ UNCHANGED <<cmd0, handling, prog, asked, answer, umbra_pending_read, umbra_cmd,
                     umbra_last_status, settings, lost, waiting>>
  BY DEF StoreArg, dev, game
<1>2. /\ AtWrite' = AtWrite /\ AtRead' = AtRead /\ ReadStep' = ReadStep /\ First' = First
      /\ Active("isr")' = Active("isr") /\ StatusIsActual' = StatusIsActual
  BY <1>1 DEF AtWrite, AtRead, WriteStep, ReadStep, StatusIsActual, First, Follow, T, Active, AskStep,
              ReplyStep, AtSelect, AddressStep, DataStep, Select, s0
<1>3. stage \in [Context -> {"arg", "cmd", "spin"}]
  BY DEF ExiIInv, ExiTypeOK
<1>4. (T \in Transfers \/ T = NoTransfer) /\ OneSlot
  BY PlainSlot, Sole DEF ExiIInv, ExiTypeOK, T
<1>5. ASSUME umbra_pending_read PROVE Pending'
  <2>1. Pending
    BY <1>5 DEF SInv
  <2>2. SUFFICES WriteDone' \/ ReadComes'
    BY <1>1, <2>1 DEF Pending, Outcome
  <2>3. CASE c = "main"
    <3>1. stage'["main"] = "cmd" /\ ~Active("isr")
      BY <1>1, <1>3, <2>3 DEF Runs, Context
    <3>2. AtRead
      BY <1>1, <2>1, <2>3 DEF Pending, WriteDone, ReadComes
    <3>3. cmd1' = ReadStep.arg
      BY <1>1, <2>3, <3>2, UmbraSteps, ClientWords
    <3> QED
      BY <1>2, <3>1, <3>2, <3>3 DEF ReadComes
  <2>4. CASE c = "isr"
    <3>1. stage'["main"] = stage["main"] /\ stage'["isr"] = "cmd" /\ Active("isr")
      BY <1>1, <1>3, <2>4 DEF Runs, Context
    <3>2. First => cmd1' = cmd1
      BY <1>1, <1>4, <2>4, HandlerSteps, ClientWords DEF Waits
    <3>3. WriteDone => WriteDone'
      BY <1>1, <1>2, <3>1 DEF WriteDone, NoDma
    <3>4. ReadComes => ReadComes'
      BY <1>1, <1>2, <2>4, <3>1, <3>2 DEF ReadComes, SelectComes, ReadStored
    <3> QED
      BY <2>1, <3>3, <3>4 DEF Pending
  <2> QED
    BY <2>3, <2>4 DEF Context
<1> QED
  BY <1>1, <1>2, <1>5 DEF SInv

\* The read enters the mailbox, or the handler's select takes its place.
LEMMA StoreCmdStatus == ASSUME Plain, ExiIInv, SInv, NEW c \in Context, StoreCmd(c) PROVE SInv'
<1>1. /\ Runs(c) /\ stage[c] = "cmd" /\ stage' = [stage EXCEPT ![c] = "spin"]
      /\ cmd0' = Head(prog[c]).word
      /\ UNCHANGED <<cmd1, handling, prog, asked, answer, umbra_pending_read, umbra_cmd,
                     umbra_last_status, settings, lost, waiting>>
  BY DEF StoreCmd, dev, game
<1>2. /\ AtWrite' = AtWrite /\ AtRead' = AtRead /\ ReadStep' = ReadStep /\ First' = First
      /\ Active("isr")' = Active("isr") /\ StatusIsActual' = StatusIsActual
  BY <1>1 DEF AtWrite, AtRead, WriteStep, ReadStep, StatusIsActual, First, Follow, T, Active, AskStep,
              ReplyStep, AtSelect, AddressStep, DataStep, Select, s0
<1>3. stage \in [Context -> {"arg", "cmd", "spin"}]
  BY DEF ExiIInv, ExiTypeOK
<1>4. (T \in Transfers \/ T = NoTransfer) /\ OneSlot
  BY PlainSlot, Sole DEF ExiIInv, ExiTypeOK, T
<1>5. ASSUME umbra_pending_read PROVE Pending'
  <2>1. Pending
    BY <1>5 DEF SInv
  <2>2. SUFFICES WriteDone' \/ ReadComes'
    BY <1>1, <2>1 DEF Pending, Outcome
  <2>3. CASE c = "main"
    <3>1. stage'["main"] = "spin" /\ ~Active("isr") /\ stage["main"] = "cmd"
      BY <1>1, <1>3, <2>3 DEF Runs, Context
    <3>2. AtRead /\ cmd1 = ReadStep.arg
      BY <1>4, <2>1, <3>1, HandlerSteps DEF Pending, WriteDone, ReadComes, SelectComes, Active, Waits
    <3>3. cmd0'.op = "dma"
      BY <1>1, <2>3, <3>2, UmbraSteps, ClientWords
    <3>4. handling = <<>>
      BY <1>4, <3>1, InHand DEF IsrInHand, MainInHand, Answering
    <3> QED
      BY <1>1, <1>2, <3>1, <3>2, <3>3, <3>4 DEF ReadComes, ReadStored
  <2>4. CASE c = "isr"
    <3>1. /\ stage'["main"] = stage["main"] /\ stage'["isr"] = "spin" /\ stage["isr"] = "cmd"
          /\ Active("isr")
      BY <1>1, <1>3, <2>4 DEF Runs, Context
    <3>2. First => cmd0'.op = "select"
      BY <1>1, <1>4, <2>4, HandlerSteps, ClientWords DEF Waits
    <3>3. WriteDone => WriteDone'
      BY <1>1, <1>2, <3>1, <3>2 DEF WriteDone, NoDma
    <3>4. ASSUME ReadComes PROVE ReadComes'
      <4>1. CASE stage["main"] = "arg"
        BY <1>2, <3>1, <3>4, <4>1 DEF ReadComes
      <4>2. CASE stage["main"] = "cmd" /\ First
        <5>1. handling = <<>>
          BY <1>4, <3>1, <4>2, InHand DEF IsrInHand, MainInHand, Answering
        <5> QED
          BY <1>1, <1>2, <3>1, <3>2, <3>4, <4>2, <5>1 DEF ReadComes, SelectComes
      <4>3. CASE stage["main"] = "spin" /\ ReadStored
        <5>1. First
          BY <3>1, <4>3 DEF ReadStored
        <5>2. CASE handling = <<>>
          BY <1>1, <1>2, <3>1, <3>2, <3>4, <5>1, <5>2 DEF ReadComes, SelectComes
        <5>3. CASE handling # <<>>
          BY <1>1, <1>2, <3>1, <3>4, <4>3, <5>1, <5>3 DEF ReadComes, ReadStored
        <5> QED
          BY <5>2, <5>3
      <4>4. ~SelectComes
        BY <3>1 DEF SelectComes
      <4> QED
        BY <3>1, <3>4, <4>1, <4>2, <4>3, <4>4 DEF ReadComes
    <3> QED
      BY <2>1, <3>3, <3>4 DEF Pending
  <2> QED
    BY <2>3, <2>4 DEF Context
<1> QED
  BY <1>1, <1>2, <1>5 DEF SInv

\* The client's program is not what is left of another one.
LEMMA NotWithin ==
    ASSUME OneSlot, ExiIInv, Active("main")
    PROVE  Tail(prog["main"]) # <<WriteStep, ReadStep>>
<1>1. \A u, v : Len(<<u, v>>) = 2 /\ Len(<<u>>) = 1
  OBVIOUS
<1>2. /\ \A u, v : Head(<<u, v>>) = u
      /\ \A t : AddressStep(t) # WriteStep
  <2>1. \A t : AddressStep(t).word.op = "imm"
    BY DEF AddressStep, Step, Word
  <2> QED
    BY <2>1, ClientWords
<1>3. ASSUME Due("main") PROVE Tail(prog["main"]) # <<WriteStep, ReadStep>>
  <2>1. T \in Transfers
    BY <1>3 DEF Due, Waits
  <2>2. <<WriteStep, ReadStep>> # <<>>
    OBVIOUS
  <2>3. AtAddress(T) # <<WriteStep, ReadStep>>
    BY <1>2, <2>1, TransferSteps
  <2>4. \A u : <<u>> # <<WriteStep, ReadStep>>
    BY <1>1
  <2> QED
    BY <1>3, <2>1, <2>2, <2>3, <2>4, TransferSteps DEF Due
<1>4. ASSUME MainAside PROVE Tail(prog["main"]) # <<WriteStep, ReadStep>>
  <2>1. \A u : Tail(<<u>>) = <<>> /\ <<u>> # <<WriteStep, ReadStep>>
    BY <1>1
  <2>2. <<WriteStep, ReadStep>> # <<>>
    OBVIOUS
  <2> QED
    BY <1>4, <2>1, <2>2, UmbraSteps DEF MainAside, Idle, InUmbra, Spent, Active
<1> QED
  BY <1>3, <1>4 DEF ExiIInv, Phase

\* The write is done and the read comes.
LEMMA SpinEndsStatus == ASSUME Plain, ExiIInv, SInv, NEW c \in Context, SpinEnds(c) PROVE SInv'
<1>1. /\ Runs(c) /\ stage[c] = "spin" /\ stage' = [stage EXCEPT ![c] = "arg"]
      /\ prog' = [prog EXCEPT ![c] = Tail(prog[c])]
      /\ UNCHANGED <<cmd0, cmd1, handling, asked, answer, umbra_pending_read, umbra_cmd,
                     umbra_last_status, settings, lost, waiting>>
  BY DEF SpinEnds, dev, game, mailbox
<1>2. Clear /\ cmd0.op = "none" /\ handling = <<>> /\ OneSlot
  BY SpinEndsPreserves, PlainSlot DEF Clear, NoCmd
<1>3. stage \in [Context -> {"arg", "cmd", "spin"}] /\ prog \in [Context -> Seq(Steps)]
  BY DEF ExiIInv, ExiTypeOK, Programs
<1>4. ReadStep' = ReadStep /\ WriteStep' = WriteStep /\ StatusIsActual' = StatusIsActual
  BY <1>1 DEF WriteStep, ReadStep, StatusIsActual
<1>5. ~SelectComes /\ ~(stage["main"] = "spin" /\ ReadStored)
  BY <1>2 DEF SelectComes, ReadStored
<1>6. CASE c = "main"
  <2>1. ~AtWrite'
    BY <1>1, <1>2, <1>3, <1>4, <1>6, NotWithin DEF AtWrite, Runs, Context
  <2>2. ASSUME umbra_pending_read PROVE Pending'
    <3>1. Pending
      BY <2>2 DEF SInv
    <3>2. AtWrite
      BY <1>1, <1>5, <1>6, <3>1 DEF Pending, WriteDone, ReadComes
    <3>3. AtRead' /\ stage'["main"] = "arg"
      BY <1>1, <1>3, <1>4, <1>6, <3>2, UmbraSteps DEF AtRead, Context
    <3> QED
      BY <1>1, <3>1, <3>3 DEF Pending, Outcome, ReadComes
  <2> QED
    BY <1>1, <1>4, <2>1, <2>2 DEF SInv
<1>7. CASE c = "isr"
  <2>1. /\ prog'["main"] = prog["main"] /\ stage'["main"] = stage["main"]
        /\ Active("isr") /\ stage["isr"] = "spin"
    BY <1>1, <1>3, <1>7 DEF Context, Runs
  <2>2. AtWrite' = AtWrite /\ AtRead' = AtRead
    BY <1>4, <2>1 DEF AtWrite, AtRead
  <2>3. ASSUME umbra_pending_read PROVE Pending'
    <3>1. Pending
      BY <2>3 DEF SInv
    <3>2. WriteDone => WriteDone'
      BY <1>1, <1>2, <2>1, <2>2 DEF WriteDone, NoDma
    <3>3. ReadComes => ReadComes'
      BY <1>5, <2>1, <2>2 DEF ReadComes
    <3> QED
      BY <1>1, <3>1, <3>2, <3>3 DEF Pending, Outcome
  <2> QED
    BY <1>1, <1>4, <2>2, <2>3 DEF SInv
<1> QED
  BY <1>6, <1>7 DEF Context

\* Nothing is pending when the game's thread starts something.
LEMMA StartStatus == ASSUME Plain, ExiIInv, SInv, UmbraOp \/ \E s \in Slot : CardOp(s) PROVE SInv'
<1>1. /\ UNCHANGED <<umbra_pending_read, settings>> /\ prog["main"] = <<>>
  BY DEF UmbraOp, CardOp, dev, Active
<1>2. ~umbra_pending_read
  <2>1. ~AtWrite /\ ~AtRead
    BY <1>1, UmbraSteps
  <2> QED
    BY <2>1 DEF SInv, Pending, WriteDone, ReadComes
<1>3. CASE UmbraOp
  BY <1>1, <1>2, <1>3, ExiBusAssumption DEF UmbraOp, SInv, StatusIsActual
<1>4. ASSUME NEW s \in Slot, CardOp(s) PROVE SInv'
  <2>1. PICK t \in Transfers : prog' = [prog EXCEPT !["main"] = Program(s, t)]
    BY <1>4 DEF CardOp
  <2>2. s = s0 /\ OneSlot
    BY PlainSlot, Sole
  <2>3. Head(prog'["main"]) = Select(s0)
    BY <2>1, <2>2, TransferSteps DEF ExiIInv, Programs, Context
  <2>4. ~AtWrite'
    <3>1. AtWrite' => Head(prog'["main"]) = WriteStep'
      BY DEF AtWrite
    <3>2. WriteStep' = WriteStep
      BY <1>4 DEF CardOp, WriteStep
    <3> QED
      BY <2>3, <3>1, <3>2, ClientWords
  <2> QED
    BY <1>1, <1>2, <1>4, <2>4 DEF CardOp, SInv, StatusIsActual, dev
<1> QED
  BY <1>3, <1>4

\* The handler starts with a select.
LEMMA InterruptStatus == ASSUME Plain, ExiIInv, SInv, NEW s \in Slot, Interrupt(s) PROVE SInv'
<1>1. /\ UNCHANGED <<cmd0, cmd1, handling, stage, asked, answer, umbra_pending_read, umbra_cmd,
                     umbra_last_status, settings, lost>>
      /\ prog'["main"] = prog["main"] /\ ~Active("isr")
  BY DEF Interrupt, mailbox, dev, ExiIInv, Programs, Context
<1>2. First' /\ stage["isr"] = "arg"
  BY InterruptPreserves, PlainSlot DEF Idle
<1>3. /\ AtWrite' = AtWrite /\ AtRead' = AtRead /\ ReadStep' = ReadStep
      /\ StatusIsActual' = StatusIsActual
  BY <1>1 DEF AtWrite, AtRead, WriteStep, ReadStep, StatusIsActual
<1>4. WriteDone => WriteDone'
  BY <1>1, <1>3 DEF WriteDone, NoDma
<1>5. ReadComes => ReadComes'
  BY <1>1, <1>2, <1>3 DEF ReadComes, SelectComes, ReadStored
<1> QED
  BY <1>1, <1>3, <1>4, <1>5 DEF SInv, Pending, Outcome

\* The invariant holds when the game starts.
LEMMA InitStatus == ASSUME ExiInit PROVE SInv
<1>1. <<WriteStep, ReadStep>> # <<>>
  OBVIOUS
<1> QED
  BY <1>1, NoAnswer DEF ExiInit, SInv, AtWrite, Context

\* It is inductive, together with the first one.
LEMMA StepKeepsStatus == ASSUME Plain, ExiIInv, SInv, [ExiNext]_exi_vars PROVE SInv'
<1>1. CASE Game
  BY <1>1, StoreArgStatus, StoreCmdStatus, SpinEndsStatus, StartStatus, InterruptStatus DEF Game
<1>2. CASE EXIInterrupt
  BY <1>2, SameStatus DEF EXIInterrupt, dev, game
<1>3. CASE Kernel /\ ~EXIInterrupt
  BY <1>3, TakeStatus, SelectStatus, ImmStatus, UmbraWriteStatus, UmbraReadStatus, CardDmaStatus DEF Kernel
<1>4. CASE Done \/ UNCHANGED exi_vars
  BY <1>4, SameStatus DEF Done, exi_vars, dev, game
<1> QED
  BY <1>1, <1>2, <1>3, <1>4 DEF ExiNext

\* With the umbra client and a card on channel 0, no short write and no page taken for a
\* command, every reachable state satisfies both invariants.
THEOREM StatusInvariant == ASSUME Plain PROVE ExiSpec => [](ExiIInv /\ SInv)
<1>1. ExiInit => ExiIInv /\ SInv
  BY InitHolds, InitStatus, PlainSlot
<1>2. ExiIInv /\ SInv /\ [ExiNext]_exi_vars => (ExiIInv /\ SInv)'
  BY StepPreserves, StepKeepsStatus, PlainSlot
<1> QED
  BY <1>1, <1>2, PTL DEF ExiSpec

\* A success read by the client is that of the command it asked about, whose effect is in the
\* file unless the medium has lost it below f_write (`lost`), and settings read are those of the
\* file, whatever the card's interrupts do to the mailbox in between (EXIDeviceUmbra).
THEOREM StatusesAreActual == ASSUME Plain PROVE ExiSpec => []StatusIsActual
<1>1. ExiIInv /\ SInv => StatusIsActual
  BY DEF SInv
<1> QED
  BY <1>1, StatusInvariant, PTL

-----------------------------------------------------------------------------
(***************************************************************************)
(* MemCard.  The safety properties rest on one inductive invariant, which   *)
(* adds to them that the changed flag lives only between the register       *)
(* handlers and CheckChanges and that the save timer is never older than    *)
(* the game's silence.                                                      *)
(***************************************************************************)
\* changed[s] is raised by the register handlers and consumed in the same
\* iteration of the loop.
ChangedInIteration == pc # "check" => \A s \in Slots : ~changed[s]

\* Outside that window, Now is not before the last write.
TimerIsYoung == (\A s \in Slots : ~changed[s]) => sinceNow <= quiet

IInv ==
    /\ TypeOK
    /\ DirtyCovered
    /\ LowAboveSystem
    /\ DirtyScheduled
    /\ CleanExit
    /\ ChangedInIteration
    /\ TimerIsYoung

-----------------------------------------------------------------------------
(* Type correctness and the dirty range, which hold whatever the device does *)

\* A write keeps the types, and moves the dirty range without letting it into
\* the system area.
LEMMA WriteTypes ==
    ASSUME ImagesOK, ContextsOK, LowAboveSystem,
           NEW s \in Slots, NEW off \in Cells(s), NEW len \in Lengths, NEW c \in Content,
           GCNCard_Write(s, off, len, c), UNCHANGED file
    PROVE  (ImagesOK /\ ContextsOK /\ LowAboveSystem)'
<1>0. off + len <= CardSize[s]
  BY DEF GCNCard_Write
<1>1. /\ off \in Nat /\ len \in Nat /\ off + len \in 0 .. NoOffset
      /\ off \in 0 .. NoOffset
  <2>1. CardSize[s] \in Nat /\ CardSize[s] <= NoOffset /\ NoOffset \in Nat /\ len \in Nat
    BY MemCardAssumption
  <2> QED BY <1>0, <2>1 DEF Cells
<1>2. ImagesOK'
  BY DEF GCNCard_Write, ImagesOK
<1>3. changed' \in [Slots -> BOOLEAN] /\ changed_system' \in [Slots -> BOOLEAN]
  BY DEF GCNCard_Write, ContextsOK
<1>4. BlockOffLow' \in [Slots -> 0 .. NoOffset]
  BY <1>1, MemCardAssumption DEF GCNCard_Write, ContextsOK, LowAfter, LowUnclamped
<1>5. BlockOffHigh' \in [Slots -> 0 .. NoOffset]
  BY <1>1, MemCardAssumption DEF GCNCard_Write, ContextsOK, HighAfter
<1>6. LowAboveSystem'
  BY <1>1, MemCardAssumption DEF GCNCard_Write, ContextsOK, LowAboveSystem, LowAfter, LowUnclamped
<1> QED BY <1>2, <1>3, <1>4, <1>5, <1>6 DEF ContextsOK

\* So does a save, whichever files it could open.
LEMMA SaveTypes ==
    ASSUME ImagesOK, ContextsOK, LowAboveSystem,
           NEW opened \in Openable, GCNCard_Save(opened)
    PROVE  (ImagesOK /\ ContextsOK /\ LowAboveSystem)'
<1>1. ImagesOK'
  <2>1. ASSUME NEW t \in Slots PROVE file'[t] \in [Cells(t) -> Content]
    <3>1. [a \in Cells(t) |-> IF Tracked(t, a) THEN mem[t][a] ELSE file[t][a]]
              \in [Cells(t) -> Content]
      BY DEF ImagesOK
    <3> QED BY <3>1 DEF ImagesOK, GCNCard_Save
  <2> QED BY <2>1 DEF ImagesOK, GCNCard_Save
<1>2. changed' \in [Slots -> BOOLEAN] /\ changed_system' \in [Slots -> BOOLEAN]
  BY DEF GCNCard_Save, ContextsOK, NeedsSave, IsEnabled
<1>3. BlockOffLow' \in [Slots -> 0 .. NoOffset] /\ BlockOffHigh' \in [Slots -> 0 .. NoOffset]
  BY MemCardAssumption DEF GCNCard_Save, ContextsOK
<1>4. LowAboveSystem'
  BY MemCardAssumption DEF GCNCard_Save, LowAboveSystem, ContextsOK
<1> QED BY <1>1, <1>2, <1>3, <1>4 DEF ContextsOK

\* And so does loading the cards.
LEMMA LoadTypes ==
    ASSUME ImagesOK, Loaded(file), UNCHANGED file
    PROVE  (ImagesOK /\ ContextsOK /\ LowAboveSystem)'
<1>1. ImagesOK'
  BY DEF ImagesOK, Loaded
<1>2. ContextsOK'
  BY MemCardAssumption DEF ContextsOK, Loaded
<1>3. LowAboveSystem'
  BY MemCardAssumption DEF LowAboveSystem, Loaded
<1> QED BY <1>1, <1>2, <1>3

\* Every step keeps the cards' types and their dirty ranges above the system area.
LEMMA CardStep ==
    ImagesOK /\ ContextsOK /\ LowAboveSystem /\ [Next]_vars
        => (ImagesOK /\ ContextsOK /\ LowAboveSystem)'
<1> SUFFICES ASSUME ImagesOK, ContextsOK, LowAboveSystem, [Next]_vars
             PROVE  (ImagesOK /\ ContextsOK /\ LowAboveSystem)'
  OBVIOUS
<1>1. ASSUME UNCHANGED <<mem, file, ctx>>
      PROVE  (ImagesOK /\ ContextsOK /\ LowAboveSystem)'
  BY <1>1 DEF ctx, ImagesOK, ContextsOK, LowAboveSystem
<1>2. CASE LoopTop
  <2>1. CASE DueSave
    BY <2>1, SaveTypes DEF DueSave
  <2> QED BY <1>1, <1>2, <2>1 DEF LoopTop, DiscDone, NothingDue
<1>3. CASE NoCardWrite
  BY <1>1, <1>3 DEF NoCardWrite
<1>4. ASSUME NEW s \in Slots, CardWrite(s)
      PROVE  (ImagesOK /\ ContextsOK /\ LowAboveSystem)'
  <2>1. PICK off \in Cells(s), len \in Lengths, c \in Content : GCNCard_Write(s, off, len, c)
    BY <1>4 DEF CardWrite
  <2>2. UNCHANGED file
    BY <1>4 DEF CardWrite
  <2> QED BY <2>1, <2>2, WriteTypes
<1>5. CASE LoopCheckChanges
  BY <1>5 DEF LoopCheckChanges, ClearChanged, ImagesOK, ContextsOK, LowAboveSystem
<1>6. CASE LoopReset
  <2>1. CASE ExitGame
    BY <2>1, SaveTypes DEF ExitGame, EXIShutdown
  <2> QED BY <1>1, <1>6, <2>1 DEF LoopReset, NoReset
<1>7. CASE Tick
  BY <1>1, <1>7 DEF Tick
<1>8. CASE Boot
  BY <1>8, LoadTypes DEF Boot
<1>9. CASE UNCHANGED vars
  BY <1>1, <1>9 DEF vars
<1> QED BY <1>2, <1>3, <1>4, <1>5, <1>6, <1>7, <1>8, <1>9 DEF Next, MainLoop, LoopRegisters

\* Every step keeps the loop's types.
LEMMA LoopStep == LoopOK /\ [Next]_vars => LoopOK'
<1> SUFFICES ASSUME LoopOK, [Next]_vars PROVE LoopOK'
  OBVIOUS
<1> USE MemCardAssumption DEF LoopOK, Goto
<1>1. CASE LoopTop
  <2>1. CASE DiscDone
    BY <2>1 DEF DiscDone
  <2>2. CASE DueSave
    BY <2>2 DEF DueSave
  <2>3. CASE NothingDue
    BY <2>3 DEF NothingDue
  <2> QED BY <1>1, <2>1, <2>2, <2>3 DEF LoopTop
<1>2. CASE LoopRegisters
  <2>1. quiet' \in 0 .. SaveDelay + 1
    BY <1>2 DEF LoopRegisters, NoCardWrite, CardWrite
  <2>2. DI_IRQ' \in BOOLEAN
    BY <1>2 DEF LoopRegisters, NoCardWrite, CardWrite, DiscCommand
  <2> QED BY <1>2, <2>1, <2>2 DEF LoopRegisters, NoCardWrite, CardWrite
<1>3. CASE LoopCheckChanges
  <2>1. CASE CardsChanged
    <3>1. SaveCard' = TRUE /\ sinceNow' = 0
      BY <1>3, <2>1 DEF LoopCheckChanges, ScheduleSave
    <3> QED BY <1>3, <3>1 DEF LoopCheckChanges
  <2>2. CASE ~CardsChanged
    <3>1. SaveCard' = SaveCard /\ sinceNow' = sinceNow
      BY <1>3, <2>2 DEF LoopCheckChanges
    <3> QED BY <1>3, <3>1 DEF LoopCheckChanges
  <2> QED BY <2>1, <2>2
<1>4. CASE LoopReset
  BY <1>4 DEF LoopReset, NoReset, ExitGame
<1>5. CASE Tick
  BY <1>5 DEF Tick, Older
<1>6. CASE Boot
  <2>1. SaveCard' \in BOOLEAN /\ DI_IRQ' \in BOOLEAN
    BY <1>6, Zenon DEF Boot
  <2>2. sinceNow' = 0 /\ quiet' = SaveDelay + 1 /\ pc' = "top"
    BY <1>6 DEF Boot
  <2> QED BY <2>1, <2>2
<1>7. CASE UNCHANGED vars
  BY <1>7 DEF vars
<1> QED BY <1>1, <1>2, <1>3, <1>4, <1>5, <1>6, <1>7 DEF Next, MainLoop

LEMMA TypeInit == Init => TypeOK /\ LowAboveSystem
<1> SUFFICES ASSUME Init PROVE TypeOK /\ LowAboveSystem
  OBVIOUS
<1>1. PICK slotA \in [Cells(0) -> Content], slotB \in [Cells(1) -> Content] :
          file = [s \in Slots |-> IF s = 0 THEN slotA ELSE slotB]
  BY DEF Init
<1>2. \A s \in Slots : file[s] \in [Cells(s) -> Content]
  BY <1>1 DEF Slots
<1>3. ImagesOK
  BY <1>1, <1>2 DEF Init, ImagesOK
<1>4. ContextsOK
  BY MemCardAssumption DEF Init, ContextsOK
<1>5. LoopOK
  <2>1. SaveCard \in BOOLEAN /\ DI_IRQ \in BOOLEAN
    BY Zenon DEF Init
  <2>2. sinceNow = 0 /\ quiet = SaveDelay + 1 /\ pc = "top"
    BY DEF Init
  <2> QED BY <2>1, <2>2, MemCardAssumption DEF LoopOK
<1>6. LowAboveSystem
  BY MemCardAssumption DEF Init, LowAboveSystem
<1> QED BY <1>3, <1>4, <1>5, <1>6 DEF TypeOK

LEMMA TypeStep == TypeOK /\ LowAboveSystem /\ [Next]_vars => (TypeOK /\ LowAboveSystem)'
  BY CardStep, LoopStep DEF TypeOK

\* The contexts, the loop and the timers keep their types.
THEOREM TypeCorrect == Spec => []TypeOK
<1>1. Init => TypeOK /\ LowAboveSystem BY TypeInit
<1>2. TypeOK /\ LowAboveSystem /\ [Next]_vars => (TypeOK /\ LowAboveSystem)' BY TypeStep
<1> QED BY <1>1, <1>2, PTL DEF Spec

\* The dirty range stays above the system area, even when saves fail.
THEOREM RangeAboveSystem == Spec => []LowAboveSystem
<1>1. Init => TypeOK /\ LowAboveSystem BY TypeInit
<1>2. TypeOK /\ LowAboveSystem /\ [Next]_vars => (TypeOK /\ LowAboveSystem)' BY TypeStep
<1> QED BY <1>1, <1>2, PTL DEF Spec
-----------------------------------------------------------------------------
(* What a save leaves behind when the device works                         *)

\* Under DirtyCovered a save of every card copies every image.
LEMMA SaveCopies ==
    ASSUME ImagesOK, ContextsOK, DirtyCovered, ~StorageFails,
           NEW opened \in Openable, GCNCard_Save(opened)
    PROVE  file' = mem /\ mem' = mem
<1>1. opened = Slots
  BY DEF Openable
<1>2. ASSUME NEW s \in Slots PROVE file'[s] = mem[s]
  <2>1. \A a \in Cells(s) : mem[s][a] = file[s][a] \/ Tracked(s, a)
    BY DEF DirtyCovered
  <2>2. CASE NeedsSave(s)
    <3>1. file'[s] = [a \in Cells(s) |-> IF Tracked(s, a) THEN mem[s][a] ELSE file[s][a]]
      BY <1>1, <2>2 DEF GCNCard_Save
    <3>2. mem[s] = [a \in Cells(s) |-> mem[s][a]]
      BY DEF ImagesOK
    <3> QED BY <2>1, <3>1, <3>2
  <2>3. CASE ~NeedsSave(s)
    <3>1. file'[s] = file[s]
      BY <2>3 DEF GCNCard_Save
    <3>2. \A a \in Cells(s) : mem[s][a] = file[s][a]
      <4>1. CardSize[s] \in Nat /\ BlockOffLow[s] \in Nat /\ BlockOffHigh[s] \in Nat
        BY MemCardAssumption DEF ContextsOK
      <4> QED BY <2>1, <2>3, <4>1 DEF NeedsSave, IsEnabled, Tracked, Cells
    <3> QED BY <3>1, <3>2 DEF ImagesOK
  <2> QED BY <2>2, <2>3
<1>3. file' = [s \in Slots |-> file'[s]] /\ mem = [s \in Slots |-> mem[s]]
  BY DEF GCNCard_Save, ImagesOK
<1>4. file' = mem
  BY <1>2, <1>3
<1> QED BY <1>4 DEF GCNCard_Save
\* A write leaves every cell it touches, and every cell that was dirty before,
\* marked: the system flag covers what the clamped range gives up.
LEMMA WriteCovers ==
    ASSUME ImagesOK, ContextsOK, DirtyCovered, UNCHANGED file,
           NEW s \in Slots, NEW off \in Cells(s), NEW len \in Lengths, NEW c \in Content,
           GCNCard_Write(s, off, len, c)
    PROVE  DirtyCovered'
<1> SUFFICES ASSUME NEW t \in Slots, NEW a \in Cells(t), mem'[t][a] # file[t][a]
             PROVE  Tracked(t, a)'
  BY DEF DirtyCovered
<1>1. CASE t # s
  <2>1. /\ mem'[t] = mem[t] /\ changed_system'[t] = changed_system[t]
        /\ BlockOffLow'[t] = BlockOffLow[t] /\ BlockOffHigh'[t] = BlockOffHigh[t]
    BY <1>1 DEF GCNCard_Write, ImagesOK, ContextsOK
  <2> QED BY <2>1 DEF DirtyCovered, Tracked
<1>2. CASE t = s
  <2> DEFINE end == off + len
             lowest == IF off < BlockOffLow[s] THEN off ELSE BlockOffLow[s]
             highest == IF end > BlockOffHigh[s] THEN end ELSE BlockOffHigh[s]
             inSystem == off < SysEnd /\ end < SysEnd
  <2>1. /\ a \in Int /\ off \in Nat /\ len \in Nat /\ SysEnd \in Nat
        /\ BlockOffLow[s] \in Int /\ BlockOffHigh[s] \in Int
    BY MemCardAssumption DEF Cells, ContextsOK
  <2>2. changed_system'[s] <=> changed_system[s] \/ inSystem \/ off < SysEnd \/ lowest < SysEnd
    <3>1. changed_system'[s] <=> changed_system[s] \/ inSystem \/ TouchesSystem(s, off)
      BY DEF GCNCard_Write, ContextsOK
    <3>2. TouchesSystem(s, off) <=> off < SysEnd \/ lowest < SysEnd
      BY <2>1 DEF TouchesSystem
    <3> QED BY <3>1, <3>2
  <2>3. /\ BlockOffLow'[s] = IF inSystem THEN BlockOffLow[s]
                             ELSE IF lowest < SysEnd THEN SysEnd ELSE lowest
        /\ BlockOffHigh'[s] = IF inSystem THEN BlockOffHigh[s] ELSE highest
    BY DEF GCNCard_Write, ContextsOK, LowAfter, LowUnclamped, HighAfter
  <2>4. CASE off <= a /\ a < end
    BY <1>2, <2>1, <2>2, <2>3, <2>4 DEF Tracked
  <2>5. CASE ~(off <= a /\ a < end)
    <3>1. mem'[s][a] = mem[s][a]
      BY <1>2, <2>5 DEF GCNCard_Write, ImagesOK
    <3>2. Tracked(s, a)
      BY <1>2, <3>1 DEF DirtyCovered
    <3> QED BY <1>2, <2>1, <2>2, <2>3, <3>2 DEF Tracked
  <2> QED BY <2>4, <2>5
<1> QED BY <1>1, <1>2

-----------------------------------------------------------------------------
(* The inductive invariant                                                 *)

LEMMA InvInit == Init => IInv
<1> SUFFICES ASSUME Init PROVE IInv
  OBVIOUS
<1>1. mem = file /\ \A s \in Slots : ~changed[s]
  BY DEF Init
<1>2. sinceNow = 0 /\ quiet = SaveDelay + 1 /\ pc = "top"
  BY DEF Init
<1>3. DirtyCovered /\ DirtyScheduled /\ CleanExit /\ ChangedInIteration
  BY <1>1, <1>2 DEF DirtyCovered, DirtyScheduled, CleanExit, ChangedInIteration
<1>4. TimerIsYoung
  BY <1>2, MemCardAssumption DEF TimerIsYoung
<1> QED BY <1>3, <1>4, TypeInit DEF IInv

LEMMA InvStep == ASSUME ~StorageFails, IInv, [Next]_vars PROVE IInv'
<1>0. ImagesOK /\ ContextsOK /\ LoopOK /\ (TypeOK /\ LowAboveSystem)'
  BY TypeStep DEF IInv, TypeOK
<1> USE DEF Goto
<1>1. ASSUME UNCHANGED <<mem, file, ctx>>
      PROVE  /\ DirtyCovered'
             /\ (\A s \in Slots : ~changed'[s]) <=> \A s \in Slots : ~changed[s]
             /\ (\E s \in Slots : mem'[s] # file'[s]) <=> \E s \in Slots : mem[s] # file[s]
             /\ (file' = mem') <=> (file = mem)
  BY <1>1 DEF ctx, IInv, DirtyCovered, Tracked
<1>2. ASSUME NEW opened \in Openable, GCNCard_Save(opened)
      PROVE  /\ DirtyCovered' /\ DirtyScheduled' /\ file' = mem'
             /\ (\A s \in Slots : ~changed'[s]) <=> \A s \in Slots : ~changed[s]
  <2>1. file' = mem /\ mem' = mem
    BY <1>0, <1>2, SaveCopies DEF IInv
  <2> QED BY <1>2, <2>1 DEF DirtyCovered, DirtyScheduled, GCNCard_Save
<1>3. CASE DiscDone
  <2>1. SaveCard' = SaveCard /\ sinceNow' = sinceNow /\ quiet' = quiet
    BY <1>3 DEF DiscDone
  <2> QED BY <1>0, <1>1, <1>3, <2>1
          DEF DiscDone, IInv, DirtyScheduled, CleanExit, ChangedInIteration, TimerIsYoung, ctx
<1>4. CASE NothingDue
  <2>1. SaveCard' = SaveCard /\ sinceNow' = sinceNow /\ quiet' = quiet
    BY <1>4 DEF NothingDue
  <2> QED BY <1>0, <1>1, <1>4, <2>1
          DEF NothingDue, IInv, DirtyScheduled, CleanExit, ChangedInIteration, TimerIsYoung, ctx
<1>5. CASE DueSave
  BY <1>0, <1>2, <1>5
     DEF DueSave, IInv, CleanExit, ChangedInIteration, TimerIsYoung
<1>6. CASE NoCardWrite
  <2>1. SaveCard' = SaveCard /\ sinceNow' = sinceNow /\ quiet' = quiet
    BY <1>6 DEF NoCardWrite
  <2> QED BY <1>0, <1>1, <1>6, <2>1
          DEF NoCardWrite, IInv, DirtyScheduled, CleanExit, ChangedInIteration, TimerIsYoung, ctx
<1>7. ASSUME NEW s \in Slots, CardWrite(s) PROVE IInv'
  <2>1. PICK off \in Cells(s), len \in Lengths, c \in Content : GCNCard_Write(s, off, len, c)
    BY <1>7 DEF CardWrite
  <2>2. DirtyCovered'
    BY <1>0, <1>7, <2>1, WriteCovers DEF CardWrite, IInv
  <2>3. changed'[s]
    BY <1>0, <2>1 DEF GCNCard_Write, ContextsOK
  <2> QED BY <1>0, <1>7, <2>2, <2>3
          DEF CardWrite, IInv, DirtyScheduled, CleanExit, ChangedInIteration, TimerIsYoung
<1>8. CASE LoopCheckChanges
  <2>1. \A s \in Slots : ~changed'[s]
    BY <1>8 DEF LoopCheckChanges, ClearChanged
  <2>2. DirtyCovered'
    BY <1>8 DEF LoopCheckChanges, ClearChanged, IInv, DirtyCovered, Tracked
  <2>3. DirtyScheduled'
    BY <1>8 DEF LoopCheckChanges, ClearChanged, CardsChanged, ScheduleSave, IInv, DirtyScheduled
  <2>4. TimerIsYoung'
    BY <1>0, <1>8, MemCardAssumption DEF LoopCheckChanges, ClearChanged, CardsChanged, ScheduleSave, IInv, TimerIsYoung, LoopOK
  <2> QED BY <1>0, <1>8, <2>1, <2>2, <2>3, <2>4
          DEF LoopCheckChanges, IInv, CleanExit, ChangedInIteration
<1>9. CASE NoReset
  <2>1. SaveCard' = SaveCard /\ sinceNow' = sinceNow /\ quiet' = quiet
    BY <1>9 DEF NoReset
  <2> QED BY <1>0, <1>1, <1>9, <2>1
          DEF NoReset, IInv, DirtyScheduled, CleanExit, ChangedInIteration, TimerIsYoung, ctx
<1>10. CASE ExitGame
  BY <1>0, <1>2, <1>10
     DEF ExitGame, EXIShutdown, IInv, CleanExit, ChangedInIteration, TimerIsYoung
<1>11. CASE Tick
  <2>1. TimerIsYoung'
    BY <1>0, <1>11, MemCardAssumption DEF Tick, Older, ctx, IInv, TimerIsYoung, LoopOK
  <2> QED BY <1>0, <1>1, <1>11, <2>1
          DEF Tick, IInv, DirtyScheduled, CleanExit, ChangedInIteration, ctx
<1>12. CASE Boot
  <2>1. mem' = file /\ file' = file /\ \A s \in Slots : ~changed'[s]
    BY <1>12 DEF Boot, Loaded
  <2>2. sinceNow' = 0 /\ quiet' = SaveDelay + 1
    BY <1>12 DEF Boot
  <2>3. TimerIsYoung'
    BY <2>2, MemCardAssumption DEF TimerIsYoung
  <2> QED BY <1>0, <2>1, <2>3
          DEF IInv, DirtyCovered, DirtyScheduled, CleanExit, ChangedInIteration
<1>13. CASE UNCHANGED vars
  BY <1>0, <1>1, <1>13
     DEF vars, IInv, DirtyScheduled, CleanExit, ChangedInIteration, TimerIsYoung, ctx
<1> QED
  BY <1>3, <1>4, <1>5, <1>6, <1>7, <1>8, <1>9, <1>10, <1>11, <1>12, <1>13
     DEF Next, MainLoop, LoopTop, LoopRegisters, LoopReset

\* A write or an exit either way, with a device that works the loop keeps IInv.
THEOREM Invariance == ASSUME ~StorageFails PROVE Spec => []IInv
<1>1. Init => IInv BY InvInit
<1>2. IInv /\ [Next]_vars => IInv' BY InvStep
<1> QED BY <1>1, <1>2, PTL DEF Spec

\* No unsaved cell is ever forgotten by the dirty range and the system flag.
THEOREM NothingForgotten == ASSUME ~StorageFails PROVE Spec => []DirtyCovered
<1>1. IInv => DirtyCovered BY DEF IInv
<1> QED BY <1>1, Invariance, PTL

\* While a card holds unsaved data a save is on its way.
THEOREM SaveOnItsWay == ASSUME ~StorageFails PROVE Spec => []DirtyScheduled
<1>1. IInv => DirtyScheduled BY DEF IInv
<1> QED BY <1>1, Invariance, PTL

\* Leaving the game loses nothing.
THEOREM ExitKeepsCards == ASSUME ~StorageFails PROVE Spec => []CleanExit
<1>1. IInv => CleanExit BY DEF IInv
<1> QED BY <1>1, Invariance, PTL

\* The loop saves only after SaveDelay seconds of silence.
THEOREM SaveIsDebounced == ASSUME ~StorageFails PROVE Spec => DebouncedSave
<1>1. IInv /\ [Next]_vars
        => [SaveCard /\ ~SaveCard' /\ pc' = "registers" => quiet > SaveDelay]_vars
  <2> SUFFICES ASSUME IInv, Next, SaveCard, ~SaveCard', pc' = "registers"
               PROVE  quiet > SaveDelay
    OBVIOUS
  <2>1. DueSave
    <3>1. ~Boot /\ ~LoopReset /\ ~LoopCheckChanges /\ ~LoopRegisters
      BY DEF Boot, LoopReset, NoReset, ExitGame, LoopCheckChanges, LoopRegisters,
             NoCardWrite, CardWrite, Goto
    <3>2. ~Tick /\ ~DiscDone /\ ~NothingDue
      BY DEF Tick, DiscDone, NothingDue
    <3> QED BY <3>1, <3>2 DEF Next, MainLoop, LoopTop
  <2>2. pc = "top" /\ sinceNow > SaveDelay
    BY <2>1 DEF DueSave, Goto
  <2>3. sinceNow <= quiet
    BY <2>2 DEF IInv, ChangedInIteration, TimerIsYoung
  <2> QED BY <2>2, <2>3, MemCardAssumption DEF IInv, TypeOK, LoopOK
<1> QED BY <1>1, Invariance, PTL DEF Spec, DebouncedSave

\* With a device that works, the dirty ranges cannot be told from copying whole
\* images: every step of the kernel is one of CardStore or leaves cards alone.
THEOREM SavesAreWhole == ASSUME ~StorageFails PROVE Spec => ImplementsCardStore
<1>1. Init => Store!CInit
  <2> SUFFICES ASSUME Init PROVE Store!CInit
    OBVIOUS
  <2>1. ImagesOK /\ file = mem
    BY TypeInit DEF TypeOK, Init
  <2> QED BY <2>1 DEF Store!CInit, ImagesOK
<1>2. IInv /\ [Next]_vars => [Store!CNext]_<<mem, file>>
  <2> SUFFICES ASSUME IInv, [Next]_vars, ~UNCHANGED <<mem, file>>
               PROVE  Store!CNext
    OBVIOUS
  <2>0. ImagesOK /\ ContextsOK /\ ImagesOK'
    BY TypeStep DEF IInv, TypeOK
  <2>1. ASSUME NEW opened \in Openable, GCNCard_Save(opened) PROVE Store!SaveAll
    <3>1. file' = mem /\ mem' = mem
      BY <2>0, <2>1, SaveCopies DEF IInv
    <3> QED BY <3>1 DEF Store!SaveAll
  <2>2. ASSUME NEW s \in Slots, CardWrite(s) PROVE Store!GameWrite(s)
    <3>1. PICK off \in Cells(s), len \in Lengths, c \in Content : GCNCard_Write(s, off, len, c)
      BY <2>2 DEF CardWrite
    <3>2. mem' = [mem EXCEPT ![s] = mem'[s]] /\ mem'[s] \in [Cells(s) -> Content]
      BY <2>0, <3>1 DEF GCNCard_Write, ImagesOK
    <3> QED BY <2>2, <3>2 DEF Store!GameWrite, CardWrite
  <2>3. ASSUME Boot PROVE Store!PowerCut
    BY <2>3 DEF Boot, Loaded, Store!PowerCut
  <2>4. LoopTop => DueSave
    BY DEF LoopTop, DiscDone, NothingDue
  <2>5. ~NoCardWrite /\ ~LoopCheckChanges /\ ~NoReset /\ ~Tick /\ ~UNCHANGED vars
    BY DEF NoCardWrite, LoopCheckChanges, NoReset, Tick, vars
  <2> QED BY <2>1, <2>2, <2>3, <2>4, <2>5
          DEF Next, MainLoop, LoopRegisters, LoopReset, DueSave, ExitGame, EXIShutdown,
              Store!CNext
<1> QED BY <1>1, <1>2, Invariance, PTL
        DEF Spec, ImplementsCardStore, Store!CSpec, Store!cvars
=============================================================================
