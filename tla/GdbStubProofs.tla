----------------------------- MODULE GdbStubProofs -----------------------------
(***************************************************************************)
(* Proofs, for any number of addresses, breakpoint slots and list entries. *)
(*                                                                         *)
(* The stub never loses an instruction of the game (CodePreserved),        *)
(* whether or not GDB spares the list.  CodePreserved alone is not         *)
(* inductive: that a removal puts the right word back rests on what the    *)
(* table recorded (Recorded), on there being one entry per address         *)
(* (Distinct), and on the address being stepped over having one (Window).  *)
(*                                                                         *)
(* The PowerPC fetches no stale word (Coherent) while GDB spares the list. *)
(* That every changed address is listed rests on the room that is left at  *)
(* each point between two resumptions (Fits).                              *)
(***************************************************************************)
EXTENDS GdbStub, FiniteSetTheorems, WellFoundedInduction, TLAPS

Entry == [addr : Addr \cup {NoAddr}, orig : Code, active : BOOLEAN]

Types ==
    /\ mem \in [Addr -> Word] /\ code \in [Addr -> Code]
    /\ bp \in [Slot -> Entry] /\ bp_count \in 0 .. GDB_MAX_BREAKPOINTS

\* An active entry is inside the table and holds the game's word at its address.
Recorded ==
    \A s \in Slot : bp[s].active => /\ s <= bp_count /\ bp[s].addr \in Addr
                                    /\ bp[s].orig = code[bp[s].addr]

Distinct ==
    \A s, t \in Slot : bp[s].active /\ bp[t].active /\ bp[s].addr = bp[t].addr => s = t

Patched == \A a \in Addr : mem[a] = IF Active(a) /\ a # over THEN "trap" ELSE code[a]

Window == IF srv \in {"continue", "step"} THEN over \in Addr /\ Active(over) ELSE over = NoAddr

\* Nothing is active between sessions, nor while one ends.
Empty == srv \in {"listen"} \cup Ending => ActiveSlots = {}

IInv == Types /\ Recorded /\ Distinct /\ Patched /\ Window /\ Empty

\* The two kinds of steps that end a session: those that remove the breakpoints, and the
\* stores behind them.
Removal == Detach \/ BreakOff \/ CloseClient
EndStore == StoreDetach \/ LetGo \/ ClearRequest \/ ClearMagic

\* What the invariant reads.
watched == <<mem, code, bp, bp_count, over, srv>>

-----------------------------------------------------------------------------

\* No address is 0, which stands for "none".
LEMMA NotAnAddr == NoAddr \notin Addr
BY GdbStubAssumption DEF NoAddr, Addr

\* The invariant holds before a client is there.
LEMMA InitIInv == Init => IInv
<1> SUFFICES ASSUME Init PROVE IInv
  OBVIOUS
<1> USE DEF Init
<1>1. Types
  BY GdbStubAssumption DEF Types, Entry, Word, Code, Slot
<1>2. ActiveSlots = {} /\ \A s \in Slot : ~bp[s].active
  BY DEF ActiveSlots
<1>3. Recorded /\ Distinct /\ Empty
  BY <1>2 DEF Recorded, Distinct, Empty
<1>4. Patched
  BY <1>2 DEF Patched, Active, ActiveSlots
<1>5. Window
  BY DEF Window
<1> QED
  BY <1>1, <1>3, <1>4, <1>5 DEF IInv

\* A step that leaves the table, the code and the window alone keeps the invariant.
LEMMA Unwatched == IInv /\ UNCHANGED watched => IInv'
<1> SUFFICES ASSUME IInv, UNCHANGED watched PROVE IInv'
  OBVIOUS
<1>1. Types' /\ Recorded' /\ Distinct' /\ Patched'
  BY DEF IInv, watched, Types, Recorded, Distinct, Patched, Active
<1>2. Window' /\ Empty'
  BY DEF IInv, watched, Window, Empty, Active, ActiveSlots
<1> QED
  BY <1>1, <1>2 DEF IInv

\* The program counter of the server moves between states that neither step over an
\* address nor wait for a client.
LEMMA ServerMoves ==
    ASSUME IInv, UNCHANGED <<mem, code, bp, bp_count, over>>,
           srv \notin {"continue", "step"},
           srv' \notin {"continue", "step", "listen"} \cup Ending
    PROVE  IInv'
<1>1. Types' /\ Recorded' /\ Distinct' /\ Patched'
  BY DEF IInv, Types, Recorded, Distinct, Patched, Active
<1>2. Window' /\ Empty'
  BY DEF IInv, Window, Empty
<1> QED
  BY <1>1, <1>2 DEF IInv

\* The stores at the end of a session find the table empty and leave it so.
LEMMA EndStoreStep == IInv /\ EndStore => IInv'
<1> SUFFICES ASSUME IInv, EndStore PROVE IInv'
  OBVIOUS
<1>1. /\ UNCHANGED <<mem, code, bp, bp_count, over>>
      /\ srv \in Ending /\ srv' \in {"listen"} \cup Ending
  BY DEF EndStore, StoreDetach, LetGo, ClearRequest, ClearMagic, Ending, code_vars, table
<1>2. srv \notin {"continue", "step"} /\ srv' \notin {"continue", "step"}
  BY <1>1 DEF Ending
<1>3. Types' /\ Recorded' /\ Distinct' /\ Patched'
  BY <1>1 DEF IInv, Types, Recorded, Distinct, Patched, Active
<1>4. Window' /\ Empty'
  BY <1>1, <1>2 DEF IInv, Window, Empty, ActiveSlots
<1> QED
  BY <1>3, <1>4 DEF IInv

-----------------------------------------------------------------------------
(* The table's operations                                                  *)

\* bp_insert records the game's word and replaces it.
LEMMA InsertStep == \A a \in Addr : IInv /\ InsertBreakpoint(a) => IInv'
<1> SUFFICES ASSUME NEW a \in Addr, IInv, InsertBreakpoint(a) PROVE IInv'
  OBVIOUS
<1>1. PICK s \in Slot :
        /\ FreeSlot(s)
        /\ bp' = [bp EXCEPT ![s] = [addr |-> a, orig |-> mem[a], active |-> TRUE]]
        /\ bp_count' = IF Reusable # {} THEN bp_count ELSE s
  BY DEF InsertBreakpoint
<1>2. /\ ~Active(a) /\ mem' = [mem EXCEPT ![a] = "trap"]
      /\ srv = "cmd" /\ UNCHANGED <<code, srv, over>>
  BY DEF InsertBreakpoint, Fresh, Commanding, server
<1>3. over = NoAddr /\ a # over
  BY <1>2, NotAnAddr DEF IInv, Window
<1>4. mem[a] = code[a] /\ mem[a] \in Code
  BY <1>2 DEF IInv, Types, Patched
<1>5. ~bp[s].active /\ s <= bp_count' /\ bp_count <= bp_count' /\ bp_count' \in 0 .. GDB_MAX_BREAKPOINTS
  BY <1>1, GdbStubAssumption DEF FreeSlot, Reusable, IInv, Types, Recorded, Slot
<1>6. Types'
  <2>1. mem' \in [Addr -> Word] /\ code' \in [Addr -> Code]
    BY <1>2 DEF IInv, Types, Word
  <2>2. bp' \in [Slot -> Entry]
    BY <1>1, <1>4 DEF IInv, Types, Entry
  <2> QED
    BY <1>5, <2>1, <2>2 DEF Types
<1>7. \A t \in Slot : t # s => bp'[t] = bp[t]
  BY <1>1 DEF IInv, Types
<1>8. bp'[s] = [addr |-> a, orig |-> mem[a], active |-> TRUE]
  BY <1>1 DEF IInv, Types
<1>9. \A t \in Slot : bp[t].active => bp[t].addr # a
  BY <1>2 DEF Active, IInv, Recorded
<1>10. Recorded'
  <2> SUFFICES ASSUME NEW t \in Slot, bp'[t].active
               PROVE  t <= bp_count' /\ bp'[t].addr \in Addr /\ bp'[t].orig = code[bp'[t].addr]
    BY <1>2 DEF Recorded
  <2>1. CASE t = s
    BY <2>1, <1>8, <1>4, <1>5
  <2>2. CASE t # s
    <3>1. t <= bp_count /\ bp[t].addr \in Addr /\ bp[t].orig = code[bp[t].addr]
      BY <2>2, <1>7 DEF IInv, Recorded
    <3>2. t \in Nat /\ bp_count \in Nat /\ bp_count' \in Nat
      BY <1>5 DEF IInv, Types, Slot
    <3> QED
      BY <3>1, <3>2, <2>2, <1>7, <1>5
  <2> QED
    BY <2>1, <2>2
<1>11. Distinct'
  BY <1>7, <1>8, <1>9 DEF IInv, Distinct
<1>12. \A x \in Addr : Active(x)' <=> (Active(x) \/ x = a)
  <2> TAKE x \in Addr
  <2>1. ASSUME Active(x)' PROVE Active(x) \/ x = a
    BY <2>1, <1>7, <1>8 DEF Active, IInv, Recorded
  <2>2. ASSUME Active(x) PROVE Active(x)'
    <3>1. PICK t \in Slot : t <= bp_count /\ bp[t].active /\ bp[t].addr = x
      BY <2>2 DEF Active
    <3>2. t # s
      BY <3>1, <1>5
    <3>3. bp'[t] = bp[t]
      BY <3>2, <1>7
    <3>4. bp'[t].active /\ t <= bp_count'
      BY <3>1, <3>3, <1>10 DEF Recorded
    <3> QED
      BY <3>1, <3>3, <3>4 DEF Active
  <2>3. ASSUME x = a PROVE Active(x)'
    BY <2>3, <1>5, <1>8 DEF Active
  <2> QED
    BY <2>1, <2>2, <2>3
<1>13. Patched'
  BY <1>12, <1>2, <1>3 DEF IInv, Types, Patched
<1>14. Window' /\ Empty'
  BY <1>2, <1>3 DEF Window, Empty, Ending
<1> QED
  BY <1>6, <1>10, <1>11, <1>13, <1>14 DEF IInv

\* bp_remove puts the recorded word back.
LEMMA RemoveStep == \A a \in Addr : IInv /\ RemoveBreakpoint(a) => IInv'
<1> SUFFICES ASSUME NEW a \in Addr, IInv, RemoveBreakpoint(a) PROVE IInv'
  OBVIOUS
<1>1. PICK s \in ActiveSlots :
        /\ bp[s].addr = a
        /\ mem' = [mem EXCEPT ![a] = bp[s].orig]
        /\ bp' = [bp EXCEPT ![s].active = FALSE]
  BY DEF RemoveBreakpoint
<1>2. srv = "cmd" /\ UNCHANGED <<code, bp_count, srv, over>>
  BY DEF RemoveBreakpoint, Commanding, server
<1>3. over = NoAddr
  BY <1>2 DEF IInv, Window
<1>4. s \in Slot /\ bp[s].active /\ s <= bp_count
  BY DEF ActiveSlots
<1>5. bp[s].orig = code[a] /\ bp[s].orig \in Code
  BY <1>1, <1>4 DEF IInv, Types, Entry, Recorded
<1>6. /\ \A t \in Slot : t # s => bp'[t] = bp[t]
      /\ bp'[s] = [bp[s] EXCEPT !.active = FALSE]
  BY <1>1, <1>4 DEF IInv, Types
<1>7. ~bp'[s].active /\ bp'[s] \in Entry
  BY <1>4, <1>6 DEF IInv, Types, Entry
<1>8. Types'
  <2>1. mem' \in [Addr -> Word]
    BY <1>1, <1>5 DEF IInv, Types, Word
  <2>2. bp' \in [Slot -> Entry]
    BY <1>1, <1>6, <1>7 DEF IInv, Types
  <2> QED
    BY <1>2, <2>1, <2>2 DEF IInv, Types
<1>9. Recorded' /\ Distinct'
  BY <1>2, <1>6, <1>7 DEF IInv, Recorded, Distinct
<1>10. \A x \in Addr : Active(x)' <=> (Active(x) /\ x # a)
  <2> TAKE x \in Addr
  <2>1. ASSUME Active(x)' PROVE Active(x) /\ x # a
    <3>1. PICK t \in Slot : t <= bp_count' /\ bp'[t].active /\ bp'[t].addr = x
      BY <2>1 DEF Active
    <3>2. t # s
      BY <3>1, <1>7
    <3>3. bp[t].active /\ bp[t].addr = x /\ t <= bp_count
      BY <3>1, <3>2, <1>6, <1>2
    <3>4. x # a
      BY <3>2, <3>3, <1>1, <1>4 DEF IInv, Distinct
    <3> QED
      BY <3>3, <3>4 DEF Active
  <2>2. ASSUME Active(x), x # a PROVE Active(x)'
    <3>1. PICK t \in Slot : t <= bp_count /\ bp[t].active /\ bp[t].addr = x
      BY <2>2 DEF Active
    <3>2. bp'[t] = bp[t]
      BY <3>1, <2>2, <1>1, <1>6
    <3> QED
      BY <3>1, <3>2, <1>2 DEF Active
  <2> QED
    BY <2>1, <2>2
<1>11. Patched'
  BY <1>10, <1>1, <1>2, <1>3, <1>5 DEF IInv, Types, Patched
<1>12. Window' /\ Empty'
  BY <1>2, <1>3 DEF Window, Empty, Ending
<1> QED
  BY <1>8, <1>9, <1>11, <1>12 DEF IInv

\* gdb_write_mem changes words that have no breakpoint.
LEMMA WriteStep == \A lo, hi \in Addr : IInv /\ WriteMemory(lo, hi) => IInv'
<1> SUFFICES ASSUME NEW lo \in Addr, NEW hi \in Addr, IInv, WriteMemory(lo, hi) PROVE IInv'
  OBVIOUS
<1>1. /\ \A a \in lo .. hi : ~Active(a)
      /\ mem' = [a \in Addr |-> IF a \in lo .. hi THEN "patched" ELSE mem[a]]
      /\ code' = [a \in Addr |-> IF a \in lo .. hi THEN "patched" ELSE code[a]]
  BY DEF WriteMemory
<1>2. srv = "cmd" /\ UNCHANGED <<bp, bp_count, srv, over>>
  BY DEF WriteMemory, Commanding, server, table
<1>3. over = NoAddr
  BY <1>2 DEF IInv, Window
<1>4. Types'
  BY <1>1, <1>2 DEF IInv, Types, Word, Code
<1>5. ASSUME NEW s \in Slot, bp[s].active PROVE code'[bp[s].addr] = code[bp[s].addr]
  <2>1. bp[s].addr \in Addr /\ Active(bp[s].addr)
    BY <1>5 DEF IInv, Recorded, Active
  <2> QED
    BY <2>1, <1>1
<1>6. Recorded' /\ Distinct'
  BY <1>2, <1>5 DEF IInv, Recorded, Distinct
<1>7. Patched'
  BY <1>1, <1>2, <1>3 DEF IInv, Types, Patched, Active
<1>8. Window' /\ Empty'
  BY <1>2, <1>3 DEF Window, Empty, Ending
<1> QED
  BY <1>4, <1>6, <1>7, <1>8 DEF IInv

-----------------------------------------------------------------------------
(* Stepping over a breakpoint, and the end of a session                    *)

\* do_continue and do_step lift a breakpoint at the program counter.
LEMMA GoStep ==
    ASSUME NEW from \in Addr, NEW next \in {"continue", "step"}, NEW stepping,
           IInv, Go(from, next, stepping)
    PROVE  IInv'
<1>1. srv = "cmd" /\ over = NoAddr /\ UNCHANGED <<code, bp, bp_count>>
  BY DEF Go, Commanding, table, IInv, Window
<1>2. CASE Active(from)
  <2>1. PICK s \in ActiveSlots : bp[s].addr = from /\ mem' = [mem EXCEPT ![from] = bp[s].orig]
    BY <1>2 DEF Go
  <2>2. srv' = next /\ over' = from
    BY <1>2 DEF Go
  <2>3. bp[s].orig = code[from] /\ bp[s].orig \in Code
    BY <2>1 DEF ActiveSlots, IInv, Recorded, Types, Entry
  <2>4. Types'
    BY <1>1, <2>1, <2>3 DEF IInv, Types, Word
  <2>5. Recorded' /\ Distinct' /\ Empty'
    BY <1>1, <2>2 DEF IInv, Recorded, Distinct, Empty, Ending
  <2>6. \A a \in Addr : Active(a)' <=> Active(a)
    BY <1>1 DEF Active
  <2>7. Patched'
    <3> SUFFICES ASSUME NEW a \in Addr
                 PROVE  mem'[a] = IF Active(a)' /\ a # over' THEN "trap" ELSE code'[a]
      BY DEF Patched
    <3>1. CASE a = from
      BY <3>1, <1>1, <2>1, <2>2, <2>3 DEF IInv, Types
    <3>2. CASE a # from
      <4>1. mem'[a] = mem[a] /\ a # over' /\ a # over
        BY <3>2, <1>1, <2>1, <2>2, NotAnAddr DEF IInv, Types
      <4> QED
        BY <4>1, <2>6, <1>1 DEF IInv, Patched
    <3> QED
      BY <3>1, <3>2
  <2>8. Window'
    BY <1>2, <2>2, <2>6 DEF Window
  <2> QED
    BY <2>4, <2>5, <2>7, <2>8 DEF IInv
<1>3. CASE ~Active(from)
  <2>1. srv' = "wait" /\ UNCHANGED <<mem, over>>
    BY <1>3 DEF Go
  <2> QED
    BY <2>1, <1>1, ServerMoves DEF Ending
<1> QED
  BY <1>2, <1>3

\* The trap goes back where its breakpoint still is.
LEMMA ReinsertStep == IInv /\ Reinsert => IInv'
<1> SUFFICES ASSUME IInv, Reinsert PROVE IInv'
  OBVIOUS
<1>1. /\ mem' = [mem EXCEPT ![over] = "trap"]
      /\ srv' = "wait" /\ over' = NoAddr /\ UNCHANGED <<code, bp, bp_count>>
  BY DEF Reinsert, PutBack, table
<1>2. over \in Addr /\ Active(over)
  BY DEF Reinsert, IInv, Window
<1>3. Types'
  BY <1>1, <1>2 DEF IInv, Types, Word
<1>4. Recorded' /\ Distinct' /\ Empty' /\ Window'
  BY <1>1 DEF IInv, Recorded, Distinct, Empty, Window, Ending
<1>5. \A a \in Addr : Active(a)' <=> Active(a)
  BY <1>1 DEF Active
<1>6. Patched'
  <2> SUFFICES ASSUME NEW a \in Addr
               PROVE  mem'[a] = IF Active(a)' /\ a # over' THEN "trap" ELSE code'[a]
    BY DEF Patched
  <2>1. a # over' /\ code'[a] = code[a]
    BY <1>1, NotAnAddr
  <2>2. CASE a = over
    BY <2>1, <2>2, <1>1, <1>2, <1>5 DEF IInv, Types
  <2>3. CASE a # over
    BY <2>1, <2>3, <1>1, <1>2, <1>5 DEF IInv, Types, Patched
  <2> QED
    BY <2>2, <2>3
<1> QED
  BY <1>3, <1>4, <1>6 DEF IInv

\* bp_remove_all puts every word back.
LEMMA RemovalStep == IInv /\ Removal => IInv'
<1> SUFFICES ASSUME IInv, Removal PROVE IInv'
  OBVIOUS
<1> DEFINE Holder(a) == CHOOSE s \in ActiveSlots : bp[s].addr = a
<1>1. /\ mem' = [a \in Addr |-> IF Active(a) THEN bp[Holder(a)].orig ELSE mem[a]]
      /\ bp' = [s \in Slot |-> [bp[s] EXCEPT !.active = FALSE]]
      /\ bp_count' = 0
      /\ UNCHANGED <<code, over>> /\ srv' \in {"detach", "removed"} /\ srv \in {"cmd", "wait", "close"}
  BY DEF Removal, Detach, BreakOff, CloseClient, Remove, RemoveAll
<1>2. over = NoAddr
  BY <1>1 DEF IInv, Window
<1>3. ASSUME NEW a \in Addr, Active(a) PROVE bp[Holder(a)].orig = code[a]
  <2>1. \E s \in ActiveSlots : bp[s].addr = a
    BY <1>3 DEF Active, ActiveSlots
  <2>2. Holder(a) \in ActiveSlots /\ bp[Holder(a)].addr = a
    BY <2>1
  <2> HIDE DEF Holder
  <2> QED
    BY <2>2 DEF ActiveSlots, IInv, Recorded
<1> HIDE DEF Holder
<1>4. \A a \in Addr : mem'[a] = code[a]
  <2> TAKE a \in Addr
  <2>1. CASE Active(a)
    BY <2>1, <1>1, <1>3
  <2>2. CASE ~Active(a)
    BY <2>2, <1>1 DEF IInv, Patched
  <2> QED
    BY <2>1, <2>2
<1>5. \A s \in Slot : bp'[s] \in Entry /\ ~bp'[s].active
  BY <1>1 DEF IInv, Types, Entry
<1>6. Types'
  <2>1. mem' \in [Addr -> Word]
    BY <1>1, <1>4 DEF IInv, Types, Word
  <2>2. bp' \in [Slot -> Entry]
    BY <1>1, <1>5
  <2>3. bp_count' \in 0 .. GDB_MAX_BREAKPOINTS
    BY <1>1, GdbStubAssumption
  <2> QED
    BY <1>1, <2>1, <2>2, <2>3 DEF IInv, Types
<1>7. Recorded' /\ Distinct' /\ Empty'
  BY <1>5 DEF Recorded, Distinct, Empty, ActiveSlots
<1>8. Patched'
  BY <1>1, <1>4, <1>5 DEF Patched, Active
<1>9. Window'
  BY <1>1, <1>2 DEF Window, Ending
<1> QED
  BY <1>6, <1>7, <1>8, <1>9 DEF IInv

-----------------------------------------------------------------------------

\* No command of GDB breaks the invariant.
LEMMA CommandStep == IInv /\ Command => IInv'
<1> SUFFICES ASSUME IInv, Command PROVE IInv'
  OBVIOUS
<1>1. ASSUME NEW a \in Addr, InsertBreakpoint(a) \/ RemoveBreakpoint(a) PROVE IInv'
  BY <1>1, InsertStep, RemoveStep
<1>2. ASSUME NEW lo \in Addr, NEW hi \in Addr, WriteMemory(lo, hi) PROVE IInv'
  BY <1>2, WriteStep
<1>3. ASSUME NEW a \in Addr, Go(a, "continue", "RESUME") \/ Go(a, "step", "STEP") PROVE IInv'
  BY <1>3, GoStep
<1> QED
  BY <1>1, <1>2, <1>3 DEF Command, Continue, Step

\* Nor does the rest of the server.
LEMMA ServerStep == IInv /\ Server => IInv'
<1> SUFFICES ASSUME IInv, Server PROVE IInv'
  OBVIOUS
<1>1. CASE Accept \/ Ask \/ RequestHalt \/ Answer \/ ReportStop
  BY <1>1, ServerMoves DEF Ending, Accept, Ask, RequestHalt, Answer, ReportStop, code_vars, table
<1>2. CASE Interrupt
  BY <1>2, ServerMoves DEF Ending, Interrupt, Commanding, code_vars, table
<1>3. CASE Reinsert
  BY <1>3, ReinsertStep
<1>4. CASE Removal
  BY <1>4, RemovalStep
<1>5. CASE EndStore
  BY <1>5, EndStoreStep
<1> QED
  BY <1>1, <1>2, <1>3, <1>4, <1>5 DEF Server, End, Removal, EndStore

\* The PowerPC writes neither the code nor the table.
LEMMA PowerPCStep == IInv /\ PowerPC => IInv'
<1>1. ASSUME PowerPC PROVE UNCHANGED watched
  BY <1>1 DEF PowerPC, PpcRun, PpcHalt, PpcStep, PpcLeave, Refetch, watched, code_vars, table, server
<1> QED
  BY <1>1, Unwatched

\* The invariant holds in every state.
THEOREM GdbInvariant == Spec => []IInv
<1>1. IInv /\ [Next]_vars => IInv'
  <2> SUFFICES ASSUME IInv, [Next]_vars PROVE IInv'
    OBVIOUS
  <2>1. CASE Next
    BY <2>1, CommandStep, ServerStep, PowerPCStep DEF Next
  <2>2. CASE UNCHANGED vars
    BY <2>2, Unwatched DEF vars, code_vars, table, server, watched
  <2> QED
    BY <2>1, <2>2
<1> QED
  BY InitIInv, <1>1, PTL DEF Spec

\* A word is a trap where a breakpoint is active, the game's own elsewhere, and no trap
\* is left when a session ends (bp_insert, bp_remove, bp_remove_all, do_continue, do_step,
\* gdb_write_mem): for every number of addresses and slots, whatever the list drops.
THEOREM InstructionsPreserved == Spec => []CodePreserved
<1>1. IInv => CodePreserved
  <2> SUFFICES ASSUME IInv PROVE CodePreserved
    OBVIOUS
  <2>1. ASSUME srv \in {"listen"} \cup Ending PROVE mem = code
    <3>1. \A a \in Addr : ~Active(a)
      BY <2>1 DEF IInv, Empty, Active, ActiveSlots
    <3>2. \A a \in Addr : mem[a] = code[a]
      BY <3>1 DEF IInv, Patched
    <3> QED
      BY <3>2 DEF IInv, Types
  <2> QED
    BY <2>1 DEF CodePreserved, IInv, Patched
<1> QED
  BY <1>1, GdbInvariant, PTL

-----------------------------------------------------------------------------
(* Types: the list keeps its bounds                                        *)

\* What ic_inval_add does to the list, and that an entry fits if there is room for it.
LEMMA Listed ==
  ASSUME TypeOK, NEW a \in Addr, Invalidate(a)
  PROVE  /\ inval' \subseteq Addr /\ invalCnt' \in 0 .. InvalMax /\ invalCnt' <= invalCnt + 1
         /\ inval \subseteq inval'
         /\ invalCnt < InvalMax => a \in inval' /\ invalCnt' = invalCnt + 1
  BY GdbStubAssumption DEF TypeOK, Invalidate, list

\* The active entries are finitely many, and inside the table.
LEMMA Counted ==
  /\ ActiveSlots \subseteq Slot /\ IsFiniteSet(ActiveSlots)
  /\ Cardinality(ActiveSlots) \in Nat /\ (ActiveSlots # {} => Cardinality(ActiveSlots) >= 1)
<1>1. IsFiniteSet(Slot)
  BY GdbStubAssumption, FS_Interval DEF Slot
<1>2. ActiveSlots \subseteq Slot
  BY DEF ActiveSlots
<1>3. IsFiniteSet(ActiveSlots)
  BY <1>1, <1>2, FS_Subset
<1> QED BY <1>2, <1>3, FS_CardinalityType, FS_EmptySet

\* The least element of a set of numbers.
LEMMA Least ==
  ASSUME NEW U \in SUBSET Nat, U # {}
  PROVE  \E m \in U : \A n \in U : m <= n
<1> DEFINE R == OpToRel(<, Nat)
<1>1. IsWellFoundedOn(R, Nat)
  BY NatLessThanWellFounded
<1>2. \A x, y \in Nat : x < y => <<x, y>> \in R
  BY DEF OpToRel
<1> HIDE DEF R
<1>3. U \subseteq Nat
  OBVIOUS
<1>4. PICK x \in U : \A y \in U : <<y, x>> \notin R
  BY <1>1, <1>3, WFMin
<1>5. \A y \in U : x <= y
  <2> SUFFICES ASSUME NEW y \in U, ~(x <= y) PROVE FALSE
    OBVIOUS
  <2>1. x \in Nat /\ y \in Nat /\ y < x
    OBVIOUS
  <2> QED BY <1>2, <1>4, <2>1
<1> QED BY <1>5

\* What bp_remove_all lists: the first entries, until the list is full.
Kept == {s \in ActiveSlots : invalCnt + Cardinality({t \in ActiveSlots : t <= s}) <= InvalMax}

\* It does not write behind the list, and lists every breakpoint if there is room.
LEMMA KeptFits ==
  ASSUME TypeOK
  PROVE  /\ Cardinality(Kept) \in Nat /\ invalCnt + Cardinality(Kept) <= InvalMax
         /\ invalCnt + Cardinality(ActiveSlots) <= InvalMax => Kept = ActiveSlots
<1> DEFINE UpTo(s) == {t \in ActiveSlots : t <= s}
<1>1. invalCnt \in Nat /\ InvalMax \in Nat /\ invalCnt <= InvalMax
  BY GdbStubAssumption DEF TypeOK
<1>2. Kept \subseteq ActiveSlots /\ Kept \subseteq Nat /\ \A s \in Kept : s >= 1 /\ s <= GDB_MAX_BREAKPOINTS
  <2>1. \A s \in Slot : s \in Nat /\ s >= 1 /\ s <= GDB_MAX_BREAKPOINTS
    BY GdbStubAssumption DEF Slot
  <2>2. Kept \subseteq ActiveSlots
    BY DEF Kept
  <2> QED BY <2>1, <2>2, Counted
<1>3. IsFiniteSet(Kept) /\ Cardinality(Kept) \in Nat
  BY <1>2, Counted, FS_Subset, FS_CardinalityType
<1>4. ASSUME NEW s
      PROVE  IsFiniteSet(UpTo(s)) /\ Cardinality(UpTo(s)) \in Nat /\ Cardinality(UpTo(s)) <= Cardinality(ActiveSlots)
  <2>1. UpTo(s) \in SUBSET ActiveSlots
    OBVIOUS
  <2> HIDE DEF UpTo
  <2> QED BY <2>1, Counted, FS_Subset, FS_CardinalityType
<1>5. invalCnt + Cardinality(Kept) <= InvalMax
  <2>1. CASE Kept = {}
    <3>1. Cardinality(Kept) = 0
      BY <2>1, FS_EmptySet
    <3> QED BY <1>1, <3>1
  <2>2. CASE Kept # {}
    <3> DEFINE U == {n \in Nat : \A s \in Kept : s <= n}
    <3>1. GDB_MAX_BREAKPOINTS \in U /\ U \subseteq Nat
      BY <1>2, GdbStubAssumption
    <3>2. PICK m \in U : \A n \in U : m <= n
      <4> HIDE DEF U
      <4>1. U \in SUBSET Nat /\ U # {}
        BY <3>1
      <4> QED BY <3>1, <4>1, Least
    <3>3. m \in Kept
      <4>1. SUFFICES ASSUME m \notin Kept PROVE FALSE
        OBVIOUS
      <4>2. \A s \in Kept : s <= m - 1
        BY <1>2, <3>2, <4>1
      <4>3. m - 1 \in Nat
        <5>1. PICK s \in Kept : s <= m
          BY <2>2, <3>2
        <5>2. m \in Nat /\ s \in Nat /\ s >= 1
          BY <1>2, <3>2
        <5> QED BY <5>1, <5>2
      <4>4. m - 1 \in U
        BY <4>2, <4>3
      <4> QED BY <3>2, <4>4
    <3>4. Kept \in SUBSET UpTo(m)
      BY <1>2, <3>2
    <3>5. invalCnt + Cardinality(UpTo(m)) <= InvalMax
      BY <3>3 DEF Kept
    <3> HIDE DEF UpTo
    <3>6. Cardinality(Kept) <= Cardinality(UpTo(m))
      BY <1>4, <3>4, FS_Subset
    <3>7. Cardinality(UpTo(m)) \in Nat
      BY <1>4
    <3> QED BY <1>1, <1>3, <3>5, <3>6, <3>7
  <2> QED BY <2>1, <2>2
<1>6. ASSUME invalCnt + Cardinality(ActiveSlots) <= InvalMax PROVE Kept = ActiveSlots
  <2>1. \A s \in ActiveSlots : invalCnt + Cardinality(UpTo(s)) <= InvalMax
    <3> HIDE DEF UpTo
    <3> QED BY <1>1, <1>4, <1>6, Counted
  <2> QED BY <2>1 DEF Kept
<1> QED BY <1>3, <1>5, <1>6

\* The variables IInv does not type.
Rest ==
    /\ icache \in [Addr -> Word]
    /\ state \in States /\ magic \in BOOLEAN /\ haltReq \in BOOLEAN /\ shmPC \in Addr
    /\ inval \subseteq Addr /\ invalCnt \in 0 .. InvalMax
    /\ ppc \in {"run", "step", "stopped", "crashed"} /\ pc \in Addr
    /\ srv \in {"listen", "cmd", "asking", "ask", "continue", "step", "wait"} \cup Ending
    /\ over \in Addr \cup {NoAddr} /\ view \in {"new", "stopped", "running"}

\* The two parts of TypeOK.
LEMMA TypesRest == TypeOK <=> Types /\ Rest
  BY DEF TypeOK, Types, Rest, Entry

\* Types are kept by the commands of GDB.
LEMMA CommandRest ==
  ASSUME IInv, TypeOK, Command
  PROVE  Rest'
<1>1. ASSUME NEW a \in Addr, InsertBreakpoint(a) \/ RemoveBreakpoint(a) PROVE Rest'
  <2>1. Invalidate(a) /\ UNCHANGED <<icache, shm, cpu, server>>
    BY <1>1 DEF InsertBreakpoint, RemoveBreakpoint
  <2> QED BY <2>1, Listed DEF TypeOK, Rest, shm, cpu, server
<1>2. ASSUME NEW lo \in Addr, NEW hi \in Addr, WriteMemory(lo, hi) PROVE Rest'
  <2>1. UNCHANGED <<icache, shm, cpu, server>>
    BY <1>2 DEF WriteMemory
  <2>2. CASE lo = hi \/ invalCnt + 1 >= InvalMax
    BY <1>2, <2>1, <2>2, Listed DEF WriteMemory, TypeOK, Rest, shm, cpu, server
  <2>3. CASE ~(lo = hi \/ invalCnt + 1 >= InvalMax)
    <3>1. inval' = inval \cup {lo, hi} /\ invalCnt' = invalCnt + 2
      BY <1>2, <2>3 DEF WriteMemory
    <3>2. inval' \subseteq Addr /\ invalCnt' \in 0 .. InvalMax
      BY <2>3, <3>1, GdbStubAssumption DEF TypeOK
    <3> QED BY <2>1, <3>2 DEF TypeOK, Rest, shm, cpu, server
  <2> QED BY <2>2, <2>3
<1>3. ASSUME NEW from \in Addr, NEW next \in {"continue", "step"}, NEW stepping \in {"RESUME", "STEP"},
             Go(from, next, stepping)
      PROVE  Rest'
  <2>1. shmPC' = from /\ view' = "running" /\ UNCHANGED <<icache, magic, haltReq, cpu>>
    BY <1>3 DEF Go
  <2>2. CASE Active(from)
    <3>1. Invalidate(from) /\ state' = "STEP" /\ srv' = next /\ over' = from
      BY <1>3, <2>2 DEF Go
    <3> QED BY <2>1, <3>1, Listed DEF TypeOK, Rest, States, cpu
  <2>3. CASE ~Active(from)
    <3>1. state' = stepping /\ srv' = "wait" /\ UNCHANGED <<list, over>>
      BY <1>3, <2>3 DEF Go
    <3> QED BY <2>1, <3>1 DEF TypeOK, Rest, States, cpu, list
  <2> QED BY <2>2, <2>3
<1> QED BY <1>1, <1>2, <1>3 DEF Command, Continue, Step

\* Types are kept by the rest of the server.
LEMMA ServerRest ==
  ASSUME IInv, TypeOK, Server
  PROVE  Rest'
<1>1. CASE Accept \/ Ask \/ RequestHalt \/ Answer \/ ReportStop \/ Interrupt
  BY <1>1 DEF Accept, Ask, RequestHalt, Answer, ReportStop, Interrupt, InterruptState,
              TypeOK, Rest, States, code_vars, shm, list, cpu
<1>2. CASE Reinsert
  <2>1. over \in Addr
    BY <1>2 DEF Reinsert, IInv, Window
  <2> QED BY <1>2, <2>1, Listed DEF Reinsert, TypeOK, Rest, States, cpu
<1>3. CASE Removal
  <2>1. /\ inval' = inval \cup {bp[s].addr : s \in Kept} /\ invalCnt' = invalCnt + Cardinality(Kept)
        /\ srv' \in Ending /\ UNCHANGED <<icache, shm, cpu, over, view>>
    BY <1>3 DEF Removal, Detach, BreakOff, CloseClient, Remove, RemoveAll, Kept, Ending
  <2>2. \A s \in Kept : bp[s].addr \in Addr
    BY DEF Kept, ActiveSlots, IInv, Recorded
  <2>3. inval' \subseteq Addr /\ invalCnt' \in 0 .. InvalMax
    BY <2>1, <2>2, KeptFits, GdbStubAssumption DEF TypeOK
  <2> QED BY <2>1, <2>3 DEF TypeOK, Rest, shm, cpu
<1>4. CASE EndStore
  BY <1>4 DEF EndStore, StoreDetach, LetGo, ClearRequest, ClearMagic, FinalState, Ending,
              TypeOK, Rest, States, code_vars, list, cpu
<1> QED BY <1>1, <1>2, <1>3, <1>4 DEF Server, End, Removal, EndStore

\* Types are kept by the PowerPC.
LEMMA PowerPCRest ==
  ASSUME TypeOK, PowerPC
  PROVE  Rest'
<1>1. CASE PpcRun
  BY <1>1 DEF PpcRun, Halt, TypeOK, Rest, States, code_vars, list, server
<1>2. CASE PpcHalt
  BY <1>2 DEF PpcHalt, Halt, TypeOK, Rest, States, code_vars, list, server
<1>3. CASE PpcStep
  BY <1>3 DEF PpcStep, Halt, TypeOK, Rest, States, code_vars, list, server
<1>4. CASE PpcLeave
  BY <1>4, GdbStubAssumption DEF PpcLeave, TypeOK, Rest, States, server
<1>5. ASSUME NEW a \in Addr, Refetch(a) PROVE Rest'
  BY <1>5 DEF Refetch, TypeOK, Rest, shm, list, cpu, server
<1> QED BY <1>1, <1>2, <1>3, <1>4, <1>5 DEF PowerPC

\* Types and the table's invariant together.
Typed == IInv /\ TypeOK

\* The types hold at first.
LEMMA InitTyped == Init => Typed
<1> SUFFICES ASSUME Init PROVE Typed
  OBVIOUS
<1>1. IInv /\ Types
  BY InitIInv DEF IInv
<1>2. Rest
  <2>1. 1 \in Addr /\ 0 \in 0 .. InvalMax
    BY GdbStubAssumption DEF Addr
  <2>2. icache \in [Addr -> Word]
    BY DEF Init, Word, Code
  <2> QED BY <2>1, <2>2 DEF Init, Rest, States
<1> QED BY <1>1, <1>2, TypesRest DEF Typed

\* Every step keeps them.
LEMMA NextTyped == Typed /\ [Next]_vars => Typed'
<1> SUFFICES ASSUME Typed, [Next]_vars PROVE Typed'
  OBVIOUS
<1>1. IInv' /\ Types'
  <2>1. CASE Next
    BY <2>1, CommandStep, ServerStep, PowerPCStep DEF Next, Typed, IInv
  <2>2. CASE UNCHANGED vars
    BY <2>2, Unwatched DEF vars, code_vars, table, server, watched, Typed, IInv
  <2> QED BY <2>1, <2>2
<1>2. Rest'
  <2>1. CASE UNCHANGED vars
    BY <2>1 DEF vars, code_vars, shm, list, cpu, server, Typed, TypeOK, Rest
  <2> QED BY <2>1, CommandRest, ServerRest, PowerPCRest DEF Next, Typed
<1>3. TypeOK' <=> Types' /\ Rest'
  BY DEF TypeOK, Types, Rest, Entry
<1> QED BY <1>1, <1>2, <1>3 DEF Typed

\* Every variable keeps its type: no sequence of commands, removals and resumptions writes
\* behind the end of the invalidation list (ic_inval_add) or of the breakpoint table.
THEOREM StubTypes == Spec => []TypeOK
<1>1. Typed => TypeOK
  BY DEF Typed
<1> QED BY <1>1, InitTyped, NextTyped, PTL DEF Spec
-----------------------------------------------------------------------------
(* The caches                                                              *)

Breakpoints == Cardinality(ActiveSlots)

\* What the list holds, with the entries that the end of the session adds.
Used == invalCnt + Breakpoints

Halted == state = "STOPPED" => ppc = "stopped"

\* While there are breakpoints the list has room for their removal, and for more than that
\* as long as it may take before the PowerPC empties it: lifting a breakpoint for a step and
\* putting it back are not preceded by a look at the list (Room).
Fits ==
    ActiveSlots # {} =>
        /\ Breakpoints + 3 <= InvalMax
        /\ srv \notin {"listen", "asking", "ask"} \cup Ending /\ view # "new"
        /\ srv = "cmd" => Used + (IF ppc = "stopped" THEN 0 ELSE 2) <= InvalMax
        /\ srv \in {"continue", "step"} =>
            IF ppc = "stopped" /\ state = "STEP" THEN Used <= InvalMax + 1
                                                 ELSE Used + 1 <= InvalMax
        /\ srv = "wait" => Used <= InvalMax

CInv == Typed /\ Halted /\ Fits /\ Coherent

\* Numbers a step reasons with.
LEMMA Sizes ==
  ASSUME TypeOK
  PROVE  /\ Breakpoints \in Nat /\ (ActiveSlots # {} => Breakpoints >= 1) /\ (ActiveSlots = {} => Breakpoints = 0)
         /\ invalCnt \in Nat /\ InvalMax \in Nat /\ invalCnt <= InvalMax
  BY Counted, GdbStubAssumption, FS_EmptySet DEF TypeOK, Breakpoints

\* An active entry is always inside the table.
LEMMA ActiveOnes ==
  ASSUME Recorded
  PROVE  ActiveSlots = {s \in Slot : bp[s].active}
  BY DEF Recorded, ActiveSlots

\* An active address has its entry.
LEMMA AnActiveSlot ==
  ASSUME NEW a, Active(a)
  PROVE  ActiveSlots # {}
  BY DEF Active, ActiveSlots

\* A step that writes one word of the code and lists it.
LEMMA ListedStays ==
  ASSUME Typed, Coherent, NEW a \in Addr, NEW w, mem' = [mem EXCEPT ![a] = w],
         Invalidate(a), invalCnt < InvalMax, UNCHANGED icache
  PROVE  Coherent' /\ invalCnt' = invalCnt + 1
<1>1. a \in inval' /\ inval \subseteq inval' /\ invalCnt' = invalCnt + 1
  BY Listed DEF Typed
<1>2. \A x \in Addr : x # a => mem'[x] = mem[x]
  BY DEF Typed, TypeOK
<1> QED BY <1>1, <1>2 DEF Coherent

\* A step that touches neither code nor caches.
LEMMA CoherentSame ==
  ASSUME Coherent, UNCHANGED <<mem, icache, inval>>
  PROVE  Coherent'
  BY DEF Coherent

\* A new breakpoint takes two of the four entries that were free.
LEMMA InsertFits ==
  ASSUME Thrifty, CInv, Typed', NEW a \in Addr, InsertBreakpoint(a)
  PROVE  Halted' /\ Fits' /\ Coherent'
<1>1. /\ srv = "cmd" /\ view = "stopped" /\ Used + 4 <= InvalMax /\ Invalidate(a)
      /\ mem' = [mem EXCEPT ![a] = "trap"] /\ UNCHANGED <<icache, state, ppc, srv, view>>
  BY DEF InsertBreakpoint, Commanding, Room, Used, Breakpoints, shm, cpu, server
<1>2. Breakpoints \in Nat /\ invalCnt \in Nat /\ InvalMax \in Nat
  BY Sizes DEF CInv, Typed
<1>3. invalCnt < InvalMax
  BY <1>1, <1>2 DEF Used
<1>4. Coherent' /\ invalCnt' = invalCnt + 1
  BY <1>1, <1>3, ListedStays DEF CInv
<1>5. Breakpoints' = Breakpoints + 1
  <2>1. PICK s \in Slot : FreeSlot(s) /\ bp' = [bp EXCEPT ![s] = [addr |-> a, orig |-> mem[a], active |-> TRUE]]
    BY DEF InsertBreakpoint
  <2>2. bp'[s].active /\ \A t \in Slot : t # s => bp'[t] = bp[t]
    BY <2>1 DEF CInv, Typed, TypeOK
  <2>3. ~bp[s].active
    BY <2>1, GdbStubAssumption DEF FreeSlot, Reusable, CInv, Typed, IInv, TypeOK, Recorded, Slot
  <2>4. ActiveSlots = {t \in Slot : bp[t].active} /\ ActiveSlots' = {t \in Slot : bp'[t].active}
    BY ActiveOnes DEF CInv, Typed, IInv, ActiveSlots, Recorded
  <2>5. ActiveSlots' = ActiveSlots \cup {s} /\ s \notin ActiveSlots
    BY <2>2, <2>3, <2>4
  <2> QED BY <2>5, Counted, FS_AddElement DEF Breakpoints
<1>6. Used' = Used + 2
  BY <1>2, <1>4, <1>5 DEF Used
<1>7. Fits'
  BY <1>1, <1>2, <1>5, <1>6 DEF Fits, Used, Ending
<1> QED BY <1>1, <1>4, <1>7 DEF CInv, Halted

\* A removal is listed now instead of at the end of the session.
LEMMA RemoveFits ==
  ASSUME Thrifty, CInv, Typed', NEW a \in Addr, RemoveBreakpoint(a)
  PROVE  Halted' /\ Fits' /\ Coherent'
<1>1. /\ srv = "cmd" /\ view = "stopped" /\ Used + 4 <= InvalMax /\ Invalidate(a)
      /\ UNCHANGED <<icache, state, ppc, srv, view>>
  BY DEF RemoveBreakpoint, Commanding, Room, Used, Breakpoints, shm, cpu, server
<1>2. Breakpoints \in Nat /\ invalCnt \in Nat /\ InvalMax \in Nat
  BY Sizes DEF CInv, Typed
<1>3. invalCnt < InvalMax
  BY <1>1, <1>2 DEF Used
<1>4. PICK s \in ActiveSlots : /\ mem' = [mem EXCEPT ![a] = bp[s].orig]
                               /\ bp' = [bp EXCEPT ![s].active = FALSE]
  BY DEF RemoveBreakpoint
<1>5. Coherent' /\ invalCnt' = invalCnt + 1
  BY <1>1, <1>3, <1>4, ListedStays DEF CInv
<1>6. Breakpoints' = Breakpoints - 1
  <2>1. s \in Slot
    BY DEF ActiveSlots
  <2>2. bp'[s] = [bp[s] EXCEPT !.active = FALSE] /\ \A t \in Slot : t # s => bp'[t] = bp[t]
    BY <1>4, <2>1 DEF CInv, Typed, TypeOK
  <2>3. ~bp'[s].active
    BY <2>1, <2>2 DEF CInv, Typed, TypeOK
  <2>4. ActiveSlots = {t \in Slot : bp[t].active} /\ ActiveSlots' = {t \in Slot : bp'[t].active}
    BY ActiveOnes DEF CInv, Typed, IInv, ActiveSlots, Recorded
  <2>5. ActiveSlots' = ActiveSlots \ {s}
    BY <2>2, <2>3, <2>4
  <2> QED BY <2>5, Counted, FS_RemoveElement DEF Breakpoints
<1>7. Used' = Used
  BY <1>2, <1>5, <1>6 DEF Used
<1>8. Fits'
  BY <1>1, <1>2, <1>6, <1>7 DEF Fits, Used, Ending
<1> QED BY <1>1, <1>5, <1>8 DEF CInv, Halted

\* A line written takes one of the four entries that were free.
LEMMA WriteFits ==
  ASSUME Thrifty, CInv, NEW lo \in Addr, NEW hi \in Addr, WriteMemory(lo, hi)
  PROVE  Halted' /\ Fits' /\ Coherent'
<1>1. /\ srv = "cmd" /\ view = "stopped" /\ Used + 4 <= InvalMax /\ lo = hi /\ Invalidate(lo)
      /\ UNCHANGED <<icache, state, ppc, srv, view, bp, bp_count>>
  BY DEF WriteMemory, Commanding, Room, Used, Breakpoints, shm, cpu, server, table
<1>2. Breakpoints \in Nat /\ invalCnt \in Nat /\ InvalMax \in Nat
  BY Sizes DEF CInv, Typed
<1>3. invalCnt < InvalMax
  BY <1>1, <1>2 DEF Used
<1>4. mem' = [mem EXCEPT ![lo] = "patched"]
  <2>1. \A a \in Addr : a \in lo .. hi <=> a = lo
    BY <1>1 DEF Addr
  <2>2. mem' = [a \in Addr |-> IF a \in lo .. hi THEN "patched" ELSE mem[a]]
    BY DEF WriteMemory
  <2> QED BY <2>1, <2>2 DEF CInv, Typed, TypeOK
<1>5. Coherent' /\ invalCnt' = invalCnt + 1
  BY <1>1, <1>3, <1>4, ListedStays DEF CInv
<1>6. ActiveSlots' = ActiveSlots /\ Breakpoints' = Breakpoints /\ Used' = Used + 1
  BY <1>1, <1>2, <1>5 DEF Used, Breakpoints, ActiveSlots
<1>7. Fits'
  BY <1>1, <1>2, <1>6 DEF Fits, Used, CInv
<1> QED BY <1>1, <1>5, <1>7 DEF CInv, Halted

\* A breakpoint is lifted for a step: there is room for that, or the list is emptied before
\* it has to be put back.
LEMMA GoFits ==
  ASSUME Thrifty, CInv, NEW from \in Addr, NEW next \in {"continue", "step"},
         NEW stepping \in {"RESUME", "STEP"}, Go(from, next, stepping)
  PROVE  Halted' /\ Fits' /\ Coherent'
<1>1. srv = "cmd" /\ view' = "running" /\ UNCHANGED <<icache, ppc, bp, bp_count>>
  BY DEF Go, Commanding, table, cpu
<1>2. /\ Breakpoints \in Nat /\ invalCnt \in Nat /\ InvalMax \in Nat
      /\ (ActiveSlots # {} => Breakpoints >= 1)
  BY Sizes DEF CInv, Typed
<1>3. ActiveSlots' = ActiveSlots /\ Breakpoints' = Breakpoints
  BY <1>1 DEF Breakpoints, ActiveSlots
<1>4. CASE Active(from)
  <2>1. PICK s \in ActiveSlots : mem' = [mem EXCEPT ![from] = bp[s].orig]
    BY <1>4 DEF Go
  <2>2. Invalidate(from) /\ state' = "STEP" /\ srv' = next
    BY <1>4 DEF Go
  <2>3. Used + (IF ppc = "stopped" THEN 0 ELSE 2) <= InvalMax /\ Breakpoints >= 1 /\ Breakpoints + 3 <= InvalMax
    BY <1>1, <1>2, <1>4, AnActiveSlot DEF CInv, Fits
  <2>4. invalCnt < InvalMax
    BY <1>2, <2>3 DEF Used
  <2>5. Coherent' /\ invalCnt' = invalCnt + 1
    BY <1>1, <2>1, <2>2, <2>4, ListedStays DEF CInv
  <2>6. Used' = Used + 1 /\ Used \in Nat
    BY <1>2, <1>3, <2>5 DEF Used
  <2>7. Fits'
    BY <1>1, <1>2, <1>3, <2>2, <2>3, <2>6 DEF Fits, Ending
  <2> QED BY <2>2, <2>5, <2>7 DEF Halted
<1>5. CASE ~Active(from)
  <2>1. state' = stepping /\ srv' = "wait" /\ UNCHANGED <<mem, inval, invalCnt>>
    BY <1>5 DEF Go, list
  <2>2. Used' = Used /\ Used \in Nat
    BY <1>2, <1>3, <2>1 DEF Used
  <2>3. Fits'
    BY <1>1, <1>2, <1>3, <2>1, <2>2 DEF Fits, CInv, Ending
  <2> QED BY <1>1, <2>1, <2>3, CoherentSame DEF Halted, CInv
<1> QED BY <1>4, <1>5

\* When the trap goes back the PowerPC has emptied the list, or ran on when it was lifted.
LEMMA ReinsertFits ==
  ASSUME Thrifty, CInv, Reinsert
  PROVE  Halted' /\ Fits' /\ Coherent'
<1>1. /\ srv \in {"continue", "step"} /\ ~(ppc = "stopped" /\ state = "STEP")
      /\ mem' = [mem EXCEPT ![over] = "trap"] /\ Invalidate(over)
      /\ state' \in {"RESUME", state} /\ srv' = "wait"
      /\ UNCHANGED <<icache, bp, bp_count, ppc, view>>
  BY DEF Reinsert, PutBack, TimesOut, table, cpu
<1>2. Breakpoints \in Nat /\ invalCnt \in Nat /\ InvalMax \in Nat
  BY Sizes DEF CInv, Typed
<1>3. over \in Addr /\ ActiveSlots # {}
  BY <1>1, AnActiveSlot DEF CInv, Typed, IInv, Window
<1>4. Used + 1 <= InvalMax /\ view # "new" /\ Breakpoints + 3 <= InvalMax
  BY <1>1, <1>3 DEF CInv, Fits
<1>5. invalCnt < InvalMax
  BY <1>2, <1>4 DEF Used
<1>6. Coherent' /\ invalCnt' = invalCnt + 1
  BY <1>1, <1>3, <1>5, ListedStays DEF CInv
<1>7. Breakpoints' = Breakpoints /\ Used' = Used + 1 /\ Used \in Nat
  BY <1>1, <1>2, <1>6 DEF Used, Breakpoints, ActiveSlots
<1>8. Fits'
  BY <1>1, <1>2, <1>4, <1>7 DEF Fits, Ending
<1> QED BY <1>1, <1>6, <1>8 DEF Halted, CInv

\* The end of a session lists every breakpoint it removes.
LEMMA RemovalFits ==
  ASSUME CInv, Typed', Removal
  PROVE  Halted' /\ Fits' /\ Coherent'
<1>1. /\ srv \in {"cmd", "wait", "close"} /\ UNCHANGED <<icache, state, ppc>>
      /\ bp_count' = 0
      /\ \A a \in Addr : ~Active(a) => mem'[a] = mem[a]
      /\ inval' = inval \cup {bp[s].addr : s \in Kept}
  BY DEF Removal, Detach, BreakOff, CloseClient, Remove, RemoveAll, Kept, shm, cpu
<1>2. Breakpoints \in Nat /\ invalCnt \in Nat /\ InvalMax \in Nat /\ invalCnt <= InvalMax
  BY Sizes DEF CInv, Typed
<1>3. ActiveSlots = {} \/ Used <= InvalMax
  BY <1>1, <1>2 DEF CInv, Fits, Used, Ending
<1>4. Kept = ActiveSlots
  BY <1>3, KeptFits DEF CInv, Typed, Used, Breakpoints, Kept
<1>5. \A a \in Addr : Active(a) => a \in inval'
  BY <1>1, <1>4 DEF Active, ActiveSlots
<1>6. Coherent'
  BY <1>1, <1>5 DEF CInv, Coherent
<1>7. ActiveSlots' = {}
  BY <1>1, GdbStubAssumption DEF ActiveSlots, Slot
<1> QED BY <1>1, <1>6, <1>7 DEF Halted, Fits, CInv

\* The PowerPC leaves its handler with an empty list and no stale line.
LEMMA LeaveFits ==
  ASSUME CInv, PpcLeave
  PROVE  Halted' /\ Fits' /\ Coherent'
<1>1. /\ icache' = [a \in Addr |-> IF a \in inval THEN mem[a] ELSE icache[a]]
      /\ invalCnt' = 0 /\ state' = "IDLE" /\ UNCHANGED <<mem, bp, bp_count, srv, view>>
  BY DEF PpcLeave, table, server
<1>2. Breakpoints \in Nat /\ InvalMax \in Nat
  BY Sizes DEF CInv, Typed
<1>3. Coherent'
  BY <1>1 DEF CInv, Coherent
<1>4. ActiveSlots' = ActiveSlots /\ Breakpoints' = Breakpoints /\ Used' = Breakpoints
  BY <1>1, <1>2 DEF Used, Breakpoints, ActiveSlots
<1>5. Fits'
  BY <1>1, <1>2, <1>4 DEF CInv, Fits
<1> QED BY <1>1, <1>3, <1>5 DEF Halted

\* Whatever happens besides: table, code and list stay.
LEMMA OthersFit ==
  ASSUME CInv, UNCHANGED <<code_vars, table, list>>,
         \/ Accept \/ Ask \/ RequestHalt \/ Answer \/ Interrupt \/ ReportStop
         \/ EndStore
         \/ PpcRun \/ PpcHalt \/ PpcStep \/ UNCHANGED <<state, ppc, srv, view>>
  PROVE  Halted' /\ Fits' /\ Coherent'
<1>1. Coherent'
  BY CoherentSame DEF CInv, code_vars, list
<1>2. ActiveSlots' = ActiveSlots /\ Breakpoints' = Breakpoints /\ Used' = Used
  BY DEF Used, Breakpoints, ActiveSlots, table, list
<1>3. Breakpoints \in Nat /\ InvalMax \in Nat /\ invalCnt \in Nat /\ Used \in Nat
  BY Sizes DEF CInv, Typed, Used
<1>4. CASE Accept
  <2>1. ActiveSlots = {} /\ state' = "IDLE"
    BY <1>4 DEF Accept, CInv, Typed, IInv, Empty
  <2> QED BY <1>1, <1>2, <2>1 DEF Fits, Halted
<1>5. CASE Ask \/ RequestHalt \/ Answer
  <2>1. ActiveSlots = {}
    BY <1>5 DEF Ask, RequestHalt, Answer, CInv, Fits
  <2>2. ppc' = ppc /\ state' \in {state, "IDLE"}
    BY <1>5 DEF Ask, RequestHalt, Answer, shm, cpu
  <2> QED BY <1>1, <1>2, <2>1, <2>2 DEF Fits, Halted, CInv
<1>6. CASE Interrupt
  <2>1. srv \in {"cmd", "wait"} /\ srv' = "wait" /\ view' = "running" /\ state' = state /\ ppc' = ppc
    BY <1>6 DEF Interrupt, Commanding, InterruptState, cpu
  <2>2. Fits'
    BY <1>2, <1>3, <2>1 DEF Fits, CInv, Ending
  <2> QED BY <1>1, <2>1, <2>2 DEF Halted, CInv
<1>7. CASE ReportStop
  <2>1. srv = "wait" /\ srv' = "cmd" /\ view' = "stopped" /\ state' = state /\ ppc' = ppc /\ ppc = "stopped"
    BY <1>7 DEF ReportStop, shm, cpu, CInv, Halted
  <2>2. Fits'
    BY <1>2, <1>3, <2>1 DEF Fits, CInv, Ending
  <2> QED BY <1>1, <2>1, <2>2 DEF Halted, CInv
<1>8. CASE PpcRun \/ PpcHalt \/ PpcStep
  <2>1. /\ UNCHANGED <<srv, view>> /\ ppc \in {"run", "step"}
        /\ (ppc' = "stopped" /\ state' = "STOPPED") \/ (ppc' \in {"run", "crashed"} /\ state' = state)
    BY <1>8 DEF PpcRun, PpcHalt, PpcStep, Halt, server
  <2>2. Fits'
    BY <1>2, <1>3, <2>1 DEF Fits, CInv
  <2>3. state # "STOPPED"
    BY <2>1 DEF CInv, Halted
  <2> QED BY <1>1, <2>1, <2>2, <2>3 DEF Halted
<1>9. CASE UNCHANGED <<state, ppc, srv, view>>
  BY <1>1, <1>2, <1>9 DEF Fits, Halted, CInv
<1>10. CASE EndStore
  <2>1. ActiveSlots = {}
    BY <1>10 DEF EndStore, StoreDetach, LetGo, ClearRequest, ClearMagic, Ending, CInv, Typed, IInv, Empty
  <2>2. ppc' = ppc /\ state' \in {state, "DETACH"}
    BY <1>10 DEF EndStore, StoreDetach, LetGo, ClearRequest, ClearMagic, FinalState, cpu
  <2> QED BY <1>1, <1>2, <2>1, <2>2 DEF Fits, Halted, CInv
<1> QED BY <1>4, <1>5, <1>6, <1>7, <1>8, <1>9, <1>10

\* A line fetched anew is that of the memory.
LEMMA RefetchFits ==
  ASSUME CInv, NEW a \in Addr, Refetch(a)
  PROVE  Halted' /\ Fits' /\ Coherent'
<1>1. icache' = [icache EXCEPT ![a] = mem[a]] /\ UNCHANGED <<mem, bp, bp_count, state, inval, invalCnt, ppc, srv, view>>
  BY DEF Refetch, table, shm, list, cpu, server
<1>2. Coherent'
  BY <1>1 DEF CInv, Typed, TypeOK, Coherent
<1>3. Fits'
  BY <1>1 DEF CInv, Fits, Used, Breakpoints, ActiveSlots
<1> QED BY <1>1, <1>2, <1>3 DEF CInv, Halted

\* No step of a thrifty session breaks the invariant.
LEMMA NextCInv ==
  ASSUME Thrifty, CInv, [Next]_vars
  PROVE  CInv'
<1>1. Typed'
  BY NextTyped DEF CInv
<1>2. CASE Command
  <2>1. ASSUME NEW a \in Addr, InsertBreakpoint(a) \/ RemoveBreakpoint(a) PROVE Halted' /\ Fits' /\ Coherent'
    BY <1>1, <2>1, InsertFits, RemoveFits
  <2>2. ASSUME NEW lo \in Addr, NEW hi \in Addr, WriteMemory(lo, hi) PROVE Halted' /\ Fits' /\ Coherent'
    BY <2>2, WriteFits
  <2>3. ASSUME NEW a \in Addr, Go(a, "continue", "RESUME") \/ Go(a, "step", "STEP")
        PROVE  Halted' /\ Fits' /\ Coherent'
    BY <2>3, GoFits
  <2> QED BY <1>1, <1>2, <2>1, <2>2, <2>3 DEF Command, Continue, Step, CInv
<1>3. CASE Reinsert \/ Removal \/ PpcLeave
  BY <1>1, <1>3, ReinsertFits, RemovalFits, LeaveFits DEF CInv
<1>4. CASE \E a \in Addr : Refetch(a)
  BY <1>1, <1>4, RefetchFits DEF CInv
<1>5. CASE Accept \/ Ask \/ RequestHalt \/ Answer \/ Interrupt \/ ReportStop \/ EndStore
  <2>1. UNCHANGED <<code_vars, table, list>>
    BY <1>5 DEF Accept, Ask, RequestHalt, Answer, Interrupt, ReportStop,
                EndStore, StoreDetach, LetGo, ClearRequest, ClearMagic
  <2> QED BY <1>1, <1>5, <2>1, OthersFit DEF CInv
<1>6. CASE PpcRun \/ PpcHalt \/ PpcStep
  <2>1. UNCHANGED <<code_vars, table, list>>
    BY <1>6 DEF PpcRun, PpcHalt, PpcStep
  <2> QED BY <1>1, <1>6, <2>1, OthersFit DEF CInv
<1>7. CASE UNCHANGED vars
  <2>1. UNCHANGED <<code_vars, table, list>> /\ UNCHANGED <<state, ppc, srv, view>>
    BY <1>7 DEF vars, shm, cpu, server
  <2> QED BY <1>1, <2>1, OthersFit DEF CInv
<1> QED BY <1>2, <1>3, <1>4, <1>5, <1>6, <1>7 DEF Next, Server, End, Removal, EndStore, PowerPC

\* While GDB keeps to what the list holds, a line the PowerPC has fetched differs from
\* memory only if it is listed, through inserts, removals, writes, steps over breakpoints and
\* the end of a session (ic_inval_add, gdb.c:628).
THEOREM CachesCoherent ==
  ASSUME Thrifty
  PROVE  Spec => []Coherent
<1>1. Init => CInv
  <2> SUFFICES ASSUME Init PROVE CInv
    OBVIOUS
  <2>1. ActiveSlots = {} /\ Halted /\ Coherent
    BY DEF Init, ActiveSlots, Halted, Coherent
  <2> QED BY <2>1, InitTyped DEF CInv, Fits
<1>2. CInv /\ [Next]_vars => CInv'
  BY NextCInv
<1>3. CInv => Coherent
  BY DEF CInv
<1> QED BY <1>1, <1>2, <1>3, PTL DEF Spec
=============================================================================
