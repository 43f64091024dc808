---------------------------- MODULE StorageProofs ----------------------------
(***************************************************************************)
(* For any number of sectors, attempts and contents: what the drivers of   *)
(* Storage report as done, and the device reported as passed, is done; and *)
(* no request leaves the device inside a command once it could be reset.   *)
(***************************************************************************)
EXTENDS Storage, TLAPS

\* The driver is at a sector of its request, with the device it is for, and writes
\* only what it was given.
Placed ==
    /\ pc # "idle" => req \in Requests /\ req.lo <= next /\ next <= req.hi
    /\ pc # "idle" /\ req.op = "write" => buffer \in [Sector -> Data]
    /\ pc = "sd" => ~usb
    /\ pc \in {"cbw", "data", "csw", "reset"} => usb

Agree(lo, hi) == \A s \in Sector : lo <= s /\ s <= hi => buffer[s] = medium[s]

\* What an attempt has moved so far agrees, unless the medium failed or the device is
\* at an earlier command.
MovedSame ==
    /\ pc = "sd" => Agree(req.lo, next - 1)
    /\ pc = "data" /\ ~bad /\ ~old => Agree(req.lo, next - 1)
    /\ pc = "csw" /\ ~bad /\ ~old => Agree(req.lo, req.hi)
    /\ pc = "idle" /\ result = "RES_OK" /\ (IF usb THEN status = "passed" ELSE req.op = "read")
          => Agree(req.lo, req.hi)

\* A device whose last reset went through waits for the next command.
InStep ==
    /\ pc \in {"idle", "sd"} /\ recovered => dev = "ready" /\ ~stale

IInv == TypeOK /\ Placed /\ MovedSame /\ InStep

-----------------------------------------------------------------------------

LEMMA SectorNat == Sector \subseteq Nat /\ 1 \in Sector
  BY StorageAssumption DEF Sector

LEMMA InitIInv == Init => IInv
<1> SUFFICES ASSUME Init PROVE IInv
  OBVIOUS
<1>1. 0 \in 0 .. IF usb THEN USBSTORAGE_CYCLE_RETRIES ELSE SdRetries
  BY StorageAssumption
<1>2. TypeOK
  BY <1>1, SectorNat DEF Init, TypeOK
<1>3. Placed /\ MovedSame /\ InStep
  BY DEF Init, Placed, MovedSame, InStep
<1> QED BY <1>2, <1>3 DEF IInv

\* Where a request is, and how far.
LEMMA InRange ==
  ASSUME IInv, pc # "idle"
  PROVE  /\ req \in Requests /\ req.lo \in Sector /\ req.hi \in Sector /\ next \in Sector
         /\ req.lo \in Nat /\ req.hi \in Nat /\ next \in Nat
         /\ req.lo <= next /\ next <= req.hi
  BY SectorNat DEF IInv, TypeOK, Placed, Requests

\* A sector moved well agrees; the sectors beside it are left alone.
LEMMA MoveLocal ==
  ASSUME IInv, pc # "idle", NEW fails \in BOOLEAN, Move(fails)
  PROVE  /\ medium' \in [Sector -> Data]
         /\ buffer' \in [Sector -> Data \cup {Junk}]
         /\ req.op = "write" => buffer' \in [Sector -> Data]
         /\ ~fails => buffer'[next] = medium'[next]
         /\ \A s \in Sector : s # next => buffer'[s] = buffer[s] /\ medium'[s] = medium[s]
  BY DEF IInv, TypeOK, Placed, Move, Requests

\* With the sectors up to it, then, one more agrees.
LEMMA MoveExtends ==
  ASSUME IInv, pc # "idle", Move(FALSE), Agree(req.lo, next - 1)
  PROVE  \A s \in Sector : req.lo <= s /\ s <= next => buffer'[s] = medium'[s]
<1>1. next \in Nat /\ Sector \subseteq Nat
  BY StorageAssumption DEF IInv, TypeOK, Sector
<1>2. TAKE s \in Sector
<1>3. HAVE req.lo <= s /\ s <= next
<1>4. s = next => buffer'[s] = medium'[s]
  BY MoveLocal
<1>5. s # next => buffer[s] = medium[s]
  BY <1>1, <1>3 DEF Agree
<1> QED BY <1>4, <1>5, MoveLocal

LEMMA NextIInv == IInv /\ [Next]_vars => IInv'
<1> SUFFICES ASSUME IInv, [Next]_vars PROVE IInv'
  OBVIOUS
<1> USE StorageAssumption
<1>0. Sector \subseteq Nat
  BY SectorNat
<1>1. CASE Request
  <2> PICK r \in Requests : r.lo <= r.hi /\ req' = r
    BY <1>1 DEF Request
  <2>1. r.lo \in Nat /\ r.hi \in Nat /\ r.lo \in Sector
    BY <1>0 DEF Requests
  <2>2. buffer' \in [Sector -> Data \cup {Junk}] /\ (req'.op = "write" => buffer' \in [Sector -> Data])
    BY <1>1 DEF Request
  <2>3. TypeOK'
    BY <1>1, <2>1, <2>2 DEF Request, IInv, TypeOK, device, Sector
  <2>4. Placed'
    <3>1. next' = r.lo
      BY <1>1 DEF Request
    <3>2. usb' = usb /\ pc' = IF usb THEN "cbw" ELSE "sd"
      BY <1>1 DEF Request
    <3>3. r.lo <= next' /\ next' <= r.hi
      BY <2>1, <3>1
    <3>4. (pc' = "sd" => ~usb') /\ (pc' # "sd" => usb')
      BY <3>2, Zenon DEF IInv, TypeOK
    <3> QED BY <2>1, <2>2, <3>2, <3>3, <3>4 DEF Placed
  <2>5. MovedSame'
    <3>1. next' = r.lo /\ pc' \in {"sd", "cbw"}
      BY <1>1 DEF Request
    <3>2. \A s \in Sector : ~(r.lo <= s /\ s <= next' - 1)
      BY <1>0, <2>1, <3>1
    <3> QED BY <3>1, <3>2 DEF MovedSame, Agree
  <2>6. InStep'
    BY <1>1 DEF Request, InStep, IInv, device
  <2> QED BY <2>3, <2>4, <2>5, <2>6 DEF IInv
<1>2. CASE SdTransfer
  <2>1. next < req.hi \/ next = req.hi
    BY <1>2, InRange DEF SdTransfer
  <2>2. \A s \in Sector : req.lo <= s /\ s <= next => buffer'[s] = medium'[s]
    BY <1>2, MoveExtends DEF SdTransfer, IInv, MovedSame
  <2>3. TypeOK'
    <3>1. medium' \in [Sector -> Data] /\ buffer' \in [Sector -> Data \cup {Junk}]
      BY <1>2, MoveLocal DEF SdTransfer
    <3>2. next' \in Sector
      BY <1>2, InRange DEF SdTransfer, Sector
    <3> QED BY <1>2, <3>1, <3>2 DEF SdTransfer, Return, IInv, TypeOK, Results, device
  <2>4. Placed'
    <3>1. req' = req /\ usb' = usb /\ usb = FALSE /\ pc' \in {"sd", "idle"}
      BY <1>2 DEF SdTransfer, Return, IInv, Placed, TypeOK
    <3>2. pc' = "sd" => req.lo <= next' /\ next' <= req.hi
      BY <1>2, InRange DEF SdTransfer, Return
    <3>3. req.op = "write" => buffer' \in [Sector -> Data]
      BY <1>2, MoveLocal DEF SdTransfer
    <3> QED BY <1>2, <3>1, <3>2, <3>3, InRange DEF SdTransfer, Placed
  <2>5. MovedSame'
    BY <1>0, <1>2, <2>1, <2>2 DEF SdTransfer, Return, IInv, MovedSame, Agree, TypeOK, Placed, Sector
  <2>6. InStep'
    BY <1>2 DEF SdTransfer, Return, InStep, IInv, device
  <2> QED BY <2>3, <2>4, <2>5, <2>6 DEF IInv
<1>3. CASE SdFails
  <2>1. TypeOK'
    BY <1>3 DEF SdFails, Return, IInv, TypeOK, Placed, Requests, Results, device
  <2>2. Placed'
    <3>1. req' = req /\ usb' = usb /\ usb = FALSE /\ pc' \in {"sd", "idle"} /\ buffer' = buffer
      BY <1>3 DEF SdFails, Return, IInv, Placed, TypeOK
    <3>2. pc' = "sd" => req.lo <= next' /\ next' <= req.hi
      BY <1>3, InRange DEF SdFails, Return
    <3> QED BY <1>3, <3>1, <3>2, InRange DEF SdFails, IInv, Placed
  <2>3. MovedSame'
    <3>1. pc' = "sd" => \A s \in Sector : ~(req'.lo <= s /\ s <= next' - 1)
      BY <1>0, <1>3, InRange DEF SdFails, Return
    <3>2. pc' = "idle" => ~(result' = "RES_OK" /\ (IF usb' THEN status' = "passed" ELSE req'.op = "read"))
      BY <1>3 DEF SdFails, Return, IInv, Placed
    <3>3. pc' \in {"sd", "idle"}
      BY <1>3 DEF SdFails, Return
    <3> QED BY <3>1, <3>2, <3>3 DEF MovedSame, Agree
  <2>4. InStep'
    BY <1>3 DEF SdFails, Return, InStep, IInv, device
  <2> QED BY <2>1, <2>2, <2>3, <2>4 DEF IInv
<1>4. CASE SendCbw
  <2>1. TypeOK'
    BY <1>4, InRange DEF SendCbw, Accepts, Misses, IInv, TypeOK
  <2>2. Placed'
    <3>1. next' = req.lo /\ req' = req /\ usb' = usb /\ buffer' = buffer /\ pc' \in {"data", "reset"}
      BY <1>4 DEF SendCbw
    <3> QED BY <1>4, <3>1, InRange DEF SendCbw, IInv, Placed
  <2>3. MovedSame'
    <3>1. \A s \in Sector : ~(req'.lo <= s /\ s <= next' - 1)
      BY <1>0, <1>4, InRange DEF SendCbw
    <3>2. pc' \in {"data", "reset"}
      BY <1>4 DEF SendCbw
    <3> QED BY <3>1, <3>2 DEF MovedSame, Agree
  <2>4. InStep'
    BY <1>4 DEF SendCbw, InStep
  <2> QED BY <2>1, <2>2, <2>3, <2>4 DEF IInv
<1>5. CASE DataMoves
  <2> PICK fails \in BOOLEAN : Move(fails) /\ bad' = (bad \/ fails)
    BY <1>5 DEF DataMoves
  <2>1. next < req.hi \/ next = req.hi
    BY <1>5, InRange DEF DataMoves
  <2>2. ~bad' => \A s \in Sector : req.lo <= s /\ s <= next => buffer'[s] = medium'[s]
    BY <1>5, MoveExtends DEF DataMoves, IInv, MovedSame
  <2>3. TypeOK'
    <3>1. bad' \in BOOLEAN
      BY DEF IInv, TypeOK
    <3>2. medium' \in [Sector -> Data] /\ buffer' \in [Sector -> Data \cup {Junk}]
      BY <1>5, MoveLocal DEF DataMoves
    <3>3. next' \in Sector
      BY <1>5, InRange DEF DataMoves, Sector
    <3> QED BY <1>5, <3>1, <3>2, <3>3 DEF DataMoves, IInv, TypeOK
  <2>4. Placed'
    <3>1. req' = req /\ usb' = usb /\ pc' \in {"data", "csw"}
      BY <1>5 DEF DataMoves
    <3>2. req.lo <= next' /\ next' <= req.hi
      BY <1>5, InRange DEF DataMoves
    <3>3. req.op = "write" => buffer' \in [Sector -> Data]
      BY <1>5, MoveLocal DEF DataMoves
    <3> QED BY <1>5, <3>1, <3>2, <3>3, InRange DEF DataMoves, IInv, Placed
  <2>5. MovedSame'
    BY <1>0, <1>5, <2>1, <2>2 DEF DataMoves, MovedSame, Agree, IInv, TypeOK, Placed, Sector
  <2>6. InStep'
    BY <1>5 DEF DataMoves, InStep
  <2> QED BY <2>3, <2>4, <2>5, <2>6 DEF IInv
<1>11. CASE OldDataMoves
  <2>1. next < req.hi \/ next = req.hi
    BY <1>11, InRange DEF OldDataMoves
  <2>2. /\ medium' \in [Sector -> Data] /\ buffer' \in [Sector -> Data \cup {Junk}]
        /\ req.op = "write" => buffer' \in [Sector -> Data]
    BY <1>11, InRange DEF OldDataMoves, IInv, TypeOK, Placed, Requests
  <2>3. TypeOK'
    <3>1. next' \in Sector
      BY <1>11, InRange DEF OldDataMoves, Sector
    <3> QED BY <1>11, <2>2, <3>1 DEF OldDataMoves, IInv, TypeOK
  <2>4. Placed'
    <3>1. req' = req /\ usb' = usb /\ pc' \in {"data", "csw"}
      BY <1>11 DEF OldDataMoves
    <3>2. req.lo <= next' /\ next' <= req.hi
      BY <1>11, InRange DEF OldDataMoves
    <3> QED BY <1>11, <2>2, <3>1, <3>2, InRange DEF OldDataMoves, IInv, Placed
  <2>5. MovedSame' /\ InStep'
    BY <1>11 DEF OldDataMoves, MovedSame, InStep
  <2> QED BY <2>3, <2>4, <2>5 DEF IInv
<1>6. CASE DataFails
  <2>1. TypeOK' /\ Placed' /\ InStep'
    BY <1>6 DEF DataFails, IInv, TypeOK, Placed, InStep
  <2>2. MovedSame'
    BY <1>6 DEF DataFails, MovedSame
  <2> QED BY <2>1, <2>2 DEF IInv
<1>7. CASE CswArrives
  <2>1. TypeOK'
    BY <1>7 DEF CswArrives, TagMatches, Return, IInv, TypeOK, Results
  <2>2. Placed'
    BY <1>7 DEF CswArrives, TagMatches, Return, IInv, Placed
  <2>3. MovedSame'
    BY <1>7 DEF CswArrives, TagMatches, Return, IInv, TypeOK, MovedSame, Agree, Placed
  <2>4. InStep'
    BY <1>7 DEF CswArrives, TagMatches, Return, IInv, TypeOK, InStep
  <2> QED BY <2>1, <2>2, <2>3, <2>4 DEF IInv
<1>8. CASE CswFails
  <2>1. TypeOK' /\ Placed' /\ InStep'
    BY <1>8 DEF CswFails, IInv, TypeOK, Placed, InStep, device
  <2>2. MovedSame'
    BY <1>8 DEF CswFails, MovedSame, device
  <2> QED BY <2>1, <2>2 DEF IInv
<1>9. CASE Reset
  <2>1. TypeOK'
    <3>1. retries' \in 0 .. IF usb THEN USBSTORAGE_CYCLE_RETRIES ELSE SdRetries
      BY <1>9 DEF Reset, AttemptsLeft, Counted, Return, IInv, TypeOK
    <3>2. retval' \in {"ok", "error", "timeout"} /\ dev' \in {"ready", "data", "status"}
      BY <1>9 DEF Reset, IInv, TypeOK
    <3>3. stale' \in BOOLEAN /\ recovered' \in BOOLEAN
      BY <1>9 DEF Reset, Resets, IInv, TypeOK
    <3>4. pc' \in {"idle", "cbw"} /\ result' \in Results \cup {"none"}
      BY <1>9 DEF Reset, Return, IInv, TypeOK, Results
    <3> QED BY <1>9, <3>1, <3>2, <3>3, <3>4 DEF Reset, IInv, TypeOK
  <2>2. Placed'
    BY <1>9 DEF Reset, Return, IInv, Placed
  <2>3. MovedSame'
    BY <1>9 DEF Reset, Return, MovedSame
  <2>4. InStep'
    BY <1>9 DEF Reset, Resets, Return, InStep
  <2> QED BY <2>1, <2>2, <2>3, <2>4 DEF IInv
<1>10. CASE UNCHANGED vars
  BY <1>10 DEF vars, driver, device, IInv, TypeOK, Placed, MovedSame, Agree, InStep
<1> QED
  BY <1>1, <1>2, <1>3, <1>4, <1>5, <1>6, <1>7, <1>8, <1>9, <1>10, <1>11 DEF Next, Sd, Usb

\* The invariant holds in every reachable state.
THEOREM StorageInvariant == Spec => []IInv
  BY InitIInv, NextIInv, PTL DEF Spec

\* Types, for any number of sectors and attempts: the attempts are never
\* counted below zero.
THEOREM StorageTypes == Spec => []TypeOK
<1>1. IInv => TypeOK
  BY DEF IInv
<1> QED BY <1>1, StorageInvariant, PTL

\* Whatever fails, is lost or comes late in whichever attempt, a request reported as
\* done was, if the device says so: a read delivered the medium's data, a write stored the caller's.
THEOREM DoneWhenPassed == Spec => []OkWhenPassed
<1>1. IInv => OkWhenPassed
  BY StorageAssumption DEF IInv, TypeOK, MovedSame, Agree, OkWhenPassed, Same, Requests, NoRequest, Sector
<1> QED BY <1>1, StorageInvariant, PTL

\* A device that could be reset is never left inside a command.
THEOREM DeviceLeftReady == Spec => []LeftReady
<1>1. IInv => LeftReady
  BY DEF IInv, InStep, LeftReady
<1> QED BY <1>1, StorageInvariant, PTL
=============================================================================
