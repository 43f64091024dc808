-------------------------------- MODULE Storage --------------------------------
(***************************************************************************)
(* The block devices under FatFs (kernel/diskio.c): the SD slot (SDI.c),   *)
(* and USB mass storage over the bulk-only transport (usbstorage.c): a     *)
(* command wrapper out, the data, a status wrapper in, and up to four      *)
(* attempts with a reset of the device between them.                       *)
(*                                                                         *)
(* One sector of the model is what one transfer moves: 16 KB over USB,     *)
(* 64 KB to SD.  The device is external: it obeys the transport's protocol *)
(* and fails in every way the driver looks for.  Tags are told apart only  *)
(* by whether a status wrapper answers the last command sent.              *)
(***************************************************************************)
EXTENDS Naturals

CONSTANTS
    Sectors,                   \* sectors are 1 .. Sectors
    Data,                      \* contents of a sector
    Junk,                      \* what a failed read leaves in the buffer
    USBSTORAGE_CYCLE_RETRIES,  \* attempts over USB are one more
    SdRetries                  \* Retry of disk_read_sd: attempts are one more

ASSUME StorageAssumption ==
    /\ Sectors \in Nat \ {0} /\ Junk \notin Data
    /\ USBSTORAGE_CYCLE_RETRIES \in Nat /\ SdRetries \in Nat

Sector == 1 .. Sectors
NoRequest == [op |-> "none", lo |-> 1, hi |-> 1]
Requests == [op : {"read", "write"}, lo : Sector, hi : Sector]

VARIABLES
    usb,        \* which device FatFs is on (SetDiskFunctions)
    medium,     \* what the device holds
    buffer,     \* the caller's, by sector
    req,        \* the request in progress, or the last one
    pc,         \* where its driver is
    next,       \* the next sector to transfer
    retries,    \* retries of __cycle, Retry of disk_read_sd
    retval,     \* "ok", "error" or "timeout", as the last transfer returned
    status,     \* of the last status wrapper read
    result,     \* what disk_read or disk_write returned last
    dev,        \* the USB device: waits for a command, in its data, in its status
    stale,      \* is a status wrapper of an earlier command still waiting in it?
    old,        \* is the command in it an earlier one than the driver's last?
    bad,        \* did the command in the device fail on the medium?
    recovered   \* did the last reset go through? (history)

driver == <<req, pc, next, retries, retval, result>>
device == <<dev, stale, old, bad, recovered>>
vars == <<usb, medium, buffer, status, driver, device>>

-----------------------------------------------------------------------------

\* FatFs calls disk_read or disk_write, for the thread that has the file system.
Request ==
    /\ pc = "idle"
    /\ req' \in {r \in Requests : r.lo <= r.hi}
    /\ buffer' \in IF req'.op = "write" THEN [Sector -> Data] ELSE {[s \in Sector |-> Junk]}
    /\ pc' = IF usb THEN "cbw" ELSE "sd"
    /\ next' = req'.lo /\ retval' = "ok" /\ status' = "passed" /\ result' = "none"
    /\ retries' = IF usb THEN USBSTORAGE_CYCLE_RETRIES ELSE SdRetries
    /\ UNCHANGED <<usb, medium, device>>

Return(r) == pc' = "idle" /\ result' = r

\* One sector between the buffer and the medium; a medium that fails stores and delivers none.
Move(fails) ==
    IF req.op = "write"
    THEN /\ medium' = IF fails THEN medium ELSE [medium EXCEPT ![next] = buffer[next]]
         /\ UNCHANGED buffer
    ELSE /\ buffer' = [buffer EXCEPT ![next] = IF fails THEN Junk ELSE medium[next]]
         /\ UNCHANGED medium

-----------------------------------------------------------------------------
(* The SD slot                                                             *)

\* sdio_ReadSectors and sdio_WriteSectors move the sectors one transfer after another.
SdTransfer ==
    /\ pc = "sd"
    /\ Move(FALSE)
    /\ IF next < req.hi THEN next' = next + 1 /\ UNCHANGED <<pc, result>>
                        ELSE Return("RES_OK") /\ UNCHANGED next
    /\ UNCHANGED <<usb, status, req, retries, retval, device>>

\* The card is not selected or a command fails: a read starts anew, and a write returns
\* false, which disk_write_sd takes for a value that is not negative.
SdFails ==
    /\ pc = "sd"
    /\ IF req.op = "read"
       THEN IF retries > 0
            THEN retries' = retries - 1 /\ next' = req.lo /\ UNCHANGED <<pc, result>>
            ELSE Return("RES_ERROR") /\ UNCHANGED <<retries, next>>
       ELSE Return("RES_OK") /\ UNCHANGED <<retries, next>>
    /\ UNCHANGED <<usb, medium, buffer, status, req, retval, device>>

-----------------------------------------------------------------------------
(* USB: one attempt of __cycle                                             *)

\* The device takes a command when it waits for one, or over a status the host never
\* fetched, which then stays in its way.
Accepts ==
    /\ dev # "data"
    /\ dev' = "data" /\ bad' = FALSE /\ old' = FALSE
    /\ stale' = (stale \/ dev = "status")

\* Or the wrapper is lost, and it stays with what it was doing.
Misses == old' = (dev # "ready") /\ UNCHANGED <<dev, stale, bad>>

\* __send_cbw.  The host knows a wrapper that was cut short or refused, but takes a
\* write of no bytes for a success; and the device may have what the host thinks lost.
SendCbw ==
    /\ pc = "cbw"
    /\ next' = req.lo
    /\ Accepts \/ Misses
    /\ \/ retval' = "ok" /\ pc' = "data"
       \/ retval' \in {"error", "timeout"} /\ pc' = "reset"
    /\ UNCHANGED <<usb, medium, buffer, status, req, retries, result, recovered>>

\* A chunk goes over, well or with a failure the device reports in its status.
DataMoves ==
    /\ pc = "data" /\ dev = "data" /\ ~old /\ (req.op = "read" => ~stale)
    /\ \E fails \in BOOLEAN : Move(fails) /\ bad' = (bad \/ fails)
    /\ IF next < req.hi THEN next' = next + 1 /\ UNCHANGED <<pc, dev>>
                        ELSE pc' = "csw" /\ dev' = "status" /\ UNCHANGED next
    /\ UNCHANGED <<usb, status, req, retries, retval, result, stale, old, recovered>>

\* The device goes on with an earlier command: what it delivers is of other sectors, what it
\* stores goes to them, and it may come to its end before the host or behind it.
OldDataMoves ==
    /\ pc = "data" /\ dev = "data" /\ old /\ (req.op = "read" => ~stale)
    /\ IF req.op = "write"
       THEN (\E s \in Sector : medium' = [medium EXCEPT ![s] = buffer[next]]) /\ UNCHANGED buffer
       ELSE buffer' = [buffer EXCEPT ![next] = Junk] /\ UNCHANGED medium
    /\ dev' \in {"data", "status"}
    /\ IF next < req.hi THEN next' = next + 1 /\ UNCHANGED pc
                        ELSE pc' = "csw" /\ UNCHANGED next
    /\ UNCHANGED <<usb, status, req, retries, retval, result, stale, old, bad, recovered>>

\* It comes short (an old status wrapper for one), or not at all.
DataFails ==
    /\ pc = "data"
    /\ stale' = IF req.op = "read" THEN FALSE ELSE stale
    /\ dev' = IF req.op = "read" /\ ~stale /\ dev = "status" THEN "ready" ELSE dev
    /\ retval' \in {"error", "timeout"} /\ pc' = "reset"
    /\ UNCHANGED <<usb, medium, buffer, status, req, next, retries, result, old, bad, recovered>>

\* __read_csw: the wrapper must carry the tag of this command (slip: any will do).
AnyTag(earlier) == TRUE
TagMatches(earlier) == ~earlier
CswArrives ==
    /\ pc = "csw" /\ (stale \/ dev = "status")
    /\ status' \in IF stale \/ old THEN {"passed", "failed"} ELSE IF bad THEN {"failed"} ELSE {"passed"}
    /\ stale' = FALSE
    /\ dev' = IF stale THEN dev ELSE "ready"
    /\ IF TagMatches(stale \/ old)
       THEN retval' = "ok" /\ Return("RES_OK")
       ELSE retval' = "error" /\ pc' = "reset" /\ UNCHANGED result
    /\ UNCHANGED <<usb, medium, buffer, req, next, retries, old, bad, recovered>>

CswFails ==
    /\ pc = "csw"
    /\ retval' \in {"error", "timeout"} /\ pc' = "reset"
    /\ UNCHANGED <<usb, medium, buffer, status, req, next, retries, result, device>>

\* __usbstorage_reset after a failed attempt, and the loop's condition: a time out ends
\* it, as do the attempts.  (Slips: attempts are not counted, the last one does without the
\* reset.)
Uncounted == retries
Counted == retries - 1
AttemptsLeft == retries > 0
ResetsIfRetried == retries > 0
Resets == TRUE
Reset ==
    /\ pc = "reset"
    /\ \E worked \in IF Resets THEN {"ok", "error", "timeout"} ELSE {"skipped"} :
        /\ recovered' = IF worked = "skipped" THEN recovered ELSE worked = "ok"
        /\ IF worked = "ok" THEN dev' = "ready" /\ stale' = FALSE ELSE UNCHANGED <<dev, stale>>
        /\ retval' = IF worked = "timeout" THEN "timeout" ELSE retval
    /\ IF AttemptsLeft /\ retval' # "timeout"
       THEN pc' = "cbw" /\ retries' = Counted /\ UNCHANGED result
       ELSE Return("RES_ERROR") /\ UNCHANGED retries
    /\ UNCHANGED <<usb, medium, buffer, status, req, next, old, bad>>

-----------------------------------------------------------------------------

Init ==
    /\ usb \in BOOLEAN
    /\ medium \in [Sector -> Data] /\ buffer = [s \in Sector |-> Junk]
    /\ req = NoRequest /\ pc = "idle" /\ next = 1
    /\ retries = 0 /\ retval = "ok" /\ status = "passed" /\ result = "none"
    /\ dev = "ready" /\ stale = FALSE /\ old = FALSE /\ bad = FALSE /\ recovered = TRUE

Sd == SdTransfer \/ SdFails
Usb == SendCbw \/ DataMoves \/ OldDataMoves \/ DataFails \/ CswArrives \/ CswFails \/ Reset

Next == Request \/ Sd \/ Usb

\* IOS answers every call, with a time out in the end.
Spec == Init /\ [][Next]_vars /\ WF_vars(Sd \/ Usb)

-----------------------------------------------------------------------------
(* Properties                                                              *)

Results == {"RES_OK", "RES_ERROR"}

TypeOK ==
    /\ usb \in BOOLEAN
    /\ medium \in [Sector -> Data] /\ buffer \in [Sector -> Data \cup {Junk}]
    /\ req \in Requests \cup {NoRequest} /\ next \in Sector
    /\ pc \in {"idle", "sd", "cbw", "data", "csw", "reset"}
    /\ retries \in 0 .. IF usb THEN USBSTORAGE_CYCLE_RETRIES ELSE SdRetries
    /\ retval \in {"ok", "error", "timeout"} /\ status \in {"passed", "failed"}
    /\ result \in Results \cup {"none"}
    /\ dev \in {"ready", "data", "status"}
    /\ stale \in BOOLEAN /\ old \in BOOLEAN /\ bad \in BOOLEAN /\ recovered \in BOOLEAN

Same == \A s \in req.lo .. req.hi : buffer[s] = medium[s]

\* diskio.h: RES_OK means "Successful": what was to be written is on the medium, what was to be
\* read is in the buffer.
OkMeansDone == pc = "idle" /\ result = "RES_OK" => Same

\* The part of it the drivers keep: of an SD card a read, of a USB device a command it
\* reports as passed.  No attempt, reset, lost or late status in between makes a
\* half-done transfer look done.
OkWhenPassed ==
    pc = "idle" /\ result = "RES_OK" /\ (IF usb THEN status = "passed" ELSE req.op = "read")
        => Same

\* A request leaves the device in the middle of a command only when even the reset
\* of it failed: otherwise the next one finds it waiting for a command.
LeftReady == pc = "idle" /\ recovered => dev = "ready" /\ ~stale

\* Every request is answered, whatever the device does.
RequestsEnd == pc # "idle" ~> pc = "idle"
=============================================================================
