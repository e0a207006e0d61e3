------------------------------ MODULE Updater -------------------------------
(***************************************************************************)
(* UpdaterClass of cores/esp8266/Updater.{h,cpp} for a firmware update     *)
(* (U_FLASH).  begin() reserves the space below the file system, write()   *)
(* and writeStream() collect data in a RAM buffer that _writeBuffer()      *)
(* moves to flash, end() checks what arrived and leaves a copy command for *)
(* the bootloader.  Erasing, programming, checking and writing the command *)
(* are steps of their own, since a reset can fall between any two of them. *)
(***************************************************************************)
EXTENDS OtaFlash

CONSTANTS
    BufferSizes,       \* sizes the heap may allow for _buffer, in cells
    MaxChunk,          \* most cells handed to one write()
    FlashFails,        \* may an erase or a program operation fail
    Damageable         \* positions of an image that the transport may damage

ASSUME UpdaterAssumption ==
    /\ BufferSizes # {}
    /\ \A b \in BufferSizes : b \in 1 .. SectorSize /\ SectorSize % b = 0
    /\ MaxChunk \in Nat \ {0}
    /\ Damageable \subseteq Nat
    /\ FlashFails \in BOOLEAN

VARIABLE upd

Errors == {"ok", "running", "refused", "space", "oom", "no data", "erase",
           "write", "stream", "magic", "md5", "sign"}

NoUpdate ==
    [size |-> 0, start |-> 0, cur |-> 0, bufSize |-> 1, buf |-> <<>>,
     left |-> <<>>, back |-> "idle", even |-> FALSE,
     error |-> "ok", target |-> "none", md5 |-> <<>>,
     src |-> Installed, sent |-> 0, ret |-> "none"]

\* The object as a boot constructs it.
UpdInit == upd = NoUpdate

progress == upd.cur - upd.start
remaining == upd.size - progress
isRunning == upd.size > 0

Reset(u) == [u EXCEPT !.size = 0, !.start = 0, !.cur = 0, !.buf = <<>>,
                      !.left = <<>>, !.back = "idle"]

\* _setError() remembers the error and drops the whole update.
SetError(u, e) == [Reset(u) EXCEPT !.error = e]

-----------------------------------------------------------------------------
(* begin() and setMD5() *)

StartAddress(n) == IF FlashEnd > RoundUp(n) THEN FlashEnd - RoundUp(n) ELSE 0

SpaceFor_NewOnly(n) == TRUE

\* The running sketch, rounded to a sector, must end below the new one.
SpaceFor(n) == StartAddress(n) >= RoundUp(BinSize(running))

BeginRunning ==
    /\ isRunning
    /\ upd' = SetError(upd, "running")

\* UART boot mode, a size of zero, or a flash chip other than configured.
BeginRefused ==
    /\ ~isRunning
    /\ upd' = SetError(upd, "refused")

Fresh(m) == [Reset(upd) EXCEPT !.error = "ok", !.target = "none", !.md5 = <<>>,
                               !.src = m, !.sent = 0, !.ret = "none"]

Begin(m, n) ==
    /\ ~isRunning /\ n > 0
    /\ \/ /\ ~SpaceFor(n)
          /\ upd' = SetError(Fresh(m), "space")
       \/ /\ SpaceFor(n)
          /\ \E b \in BufferSizes :
                upd' = [Fresh(m) EXCEPT !.start = StartAddress(n), !.cur = StartAddress(n),
                                        !.size = n, !.bufSize = b]
       \/ /\ SpaceFor(n)
          /\ upd' = SetError(Fresh(m), "oom")

\* A sender announces the size of its image, all the room there is, or more.
\* The sketch does as the update clients of the repository: once a command is
\* staged it restarts, or takes the command back, before it begins again.
BeginCall ==
    /\ pc = "idle" /\ ~rtc.valid
    /\ \/ BeginRunning
       \/ BeginRefused
       \/ \E m \in Images : \E n \in {Size[m], FlashEnd - RoundUp(BinSize(running)), FlashEnd} :
             Begin(m, n)
    /\ UNCHANGED <<pc, flash, rtc, running>>

SetMD5 ==
    /\ pc = "idle" /\ isRunning /\ upd.target = "none"
    /\ upd' = [upd EXCEPT !.target = upd.src]
    /\ UNCHANGED <<pc, flash, rtc, running>>

-----------------------------------------------------------------------------
(* Data: the next n cells of the image, as sent or damaged. *)

Data(n) ==
    LET sent == [i \in 1 .. n |-> Cell(upd.src, upd.sent + i - 1)]
        damaged == [i \in 1 .. n |-> IF sent[i].pos \in Damageable THEN Garbage ELSE sent[i]]
    IN {sent, damaged}

\* The last chunk may run past the end of the image.
More == upd.sent < Size[upd.src]

Fits(n) == progress + Len(upd.buf) + n <= upd.size

WriteCall ==
    /\ pc = "idle" /\ isRunning /\ upd.error = "ok"
    /\ \E n \in 1 .. MaxChunk :
          \/ /\ ~Fits(n) /\ More
             /\ upd' = SetError(upd, "space")
             /\ pc' = pc
          \/ /\ Fits(n) /\ More
             /\ \E d \in Data(n) :
                   upd' = [upd EXCEPT !.left = d, !.sent = @ + n, !.back = "write"]
             /\ pc' = "write"
    /\ UNCHANGED <<flash, rtc, running>>

\* write(T&): takes what is available, and no more than the update needs.
WriteAvailable ==
    /\ pc = "idle" /\ isRunning /\ upd.error = "ok"
    /\ \E n \in 1 .. MaxChunk :
          /\ More /\ n <= remaining - Len(upd.buf)
          /\ \E d \in Data(n) :
                upd' = [upd EXCEPT !.left = d, !.sent = @ + n, !.back = "write"]
    /\ pc' = "write"
    /\ UNCHANGED <<flash, rtc, running>>

\* One round of write()'s loop, or what follows the loop.
WriteFill ==
    LET room == upd.bufSize - Len(upd.buf)
        n    == IF Len(upd.left) > room THEN room ELSE Len(upd.left)
        buf  == upd.buf \o SubSeq(upd.left, 1, n)
    IN /\ pc = "write"
       /\ upd' = [upd EXCEPT !.buf = buf, !.left = SubSeq(@, n + 1, Len(@))]
       /\ pc' = IF n < Len(upd.left) \/ Len(buf) = remaining THEN "flush" ELSE "idle"
       /\ UNCHANGED <<flash, rtc, running>>

StreamCall ==
    /\ pc = "idle" /\ isRunning /\ upd.error = "ok" /\ More
    /\ \E d \in Data(1) :                                  \* data.peek()
          \/ /\ ~Magic(d[1])
             /\ upd' = SetError(upd, "magic")
             /\ pc' = pc
          \/ /\ Magic(d[1])
             /\ upd' = [upd EXCEPT !.back = "stream"]
             /\ pc' = "stream"
    /\ UNCHANGED <<flash, rtc, running>>

\* The limit on a read forgets what is in the buffer.  As with the clients of
\* the repository the stream holds no more than begin() was told of: if it did
\* a short read near the end would take remaining() below zero.
StreamRead ==
    /\ pc = "stream" /\ remaining # 0
    /\ \E n \in 1 .. MaxChunk :
          /\ n <= upd.bufSize - Len(upd.buf) /\ n <= remaining
          /\ More /\ upd.sent + n <= upd.size
          /\ \E d \in Data(n) :
                LET buf == upd.buf \o d
                IN /\ upd' = [upd EXCEPT !.buf = buf, !.sent = @ + n]
                   /\ pc' = IF Len(buf) \in {remaining, upd.bufSize} THEN "flush" ELSE pc
    /\ UNCHANGED <<flash, rtc, running>>

StreamTimeout ==
    /\ pc = "stream" /\ remaining # 0
    /\ upd' = SetError(upd, "stream")
    /\ pc' = "idle"
    /\ UNCHANGED <<flash, rtc, running>>

StreamDone ==
    /\ pc = "stream" /\ remaining = 0
    /\ pc' = "idle"
    /\ UNCHANGED <<upd, flash, rtc, running>>

-----------------------------------------------------------------------------
(* _writeBuffer() *)

NeedsErase_First(a) == a = upd.start

NeedsErase(a) == a % SectorSize = 0

\* Where a failed flush leaves each caller: write() and writeStream() return,
\* end() does not look at the result.
AfterFailure(back) == IF back = "verify" THEN "verify" ELSE "idle"

AfterSuccess ==
    IF upd.back # "write" THEN upd.back
    ELSE IF upd.left = <<>> THEN "idle" ELSE "write"

FlushErase ==
    /\ pc = "flush"
    /\ \/ /\ NeedsErase(upd.cur)
          /\ flash' = EraseSector(flash, upd.cur)
          /\ pc' = "program" /\ UNCHANGED upd
       \/ /\ NeedsErase(upd.cur) /\ FlashFails
          /\ upd' = SetError(upd, "erase")
          /\ pc' = AfterFailure(upd.back) /\ UNCHANGED flash
       \/ /\ ~NeedsErase(upd.cur)
          /\ pc' = "program" /\ UNCHANGED <<flash, upd>>
    /\ UNCHANGED <<rtc, running>>

\* What is programmed: the header of a foreign image gets the device's own
\* flash mode.  The buffer, and with it the MD5, keeps what was sent.
Programmed ==
    [i \in DOMAIN upd.buf |->
        [upd.buf[i] EXCEPT !.patched = @ \/ (/\ upd.cur = upd.start /\ i = 1
                                            /\ upd.buf[i].img \in ForeignMode)]]

Md5After == IF Signed THEN upd.md5 ELSE upd.md5 \o upd.buf

FlushProgram ==
    /\ pc = "program"
    /\ \/ /\ flash' = FlashWrite(flash, upd.cur, Programmed)
          /\ upd' = [upd EXCEPT !.md5 = Md5After,
                                !.cur = @ + Len(upd.buf), !.buf = <<>>]
          /\ pc' = AfterSuccess
       \/ /\ FlashFails
          /\ upd' = SetError(upd, "write")
          /\ pc' = AfterFailure(upd.back) /\ UNCHANGED flash
    /\ UNCHANGED <<rtc, running>>

-----------------------------------------------------------------------------
(* end() *)

Return(u, v) == [u EXCEPT !.ret = v]

\* isFinished(), or the caller takes what there is.
MayEnd(even) == upd.cur = upd.start + upd.size \/ even

EndCall ==
    /\ pc = "idle"
    /\ \E even \in BOOLEAN :
          \/ /\ ~isRunning
             /\ upd' = Return(Reset(upd), "false")
             /\ pc' = pc
          \/ /\ isRunning /\ progress = 0
             /\ upd' = Return(SetError(upd, "no data"), "false")
             /\ pc' = pc
          \/ /\ isRunning /\ progress # 0 /\ ~MayEnd(even)
             /\ upd' = Return(Reset(upd), "false")
             /\ pc' = pc
          \/ /\ isRunning /\ progress # 0 /\ MayEnd(even)
             /\ upd' = [upd EXCEPT !.even = even, !.back = "verify"]
             /\ pc' = IF even /\ upd.buf # <<>> THEN "flush" ELSE "verify"
    /\ UNCHANGED <<flash, rtc, running>>

\* The image whose MD5 this is: every cell of it, in order, and no other.
Md5Is(m) == upd.md5 = [i \in 1 .. Size[m] |-> Cell(m, i - 1)]

\* The hash is taken over the flash, where the last cell must be m's signature.
SignatureOk_Ends(n) ==
    \E m \in Images : /\ n = Size[m]
                      /\ \A i \in {0, n - 1} : flash[upd.start + i] = Cell(m, i)

SignatureOk(n) ==
    \E m \in Images : /\ n = Size[m]
                      /\ \A i \in 0 .. n - 1 : flash[upd.start + i] = Cell(m, i)

Checked(n) == IF Signed THEN SignatureOk(n)
              ELSE upd.target # "none" => Md5Is(upd.target)

\* The command for the bootloader, with the image it was found to hold.
Command(n) ==
    [valid |-> FALSE, src |-> upd.start, size |-> IF Signed THEN n - 1 ELSE n,
     img |-> IF Signed THEN flash[upd.start].img
             ELSE IF upd.target = "none" THEN "unchecked" ELSE upd.target]

\* The checks of end(); then eboot_command_write(), word by word: until its
\* last word, the CRC, is in place the command is not valid.
EndVerify ==
    LET n == IF upd.even THEN progress ELSE upd.size
    IN /\ pc = "verify"
       /\ \/ /\ ~Checked(n)
             /\ upd' = Return(SetError(upd, IF Signed THEN "sign" ELSE "md5"), "false")
             /\ pc' = "idle" /\ UNCHANGED rtc
          \/ /\ Checked(n) /\ ~Magic(flash[upd.start])
             /\ upd' = Return(SetError(upd, "magic"), "false")
             /\ pc' = "idle" /\ UNCHANGED rtc
          \/ /\ Checked(n) /\ Magic(flash[upd.start])
             /\ upd' = [upd EXCEPT !.size = n]
             /\ rtc' = Command(n)
             /\ pc' = "command"
       /\ UNCHANGED <<flash, running>>

EndStage ==
    /\ pc = "command"
    /\ rtc' = [rtc EXCEPT !.valid = TRUE]
    /\ upd' = Return(Reset(upd), "true")
    /\ pc' = "idle"
    /\ UNCHANGED <<flash, running>>

\* ESP8266HTTPUpdate and ArduinoOTA restart the chip once end() returned true.
Restart ==
    /\ pc = "idle" /\ rtc.valid
    /\ pc' = "boot" /\ upd' = NoUpdate
    /\ UNCHANGED <<flash, rtc, running>>

\* ArduinoOTA takes the command back when it could not erase the settings.
Unstage ==
    /\ pc = "idle" /\ rtc.valid
    /\ rtc' = [rtc EXCEPT !.valid = FALSE]
    /\ UNCHANGED <<pc, upd, flash, running>>

UpdNext ==
    \/ BeginCall \/ SetMD5
    \/ WriteCall \/ WriteAvailable \/ WriteFill
    \/ StreamCall \/ StreamRead \/ StreamTimeout \/ StreamDone
    \/ FlushErase \/ FlushProgram
    \/ EndCall \/ EndVerify \/ EndStage \/ Restart \/ Unstage
=============================================================================
