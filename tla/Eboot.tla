------------------------------- MODULE Eboot --------------------------------
(***************************************************************************)
(* The bootloader, bootloaders/eboot/eboot.c: main() reads the command     *)
(* from RTC memory, copies the new sketch over the old one sector by       *)
(* sector, clears the command and loads the sketch at address 0.  GZIP     *)
(* images are not modelled.                                                *)
(***************************************************************************)
EXTENDS OtaFlash

CONSTANT BootFails     \* may a flash operation of the bootloader fail

ASSUME EbootAssumption == BootFails \in BOOLEAN

VARIABLE cp            \* copy_raw(): its cursors, its buffer and its result

NoCopy == [saddr |-> 0, daddr |-> 0, left |-> 0, buf |-> <<>>, res |-> 0]

EbootInit == cp = NoCopy

ClearedOnRead_Early == [rtc EXCEPT !.valid = FALSE]

\* The command stays in place while it is carried out.
ClearedOnRead == rtc

CopyLength_Short(n) == IF n = 0 THEN 0 ELSE RoundUp(n) - SectorSize

CopyLength(n) == RoundUp(n)

\* copy_raw() refuses a source that does not start at a sector.
MainRead ==
    /\ pc = "boot"
    /\ \/ /\ rtc.valid
          /\ cp' = [NoCopy EXCEPT !.saddr = rtc.src, !.left = CopyLength(rtc.size),
                                 !.res = IF rtc.src % SectorSize = 0 THEN 0 ELSE 1]
          /\ pc' = IF cp'.res = 0 THEN "copy" ELSE "clear"
       \/ /\ ~rtc.valid
          /\ cp' = NoCopy
          /\ pc' = "load"
    /\ rtc' = ClearedOnRead
    /\ UNCHANGED <<flash, running>>

SectorAt(a) == [i \in 1 .. SectorSize |-> flash[a + i - 1]]

\* The sector at address 0 holds the bootloader: it is left alone when equal.
Skips(buf) == cp.daddr = 0 /\ buf = SectorAt(0)

Advance(c) == [c EXCEPT !.saddr = @ + SectorSize, !.daddr = @ + SectorSize,
                        !.left = @ - SectorSize]

CopyRead ==
    LET buf == SectorAt(cp.saddr)
    IN /\ pc = "copy" /\ cp.left > 0
       /\ cp' = IF Skips(buf) THEN Advance(cp) ELSE [cp EXCEPT !.buf = buf]
       /\ pc' = IF Skips(buf) THEN "copy" ELSE "erase"
       /\ UNCHANGED <<flash, rtc, running>>

CopyErase ==
    /\ pc = "erase"
    /\ flash' = EraseSector(flash, cp.daddr)
    /\ pc' = "burn"
    /\ UNCHANGED <<cp, rtc, running>>

CopyWrite ==
    /\ pc = "burn"
    /\ flash' = FlashWrite(flash, cp.daddr, cp.buf)
    /\ cp' = Advance(cp)
    /\ pc' = "copy"
    /\ UNCHANGED <<rtc, running>>

\* SPIRead, SPIEraseSector and SPIWrite each end copy_raw() when they fail.
CopyFails ==
    /\ BootFails
    /\ pc \in {"copy", "erase", "burn"} /\ cp.left > 0
    /\ cp' = [cp EXCEPT !.res = 1]
    /\ pc' = "clear"
    /\ UNCHANGED <<flash, rtc, running>>

CopyDone ==
    /\ pc = "copy" /\ cp.left = 0
    /\ pc' = "clear"
    /\ UNCHANGED <<cp, flash, rtc, running>>

\* eboot_command_clear(): after the copy, whether it succeeded or not.  A
\* failed copy then resets the chip.
MainClear ==
    /\ pc = "clear"
    /\ rtc' = [rtc EXCEPT !.valid = FALSE]
    /\ pc' = IF cp.res = 0 THEN "load" ELSE "boot"
    /\ UNCHANGED <<cp, flash, running>>

\* load_app_from_flash_raw(0): whatever is there is loaded and jumped to.
LoadApp ==
    /\ pc = "load"
    /\ \/ \E m \in Images : Holds(flash, 0, m) /\ running' = m /\ pc' = "idle"
       \/ /\ \A m \in Images : ~Holds(flash, 0, m)
          /\ running' = "torn" /\ pc' = "dead"
    /\ cp' = NoCopy
    /\ UNCHANGED <<flash, rtc>>

LoadFails ==
    /\ BootFails /\ pc = "load"
    /\ pc' = "boot"
    /\ UNCHANGED <<cp, flash, rtc, running>>

EbootNext == MainRead \/ CopyRead \/ CopyErase \/ CopyWrite \/ CopyFails
               \/ CopyDone \/ MainClear \/ LoadApp \/ LoadFails
=============================================================================
