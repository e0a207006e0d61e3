------------------------------ MODULE OtaFlash ------------------------------
(***************************************************************************)
(* What the two halves of an over-the-air update share: the SPI flash, the *)
(* bootloader command in RTC memory, and who is executing.  The Updater    *)
(* (cores/esp8266/Updater.cpp) runs inside the sketch and fills both; the  *)
(* bootloader (bootloaders/eboot) runs after a reset and acts on them.     *)
(*                                                                         *)
(* The unit of flash is a cell, a few hundred bytes that are always        *)
(* written together; a sector is SectorSize cells and is erased as one.    *)
(* The sketch area is 0 .. FlashEnd-1 (FlashEnd is FS_start).              *)
(***************************************************************************)
EXTENDS Integers, Sequences, FiniteSets

CONSTANTS
    Images,        \* the firmware images there are
    Size,          \* cells of each image, its signature cell included
    Installed,     \* the image the device runs at first
    FlashEnd,      \* cells in front of the file system
    SectorSize,    \* cells of a sector
    ForeignMode,   \* images whose header names another flash mode
    Signed         \* is an UpdaterVerifyClass installed

ASSUME GeometryAssumption ==
    /\ SectorSize \in Nat \ {0}
    /\ FlashEnd \in Nat /\ FlashEnd % SectorSize = 0
    /\ Size \in [Images -> 2 .. FlashEnd]
    /\ Installed \in Images /\ ForeignMode \subseteq Images
    /\ Signed \in BOOLEAN
    /\ Images \cap {"erased", "garbage", "none", "unchecked", "torn"} = {}

VARIABLES
    pc,            \* who executes, and where
    flash,         \* the contents of every cell
    rtc,           \* the eboot command in RTC memory
    running        \* the image that the last boot loaded

Erased == [img |-> "erased", pos |-> 0, patched |-> FALSE]
Garbage == [img |-> "garbage", pos |-> 0, patched |-> FALSE]

\* Cell i of image m as the update server has it.
Cell(m, i) == [img |-> m, pos |-> i, patched |-> FALSE]

Cells == {Erased, Garbage}
           \cup [img: Images, pos: 0 .. FlashEnd, patched: BOOLEAN]

Magic(c) == c.img \in Images /\ c.pos = 0

\* The cells that are copied and loaded: the signature is left behind.
BinSize(m) == IF Signed THEN Size[m] - 1 ELSE Size[m]

RoundUp(n) == ((n + SectorSize - 1) \div SectorSize) * SectorSize

Sector(a) == {b \in 0 .. FlashEnd - 1 : b \div SectorSize = a \div SectorSize}

EraseSector(f, a) == [b \in DOMAIN f |-> IF b \in Sector(a) THEN Erased ELSE f[b]]

\* NOR flash: programming only clears bits, so a cell that was not erased
\* first ends up with neither content.
FlashWrite(f, a, data) ==
    [b \in DOMAIN f |->
        IF b \notin a .. a + Len(data) - 1 THEN f[b]
        ELSE IF f[b] = Erased THEN data[b - a + 1] ELSE Garbage]

\* The image m, whole, at address a.
Holds(f, a, m) ==
    \A i \in 0 .. BinSize(m) - 1 :
        /\ a + i \in DOMAIN f
        /\ f[a + i].img = m
        /\ f[a + i].pos = i

NoCommand == [valid |-> FALSE, src |-> 0, size |-> 0, img |-> "none"]

SharedInit ==
    /\ pc = "idle"
    /\ flash = [a \in 0 .. FlashEnd - 1 |->
                  IF a < BinSize(Installed) THEN Cell(Installed, a) ELSE Garbage]
    /\ rtc = NoCommand
    /\ running = Installed
=============================================================================
