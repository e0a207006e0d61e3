-------------------------------- MODULE Ota ---------------------------------
(***************************************************************************)
(* An over-the-air update from the first byte to the new sketch: the       *)
(* Updater inside the running sketch, the bootloader after a reset, and    *)
(* the resets and power cuts that may interrupt either at any step.        *)
(***************************************************************************)
EXTENDS Updater, Eboot

CONSTANTS
    MaxResets,     \* bound on resets and power cuts
    PowerCuts      \* values of pc at which the power may be cut

ASSUME OtaAssumption == MaxResets \in Nat /\ "dead" \notin PowerCuts

VARIABLE resets

vars == <<pc, flash, rtc, running, upd, cp, resets>>

Sketch == {"idle", "write", "stream", "flush", "program", "verify", "command"}
Boot == {"boot", "copy", "erase", "burn", "clear", "load"}

TypeOK ==
    /\ pc \in Sketch \cup Boot \cup {"dead"}
    /\ flash \in [0 .. FlashEnd - 1 -> Cells]
    /\ rtc.valid \in BOOLEAN
    /\ rtc.src \in 0 .. FlashEnd /\ rtc.size \in 0 .. FlashEnd
    /\ running \in Images \cup {"torn"}
    /\ upd.size \in 0 .. FlashEnd /\ upd.error \in Errors
    /\ upd.start <= upd.cur /\ progress <= upd.size
    /\ Len(upd.buf) <= upd.bufSize
    /\ cp.saddr + cp.left <= FlashEnd
    /\ resets \in 0 .. MaxResets

Init == SharedInit /\ UpdInit /\ EbootInit /\ resets = 0

\* ESP.restart(), a watchdog, the reset pin: RTC memory survives.
ChipReset ==
    /\ resets < MaxResets /\ pc # "dead"
    /\ resets' = resets + 1
    /\ pc' = "boot" /\ upd' = NoUpdate /\ cp' = NoCopy
    /\ UNCHANGED <<flash, rtc, running>>

\* RTC memory is lost: what it then holds has no valid CRC.
PowerCut ==
    /\ resets < MaxResets /\ pc \in PowerCuts
    /\ resets' = resets + 1
    /\ pc' = "boot" /\ upd' = NoUpdate /\ cp' = NoCopy
    /\ rtc' = [rtc EXCEPT !.valid = FALSE]
    /\ UNCHANGED <<flash, running>>

BootStep == EbootNext /\ UNCHANGED <<upd, resets>>

Next ==
    \/ UpdNext /\ UNCHANGED <<cp, resets>>
    \/ BootStep
    \/ ChipReset
    \/ PowerCut

Spec == Init /\ [][Next]_vars

\* The bootloader runs by itself; nothing obliges a sketch to go on.
FairSpec == Spec /\ WF_vars(BootStep)

-----------------------------------------------------------------------------
(* Properties *)

\* However an update goes, the sketch that executes is whole in flash: begin()
\* never reserves, and _writeBuffer() never erases, a sector of it.
SketchWhole == pc \in Sketch => Holds(flash, 0, running)

\* That, and end() refuses no image that arrived completely and undamaged,
\* although the flash mode is patched on the way.
SketchIntact ==
    /\ SketchWhole
    /\ upd.error \in {"sign", "md5", "magic"} => upd.sent # Size[upd.src]

\* begin() lets a new sketch overlap the place it is copied to, only not the
\* old sketch.  Apart: the copy does not reach its own source.
Apart == RoundUp(rtc.size) <= rtc.src

\* A valid command whose image end() checked points to that whole image, from
\* the moment it is written until the bootloader has cleared it; an image that
\* overlaps its destination, until the bootloader starts.
StagedWhole ==
    /\ TypeOK
    /\ rtc.valid /\ rtc.img # "unchecked" /\ (Apart \/ pc \in Sketch) =>
          /\ rtc.size = BinSize(rtc.img)
          /\ Holds(flash, rtc.src, rtc.img)

\* A reset at any step, in the middle of the copy or of writing the command,
\* ends with a whole sketch running, if what end() staged was checked and is
\* apart from its destination.  Without a reset it may overlap.
BootsWhole == pc = "dead" => rtc.img = "unchecked" \/ (~Apart /\ resets > 0)

\* A checked image that is staged when the bootloader starts ends up running:
\* whatever resets follow if it is apart, and if none follows in any case.
StagedBoots ==
    \A m \in Images :
        (/\ pc = "boot" /\ rtc.valid /\ rtc.img = m /\ Holds(flash, rtc.src, m)
         /\ Apart \/ resets = MaxResets) ~> (pc = "idle" /\ running = m)

\* end() returns true only if there was no error, as Updater.h states.
EndReports == upd.ret = "true" => upd.error = "ok"
=============================================================================
