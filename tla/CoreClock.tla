------------------------------ MODULE CoreClock ------------------------------
(***************************************************************************)
(* The clock: micros_overflow_tick(), micros64() and millis() of           *)
(* core_esp8266_wiring.cpp.                                                *)
(*                                                                         *)
(* system_get_time() counts microseconds in one word, which overflows      *)
(* every 71 minutes.  A timer (60 s) runs micros_overflow_tick() in SYS to *)
(* count the overflows; whoever asks for the time adds the one that the    *)
(* last tick has not seen yet.                                             *)
(*                                                                         *)
(* The true time is the pair clkHi, clkLo: words that have passed, and the *)
(* value of system_get_time().  Interrupts may come between the three      *)
(* steps of a tick.                                                        *)
(***************************************************************************)
EXTENDS Naturals

CONSTANTS
    ClkWord,   \* 2^32: the values of a word
    ClkStep,   \* time advances by 1..ClkStep
    ClkMaxHi,  \* bound: overflows
    MAGIC_1E3_wHI, MAGIC_1E3_wLO,   \* the magic multiplier of millis(), two words
    ClkDiv     \* 1000: microseconds in a millisecond

ASSUME ClkAssumption ==
    /\ ClkWord \in Nat /\ ClkWord > 1
    /\ ClkStep \in Nat /\ ClkStep < ClkWord
    /\ ClkMaxHi \in Nat
    /\ MAGIC_1E3_wHI \in Nat /\ MAGIC_1E3_wLO \in Nat /\ ClkDiv \in Nat \ {0}

VARIABLES
    clkHi, clkLo,   \* the true time
    micros_overflow_count,
    micros_at_last_overflow_tick,
    clkTick,        \* the tick: pc, its local m, and (history) clkHi when m was read
    clkAt           \* history: clkHi at the time of micros_at_last_overflow_tick

clkVars == <<clkHi, clkLo, micros_overflow_count, micros_at_last_overflow_tick,
             clkTick, clkAt>>

ClkTypeOK ==
    /\ clkHi \in Nat /\ clkLo \in 0..(ClkWord - 1)
    /\ micros_overflow_count \in Nat
    /\ micros_at_last_overflow_tick \in 0..(ClkWord - 1)
    /\ clkTick \in [pc : {"idle", "read", "counted"}, m : 0..(ClkWord - 1), hi : Nat]
    /\ clkAt \in Nat

ClkInit ==
    /\ clkHi = 0 /\ clkLo = 0
    /\ micros_overflow_count = 0 /\ micros_at_last_overflow_tick = 0
    /\ clkTick = [pc |-> "idle", m |-> 0, hi |-> 0]
    /\ clkAt = 0

(* Less than a word has passed since the last tick at time hi, lo.         *)
ClkTimely(hi, lo) ==
    hi = clkAt \/ (hi = clkAt + 1 /\ lo < micros_at_last_overflow_tick)

(* Time passes; the timer is never late by a whole word.                   *)
ClkAdvance(d) ==
    /\ clkHi' = IF clkLo + d >= ClkWord THEN clkHi + 1 ELSE clkHi
    /\ clkLo' = IF clkLo + d >= ClkWord THEN clkLo + d - ClkWord ELSE clkLo + d
    /\ clkHi' <= ClkMaxHi
    /\ ClkTimely(clkHi', clkLo')
    /\ UNCHANGED <<micros_overflow_count, micros_at_last_overflow_tick, clkTick, clkAt>>

(* micros_overflow_tick() *)
ClkTickRead ==
    /\ clkTick.pc = "idle"
    /\ clkTick' = [pc |-> "read", m |-> clkLo, hi |-> clkHi]
    /\ UNCHANGED <<clkHi, clkLo, micros_overflow_count, micros_at_last_overflow_tick, clkAt>>

ClkTickCount ==
    /\ clkTick.pc = "read"
    /\ clkTick' = [clkTick EXCEPT !.pc = "counted"]
    /\ micros_overflow_count' = IF clkTick.m < micros_at_last_overflow_tick
                                THEN micros_overflow_count + 1 ELSE micros_overflow_count
    /\ UNCHANGED <<clkHi, clkLo, micros_at_last_overflow_tick, clkAt>>

(* The time is read a second time.                                         *)
ClkTickStore_Reread ==
    /\ clkTick.pc = "counted"
    /\ clkTick' = [pc |-> "idle", m |-> 0, hi |-> 0]
    /\ micros_at_last_overflow_tick' = clkLo
    /\ clkAt' = clkHi
    /\ UNCHANGED <<clkHi, clkLo, micros_overflow_count>>

ClkTickStore ==
    /\ clkTick.pc = "counted"
    /\ clkTick' = [pc |-> "idle", m |-> 0, hi |-> 0]
    /\ micros_at_last_overflow_tick' = clkTick.m
    /\ clkAt' = clkTick.hi
    /\ UNCHANGED <<clkHi, clkLo, micros_overflow_count>>

ClkNext ==
    \/ \E d \in 1..ClkStep : ClkAdvance(d)
    \/ ClkTickRead
    \/ ClkTickCount
    \/ ClkTickStore

ClkSpec == ClkInit /\ [][ClkNext]_clkVars

-----------------------------------------------------------------------------
(* Readers                                                                 *)

(* micros64(): the high word; the low one is system_get_time().            *)
micros64_high ==
    micros_overflow_count + (IF clkLo < micros_at_last_overflow_tick THEN 1 ELSE 0)

(* millis() of the high word c and the low word m: the high word of the    *)
(* 64-bit accumulator, to which the last product is added in one word.     *)
millis_acc(c, m) ==
    (m * MAGIC_1E3_wLO) \div ClkWord + m * MAGIC_1E3_wHI + c * MAGIC_1E3_wLO
millis(c, m) == ((millis_acc(c, m) \div ClkWord) + c * MAGIC_1E3_wHI) % ClkWord

-----------------------------------------------------------------------------
(* The clock is right: micros64() is the true time and millis() the true   *)
(* number of milliseconds in one word, also before the tick that follows   *)
(* an overflow and between the first two steps of a tick.  Only between    *)
(* the second and the third may an interrupt handler read a time that is   *)
(* one word ahead.                                                         *)
ClkExact ==
    clkTick.pc # "counted" =>
        /\ micros64_high = clkHi
        /\ millis(micros64_high, clkLo) = ((clkHi * ClkWord + clkLo) \div ClkDiv) % ClkWord
=============================================================================
