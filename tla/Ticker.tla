-------------------------------- MODULE Ticker --------------------------------
(***************************************************************************)
(* A Ticker (libraries/Ticker): calls a function after a time, once or     *)
(* again and again, from an os_timer of the SDK.                           *)
(*                                                                         *)
(* The os_timer takes at most DurationMax: a longer time is halved until   *)
(* it fits, and the timer then fires 2, 4, 8... times for one call.  The   *)
(* function runs in SYS and may attach or detach the ticker it was called  *)
(* by.  Time is counted in milliseconds; the timer is served in time, and  *)
(* functions take none.                                                    *)
(***************************************************************************)
EXTENDS Integers, FiniteSets, FiniteSetsExt

CONSTANTS
    TkrFns,        \* functions of the sketch
    TkrTimes,      \* times it asks for
    DurationMax,   \* longest time of an os_timer
    TkrReattach    \* may a ticker with halved time be attached again, undetached,
                   \* for a time that is not halved

ASSUME TkrAssumption ==
    /\ DurationMax \in Nat \ {0} /\ TkrTimes \subseteq Nat \ {0}
    /\ "monostate" \notin TkrFns
    /\ TkrReattach \in BOOLEAN

TkrNone   == [fn |-> "none"]          \* nothing asked for, nothing running
TkrNoTick == [total |-> 0, count |-> 0]
TkrNoFn   == "monostate"

VARIABLES
    tkr,      \* the members: timer (is _timer set), repeat, tick, callback
    tkrOs,    \* external: the os_timer: armed, period, repeat, left
    tkrRun,   \* the callback that runs: tmp, or TkrNone; since: time since the last one
    tkrAsked, \* history: what the sketch asked for last: fn, ms, repeat
    tkrSince  \* history: time since then, or since the last call

tkrVars == <<tkr, tkrOs, tkrRun, tkrAsked, tkrSince>>

TkrDisarmed == [armed |-> FALSE, period |-> 0, repeat |-> FALSE, left |-> 0]
TkrDetached == [timer |-> FALSE, repeat |-> FALSE, tick |-> TkrNoTick, callback |-> TkrNoFn]

TkrInit ==
    /\ tkr = TkrDetached
    /\ tkrOs = TkrDisarmed
    /\ tkrRun = TkrNone
    /\ tkrAsked = TkrNone
    /\ tkrSince = 0

-----------------------------------------------------------------------------
(* 1, 2, 4, 8...: every divisor but 1 is even.                             *)
PowerOfTwo(n) == \A d \in 1..n : n % d = 0 => d = 1 \/ d % 2 = 0

(* _attach(): the smallest power of two that makes the time short enough   *)
(* (halving drops fractions).                                              *)
TkrTotal(ms) == Min({n \in 1..(2 * ms) : PowerOfTwo(n) /\ ms \div n <= DurationMax})

TkrTick(ms) ==
    IF ms > DurationMax THEN [total |-> TkrTotal(ms), count |-> 0] ELSE tkr.tick

(* attach(), once() and their variants, by the sketch or in a callback.    *)
TkrAttach(fn, ms, repeat) ==
    /\ TkrReattach \/ tkr.tick = TkrNoTick \/ ms > DurationMax
    /\ tkr' = [timer |-> TRUE, repeat |-> repeat, tick |-> TkrTick(ms), callback |-> fn]
    /\ LET period == ms \div TkrTotal(ms) IN
       tkrOs' = [armed |-> TRUE, period |-> period, left |-> period,
                 repeat |-> repeat \/ ms > DurationMax]
    /\ tkrAsked' = [fn |-> fn, ms |-> ms, repeat |-> repeat]
    /\ tkrSince' = 0
    /\ UNCHANGED tkrRun

(* detach(), and the destructor, copies and moves, which detach.           *)
TkrDetach ==
    /\ tkr.timer
    /\ tkr' = TkrDetached
    /\ tkrOs' = TkrDisarmed
    /\ tkrAsked' = TkrNone
    /\ tkrSince' = 0
    /\ UNCHANGED tkrRun

-----------------------------------------------------------------------------
(* The os_timer fires.                                                     *)

TkrDue == tkrOs.armed /\ tkrOs.left = 0 /\ tkrRun = TkrNone

TkrOsFires ==
    tkrOs' = IF tkrOs.repeat THEN [tkrOs EXCEPT !.left = tkrOs.period] ELSE TkrDisarmed

(* _static_callback(), a part of a halved time has passed.                 *)
TkrPart ==
    /\ TkrDue
    /\ tkr.tick # TkrNoTick
    /\ tkr.tick.count + 1 < tkr.tick.total
    /\ tkr' = [tkr EXCEPT !.tick.count = @ + 1]
    /\ TkrOsFires
    /\ UNCHANGED <<tkrRun, tkrAsked, tkrSince>>

(* _static_callback() up to the call: the callback is moved out.           *)
TkrCall ==
    /\ TkrDue
    /\ tkr.tick # TkrNoTick => tkr.tick.count + 1 >= tkr.tick.total
    /\ tkr' = [tkr EXCEPT !.tick.count = IF tkr.tick = TkrNoTick THEN @ ELSE @ + 1,
                          !.callback = TkrNoFn]
    /\ TkrOsFires
    /\ tkrRun' = [fn |-> tkr.callback, asked |-> tkrAsked, since |-> tkrSince]
    /\ tkrAsked' = IF tkrAsked # TkrNone /\ tkrAsked.repeat THEN tkrAsked ELSE TkrNone
    /\ tkrSince' = 0

(* The callback is moved back also over one that was attached meanwhile.   *)
TkrReturn_Overwrites ==
    /\ tkrRun # TkrNone
    /\ tkrRun' = TkrNone
    /\ IF ~tkr.timer
       THEN UNCHANGED <<tkr, tkrOs>>
       ELSE IF tkr.repeat
       THEN /\ tkr' = [tkr EXCEPT !.callback = tkrRun.fn, !.tick.count = 0]
            /\ UNCHANGED tkrOs
       ELSE /\ tkr' = TkrDetached
            /\ tkrOs' = TkrDisarmed
    /\ UNCHANGED <<tkrAsked, tkrSince>>

(* _static_callback() after the call: the callback is moved back unless    *)
(* the ticker was detached or attached meanwhile.                          *)
TkrReturn ==
    /\ tkrRun # TkrNone
    /\ tkrRun' = TkrNone
    /\ IF ~tkr.timer \/ tkr.callback # TkrNoFn
       THEN UNCHANGED <<tkr, tkrOs>>
       ELSE IF tkr.repeat
       THEN /\ tkr' = [tkr EXCEPT !.callback = tkrRun.fn, !.tick.count = 0]
            /\ UNCHANGED tkrOs
       ELSE /\ tkr' = TkrDetached
            /\ tkrOs' = TkrDisarmed
    /\ UNCHANGED <<tkrAsked, tkrSince>>

(* A millisecond passes.                                                   *)
TkrTime ==
    /\ tkrRun = TkrNone
    /\ tkrOs.armed /\ tkrOs.left > 0
    /\ tkrOs' = [tkrOs EXCEPT !.left = @ - 1]
    /\ tkrSince' = tkrSince + 1
    /\ UNCHANGED <<tkr, tkrRun, tkrAsked>>

TkrNext ==
    \/ \E fn \in TkrFns, ms \in TkrTimes, repeat \in BOOLEAN : TkrAttach(fn, ms, repeat)
    \/ TkrDetach
    \/ TkrPart
    \/ TkrCall
    \/ TkrReturn
    \/ TkrTime

TkrSpec == TkrInit /\ [][TkrNext]_tkrVars

-----------------------------------------------------------------------------
(* The ticker does what was asked for last: a function is called only as   *)
(* long as it is asked for, the one asked for and not one it replaced, not *)
(* before its time, less what halving drops, and not after it; a ticker    *)
(* that is to call something has its timer armed.  All this also when the  *)
(* function itself attaches, detaches or does both (_attach(), detach(),   *)
(* _static_callback()).                                                    *)
TkrAsAsked ==
    /\ tkrRun # TkrNone =>
         /\ tkrRun.asked # TkrNone /\ tkrRun.fn = tkrRun.asked.fn
         /\ tkrRun.since > tkrRun.asked.ms - TkrTotal(tkrRun.asked.ms)
    /\ tkrAsked # TkrNone => tkrOs.armed /\ tkr.timer /\ tkrSince <= tkrAsked.ms
    /\ tkrRun = TkrNone => (tkrOs.armed <=> tkrAsked # TkrNone)
=============================================================================
