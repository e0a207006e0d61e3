------------------------------- MODULE MCTimers ------------------------------
(***************************************************************************)
(* What timers and their interrupts drive: recurrent functions, waveforms  *)
(* and PWM, tickers, and the clock.  They are checked in one instance, one *)
(* at a time: part says which of them a behavior is about, the others stay *)
(* in their initial states.                                                *)
(***************************************************************************)
EXTENDS RecurrentFn, WaveformPwm, Ticker, CoreClock

VARIABLE part

timersVars == <<part, recVars, wvfVars, tkrVars, clkVars>>

TimersInit ==
    /\ part \in {"rec", "wvf", "tkr", "clk"}
    /\ RecInit /\ WvfInit /\ TkrInit /\ ClkInit

TimersNext ==
    /\ UNCHANGED part
    /\ \/ part = "rec" /\ RecNext /\ UNCHANGED <<wvfVars, tkrVars, clkVars>>
       \/ part = "wvf" /\ WvfNext /\ UNCHANGED <<recVars, tkrVars, clkVars>>
       \/ part = "tkr" /\ TkrNext /\ UNCHANGED <<recVars, wvfVars, clkVars>>
       \/ part = "clk" /\ ClkNext /\ UNCHANGED <<recVars, wvfVars, tkrVars>>

(* The fairness of a part asks for nothing in its initial state.           *)
TimersSpec ==
    /\ TimersInit /\ [][TimersNext]_timersVars
    /\ RecFairness /\ WvfFairness

(* Tones on one pin, PWM on three, two different duties on one of them.    *)
(* With two entries in the PWM list the third pin runs a waveform too.     *)
(* With periods of 7 and 8 cycles the product of <<3, 4>> wraps.           *)
WvfTones == [pin \in WvfPins |-> IF pin = 1 THEN {<<1, 2>>} ELSE {}]
WvfPwms  == [pin \in WvfPins |-> IF pin = 1 THEN {<<1, 4>>, <<3, 4>>} ELSE {<<2, 4>>}]
=============================================================================
