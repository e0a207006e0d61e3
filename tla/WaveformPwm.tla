----------------------------- MODULE WaveformPwm -----------------------------
(***************************************************************************)
(* Waveforms and PWM on GPIO pins: core_esp8266_waveform_pwm.cpp, as       *)
(* digitalWrite(), analogWrite(), analogWriteFreq(), tone() and Servo use  *)
(* it.                                                                     *)
(*                                                                         *)
(* The sketch and the NMI of timer 1 share wvfState and pwmState without a *)
(* lock: the sketch leaves requests (masks of pins, a mailbox with a new   *)
(* PWM list) and waits until the NMI has taken them.  The NMI interrupts   *)
(* the sketch anywhere, never the other way round.  A call is a sequence   *)
(* of functions the sketch is still to go through (job.todo); the NMI may  *)
(* come between any two of them, and while one of them waits.              *)
(*                                                                         *)
(* When an edge or the end of a waveform is due is left open; cycles are   *)
(* only counted in the PWM list.  A field that the code leaves as it is    *)
(* when a generator stops, and writes before it reads it again, goes back  *)
(* to its initial value here.                                              *)
(***************************************************************************)
EXTENDS Naturals, Sequences, FiniteSets, SequencesExt, FiniteSetsExt, PrefixSums

CONSTANTS
    WvfPins,           \* GPIO pins
    maxPWMs,
    WvfWaves,          \* [WvfPins -> waveforms the sketch starts there: <<high, low>>]
    WvfDuties,         \* [WvfPins -> duties it asks for there: <<val, range>>]
    WvfFreqs,          \* PWM frequencies, each as its period in cycles
    WvfWord,           \* the values of a uint32_t: 2^32
    WvfAdjust,         \* cycles that _setPWMFreq() takes off for each entry
    WvfShortRuns,      \* may a waveform end while a change of it is asked for
    WvfFreqAfterStop   \* may the frequency change while the list has stopped pins

ASSUME WvfAssumption ==
    /\ WvfPins # {} /\ maxPWMs \in Nat \ {0} /\ WvfAdjust \in Nat /\ WvfWord \in Nat \ {0}
    /\ \A pin \in WvfPins : WvfWaves[pin] \cup WvfDuties[pin] \subseteq (Nat \ {0}) \X (Nat \ {0})
    /\ WvfFreqs # {} /\ \A f \in WvfFreqs : f \in Nat /\ f > maxPWMs * WvfAdjust + 1
    /\ WvfShortRuns \in BOOLEAN /\ WvfFreqAfterStop \in BOOLEAN

VARIABLES
    wvfReg,     \* wvfState: masks of pins, the change that waits, and the timer
    wvfWave,    \* [WvfPins -> wvfState.waveform[]]
    pwmState,   \* mask, pin[], delta[] (one more than pins), pwmUpdate
    wvfFreq,    \* _pwmFreq and _pwmPeriod
    wvfJob,     \* the call the sketch is in
    wvfAsked    \* history: [WvfPins -> what the sketch last asked for]

wvfVars == <<wvfReg, wvfWave, pwmState, wvfFreq, wvfJob, wvfAsked>>

WvfNoUpdate == [mask |-> {}, pin |-> <<>>, delta |-> <<>>, full |-> FALSE]
WvfNoWave   == <<0, 0>>
WvfIdle     == [todo |-> <<>>]
WvfOff      == <<"off">>

WvfInit ==
    /\ wvfReg = [enabled |-> {}, state |-> {}, toEnable |-> {}, toDisable |-> {},
                 toChange |-> {}, new |-> WvfNoWave, running |-> FALSE, cb |-> FALSE]
    /\ wvfWave = [p \in WvfPins |-> [desired |-> WvfNoWave, expires |-> FALSE]]
    /\ pwmState = [mask |-> {}, pin |-> <<>>, delta |-> <<0>>, update |-> WvfNoUpdate]
    /\ wvfFreq \in {[freq |-> f, period |-> f] : f \in WvfFreqs}
    /\ wvfJob = WvfIdle
    /\ wvfAsked = [p \in WvfPins |-> WvfOff]

-----------------------------------------------------------------------------
(* The PWM list                                                            *)

(* (_pwmPeriod * val) / range; the product is a uint32_t and wraps.        *)
WvfCycles(period, duty) == ((period * duty[1]) % WvfWord) \div duty[2]

WvfClipped(period, cc) == IF cc = 0 THEN 1 ELSE IF cc >= period THEN period - 1 ELSE cc

(* _addPWMtoList(): the edge of a pin, in cycles, clipped into the period. *)
WvfEdgeAt(period, duty) == WvfClipped(period, WvfCycles(period, duty))

(* _addPWMtoList(): the place is before the first entry at or after cc.    *)
WvfAddPWM(p, pin, period, duty) ==
    LET cc  == WvfEdgeAt(period, duty)
        n   == Len(p.pin)
        i   == Min({k \in 1..(n + 1) : k = n + 1 \/ SumTo(p.delta, k) >= cc})
        off == cc - SumTo(p.delta, i - 1)
    IN  [mask  |-> p.mask \cup {pin},
         pin   |-> IF n = 0 THEN <<pin>> ELSE InsertAt(p.pin, i, pin),
         delta |-> IF n = 0 THEN <<cc, period - cc>>
                   ELSE InsertAt([p.delta EXCEPT ![i] = @ - off], i, off)]

(* The cycles of what goes are dropped.                                    *)
WvfCleanEntry_Dropped(q, pin, entry, cycles) ==
    IF entry # pin /\ entry \in q.mask
    THEN [q EXCEPT !.pin = Append(@, entry), !.delta = Append(@, cycles)]
    ELSE [q EXCEPT !.mask = @ \ {entry}]

(* One turn of the loop in _cleanAndRemovePWM(): the pin and the entries   *)
(* that are marked off go, their cycles are added to the entry that        *)
(* follows.                                                                *)
WvfCleanEntry(q, pin, entry, cycles) ==
    IF entry # pin /\ entry \in q.mask
    THEN [mask |-> q.mask, pin |-> Append(q.pin, entry),
          delta |-> Append(q.delta, cycles + q.leftover), leftover |-> 0]
    ELSE [mask |-> q.mask \ {entry}, pin |-> q.pin, delta |-> q.delta,
          leftover |-> q.leftover + cycles]

WvfClean(p, pin) ==
    LET n == Len(p.pin)
        pass[i \in 0..n] ==
            IF i = 0 THEN [mask |-> p.mask, pin |-> <<>>, delta |-> <<>>, leftover |-> 0]
            ELSE WvfCleanEntry(pass[i - 1], pin, p.pin[i], p.delta[i])
    IN  [mask |-> pass[n].mask, pin |-> pass[n].pin,
         delta |-> Append(pass[n].delta, p.delta[n + 1] + pass[n].leftover)]

-----------------------------------------------------------------------------
(* The timer                                                               *)

(* initTimer() *)
WvfInitTimer(r) == [r EXCEPT !.running = TRUE]

(* disableIdleTimer() *)
WvfDisableIdle(r) ==
    [r EXCEPT !.running = @ /\ ~(r.enabled = {} /\ pwmState.pin = <<>> /\ ~r.cb)]

-----------------------------------------------------------------------------
(* Calls of the sketch                                                     *)

WvfCall(todo, pin, arg, expires) ==
    /\ wvfJob.todo = <<>>
    /\ wvfJob' = [todo |-> todo, wait |-> "no", pin |-> pin, arg |-> arg, expires |-> expires]
    /\ UNCHANGED <<wvfReg, pwmState>>

(* startWaveform(): the time at which it ends is written first.            *)
WvfStartWaveform(pin, wave, expires) ==
    /\ WvfCall(<<"stopPWM", "start">>, pin, wave, expires)
    /\ wvfWave' = [wvfWave EXCEPT ![pin].expires = expires]
    /\ wvfAsked' = [wvfAsked EXCEPT ![pin] = <<"wave", wave>>]
    /\ UNCHANGED wvfFreq

(* stopWaveform(), of noTone() and Servo::detach().                        *)
WvfStop(pin) ==
    /\ WvfCall(<<"stopWaveform">>, pin, WvfNoWave, FALSE)
    /\ wvfAsked' = [wvfAsked EXCEPT ![pin] = IF @[1] = "wave" THEN WvfOff ELSE @]
    /\ UNCHANGED <<wvfWave, wvfFreq>>

(* digitalWrite() *)
WvfDigitalWrite(pin) ==
    /\ WvfCall(<<"stopWaveform", "stopPWM">>, pin, WvfNoWave, FALSE)
    /\ wvfAsked' = [wvfAsked EXCEPT ![pin] = WvfOff]
    /\ UNCHANGED <<wvfWave, wvfFreq>>

(* analogWrite(): _setPWM() starts with stopWaveform().                    *)
WvfAnalogWrite(pin, duty) ==
    /\ WvfCall(<<"stopWaveform", "setPWM">>, pin, duty, FALSE)
    /\ wvfAsked' = [wvfAsked EXCEPT ![pin] = <<"pwm", duty>>]
    /\ UNCHANGED <<wvfWave, wvfFreq>>

(* analogWriteFreq(); without WvfFreqAfterStop only while no entry of the  *)
(* list is marked off.                                                     *)
WvfAnalogWriteFreq(freq) ==
    /\ WvfFreqAfterStop \/ ToSet(pwmState.pin) \subseteq pwmState.mask
    /\ WvfCall(<<"setFreq">>, CHOOSE p \in WvfPins : TRUE, WvfNoWave, FALSE)
    /\ wvfFreq' = [wvfFreq EXCEPT !.freq = freq]
    /\ UNCHANGED <<wvfWave, wvfAsked>>

(* setTimer1Callback() *)
WvfSetTimer1Callback(on) ==
    /\ wvfJob.todo = <<>>
    /\ LET r == [wvfReg EXCEPT !.cb = on]
       IN  wvfReg' = WvfDisableIdle(IF on THEN WvfInitTimer(r) ELSE r)
    /\ UNCHANGED <<wvfWave, pwmState, wvfFreq, wvfJob, wvfAsked>>

-----------------------------------------------------------------------------
(* The functions of a call                                                 *)

WvfAt(f, wait) == wvfJob.todo # <<>> /\ Head(wvfJob.todo) = f /\ wvfJob.wait = wait

WvfGo(todo) ==
    wvfJob' = IF todo = <<>> THEN WvfIdle ELSE [wvfJob EXCEPT !.todo = todo, !.wait = "no"]
WvfReturn       == WvfGo(Tail(wvfJob.todo))
WvfWait(what)   == wvfJob' = [wvfJob EXCEPT !.wait = what]

(* _notifyPWM(): the new list goes into the mailbox.                       *)
WvfNotify(p) ==
    pwmState' = [pwmState EXCEPT !.update =
                    [mask |-> p.mask, pin |-> p.pin, delta |-> p.delta, full |-> TRUE]]

(* The end of the loop in _notifyPWM(), and disableIdleTimer().            *)
WvfNotified(f) ==
    /\ WvfAt(f, "pwm")
    /\ ~pwmState.update.full
    /\ wvfReg' = WvfDisableIdle(wvfReg)
    /\ IF f = "setPWM" THEN WvfGo(<<"setFreq">>) ELSE WvfReturn
    /\ UNCHANGED <<wvfWave, pwmState, wvfFreq, wvfAsked>>

(* _stopPWM(): only the mask changes, the entry stays in the list; when    *)
(* the mask is empty the list is dropped.                                  *)
WvfStopPWM ==
    LET mask == pwmState.mask \ {wvfJob.pin}
        p    == [mask |-> mask, pin |-> IF mask = {} THEN <<>> ELSE pwmState.pin,
                 delta |-> IF mask = {} THEN <<0>> ELSE pwmState.delta]
    IN  /\ WvfAt("stopPWM", "no")
        /\ IF wvfJob.pin \in pwmState.mask
           THEN WvfNotify(p) /\ WvfWait("pwm")
           ELSE WvfReturn /\ UNCHANGED pwmState
        /\ UNCHANGED <<wvfReg, wvfWave, wvfFreq, wvfAsked>>

(* A change that waits for the pin is not taken back.                      *)
WvfStopWaveform_KeepsChange ==
    LET pin == wvfJob.pin IN
    /\ WvfAt("stopWaveform", "no")
    /\ IF wvfReg.running /\ pin \in wvfReg.enabled
       THEN /\ wvfReg' = [wvfReg EXCEPT !.toDisable = {pin}]
            /\ WvfWait("disable")
       ELSE /\ wvfReg' = WvfDisableIdle(wvfReg)
            /\ WvfReturn
    /\ UNCHANGED <<wvfWave, pwmState, wvfFreq, wvfAsked>>

(* stopWaveform() *)
WvfStopWaveform ==
    LET pin == wvfJob.pin IN
    /\ WvfAt("stopWaveform", "no")
    /\ IF wvfReg.running /\ pin \in wvfReg.enabled
       THEN /\ wvfReg' = [wvfReg EXCEPT !.toDisable = {pin}, !.toChange = @ \ {pin},
                                        !.new = IF pin \in wvfReg.toChange THEN WvfNoWave ELSE @]
            /\ WvfWait("disable")
       ELSE /\ wvfReg' = WvfDisableIdle(wvfReg)
            /\ WvfReturn
    /\ UNCHANGED <<wvfWave, pwmState, wvfFreq, wvfAsked>>

WvfStopped ==
    /\ WvfAt("stopWaveform", "disable")
    /\ wvfReg.toDisable = {}
    /\ wvfReg' = WvfDisableIdle(wvfReg)
    /\ WvfReturn
    /\ UNCHANGED <<wvfWave, pwmState, wvfFreq, wvfAsked>>

(* _setPWM() after stopWaveform(): without room in the list analogWrite()  *)
(* starts a waveform instead (of a cycle or more; one of none would be     *)
(* refused); an edge outside the period is a digitalWrite().               *)
WvfSetPWM ==
    LET pin == wvfJob.pin
        cc  == WvfCycles(wvfFreq.period, wvfJob.arg)
    IN  /\ WvfAt("setPWM", "no")
        /\ \E p \in {WvfClean(pwmState, pin)} :
           IF Len(p.pin) >= maxPWMs
           THEN /\ WvfGo(<<"stopPWM", "start">>)
                /\ wvfWave' = [wvfWave EXCEPT ![pin].expires = FALSE]
                /\ wvfAsked' = [wvfAsked EXCEPT ![pin] = <<"wave", wvfJob.arg>>]
                /\ UNCHANGED <<wvfReg, pwmState>>
           ELSE IF cc = 0 \/ cc >= wvfFreq.period
           THEN /\ WvfGo(<<"stopWaveform", "stopPWM">>)
                /\ wvfAsked' = [wvfAsked EXCEPT ![pin] = WvfOff]
                /\ UNCHANGED <<wvfReg, pwmState, wvfWave>>
           ELSE /\ WvfNotify(WvfAddPWM(p, pin, wvfFreq.period, wvfJob.arg))
                /\ wvfWave' = [wvfWave EXCEPT ![pin].desired = wvfJob.arg]
                /\ wvfReg' = WvfInitTimer(wvfReg)
                /\ WvfWait("pwm")
                /\ UNCHANGED wvfAsked
        /\ UNCHANGED wvfFreq

(* The loop of _setPWMFreq(): all the entries, added to an empty list.     *)
WvfRebuilt(period) ==
    LET list[i \in 0..Len(pwmState.pin)] ==
            IF i = 0 THEN [mask |-> {}, pin |-> <<>>, delta |-> <<0>>]
            ELSE WvfAddPWM(list[i - 1], pwmState.pin[i], period,
                           wvfWave[pwmState.pin[i]].desired)
    IN  list[Len(pwmState.pin)]

(* _setPWMFreq(): a list for the new period.                               *)
WvfSetFreq ==
    LET period == wvfFreq.freq - Len(pwmState.pin) * WvfAdjust
    IN  /\ WvfAt("setFreq", "no")
        /\ wvfFreq' = [wvfFreq EXCEPT !.period = period]
        /\ IF period = wvfFreq.period \/ pwmState.pin = <<>>
           THEN WvfReturn /\ UNCHANGED <<wvfReg, pwmState>>
           ELSE /\ WvfNotify(WvfRebuilt(period))
                /\ wvfReg' = WvfInitTimer(wvfReg)
                /\ WvfWait("pwm")
        /\ UNCHANGED <<wvfWave, wvfAsked>>

(* The timer is not started.                                               *)
WvfStart_NoTimer ==
    LET pin == wvfJob.pin IN
    /\ WvfAt("start", "no")
    /\ IF pin \in wvfReg.enabled
       THEN WvfWait("change") /\ UNCHANGED <<wvfReg, wvfWave>>
       ELSE /\ wvfWave' = [wvfWave EXCEPT ![pin].desired = wvfJob.arg]
            /\ wvfReg' = [wvfReg EXCEPT !.toEnable = @ \cup {pin}]
            /\ WvfWait("enable")
    /\ UNCHANGED <<pwmState, wvfFreq, wvfAsked>>

(* startWaveform() after _stopPWM(): is the waveform running?              *)
WvfStart ==
    LET pin == wvfJob.pin IN
    /\ WvfAt("start", "no")
    /\ IF pin \in wvfReg.enabled
       THEN WvfWait("change") /\ UNCHANGED <<wvfReg, wvfWave>>
       ELSE /\ wvfWave' = [wvfWave EXCEPT ![pin].desired = wvfJob.arg]
            /\ wvfReg' = WvfInitTimer([wvfReg EXCEPT !.toEnable = @ \cup {pin}])
            /\ WvfWait("enable")
    /\ UNCHANGED <<pwmState, wvfFreq, wvfAsked>>

(* It is, and no change of any waveform is waiting: this one is left for   *)
(* the NMI, which has waveformToChange as the last of three writes.        *)
WvfChange ==
    /\ WvfAt("start", "change")
    /\ wvfReg.toChange = {}
    /\ wvfReg' = [wvfReg EXCEPT !.new = wvfJob.arg, !.toChange = {wvfJob.pin}]
    /\ WvfReturn
    /\ UNCHANGED <<wvfWave, pwmState, wvfFreq, wvfAsked>>

WvfEnabled ==
    /\ WvfAt("start", "enable")
    /\ wvfReg.toEnable = {}
    /\ WvfReturn
    /\ UNCHANGED <<wvfReg, wvfWave, pwmState, wvfFreq, wvfAsked>>

-----------------------------------------------------------------------------
(* timer1Interrupt().  An interrupt first takes the requests, then does    *)
(* what is due: one action for each thing it may do.                       *)

(* The record of pins that generate nothing any more; the PWM list may     *)
(* still have an entry for them.                                           *)
WvfForget(pins) ==
    [p \in WvfPins |->
       IF p \notin pins THEN wvfWave[p]
       ELSE [desired |-> IF p \in ToSet(pwmState.pin) THEN wvfWave[p].desired ELSE WvfNoWave,
             expires |-> FALSE]]

WvfIsrRequests ==
    /\ wvfReg.running
    /\ wvfReg.toEnable # {} \/ wvfReg.toDisable # {}
    /\ wvfReg' = [wvfReg EXCEPT !.enabled = (@ \ wvfReg.toDisable) \cup wvfReg.toEnable,
                                !.state = @ \ (wvfReg.toEnable \cup wvfReg.toDisable),
                                !.toEnable = {}, !.toDisable = {}]
    /\ wvfWave' = WvfForget(wvfReg.toDisable)
    /\ UNCHANGED <<pwmState, wvfFreq, wvfJob, wvfAsked>>

WvfIsr == wvfReg.running /\ wvfReg.toEnable = {} /\ wvfReg.toDisable = {}

(* A PWM period begins, with the list of the mailbox if there is one.  It  *)
(* begins at once when no PWM is active.                                   *)
WvfIsrPwm ==
    /\ WvfIsr
    /\ pwmState.update.full
    /\ pwmState' = [mask |-> pwmState.update.mask, pin |-> pwmState.update.pin,
                    delta |-> pwmState.update.delta, update |-> WvfNoUpdate]
    /\ wvfWave' = [p \in WvfPins |->
            IF p \in ToSet(pwmState.pin) \ (ToSet(pwmState.update.pin) \cup wvfReg.enabled)
            THEN [wvfWave[p] EXCEPT !.desired = WvfNoWave] ELSE wvfWave[p]]
    /\ UNCHANGED <<wvfReg, wvfFreq, wvfJob, wvfAsked>>

(* The sketch has yet to start the waveform of the pin again.              *)
WvfRestarting(pin) ==
    /\ wvfJob.todo # <<>> /\ wvfJob.pin = pin
    /\ \E i \in DOMAIN wvfJob.todo : wvfJob.todo[i] = "start"
    /\ wvfJob.wait # "enable"

(* A waveform ends; without WvfShortRuns not while the sketch asks for a   *)
(* change of it, nor before the change is made.                            *)
WvfIsrExpire(pin) ==
    /\ WvfIsr
    /\ pin \in wvfReg.enabled /\ wvfWave[pin].expires
    /\ WvfShortRuns \/ (pin \notin wvfReg.toChange /\ ~(WvfAt("start", "change") /\ wvfJob.pin = pin))
    /\ wvfReg' = [wvfReg EXCEPT !.enabled = @ \ {pin}, !.state = @ \ {pin}]
    /\ wvfWave' = IF WvfRestarting(pin) THEN wvfWave ELSE WvfForget({pin})
    /\ wvfAsked' = [wvfAsked EXCEPT ![pin] =
                       IF @[1] = "pwm" \/ WvfRestarting(pin) THEN @ ELSE WvfOff]
    /\ UNCHANGED <<pwmState, wvfFreq, wvfJob>>

(* An edge; a change is made at a rising one.                              *)
WvfIsrEdge(pin) ==
    LET rising  == pin \notin wvfReg.state
        changes == rising /\ pin \in wvfReg.toChange
    IN  /\ WvfIsr
        /\ pin \in wvfReg.enabled
        /\ wvfReg' = [wvfReg EXCEPT !.state = IF rising THEN @ \cup {pin} ELSE @ \ {pin},
                                    !.toChange = IF changes THEN {} ELSE @,
                                    !.new = IF changes THEN WvfNoWave ELSE @]
        /\ wvfWave' = IF changes THEN [wvfWave EXCEPT ![pin].desired = wvfReg.new] ELSE wvfWave
        /\ UNCHANGED <<pwmState, wvfFreq, wvfJob, wvfAsked>>

-----------------------------------------------------------------------------
WvfCont ==
    \/ WvfStopPWM \/ WvfStopWaveform \/ WvfStopped \/ WvfSetPWM \/ WvfSetFreq
    \/ WvfStart \/ WvfChange \/ WvfEnabled
    \/ \E f \in {"stopPWM", "setPWM", "setFreq"} : WvfNotified(f)

WvfNext ==
    \/ \E pin \in WvfPins :
         \/ \E wave \in WvfWaves[pin], expires \in BOOLEAN : WvfStartWaveform(pin, wave, expires)
         \/ WvfStop(pin)
         \/ WvfDigitalWrite(pin)
         \/ \E duty \in WvfDuties[pin] : WvfAnalogWrite(pin, duty)
         \/ WvfIsrExpire(pin)
         \/ WvfIsrEdge(pin)
    \/ \E freq \in WvfFreqs : WvfAnalogWriteFreq(freq)
    \/ \E on \in BOOLEAN : WvfSetTimer1Callback(on)
    \/ WvfCont
    \/ WvfIsrRequests
    \/ WvfIsrPwm

(* What the sketch may wait for.                                           *)
WvfIsrTakes ==
    WvfIsrRequests \/ WvfIsrPwm \/ \E pin \in wvfReg.toChange : WvfIsrEdge(pin)

(* The sketch runs; the timer fires again and again while it runs, and     *)
(* edges and periods fall due.                                             *)
WvfFairness == WF_wvfVars(WvfCont) /\ WF_wvfVars(WvfIsrTakes)

WvfSpec == WvfInit /\ [][WvfNext]_wvfVars /\ WvfFairness

-----------------------------------------------------------------------------
(* Properties                                                              *)

(* What the wave generated on a pin is: the one that runs, or the change   *)
(* that it will be.                                                        *)
WvfGenerated(pin) ==
    IF pin \in pwmState.mask THEN <<"pwm", wvfWave[pin].desired>>
    ELSE IF pin \notin wvfReg.enabled THEN WvfOff
    ELSE <<"wave", IF pin \in wvfReg.toChange THEN wvfReg.new ELSE wvfWave[pin].desired>>

(* After each call every pin, not only the pin of the call, does what was  *)
(* last asked for it: a stopped pin is driven by neither generator, a PWM  *)
(* pin not by both, a frequency change or a full list disturbs nobody, and *)
(* the timer runs if anything needs it (all functions of the file).  A     *)
(* duty for which the code computes no edge inside the period asks for a   *)
(* level, as in _setPWM().                                                 *)
WvfAsRequested ==
    /\ wvfJob.todo = <<>> =>
         /\ \A pin \in WvfPins : WvfGenerated(pin) = wvfAsked[pin]
         /\ pwmState.mask \cap wvfReg.enabled = {}
    /\ wvfReg.enabled # {} \/ pwmState.pin # <<>> \/ wvfReg.cb => wvfReg.running

(* The edge of a duty, as far as the product is not too large for it.      *)
WvfDropsAt(at, period, duty) ==
    period * duty[1] < WvfWord => at = WvfClipped(period, (period * duty[1]) \div duty[2])

(* The list the NMI walks is sound at every moment: the cycles add up to   *)
(* the period ("sum(all deltas) == PWM period clock cycles", line 121),    *)
(* the last ones are not 0, so that the walk over entries with the same    *)
(* edge stops, it has at most maxPWMs entries, and every pin drops at an   *)
(* edge inside the period, which is the one of its duty if the product of  *)
(* period and val fits in 32 bits (_addPWMtoList(), _cleanAndRemovePWM()). *)
(* It does not for every range that analogWriteRange() allows: at 1 kHz    *)
(* and 80 MHz it wraps for val > 53687, and the pin drops too early.       *)
WvfPwmList ==
    LET n == Len(pwmState.pin)
        edge(i) == SumTo(pwmState.delta, i)
    IN  /\ n <= maxPWMs
        /\ pwmState.mask \subseteq ToSet(pwmState.pin)
        /\ n > 0 => /\ Len(pwmState.delta) = n + 1
                    /\ pwmState.delta[n + 1] > 0
                    /\ wvfJob.todo = <<>> =>
                         /\ edge(n + 1) = wvfFreq.period
                         /\ \A i \in 1..n : pwmState.pin[i] \in pwmState.mask =>
                              /\ edge(i) \in 1..(wvfFreq.period - 1)
                              /\ WvfDropsAt(edge(i), wvfFreq.period, wvfWave[pwmState.pin[i]].desired)

(* Every call returns: whatever it waits for, the NMI does.                *)
WvfReturns == wvfJob.todo # <<>> ~> wvfJob.todo = <<>>
=============================================================================
