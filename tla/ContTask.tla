------------------------------ MODULE ContTask ------------------------------
(***************************************************************************)
(* The Arduino task: one cooperative stack (CONT) that the SDK's event     *)
(* loop (SYS) runs whenever the task's one-place event queue holds an      *)
(* event (cores/esp8266/core_esp8266_main.cpp, coredecls.h, and delay() in *)
(* core_esp8266_wiring.cpp).                                               *)
(*                                                                         *)
(* CONT gives the processor back in cont_suspend(); what wakes it again is *)
(* an event posted by esp_schedule(), which the code that suspends posts   *)
(* itself (yield), or leaves to the shared delay_timer (delay) or to a     *)
(* callback (esp_suspend with a condition).  Interrupts and callbacks may  *)
(* post at any time, so every wait can be woken early.                     *)
(*                                                                         *)
(* Time is millis(), a counter modulo Wrap (2^32 in the code).  elapsed is *)
(* a history variable: the milliseconds since the current wait began.      *)
(***************************************************************************)
EXTENDS Integers

CONSTANTS Wrap,       \* number of values of millis(): 2^32
          MaxMs,      \* bound: longest timeout considered
          QueueSize,  \* LOOP_QUEUE_SIZE
          Grains      \* what compute_scheduled_recurrent_grain() may return

ASSUME WrapAssumption == Wrap \in Nat /\ MaxMs \in Nat /\ MaxMs < Wrap
ASSUME QueueAssumption == QueueSize \in Nat \ {0}
ASSUME GrainAssumption == Grains \subseteq Nat

VARIABLES cont,                    \* g_pcont: "parked" before and after loop_wrapper()
          pc, op,                  \* where CONT is, and the call it is in
          start, timeout, intvl,   \* arguments of esp_try_delay()
          blocked,                 \* what the condition of the current wait returns
          posted,                  \* events in s_loop_queue
          armed, left,             \* delay_timer, and the time it has left
          now,                     \* millis()
          elapsed                  \* history

wait == <<op, start, timeout, intvl>>
timer == <<armed, left>>
time == <<now, elapsed>>
vars == <<cont, pc, wait, blocked, posted, timer, time>>

Millis == 0..MaxMs
Waiting == op \in {"delay", "wait"}

(* uint32_t subtraction. *)
Sub(a, b) == IF a >= b THEN a - b ELSE a - b + Wrap

(* g = std::gcd(a, b), with gcd(0, b) = b. *)
Divides(d, n) == \E k \in 0..n : d * k = n
IsGcd(g, a, b) ==
  /\ Divides(g, a) /\ Divides(g, b)
  /\ \A d \in 1..a + b : Divides(d, a) /\ Divides(d, b) => Divides(d, g)

(* init_done() posts the first event. *)
Init ==
  /\ cont = "parked" /\ pc = "user" /\ op = "none"
  /\ start = 0 /\ timeout = 0 /\ intvl = 0
  /\ blocked = TRUE
  /\ posted = 1
  /\ armed = FALSE /\ left = 0
  /\ now \in 0..Wrap - 1 /\ elapsed = 0

(* ets_post(): an event that finds the queue full is dropped. *)
Posted == IF posted < QueueSize THEN posted + 1 ELSE posted
EspSchedule == posted' = Posted

----------------------------------------------------------------------------
(* SYS: loop_task() takes an event and runs CONT until it gives way. *)
LoopTask ==
  /\ cont # "running"
  /\ posted > 0
  /\ posted' = posted - 1
  /\ cont' = "running"
  /\ UNCHANGED <<pc, wait, blocked, timer, time>>

(* SYS: delay_timer is due, delay_end() schedules CONT. *)
DelayEnd ==
  /\ cont # "running"
  /\ armed /\ left = 0
  /\ armed' = FALSE
  /\ EspSchedule
  /\ UNCHANGED <<cont, pc, wait, blocked, left, time>>

(* An interrupt or a callback calls esp_schedule(), or esp_yield(), which  *)
(* only schedules outside CONT.                                            *)
SpuriousWake ==
  /\ EspSchedule
  /\ UNCHANGED <<cont, pc, wait, blocked, timer, time>>

(* The callback CONT waits for (_scanDone(), _dns_found_callback(),         *)
(* ClientContext::_connected() ...): it makes the condition false and wakes.  *)
CallbackWakes_Lost == UNCHANGED posted
CallbackWakes == EspSchedule
Complete ==
  /\ op \in {"wait", "suspend"} /\ blocked
  /\ blocked' = FALSE
  /\ CallbackWakes
  /\ UNCHANGED <<cont, pc, wait, timer, time>>

(* A millisecond passes.  CONT looks at millis() at least once in Wrap.    *)
Tick ==
  /\ Waiting => elapsed < Wrap - 1
  /\ now' = IF now = Wrap - 1 THEN 0 ELSE now + 1
  /\ elapsed' = IF Waiting THEN elapsed + 1 ELSE elapsed
  /\ left' = IF armed /\ left > 0 THEN left - 1 ELSE left
  /\ UNCHANGED <<cont, pc, wait, blocked, posted, armed>>

----------------------------------------------------------------------------
(* CONT.  cont_suspend() returns to loop_task(); CONT continues at "woken".*)
Suspend == cont' = "suspended" /\ pc' = "woken"
InUser == cont = "running" /\ pc = "user"
InTry == cont = "running" /\ pc = "try"
InWoken == cont = "running" /\ pc = "woken"
Return ==
  /\ pc' = "user" /\ op' = "none"
  /\ start' = 0 /\ timeout' = 0 /\ intvl' = 0
  /\ UNCHANGED cont

(* The end of loop_wrapper(). *)
LoopReturns ==
  /\ InUser
  /\ cont' = "parked"
  /\ EspSchedule
  /\ UNCHANGED <<pc, wait, blocked, timer, time>>

(* yield(), and optimistic_yield() when its interval has passed. *)
YieldWakes_NoEvent == UNCHANGED posted
YieldWakes == EspSchedule
Yield ==
  /\ InUser
  /\ op' = "yield"
  /\ YieldWakes
  /\ Suspend
  /\ UNCHANGED <<start, timeout, intvl, blocked, timer, time>>

(* esp_delay(timeout_ms, blocked, intvl_ms): delay(ms) is the one whose    *)
(* condition is always true and whose interval is the timeout.             *)
StartWait(kind, ms, every) ==
  /\ InUser
  /\ op' = kind /\ start' = now /\ timeout' = ms /\ intvl' = every
  /\ blocked' = TRUE
  /\ elapsed' = 0
  /\ pc' = "try"
  /\ UNCHANGED <<cont, posted, timer, now>>

(* esp_suspend(blocked). *)
StartSuspend ==
  /\ InUser
  /\ op' = "suspend"
  /\ blocked' = TRUE
  /\ Suspend
  /\ UNCHANGED <<start, timeout, intvl, posted, timer, time>>

(* esp_try_delay(): a zero timeout only yields, *)
TryZero ==
  /\ InTry /\ timeout = 0
  /\ op' = "yield"
  /\ EspSchedule
  /\ Suspend
  /\ UNCHANGED <<start, timeout, intvl, blocked, timer, time>>

Expired_Absolute == now >= Sub(start, Wrap - timeout)
Expired == Sub(now, start) >= timeout

(* an expired one returns, *)
TryExpired ==
  /\ InTry /\ timeout # 0
  /\ Expired
  /\ Return
  /\ UNCHANGED <<blocked, posted, timer, time>>

(* and otherwise __esp_delay() sleeps for the rest or for the grain. *)
SleepMs(g) ==
  LET rest == timeout - Sub(now, start)
  IN  IF g > 0 /\ g < rest THEN g ELSE rest

EspDelay(ms) ==
  IF ms # 0 THEN armed' = TRUE /\ left' = ms /\ UNCHANGED posted
            ELSE EspSchedule /\ UNCHANGED timer

TrySleep ==
  /\ InTry /\ timeout # 0
  /\ ~Expired
  /\ \E grain \in Grains : \E g \in 0..intvl + grain :
       IsGcd(g, intvl, grain) /\ EspDelay(SleepMs(g))
  /\ Suspend
  /\ UNCHANGED <<wait, blocked, time>>

(* After cont_suspend(), run_scheduled_recurrent_functions() may itself    *)
(* schedule and suspend CONT.                                              *)
RecurrentYield ==
  /\ InWoken
  /\ EspSchedule
  /\ Suspend
  /\ UNCHANGED <<wait, blocked, timer, time>>

(* yield() returns; __esp_delay() disarms the timer and the condition is   *)
(* asked; esp_suspend(blocked) suspends again while the condition holds.   *)
YieldReturns ==
  /\ InWoken /\ op = "yield"
  /\ Return
  /\ UNCHANGED <<blocked, posted, timer, time>>

Disarm_Forgotten == UNCHANGED armed
Disarm == armed' = FALSE
DelayWakes ==
  /\ InWoken /\ Waiting
  /\ Disarm
  /\ IF blocked THEN pc' = "try" /\ UNCHANGED <<cont, wait>> ELSE Return
  /\ UNCHANGED <<blocked, posted, left, time>>

SuspendWakes ==
  /\ InWoken /\ op = "suspend"
  /\ IF blocked THEN Suspend /\ UNCHANGED wait ELSE Return
  /\ UNCHANGED <<blocked, posted, timer, time>>

----------------------------------------------------------------------------
Sys == LoopTask \/ DelayEnd
User == LoopReturns \/ Yield \/ StartSuspend
          \/ (\E ms \in Millis : StartWait("delay", ms, ms))
          \/ (\E ms, every \in Millis : StartWait("wait", ms, every))
Try == TryZero \/ TryExpired \/ TrySleep
Wake == YieldReturns \/ DelayWakes \/ SuspendWakes

Next == Sys \/ User \/ Try \/ RecurrentYield \/ Wake \/ SpuriousWake \/ Complete \/ Tick

Spec == Init /\ [][Next]_vars

(* The SDK dispatches events and timers and time passes; CONT's own code   *)
(* makes progress; a traversal of the recurrent functions is finite, so    *)
(* CONT does not yield from it for ever.  Nothing is assumed of the user's *)
(* calls, of interrupts or of the callback a condition waits for.          *)
FairSpec == Spec /\ WF_vars(LoopTask) /\ WF_vars(DelayEnd) /\ WF_vars(Tick)
                 /\ WF_vars(Try) /\ SF_vars(Wake)

----------------------------------------------------------------------------
TypeOK ==
  /\ cont \in {"parked", "running", "suspended"}
  /\ pc \in {"user", "try", "woken"}
  /\ op \in {"none", "yield", "delay", "wait", "suspend"}
  /\ start \in 0..Wrap - 1 /\ timeout \in Millis /\ intvl \in Millis
  /\ blocked \in BOOLEAN
  /\ posted \in 0..QueueSize
  /\ armed \in BOOLEAN /\ left \in Millis
  /\ now \in 0..Wrap - 1 /\ elapsed \in 0..Wrap - 1

(* No wakeup is lost: whenever CONT does not run there is an event that    *)
(* will run it, or the delay timer that will post one, unless CONT is in   *)
(* esp_suspend(blocked) and its condition is still true.                   *)
NoLostWakeup ==
  cont # "running" /\ ~(op = "suspend" /\ blocked) => posted > 0 \/ armed

(* The one delay_timer is only armed on behalf of a delay that is still    *)
(* waiting, so it never wakes a later, unrelated wait.                     *)
TimerHasOwner == armed => Waiting

(* delay() never returns early, however often CONT is woken before its     *)
(* time and wherever millis() wraps.                                       *)
DelayNotEarly == [][op = "delay" /\ op' # "delay" => elapsed >= timeout]_vars

(* delay() returns, and a wait returns once its condition is false, even   *)
(* when the callback ran before CONT was suspended or while another event  *)
(* was in the queue.                                                       *)
WaitsEnd ==
  /\ op = "delay" ~> op # "delay"
  /\ (op \in {"wait", "suspend"} /\ ~blocked) ~> op = "none"
=============================================================================
