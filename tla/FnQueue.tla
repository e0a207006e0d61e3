------------------------------ MODULE FnQueue ------------------------------
(***************************************************************************)
(* What schedule_function() and run_scheduled_functions() promise together *)
(* (Schedule.h): a bounded FIFO of functions, each of which is called once *)
(* and, until its call has returned, still occupies its place.  A refusal  *)
(* for want of room is only given when MaxCount functions are waiting.     *)
(***************************************************************************)
EXTENDS Naturals, Sequences

CONSTANTS Fns,        \* the functions that can be scheduled
          NoFn,       \* no function is being called
          MaxCount    \* SCHEDULED_FN_MAX_COUNT

VARIABLES pending,    \* functions accepted and not yet finished, oldest first
          calling,    \* the function being called, or NoFn
          verdict     \* why the last schedule_function() returned as it did

vars == <<pending, calling, verdict>>

Init == pending = <<>> /\ calling = NoFn /\ verdict = "accepted"

Accept(f) ==
  /\ Len(pending) < MaxCount
  /\ pending' = Append(pending, f)
  /\ verdict' = "accepted"
  /\ UNCHANGED calling

RefuseFull ==
  /\ Len(pending) = MaxCount
  /\ verdict' = "full"
  /\ UNCHANGED <<pending, calling>>

RefuseNoMemory ==
  /\ Len(pending) < MaxCount
  /\ verdict' = "no_memory"
  /\ UNCHANGED <<pending, calling>>

Call ==
  /\ calling = NoFn
  /\ pending # <<>>
  /\ calling' = Head(pending)
  /\ UNCHANGED <<pending, verdict>>

Return ==
  /\ calling # NoFn
  /\ pending' = Tail(pending)
  /\ calling' = NoFn
  /\ UNCHANGED verdict

Next == (\E f \in Fns : Accept(f)) \/ RefuseFull \/ RefuseNoMemory \/ Call \/ Return

SafeSpec == Init /\ [][Next]_vars

Spec == SafeSpec /\ WF_vars(Call) /\ WF_vars(Return)
=============================================================================
