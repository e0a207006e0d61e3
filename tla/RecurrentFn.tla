---------------------------- MODULE RecurrentFn ----------------------------
(***************************************************************************)
(* The recurrent scheduled functions of cores/esp8266/Schedule.cpp.        *)
(*                                                                         *)
(* schedule_recurrent_function_us() appends a node with interrupts locked, *)
(* from any context and so between any two steps of CONT.  CONT runs the   *)
(* list (run_scheduled_recurrent_functions(), from every yield) and        *)
(* computes the grain delay() sleeps by.  A function of the list that      *)
(* yields enters run_scheduled_recurrent_functions() again: stack holds    *)
(* one frame per activation, the last one being executed.                  *)
(*                                                                         *)
(* A node is an address of Nodes, free again once deleted; Null is         *)
(* nullptr.  Whether a function is due and what it returns is the          *)
(* environment's choice.  order (the nodes appended and not yet removed),  *)
(* todo (the nodes the outer run still has to look at) and late (a node    *)
(* was appended while the grain was being computed) are history.           *)
(***************************************************************************)
EXTENDS Naturals, Sequences

CONSTANTS MaxNodes,   \* bound: recurrent functions that fit in memory
          Intervals,  \* bound: the values of repeat_us
          MaxDepth    \* bound: nesting of run_scheduled_recurrent_functions()

ASSUME MaxNodesAssumption == MaxNodes \in Nat \ {0}
ASSUME IntervalsAssumption == Intervals \subseteq Nat
ASSUME MaxDepthAssumption == MaxDepth \in Nat \ {0}

VARIABLES rFirst, rLast,     \* the static variables
          mNext, timeout,    \* mNext and callNow.getTimeout() of every node
          fence,
          grain,             \* recurrent_max_grain_mS
          stack,             \* activations of run_scheduled_recurrent_functions()
          gpc, it, acc,      \* compute_scheduled_recurrent_grain()
          order, todo, late  \* history

list == <<rFirst, rLast, mNext, timeout, order>>
compute == <<gpc, it, acc>>
recVars == <<list, fence, grain, stack, compute, todo, late>>

Null == 0
Nodes == 1..MaxNodes
Live == {order[i] : i \in 1..Len(order)}

RecInit ==
  /\ rFirst = Null /\ rLast = Null
  /\ mNext = [n \in Nodes |-> Null] /\ timeout = [n \in Nodes |-> 0]
  /\ fence = FALSE
  /\ grain = 0
  /\ stack = <<>>
  /\ gpc = "idle" /\ it = Null /\ acc = 0
  /\ order = <<>> /\ todo = <<>> /\ late = FALSE

----------------------------------------------------------------------------
(* schedule_recurrent_function_us(): new, append, reset the grain. *)
ScheduleRecurrent(n, us) ==
  /\ n \notin Live
  /\ timeout' = [timeout EXCEPT ![n] = us]
  /\ mNext' = [m \in Nodes |-> IF m = n THEN Null ELSE IF m = rLast THEN n ELSE mNext[m]]
  /\ rFirst' = IF rLast # Null THEN rFirst ELSE n
  /\ rLast' = n
  /\ grain' = 0
  /\ order' = Append(order, n)
  /\ late' = (late \/ gpc = "sum")
  /\ UNCHANGED <<fence, stack, compute, todo>>

----------------------------------------------------------------------------
Top == stack[Len(stack)]
At(point) == stack # <<>> /\ Top.at = point
Replace(frame) == stack' = [stack EXCEPT ![Len(stack)] = frame]

(* CONT is outside the run, or in a function that yields. *)
MayEnter == gpc = "idle" /\ (stack = <<>> \/ At("call"))

(* if (fence) return; *)
FenceOpen_Ignored == TRUE
FenceOpen == ~fence

RunEnter ==
  /\ MayEnter
  /\ Len(stack) < MaxDepth
  /\ rFirst # Null
  /\ FenceOpen
  /\ fence' = TRUE
  /\ stack' = Append(stack, [at |-> "stop", current |-> rFirst, prev |-> Null,
                             stop |-> Null, done |-> FALSE])
  /\ UNCHANGED <<list, grain, compute, todo, late>>

(* auto stop = rLast; *)
RunStop ==
  /\ At("stop")
  /\ Replace([Top EXCEPT !.stop = rLast, !.at = "eval"])
  /\ todo' = IF Len(stack) = 1 THEN order ELSE todo
  /\ UNCHANGED <<list, fence, grain, compute, late>>

(* done = current == stop; *)
IsStop_Never(frame) == FALSE
IsStop(frame) == frame.current = frame.stop

Looked == todo' = IF Len(stack) = 1 /\ todo # <<>> THEN Tail(todo) ELSE todo

(* The function is due (its period has passed or its alarm says so). *)
RunDue ==
  /\ At("eval")
  /\ Replace([Top EXCEPT !.done = IsStop(Top), !.at = "call"])
  /\ Looked
  /\ UNCHANGED <<list, fence, grain, compute, late>>

Advance(frame) ==
  [frame EXCEPT !.prev = frame.current, !.current = mNext[frame.current], !.at = "loop"]

RunNotDue ==
  /\ At("eval")
  /\ Replace([Advance(Top) EXCEPT !.done = IsStop(Top)])
  /\ Looked
  /\ UNCHANGED <<list, fence, grain, compute, late>>

(* mFunc() returned true. *)
RunKeep ==
  /\ At("call")
  /\ Replace(Advance(Top))
  /\ UNCHANGED <<list, fence, grain, compute, todo, late>>

(* if (rLast == current) rLast = prev; *)
LastAfter(frame) == IF rLast = frame.current THEN frame.prev ELSE rLast

(* current = current->mNext; *)
CurrentAfter_Skips(frame) == LET n == mNext[frame.current]
                             IN  IF n = Null THEN Null ELSE mNext[n]
CurrentAfter(frame) == mNext[frame.current]

(* "grain needs to be recomputed" *)
GrainAfter_Kept == grain
GrainAfter == 0

(* The sequence s without its element n. *)
Without(s, n) ==
  LET p == CHOOSE i \in 1..Len(s) : s[i] = n
  IN  [i \in 1..Len(s) - 1 |-> IF i < p THEN s[i] ELSE s[i + 1]]

(* mFunc() returned false: unlink and delete, with interrupts locked. *)
RunRemove ==
  /\ At("call")
  /\ LET f == Top
         next == mNext[f.current]
     IN  /\ rLast' = LastAfter(f)
         /\ rFirst' = IF f.prev = Null THEN next ELSE rFirst
         /\ mNext' = [m \in Nodes |-> IF m = f.prev THEN next ELSE mNext[m]]
         /\ Replace([f EXCEPT !.current = CurrentAfter(f), !.at = "loop"])
         /\ order' = Without(order, f.current)
  /\ grain' = GrainAfter
  /\ UNCHANGED <<timeout, fence, compute, todo, late>>

(* After an optional cont_suspend(), while (current && !done). *)
RunLoop ==
  /\ At("loop")
  /\ Top.current # Null /\ ~Top.done
  /\ Replace([Top EXCEPT !.at = "eval"])
  /\ UNCHANGED <<list, fence, grain, compute, todo, late>>

RunExit ==
  /\ At("loop")
  /\ Top.current = Null \/ Top.done
  /\ fence' = FALSE
  /\ stack' = SubSeq(stack, 1, Len(stack) - 1)
  /\ UNCHANGED <<list, grain, compute, todo, late>>

----------------------------------------------------------------------------
(* std::gcd(), of a set: the common divisor that all others divide.  The   *)
(* gcd of numbers that are all 0 is 0.                                     *)
Divides(d, n) == IF d = 0 THEN n = 0 ELSE n % d = 0
CommonDivisor(d, S) == \A n \in S : Divides(d, n)
GcdOf(S) ==
  LET Candidates == {0} \cup UNION {0..n : n \in S}
  IN  CHOOSE g \in Candidates :
        /\ CommonDivisor(g, S)
        /\ \A d \in Candidates : CommonDivisor(d, S) => Divides(d, g)

(* Microseconds to milliseconds, rounded to the upper millis. *)
ToMillis(us) == IF us = 0 THEN 0 ELSE IF us <= 1000 THEN 1 ELSE (us + 999) \div 1000

(* compute_scheduled_recurrent_grain(), called by delay() outside a run.   *)
GrainStart ==
  /\ gpc = "idle" /\ stack = <<>>
  /\ grain = 0 /\ rFirst # Null
  /\ gpc' = "sum" /\ it' = mNext[rFirst] /\ acc' = timeout[rFirst]
  /\ late' = FALSE
  /\ UNCHANGED <<list, fence, grain, stack, todo>>

GrainNext ==
  /\ gpc = "sum" /\ it # Null
  /\ it' = mNext[it] /\ acc' = GcdOf({acc, timeout[it]})
  /\ UNCHANGED <<list, fence, grain, stack, gpc, todo, late>>

GrainStore ==
  /\ gpc = "sum" /\ it = Null
  /\ grain' = IF acc # 0 THEN ToMillis(acc) ELSE grain
  /\ gpc' = "idle" /\ acc' = 0
  /\ UNCHANGED <<list, fence, stack, it, todo, late>>

----------------------------------------------------------------------------
Schedule == \E n \in Nodes, us \in Intervals : ScheduleRecurrent(n, us)
Run == RunStop \/ RunDue \/ RunNotDue \/ RunKeep \/ RunRemove \/ RunLoop \/ RunExit
Compute == GrainStart \/ GrainNext \/ GrainStore

RecNext == Schedule \/ RunEnter \/ Run \/ Compute

RecSpec == RecInit /\ [][RecNext]_recVars

(* CONT runs on once it is in the run: functions return. *)
RecFairness == WF_recVars(Run)

----------------------------------------------------------------------------
Frame == [at : {"stop", "eval", "call", "loop"}, current : Nodes \cup {Null},
          prev : Nodes \cup {Null}, stop : Nodes \cup {Null}, done : BOOLEAN]

RecTypeOK ==
  /\ rFirst \in Nodes \cup {Null} /\ rLast \in Nodes \cup {Null}
  /\ mNext \in [Nodes -> Nodes \cup {Null}]
  /\ timeout \in [Nodes -> Intervals \cup {0}]
  /\ fence \in BOOLEAN
  /\ grain \in Nat /\ \E us \in Intervals \cup {0} : 1000 * grain < us + 1000
  /\ stack \in Seq(Frame)
  /\ gpc \in {"idle", "sum"} /\ it \in Nodes \cup {Null} /\ acc \in Nat
  /\ order \in Seq(Nodes) /\ todo \in Seq(Nodes) /\ late \in BOOLEAN

(* No activation holds a pointer to a deleted node, even if a recurrent    *)
(* function yields and so re-enters the run that would delete under it.    *)
NoDangling ==
  \A i \in 1..Len(stack) :
     stack[i].current \in Live \cup {Null} /\ stack[i].prev \in Live \cup {Null}

(* rFirst, mNext and rLast are the list of the functions that were         *)
(* scheduled and have not returned false, in the order of scheduling, and  *)
(* no activation of the run is left with a deleted node (the fence of      *)
(* run_scheduled_recurrent_functions(), its unlinking).                    *)
ListOK ==
  /\ RecTypeOK
  /\ NoDangling
  /\ rFirst = IF order = <<>> THEN Null ELSE order[1]
  /\ rLast = IF order = <<>> THEN Null ELSE order[Len(order)]
  /\ \A i \in 1..Len(order) :
       mNext[order[i]] = IF i = Len(order) THEN Null ELSE order[i + 1]

(* A run looks at each function that was in the list when it began exactly *)
(* once and in order, whichever of them it removes, and at no other.       *)
EachOnce ==
  /\ At("eval") /\ Len(stack) = 1 => todo # <<>> /\ Top.current = Head(todo)
  /\ At("loop") /\ Len(stack) = 1 /\ (Top.current = Null \/ Top.done) => todo = <<>>

(* A run ends although interrupts keep scheduling recurrent functions. *)
RunEnds == fence ~> ~fence

(* The period all functions of the list fit: the gcd of their intervals. *)
ListGrain == ToMillis(GcdOf({timeout[n] : n \in Live}))

(* The grain delay() sleeps by is 0 (to be recomputed) or that of the      *)
(* functions now in the list, if none was scheduled while it was computed. *)
GrainSound == grain # 0 /\ ~late => grain = ListGrain
=============================================================================
