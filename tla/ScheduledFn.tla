---------------------------- MODULE ScheduledFn ----------------------------
(***************************************************************************)
(* The one-shot scheduled functions of cores/esp8266/Schedule.cpp.         *)
(*                                                                         *)
(* schedule_function() is called from interrupt handlers, from SYS and     *)
(* from CONT, and runs with interrupts locked: it is one action, enabled   *)
(* at every program point of run_scheduled_functions(), which runs in CONT *)
(* and locks interrupts only to unlink a finished node.  A node is a       *)
(* number 1..MaxCount in the order of allocation; Null is nullptr.         *)
(*                                                                         *)
(* order, spare and fresh are history variables: the nodes that were       *)
(* queued and not yet unlinked, the nodes that were recycled and not yet   *)
(* reused, and the nodes that were queued since the current run began.     *)
(***************************************************************************)
EXTENDS Naturals, Sequences

CONSTANTS Fns,        \* the functions that can be scheduled
          NoFn,       \* an empty std::function
          MaxCount    \* SCHEDULED_FN_MAX_COUNT

ASSUME MaxCountAssumption == MaxCount \in Nat \ {0}
ASSUME NoFnAssumption == NoFn \notin Fns

VARIABLES sFirst, sLast, sUnused, sCount,  \* the static variables
          mNext, mFunc,                    \* the fields of every node
          pc, stop, done,                  \* run_scheduled_functions()
          verdict,                         \* outcome of the last schedule_function()
          order, spare, fresh              \* history

lists == <<sFirst, sLast, sUnused, sCount, mNext, mFunc>>
run == <<pc, stop, done>>
history == <<order, spare, fresh>>
vars == <<lists, run, verdict, history>>

Null == 0
Nodes == 1..MaxCount
Points == {"idle", "test", "call"}

----------------------------------------------------------------------------
Init ==
  /\ sFirst = Null /\ sLast = Null /\ sUnused = Null /\ sCount = 0
  /\ mNext = [n \in Nodes |-> Null]
  /\ mFunc = [n \in Nodes |-> NoFn]
  /\ pc = "idle" /\ stop = Null /\ done = FALSE
  /\ verdict = "accepted"
  /\ order = <<>> /\ spare = <<>> /\ fresh = {}

(* get_fn_unsafe(): count not too high. *)
MayAllocate == sCount < MaxCount

(* The part of schedule_function() after get_fn_unsafe() returned item. *)
Link(item, f) ==
  /\ mFunc' = [mFunc EXCEPT ![item] = f]
  /\ mNext' = [n \in Nodes |-> IF n = item THEN Null
                               ELSE IF sFirst # Null /\ n = sLast THEN item
                               ELSE mNext[n]]
  /\ sFirst' = IF sFirst # Null THEN sFirst ELSE item
  /\ sLast' = item
  /\ order' = Append(order, item)
  /\ fresh' = IF pc = "idle" THEN {} ELSE fresh \cup {item}
  /\ verdict' = "accepted"
  /\ UNCHANGED run

(* get_fn_unsafe() takes the first node of the list of unused nodes. *)
ScheduleReused(f) ==
  /\ sUnused # Null
  /\ sUnused' = mNext[sUnused]
  /\ spare' = Tail(spare)
  /\ UNCHANGED sCount
  /\ Link(sUnused, f)

(* get_fn_unsafe() allocates a node. *)
ScheduleAllocated(f) ==
  /\ sUnused = Null
  /\ MayAllocate
  /\ sCount' = sCount + 1
  /\ UNCHANGED <<sUnused, spare>>
  /\ Link(sCount + 1, f)

(* get_fn_unsafe() returns nullptr: the limit is reached, or new fails. *)
ScheduleRefused ==
  /\ sUnused = Null
  /\ verdict' = IF MayAllocate THEN "no_memory" ELSE "full"
  /\ UNCHANGED <<lists, run, history>>

Schedule(f) == ScheduleReused(f) \/ ScheduleAllocated(f) \/ ScheduleRefused

----------------------------------------------------------------------------
(* bool done = false; *)
DoneAtStart_Static == done
DoneAtStart == FALSE

(* auto stop = sLast; bool done = false; *)
RunStart ==
  /\ pc = "idle"
  /\ stop' = sLast
  /\ done' = DoneAtStart
  /\ pc' = "test"
  /\ fresh' = {}
  /\ UNCHANGED <<lists, verdict, order, spare>>

(* while (sFirst && !done): leave the run, *)
RunEnd ==
  /\ pc = "test"
  /\ sFirst = Null \/ done
  /\ pc' = "idle"
  /\ stop' = Null
  /\ fresh' = {}
  /\ UNCHANGED <<lists, done, verdict, order, spare>>

(* done = sFirst == stop; *)
IsLast_Never == FALSE
IsLast == sFirst = stop

(* or note whether this is the last one and call it. *)
RunCall ==
  /\ pc = "test"
  /\ sFirst # Null /\ ~done
  /\ done' = IsLast
  /\ pc' = "call"
  /\ UNCHANGED <<lists, stop, verdict, history>>

(* if (sLast == sFirst) sLast = nullptr; *)
LastAfter_NotCleared == sLast
LastAfter == IF sLast = sFirst THEN Null ELSE sLast

(* sFirst = sFirst->mNext; before the node is recycled. *)
FirstAfter_Recycled == sUnused
FirstAfter == mNext[sFirst]

(* The call has returned: unlink and recycle the first node. *)
RunRecycle ==
  /\ pc = "call"
  /\ sLast' = LastAfter
  /\ sFirst' = FirstAfter
  /\ mFunc' = [mFunc EXCEPT ![sFirst] = NoFn]
  /\ mNext' = [mNext EXCEPT ![sFirst] = sUnused]
  /\ sUnused' = sFirst
  /\ pc' = "test"
  /\ order' = Tail(order)
  /\ spare' = <<sFirst>> \o spare
  /\ fresh' = fresh \ {sFirst}
  /\ UNCHANGED <<sCount, stop, done, verdict>>

Run == RunStart \/ RunEnd \/ RunCall \/ RunRecycle

Next == (\E f \in Fns : Schedule(f)) \/ Run

Spec == Init /\ [][Next]_vars

(* loop_wrapper() calls run_scheduled_functions() after every loop(), and  *)
(* nothing that schedules can disable a step of the run: weak fairness of  *)
(* the run is what a sketch whose loop() and functions return provides.    *)
FairSpec == Spec /\ WF_vars(Run)

----------------------------------------------------------------------------
TypeOK ==
  /\ sFirst \in Nodes \cup {Null} /\ sLast \in Nodes \cup {Null}
  /\ sUnused \in Nodes \cup {Null} /\ sCount \in 0..MaxCount
  /\ mNext \in [Nodes -> Nodes \cup {Null}]
  /\ mFunc \in [Nodes -> Fns \cup {NoFn}]
  /\ pc \in Points /\ stop \in Nodes \cup {Null} /\ done \in BOOLEAN
  /\ verdict \in {"accepted", "no_memory", "full"}
  /\ order \in Seq(Nodes) /\ spare \in Seq(Nodes) /\ fresh \subseteq Nodes

(* s is the list that starts at first and is linked by mNext. *)
Linked(s, first) ==
  /\ first = IF s = <<>> THEN Null ELSE s[1]
  /\ \A i \in 1..Len(s) : mNext[s[i]] = IF i = Len(s) THEN Null ELSE s[i + 1]

Distinct(s) == \A i, j \in 1..Len(s) : s[i] = s[j] => i = j

(* Every node that was allocated is on exactly one of the two lists. *)
NoNodeLost ==
  /\ Distinct(order) /\ Distinct(spare)
  /\ \A i \in 1..Len(order), j \in 1..Len(spare) : order[i] # spare[j]
  /\ \A i \in 1..Len(order) : order[i] <= sCount
  /\ \A i \in 1..Len(spare) : spare[i] <= sCount
  /\ Len(order) + Len(spare) = sCount

(* The two linked lists stay well formed whatever interrupts the run: the  *)
(* queue from sFirst to sLast holds the queued nodes in their order, each  *)
(* with its function, the unused list holds the others, and the node whose *)
(* function is being called is still at the head of the queue.             *)
ListsOK ==
  /\ Linked(order, sFirst)
  /\ sLast = IF order = <<>> THEN Null ELSE order[Len(order)]
  /\ \A i \in 1..Len(order) : mFunc[order[i]] \in Fns
  /\ Linked(spare, sUnused)
  /\ NoNodeLost
  /\ pc = "call" => order # <<>>

(* A run that found the queue non-empty calls only functions that were     *)
(* queued before it began ("prevent scheduling of new functions during     *)
(* this run"), whoever schedules during the run.                           *)
BoundedRun == (pc = "call" /\ stop # Null) => sFirst \notin fresh

(* A run that found the queue non-empty ends.                              *)
RunEnds == (pc # "idle" /\ stop # Null) ~> (pc = "idle")

(* Every queued node gets its call, and yet every run that found the queue *)
(* non-empty ends, even when interrupts and the functions it calls keep    *)
(* scheduling, so loop() is reached again (run_scheduled_functions()).     *)
EveryFnRuns ==
  /\ RunEnds
  /\ \A n \in Nodes : (\E i \in 1..Len(order) : order[i] = n)
                        ~> (pc = "call" /\ sFirst = n)

(* The linked lists implement the bounded FIFO of functions. *)
Queue == INSTANCE FnQueue WITH
  pending <- [i \in 1..Len(order) |-> mFunc[order[i]]],
  calling <- IF pc = "call" THEN mFunc[sFirst] ELSE NoFn

ImplementsQueue == Queue!Spec
=============================================================================
