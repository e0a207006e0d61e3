----------------------------- MODULE DnsLookup ------------------------------
(***************************************************************************)
(* hostByNameImpl() and _dns_found_callback() of                           *)
(* libraries/ESP8266WiFi/src/ESP8266WiFiGeneric.cpp.  The result of a      *)
(* lookup is delivered into a heap object that the caller owns; when the   *)
(* caller gives up waiting it hands the object over to the callback, which *)
(* may come any time later, or find that the answer came in between.       *)
(*                                                                         *)
(* lwIP's resolver is external: every request that is in progress is       *)
(* answered once, with an address or without.                              *)
(***************************************************************************)
EXTENDS Naturals, FiniteSets

CONSTANTS
    Objs,        \* addresses the heap can give to a _dns_found_result
    Hosts,       \* names that are looked up
    TableSize    \* lwIP's DNS_TABLE_SIZE: requests in progress

ASSUME TableAssumption == TableSize \in Nat \ {0}

VARIABLES
    heap,        \* the live objects: [done, addr], by address
    requests,    \* lwIP: the requests in progress, [obj, host]
    caller,      \* hostByNameImpl(): [pc, obj, host, err, result]
    badAccess    \* an access went to freed memory

vars == <<heap, requests, caller, badAccess>>

None == "none"

NoCaller == [pc |-> "idle", obj |-> None, host |-> None, err |-> "none", result |-> None]

TypeOK ==
    /\ DOMAIN heap \subseteq Objs
    /\ heap \in [DOMAIN heap -> [done: BOOLEAN, addr: Hosts \cup {None}]]
    /\ requests \subseteq [obj: Objs, host: Hosts]
    /\ Cardinality(requests) <= TableSize
    /\ caller.pc \in {"idle", "waiting"}

Init ==
    /\ heap = [o \in {} |-> None]
    /\ requests = {}
    /\ caller = NoCaller
    /\ badAccess = FALSE

Free(o) == [p \in DOMAIN heap \ {o} |-> heap[p]]

New(o) == [p \in DOMAIN heap \cup {o} |->
             IF p = o THEN [done |-> FALSE, addr |-> None] ELSE heap[p]]

Write(o, f) == [heap EXCEPT ![o] = f]

Done(h, e, a) == [pc |-> "idle", obj |-> None, host |-> h, err |-> e, result |-> a]

-----------------------------------------------------------------------------
\* dns_gethostbyname_addrtype() knows the address or has no room: the
\* unique_ptr frees the object it never used.
LookupAtOnce ==
    /\ caller.pc = "idle"
    /\ \E h \in Hosts : \/ caller' = Done(h, "ok", h)
                        \/ caller' = Done(h, "mem", None)
    /\ UNCHANGED <<heap, requests, badAccess>>

TableHasRoom == Cardinality(requests) < TableSize

LookupInProgress ==
    /\ caller.pc = "idle" /\ TableHasRoom
    /\ \E h \in Hosts, o \in Objs \ DOMAIN heap :
          /\ heap' = New(o)
          /\ requests' = requests \cup {[obj |-> o, host |-> h]}
          /\ caller' = [NoCaller EXCEPT !.pc = "waiting", !.obj = o, !.host = h]
    /\ UNCHANGED badAccess

Live(o) == o \in DOMAIN heap

\* esp_delay() returned because the callback set done.
LookupAnswered ==
    /\ caller.pc = "waiting" /\ Live(caller.obj) /\ heap[caller.obj].done
    /\ LET a == heap[caller.obj].addr
       IN caller' = Done(caller.host, IF a # None THEN "ok" ELSE "no response", a)
    /\ heap' = Free(caller.obj)
    /\ UNCHANGED <<requests, badAccess>>

HandOver_Freed(o) == Free(o)

\* The time is up: done tells the callback that the object is its to delete,
\* and release() keeps the unique_ptr from doing it.
HandOver(o) == Write(o, [heap[o] EXCEPT !.done = TRUE])

LookupTimeout ==
    /\ caller.pc = "waiting" /\ Live(caller.obj) /\ ~heap[caller.obj].done
    /\ heap' = HandOver(caller.obj)
    /\ caller' = Done(caller.host, "timeout", None)
    /\ UNCHANGED <<requests, badAccess>>

Late_Ignored(o) == heap

\* The caller has left: the object is the callback's to delete.
Late(o) == Free(o)

Delivered(o, h) == Write(o, [done |-> TRUE, addr |-> h])

\* _dns_found_callback(), in the SYS task.
DnsFound(r) ==
    /\ r \in requests
    /\ \E a \in {r.host, None} :
        /\ requests' = requests \ {r}
        /\ badAccess' = (badAccess \/ ~Live(r.obj))
        /\ heap' = IF ~Live(r.obj) THEN heap
                   ELSE IF heap[r.obj].done THEN Late(r.obj)
                   ELSE Delivered(r.obj, a)
        /\ UNCHANGED caller

Next ==
    \/ LookupAtOnce \/ LookupInProgress \/ LookupAnswered \/ LookupTimeout
    \/ \E r \in requests : DnsFound(r)

Spec == Init /\ [][Next]_vars

\* esp_delay() has a time limit; lwIP retries a request a few times and then
\* reports that there is no address.
DnsFairness ==
    /\ WF_vars(LookupAnswered \/ LookupTimeout)
    /\ \A r \in [obj: Objs, host: Hosts] : WF_vars(DnsFound(r))

-----------------------------------------------------------------------------
(* Properties *)

\* Neither the caller nor a late callback touches an object after it was
\* deleted, and the callback never deletes what the caller still owns.
NoBadAccess == ~badAccess /\ (caller.pc = "waiting" => Live(caller.obj))

\* Nothing is forgotten: an object exists as long as its owner does, which
\* is the waiting caller or the request it handed the object to.
NoLeak ==
    DOMAIN heap = {r.obj : r \in requests}
                    \cup (IF caller.pc = "waiting" THEN {caller.obj} ELSE {})

\* Exactly one of the caller and the callback deletes a result object, and
\* nobody uses it afterwards, whichever of time-out and answer comes first.
Ownership == NoBadAccess /\ NoLeak

\* The address that hostByName() returns belongs to the name it was asked,
\* even if the answer to an earlier, abandoned lookup arrives meanwhile.
OwnAnswer == caller.result # None => caller.result = caller.host

\* The memory of every lookup is given back, whether its caller was answered
\* or gave up, and so no caller waits for ever.
MemoryReturns == \A o \in Objs : Live(o) ~> ~Live(o)

-----------------------------------------------------------------------------
(* The inductive invariant *)

\* Two requests never share an object, and the waiting caller's request, while
\* it lasts, is for the caller's name; afterwards the answer is in the object.
RequestsOK ==
    /\ IsFiniteSet(requests)
    /\ \A r, q \in requests : r.obj = q.obj => r = q
    /\ \A r \in requests :
          /\ Live(r.obj)
          /\ caller.pc = "waiting" /\ r.obj = caller.obj =>
                r.host = caller.host /\ ~heap[r.obj].done
          /\ caller.pc # "waiting" \/ r.obj # caller.obj => heap[r.obj].done

CallerOK ==
    caller.pc = "waiting" =>
        /\ Live(caller.obj)
        /\ heap[caller.obj].addr \in {None, caller.host}
        /\ ~heap[caller.obj].done => \E r \in requests : r.obj = caller.obj

Inv == TypeOK /\ RequestsOK /\ CallerOK /\ NoLeak /\ OwnAnswer /\ NoBadAccess
=============================================================================
