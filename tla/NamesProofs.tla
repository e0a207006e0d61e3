----------------------------- MODULE NamesProofs -----------------------------
(***************************************************************************)
(* Proofs about names and addresses, for any number of boards, clients,    *)
(* names and requests, and any delays:                                     *)
(*                                                                         *)
(*   - DnsLookup: the ownership of a lookup's result object.  The argument *)
(*     is the invariant Inv of DnsLookup: an object has exactly one owner, *)
(*     done tells which, and the request of the waiting caller is for the  *)
(*     caller's own name.                                                  *)
(*   - MdnsResponder: with the three probes of the code no two boards hold *)
(*     the same name.                                                      *)
(*   - DhcpServer: an acknowledged address keeps its node, and a server    *)
(*     with a free address has one for everybody, whatever clients claim;  *)
(*     and no address is given twice as long as DhcpOrderly holds, because *)
(*     then the pool stays sorted and within its range.                    *)
(***************************************************************************)
EXTENDS DnsLookup, MdnsResponder, DhcpServer, FiniteSetTheorems, NatLemmas, TLAPS

-----------------------------------------------------------------------------
(* DnsLookup                                                               *)

\* Initially there is no object, no request and no caller.
LEMMA InitInv == Init => Inv
<1> SUFFICES ASSUME Init PROVE Inv
    OBVIOUS
<1> USE DEF Init, NoCaller
<1>1. TypeOK
    BY FS_EmptySet, TableAssumption DEF TypeOK
<1>2. RequestsOK
    BY FS_EmptySet DEF RequestsOK
<1>3. CallerOK /\ OwnAnswer /\ NoBadAccess
    BY DEF CallerOK, OwnAnswer, NoBadAccess
<1>4. NoLeak
    BY DEF NoLeak
<1>5. QED
    BY <1>1, <1>2, <1>3, <1>4 DEF Inv

\* A lookup that ends at once leaves the objects and the requests alone.
LEMMA LookupAtOnceInv == Inv /\ LookupAtOnce => Inv'
<1> SUFFICES ASSUME Inv, LookupAtOnce PROVE Inv'
    OBVIOUS
<1>1. /\ caller.pc = "idle" /\ caller'.pc = "idle"
      /\ caller'.result # None => caller'.result = caller'.host
      /\ UNCHANGED <<heap, requests, badAccess>>
    BY DEF LookupAtOnce, Done, None
<1>2. TypeOK'
    BY <1>1 DEF Inv, TypeOK
<1>3. RequestsOK'
    BY <1>1 DEF Inv, RequestsOK, Live
<1>4. CallerOK' /\ OwnAnswer' /\ NoBadAccess' /\ NoLeak'
    BY <1>1 DEF Inv, CallerOK, OwnAnswer, NoBadAccess, NoLeak
<1>5. QED
    BY <1>2, <1>3, <1>4 DEF Inv

\* A new request gets an object that nobody owns.
LEMMA LookupInProgressInv == Inv /\ LookupInProgress => Inv'
<1> SUFFICES ASSUME Inv, LookupInProgress PROVE Inv'
    OBVIOUS
<1>1. PICK h \in Hosts, o \in Objs \ DOMAIN heap :
        /\ heap' = New(o)
        /\ requests' = requests \cup {[obj |-> o, host |-> h]}
        /\ caller' = [NoCaller EXCEPT !.pc = "waiting", !.obj = o, !.host = h]
    BY DEF LookupInProgress
<1> DEFINE r0 == [obj |-> o, host |-> h]
<1>2. /\ caller.pc = "idle" /\ caller'.pc = "waiting" /\ caller'.obj = o
      /\ caller'.host = h /\ caller'.result = None
      /\ badAccess' = badAccess
    BY <1>1 DEF LookupInProgress, NoCaller
<1>3. /\ DOMAIN heap' = DOMAIN heap \cup {o}
      /\ heap'[o] = [done |-> FALSE, addr |-> None]
      /\ \A p \in DOMAIN heap : heap'[p] = heap[p]
    BY <1>1 DEF New
<1>4. \A r \in requests : r.obj # o
    BY DEF Inv, RequestsOK, Live
<1>5. TypeOK'
    <2>1. IsFiniteSet(requests) /\ Cardinality(requests) \in Nat
        BY FS_CardinalityType DEF Inv, RequestsOK
    <2>2. Cardinality(requests') <= TableSize
        <3>1. Cardinality(requests) < TableSize
            BY DEF LookupInProgress, TableHasRoom
        <3>2. \/ Cardinality(requests \cup {r0}) = Cardinality(requests)
              \/ Cardinality(requests \cup {r0}) = Cardinality(requests) + 1
            BY <2>1, FS_AddElement
        <3>3. QED
            BY <1>1, <2>1, <3>1, <3>2, TableAssumption
    <2>3. heap' \in [DOMAIN heap' -> [done: BOOLEAN, addr: Hosts \cup {None}]]
        BY <1>1, <1>3 DEF Inv, TypeOK, New
    <2>4. requests' \subseteq [obj: Objs, host: Hosts]
        BY <1>1 DEF Inv, TypeOK
    <2>5. QED
        BY <1>2, <1>3, <2>2, <2>3, <2>4 DEF Inv, TypeOK
<1>6. RequestsOK'
    <2>1. IsFiniteSet(requests')
        BY <1>1, FS_AddElement DEF Inv, RequestsOK
    <2>2. \A r, q \in requests' : r.obj = q.obj => r = q
        BY <1>1, <1>4 DEF Inv, RequestsOK
    <2>3. ASSUME NEW r \in requests'
          PROVE  /\ r.obj \in DOMAIN heap'
                 /\ r.obj = o => r.host = h /\ ~heap'[r.obj].done
                 /\ r.obj # o => heap'[r.obj].done
        <3>1. CASE r = r0
            BY <1>3, <3>1
        <3>2. CASE r \in requests
            BY <1>2, <1>3, <1>4, <3>2 DEF Inv, RequestsOK, Live
        <3>3. QED
            BY <1>1, <3>1, <3>2
    <2>4. QED
        BY <1>2, <2>1, <2>2, <2>3 DEF RequestsOK, Live
<1>7. CallerOK'
    <2>1. r0 \in requests' /\ r0.obj = o
        BY <1>1
    <2>2. o \in DOMAIN heap' /\ heap'[o].addr = None
        BY <1>3
    <2>3. QED
        BY <1>2, <2>1, <2>2 DEF CallerOK, Live
<1>8. NoLeak'
    BY <1>1, <1>2, <1>3 DEF Inv, NoLeak
<1>9. OwnAnswer' /\ NoBadAccess'
    BY <1>2, <1>3 DEF Inv, OwnAnswer, NoBadAccess, Live
<1>10. QED
    BY <1>5, <1>6, <1>7, <1>8, <1>9 DEF Inv

\* An answered caller frees the object: its request is over.
LEMMA LookupAnsweredInv == Inv /\ LookupAnswered => Inv'
<1> SUFFICES ASSUME Inv, LookupAnswered PROVE Inv'
    OBVIOUS
<1> DEFINE o == caller.obj
<1>1. /\ caller.pc = "waiting" /\ o \in DOMAIN heap /\ heap[o].done
      /\ requests' = requests /\ badAccess' = badAccess
      /\ caller'.pc = "idle" /\ caller'.host = caller.host
      /\ caller'.result = heap[o].addr
    BY DEF LookupAnswered, Done, Live
<1>2. /\ DOMAIN heap' = DOMAIN heap \ {o}
      /\ \A p \in DOMAIN heap' : heap'[p] = heap[p]
    BY DEF LookupAnswered, Free
<1>3. \A r \in requests : r.obj # o
    BY <1>1 DEF Inv, RequestsOK
<1>4. TypeOK'
    BY <1>1, <1>2 DEF Inv, TypeOK, LookupAnswered, Free
<1>5. RequestsOK'
    BY <1>1, <1>2, <1>3 DEF Inv, RequestsOK, Live
<1>6. NoLeak'
    BY <1>1, <1>2, <1>3 DEF Inv, NoLeak
<1>7. CallerOK' /\ OwnAnswer' /\ NoBadAccess'
    BY <1>1 DEF Inv, CallerOK, OwnAnswer, NoBadAccess, Live, None
<1>8. QED
    BY <1>4, <1>5, <1>6, <1>7 DEF Inv

\* A caller that gives up leaves the object to its request.
LEMMA LookupTimeoutInv == Inv /\ LookupTimeout => Inv'
<1> SUFFICES ASSUME Inv, LookupTimeout PROVE Inv'
    OBVIOUS
<1> DEFINE o == caller.obj
<1>1. /\ caller.pc = "waiting" /\ o \in DOMAIN heap /\ ~heap[o].done
      /\ requests' = requests /\ badAccess' = badAccess
      /\ caller'.pc = "idle" /\ caller'.result = None
    BY DEF LookupTimeout, Done, Live
<1>2. /\ DOMAIN heap' = DOMAIN heap
      /\ heap'[o].done = TRUE /\ heap'[o].addr = heap[o].addr
      /\ \A p \in DOMAIN heap : p # o => heap'[p] = heap[p]
    <2>1. heap' = [heap EXCEPT ![o] = [heap[o] EXCEPT !.done = TRUE]]
        BY DEF LookupTimeout, HandOver, Write
    <2>2. QED
        BY <1>1, <2>1 DEF Inv, TypeOK
<1>3. TypeOK'
    BY <1>1, <1>2 DEF Inv, TypeOK, LookupTimeout, HandOver, Write
<1>4. RequestsOK'
    BY <1>1, <1>2 DEF Inv, RequestsOK, Live
<1>5. NoLeak'
    BY <1>1, <1>2 DEF Inv, NoLeak, CallerOK
<1>6. CallerOK' /\ OwnAnswer' /\ NoBadAccess'
    BY <1>1 DEF Inv, CallerOK, OwnAnswer, NoBadAccess
<1>7. QED
    BY <1>3, <1>4, <1>5, <1>6 DEF Inv

\* The callback delivers to a caller that waits, or deletes what a caller that
\* has left handed over; in both cases it is the object's only request.
LEMMA DnsFoundInv ==
    ASSUME NEW r \in requests, Inv, DnsFound(r)
    PROVE  Inv'
<1> DEFINE o == r.obj
<1>1. /\ requests' = requests \ {r} /\ caller' = caller
      /\ o \in DOMAIN heap /\ ~badAccess'
    <2>1. o \in DOMAIN heap /\ ~badAccess
        BY DEF Inv, RequestsOK, NoBadAccess, Live
    <2>2. /\ requests' = requests \ {r} /\ caller' = caller
          /\ badAccess' = (badAccess \/ ~Live(r.obj))
        BY DEF DnsFound
    <2>3. QED
        BY <2>1, <2>2 DEF Live
<1>2. \A q \in requests' : q.obj # o /\ q \in requests
    BY <1>1 DEF Inv, RequestsOK
<1>3. IsFiniteSet(requests') /\ Cardinality(requests') <= TableSize
    <2>1. IsFiniteSet(requests) /\ Cardinality(requests) <= TableSize
        BY DEF Inv, RequestsOK, TypeOK
    <2>2. Cardinality(requests) \in Nat /\ Cardinality(requests') \in Nat
        BY <1>1, <2>1, FS_CardinalityType, FS_RemoveElement
    <2>3. /\ IsFiniteSet(requests \ {r})
          /\ Cardinality(requests \ {r}) = Cardinality(requests) - 1
        BY <2>1, FS_RemoveElement
    <2>4. QED
        BY <1>1, <2>1, <2>2, <2>3, TableAssumption
<1>4. CASE heap[o].done
    <2>1. ~(caller.pc = "waiting" /\ caller.obj = o)
        BY <1>4 DEF Inv, RequestsOK
    <2>2. heap' = [p \in DOMAIN heap \ {o} |-> heap[p]]
        BY <1>1, <1>4 DEF DnsFound, Late, Free, Live
    <2>3. DOMAIN heap' = DOMAIN heap \ {o} /\ \A p \in DOMAIN heap' : heap'[p] = heap[p]
        BY <2>2
    <2>4. TypeOK'
        BY <1>1, <1>3, <2>2, <2>3 DEF Inv, TypeOK
    <2>5. RequestsOK'
        BY <1>1, <1>2, <1>3, <2>3 DEF Inv, RequestsOK, Live
    <2>6. CallerOK'
        BY <1>1, <2>1, <2>3 DEF Inv, CallerOK, Live
    <2>7. NoLeak'
        BY <1>1, <1>2, <2>1, <2>3 DEF Inv, NoLeak
    <2>8. OwnAnswer' /\ NoBadAccess'
        BY <1>1, <2>1, <2>3 DEF Inv, OwnAnswer, NoBadAccess, Live
    <2>9. QED
        BY <2>4, <2>5, <2>6, <2>7, <2>8 DEF Inv
<1>5. CASE ~heap[o].done
    <2>1. caller.pc = "waiting" /\ caller.obj = o /\ r.host = caller.host
        BY <1>5 DEF Inv, RequestsOK
    <2>2. PICK a \in {r.host, None} :
            heap' = [heap EXCEPT ![o] = [done |-> TRUE, addr |-> a]]
        BY <1>1, <1>5 DEF DnsFound, Delivered, Write, Live
    <2>3. /\ DOMAIN heap' = DOMAIN heap
          /\ heap'[o] = [done |-> TRUE, addr |-> a]
          /\ \A p \in DOMAIN heap : p # o => heap'[p] = heap[p]
        BY <1>1, <2>2 DEF Inv, TypeOK
    <2>4. r.host \in Hosts
        BY DEF Inv, TypeOK
    <2>5. TypeOK'
        BY <1>1, <1>3, <2>2, <2>3, <2>4 DEF Inv, TypeOK
    <2>6. RequestsOK'
        BY <1>1, <1>2, <1>3, <2>1, <2>3 DEF Inv, RequestsOK, Live
    <2>7. CallerOK'
        BY <1>1, <2>1, <2>2, <2>3 DEF CallerOK, Live
    <2>8. NoLeak'
        BY <1>1, <1>2, <2>1, <2>3 DEF Inv, NoLeak
    <2>9. OwnAnswer' /\ NoBadAccess'
        BY <1>1, <2>1, <2>3 DEF Inv, OwnAnswer, NoBadAccess, Live
    <2>10. QED
        BY <2>5, <2>6, <2>7, <2>8, <2>9 DEF Inv
<1>6. QED
    BY <1>4, <1>5

\* Inv holds in every reachable state.
LEMMA Invariance == Spec => []Inv
<1>1. Inv /\ [Next]_vars => Inv'
    <2> SUFFICES ASSUME Inv, [Next]_vars PROVE Inv'
        OBVIOUS
    <2>1. CASE LookupAtOnce
        BY <2>1, LookupAtOnceInv
    <2>2. CASE LookupInProgress
        BY <2>2, LookupInProgressInv
    <2>3. CASE LookupAnswered
        BY <2>3, LookupAnsweredInv
    <2>4. CASE LookupTimeout
        BY <2>4, LookupTimeoutInv
    <2>5. CASE \E r \in requests : DnsFound(r)
        BY <2>5, DnsFoundInv
    <2>6. CASE UNCHANGED vars
        BY <2>6 DEF vars, Inv, TypeOK, RequestsOK, CallerOK, NoLeak, OwnAnswer,
                    NoBadAccess, Live
    <2>7. QED
        BY <2>1, <2>2, <2>3, <2>4, <2>5, <2>6 DEF Next
<1>2. QED
    BY <1>1, InitInv, PTL DEF Spec

\* No access of hostByName() or of a late DNS callback goes to freed memory,
\* and the objects on the heap are those of the requests in progress and of
\* the waiting caller, for any number of lookups that overlap: the time-out
\* loses none.
THEOREM OwnershipCorrect == Spec => []Ownership
<1>1. Inv => Ownership
    BY DEF Inv, Ownership
<1>2. QED
    BY <1>1, Invariance, PTL

\* hostByName() never returns the address of another name.
THEOREM AnswerCorrect == Spec => []OwnAnswer
<1>1. Inv => OwnAnswer
    BY DEF Inv
<1>2. QED
    BY <1>1, Invariance, PTL

-----------------------------------------------------------------------------
(* MdnsResponder                                                           *)

MdnsStatus == {"WaitingForData", "ReadyToStart", "InProgress", "Done"}

MdnsHostType ==
    [status : MdnsStatus, sent : Nat, timeout : Int, name : Nat, restarting : BOOLEAN]

MdnsTypeOK ==
    /\ mdns \in [MdnsHosts -> MdnsHostType]
    /\ \A m \in mdnsNet : /\ m.kind \in {"probe", "response"}
                          /\ m.from \in MdnsHosts /\ m.to \in MdnsHosts
                          /\ m.from # m.to
                          /\ m = MdnsMsg(m.kind, m.name, m.from, m.to)

Probing(h, name) == mdns[h].status = "InProgress" /\ mdns[h].name = name
Holding(h, name) == mdns[h].status = "Done" /\ mdns[h].name = name

(* Probing begins with no probe sent; while it goes on the time to the     *)
(* next step is at most a delay.                                           *)
MdnsCounts ==
    \A h \in MdnsHosts :
       /\ mdns[h].status \in {"WaitingForData", "ReadyToStart"} => mdns[h].sent = 0
       /\ mdns[h].status = "InProgress" =>
            /\ mdns[h].sent <= MDNS_PROBE_COUNT
            /\ mdns[h].timeout \in 0..MDNS_PROBE_DELAY

(* A board that has sent its last probe for a name another one holds has   *)
(* just sent it: the probe or the objection to it is under way.            *)
MdnsObjection ==
    \A g, h \in MdnsHosts : \A name \in Nat :
       g # h /\ Holding(g, name) /\ Probing(h, name) /\ mdns[h].sent = MDNS_PROBE_COUNT =>
          /\ mdns[h].timeout = MDNS_PROBE_DELAY
          /\ \/ MdnsMsg("probe", name, h, g) \in mdnsNet
             \/ MdnsMsg("response", name, g, h) \in mdnsNet

(* Of two boards that probe for a name the one with the higher address has *)
(* a probe under way to the other, or the other has begun after its last   *)
(* probe: it has sent two at most, the second one only just now when the   *)
(* higher one is about to be done.                                         *)
MdnsTie ==
    \A lo, hi \in MdnsHosts : \A name \in Nat :
       lo < hi /\ Probing(lo, name) /\ Probing(hi, name) /\ mdns[hi].sent > 0 =>
          \/ /\ mdns[hi].timeout = MDNS_PROBE_DELAY
             /\ MdnsMsg("probe", name, hi, lo) \in mdnsNet
          \/ /\ mdns[lo].sent <= 2
             /\ mdns[lo].sent = 1 => mdns[hi].timeout <= mdns[lo].timeout
             /\ mdns[lo].sent = 2 => /\ mdns[hi].timeout = 0
                                     /\ mdns[lo].timeout = MDNS_PROBE_DELAY

MdnsInv == MdnsTypeOK /\ MdnsCounts /\ MdnsObjection /\ MdnsTie /\ MdnsUnique

(* The constants of the code: at least three probes, and a sketch that     *)
(* changes its name, if at all, before the first announcement.             *)
MdnsCode == MDNS_PROBE_COUNT >= 3 /\ MdnsLateRename = FALSE

-----------------------------------------------------------------------------
LEMMA MdnsInvInit == MdnsInit => MdnsInv
  BY MdnsAssumption
  DEF MdnsInit, MdnsInv, MdnsTypeOK, MdnsHostType, MdnsStatus, MdnsCounts, MdnsObjection,
      MdnsTie, MdnsUnique, Holding, Probing, MdnsNever

(* A step that takes one board out of probing and holding, or into probing *)
(* with nothing sent, and sends nothing.                                   *)
LEMMA MdnsQuietStep ==
    ASSUME MdnsInv, NEW h \in MdnsHosts, NEW x \in MdnsHostType,
           mdns' = [mdns EXCEPT ![h] = x], mdnsNet' = mdnsNet,
           \/ x.status \in {"WaitingForData", "ReadyToStart"} /\ x.sent = 0
           \/ /\ x.status = "InProgress" /\ x.sent = 0
              /\ x.timeout \in 0..MDNS_PROBE_DELAY
           \/ /\ mdns[h].status = "Done" /\ x.status = "Done"
              /\ x.name = mdns[h].name
    PROVE  MdnsInv'
<1> USE MdnsAssumption DEF MdnsInv
<1>1. MdnsTypeOK'
  BY DEF MdnsTypeOK
<1>2. \A g \in MdnsHosts : mdns'[g] = IF g = h THEN x ELSE mdns[g]
  BY DEF MdnsTypeOK
<1>3. MdnsCounts'
  BY <1>2 DEF MdnsCounts
<1>4. MdnsObjection'
  BY <1>2 DEF MdnsObjection, Holding, Probing
<1>5. MdnsTie'
  BY <1>2 DEF MdnsTie, Probing
<1>6. MdnsUnique'
  BY <1>2 DEF MdnsUnique
<1> QED BY <1>1, <1>3, <1>4, <1>5, <1>6

(* What a multicast puts on the link.                                      *)
LEMMA MdnsMulticastType ==
    ASSUME MdnsTypeOK, NEW h \in MdnsHosts, NEW kind \in {"probe", "response"},
           mdnsNet' = mdnsNet \cup MdnsMulticast(kind, h)
    PROVE  \A m \in mdnsNet' : /\ m.kind \in {"probe", "response"}
                               /\ m.from \in MdnsHosts /\ m.to \in MdnsHosts
                               /\ m.from # m.to
                               /\ m = MdnsMsg(m.kind, m.name, m.from, m.to)
  BY DEF MdnsTypeOK, MdnsMulticast, MdnsMsg

LEMMA MdnsProbeStep ==
    ASSUME MdnsCode, MdnsInv, NEW h \in MdnsHosts, MdnsProbe(h)
    PROVE  MdnsInv'
<1> USE MdnsAssumption
<1>0. MdnsTypeOK /\ MdnsCounts /\ MdnsObjection /\ MdnsTie /\ MdnsUnique
  BY DEF MdnsInv
<1>b. PICK x : x = [mdns[h] EXCEPT !.timeout = MDNS_PROBE_DELAY,
                                   !.sent = mdns[h].sent + 1]
  OBVIOUS
<1>a. mdns' = [mdns EXCEPT ![h] = x]
  BY <1>b DEF MdnsProbe
<1>1. mdns[h] \in MdnsHostType /\ x \in MdnsHostType
  <2>1. mdns[h] \in MdnsHostType
    BY <1>0 DEF MdnsTypeOK
  <2>2. x = [status |-> mdns[h].status, sent |-> mdns[h].sent + 1,
             timeout |-> MDNS_PROBE_DELAY, name |-> mdns[h].name,
             restarting |-> mdns[h].restarting]
    BY <1>b, <2>1 DEF MdnsHostType
  <2> QED BY <2>1, <2>2 DEF MdnsHostType
<1>2. /\ x.status = "InProgress" /\ x.name = mdns[h].name
      /\ x.timeout = MDNS_PROBE_DELAY /\ x.sent = mdns[h].sent + 1
      /\ mdns[h].status = "InProgress" /\ mdns[h].timeout = 0
      /\ mdns[h].sent \in Nat /\ mdns[h].sent < MDNS_PROBE_COUNT
  BY <1>b, <1>1 DEF MdnsProbe, MdnsHostType
<1>3. \A g \in MdnsHosts : mdns'[g] = IF g = h THEN x ELSE mdns[g]
  BY <1>0, <1>a DEF MdnsTypeOK
<1>4. /\ mdnsNet \subseteq mdnsNet'
      /\ \A g \in MdnsHosts : g # h => MdnsMsg("probe", mdns[h].name, h, g) \in mdnsNet'
  BY DEF MdnsProbe, MdnsMulticast
<1>5. MdnsTypeOK'
  BY <1>0, <1>a, <1>1, MdnsMulticastType DEF MdnsTypeOK, MdnsProbe
<1>6. MdnsCounts'
  BY <1>0, <1>2, <1>3 DEF MdnsCounts
<1>7. MdnsObjection'
  BY <1>0, <1>2, <1>3, <1>4 DEF MdnsObjection, Holding, Probing
<1>8. MdnsTie'
  <2> SUFFICES ASSUME NEW lo \in MdnsHosts, NEW hi \in MdnsHosts, NEW name \in Nat,
                      lo < hi, Probing(lo, name)', Probing(hi, name)', mdns'[hi].sent > 0
               PROVE  \/ /\ mdns'[hi].timeout = MDNS_PROBE_DELAY
                         /\ MdnsMsg("probe", name, hi, lo) \in mdnsNet'
                      \/ /\ mdns'[lo].sent <= 2
                         /\ mdns'[lo].sent = 1 => mdns'[hi].timeout <= mdns'[lo].timeout
                         /\ mdns'[lo].sent = 2 => /\ mdns'[hi].timeout = 0
                                                  /\ mdns'[lo].timeout = MDNS_PROBE_DELAY
    BY DEF MdnsTie
  <2>0. lo \in Nat /\ hi \in Nat /\ lo # hi
    BY MdnsAssumption
  <2>1. CASE h = hi
    BY <1>0, <1>2, <1>3, <1>4, <2>0, <2>1 DEF Probing
  <2>2. CASE h = lo
    <3>1. Probing(lo, name) /\ Probing(hi, name) /\ mdns[hi].sent > 0
      BY <1>0, <1>2, <1>3, <2>0, <2>2 DEF Probing
    <3>2. mdns[hi].timeout \in 0..MDNS_PROBE_DELAY
      BY <1>0, <3>1 DEF MdnsCounts, Probing
    <3>3. \/ /\ mdns[hi].timeout = MDNS_PROBE_DELAY
             /\ MdnsMsg("probe", name, hi, lo) \in mdnsNet
          \/ /\ mdns[lo].sent <= 2
             /\ mdns[lo].sent = 1 => mdns[hi].timeout <= mdns[lo].timeout
             /\ mdns[lo].sent = 2 => /\ mdns[hi].timeout = 0
                                     /\ mdns[lo].timeout = MDNS_PROBE_DELAY
      BY <1>0, <3>1 DEF MdnsTie
    <3> QED BY <1>2, <1>3, <1>4, <2>0, <2>2, <3>2, <3>3
  <2>3. CASE h # lo /\ h # hi
    BY <1>0, <1>3, <1>4, <2>3, ZenonT(60) DEF MdnsTie, Probing
  <2> QED BY <2>1, <2>2, <2>3
<1>9. MdnsUnique'
  BY <1>0, <1>2, <1>3 DEF MdnsUnique
<1> QED BY <1>5, <1>6, <1>7, <1>8, <1>9 DEF MdnsInv

(* Who becomes the holder of a name finds no other holder, since no        *)
(* objection is left under way; and of the others none has sent its last   *)
(* probe for the name and is not about to hear of the holder.              *)
LEMMA MdnsDoneStep ==
    ASSUME MdnsCode, MdnsInv, NEW h \in MdnsHosts, MdnsDone(h)
    PROVE  MdnsInv'
<1> USE MdnsAssumption
<1>0. MdnsTypeOK /\ MdnsCounts /\ MdnsObjection /\ MdnsTie /\ MdnsUnique
  BY DEF MdnsInv
<1>b. PICK x : x = [mdns[h] EXCEPT !.status = "Done", !.sent = 0,
                                   !.timeout = MDNS_ANNOUNCE_DELAY]
  OBVIOUS
<1>a. mdns' = [mdns EXCEPT ![h] = x]
  BY <1>b DEF MdnsDone
<1>1. mdns[h] \in MdnsHostType /\ x \in MdnsHostType
  <2>1. mdns[h] \in MdnsHostType
    BY <1>0 DEF MdnsTypeOK
  <2>2. x = [status |-> "Done", sent |-> 0, timeout |-> MDNS_ANNOUNCE_DELAY,
             name |-> mdns[h].name, restarting |-> mdns[h].restarting]
    BY <1>b, <2>1 DEF MdnsHostType
  <2> QED BY <2>1, <2>2 DEF MdnsHostType, MdnsStatus
<1>2. /\ x.status = "Done" /\ x.name = mdns[h].name
      /\ mdns[h].status = "InProgress" /\ mdns[h].timeout = 0
      /\ mdns[h].sent \in Nat /\ mdns[h].sent = MDNS_PROBE_COUNT
      /\ mdns[h].name \in Nat
  BY <1>0, <1>b, <1>1 DEF MdnsDone, MdnsHostType, MdnsCounts
<1>3. \A g \in MdnsHosts : mdns'[g] = IF g = h THEN x ELSE mdns[g]
  BY <1>0, <1>a DEF MdnsTypeOK
<1>4. mdnsNet' = mdnsNet
  BY DEF MdnsDone
<1>5. MdnsTypeOK'
  BY <1>0, <1>a, <1>1, <1>4 DEF MdnsTypeOK
<1>6. MdnsCounts'
  BY <1>0, <1>2, <1>3 DEF MdnsCounts
<1>7. MdnsObjection'
  <2> SUFFICES ASSUME NEW g \in MdnsHosts, NEW k \in MdnsHosts, NEW name \in Nat, g # k,
                      Holding(g, name)', Probing(k, name)', mdns'[k].sent = MDNS_PROBE_COUNT
               PROVE  /\ mdns'[k].timeout = MDNS_PROBE_DELAY
                      /\ \/ MdnsMsg("probe", name, k, g) \in mdnsNet'
                         \/ MdnsMsg("response", name, g, k) \in mdnsNet'
    BY DEF MdnsObjection
  <2>1. CASE g # h /\ k # h
    BY <1>0, <1>3, <1>4, <2>1 DEF MdnsObjection, Holding, Probing
  <2>2. CASE g = h
    <3>1. Probing(k, name) /\ Probing(h, name) /\ mdns[k].sent = MDNS_PROBE_COUNT
      BY <1>0, <1>2, <1>3, <2>2 DEF Holding, Probing
    <3>2. CASE k < h
      <4>1. \/ mdns[h].timeout = MDNS_PROBE_DELAY
            \/ mdns[k].sent <= 2
        BY <1>0, <1>2, <3>1, <3>2 DEF MdnsTie
      <4>2. MDNS_PROBE_DELAY # 0 /\ MDNS_PROBE_COUNT \in Nat /\ ~(MDNS_PROBE_COUNT <= 2)
        BY DEF MdnsCode
      <4> QED BY <1>2, <3>1, <4>1, <4>2
    <3>3. CASE h < k
      BY <1>0, <1>2, <1>3, <1>4, <2>2, <3>1, <3>3 DEF MdnsTie, MdnsCode
    <3> QED BY <2>2, <3>2, <3>3
  <2>3. CASE k = h
    BY <1>0, <1>2, <1>3, <2>3 DEF Probing
  <2> QED BY <2>1, <2>2, <2>3
<1>8. MdnsTie'
  BY <1>0, <1>2, <1>3, <1>4 DEF MdnsTie, Probing
<1>9. MdnsUnique'
  <2>1. ASSUME NEW g \in MdnsHosts, g # h, mdns[g].status = "Done"
        PROVE  mdns[g].name # mdns[h].name
    BY <1>0, <1>2, <2>1 DEF MdnsObjection, Holding, Probing
  <2> QED BY <1>0, <1>2, <1>3, <2>1 DEF MdnsUnique
<1> QED BY <1>5, <1>6, <1>7, <1>8, <1>9 DEF MdnsInv

LEMMA MdnsAnnounceStep ==
    ASSUME MdnsInv, NEW h \in MdnsHosts, MdnsAnnounce(h)
    PROVE  MdnsInv'
<1> USE MdnsAssumption
<1>0. MdnsTypeOK /\ MdnsCounts /\ MdnsObjection /\ MdnsTie /\ MdnsUnique
  BY DEF MdnsInv
<1>1. PICK x : x = [mdns[h] EXCEPT !.sent = mdns[h].sent + 1,
                                   !.timeout = IF MDNS_ANNOUNCE_COUNT > mdns[h].sent + 1
                                               THEN MDNS_ANNOUNCE_DELAY ELSE MdnsNever]
  OBVIOUS
<1>2. mdns' = [mdns EXCEPT ![h] = x]
  BY <1>1 DEF MdnsAnnounce
<1>3. mdns[h] \in MdnsHostType
  BY <1>0 DEF MdnsTypeOK
<1>4. x = [status |-> mdns[h].status, sent |-> mdns[h].sent + 1,
           timeout |-> IF MDNS_ANNOUNCE_COUNT > mdns[h].sent + 1
                       THEN MDNS_ANNOUNCE_DELAY ELSE MdnsNever,
           name |-> mdns[h].name, restarting |-> mdns[h].restarting]
  BY <1>1, <1>3 DEF MdnsHostType
<1>5. x \in MdnsHostType
  BY <1>3, <1>4 DEF MdnsHostType, MdnsNever
<1>6. \A g \in MdnsHosts : mdns'[g] = IF g = h THEN x ELSE mdns[g]
  BY <1>0, <1>2 DEF MdnsTypeOK
<1>7. /\ x.status = "Done" /\ mdns[h].status = "Done" /\ x.name = mdns[h].name
      /\ mdnsNet \subseteq mdnsNet'
  BY <1>4 DEF MdnsAnnounce
<1>8. MdnsTypeOK'
  BY <1>0, <1>2, <1>5, MdnsMulticastType DEF MdnsTypeOK, MdnsAnnounce
<1>9. MdnsCounts'
  BY <1>0, <1>6, <1>7 DEF MdnsCounts
<1>10. MdnsObjection'
  BY <1>0, <1>6, <1>7 DEF MdnsObjection, Holding, Probing
<1>11. MdnsTie'
  BY <1>0, <1>6, <1>7 DEF MdnsTie, Probing
<1>12. MdnsUnique'
  BY <1>0, <1>6, <1>7 DEF MdnsUnique
<1> QED BY <1>8, <1>9, <1>10, <1>11, <1>12 DEF MdnsInv

-----------------------------------------------------------------------------
(* A board that loses stops probing for the name.                          *)
LEMMA MdnsCancelType ==
    ASSUME NEW x \in MdnsHostType
    PROVE  /\ MdnsCancelProbing(x) \in MdnsHostType
           /\ MdnsCancelProbing(x).status \in {"WaitingForData", "ReadyToStart"}
           /\ MdnsCancelProbing(x).sent = 0
<1> USE MdnsAssumption
<1>1. PICK c : c = MdnsClear(x)
  OBVIOUS
<1>2. c = [status |-> "WaitingForData", sent |-> 0, timeout |-> MdnsNever,
           name |-> x.name, restarting |-> x.restarting]
  BY <1>1 DEF MdnsClear, MdnsHostType
<1>3. PICK d : d = MdnsSetHostname(c, x.name + 1)
  OBVIOUS
<1>4. d = [status |-> "ReadyToStart", sent |-> 0, timeout |-> MdnsNever,
           name |-> x.name + 1, restarting |-> x.restarting]
  BY <1>2, <1>3 DEF MdnsSetHostname
<1>5. c \in MdnsHostType /\ d \in MdnsHostType
  BY <1>2, <1>4 DEF MdnsHostType, MdnsStatus, MdnsNever
<1>6. MdnsCancelProbing(x) = IF x.name < MdnsNames THEN d ELSE c
  BY <1>1, <1>3 DEF MdnsCancelProbing
<1> QED BY <1>2, <1>4, <1>5, <1>6

(* The delivery of a message: a probe that a holder gets leaves an         *)
(* objection, one that a lower board gets while it probes too ends its     *)
(* probing, and an objection ends the probing it is for.                   *)
LEMMA MdnsReceiveStep ==
    ASSUME MdnsCode, MdnsInv, NEW m \in mdnsNet, MdnsReceive(m)
    PROVE  MdnsInv'
<1> USE MdnsAssumption
<1>0. MdnsTypeOK /\ MdnsCounts /\ MdnsObjection /\ MdnsTie /\ MdnsUnique
  BY DEF MdnsInv
<1> DEFINE h == m.to
           x == MdnsCancelProbing(mdns[h])
           cancels == /\ mdns[h].status = "InProgress" /\ mdns[h].name = m.name
                      /\ \/ m.kind = "probe" /\ m.from > h
                         \/ m.kind = "response" /\ mdns[h].sent > 0
           answers == /\ m.kind = "probe"
                      /\ mdns[h].status = "Done" /\ mdns[h].name = m.name
           reply == MdnsMsg("response", m.name, h, m.from)
<1>1. /\ m.kind \in {"probe", "response"} /\ m.from \in MdnsHosts /\ h \in MdnsHosts
      /\ m.from # h /\ m = MdnsMsg(m.kind, m.name, m.from, h)
  BY <1>0 DEF MdnsTypeOK
<1>2. mdns' = IF cancels THEN [mdns EXCEPT ![h] = x] ELSE mdns
  BY <1>1 DEF MdnsReceive, MdnsParseQuery, MdnsParseResponse
<1>3. mdnsNet' = (mdnsNet \ {m}) \cup (IF answers THEN {reply} ELSE {})
  BY <1>1 DEF MdnsReceive, MdnsParseQuery, MdnsParseResponse
<1>4. /\ x \in MdnsHostType
      /\ x.status \in {"WaitingForData", "ReadyToStart"} /\ x.sent = 0
  <2>1. mdns[h] \in MdnsHostType
    BY <1>0, <1>1 DEF MdnsTypeOK
  <2> QED BY <2>1, MdnsCancelType
<1> HIDE DEF x
<1>5. \A g \in MdnsHosts : mdns'[g] = IF g = h /\ cancels THEN x ELSE mdns[g]
  BY <1>0, <1>2 DEF MdnsTypeOK
<1>6. MdnsTypeOK'
  <2>1. mdns' \in [MdnsHosts -> MdnsHostType]
    BY <1>0, <1>1, <1>2, <1>4 DEF MdnsTypeOK
  <2>2. /\ reply.kind = "response" /\ reply.from = h /\ reply.to = m.from
        /\ reply = MdnsMsg(reply.kind, reply.name, reply.from, reply.to)
    BY DEF MdnsMsg
  <2> QED BY <1>0, <1>1, <1>3, <2>1, <2>2 DEF MdnsTypeOK
<1>7. MdnsCounts'
  BY <1>0, <1>4, <1>5 DEF MdnsCounts
<1>8. MdnsObjection'
  <2> SUFFICES ASSUME NEW g \in MdnsHosts, NEW k \in MdnsHosts, NEW name \in Nat, g # k,
                      Holding(g, name)', Probing(k, name)', mdns'[k].sent = MDNS_PROBE_COUNT
               PROVE  /\ mdns'[k].timeout = MDNS_PROBE_DELAY
                      /\ \/ MdnsMsg("probe", name, k, g) \in mdnsNet'
                         \/ MdnsMsg("response", name, g, k) \in mdnsNet'
    BY DEF MdnsObjection
  <2>1. ~(k = h /\ cancels) /\ mdns'[k] = mdns[k] /\ mdns'[g] = mdns[g]
    BY <1>4, <1>5 DEF Holding, Probing
  <2>2. /\ mdns[k].timeout = MDNS_PROBE_DELAY
        /\ \/ MdnsMsg("probe", name, k, g) \in mdnsNet
           \/ MdnsMsg("response", name, g, k) \in mdnsNet
    BY <1>0, <2>1 DEF MdnsObjection, Holding, Probing
  <2>3. CASE m = MdnsMsg("probe", name, k, g)
    <3>1. m.kind = "probe" /\ m.name = name /\ h = g /\ m.from = k
      BY <2>3 DEF MdnsMsg
    <3>2. answers
      BY <2>1, <3>1 DEF Holding
    <3> QED BY <1>3, <2>1, <2>2, <3>1, <3>2
  <2>4. CASE m = MdnsMsg("response", name, g, k)
    <3>1. m.kind = "response" /\ m.name = name /\ h = k
      BY <2>4 DEF MdnsMsg
    <3>2. mdns[k].sent > 0 /\ mdns[k].status = "InProgress" /\ mdns[k].name = name
      BY <2>1 DEF Probing, MdnsCode
    <3> QED BY <2>1, <3>1, <3>2
  <2>5. CASE m # MdnsMsg("probe", name, k, g) /\ m # MdnsMsg("response", name, g, k)
    BY <1>3, <2>1, <2>2, <2>5
  <2> QED BY <2>3, <2>4, <2>5
<1>9. MdnsTie'
  <2> SUFFICES ASSUME NEW lo \in MdnsHosts, NEW hi \in MdnsHosts, NEW name \in Nat,
                      lo < hi, Probing(lo, name)', Probing(hi, name)', mdns'[hi].sent > 0
               PROVE  \/ /\ mdns'[hi].timeout = MDNS_PROBE_DELAY
                         /\ MdnsMsg("probe", name, hi, lo) \in mdnsNet'
                      \/ /\ mdns'[lo].sent <= 2
                         /\ mdns'[lo].sent = 1 => mdns'[hi].timeout <= mdns'[lo].timeout
                         /\ mdns'[lo].sent = 2 => /\ mdns'[hi].timeout = 0
                                                  /\ mdns'[lo].timeout = MDNS_PROBE_DELAY
    BY DEF MdnsTie
  <2>1. ~(lo = h /\ cancels) /\ mdns'[lo] = mdns[lo] /\ mdns'[hi] = mdns[hi]
    BY <1>4, <1>5 DEF Probing
  <2>2. CASE m = MdnsMsg("probe", name, hi, lo)
    <3>1. m.kind = "probe" /\ m.name = name /\ h = lo /\ m.from = hi
      BY <2>2 DEF MdnsMsg
    <3>2. hi > lo
      OBVIOUS
    <3> QED BY <2>1, <3>1, <3>2 DEF Probing
  <2>3. CASE m # MdnsMsg("probe", name, hi, lo)
    BY <1>0, <1>3, <2>1, <2>3 DEF MdnsTie, Probing
  <2> QED BY <2>2, <2>3
<1>10. MdnsUnique'
  BY <1>0, <1>4, <1>5 DEF MdnsUnique
<1> QED BY <1>6, <1>7, <1>8, <1>9, <1>10 DEF MdnsInv

(* Time passes only when nothing is under way: no objection is pending,    *)
(* and no board is about to be done.                                       *)
LEMMA MdnsTickStep ==
    ASSUME MdnsCode, MdnsInv, MdnsTick
    PROVE  MdnsInv'
<1> USE MdnsAssumption
<1>0. MdnsTypeOK /\ MdnsCounts /\ MdnsObjection /\ MdnsTie /\ MdnsUnique
  BY DEF MdnsInv
<1>1. mdnsNet = {} /\ mdnsNet' = {} /\ \A h \in MdnsHosts : mdns[h].timeout # 0
  BY DEF MdnsTick
<1>2. ASSUME NEW h \in MdnsHosts
      PROVE  /\ mdns'[h] \in MdnsHostType
             /\ mdns'[h].status = mdns[h].status /\ mdns'[h].sent = mdns[h].sent
             /\ mdns'[h].name = mdns[h].name
             /\ mdns'[h].timeout = IF mdns[h].timeout > 0 THEN mdns[h].timeout - 1
                                                          ELSE mdns[h].timeout
  <2>1. mdns[h] \in MdnsHostType
    BY <1>0 DEF MdnsTypeOK
  <2>2. PICK x : x = mdns'[h]
    OBVIOUS
  <2>3. x = [mdns[h] EXCEPT !.timeout = IF @ > 0 THEN @ - 1 ELSE @]
    BY <2>2 DEF MdnsTick
  <2>4. x = [status |-> mdns[h].status, sent |-> mdns[h].sent,
             timeout |-> IF mdns[h].timeout > 0 THEN mdns[h].timeout - 1
                                                ELSE mdns[h].timeout,
             name |-> mdns[h].name, restarting |-> mdns[h].restarting]
    BY <2>1, <2>3 DEF MdnsHostType
  <2> QED BY <2>1, <2>2, <2>4 DEF MdnsHostType
<1>3. MdnsTypeOK'
  <2>1. DOMAIN mdns' = MdnsHosts /\ mdns' = [h \in MdnsHosts |-> mdns'[h]]
    BY DEF MdnsTick
  <2> QED BY <1>1, <1>2, <2>1 DEF MdnsTypeOK
<1>4. MdnsCounts'
  <2> SUFFICES ASSUME NEW h \in MdnsHosts
               PROVE  /\ mdns'[h].status \in {"WaitingForData", "ReadyToStart"} => mdns'[h].sent = 0
                      /\ mdns'[h].status = "InProgress" =>
                           /\ mdns'[h].sent <= MDNS_PROBE_COUNT
                           /\ mdns'[h].timeout \in 0..MDNS_PROBE_DELAY
    BY DEF MdnsCounts
  <2>1. mdns[h].timeout \in 0..MDNS_PROBE_DELAY => mdns'[h].timeout \in 0..MDNS_PROBE_DELAY
    BY <1>1, <1>2
  <2>2. QED
    BY <1>0, <1>2, <2>1 DEF MdnsCounts
<1>5. MdnsObjection'
  BY <1>0, <1>1, <1>2 DEF MdnsObjection, Holding, Probing
<1>6. MdnsTie'
  <2> SUFFICES ASSUME NEW lo \in MdnsHosts, NEW hi \in MdnsHosts, NEW name \in Nat,
                      lo < hi, Probing(lo, name)', Probing(hi, name)', mdns'[hi].sent > 0
               PROVE  /\ mdns'[lo].sent <= 2
                      /\ mdns'[lo].sent = 1 => mdns'[hi].timeout <= mdns'[lo].timeout
                      /\ mdns'[lo].sent = 2 => /\ mdns'[hi].timeout = 0
                                               /\ mdns'[lo].timeout = MDNS_PROBE_DELAY
    BY DEF MdnsTie
  <2>1. Probing(lo, name) /\ Probing(hi, name) /\ mdns[hi].sent > 0
    BY <1>2 DEF Probing
  <2>2. /\ mdns[lo].sent <= 2 /\ mdns[lo].sent # 2
        /\ mdns[lo].sent = 1 => mdns[hi].timeout <= mdns[lo].timeout
    BY <1>0, <1>1, <2>1 DEF MdnsTie
  <2>3. mdns[lo].timeout \in Nat /\ mdns[hi].timeout \in Nat
    BY <1>0, <2>1 DEF MdnsCounts, Probing
  <2>4. mdns'[lo].sent = mdns[lo].sent
    BY <1>2
  <2>5. mdns'[lo].timeout = mdns[lo].timeout - 1 /\ mdns'[hi].timeout = mdns[hi].timeout - 1
    BY <1>1, <1>2, <2>3
  <2>6. mdns[hi].timeout <= mdns[lo].timeout => mdns'[hi].timeout <= mdns'[lo].timeout
    BY <2>3, <2>5
  <2> QED BY <2>2, <2>4, <2>6
<1>7. MdnsUnique'
  <2>1. \A h \in MdnsHosts : mdns'[h].status = mdns[h].status /\ mdns'[h].name = mdns[h].name
    BY <1>2
  <2> QED BY <1>0, <2>1 DEF MdnsUnique
<1> QED BY <1>3, <1>4, <1>5, <1>6, <1>7 DEF MdnsInv

-----------------------------------------------------------------------------
(* begin(), the start of probing, a change of the name, and a restart.     *)
LEMMA MdnsBeginStep ==
    ASSUME MdnsCode, MdnsInv, NEW h \in MdnsHosts,
           MdnsBegin(h) \/ MdnsStart(h) \/ MdnsRename(h) \/ MdnsRestart(h)
    PROVE  MdnsInv'
<1> USE MdnsAssumption
<1>1. MdnsTypeOK /\ MdnsCounts
  BY DEF MdnsInv
<1>2. mdns[h] \in MdnsHostType
  BY <1>1 DEF MdnsTypeOK
<1>3. PICK c : c = MdnsReset(mdns[h])
  OBVIOUS
<1>4. c = [status |-> "ReadyToStart", sent |-> 0, timeout |-> MdnsNever,
           name |-> mdns[h].name, restarting |-> mdns[h].restarting]
  BY <1>2, <1>3 DEF MdnsReset, MdnsClear, MdnsHostType
<1>5. CASE MdnsBegin(h)
  <2>1. PICK x : x = [c EXCEPT !.name = 1]
    OBVIOUS
  <2>2. x = [status |-> "ReadyToStart", sent |-> 0, timeout |-> MdnsNever,
             name |-> 1, restarting |-> mdns[h].restarting]
    BY <1>4, <2>1
  <2>3. mdns' = [mdns EXCEPT ![h] = x] /\ mdnsNet' = mdnsNet
    BY <1>3, <1>5, <2>1 DEF MdnsBegin
  <2>4. x \in MdnsHostType
    BY <1>2, <2>2 DEF MdnsHostType, MdnsStatus, MdnsNever
  <2> QED BY <2>2, <2>3, <2>4, MdnsQuietStep
<1>6. CASE MdnsStart(h)
  <2>1. PICK t \in 0..(MDNS_PROBE_DELAY - 1) :
          mdns' = [mdns EXCEPT ![h] = [@ EXCEPT !.status = "InProgress", !.timeout = t]]
    BY <1>6 DEF MdnsStart
  <2>2. PICK x : x = [mdns[h] EXCEPT !.status = "InProgress", !.timeout = t]
    OBVIOUS
  <2>3. x = [status |-> "InProgress", sent |-> mdns[h].sent, timeout |-> t,
             name |-> mdns[h].name, restarting |-> mdns[h].restarting]
    BY <1>2, <2>2 DEF MdnsHostType
  <2>4. mdns' = [mdns EXCEPT ![h] = x] /\ mdnsNet' = mdnsNet
    BY <1>6, <2>1, <2>2 DEF MdnsStart
  <2>5. x \in MdnsHostType
    BY <1>2, <2>3 DEF MdnsHostType, MdnsStatus
  <2>6. mdns[h].sent = 0
    BY <1>1, <1>6 DEF MdnsCounts, MdnsStart
  <2>7. x.status = "InProgress" /\ x.sent = 0 /\ x.timeout \in 0..MDNS_PROBE_DELAY
    BY <2>3, <2>6
  <2> QED BY <2>4, <2>5, <2>7, MdnsQuietStep
<1>7. CASE MdnsRename(h)
  <2>1. PICK x : x = MdnsSetHostname(mdns[h], mdns[h].name + 1)
    OBVIOUS
  <2>2. x = [status |-> "ReadyToStart", sent |-> mdns[h].sent, timeout |-> mdns[h].timeout,
             name |-> mdns[h].name + 1, restarting |-> mdns[h].restarting]
    BY <1>2, <2>1 DEF MdnsSetHostname, MdnsHostType
  <2>3. mdns' = [mdns EXCEPT ![h] = x] /\ mdnsNet' = mdnsNet
    BY <1>7, <2>1 DEF MdnsRename
  <2>4. x \in MdnsHostType
    BY <1>2, <2>2 DEF MdnsHostType, MdnsStatus
  <2>5. mdns[h].sent = 0
    BY <1>7 DEF MdnsRename, MdnsCode
  <2> QED BY <2>2, <2>3, <2>4, <2>5, MdnsQuietStep
<1>8. CASE MdnsRestart(h)
  <2>1. PICK x : x = [c EXCEPT !.restarting = FALSE]
    OBVIOUS
  <2>2. x = [status |-> "ReadyToStart", sent |-> 0, timeout |-> MdnsNever,
             name |-> mdns[h].name, restarting |-> FALSE]
    BY <1>4, <2>1
  <2>3. mdns' = [mdns EXCEPT ![h] = x] /\ mdnsNet' = mdnsNet
    BY <1>3, <1>8, <2>1 DEF MdnsRestart
  <2>4. x \in MdnsHostType
    BY <1>2, <2>2 DEF MdnsHostType, MdnsStatus, MdnsNever
  <2> QED BY <2>2, <2>3, <2>4, MdnsQuietStep
<1> QED BY <1>5, <1>6, <1>7, <1>8

(* A step that leaves the probing of every board as it is.                 *)
LEMMA MdnsSameStep ==
    ASSUME MdnsInv, mdnsNet' = mdnsNet, mdns' \in [MdnsHosts -> MdnsHostType],
           \A g \in MdnsHosts :
              /\ mdns'[g].status = mdns[g].status /\ mdns'[g].sent = mdns[g].sent
              /\ mdns'[g].timeout = mdns[g].timeout /\ mdns'[g].name = mdns[g].name
    PROVE  MdnsInv'
<1>0. MdnsTypeOK /\ MdnsCounts /\ MdnsObjection /\ MdnsTie /\ MdnsUnique
  BY DEF MdnsInv
<1>1. MdnsTypeOK'
  BY <1>0 DEF MdnsTypeOK
<1>2. MdnsCounts'
  BY <1>0 DEF MdnsCounts
<1>3. MdnsObjection'
  BY <1>0 DEF MdnsObjection, Holding, Probing
<1>4. MdnsTie'
  BY <1>0 DEF MdnsTie, Probing
<1>5. MdnsUnique'
  BY <1>0 DEF MdnsUnique
<1> QED BY <1>1, <1>2, <1>3, <1>4, <1>5 DEF MdnsInv

LEMMA MdnsInvNext ==
    ASSUME MdnsCode, MdnsInv, [MdnsNext]_mdnsVars
    PROVE  MdnsInv'
<1>0. mdns \in [MdnsHosts -> MdnsHostType]
  BY DEF MdnsInv, MdnsTypeOK
<1>1. ASSUME NEW h \in MdnsHosts, MdnsStatusChange(h)
      PROVE  MdnsInv'
  <2>1. PICK x : x = [mdns[h] EXCEPT !.restarting = TRUE]
    OBVIOUS
  <2>2. mdns[h] \in MdnsHostType
    BY <1>0
  <2>3. x = [status |-> mdns[h].status, sent |-> mdns[h].sent, timeout |-> mdns[h].timeout,
             name |-> mdns[h].name, restarting |-> TRUE]
    BY <2>1, <2>2 DEF MdnsHostType
  <2>4. x \in MdnsHostType
    BY <2>2, <2>3 DEF MdnsHostType
  <2>5. mdns' = [mdns EXCEPT ![h] = x] /\ mdnsNet' = mdnsNet
    BY <1>1, <2>1 DEF MdnsStatusChange
  <2>6. \A g \in MdnsHosts : mdns'[g] = IF g = h THEN x ELSE mdns[g]
    BY <1>0, <2>5
  <2>7. mdns' \in [MdnsHosts -> MdnsHostType]
    BY <1>0, <2>4, <2>5
  <2> QED BY <2>3, <2>5, <2>6, <2>7, MdnsSameStep
<1>2. CASE UNCHANGED mdnsVars
  BY <1>0, <1>2, MdnsSameStep DEF mdnsVars
<1> QED
  BY <1>1, <1>2, MdnsBeginStep, MdnsProbeStep, MdnsDoneStep, MdnsAnnounceStep,
     MdnsReceiveStep, MdnsTickStep
  DEF MdnsNext

(* No two boards ever both hold the same host name: for every number of    *)
(* boards and of names, whatever the delays are, whenever boards are       *)
(* switched on, restart, tie or lose, and in whatever order messages       *)
(* arrive within a tick (_updateProbeStatus(), _parseQuery(),              *)
(* _processAnswers()).  The third probe is what makes it so: the argument  *)
(* of MdnsTie leaves the lower board two.                                  *)
THEOREM MdnsUniqueCorrect == MdnsCode => (MdnsSpec => []MdnsUnique)
<1> SUFFICES ASSUME MdnsCode PROVE MdnsSpec => []MdnsUnique
  OBVIOUS
<1>1. MdnsInv /\ [MdnsNext]_mdnsVars => MdnsInv'
  BY MdnsInvNext
<1>2. MdnsInv => MdnsUnique
  BY DEF MdnsInv
<1> QED BY MdnsInvInit, <1>1, <1>2, PTL DEF MdnsSpec

-----------------------------------------------------------------------------
(* The pool of the DHCP server                                             *)

DhcpNode == [mac : DhcpMacs, ip : Nat]

(* The range of addresses is of one net and does not end it, so that the   *)
(* order of the network and the order of the numbers agree on it and on    *)
(* the address after it.                                                   *)
RangeOK ==
    /\ dhcpLease.start \in Nat /\ dhcpLease.end \in Nat
    /\ dhcpLease.start <= dhcpLease.end
    /\ dhcpLease.start \div DhcpNet = dhcpLease.end \div DhcpNet
    /\ dhcpLease.end % DhcpNet < DhcpNet - 1

InRange(a) == a \in dhcpLease.start..dhcpLease.end

(* A list of nodes, one for a client.                                      *)
NodesOK(pool) ==
    /\ pool \in Seq(DhcpNode)
    /\ \A i, j \in 1..Len(pool) : i < j => pool[i].mac # pool[j].mac

(* What DhcpUnique says of the pool, of any list of nodes.                 *)
Ordered(pool) ==
    /\ \A i \in 1..Len(pool) : InRange(pool[i].ip)
    /\ \A i, j \in 1..Len(pool) : i < j => pool[i].ip < pool[j].ip

PoolOK(pool) == NodesOK(pool) /\ Ordered(pool)

Has(pool, m, a) == \E i \in 1..Len(pool) : pool[i] = [mac |-> m, ip |-> a]

(* q and r are quotient and remainder of x and n.                          *)
DivAt(x, n, q, r) == n \in Nat /\ n # 0 /\ q \in Nat /\ r \in 0..n - 1 /\ x = n * q + r

LEMMA ModIs ==
  ASSUME NEW x, NEW n, NEW q, NEW r, DivAt(x, n, q, r)
  PROVE  x % n = r /\ x \div n = q
<1>0. n \in Nat /\ n # 0 /\ q \in Nat /\ r \in 0..n - 1 /\ x = n * q + r /\ x \in Nat
  <2>1. n \in Nat /\ n # 0 /\ q \in Nat /\ r \in 0..n - 1 /\ x = n * q + r
    BY DEF DivAt
  <2>2. QED
    BY <2>1
<1>1. PICK d \in Nat, e \in 0..n - 1 : d = x \div n /\ e = x % n /\ x = n * d + e
  <2>1. x \div n \in Nat /\ x % n \in 0..n - 1 /\ x = n * (x \div n) + (x % n)
    BY <1>0
  <2>2. QED
    BY <2>1
<1>2. ~(d < q)
  <2> SUFFICES ASSUME d < q PROVE FALSE
    OBVIOUS
  <2>1. PICK h \in Nat : q = d + 1 + h
    BY <1>0, <1>1
  <2>2. n * q = n * d + n + n * h /\ n * h >= 0
    BY <1>0, <1>1, <2>1
  <2>3. QED
    BY <1>0, <1>1, <2>1, <2>2
<1>3. ~(q < d)
  <2> SUFFICES ASSUME q < d PROVE FALSE
    OBVIOUS
  <2>1. PICK h \in Nat : d = q + 1 + h
    BY <1>0, <1>1
  <2>2. n * d = n * q + n + n * h /\ n * h >= 0
    BY <1>0, <1>1, <2>1
  <2>3. QED
    BY <1>0, <1>1, <2>1, <2>2
<1>4. d = q
  BY <1>0, <1>1, <1>2, <1>3
<1>5. e = r
  BY <1>0, <1>1, <1>4
<1>6. QED
  BY <1>1, <1>4, <1>5

(* On the range and the address after it the two orders agree.             *)
LEMMA NetOrder ==
  ASSUME RangeOK, NEW a \in Nat, NEW b \in Nat,
         dhcpLease.start <= a, a <= dhcpLease.end + 1,
         dhcpLease.start <= b, b <= dhcpLease.end + 1
  PROVE  DhcpBefore(a, b) <=> a < b
<1>1. PICK n \in Nat : n = DhcpNet /\ n # 0
  BY DhcpAssumption
<1>2. PICK start \in Nat, end \in Nat : start = dhcpLease.start /\ end = dhcpLease.end
  BY DEF RangeOK
<1>3. start <= end /\ start \div n = end \div n /\ end % n < n - 1
  BY <1>1, <1>2 DEF RangeOK
<1>4. PICK q \in Nat, s \in 0..n - 1 : q = start \div n /\ start = n * q + s
  <2>1. start \div n \in Nat /\ start % n \in 0..n - 1 /\ start = n * (start \div n) + (start % n)
    BY <1>1
  <2>2. QED
    BY <2>1
<1>5. PICK e \in 0..n - 2 : end = n * q + e
  <2>1. end % n \in 0..n - 1 /\ end = n * (end \div n) + (end % n)
    BY <1>1
  <2>2. end % n \in 0..n - 2
    BY <1>1, <1>3, <2>1
  <2>3. QED
    BY <1>3, <1>4, <2>1, <2>2
<1>6. PICK p \in Nat : p = n * q
  OBVIOUS
<1>7. PICK c \in 0..n - 1 : a = n * q + c
  <2>1. a - p \in 0..n - 1
    BY <1>1, <1>2, <1>4, <1>5, <1>6
  <2>2. a = p + (a - p)
    BY <1>6
  <2>3. QED
    BY <1>6, <2>1, <2>2
<1>8. PICK d \in 0..n - 1 : b = n * q + d
  <2>1. b - p \in 0..n - 1
    BY <1>1, <1>2, <1>4, <1>5, <1>6
  <2>2. b = p + (b - p)
    BY <1>6
  <2>3. QED
    BY <1>6, <2>1, <2>2
<1>9. a % n = c /\ b % n = d
  <2>1. DivAt(a, n, q, c)
    BY <1>1, <1>4, <1>7 DEF DivAt
  <2>2. DivAt(b, n, q, d)
    BY <1>1, <1>4, <1>8 DEF DivAt
  <2>3. QED
    BY <2>1, <2>2, ModIs
<1>10. a < b <=> c < d
  BY <1>6, <1>7, <1>8
<1>11. a = b <=> c = d
  BY <1>6, <1>7, <1>8
<1>12. DhcpBefore(a, b) <=> c < d \/ (c = d /\ a < b)
  BY <1>1, <1>9 DEF DhcpBefore
<1>13. QED
  BY <1>10, <1>11, <1>12

(* s is pool without its node at p.                                        *)
RemovedAt(s, pool, p) ==
    /\ Len(s) = Len(pool) - 1
    /\ \A i \in 1..Len(s) : s[i] = IF i < p THEN pool[i] ELSE pool[i + 1]

LEMMA RemoveAtIs ==
  ASSUME NEW S, NEW pool \in Seq(S), NEW p \in 1..Len(pool)
  PROVE  RemoveAt(pool, p) \in Seq(S) /\ RemovedAt(RemoveAt(pool, p), pool, p)
<1>1. Len(pool) \in Nat
  OBVIOUS
<1>2. PICK a : a = SubSeq(pool, 1, p - 1)
  OBVIOUS
<1>3. PICK b : b = SubSeq(pool, p + 1, Len(pool))
  OBVIOUS
<1>4. a \in Seq(S) /\ Len(a) = p - 1 /\ \A i \in 1..p - 1 : a[i] = pool[i]
  BY <1>1, <1>2
<1>5. /\ b \in Seq(S) /\ Len(b) = Len(pool) - p
      /\ \A i \in 1..Len(pool) - p : b[i] = pool[p + i]
  <2>1. b \in Seq(S) /\ Len(b) = Len(pool) - p
    BY <1>1, <1>3
  <2>2. \A i \in 1..Len(pool) - p : b[i] = pool[(p + 1) + i - 1]
    BY <1>1, <1>3
  <2>3. \A i \in 1..Len(pool) - p : (p + 1) + i - 1 = p + i
    BY <1>1
  <2>4. QED
    BY <2>1, <2>2, <2>3
<1>6. PICK s : s = a \o b
  OBVIOUS
<1>7. s \in Seq(S) /\ Len(s) = Len(pool) - 1
  BY <1>1, <1>4, <1>5, <1>6
<1>8. ASSUME NEW i \in 1..Len(s)
      PROVE  s[i] = IF i < p THEN pool[i] ELSE pool[i + 1]
  <2>1. CASE i < p
    <3>1. s[i] = a[i] /\ i \in 1..p - 1
      BY <1>1, <1>4, <1>5, <1>6, <1>7, <2>1
    <3>2. QED
      BY <1>4, <2>1, <3>1
  <2>2. CASE ~(i < p)
    <3>1. s[i] = b[i - (p - 1)] /\ i - (p - 1) \in 1..Len(pool) - p
      BY <1>1, <1>4, <1>5, <1>6, <1>7, <2>2
    <3>2. p + (i - (p - 1)) = i + 1
      BY <1>1, <1>7
    <3>3. QED
      BY <1>5, <2>2, <3>1, <3>2
  <2>3. QED
    BY <2>1, <2>2
<1>9. RemoveAt(pool, p) = s
  BY <1>2, <1>3, <1>6 DEF RemoveAt
<1>10. QED
  BY <1>7, <1>8, <1>9 DEF RemovedAt

(* s is pool with node put in front of the node at p.                      *)
InsertedAt(s, pool, node, p) ==
    /\ Len(s) = Len(pool) + 1
    /\ s[p] = node
    /\ \A i \in 1..p - 1 : s[i] = pool[i]
    /\ \A i \in p..Len(pool) : s[i + 1] = pool[i]

LEMMA InsertAtIs ==
  ASSUME NEW S, NEW pool \in Seq(S), NEW node \in S, NEW p \in 1..Len(pool)
  PROVE  InsertAt(pool, p, node) \in Seq(S) /\ InsertedAt(InsertAt(pool, p, node), pool, node, p)
<1>1. Len(pool) \in Nat
  OBVIOUS
<1>2. PICK a : a = SubSeq(pool, 1, p - 1)
  OBVIOUS
<1>3. PICK b : b = SubSeq(pool, p, Len(pool))
  OBVIOUS
<1>4. a \in Seq(S) /\ Len(a) = p - 1 /\ \A i \in 1..p - 1 : a[i] = pool[i]
  BY <1>1, <1>2
<1>5. /\ b \in Seq(S) /\ Len(b) = Len(pool) - p + 1
      /\ \A i \in 1..Len(pool) - p + 1 : b[i] = pool[p + i - 1]
  BY <1>1, <1>3
<1>6. PICK c : c = a \o <<node>>
  OBVIOUS
<1>7. c \in Seq(S) /\ Len(c) = p /\ c[p] = node /\ \A i \in 1..p - 1 : c[i] = pool[i]
  BY <1>1, <1>4, <1>6
<1>8. PICK s : s = c \o b
  OBVIOUS
<1>9. s \in Seq(S) /\ Len(s) = Len(pool) + 1
  <2>1. s \in Seq(S) /\ Len(s) = Len(c) + Len(b)
    <3>1. b \in Seq(S) /\ c \in Seq(S)
      BY <1>5, <1>7
    <3>2. QED
      BY <1>8, <3>1
  <2>2. QED
    BY <1>1, <1>5, <1>7, <2>1
<1>10. s[p] = node /\ \A i \in 1..p - 1 : s[i] = pool[i]
  <2>1. \A i \in 1..p : s[i] = c[i]
    BY <1>1, <1>5, <1>7, <1>8
  <2>2. QED
    BY <1>1, <1>7, <2>1
<1>11. ASSUME NEW i \in p..Len(pool)
       PROVE  s[i + 1] = pool[i]
  <2>1. s[i + 1] = b[i + 1 - p] /\ i + 1 - p \in 1..Len(pool) - p + 1
    BY <1>1, <1>5, <1>7, <1>8, <1>9
  <2>2. p + (i + 1 - p) - 1 = i
    BY <1>1
  <2>3. QED
    BY <1>5, <2>1, <2>2
<1>12. InsertAt(pool, p, node) = s
  BY <1>2, <1>3, <1>6, <1>8 DEF InsertAt
<1>13. QED
  BY <1>9, <1>10, <1>11, <1>12 DEF InsertedAt

(* The address of a client and the client itself are at one place.         *)
LEMMA RemoveOK ==
  ASSUME NEW pool, NodesOK(pool), NEW p \in 1..Len(pool), NEW s,
         s = RemoveAt(pool, p)
  PROVE  /\ NodesOK(s) /\ (Ordered(pool) => Ordered(s)) /\ RemovedAt(s, pool, p)
         /\ \A i \in 1..Len(s) : s[i].mac # pool[p].mac
         /\ \A i \in 1..Len(s) : \E j \in 1..Len(pool) : s[i] = pool[j]
         /\ \A j \in 1..Len(pool) : j # p => \E i \in 1..Len(s) : s[i] = pool[j]
<1>1. pool \in Seq(DhcpNode) /\ Len(pool) \in Nat
  BY DEF NodesOK
<1>2. s \in Seq(DhcpNode) /\ RemovedAt(s, pool, p)
  BY <1>1, RemoveAtIs
<1>3. Len(s) = Len(pool) - 1
  BY <1>2 DEF RemovedAt
<1>4. PICK at : at = [i \in 1..Len(s) |-> IF i < p THEN i ELSE i + 1]
  OBVIOUS
<1>5. \A i \in 1..Len(s) : at[i] \in 1..Len(pool) /\ s[i] = pool[at[i]] /\ at[i] # p
  BY <1>1, <1>2, <1>3, <1>4 DEF RemovedAt
<1>6. \A i, j \in 1..Len(s) : i < j => at[i] < at[j]
  BY <1>1, <1>3, <1>4
<1>7. NodesOK(s) /\ (Ordered(pool) => Ordered(s))
  <2>1. ASSUME NEW i \in 1..Len(s), NEW j \in 1..Len(s), i < j
        PROVE  \E x \in 1..Len(pool), y \in 1..Len(pool) : x < y /\ s[i] = pool[x] /\ s[j] = pool[y]
    BY <1>5, <1>6, <2>1
  <2>2. NodesOK(s)
    <3>1. ASSUME NEW i \in 1..Len(s), NEW j \in 1..Len(s), i < j
          PROVE  s[i].mac # s[j].mac
      BY <2>1, <3>1 DEF NodesOK
    <3>2. QED
      BY <1>2, <3>1 DEF NodesOK
  <2>3. ASSUME Ordered(pool)
        PROVE  Ordered(s)
    <3>1. \A i \in 1..Len(s) : InRange(s[i].ip)
      BY <1>5, <2>3 DEF Ordered
    <3>2. ASSUME NEW i \in 1..Len(s), NEW j \in 1..Len(s), i < j
          PROVE  s[i].ip < s[j].ip
      <4>1. PICK x \in 1..Len(pool), y \in 1..Len(pool) : x < y /\ s[i] = pool[x] /\ s[j] = pool[y]
        BY <2>1, <3>2
      <4>2. pool[x].ip < pool[y].ip
        BY <2>3, <4>1 DEF Ordered
      <4>3. QED
        BY <4>1, <4>2
    <3>3. QED
      BY <3>1, <3>2 DEF Ordered
  <2>4. QED
    BY <2>2, <2>3
<1>8. \A i \in 1..Len(s) : s[i].mac # pool[p].mac
  <2> TAKE i \in 1..Len(s)
  <2>1. at[i] \in 1..Len(pool) /\ (at[i] < p \/ p < at[i])
    BY <1>1, <1>5
  <2>2. pool[at[i]].mac # pool[p].mac
    BY <2>1 DEF NodesOK
  <2>3. QED
    BY <1>5, <2>2
<1>9. ASSUME NEW j \in 1..Len(pool), j # p
      PROVE  \E i \in 1..Len(s) : s[i] = pool[j]
  <2>1. CASE j < p
    <3>1. j \in 1..Len(s) /\ at[j] = j
      BY <1>1, <1>3, <1>4, <2>1
    <3>2. QED
      BY <1>5, <3>1
  <2>2. CASE j > p
    <3>1. j - 1 \in 1..Len(s) /\ at[j - 1] = j
      BY <1>1, <1>3, <1>4, <2>2
    <3>2. QED
      BY <1>5, <3>1
  <2>3. QED
    BY <1>1, <1>9, <2>1, <2>2
<1>10. QED
  BY <1>2, <1>5, <1>7, <1>8, <1>9

(* node_insert_to_list(): the node is put in at one place, behind those    *)
(* that are not greater.                                                   *)
LEMMA InsertNode ==
  ASSUME NEW pool, NodesOK(pool), NEW node \in DhcpNode,
         \A i \in 1..Len(pool) : pool[i].mac # node.mac,
         NEW s, s = DhcpInsert(pool, node)
  PROVE  /\ NodesOK(s)
         /\ \E p \in 1..Len(pool) + 1 :
              /\ InsertedAt(s, pool, node, p)
              /\ \A i \in 1..p - 1 : ~DhcpBefore(node.ip, pool[i].ip)
              /\ p \in 1..Len(pool) => DhcpBefore(node.ip, pool[p].ip)
<1>1. pool \in Seq(DhcpNode) /\ Len(pool) \in Nat /\ DOMAIN pool = 1..Len(pool)
  BY DEF NodesOK
<1>4. PICK greater : greater = {i \in 1..Len(pool) : DhcpBefore(node.ip, pool[i].ip)}
  OBVIOUS
<1>5. s = IF greater = {} THEN Append(pool, node) ELSE InsertAt(pool, Min(greater), node)
  BY <1>1, <1>4 DEF DhcpInsert
<1>6. \E p \in 1..Len(pool) + 1 :
         /\ s \in Seq(DhcpNode)
         /\ InsertedAt(s, pool, node, p)
         /\ \A i \in 1..p - 1 : ~DhcpBefore(node.ip, pool[i].ip)
         /\ p \in 1..Len(pool) => DhcpBefore(node.ip, pool[p].ip)
  <2>1. CASE greater = {}
    <3>1. s = Append(pool, node) /\ Len(pool) + 1 \in 1..Len(pool) + 1
      BY <1>1, <1>5, <2>1
    <3>2. s \in Seq(DhcpNode) /\ InsertedAt(s, pool, node, Len(pool) + 1)
      BY <1>1, <3>1 DEF InsertedAt
    <3>3. \A i \in 1..Len(pool) : ~DhcpBefore(node.ip, pool[i].ip)
      BY <1>4, <2>1
    <3>4. \A i \in 1..(Len(pool) + 1) - 1 : ~DhcpBefore(node.ip, pool[i].ip)
      BY <1>1, <3>3
    <3>5. Len(pool) + 1 \notin 1..Len(pool)
      BY <1>1
    <3>6. QED
      BY <3>1, <3>2, <3>4, <3>5
  <2>2. CASE greater # {}
    <3>1. PICK p : p = Min(greater)
      OBVIOUS
    <3>2. p \in greater /\ \A i \in greater : p <= i
      <4>1. greater \in SUBSET Nat
        BY <1>1, <1>4
      <4>2. QED
        BY <2>2, <3>1, <4>1, MinNat
    <3>3. p \in 1..Len(pool) /\ DhcpBefore(node.ip, pool[p].ip)
      BY <1>4, <3>2
    <3>4. s \in Seq(DhcpNode) /\ InsertedAt(s, pool, node, p)
      BY <1>1, <1>5, <2>2, <3>1, <3>3, InsertAtIs
    <3>5. \A i \in 1..p - 1 : ~DhcpBefore(node.ip, pool[i].ip)
      <4> TAKE i \in 1..p - 1
      <4>1. i \in 1..Len(pool) /\ ~(p <= i)
        BY <1>1, <3>3
      <4>2. QED
        BY <1>4, <3>2, <4>1
    <3>7. p \in 1..Len(pool) + 1
      BY <1>1, <3>3
    <3>8. QED
      BY <3>3, <3>4, <3>5, <3>7
  <2>3. QED
    BY <2>1, <2>2
<1>7. PICK p \in 1..Len(pool) + 1 :
         /\ s \in Seq(DhcpNode)
         /\ InsertedAt(s, pool, node, p)
         /\ \A i \in 1..p - 1 : ~DhcpBefore(node.ip, pool[i].ip)
         /\ p \in 1..Len(pool) => DhcpBefore(node.ip, pool[p].ip)
  BY <1>6
<1>8. PICK at : at = [i \in 1..Len(s) |-> IF i < p THEN i ELSE i - 1]
  OBVIOUS
<1>9. Len(s) = Len(pool) + 1 /\ s[p] = node /\ p \in 1..Len(s)
  BY <1>1, <1>7 DEF InsertedAt
<1>10. ASSUME NEW i \in 1..Len(s), i # p
       PROVE  at[i] \in 1..Len(pool) /\ s[i] = pool[at[i]]
  <2>1. CASE i < p
    <3>1. at[i] = i /\ i \in 1..p - 1 /\ i \in 1..Len(pool)
      BY <1>1, <1>8, <1>9, <2>1
    <3>2. QED
      BY <1>7, <3>1 DEF InsertedAt
  <2>2. CASE i > p
    <3>1. at[i] = i - 1 /\ i - 1 \in p..Len(pool) /\ (i - 1) + 1 = i /\ i - 1 \in 1..Len(pool)
      BY <1>1, <1>8, <1>9, <2>2
    <3>2. s[i] = pool[i - 1]
      BY <1>7, <3>1 DEF InsertedAt
    <3>4. QED
      BY <3>1, <3>2
  <2>3. QED
    BY <1>1, <1>9, <1>10, <2>1, <2>2
<1>11. \A i, j \in 1..Len(s) : i # p /\ j # p /\ i < j => at[i] < at[j]
  BY <1>1, <1>8, <1>9
<1>13. ASSUME NEW i \in 1..Len(s), NEW j \in 1..Len(s), i < j
       PROVE  s[i].mac # s[j].mac
  <2>1. CASE i = p
    <3>1. j # p
      BY <1>1, <1>9, <1>13, <2>1
    <3>2. at[j] \in 1..Len(pool) /\ s[j] = pool[at[j]]
      BY <1>10, <3>1
    <3>4. QED
      BY <1>9, <2>1, <3>2
  <2>2. CASE j = p
    <3>1. at[i] \in 1..Len(pool) /\ s[i] = pool[at[i]]
      BY <1>1, <1>9, <1>10, <1>13, <2>2
    <3>3. QED
      BY <1>9, <2>2, <3>1
  <2>3. CASE i # p /\ j # p
    <3>1. PICK x \in 1..Len(pool), y \in 1..Len(pool) : x < y /\ s[i] = pool[x] /\ s[j] = pool[y]
      BY <1>10, <1>11, <1>13, <2>3
    <3>2. QED
      BY <3>1 DEF NodesOK
  <2>4. QED
    BY <2>1, <2>2, <2>3
<1>14. NodesOK(s)
  BY <1>7, <1>13 DEF NodesOK
<1>15. QED
  BY <1>7, <1>14

(* node_insert_to_list() keeps the order.                                  *)
LEMMA InsertOK ==
  ASSUME RangeOK, NEW pool, PoolOK(pool), NEW node \in DhcpNode, InRange(node.ip),
         \A i \in 1..Len(pool) : pool[i].ip # node.ip /\ pool[i].mac # node.mac,
         NEW s, s = DhcpInsert(pool, node)
  PROVE  /\ PoolOK(s)
         /\ \E p \in 1..Len(pool) + 1 :
              /\ InsertedAt(s, pool, node, p)
              /\ \A i \in 1..p - 1 : pool[i].ip < node.ip
              /\ \A i \in p..Len(pool) : pool[i].ip > node.ip
<1>1. pool \in Seq(DhcpNode) /\ Len(pool) \in Nat /\ DOMAIN pool = 1..Len(pool)
  BY DEF PoolOK, NodesOK
<1>2. node.ip \in Nat /\ \A i \in 1..Len(pool) : pool[i].ip \in Nat
  <2>1. \A i \in 1..Len(pool) : pool[i] \in DhcpNode
    BY <1>1
  <2>2. QED
    BY <2>1 DEF DhcpNode
<1>3. \A i, j \in 1..Len(pool) : i < j => pool[i].ip < pool[j].ip
  BY DEF PoolOK, Ordered
<1>4. NodesOK(pool) /\ node.mac \in DhcpMacs
  BY DEF PoolOK, DhcpNode
<1>5. PICK p \in 1..Len(pool) + 1 :
         /\ InsertedAt(s, pool, node, p)
         /\ \A i \in 1..p - 1 : ~DhcpBefore(node.ip, pool[i].ip)
         /\ p \in 1..Len(pool) => DhcpBefore(node.ip, pool[p].ip)
  BY <1>4, InsertNode
<1>16. NodesOK(s)
  BY <1>4, InsertNode
<1>6. \A i \in 1..Len(pool) : DhcpBefore(node.ip, pool[i].ip) <=> node.ip < pool[i].ip
  <2> TAKE i \in 1..Len(pool)
  <2>1. InRange(pool[i].ip)
    BY DEF PoolOK, Ordered
  <2>2. PICK a \in Nat, b \in Nat : a = node.ip /\ b = pool[i].ip
    BY <1>2
  <2>3. /\ dhcpLease.start <= a /\ a <= dhcpLease.end + 1
        /\ dhcpLease.start <= b /\ b <= dhcpLease.end + 1
    BY <2>1, <2>2 DEF InRange, RangeOK
  <2>4. QED
    BY <2>2, <2>3, NetOrder
<1>7. /\ s \in Seq(DhcpNode)
      /\ InsertedAt(s, pool, node, p)
      /\ \A i \in 1..p - 1 : pool[i].ip < node.ip
      /\ \A i \in p..Len(pool) : pool[i].ip > node.ip
  <2>1. \A i \in 1..p - 1 : pool[i].ip < node.ip
    <3> TAKE i \in 1..p - 1
    <3>1. i \in 1..Len(pool)
      BY <1>1
    <3>2. ~(node.ip < pool[i].ip) /\ pool[i].ip # node.ip
      BY <1>5, <1>6, <3>1
    <3>3. QED
      BY <1>2, <3>1, <3>2
  <2>2. \A i \in p..Len(pool) : pool[i].ip > node.ip
    <3> TAKE i \in p..Len(pool)
    <3>1. i \in 1..Len(pool) /\ p \in 1..Len(pool) /\ (i = p \/ p < i)
      BY <1>1
    <3>2. node.ip < pool[p].ip
      BY <1>5, <1>6, <3>1
    <3>3. i = p \/ pool[p].ip < pool[i].ip
      BY <1>3, <3>1
    <3>4. QED
      BY <1>2, <3>1, <3>2, <3>3
  <2>3. QED
    BY <1>5, <1>16, <2>1, <2>2 DEF NodesOK
<1>8. PICK at : at = [i \in 1..Len(s) |-> IF i < p THEN i ELSE i - 1]
  OBVIOUS
<1>9. Len(s) = Len(pool) + 1 /\ s[p] = node /\ p \in 1..Len(s)
  BY <1>1, <1>7 DEF InsertedAt
<1>10. ASSUME NEW i \in 1..Len(s), i # p
       PROVE  at[i] \in 1..Len(pool) /\ s[i] = pool[at[i]] /\ (i < p <=> pool[at[i]].ip < node.ip)
  <2>1. CASE i < p
    <3>1. at[i] = i /\ i \in 1..p - 1 /\ i \in 1..Len(pool)
      BY <1>1, <1>8, <1>9, <2>1
    <3>2. QED
      BY <1>7, <2>1, <3>1 DEF InsertedAt
  <2>2. CASE i > p
    <3>1. at[i] = i - 1 /\ i - 1 \in p..Len(pool) /\ (i - 1) + 1 = i
      BY <1>1, <1>8, <1>9, <2>2
    <3>2. s[i] = pool[i - 1] /\ pool[i - 1].ip > node.ip
      BY <1>7, <3>1 DEF InsertedAt
    <3>3. i - 1 \in 1..Len(pool) /\ ~(i < p)
      BY <1>1, <1>9, <2>2
    <3>4. QED
      BY <1>2, <3>1, <3>2, <3>3
  <2>3. QED
    BY <1>1, <1>9, <1>10, <2>1, <2>2
<1>11. \A i, j \in 1..Len(s) : i # p /\ j # p /\ i < j => at[i] < at[j]
  BY <1>1, <1>8, <1>9
<1>12. \A i \in 1..Len(s) : InRange(s[i].ip)
  BY <1>9, <1>10 DEF PoolOK, Ordered
<1>13. ASSUME NEW i \in 1..Len(s), NEW j \in 1..Len(s), i < j
       PROVE  s[i].ip < s[j].ip
  <2>1. CASE i = p
    <3>1. j # p /\ ~(j < p)
      BY <1>1, <1>9, <1>13, <2>1
    <3>2. at[j] \in 1..Len(pool) /\ s[j] = pool[at[j]] /\ ~(pool[at[j]].ip < node.ip)
      BY <1>10, <3>1
    <3>3. pool[at[j]].ip # node.ip
      BY <3>2
    <3>4. QED
      BY <1>2, <1>9, <2>1, <3>2, <3>3
  <2>2. CASE j = p
    <3>1. at[i] \in 1..Len(pool) /\ s[i] = pool[at[i]] /\ pool[at[i]].ip < node.ip
      BY <1>1, <1>9, <1>10, <1>13, <2>2
    <3>2. QED
      BY <1>9, <2>2, <3>1
  <2>3. CASE i # p /\ j # p
    BY <1>10, <1>11, <1>13, <2>3, SMTT(30) DEF PoolOK, Ordered
  <2>4. QED
    BY <2>1, <2>2, <2>3
<1>14. PoolOK(s)
  BY <1>12, <1>13, <1>16 DEF PoolOK, Ordered
<1>15. QED
  BY <1>7, <1>14

(* There are no more addresses before a node than nodes.                   *)
LEMMA SortedAbove ==
  ASSUME RangeOK, NEW pool, PoolOK(pool), NEW j \in 1..Len(pool)
  PROVE  pool[j].ip \in Nat /\ pool[j].ip >= dhcpLease.start + j - 1
<1>1. pool \in Seq(DhcpNode) /\ Len(pool) \in Nat
  BY DEF PoolOK, NodesOK
<1>2. PICK start \in Nat : start = dhcpLease.start
  BY DEF RangeOK
<1>3. \A i \in 1..Len(pool) : pool[i].ip \in Nat
  <2>1. \A i \in 1..Len(pool) : pool[i] \in DhcpNode
    BY <1>1
  <2>2. QED
    BY <2>1 DEF DhcpNode
<1>4. \A i \in 1..Len(pool) : pool[i].ip >= start
  BY <1>2, <1>3 DEF PoolOK, Ordered, InRange, RangeOK
<1> DEFINE T == {i \in 1..Len(pool) : pool[i].ip < start + i - 1}
<1>5. ASSUME T # {}
      PROVE  FALSE
  <2>1. T \in SUBSET Nat
    BY <1>1
  <2> HIDE DEF T
  <2>2. PICK i \in T : \A y \in T : i <= y
    BY <1>5, <2>1, LeastNat
  <2>3. i \in 1..Len(pool) /\ pool[i].ip < start + i - 1
    BY <2>2 DEF T
  <2>4. i # 1
    BY <1>2, <1>3, <1>4, <2>3
  <2>5. i - 1 \in 1..Len(pool) /\ i - 1 \notin T
    BY <1>1, <2>2, <2>3, <2>4
  <2>6. pool[i - 1].ip >= start + (i - 1) - 1
    BY <1>2, <1>3, <2>5, SMTT(30) DEF T
  <2>7. pool[i - 1].ip < pool[i].ip
    BY <1>1, <2>3, <2>5 DEF PoolOK, Ordered
  <2>8. PICK x \in Nat, y \in Nat : x = pool[i - 1].ip /\ y = pool[i].ip
    BY <1>3, <2>3, <2>5
  <2>9. x >= start + (i - 1) - 1 /\ x < y /\ y < start + i - 1
    BY <2>3, <2>6, <2>7, <2>8
  <2>10. i \in Nat
    BY <2>3
  <2>11. QED
    BY <2>9, <2>10
<1>6. j \notin T
  BY <1>5
<1>7. QED
  BY <1>1, <1>2, <1>3, <1>6

(* The search ends at a node that does not have the next address, or is    *)
(* the client's own, or behind the last node: whatever is in the pool.     *)
SearchEnds(pool, m, start, k) ==
    /\ DhcpFirstGap(pool, m) = start + k
    /\ \A i \in 1..k : pool[i].ip = start + i - 1 /\ pool[i].mac # m
    /\ k # Len(pool) => pool[k + 1].ip # start + k \/ pool[k + 1].mac = m

LEMMA FirstGapSome ==
  ASSUME NEW start \in Nat, start = dhcpLease.start, NEW pool, NodesOK(pool), NEW m \in DhcpMacs
  PROVE  \E k \in 0..Len(pool) : SearchEnds(pool, m, start, k)
<1>1. pool \in Seq(DhcpNode) /\ Len(pool) \in Nat /\ DOMAIN pool = 1..Len(pool)
  BY DEF NodesOK
<1>2. start = dhcpLease.start
  OBVIOUS
<1>3. PICK limit \in 0..Len(pool) :
        /\ limit = IF DhcpIndex(pool, m) = {} THEN Len(pool) ELSE Min(DhcpIndex(pool, m)) - 1
        /\ \A i \in 1..limit : pool[i].mac # m
        /\ limit # Len(pool) => pool[limit + 1].mac = m
  <2>1. CASE DhcpIndex(pool, m) = {}
    <3>1. Len(pool) \in 0..Len(pool) /\ \A i \in 1..Len(pool) : pool[i].mac # m
      BY <1>1, <2>1 DEF DhcpIndex
    <3>2. QED
      BY <2>1, <3>1
  <2>2. CASE DhcpIndex(pool, m) # {}
    <3>1. PICK p : p = Min(DhcpIndex(pool, m))
      OBVIOUS
    <3>2. DhcpIndex(pool, m) \in SUBSET Nat
      BY <1>1 DEF DhcpIndex
    <3>3. p \in DhcpIndex(pool, m) /\ \A i \in DhcpIndex(pool, m) : p <= i
      BY <2>2, <3>1, <3>2, MinNat
    <3>4. p \in 1..Len(pool) /\ pool[p].mac = m
      BY <1>1, <3>3 DEF DhcpIndex
    <3>5. p - 1 \in 0..Len(pool) /\ (p - 1) + 1 = p
      BY <1>1, <3>4
    <3>6. \A i \in 1..p - 1 : pool[i].mac # m
      <4> TAKE i \in 1..p - 1
      <4>1. i \in 1..Len(pool) /\ ~(p <= i)
        BY <1>1, <3>4
      <4>2. QED
        BY <1>1, <3>3, <4>1 DEF DhcpIndex
    <3>7. QED
      BY <2>2, <3>1, <3>4, <3>5, <3>6
  <2>3. QED
    BY <2>1, <2>2
<1>4. limit \in Nat /\ limit <= Len(pool)
  BY <1>1
<1>5. PICK T : T = {k \in 0..limit : \A i \in 1..k : pool[i].ip = start + i - 1}
  OBVIOUS
<1>6. PICK k : k = Max(T)
  OBVIOUS
<1>7. k \in T /\ \A y \in T : k >= y
  <2>1. T \in SUBSET Nat /\ \A y \in T : y <= limit
    BY <1>1, <1>4, <1>5
  <2>2. 0 \in T
    BY <1>1, <1>4, <1>5
  <2>3. limit \in Nat
    BY <1>1, <1>4
  <2>4. QED
    BY <1>6, <2>1, <2>2, <2>3, MaxNat
<1>8. k \in 0..limit /\ k \in Nat /\ k \in 0..Len(pool) /\ \A i \in 1..k : pool[i].ip = start + i - 1
  <2>1. k \in 0..limit /\ \A i \in 1..k : pool[i].ip = start + i - 1
    BY <1>5, <1>7
  <2>2. QED
    BY <1>1, <1>4, <2>1
<1>9. DhcpFirstGap(pool, m) = start + k
  BY <1>2, <1>3, <1>5, <1>6 DEF DhcpFirstGap
<1>10. \A i \in 1..k : pool[i].mac # m
  <2>1. 1..k \subseteq 1..limit
    BY <1>4, <1>8
  <2>2. QED
    BY <1>3, <2>1
<1>11. ASSUME k # Len(pool)
       PROVE  pool[k + 1].ip # start + k \/ pool[k + 1].mac = m
  <2>1. CASE k = limit
    BY <1>3, <1>11, <2>1
  <2>2. CASE k # limit
    <3>1. k + 1 \in 0..limit /\ k + 1 \notin T
      BY <1>1, <1>4, <1>7, <1>8, <2>2
    <3>2. PICK i \in 1..k + 1 : pool[i].ip # start + i - 1
      BY <1>5, <3>1
    <3>3. i = k + 1
      BY <1>8, <3>2
    <3>4. pool[k + 1].ip # start + (k + 1) - 1
      BY <3>2, <3>3
    <3>5. start + (k + 1) - 1 = start + k
      BY <1>8
    <3>6. QED
      BY <3>4, <3>5
  <2>3. QED
    BY <2>1, <2>2
<1>12. \A i \in 1..k : pool[i].ip = start + i - 1 /\ pool[i].mac # m
  BY <1>8, <1>10
<1>13. k \in 0..Len(pool)
  BY <1>8
<1>14. k # Len(pool) => pool[k + 1].ip # start + k \/ pool[k + 1].mac = m
  BY <1>11
<1>15. SearchEnds(pool, m, start, k)
  BY <1>9, <1>12, <1>14, Zenon DEF SearchEnds
<1>16. QED
  BY <1>13, <1>15

(* The first gap: the nodes in front of it are without a gap and none is   *)
(* the client's; the nodes behind it have greater addresses, or the first  *)
(* of them is the client's own.                                            *)
GapAt(pool, m, k) ==
    /\ \A i \in 1..k : pool[i].ip = dhcpLease.start + i - 1 /\ pool[i].mac # m
    /\ \A j \in k + 1..Len(pool) :
         \/ pool[j].ip > dhcpLease.start + k
         \/ j = k + 1 /\ pool[j].mac = m /\ pool[j].ip >= dhcpLease.start + k

LEMMA FirstGapIs ==
  ASSUME RangeOK, NEW pool, PoolOK(pool), NEW m \in DhcpMacs
  PROVE  \E k \in 0..Len(pool) : DhcpFirstGap(pool, m) = dhcpLease.start + k /\ GapAt(pool, m, k)
<1>1. pool \in Seq(DhcpNode) /\ Len(pool) \in Nat
  BY DEF PoolOK, NodesOK
<1>2. PICK start \in Nat : start = dhcpLease.start
  BY DEF RangeOK
<1>3. PICK k \in 0..Len(pool) : SearchEnds(pool, m, start, k)
  BY <1>2, FirstGapSome DEF PoolOK
<1>4. /\ DhcpFirstGap(pool, m) = start + k
      /\ \A i \in 1..k : pool[i].ip = start + i - 1 /\ pool[i].mac # m
      /\ k # Len(pool) => pool[k + 1].ip # start + k \/ pool[k + 1].mac = m
  BY <1>3 DEF SearchEnds
<1>8. k \in Nat
  BY <1>1, <1>3
<1>11. ASSUME NEW j \in k + 1..Len(pool)
       PROVE  \/ pool[j].ip > start + k
              \/ j = k + 1 /\ pool[j].mac = m /\ pool[j].ip >= start + k
  <2>1. k + 1 \in 1..Len(pool) /\ j \in 1..Len(pool) /\ j \in Nat /\ k # Len(pool)
    BY <1>1, <1>8
  <2>2. pool[k + 1].ip \in Nat /\ pool[k + 1].ip >= start + (k + 1) - 1
    BY <1>2, <2>1, SortedAbove
  <2>3. pool[k + 1].ip >= start + k
    BY <1>2, <1>8, <2>2
  <2>4. pool[j].ip \in Nat
    BY <2>1, SortedAbove
  <2>5. CASE j # k + 1
    <3>1. k + 1 < j
      BY <1>8, <2>1, <2>5
    <3>2. pool[k + 1].ip < pool[j].ip
      BY <2>1, <3>1 DEF PoolOK, Ordered
    <3>3. PICK x \in Nat, y \in Nat : x = pool[k + 1].ip /\ y = pool[j].ip
      BY <2>2, <2>4
    <3>4. x >= start + k /\ x < y
      BY <2>3, <3>2, <3>3
    <3>5. y > start + k
      BY <1>8, <3>4
    <3>6. QED
      BY <3>3, <3>5
  <2>6. CASE j = k + 1
    <3>1. PICK x \in Nat : x = pool[k + 1].ip
      BY <2>2
    <3>2. x >= start + k /\ (x # start + k \/ pool[k + 1].mac = m)
      BY <1>4, <2>1, <2>3, <3>1
    <3>3. x > start + k \/ pool[k + 1].mac = m
      BY <1>8, <3>2
    <3>4. QED
      BY <2>3, <2>6, <3>1, <3>3
  <2>7. QED
    BY <2>5, <2>6
<1>12. GapAt(pool, m, k)
  BY <1>2, <1>4, <1>11 DEF GapAt
<1>13. QED
  BY <1>2, <1>3, <1>4, <1>12

(* What a gap means: no other client has that address.                     *)
LEMMA GapFree ==
  ASSUME RangeOK, NEW pool, PoolOK(pool), NEW m \in DhcpMacs, NEW k \in 0..Len(pool),
         GapAt(pool, m, k)
  PROVE  /\ dhcpLease.start + k <= dhcpLease.end + 1
         /\ \A j \in 1..Len(pool) : pool[j].mac # m => pool[j].ip # dhcpLease.start + k
         /\ DhcpIndex(pool, m) # {} => InRange(dhcpLease.start + k)
<1>1. pool \in Seq(DhcpNode) /\ Len(pool) \in Nat /\ DOMAIN pool = 1..Len(pool)
  BY DEF PoolOK, NodesOK
<1>2. PICK start \in Nat : start = dhcpLease.start
  BY DEF RangeOK
<1>3. \A j \in 1..Len(pool) : pool[j].ip \in Nat
  BY SortedAbove
<1>4. \A j \in 1..k : pool[j].ip < start + k /\ pool[j].mac # m
  BY <1>1, <1>2, <1>3 DEF GapAt
<1>5. \A j \in k + 1..Len(pool) : pool[j].ip > start + k \/ (pool[j].mac = m /\ pool[j].ip >= start + k)
  BY <1>2 DEF GapAt
<1>6. ASSUME NEW j \in 1..Len(pool)
      PROVE  /\ pool[j].mac # m => pool[j].ip # start + k
             /\ pool[j].mac = m => pool[j].ip >= start + k
  <2>1. j \in 1..k \/ j \in k + 1..Len(pool)
    BY <1>1
  <2>2. QED
    BY <1>1, <1>2, <1>3, <1>4, <1>5, <2>1
<1>7. ASSUME DhcpIndex(pool, m) # {}
      PROVE  InRange(start + k)
  <2>1. PICK j \in 1..Len(pool) : pool[j].mac = m
    BY <1>1, <1>7 DEF DhcpIndex
  <2>2. pool[j].ip >= start + k /\ InRange(pool[j].ip)
    BY <1>6, <2>1 DEF PoolOK, Ordered
  <2>3. QED
    BY <1>1, <1>2, <1>3, <2>2 DEF InRange, RangeOK
<1>9. PICK end \in Nat : end = dhcpLease.end /\ start <= end
  BY <1>2 DEF RangeOK
<1>10. start + k <= end + 1
  <2>1. CASE k = 0
    BY <1>9, <2>1
  <2>2. CASE k # 0
    <3>1. k \in 1..k /\ k \in 1..Len(pool)
      BY <1>1, <2>2
    <3>2. pool[k].ip = start + k - 1 /\ pool[k].ip <= end
      BY <1>2, <1>9, <3>1 DEF GapAt, PoolOK, Ordered, InRange
    <3>3. QED
      BY <1>9, <3>1, <3>2
  <2>3. QED
    BY <2>1, <2>2
<1>8. QED
  BY <1>2, <1>6, <1>7, <1>9, <1>10

(* A client's node is taken out: all others stay, and those in front of it *)
(* stay where they are.                                                    *)
OthersStay(s, pool, m) ==
    /\ \A i \in 1..Len(s) : s[i].mac # m /\ \E j \in 1..Len(pool) : s[i] = pool[j]
    /\ \A j \in 1..Len(pool) : pool[j].mac # m => \E i \in 1..Len(s) : s[i] = pool[j]

PrefixStays(s, pool, m) ==
    \A k \in 0..Len(pool) : (\A i \in 1..k : pool[i].mac # m) =>
       Len(s) >= k /\ \A i \in 1..k : s[i] = pool[i]

LEMMA RemoveClient ==
  ASSUME NEW pool, NodesOK(pool), NEW m \in DhcpMacs, NEW s, s = DhcpRemove(pool, m)
  PROVE  NodesOK(s) /\ (Ordered(pool) => Ordered(s)) /\ OthersStay(s, pool, m) /\ PrefixStays(s, pool, m)
<1>1. pool \in Seq(DhcpNode) /\ Len(pool) \in Nat /\ DOMAIN pool = 1..Len(pool)
  BY DEF NodesOK
<1>2. CASE DhcpIndex(pool, m) = {}
  <2>1. s = pool /\ \A i \in 1..Len(pool) : pool[i].mac # m
    BY <1>1, <1>2 DEF DhcpRemove, DhcpIndex
  <2>2. OthersStay(s, pool, m)
    BY <2>1 DEF OthersStay
  <2>3. PrefixStays(s, pool, m)
    BY <1>1, <2>1 DEF PrefixStays
  <2>4. QED
    BY <2>1, <2>2, <2>3
<1>3. CASE DhcpIndex(pool, m) # {}
  <2>1. DhcpIndex(pool, m) \in SUBSET Nat
    BY <1>1 DEF DhcpIndex
  <2>2. PICK p : p = Min(DhcpIndex(pool, m))
    OBVIOUS
  <2>3. p \in DhcpIndex(pool, m)
    BY <1>3, <2>1, <2>2, MinNat
  <2>4. p \in 1..Len(pool) /\ pool[p].mac = m
    BY <1>1, <2>3 DEF DhcpIndex
  <2>5. s = RemoveAt(pool, p)
    BY <1>3, <2>2 DEF DhcpRemove
  <2>6. /\ NodesOK(s) /\ (Ordered(pool) => Ordered(s)) /\ RemovedAt(s, pool, p)
        /\ \A i \in 1..Len(s) : s[i].mac # pool[p].mac
        /\ \A i \in 1..Len(s) : \E j \in 1..Len(pool) : s[i] = pool[j]
        /\ \A j \in 1..Len(pool) : j # p => \E i \in 1..Len(s) : s[i] = pool[j]
    BY <2>4, <2>5, RemoveOK
  <2>7. ASSUME NEW k \in 0..Len(pool), \A i \in 1..k : pool[i].mac # m
        PROVE  Len(s) >= k /\ \A i \in 1..k : s[i] = pool[i]
    <3>1. k < p
      BY <1>1, <2>4, <2>7
    <3>2. Len(s) = Len(pool) - 1
      BY <2>6 DEF RemovedAt
    <3>3. Len(s) >= k /\ \A i \in 1..k : i \in 1..Len(s) /\ i < p
      BY <1>1, <2>4, <3>1, <3>2
    <3>4. QED
      BY <2>6, <3>3 DEF RemovedAt
  <2>8. OthersStay(s, pool, m)
    BY <2>4, <2>6 DEF OthersStay
  <2>9. PrefixStays(s, pool, m)
    BY <2>7 DEF PrefixStays
  <2>10. QED
    BY <2>6, <2>8, <2>9
<1>4. QED
  BY <1>2, <1>3

(* A client's node is moved to, or made at, an address.                    *)
LEMMA PlaceNode ==
  ASSUME NEW pool, NodesOK(pool), NEW m \in DhcpMacs, NEW a \in Nat,
         NEW s, s = DhcpInsert(DhcpRemove(pool, m), [mac |-> m, ip |-> a])
  PROVE  /\ NodesOK(s) /\ Has(s, m, a)
         /\ \A n, b : n # m /\ Has(pool, n, b) => Has(s, n, b)
<1>1. PICK rest : rest = DhcpRemove(pool, m)
  OBVIOUS
<1>2. NodesOK(rest) /\ OthersStay(rest, pool, m)
  BY <1>1, RemoveClient
<1>3. PICK node \in DhcpNode : node = [mac |-> m, ip |-> a] /\ node.mac = m /\ node.ip = a
  BY DEF DhcpNode
<1>4. \A i \in 1..Len(rest) : rest[i].mac # node.mac
  BY <1>2, <1>3, SMTT(30) DEF OthersStay
<1>5. /\ NodesOK(s)
      /\ \E p \in 1..Len(rest) + 1 : InsertedAt(s, rest, node, p)
  BY <1>1, <1>2, <1>3, <1>4, InsertNode
<1>6. PICK p \in 1..Len(rest) + 1 : InsertedAt(s, rest, node, p)
  BY <1>5
<1>7. Len(rest) \in Nat /\ Len(s) = Len(rest) + 1 /\ s[p] = node /\ p \in 1..Len(s)
  BY <1>2, <1>6 DEF InsertedAt, NodesOK
<1>8. Has(s, m, a)
  BY <1>3, <1>7 DEF Has
<1>9. ASSUME NEW n, NEW b, n # m, Has(pool, n, b)
      PROVE  Has(s, n, b)
  <2>1. PICK j \in 1..Len(pool) : pool[j] = [mac |-> n, ip |-> b]
    BY <1>9 DEF Has
  <2>2. pool[j].mac # m
    BY <1>9, <2>1
  <2>3. PICK i \in 1..Len(rest) : rest[i] = pool[j]
    BY <1>2, <2>2 DEF OthersStay
  <2>4. CASE i < p
    <3>1. i \in 1..p - 1 /\ i \in 1..Len(s)
      BY <1>7, <2>4
    <3>2. s[i] = rest[i]
      BY <1>6, <3>1 DEF InsertedAt
    <3>3. QED
      BY <2>1, <2>3, <3>1, <3>2 DEF Has
  <2>5. CASE ~(i < p)
    <3>1. i \in p..Len(rest) /\ i + 1 \in 1..Len(s)
      BY <1>7, <2>5
    <3>2. s[i + 1] = rest[i]
      BY <1>6, <3>1 DEF InsertedAt
    <3>3. QED
      BY <2>1, <2>3, <3>1, <3>2 DEF Has
  <2>6. QED
    BY <2>4, <2>5
<1>10. QED
  BY <1>5, <1>8, <1>9

(* If no other client has the address, the pool stays in order.            *)
LEMMA PlaceOK ==
  ASSUME RangeOK, NEW pool, PoolOK(pool), NEW m \in DhcpMacs, NEW a \in Nat, InRange(a),
         \A j \in 1..Len(pool) : pool[j].mac # m => pool[j].ip # a,
         NEW s, s = DhcpInsert(DhcpRemove(pool, m), [mac |-> m, ip |-> a])
  PROVE  Ordered(s)
<1>1. PICK rest : rest = DhcpRemove(pool, m)
  OBVIOUS
<1>2. PoolOK(rest) /\ OthersStay(rest, pool, m)
  BY <1>1, RemoveClient DEF PoolOK
<1>3. PICK node \in DhcpNode : node = [mac |-> m, ip |-> a] /\ node.mac = m /\ node.ip = a
  BY DEF DhcpNode
<1>4. \A i \in 1..Len(rest) : rest[i].ip # node.ip /\ rest[i].mac # node.mac
  BY <1>2, <1>3, SMTT(30) DEF OthersStay
<1>5. PoolOK(s)
  BY <1>1, <1>2, <1>3, <1>4, InsertOK
<1>6. QED
  BY <1>5 DEF PoolOK

(* The three outcomes of dhcps_client_update(): the client has the address *)
(* it names, or it gets none, or its node is placed.                       *)
Kept(up, pool, m, ip) ==
    ip # ANY /\ Has(pool, m, ip) /\ up = [pool |-> pool, addr |-> ip, renew |-> TRUE]

Refused(up, pool, m, ip) ==
    /\ up = [pool |-> pool, addr |-> ANY, renew |-> FALSE]
    /\ ip = ANY => DhcpIndex(pool, m) = {} /\ DhcpBefore(dhcpLease.end, DhcpFirstGap(pool, m))

Placed(up, pool, m, ip, a) ==
    /\ a = IF ip = ANY THEN DhcpFirstGap(pool, m) ELSE ip
    /\ DhcpIndex(pool, m) = {} => ~DhcpBefore(dhcpLease.end, a)
    /\ up = [pool |-> DhcpInsert(DhcpRemove(pool, m), [mac |-> m, ip |-> a]),
             addr |-> a, renew |-> FALSE]
    /\ ip # ANY => \A j \in 1..Len(pool) : pool[j].ip # ip

LEMMA UpdateIs ==
  ASSUME dhcpLease.start \in Nat, NEW pool, NodesOK(pool), NEW m \in DhcpMacs, NEW ip \in Nat,
         NEW up, up = DhcpClientUpdate(pool, m, ip)
  PROVE  \/ Kept(up, pool, m, ip)
         \/ Refused(up, pool, m, ip)
         \/ \E a \in Nat : Placed(up, pool, m, ip, a)
<1>1. pool \in Seq(DhcpNode) /\ Len(pool) \in Nat /\ DOMAIN pool = 1..Len(pool)
  BY DEF NodesOK
<1>2. \A i \in 1..Len(pool) : pool[i] = [mac |-> pool[i].mac, ip |-> pool[i].ip]
  <2>1. \A i \in 1..Len(pool) : pool[i] \in DhcpNode
    BY <1>1
  <2>2. QED
    BY <2>1 DEF DhcpNode
<1>3. PICK byIp : byIp = {i \in 1..Len(pool) : pool[i].ip = ip}
  OBVIOUS
<1>4. PICK a : a = IF ip = ANY THEN DhcpFirstGap(pool, m) ELSE ip
  OBVIOUS
<1>5. up = IF ip # ANY /\ byIp # {}
           THEN IF pool[Max(byIp)].mac = m
                THEN [pool |-> pool, addr |-> ip, renew |-> TRUE]
                ELSE [pool |-> pool, addr |-> ANY, renew |-> FALSE]
           ELSE IF DhcpIndex(pool, m) = {} /\ DhcpBefore(dhcpLease.end, a)
           THEN [pool |-> pool, addr |-> ANY, renew |-> FALSE]
           ELSE [pool |-> DhcpInsert(DhcpRemove(pool, m), [mac |-> m, ip |-> a]),
                 addr |-> a, renew |-> FALSE]
  BY <1>1, <1>3, <1>4, Zenon DEF DhcpClientUpdate
<1>6. CASE ip # ANY /\ byIp # {}
  <2>1. CASE pool[Max(byIp)].mac = m
    <3>1. Max(byIp) \in byIp
      <4>1. byIp \in SUBSET Nat /\ \A y \in byIp : y <= Len(pool)
        BY <1>1, <1>3
      <4>2. QED
        BY <1>1, <1>6, <4>1, MaxNat
    <3>2. PICK i \in 1..Len(pool) : i = Max(byIp) /\ pool[i].ip = ip
      BY <1>3, <3>1
    <3>3. pool[i] = [mac |-> m, ip |-> ip]
      BY <1>2, <2>1, <3>2
    <3>4. Has(pool, m, ip)
      BY <3>3 DEF Has
    <3>5. QED
      BY <1>5, <1>6, <2>1, <3>4 DEF Kept
  <2>2. CASE pool[Max(byIp)].mac # m
    BY <1>5, <1>6, <2>2 DEF Refused
  <2>3. QED
    BY <2>1, <2>2
<1>7. CASE ~(ip # ANY /\ byIp # {})
  <2>1. CASE DhcpIndex(pool, m) = {} /\ DhcpBefore(dhcpLease.end, a)
    BY <1>4, <1>5, <1>7, <2>1 DEF Refused
  <2>2. CASE ~(DhcpIndex(pool, m) = {} /\ DhcpBefore(dhcpLease.end, a))
    <3>1. a \in Nat
      <4>1. PICK start \in Nat : start = dhcpLease.start
        OBVIOUS
      <4>2. PICK k \in 0..Len(pool) : SearchEnds(pool, m, start, k)
        BY <4>1, FirstGapSome
      <4>3. DhcpFirstGap(pool, m) = start + k
        BY <4>2 DEF SearchEnds
      <4>4. QED
        BY <1>1, <1>4, <4>3
    <3>2. ip # ANY => \A j \in 1..Len(pool) : pool[j].ip # ip
      BY <1>3, <1>7
    <3>3. up = [pool |-> DhcpInsert(DhcpRemove(pool, m), [mac |-> m, ip |-> a]),
                addr |-> a, renew |-> FALSE]
      BY <1>5, <1>7, <2>2
    <3>4. Placed(up, pool, m, ip, a)
      BY <1>4, <2>2, <3>2, <3>3, Zenon DEF Placed
    <3>5. QED
      BY <3>1, <3>4
  <2>3. QED
    BY <2>1, <2>2
<1>8. QED
  BY <1>6, <1>7

(* What dhcps_client_update() promises, whatever is in the pool.           *)
UpdateKeeps(up, pool, m, ip) ==
    /\ NodesOK(up.pool) /\ up.addr \in Nat
    /\ up.addr # ANY => Has(up.pool, m, up.addr)
    /\ \A n, b : n # m /\ Has(pool, n, b) => Has(up.pool, n, b)
    /\ up.renew => up.addr = ip /\ ip # ANY
    /\ ip # ANY /\ (up.addr = ANY \/ Has(pool, m, ip)) => up.pool = pool

LEMMA UpdateOK ==
  ASSUME dhcpLease.start \in Nat, NEW pool, NodesOK(pool), NEW m \in DhcpMacs, NEW ip \in Nat,
         NEW up, up = DhcpClientUpdate(pool, m, ip)
  PROVE  UpdateKeeps(up, pool, m, ip)
<1>1. CASE Kept(up, pool, m, ip)
  BY <1>1 DEF Kept, UpdateKeeps
<1>2. CASE Refused(up, pool, m, ip)
  BY <1>2 DEF Refused, UpdateKeeps, ANY
<1>3. ASSUME NEW a \in Nat, Placed(up, pool, m, ip, a)
      PROVE  UpdateKeeps(up, pool, m, ip)
  <2>1. PICK s : s = DhcpInsert(DhcpRemove(pool, m), [mac |-> m, ip |-> a])
    OBVIOUS
  <2>2. /\ NodesOK(s) /\ Has(s, m, a)
        /\ \A n, b : n # m /\ Has(pool, n, b) => Has(s, n, b)
    BY <2>1, PlaceNode
  <2>3. up = [pool |-> s, addr |-> a, renew |-> FALSE] /\ (ip # ANY => a = ip)
    BY <1>3, <2>1 DEF Placed
  <2>4. up.pool = s /\ up.addr = a /\ up.renew = FALSE
    BY <2>3
  <2>5. ASSUME ip # ANY
        PROVE  ~Has(pool, m, ip)
    <3> SUFFICES ASSUME Has(pool, m, ip) PROVE FALSE
      OBVIOUS
    <3>1. PICK j \in 1..Len(pool) : pool[j] = [mac |-> m, ip |-> ip]
      BY DEF Has
    <3>2. pool[j].ip = ip
      BY <3>1
    <3>3. QED
      BY <1>3, <2>5, <3>2 DEF Placed
  <2>6. QED
    BY <2>2, <2>3, <2>4, <2>5, Zenon DEF UpdateKeeps
<1>4. QED
  BY <1>1, <1>2, <1>3, UpdateIs

(* The gap that is given to a client is of the range, and no other client  *)
(* has its address.                                                        *)
LEMMA GapGiven ==
  ASSUME RangeOK, NEW pool, PoolOK(pool), NEW m \in DhcpMacs, NEW a, a = DhcpFirstGap(pool, m),
         DhcpIndex(pool, m) = {} => ~DhcpBefore(dhcpLease.end, a)
  PROVE  InRange(a) /\ \A j \in 1..Len(pool) : pool[j].mac # m => pool[j].ip # a
<1>1. PICK k \in 0..Len(pool) : a = dhcpLease.start + k /\ GapAt(pool, m, k)
  BY FirstGapIs
<1>2. /\ a <= dhcpLease.end + 1
      /\ \A j \in 1..Len(pool) : pool[j].mac # m => pool[j].ip # a
      /\ DhcpIndex(pool, m) # {} => InRange(a)
  BY <1>1, GapFree
<1>3. PICK start \in Nat, end \in Nat : start = dhcpLease.start /\ end = dhcpLease.end /\ start <= end
  BY DEF RangeOK
<1>4. Len(pool) \in Nat
  BY DEF PoolOK, NodesOK
<1>5. a \in Nat /\ start <= a /\ a <= end + 1
  BY <1>1, <1>2, <1>3, <1>4
<1>6. CASE DhcpIndex(pool, m) = {}
  <2>1. ~DhcpBefore(end, a)
    BY <1>3, <1>6
  <2>2. DhcpBefore(end, a) <=> end < a
    <3>1. start <= end /\ end <= end + 1
      BY <1>3
    <3>2. QED
      BY <1>3, <1>5, <3>1, NetOrder
  <2>3. a <= end
    BY <1>3, <1>5, <2>1, <2>2
  <2>4. InRange(a)
    BY <1>3, <1>5, <2>3 DEF InRange
  <2>5. QED
    BY <1>2, <2>4
<1>7. QED
  BY <1>2, <1>6

(* A claim of an address of the range, or none, keeps the pool in order.   *)
LEMMA UpdateOrdered ==
  ASSUME RangeOK, NEW pool, PoolOK(pool), NEW m \in DhcpMacs, NEW ip \in Nat,
         ip = ANY \/ InRange(ip), NEW up, up = DhcpClientUpdate(pool, m, ip)
  PROVE  Ordered(up.pool)
<1>1. dhcpLease.start \in Nat /\ NodesOK(pool)
  BY DEF RangeOK, PoolOK
<1>2. CASE Kept(up, pool, m, ip)
  BY <1>2 DEF Kept, PoolOK
<1>3. CASE Refused(up, pool, m, ip)
  BY <1>3 DEF Refused, PoolOK
<1>4. ASSUME NEW a \in Nat, Placed(up, pool, m, ip, a)
      PROVE  Ordered(up.pool)
  <2>1. InRange(a) /\ \A j \in 1..Len(pool) : pool[j].mac # m => pool[j].ip # a
    <3>1. CASE ip = ANY
      <4>1. a = DhcpFirstGap(pool, m) /\ (DhcpIndex(pool, m) = {} => ~DhcpBefore(dhcpLease.end, a))
        BY <1>4, <3>1 DEF Placed
      <4>2. QED
        BY <4>1, GapGiven
    <3>2. CASE ip # ANY
      BY <1>4, <3>2 DEF Placed
    <3>3. QED
      BY <3>1, <3>2
  <2>2. PICK s : s = DhcpInsert(DhcpRemove(pool, m), [mac |-> m, ip |-> a])
    OBVIOUS
  <2>3. Ordered(s)
    BY <2>1, <2>2, PlaceOK
  <2>4. up.pool = s
    BY <1>4, <2>2 DEF Placed
  <2>5. QED
    BY <2>3, <2>4
<1>5. QED
  BY <1>1, <1>2, <1>3, <1>4, UpdateIs

-----------------------------------------------------------------------------
(* The inductive invariant of the DHCP server                              *)

DhcpTypeOK ==
    /\ dhcpRunning \in BOOLEAN /\ dhcpStray \in BOOLEAN
    /\ dhcpLocal \in DhcpLocals
    /\ dhcpLease \in [enable : BOOLEAN, start : Nat, end : Nat]
    /\ dhcpOffer \in [DhcpMacs -> Nat]
    /\ dhcpHeld \in [DhcpMacs -> Nat]

(* A range is of one net; begin() sees to it that it leaves out the        *)
(* server's address, and neither changes while the server runs.            *)
RangeIs(l) == l.start <= l.end /\ l.start \div DhcpNet = l.end \div DhcpNet

LeaseInv ==
    /\ RangeIs(dhcpLease)
    /\ dhcpRunning => dhcpLease.start # ANY /\ ~InRange(dhcpLocal)

HeldInv == \A m \in DhcpMacs : dhcpHeld[m] # ANY => Has(dhcpPool, m, dhcpHeld[m])

OrderInv == DhcpOrderly => Ordered(dhcpPool)

DhcpInv == DhcpTypeOK /\ LeaseInv /\ NodesOK(dhcpPool) /\ HeldInv /\ OrderInv

LEMMA EmptyPool == NodesOK(<<>>) /\ Ordered(<<>>)
<1>1. <<>> \in Seq(DhcpNode) /\ Len(<<>>) = 0 /\ 1..0 = {}
  OBVIOUS
<1>2. QED
  BY <1>1 DEF NodesOK, Ordered

LEMMA RangeOrderly == DhcpTypeOK /\ LeaseInv /\ DhcpOrderly => RangeOK
  BY DEF DhcpTypeOK, LeaseInv, RangeIs, DhcpOrderly, RangeOK

(* With the same pool and the same range the order is the same.            *)
LEMMA OrderedSame ==
  ASSUME NEW pool, Ordered(pool), dhcpLease'.start = dhcpLease.start, dhcpLease'.end = dhcpLease.end
  PROVE  Ordered(pool)'
  BY DEF Ordered, InRange

LEMMA EmptyOrdered == Ordered(<<>>)'
<1>1. Len(<<>>) = 0 /\ 1..0 = {}
  OBVIOUS
<1>2. QED
  BY <1>1 DEF Ordered

LEMMA DhcpInitOK == DhcpInit => DhcpInv
<1> SUFFICES ASSUME DhcpInit PROVE DhcpInv
  OBVIOUS
<1>1. DhcpTypeOK
  BY DEF DhcpInit, DhcpTypeOK, ANY
<1>2. LeaseInv
  BY DEF DhcpInit, LeaseInv, RangeIs
<1>3. NodesOK(dhcpPool) /\ Ordered(dhcpPool)
  BY EmptyPool DEF DhcpInit
<1>4. HeldInv
  BY DEF DhcpInit, HeldInv
<1>5. QED
  BY <1>1, <1>2, <1>3, <1>4 DEF DhcpInv, OrderInv

(* The address of the server: the third octet is not 0.                    *)
LEMMA LocalNet ==
  ASSUME DhcpTypeOK
  PROVE  /\ dhcpLocal \in Nat /\ DhcpNet \in Nat \ {0}
         /\ \E q \in Nat \ {0}, o \in 0..DhcpNet - 1 : DivAt(dhcpLocal, DhcpNet, q, o)
<1>1. PICK n \in Nat, x \in Nat : n = DhcpNet /\ n # 0 /\ x = dhcpLocal /\ x >= n
  BY DhcpAssumption DEF DhcpTypeOK
<1>2. PICK q \in Nat, o \in 0..n - 1 : q = x \div n /\ x = n * q + o
  <2>1. x \div n \in Nat /\ x % n \in 0..n - 1 /\ x = n * (x \div n) + (x % n)
    BY <1>1
  <2>2. QED
    BY <2>1
<1>3. q # 0
  <2> SUFFICES ASSUME q = 0 PROVE FALSE
    OBVIOUS
  <2>1. n * q = 0
    BY <1>1
  <2>2. QED
    BY <1>1, <1>2, <2>1
<1>4. DivAt(x, n, q, o)
  BY <1>1, <1>2 DEF DivAt
<1>5. QED
  BY <1>1, <1>2, <1>3, <1>4

(* A range that fits is of the server's net, and so not at ANY.            *)
LEMMA FitsOK ==
  ASSUME DhcpTypeOK, NEW start \in Nat, NEW end \in Nat, DhcpFits(start, end)
  PROVE  /\ start # ANY /\ start <= end /\ start \div DhcpNet = end \div DhcpNet
         /\ dhcpLocal \notin start..end
<1>1. PICK q \in Nat \ {0}, o \in 0..DhcpNet - 1 : DivAt(dhcpLocal, DhcpNet, q, o)
  BY LocalNet
<1>2. dhcpLocal \div DhcpNet = q
  BY <1>1, ModIs
<1>3. start # ANY
  <2> SUFFICES ASSUME start = 0 PROVE FALSE
    BY DEF ANY
  <2>1. DivAt(0, DhcpNet, 0, 0)
    BY LocalNet DEF DivAt
  <2>2. 0 \div DhcpNet = 0
    BY <2>1, ModIs
  <2>3. QED
    BY <1>2, <2>2 DEF DhcpFits
<1>4. QED
  BY <1>3, LocalNet DEF DhcpFits

(* init_dhcps_lease() gives a range that leaves out the server's address.  *)
LEMMA InitLeaseOK ==
  ASSUME DhcpTypeOK
  PROVE  /\ DhcpInitLease \in [enable : BOOLEAN, start : Nat, end : Nat]
         /\ RangeIs(DhcpInitLease) /\ DhcpInitLease.start # ANY
         /\ dhcpLocal \notin DhcpInitLease.start..DhcpInitLease.end
<1>1. CASE dhcpLease.enable /\ DhcpFits(dhcpLease.start, dhcpLease.end)
  <2>1. DhcpInitLease = dhcpLease
    BY <1>1 DEF DhcpInitLease
  <2>2. dhcpLease.start \in Nat /\ dhcpLease.end \in Nat
    BY DEF DhcpTypeOK
  <2>3. QED
    BY <1>1, <2>1, <2>2, FitsOK DEF DhcpTypeOK, RangeIs
<1>2. CASE ~(dhcpLease.enable /\ DhcpFits(dhcpLease.start, dhcpLease.end))
  <2>1. PICK q \in Nat \ {0}, o \in 0..DhcpNet - 1 : DivAt(dhcpLocal, DhcpNet, q, o)
    BY LocalNet
  <2>2. dhcpLocal % DhcpNet = o
    BY <2>1, ModIs
  <2>3. PICK n \in Nat, half \in Nat, max \in Nat \ {0}, p \in Nat :
           /\ n = DhcpNet /\ half = DhcpHalf /\ max = DHCPS_MAX_LEASE /\ p = n * q
    BY DhcpAssumption
  <2>4. max < half /\ half + max < n /\ dhcpLocal = p + o /\ o \in 0..n - 1
    BY <2>1, <2>3, DhcpAssumption DEF DivAt
  <2>5. PICK r : r = IF o >= half THEN o - max ELSE o + 1
    OBVIOUS
  <2>6. r \in 1..n - 1 /\ r + max - 1 \in 0..n - 1
    BY <2>3, <2>4, <2>5
  <2>7. /\ DhcpInitLease.start = p + r /\ DhcpInitLease.end = p + (r + max - 1)
        /\ DhcpInitLease \in [enable : BOOLEAN, start : Nat, end : Nat]
    <3>1. PICK first : first = IF dhcpLocal % DhcpNet >= DhcpHalf THEN dhcpLocal - DHCPS_MAX_LEASE
                                                                 ELSE dhcpLocal + 1
      OBVIOUS
    <3>2. DhcpInitLease = [enable |-> FALSE, start |-> first, end |-> first + DHCPS_MAX_LEASE - 1]
      BY <1>2, <3>1, Zenon DEF DhcpInitLease
    <3>3. first = IF o >= half THEN p + o - max ELSE p + o + 1
      BY <2>2, <2>3, <2>4, <3>1
    <3>4. first = p + r
      BY <2>3, <2>4, <2>5, <3>3
    <3>5. first + DHCPS_MAX_LEASE - 1 = p + (r + max - 1)
      BY <2>3, <2>6, <3>4
    <3>6. p + r \in Nat /\ p + (r + max - 1) \in Nat
      BY <2>3, <2>6
    <3>7. QED
      BY <3>2, <3>4, <3>5, <3>6
  <2>8. (p + r) \div n = q /\ (p + (r + max - 1)) \div n = q
    <3>1. DivAt(p + r, n, q, r) /\ DivAt(p + (r + max - 1), n, q, r + max - 1)
      BY <2>3, <2>4, <2>6 DEF DivAt
    <3>2. QED
      BY <3>1, ModIs
  <2>9. RangeIs(DhcpInitLease)
    <3>1. p + r <= p + (r + max - 1)
      BY <2>3, <2>6
    <3>2. QED
      BY <2>3, <2>7, <2>8, <3>1 DEF RangeIs
  <2>10. DhcpInitLease.start # ANY
    BY <2>3, <2>6, <2>7 DEF ANY
  <2>11. dhcpLocal \notin p + r..p + (r + max - 1)
    BY <2>3, <2>4, <2>5, <2>6
  <2>12. QED
    BY <2>7, <2>9, <2>10, <2>11
<1>3. QED
  BY <1>1, <1>2

(* A change of the range under nodes is remembered.                        *)
LEMMA MovedOrder ==
  ASSUME OrderInv, dhcpPool' = dhcpPool, dhcpStray' = (dhcpStray \/ DhcpMoved)
  PROVE  OrderInv'
<1> SUFFICES ASSUME DhcpOrderly' PROVE Ordered(dhcpPool)'
  BY DEF OrderInv
<1>1. ~dhcpStray /\ ~DhcpMoved
  BY DEF DhcpOrderly
<1>2. CASE dhcpPool = <<>>
  BY <1>2, EmptyOrdered DEF Ordered
<1>3. CASE dhcpPool # <<>>
  <2>1. dhcpLease'.start = dhcpLease.start /\ dhcpLease'.end = dhcpLease.end
    BY <1>1, <1>3 DEF DhcpMoved
  <2>2. DhcpOrderly
    BY <1>1, <2>1 DEF DhcpOrderly
  <2>3. Ordered(dhcpPool)
    BY <2>2 DEF OrderInv
  <2>4. QED
    BY <2>1, <2>3 DEF Ordered, InRange
<1>4. QED
  BY <1>2, <1>3

LEMMA SetLocalOK ==
  ASSUME DhcpInv, DhcpSetLocal
  PROVE  DhcpInv'
<1>1. DhcpTypeOK'
  BY DEF DhcpSetLocal, DhcpInv, DhcpTypeOK
<1>2. LeaseInv'
  BY DEF DhcpSetLocal, DhcpInv, LeaseInv, RangeIs
<1>3. NodesOK(dhcpPool)'
  BY DEF DhcpSetLocal, DhcpInv, NodesOK
<1>4. OrderInv'
  BY DEF DhcpSetLocal, DhcpInv, OrderInv, DhcpOrderly, Ordered, InRange
<1>5. HeldInv'
  BY DEF DhcpSetLocal, DhcpInv, HeldInv, Has
<1>6. QED
  BY <1>1, <1>2, <1>3, <1>4, <1>5 DEF DhcpInv

LEMMA SetLeaseOK ==
  ASSUME DhcpInv, DhcpSetLease
  PROVE  DhcpInv'
<1>1. DhcpTypeOK /\ LeaseInv /\ OrderInv
  BY DEF DhcpInv
<1>2. dhcpLease' \in [enable : BOOLEAN, start : Nat, end : Nat] /\ RangeIs(dhcpLease')
  <2>1. ASSUME NEW l \in DhcpLeases, DhcpFits(l[1], l[2]),
               dhcpLease' = [enable |-> TRUE, start |-> l[1], end |-> l[2]]
        PROVE  dhcpLease' \in [enable : BOOLEAN, start : Nat, end : Nat] /\ RangeIs(dhcpLease')
    <3>1. PICK a \in Nat, b \in Nat : a = l[1] /\ b = l[2]
      BY DhcpAssumption
    <3>2. a <= b /\ a \div DhcpNet = b \div DhcpNet
      BY <1>1, <2>1, <3>1, FitsOK
    <3>3. QED
      BY <2>1, <3>1, <3>2 DEF RangeIs
  <2>2. ASSUME dhcpLease' = [dhcpLease EXCEPT !.enable = FALSE]
        PROVE  dhcpLease' \in [enable : BOOLEAN, start : Nat, end : Nat] /\ RangeIs(dhcpLease')
    BY <1>1, <2>2 DEF DhcpTypeOK, LeaseInv, RangeIs
  <2>3. QED
    BY <2>1, <2>2 DEF DhcpSetLease
<1>3. /\ UNCHANGED <<dhcpRunning, dhcpLocal, dhcpPool, dhcpOffer, dhcpHeld>> /\ ~dhcpRunning
      /\ dhcpStray' = (dhcpStray \/ DhcpMoved)
  BY DEF DhcpSetLease
<1>4. DhcpTypeOK'
  BY <1>1, <1>2, <1>3 DEF DhcpTypeOK
<1>5. LeaseInv'
  BY <1>2, <1>3 DEF LeaseInv, RangeIs
<1>6. OrderInv'
  BY <1>1, <1>3, MovedOrder
<1>7. NodesOK(dhcpPool)' /\ HeldInv'
  BY <1>3 DEF DhcpInv, NodesOK, HeldInv, Has
<1>8. QED
  BY <1>4, <1>5, <1>6, <1>7 DEF DhcpInv

LEMMA BeginOK ==
  ASSUME DhcpInv, DhcpBegin
  PROVE  DhcpInv'
<1>1. DhcpTypeOK /\ LeaseInv /\ OrderInv
  BY DEF DhcpInv
<1>2. /\ dhcpRunning' \in BOOLEAN
      /\ dhcpLease' \in [enable : BOOLEAN, start : Nat, end : Nat] /\ RangeIs(dhcpLease')
      /\ dhcpRunning' => dhcpLease'.start # ANY /\ dhcpLocal \notin dhcpLease'.start..dhcpLease'.end
  <2>1. CASE dhcpRunning' = TRUE /\ dhcpLease' = DhcpInitLease
    BY <1>1, <2>1, InitLeaseOK
  <2>2. CASE dhcpRunning' = FALSE /\ UNCHANGED dhcpLease
    BY <1>1, <2>2 DEF DhcpTypeOK, LeaseInv
  <2>3. QED
    BY <2>1, <2>2 DEF DhcpBegin
<1>3. /\ UNCHANGED <<dhcpLocal, dhcpPool, dhcpOffer, dhcpHeld>>
      /\ dhcpStray' = (dhcpStray \/ DhcpMoved)
  BY DEF DhcpBegin
<1>4. DhcpTypeOK'
  BY <1>1, <1>2, <1>3 DEF DhcpTypeOK
<1>5. LeaseInv'
  BY <1>2, <1>3 DEF LeaseInv, RangeIs, InRange
<1>6. OrderInv'
  BY <1>1, <1>3, MovedOrder
<1>7. NodesOK(dhcpPool)' /\ HeldInv'
  BY <1>3 DEF DhcpInv, NodesOK, HeldInv, Has
<1>8. QED
  BY <1>4, <1>5, <1>6, <1>7 DEF DhcpInv

LEMMA EndOK ==
  ASSUME DhcpInv, DhcpEnd
  PROVE  DhcpInv'
<1>1. DhcpTypeOK'
  BY DEF DhcpEnd, DhcpInv, DhcpTypeOK, ANY
<1>2. LeaseInv'
  BY DEF DhcpEnd, DhcpInv, LeaseInv, RangeIs
<1>3. NodesOK(dhcpPool)' /\ OrderInv'
  <2>1. dhcpPool' \in Seq(DhcpNode) /\ Len(dhcpPool') = 0 /\ 1..0 = {}
    BY DEF DhcpEnd
  <2>2. QED
    BY <2>1 DEF NodesOK, OrderInv, Ordered
<1>4. HeldInv'
  BY DEF DhcpEnd, HeldInv
<1>5. QED
  BY <1>1, <1>2, <1>3, <1>4 DEF DhcpInv

(* A static lease follows the nodes of a pool without a gap.               *)
LEMMA AddOrdered ==
  ASSUME RangeOK, PoolOK(dhcpPool), NEW m \in DhcpMacs, DhcpAddLease(m), ~DhcpHasGap
  PROVE  Ordered(dhcpPool')
<1>1. Len(dhcpPool) \in Nat /\ DOMAIN dhcpPool = 1..Len(dhcpPool)
  BY DEF PoolOK, NodesOK
<1>2. PICK start \in Nat, end \in Nat : start = dhcpLease.start /\ end = dhcpLease.end /\ start <= end
  BY DEF RangeOK
<1>3. PICK a \in Nat : a = start + Len(dhcpPool)
  BY <1>1
<1>4. \A i \in 1..Len(dhcpPool) : dhcpPool[i].ip = start + i - 1
  BY <1>1, <1>2 DEF DhcpHasGap
<1>5. a <= end + 1
  <2>1. CASE Len(dhcpPool) = 0
    BY <1>2, <1>3, <2>1
  <2>2. CASE Len(dhcpPool) # 0
    <3>0. PICK n \in Nat : n = Len(dhcpPool)
      BY <1>1
    <3>1. n \in 1..Len(dhcpPool)
      BY <2>2, <3>0
    <3>2. dhcpPool[n].ip = start + n - 1 /\ InRange(dhcpPool[n].ip)
      BY <1>4, <3>1 DEF PoolOK, Ordered
    <3>3. QED
      BY <1>2, <1>3, <3>0, <3>1, <3>2 DEF InRange
  <2>3. QED
    BY <2>1, <2>2
<1>6. InRange(a)
  <2>1. ~DhcpBefore(end, a)
    BY <1>2, <1>3 DEF DhcpAddLease
  <2>2. start <= end /\ end <= end + 1 /\ start <= a
    BY <1>1, <1>2, <1>3
  <2>3. DhcpBefore(end, a) <=> end < a
    BY <1>2, <1>5, <2>2, NetOrder
  <2>4. QED
    BY <1>2, <2>1, <2>2, <2>3 DEF InRange
<1>7. \A j \in 1..Len(dhcpPool) : dhcpPool[j].ip # a
  BY <1>1, <1>3, <1>4
<1>8. DhcpRemove(dhcpPool, m) = dhcpPool
  BY DEF DhcpAddLease, DhcpRemove
<1>9. PICK s : s = dhcpPool'
  OBVIOUS
<1>10. s = DhcpInsert(DhcpRemove(dhcpPool, m), [mac |-> m, ip |-> a])
  BY <1>2, <1>3, <1>8, <1>9 DEF DhcpAddLease
<1>11. Ordered(s)
  BY <1>6, <1>7, <1>10, PlaceOK
<1>12. QED
  BY <1>9, <1>11

LEMMA AddLeaseOK ==
  ASSUME DhcpInv, NEW m \in DhcpMacs, DhcpAddLease(m)
  PROVE  DhcpInv'
<1>1. DhcpTypeOK /\ LeaseInv /\ NodesOK(dhcpPool) /\ OrderInv
  BY DEF DhcpInv
<1>2. Len(dhcpPool) \in Nat /\ DOMAIN dhcpPool = 1..Len(dhcpPool)
  BY <1>1 DEF NodesOK
<1>3. PICK a \in Nat : a = dhcpLease.start + Len(dhcpPool)
  BY <1>1, <1>2 DEF DhcpTypeOK
<1>4. DhcpRemove(dhcpPool, m) = dhcpPool
  BY DEF DhcpAddLease, DhcpRemove
<1>5. PICK s : s = dhcpPool'
  OBVIOUS
<1>6. s = DhcpInsert(DhcpRemove(dhcpPool, m), [mac |-> m, ip |-> a])
  BY <1>3, <1>4, <1>5 DEF DhcpAddLease
<1>7. NodesOK(s) /\ \A n, b : n # m /\ Has(dhcpPool, n, b) => Has(s, n, b)
  BY <1>1, <1>6, PlaceNode
<1>8. ASSUME NEW b, Has(dhcpPool, m, b)
      PROVE  FALSE
  <2>1. PICK i \in 1..Len(dhcpPool) : dhcpPool[i] = [mac |-> m, ip |-> b]
    BY <1>8 DEF Has
  <2>2. dhcpPool[i].mac = m
    BY <2>1
  <2>3. i \in DhcpIndex(dhcpPool, m)
    BY <1>2, <2>2 DEF DhcpIndex
  <2>4. QED
    BY <2>3 DEF DhcpAddLease
<1>9. /\ UNCHANGED <<dhcpRunning, dhcpLocal, dhcpLease, dhcpOffer, dhcpHeld>>
      /\ dhcpStray' = (dhcpStray \/ DhcpHasGap)
  BY DEF DhcpAddLease
<1>10. DhcpTypeOK'
  BY <1>1, <1>9 DEF DhcpTypeOK
<1>11. LeaseInv'
  BY <1>1, <1>9 DEF LeaseInv, RangeIs, InRange
<1>12. NodesOK(dhcpPool)'
  BY <1>5, <1>7 DEF NodesOK
<1>13. HeldInv'
  BY <1>5, <1>7, <1>8, <1>9 DEF DhcpInv, HeldInv, Has
<1>14. OrderInv'
  <2> SUFFICES ASSUME DhcpOrderly' PROVE Ordered(dhcpPool)'
    BY DEF OrderInv
  <2>1. DhcpOrderly /\ ~DhcpHasGap
    BY <1>9 DEF DhcpOrderly
  <2>2. RangeOK /\ PoolOK(dhcpPool)
    BY <1>1, <2>1, RangeOrderly DEF OrderInv, PoolOK
  <2>3. Ordered(dhcpPool')
    BY <2>1, <2>2, AddOrdered
  <2>4. QED
    BY <1>9, <2>3 DEF Ordered, InRange
<1>15. QED
  BY <1>10, <1>11, <1>12, <1>13, <1>14 DEF DhcpInv

(* A message of a client: what the pool and the answer are afterwards.     *)
HandleKeeps(done, m, type, ip) ==
    /\ NodesOK(done.pool) /\ done.addr \in Nat
    /\ done.ret = "ACK" /\ done.addr # ANY => Has(done.pool, m, done.addr)
    /\ \A n, b : n # m /\ Has(dhcpPool, n, b) => Has(done.pool, n, b)
    /\ type = "REQUEST" /\ ip # ANY /\ Has(dhcpPool, m, ip) => done.pool = dhcpPool

LEMMA HandleOK ==
  ASSUME dhcpLease.start \in Nat, NodesOK(dhcpPool), NEW m \in DhcpMacs, NEW ip \in Nat, NEW reqip,
         NEW type \in {"DISCOVER", "REQUEST", "RELEASE", "DECLINE"},
         NEW done, done = DhcpHandle(m, type, ip, reqip)
  PROVE  /\ HandleKeeps(done, m, type, ip)
         /\ RangeOK /\ Ordered(dhcpPool) /\ (ip = ANY \/ InRange(ip) \/ done.addr = ANY)
              => Ordered(done.pool)
<1>1. PICK up : up = DhcpClientUpdate(dhcpPool, m, ip)
  OBVIOUS
<1>2. UpdateKeeps(up, dhcpPool, m, ip)
  BY <1>1, UpdateOK
<1>3. PICK ret : ret = DhcpAnswer(type, reqip, up)
  OBVIOUS
<1>4. /\ done.ret = ret /\ done.addr = up.addr
      /\ done.pool = IF ret = "RELEASE" THEN DhcpLeave(up.pool, m, ip) ELSE up.pool
  BY <1>1, <1>3 DEF DhcpHandle
<1>5. type = "REQUEST" => ret \in {"ACK", "NAK"}
  BY <1>3 DEF DhcpAnswer
<1>9. ASSUME RangeOK, Ordered(dhcpPool), ip = ANY \/ InRange(ip) \/ done.addr = ANY
      PROVE  Ordered(up.pool)
  <2>1. CASE ip = ANY \/ InRange(ip)
    BY <1>1, <1>9, <2>1, UpdateOrdered DEF PoolOK
  <2>2. CASE ip # ANY /\ done.addr = ANY
    BY <1>2, <1>4, <1>9, <2>2 DEF UpdateKeeps
  <2>3. QED
    BY <1>9, <2>1, <2>2
<1>6. CASE ret # "RELEASE"
  BY <1>2, <1>4, <1>6, <1>9 DEF UpdateKeeps, HandleKeeps
<1>7. CASE ret = "RELEASE"
  <2>1. PICK rest : rest = DhcpRemove(up.pool, m)
    OBVIOUS
  <2>2. done.pool = up.pool \/ done.pool = rest
    BY <1>4, <1>7, <2>1 DEF DhcpLeave
  <2>3. NodesOK(rest) /\ (Ordered(up.pool) => Ordered(rest)) /\ OthersStay(rest, up.pool, m)
    BY <1>2, <2>1, RemoveClient DEF UpdateKeeps
  <2>4. ASSUME NEW n, NEW b, n # m, Has(up.pool, n, b)
        PROVE  Has(rest, n, b)
    <3>1. PICK j \in 1..Len(up.pool) : up.pool[j] = [mac |-> n, ip |-> b]
      BY <2>4 DEF Has
    <3>2. up.pool[j].mac # m
      BY <2>4, <3>1
    <3>3. PICK i \in 1..Len(rest) : rest[i] = up.pool[j]
      BY <2>3, <3>2 DEF OthersStay
    <3>4. QED
      BY <3>1, <3>3 DEF Has
  <2>5. type # "REQUEST" /\ done.ret # "ACK"
    BY <1>4, <1>5, <1>7
  <2>6. NodesOK(done.pool)
    BY <1>2, <2>2, <2>3 DEF UpdateKeeps
  <2>7. \A n, b : n # m /\ Has(dhcpPool, n, b) => Has(done.pool, n, b)
    BY <1>2, <2>2, <2>4 DEF UpdateKeeps
  <2>8. HandleKeeps(done, m, type, ip)
    BY <1>2, <1>4, <2>5, <2>6, <2>7 DEF UpdateKeeps, HandleKeeps
  <2>9. QED
    BY <1>9, <2>2, <2>3, <2>8
<1>8. QED
  BY <1>6, <1>7

LEMMA SendOK ==
  ASSUME DhcpInv, NEW m \in DhcpMacs, NEW ip \in Nat, NEW reqip,
         NEW type \in {"DISCOVER", "REQUEST", "RELEASE", "DECLINE"},
         type = "REQUEST" /\ ip # ANY => dhcpHeld[m] \in {ANY, ip},
         DhcpSend(m, type, ip, reqip)
  PROVE  DhcpInv'
<1>1. DhcpTypeOK /\ LeaseInv /\ NodesOK(dhcpPool) /\ OrderInv /\ dhcpLease.start \in Nat
  BY DEF DhcpInv, DhcpTypeOK
<1>2. PICK done : done = DhcpHandle(m, type, ip, reqip)
  OBVIOUS
<1>3. HandleKeeps(done, m, type, ip)
  BY <1>1, <1>2, HandleOK
<1>12. RangeOK /\ Ordered(dhcpPool) /\ (ip = ANY \/ InRange(ip) \/ done.addr = ANY)
         => Ordered(done.pool)
  BY <1>1, <1>2, HandleOK
<1>4. PICK lost \in BOOLEAN :
        /\ dhcpOffer' = [dhcpOffer EXCEPT ![m] =
              IF done.ret = "OFFER" /\ ~lost THEN done.addr ELSE ANY]
        /\ dhcpHeld' = [dhcpHeld EXCEPT ![m] =
              IF done.ret = "ACK" /\ ~lost THEN done.addr
              ELSE IF ip # ANY /\ type = "REQUEST" /\ lost THEN @
              ELSE ANY]
  BY <1>2 DEF DhcpSend
<1>5. /\ dhcpPool' = done.pool /\ UNCHANGED <<dhcpRunning, dhcpLocal, dhcpLease>>
      /\ dhcpStray' = (dhcpStray \/ (ip # ANY /\ ~DhcpInRange(ip) /\ done.addr # ANY))
  BY <1>2 DEF DhcpSend
<1>6. dhcpOffer \in [DhcpMacs -> Nat] /\ dhcpHeld \in [DhcpMacs -> Nat] /\ ANY \in Nat
  BY <1>1 DEF DhcpTypeOK, ANY
<1>7. DhcpTypeOK'
  <2>1. dhcpOffer' \in [DhcpMacs -> Nat]
    BY <1>3, <1>4, <1>6 DEF HandleKeeps
  <2>2. dhcpHeld' \in [DhcpMacs -> Nat]
    BY <1>3, <1>4, <1>6 DEF HandleKeeps
  <2>3. QED
    BY <1>1, <1>5, <2>1, <2>2 DEF DhcpTypeOK
<1>8. LeaseInv'
  BY <1>1, <1>5 DEF LeaseInv, RangeIs, InRange
<1>9. NodesOK(dhcpPool)'
  BY <1>3, <1>5 DEF HandleKeeps, NodesOK
<1>10. HeldInv'
  <2> SUFFICES ASSUME NEW n \in DhcpMacs, dhcpHeld'[n] # ANY
               PROVE  Has(done.pool, n, dhcpHeld'[n])
    BY <1>5 DEF HeldInv, Has
  <2>1. CASE n # m
    BY <1>3, <1>4, <1>6, <2>1 DEF DhcpInv, HeldInv, HandleKeeps
  <2>2. CASE n = m /\ done.ret = "ACK" /\ ~lost
    BY <1>3, <1>4, <1>6, <2>2 DEF HandleKeeps
  <2>3. CASE n = m /\ ~(done.ret = "ACK" /\ ~lost)
    <3>1. ip # ANY /\ type = "REQUEST" /\ dhcpHeld'[m] = dhcpHeld[m]
      BY <1>4, <1>6, <2>3
    <3>2. dhcpHeld[m] = ip
      BY <2>3, <3>1
    <3>3. Has(dhcpPool, m, ip)
      BY <3>1, <3>2 DEF DhcpInv, HeldInv
    <3>4. QED
      BY <1>3, <2>3, <3>1, <3>2, <3>3 DEF HandleKeeps
  <2>4. QED
    BY <2>1, <2>2, <2>3
<1>11. OrderInv'
  <2> SUFFICES ASSUME DhcpOrderly' PROVE Ordered(dhcpPool)'
    BY DEF OrderInv
  <2>1. DhcpOrderly /\ (ip = ANY \/ InRange(ip) \/ done.addr = ANY)
    BY <1>5 DEF DhcpOrderly, DhcpInRange, InRange
  <2>2. RangeOK /\ Ordered(dhcpPool)
    BY <1>1, <2>1, RangeOrderly DEF OrderInv
  <2>3. Ordered(done.pool)
    BY <1>12, <2>1, <2>2
  <2>4. QED
    BY <1>5, <2>3 DEF Ordered, InRange
<1>13. QED
  BY <1>7, <1>8, <1>9, <1>10, <1>11 DEF DhcpInv

LEMMA DhcpNextOK ==
  ASSUME DhcpInv, [DhcpNext]_dhcpVars
  PROVE  DhcpInv'
<1>1. CASE DhcpSetLocal
  BY <1>1, SetLocalOK
<1>2. CASE DhcpSetLease
  BY <1>2, SetLeaseOK
<1>3. CASE DhcpBegin
  BY <1>3, BeginOK
<1>4. CASE DhcpEnd
  BY <1>4, EndOK
<1>5. ASSUME NEW m \in DhcpMacs, DhcpAddLease(m)
      PROVE  DhcpInv'
  BY <1>5, AddLeaseOK
<1>6. ANY \in Nat /\ \A m \in DhcpMacs : dhcpHeld[m] \in Nat
  BY DEF DhcpInv, DhcpTypeOK, ANY
<1>7. \A m \in DhcpMacs : \A a \in DhcpOwn(m) : a \in Nat /\ dhcpHeld[m] \in {ANY, a}
  BY <1>6, DhcpAssumption DEF DhcpOwn
<1>8. ASSUME NEW m \in DhcpMacs, DhcpDiscover(m) \/ DhcpSelect(m) \/ DhcpReboot(m) \/ DhcpDecline(m)
      PROVE  DhcpInv'
  <2>1. PICK type \in {"DISCOVER", "REQUEST", "DECLINE"} : \E a : DhcpSend(m, type, ANY, a)
    BY <1>8 DEF DhcpDiscover, DhcpSelect, DhcpReboot, DhcpDecline
  <2>2. PICK reqip : DhcpSend(m, type, ANY, reqip)
    BY <2>1
  <2>3. QED
    BY <1>6, <2>2, SendOK
<1>9. ASSUME NEW m \in DhcpMacs, DhcpRenew(m)
      PROVE  DhcpInv'
  <2>1. PICK a \in DhcpOwn(m) : DhcpSend(m, "REQUEST", a, ANY)
    BY <1>9 DEF DhcpRenew
  <2>2. QED
    BY <1>7, <2>1, SendOK
<1>10. ASSUME NEW m \in DhcpMacs, DhcpRelease(m)
       PROVE  DhcpInv'
  <2>1. PICK a \in DhcpOwn(m) : DhcpSend(m, "RELEASE", a, ANY)
    BY <1>10 DEF DhcpRelease
  <2>2. QED
    BY <1>7, <2>1, SendOK
<1>12. CASE UNCHANGED dhcpVars
  <2>1. DhcpTypeOK' /\ LeaseInv'
    BY <1>12 DEF dhcpVars, DhcpInv, DhcpTypeOK, LeaseInv, RangeIs, InRange
  <2>2. NodesOK(dhcpPool)' /\ HeldInv'
    BY <1>12 DEF dhcpVars, DhcpInv, NodesOK, HeldInv, Has
  <2>3. OrderInv'
    BY <1>12 DEF dhcpVars, DhcpInv, OrderInv, DhcpOrderly, Ordered, InRange
  <2>4. QED
    BY <2>1, <2>2, <2>3 DEF DhcpInv
<1>13. QED
  BY <1>1, <1>2, <1>3, <1>4, <1>5, <1>8, <1>9, <1>10, <1>12 DEF DhcpNext

(* For every set of clients, every range, every address of the server and  *)
(* every claim: a client has one node, and an address acknowledged to it   *)
(* keeps it; and while no claim of an address outside the range was taken, *)
(* no static lease was added to a pool with a gap, the range did not       *)
(* change under nodes and does not end at 255, no address is given to two  *)
(* clients and none is the server's.                                       *)
THEOREM DhcpConflictFree == DhcpSpec => []DhcpNoConflict
<1>1. DhcpInit => DhcpInv
  BY DhcpInitOK
<1>2. DhcpInv /\ [DhcpNext]_dhcpVars => DhcpInv'
  BY DhcpNextOK
<1>3. DhcpInv => DhcpNoConflict
  <2> SUFFICES ASSUME DhcpInv
               PROVE  DhcpNoConflict
    OBVIOUS
  <2>1. DOMAIN dhcpPool = 1..Len(dhcpPool)
    BY DEF DhcpInv, NodesOK
  <2>2. DhcpOneNode
    BY <2>1 DEF DhcpInv, NodesOK, DhcpOneNode
  <2>3. ASSUME DhcpOrderly PROVE DhcpUnique
    <3>1. Ordered(dhcpPool) /\ (dhcpRunning => ~InRange(dhcpLocal))
      BY <2>3 DEF DhcpInv, OrderInv, LeaseInv
    <3>2. QED
      BY <2>1, <3>1 DEF Ordered, DhcpUnique, DhcpInRange, InRange
  <2>4. DhcpHeldKept
    BY <2>1 DEF DhcpInv, HeldInv, Has, DhcpHeldKept
  <2>5. QED
    BY <2>2, <2>3, <2>4 DEF DhcpNoConflict
<1>4. QED
  BY <1>1, <1>2, <1>3, PTL DEF DhcpSpec

(* The client that has been given the first gap finds it again.            *)
LEMMA GapStands ==
  ASSUME RangeOK, NEW pool, PoolOK(pool), NEW m \in DhcpMacs, NEW a \in Nat, InRange(a),
         a = DhcpFirstGap(pool, m),
         NEW s, s = DhcpInsert(DhcpRemove(pool, m), [mac |-> m, ip |-> a])
  PROVE  PoolOK(s) /\ DhcpIndex(s, m) # {} /\ DhcpFirstGap(s, m) = a
<1>1. PICK start \in Nat : start = dhcpLease.start
  BY DEF RangeOK
<1>2. PICK k \in 0..Len(pool) : a = start + k /\ GapAt(pool, m, k)
  BY <1>1, FirstGapIs
<1>3. \A j \in 1..Len(pool) : pool[j].mac # m => pool[j].ip # a
  BY <1>1, <1>2, GapFree
<1>4. PICK rest : rest = DhcpRemove(pool, m)
  OBVIOUS
<1>5. PoolOK(rest) /\ OthersStay(rest, pool, m) /\ PrefixStays(rest, pool, m)
  BY <1>4, RemoveClient DEF PoolOK
<1>6. Len(pool) \in Nat /\ Len(rest) \in Nat /\ k \in Nat
  BY <1>5 DEF PoolOK, NodesOK
<1>7. /\ Len(rest) >= k
      /\ \A i \in 1..k : rest[i].ip = start + i - 1
  <2>1. \A i \in 1..k : pool[i].ip = start + i - 1 /\ pool[i].mac # m
    BY <1>1, <1>2 DEF GapAt
  <2>2. Len(rest) >= k /\ \A i \in 1..k : rest[i] = pool[i]
    BY <1>5, <2>1 DEF PrefixStays
  <2>3. QED
    BY <2>1, <2>2
<1>8. PICK node \in DhcpNode : node = [mac |-> m, ip |-> a] /\ node.mac = m /\ node.ip = a
  BY DEF DhcpNode
<1>9. \A i \in 1..Len(rest) : rest[i].ip # node.ip /\ rest[i].mac # node.mac
  BY <1>3, <1>5, <1>8 DEF OthersStay
<1>10. /\ PoolOK(s)
       /\ \E p \in 1..Len(rest) + 1 :
            /\ InsertedAt(s, rest, node, p)
            /\ \A i \in 1..p - 1 : rest[i].ip < node.ip
            /\ \A i \in p..Len(rest) : rest[i].ip > node.ip
  BY <1>4, <1>5, <1>8, <1>9, InsertOK
<1>11. PICK p \in 1..Len(rest) + 1 :
            /\ InsertedAt(s, rest, node, p)
            /\ \A i \in 1..p - 1 : rest[i].ip < node.ip
            /\ \A i \in p..Len(rest) : rest[i].ip > node.ip
  BY <1>10
<1>12. p = k + 1
  <2>1. p \in Nat
    BY <1>6
  <2>2. ~(p < k + 1)
    <3> SUFFICES ASSUME p < k + 1
                 PROVE  FALSE
      OBVIOUS
    <3>1. p \in 1..k /\ p \in p..Len(rest)
      BY <1>6, <1>7, <2>1
    <3>2. rest[p].ip = start + p - 1 /\ rest[p].ip > a
      BY <1>7, <1>8, <1>11, <3>1
    <3>3. start + p - 1 > start + k
      BY <1>2, <3>2
    <3>4. QED
      BY <1>1, <1>6, <2>1, <3>1, <3>3
  <2>3. ~(p > k + 1)
    <3> SUFFICES ASSUME p > k + 1
                 PROVE  FALSE
      OBVIOUS
    <3>1. k + 1 \in 1..Len(rest) /\ k + 1 \in 1..p - 1
      BY <1>6, <2>1
    <3>2. rest[k + 1].ip < a
      BY <1>8, <1>11, <3>1
    <3>3. rest[k + 1].ip \in Nat /\ rest[k + 1].ip >= start + (k + 1) - 1
      BY <1>1, <1>5, <3>1, SortedAbove
    <3>4. QED
      BY <1>1, <1>2, <1>6, <3>2, <3>3
  <2>4. QED
    BY <1>6, <2>1, <2>2, <2>3
<1>13. /\ Len(s) = Len(rest) + 1 /\ s[k + 1].mac = m
       /\ \A i \in 1..k : s[i].ip = start + i - 1
  <2>1. Len(s) = Len(rest) + 1 /\ s[k + 1] = node /\ \A i \in 1..k : s[i] = rest[i]
    <3>1. (k + 1) - 1 = k
      BY <1>6
    <3>2. QED
      BY <1>11, <1>12, <3>1 DEF InsertedAt
  <2>2. QED
    BY <1>7, <1>8, <2>1
<1>14. k + 1 \in 1..Len(s) /\ DOMAIN s = 1..Len(s)
  <2>1. k + 1 \in 1..Len(s)
    BY <1>6, <1>7, <1>13
  <2>2. s \in Seq(DhcpNode)
    BY <1>10 DEF PoolOK, NodesOK
  <2>3. QED
    BY <2>1, <2>2
<1>15. DhcpIndex(s, m) # {}
  BY <1>13, <1>14 DEF DhcpIndex
<1>16. PICK q \in 0..Len(s) : DhcpFirstGap(s, m) = start + q /\ GapAt(s, m, q)
  BY <1>1, <1>10, FirstGapIs
<1>17. q \in Nat /\ Len(s) \in Nat
  BY <1>6, <1>13
<1>18. ~(q > k)
  <2> SUFFICES ASSUME q > k
               PROVE  FALSE
    OBVIOUS
  <2>1. k + 1 \in 1..q
    BY <1>6, <1>17
  <2>2. QED
    BY <1>13, <1>16, <2>1 DEF GapAt
<1>19. ~(q < k)
  <2> SUFFICES ASSUME q < k
               PROVE  FALSE
    OBVIOUS
  <2>1. q + 1 \in 1..k /\ q + 1 \in q + 1..Len(s) /\ q + 1 \in 1..Len(s) /\ q + 1 < k + 1
    BY <1>6, <1>14, <1>17
  <2>2. s[q + 1].mac # m
    <3>1. \A i, j \in 1..Len(s) : i < j => s[i].mac # s[j].mac
      BY <1>10 DEF PoolOK, NodesOK
    <3>2. s[q + 1].mac # s[k + 1].mac
      BY <1>14, <2>1, <3>1
    <3>3. QED
      BY <1>13, <3>2
  <2>3. s[q + 1].ip = start + (q + 1) - 1
    BY <1>13, <2>1
  <2>4. s[q + 1].ip > start + q
    BY <1>1, <1>16, <2>1, <2>2 DEF GapAt
  <2>5. start + (q + 1) - 1 > start + q
    BY <2>3, <2>4
  <2>6. QED
    BY <1>1, <1>17, <2>5
<1>20. q = k
  BY <1>6, <1>17, <1>18, <1>19
<1>21. QED
  BY <1>2, <1>10, <1>15, <1>16, <1>20

(* Within a range no address is before a smaller one in the order of the   *)
(* network, also if the range ends its net.                                *)
LEMMA NetRises ==
  ASSUME DhcpTypeOK, RangeIs(dhcpLease), NEW b \in Nat, dhcpLease.start <= b, b <= dhcpLease.end
  PROVE  ~DhcpBefore(dhcpLease.end, b)
<1>1. PICK n \in Nat : n = DhcpNet /\ n # 0
  BY DhcpAssumption
<1>11. PICK start \in Nat, end \in Nat : start = dhcpLease.start /\ end = dhcpLease.end
  BY DEF DhcpTypeOK
<1>2. start \div n = end \div n
  BY <1>1, <1>11 DEF RangeIs
<1>3. PICK q \in Nat, s \in 0..n - 1 : q = start \div n /\ start = n * q + s
  <2>1. start \div n \in Nat /\ start % n \in 0..n - 1 /\ start = n * (start \div n) + (start % n)
    BY <1>1
  <2>2. QED
    BY <2>1
<1>4. PICK e \in 0..n - 1 : end = n * q + e
  <2>1. end % n \in 0..n - 1 /\ end = n * (end \div n) + (end % n)
    BY <1>1
  <2>2. QED
    BY <1>2, <1>3, <2>1
<1>5. PICK p \in Nat : p = n * q
  BY <1>1, <1>3
<1>6. PICK d \in 0..n - 1 : b = n * q + d /\ d <= e
  <2>1. b - p \in 0..n - 1 /\ b - p <= e
    BY <1>1, <1>11, <1>3, <1>4, <1>5
  <2>2. b = p + (b - p)
    BY <1>5
  <2>3. QED
    BY <1>5, <2>1, <2>2
<1>7. DivAt(end, n, q, e) /\ DivAt(b, n, q, d)
  BY <1>1, <1>11, <1>3, <1>4, <1>6 DEF DivAt
<1>8. end % n = e /\ b % n = d
  BY <1>7, ModIs
<1>9. ~(e < d) /\ (e = d => ~(end < b))
  BY <1>1, <1>11, <1>4, <1>5, <1>6
<1>10. QED
  BY <1>1, <1>11, <1>8, <1>9 DEF DhcpBefore

(* For every set of clients, every range, every address of the server and  *)
(* every claim, a client is offered no address only if all are taken; and  *)
(* under the conditions above an offer would be acknowledged (the loop of  *)
(* dhcps_client_update() finds the same gap for a client whose node        *)
(* already fills it).                                                      *)
THEOREM DhcpServesCorrect == DhcpSpec => []DhcpServes
<1>1. DhcpInit => DhcpInv
  BY DhcpInitOK
<1>2. DhcpInv /\ [DhcpNext]_dhcpVars => DhcpInv'
  BY DhcpNextOK
<1>3. DhcpInv => DhcpServes
  <2> SUFFICES ASSUME DhcpInv, dhcpRunning, NEW m \in DhcpMacs
               PROVE  LET offer == DhcpHandle(m, "DISCOVER", ANY, ANY)
                          again == DhcpClientUpdate(offer.pool, m, ANY)
                      IN  IF offer.addr = ANY
                          THEN \A a \in dhcpLease.start..dhcpLease.end :
                                  \E i \in DOMAIN dhcpPool : dhcpPool[i].ip = a
                          ELSE DhcpOrderly => again.addr = offer.addr
    BY DEF DhcpServes
  <2>1. /\ NodesOK(dhcpPool) /\ DOMAIN dhcpPool = 1..Len(dhcpPool) /\ Len(dhcpPool) \in Nat
        /\ dhcpLease.start # ANY
    BY DEF DhcpInv, LeaseInv, NodesOK
  <2>2. PICK up : up = DhcpClientUpdate(dhcpPool, m, ANY)
    OBVIOUS
  <2>3. PICK offer : offer = DhcpHandle(m, "DISCOVER", ANY, ANY)
    OBVIOUS
  <2>4. offer.pool = up.pool /\ offer.addr = up.addr
    BY <2>2, <2>3 DEF DhcpHandle, DhcpAnswer
  <2>5. ANY \in Nat
    BY DEF ANY
  <2>11. PICK start \in Nat, end \in Nat : start = dhcpLease.start /\ end = dhcpLease.end
    BY DEF DhcpInv, DhcpTypeOK
  <2>12. PICK k \in 0..Len(dhcpPool) : SearchEnds(dhcpPool, m, start, k)
    BY <2>1, <2>11, FirstGapSome
  <2>14. k \in Nat
    BY <2>1, <2>12
  <2>15. DhcpFirstGap(dhcpPool, m) = start + k
    BY <2>12 DEF SearchEnds
  <2>16. \A i \in 1..k : dhcpPool[i].ip = start + i - 1
    BY <2>12 DEF SearchEnds
  <2>13. /\ DhcpFirstGap(dhcpPool, m) = start + k /\ k \in Nat
         /\ \A i \in 1..k : dhcpPool[i].ip = start + i - 1
    BY <2>14, <2>15, <2>16
  <2>6. Refused(up, dhcpPool, m, ANY) \/ \E a \in Nat : Placed(up, dhcpPool, m, ANY, a)
    BY <2>1, <2>2, <2>5, <2>11, UpdateIs DEF Kept
  <2>7. CASE Refused(up, dhcpPool, m, ANY)
    <3>1. up.addr = ANY /\ DhcpBefore(end, start + k)
      BY <2>7, <2>11, <2>13 DEF Refused
    <3>2. start + k > end
      <4> SUFFICES ASSUME start + k <= end PROVE FALSE
        BY <2>11, <2>13
      <4>1. RangeIs(dhcpLease) /\ DhcpTypeOK
        BY DEF DhcpInv, LeaseInv
      <4>2. PICK b \in Nat : b = start + k
        BY <2>11, <2>14
      <4>3. start <= b /\ b <= end /\ DhcpBefore(end, b)
        BY <2>11, <2>14, <3>1, <4>2
      <4>4. ~DhcpBefore(dhcpLease.end, b)
        <5>1. dhcpLease.start <= b /\ b <= dhcpLease.end
          BY <2>11, <4>3
        <5>2. QED
          BY <4>1, <5>1, NetRises
      <4>5. QED
        BY <2>11, <4>3, <4>4
    <3>4. ASSUME NEW a \in start..end
          PROVE  \E i \in DOMAIN dhcpPool : dhcpPool[i].ip = a
      <4>2. a - start + 1 \in 1..k
        BY <2>11, <2>14, <3>2
      <4>3. dhcpPool[a - start + 1].ip = start + (a - start + 1) - 1
        BY <2>13, <4>2
      <4>4. start + (a - start + 1) - 1 = a
        BY <2>11
      <4>5. a - start + 1 \in DOMAIN dhcpPool
        BY <2>1, <2>12, <2>13, <4>2
      <4>6. QED
        BY <4>3, <4>4, <4>5
    <3>5. QED
      BY <2>3, <2>4, <2>11, <3>1, <3>4
  <2>8. ASSUME NEW a \in Nat, Placed(up, dhcpPool, m, ANY, a)
        PROVE  /\ up.addr = a /\ a # ANY
               /\ DhcpOrderly => DhcpClientUpdate(up.pool, m, ANY).addr = a
    <3>1. PICK s : s = DhcpInsert(DhcpRemove(dhcpPool, m), [mac |-> m, ip |-> a])
      OBVIOUS
    <3>2. /\ a = DhcpFirstGap(dhcpPool, m) /\ up.addr = a /\ up.pool = s
          /\ DhcpIndex(dhcpPool, m) = {} => ~DhcpBefore(dhcpLease.end, a)
      BY <2>8, <3>1 DEF Placed
    <3>3. a # ANY
      BY <2>1, <2>11, <2>13, <3>2 DEF ANY
    <3>4. ASSUME DhcpOrderly
          PROVE  DhcpClientUpdate(s, m, ANY).addr = a
      <4>1. RangeOK /\ PoolOK(dhcpPool)
        BY <2>1, <3>4, RangeOrderly DEF DhcpInv, OrderInv, PoolOK
      <4>2. InRange(a)
        BY <3>2, <4>1, GapGiven
      <4>3. DhcpIndex(s, m) # {} /\ DhcpFirstGap(s, m) = a
        BY <3>1, <3>2, <4>1, <4>2, GapStands
      <4>4. QED
        BY <4>3 DEF DhcpClientUpdate
    <3>6. QED
      BY <3>2, <3>3, <3>4
  <2>9. CASE \E a \in Nat : Placed(up, dhcpPool, m, ANY, a)
    BY <2>3, <2>4, <2>8, <2>9
  <2>10. QED
    BY <2>6, <2>7, <2>9
<1>4. QED
  BY <1>1, <1>2, <1>3, PTL DEF DhcpSpec
=============================================================================
