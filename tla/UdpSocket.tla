------------------------------ MODULE UdpSocket ------------------------------
(***************************************************************************)
(* UDP sockets: class WiFiUDP (WiFiUdp.cpp) over class UdpContext          *)
(* (UdpContext.h).                                                         *)
(*                                                                         *)
(* Every WiFiUDP object points to a reference-counted context or to none.  *)
(* lwIP calls _recv() in SYS for each datagram that arrives; the sketch    *)
(* takes datagrams with parsePacket() and reads them.  All unread          *)
(* datagrams of a context are one chain of pbufs: the pbufs of the current *)
(* datagram, then, for each one that waits, a helper pbuf with its         *)
(* addresses followed by its data pbufs.  A pbuf is a record: helper (is   *)
(* it a helper), dg (the datagram it belongs to, or whose addresses it     *)
(* holds) and len.  A datagram is numbered in the order of arrival; its    *)
(* number also stands for its addresses.                                   *)
(*                                                                         *)
(* The names carry the prefix udp, so that one module can extend several   *)
(* components.                                                             *)
(***************************************************************************)
EXTENDS Naturals, Sequences, FiniteSets, FiniteSetsExt, PrefixSums

CONSTANTS
    UdpObjs,        \* the WiFiUDP objects of the sketch
    UdpCtxs,        \* memory for UdpContext objects
    UdpShapes,      \* how a datagram may be cut into pbufs: sequences of lengths
    rxBufMaxDepth,  \* UdpContext::rxBufMaxDepth
    pbuf_unit_size, \* pbuf_unit_size of UdpContext::_reserve()
    UdpWrites,      \* numbers of bytes the sketch writes at once
    UdpMaxIn,       \* bound: datagrams that arrive
    UdpMaxTx        \* bound: bytes of an outgoing datagram

ASSUME UdpAssumption ==
    /\ rxBufMaxDepth \in Nat \ {0}
    /\ pbuf_unit_size \in Nat \ {0}
    /\ UdpMaxIn \in Nat /\ UdpMaxTx \in Nat /\ UdpWrites \subseteq Nat
    /\ \A s \in UdpShapes : s \in Seq(Nat) /\ s # <<>>

ASSUME UdpObjsAssumption == IsFiniteSet(UdpObjs) /\ UdpCtxs \cap {"NoCtx", "NoObj"} = {}

NoCtx  == "NoCtx"     \* _ctx = 0
NoObj  == "NoObj"     \* the object is not constructed

VARIABLES
    udpObj,   \* [UdpObjs -> UdpCtxs \cup {NoCtx, NoObj}]: the field _ctx
    udpCtx,   \* [UdpCtxs -> context]: the contexts, free memory has refcnt 0
    udpIn     \* number of datagrams that have arrived

udpVars == <<udpObj, udpCtx, udpIn>>

(* A context after its constructor.  rx is the chain at _rx_buf, addr the  *)
(* datagram whose addresses _currentAddr holds, cap the total length of    *)
(* the pbufs at _tx_buf_head, tx the bytes copied there (_tx_buf_offset).  *)
(* refused is a history variable: append() refused bytes although every    *)
(* allocation it asked for succeeded.                                      *)
UdpFresh ==
    [refcnt |-> 0, recv |-> FALSE, rx |-> <<>>, taken |-> FALSE,
     offset |-> 0, size |-> 0, addr |-> 0,
     cap |-> 0, tx |-> 0, refused |-> FALSE]

UdpTypeOK ==
    /\ udpObj \in [UdpObjs -> UdpCtxs \cup {NoCtx, NoObj}]
    /\ DOMAIN udpCtx = UdpCtxs
    /\ \A c \in UdpCtxs : DOMAIN udpCtx[c] = DOMAIN UdpFresh
    /\ udpIn \in 0..UdpMaxIn

UdpInit ==
    /\ udpObj = [u \in UdpObjs |-> NoObj]
    /\ udpCtx = [c \in UdpCtxs |-> UdpFresh]
    /\ udpIn = 0

-----------------------------------------------------------------------------
(* Reference counting.  unref() of the last reference deletes the context: *)
(* the destructor frees both pbuf chains and takes the pcb from lwIP, so   *)
(* that no more datagrams reach it.                                        *)

(* ref() forgotten: a copy shares the context without counting.            *)
UdpRef_Forgotten(ctx, c) == ctx

UdpRef(ctx, c) == [ctx EXCEPT ![c].refcnt = @ + 1]

UdpUnref(ctx, c) ==
    IF c \notin UdpCtxs THEN ctx
    ELSE IF ctx[c].refcnt = 1 THEN [ctx EXCEPT ![c] = UdpFresh]
    ELSE [ctx EXCEPT ![c].refcnt = @ - 1]

(* new UdpContext; ref(): the new context may use the memory of the one    *)
(* released just before.                                                   *)
UdpNew(ctx, c) == ctx[c].refcnt = 0

-----------------------------------------------------------------------------
(* Life of the WiFiUDP objects.                                            *)

(* WiFiUDP::WiFiUDP() *)
UdpConstruct(u) ==
    /\ udpObj[u] = NoObj
    /\ udpObj' = [udpObj EXCEPT ![u] = NoCtx]
    /\ UNCHANGED <<udpCtx, udpIn>>

(* WiFiUDP::WiFiUDP(const WiFiUDP&) *)
UdpCopy(u, v) ==
    /\ udpObj[u] = NoObj /\ udpObj[v] # NoObj
    /\ udpObj' = [udpObj EXCEPT ![u] = udpObj[v]]
    /\ udpCtx' = IF udpObj[v] = NoCtx THEN udpCtx ELSE UdpRef(udpCtx, udpObj[v])
    /\ UNCHANGED udpIn

(* WiFiUDP::operator=(): the context u had is not unreferenced.            *)
UdpAssign(u, v) ==
    /\ udpObj[u] # NoObj /\ udpObj[v] # NoObj
    /\ udpObj' = [udpObj EXCEPT ![u] = udpObj[v]]
    /\ udpCtx' = IF udpObj[v] = NoCtx THEN udpCtx ELSE UdpRef(udpCtx, udpObj[v])
    /\ \A c \in UdpCtxs : udpCtx'[c].refcnt <= Cardinality(UdpObjs)   \* bound
    /\ UNCHANGED udpIn

(* WiFiUDP::~WiFiUDP() *)
UdpDestroy(u) ==
    /\ udpObj[u] # NoObj
    /\ udpObj' = [udpObj EXCEPT ![u] = NoObj]
    /\ udpCtx' = UdpUnref(udpCtx, udpObj[u])
    /\ UNCHANGED udpIn

(* WiFiUDP::stop(): disconnect() only forgets the peer of the pcb.         *)
UdpStop(u) ==
    /\ udpObj[u] \in UdpCtxs
    /\ udpObj' = [udpObj EXCEPT ![u] = NoCtx]
    /\ udpCtx' = UdpUnref(udpCtx, udpObj[u])
    /\ UNCHANGED udpIn

(* WiFiUDP::begin() and beginMulticast(): the old context is released      *)
(* first; beginMulticast() gives up there when the group cannot be joined. *)
(* listen() may fail to bind the port: the object then keeps a context     *)
(* that receives nothing.                                                  *)
UdpBegin(u) ==
    /\ udpObj[u] # NoObj
    /\ LET old == UdpUnref(udpCtx, udpObj[u]) IN
       \/ \E c \in UdpCtxs, bound \in BOOLEAN :
            /\ UdpNew(old, c)
            /\ udpObj' = [udpObj EXCEPT ![u] = c]
            /\ udpCtx' = [old EXCEPT ![c] =
                            [UdpFresh EXCEPT !.refcnt = 1, !.recv = bound]]
       \/ /\ udpObj' = [udpObj EXCEPT ![u] = NoCtx]
          /\ udpCtx' = old
    /\ UNCHANGED udpIn

(* WiFiUDP::beginPacket(), beginPacketMulticast(): without a context one   *)
(* is created, for sending only.                                           *)
UdpBeginPacket(u) ==
    /\ udpObj[u] = NoCtx
    /\ \E c \in UdpCtxs :
         /\ UdpNew(udpCtx, c)
         /\ udpObj' = [udpObj EXCEPT ![u] = c]
         /\ udpCtx' = [udpCtx EXCEPT ![c] = [UdpFresh EXCEPT !.refcnt = 1]]
    /\ UNCHANGED udpIn

UdpPointing(obj, c) == {u \in UdpObjs : obj[u] = c}

(* WiFiUDP::stopAll(): stop() for every constructed object of the list, so *)
(* that a context loses as many references as objects point to it.         *)
UdpStopAll ==
    /\ \E u \in UdpObjs : udpObj[u] \in UdpCtxs
    /\ udpObj' = [u \in UdpObjs |-> IF udpObj[u] = NoObj THEN NoObj ELSE NoCtx]
    /\ udpCtx' = [c \in UdpCtxs |->
                    LET n == Cardinality(UdpPointing(udpObj, c)) IN
                    IF n = udpCtx[c].refcnt THEN UdpFresh
                    ELSE [udpCtx[c] EXCEPT !.refcnt = @ - n]]
    /\ UNCHANGED udpIn

-----------------------------------------------------------------------------
(* Receiving.                                                              *)

UdpHelper(d) == [helper |-> TRUE, dg |-> d, len |-> 0]

UdpPbufs(d, shape) ==
    [i \in 1..Len(shape) |-> [helper |-> FALSE, dg |-> d, len |-> shape[i]]]

UdpHelpers(chain) == {i \in DOMAIN chain : chain[i].helper}

(* _processSize(): the bytes up to the next helper.                        *)
UdpProcessSize(chain) ==
    LET end == IF UdpHelpers(chain) = {} THEN Len(chain) + 1 ELSE Min(UdpHelpers(chain))
    IN  SumTo([i \in 1..(end - 1) |-> chain[i].len], end - 1)

(* _recv(), called by lwIP.  A chain of 2*rxBufMaxDepth pbufs or more      *)
(* takes no further datagram; neither does a heap without room for the     *)
(* helper.                                                                 *)
UdpRecv(c, shape) ==
    /\ udpCtx[c].recv
    /\ udpIn < UdpMaxIn
    /\ udpIn' = udpIn + 1
    /\ LET x == udpCtx[c]
           d == udpIn + 1
       IN  \/ /\ x.rx # <<>>
              /\ UNCHANGED udpCtx
           \/ /\ x.rx # <<>>
              /\ Len(x.rx) < 2 * rxBufMaxDepth
              /\ udpCtx' = [udpCtx EXCEPT ![c].rx =
                                @ \o <<UdpHelper(d)>> \o UdpPbufs(d, shape)]
           \/ /\ x.rx = <<>>
              /\ udpCtx' = [udpCtx EXCEPT ![c] =
                                [@ EXCEPT !.rx = UdpPbufs(d, shape), !.taken = FALSE,
                                          !.offset = 0, !.addr = d,
                                          !.size = UdpProcessSize(UdpPbufs(d, shape))]]
    /\ UNCHANGED udpObj

(* Only the first pbuf of the current datagram goes.                       *)
UdpAdvance_OnePbuf(x) ==
    LET rest == SubSeq(x.rx, 2, Len(x.rx))
    IN  IF x.rx = <<>> THEN x
        ELSE IF ~x.taken THEN [x EXCEPT !.taken = TRUE]
        ELSE [x EXCEPT !.rx = rest, !.offset = 0, !.size = UdpProcessSize(rest)]

(* next(): the current datagram goes; the pbufs from the next helper's     *)
(* successor on stay.                                                      *)
UdpAdvance(x) ==
    LET h    == Min(UdpHelpers(x.rx))
        rest == SubSeq(x.rx, h + 1, Len(x.rx))
    IN  IF x.rx = <<>> THEN x
        ELSE IF ~x.taken THEN [x EXCEPT !.taken = TRUE]
        ELSE IF UdpHelpers(x.rx) = {}
             THEN [x EXCEPT !.rx = <<>>, !.taken = FALSE, !.offset = 0, !.size = 0, !.addr = 0]
        ELSE [x EXCEPT !.rx = rest, !.addr = x.rx[h].dg, !.offset = 0,
                       !.size = UdpProcessSize(rest)]

(* WiFiUDP::parsePacket() *)
UdpParsePacket(u) ==
    /\ udpObj[u] \in UdpCtxs
    /\ udpCtx' = [udpCtx EXCEPT ![udpObj[u]] = UdpAdvance(@)]
    /\ UNCHANGED <<udpObj, udpIn>>

(* WiFiUDP::read(): at most what is left of the current datagram.          *)
UdpRead(u, n) ==
    /\ udpObj[u] \in UdpCtxs
    /\ LET x == udpCtx[udpObj[u]] IN
         /\ x.rx # <<>>
         /\ udpCtx' = [udpCtx EXCEPT ![udpObj[u]].offset =
                            @ + Min({n, x.size - x.offset})]
    /\ UNCHANGED <<udpObj, udpIn>>

-----------------------------------------------------------------------------
(* Sending.                                                                *)

CeilDiv(a, b) == (a + b - 1) \div b

(* _reserve(): the pbufs it asks for so that the buffer holds size bytes.  *)
UdpUnits(cap, size) ==
    LET base == IF cap = 0 THEN pbuf_unit_size ELSE cap
    IN  (IF cap = 0 THEN 1 ELSE 0)
        + (IF size < base THEN 0 ELSE CeilDiv(size - base, pbuf_unit_size))

(* WiFiUDP::write(): append() makes room, got of the pbufs it asks for are *)
(* there, and then copies all the bytes or none.                           *)
UdpWrite(u, n) ==
    /\ udpObj[u] \in UdpCtxs
    /\ LET x     == udpCtx[udpObj[u]]
           units == IF x.cap < x.tx + n THEN UdpUnits(x.cap, x.tx + n) ELSE 0
       IN  /\ x.tx + n <= UdpMaxTx
           /\ \A c \in UdpCtxs : c # udpObj[u] => udpCtx[c].cap = 0   \* bound
           /\ \E got \in 0..units :
                LET cap == x.cap + got * pbuf_unit_size IN
                udpCtx' = [udpCtx EXCEPT ![udpObj[u]] =
                    IF cap < x.tx + n
                    THEN [x EXCEPT !.cap = cap, !.refused = @ \/ got = units]
                    ELSE [x EXCEPT !.cap = cap, !.tx = @ + n]]
    /\ UNCHANGED <<udpObj, udpIn>>

(* WiFiUDP::endPacket() and flush(): send(), that is trySend() without     *)
(* keeping the buffer: whether or not a copy can be allocated and sent,    *)
(* cancelBuffer() empties it.                                              *)
UdpEndPacket(u) ==
    /\ udpObj[u] \in UdpCtxs
    /\ udpCtx' = [udpCtx EXCEPT ![udpObj[u]] = [@ EXCEPT !.cap = 0, !.tx = 0]]
    /\ UNCHANGED <<udpObj, udpIn>>

-----------------------------------------------------------------------------
UdpNext ==
    \/ \E u \in UdpObjs :
         \/ UdpConstruct(u)
         \/ UdpDestroy(u)
         \/ UdpStop(u)
         \/ UdpBegin(u)
         \/ UdpBeginPacket(u)
         \/ UdpParsePacket(u)
         \/ UdpRead(u, 1)
         \/ \E n \in UdpWrites : UdpWrite(u, n)
         \/ UdpEndPacket(u)
         \/ \E v \in UdpObjs : UdpCopy(u, v) \/ UdpAssign(u, v)
    \/ UdpStopAll
    \/ \E c \in UdpCtxs, shape \in UdpShapes : UdpRecv(c, shape)

UdpSpec == UdpInit /\ [][UdpNext]_udpVars

-----------------------------------------------------------------------------
(* Properties                                                              *)

(* The datagram that the place of pbuf i in the chain assigns it to: the   *)
(* one of the last helper up to i, or the current one.                     *)
UdpOwner(x, i) ==
    LET before == UdpHelpers(x.rx) \cap (1..i)
    IN  IF before = {} THEN x.addr ELSE x.rx[Max(before)].dg

(* The chain is framed: the bytes the sketch can read between two calls of *)
(* parsePacket() (offset up to size) are the bytes of one datagram, the    *)
(* addresses it is told are that datagram's, every later datagram follows  *)
(* its own helper, datagrams come in the order of arrival, and the chain   *)
(* is bounded however slowly the sketch reads (_recv(), next()).  The send *)
(* buffer never holds more than its pbufs, and append() only refuses bytes *)
(* when an allocation failed (_reserve()).                                 *)
UdpFramed ==
    \A c \in UdpCtxs :
      LET x    == udpCtx[c]
          mine == [i \in DOMAIN x.rx |->
                     IF ~x.rx[i].helper /\ UdpOwner(x, i) = x.addr THEN x.rx[i].len ELSE 0]
      IN  /\ x.rx # <<>> =>
               /\ ~x.rx[1].helper
               /\ \A i \in DOMAIN x.rx : x.rx[i].dg = UdpOwner(x, i)
               /\ \A i \in UdpHelpers(x.rx) : x.addr < x.rx[i].dg
               /\ \A i, j \in UdpHelpers(x.rx) : i < j => x.rx[i].dg < x.rx[j].dg
               /\ x.size = SumTo(mine, Len(x.rx))
          /\ x.offset <= x.size
          /\ Cardinality(UdpHelpers(x.rx)) < 2 * rxBufMaxDepth
          /\ x.tx <= x.cap /\ ~x.refused

(* A context lives exactly as long as references are counted, and at least *)
(* as many are counted as objects point to it: no object is left with a    *)
(* deleted context, and lwIP calls no context that has been deleted        *)
(* (copies, begin(), stop(), stopAll() and destructors in any order).      *)
UdpHolders ==
    /\ UdpTypeOK
    /\ \A c \in UdpCtxs :
         /\ Cardinality(UdpPointing(udpObj, c)) <= udpCtx[c].refcnt
         /\ udpCtx[c].refcnt = 0 => udpCtx[c] = UdpFresh
=============================================================================
