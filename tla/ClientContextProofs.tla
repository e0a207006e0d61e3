------------------------ MODULE ClientContextProofs -------------------------
(***************************************************************************)
(* Proofs about ClientContext: neither side of a connection is left with a *)
(* pointer to something deleted, and no call waits for what cannot come,   *)
(* for every size of the buffers and every bound.                          *)
(***************************************************************************)
EXTENDS ClientContext, SequenceTheorems, NatLemmas, TLAPS

CallType == [kind : {"none", "flush", "stop", "abort", "sync", "write"}, len : Nat,
             written : Nat, sampled : Nat, starved : BOOLEAN]

\* What of the state the argument needs; rx and off play no part in it.
ConnTypeOK ==
    /\ lw \in {"new", "syn_sent", "established", "close_wait", "closing", "none"}
    /\ arg \in BOOLEAN /\ pcb \in BOOLEAN
    /\ sendWaiting \in BOOLEAN /\ connectPending \in BOOLEAN /\ sync \in BOOLEAN
    /\ txq \in Seq({"copied", "borrowed"}) /\ Len(txq) <= SndBuf
    /\ refs \in Nat
    /\ pc \in {"idle", "connecting", "sending", "acking"}
    /\ call \in CallType /\ call.written <= call.len
    /\ DOMAIN hist = {"rcvd", "got", "credit", "sent"} /\ hist.sent \in Nat

\* The context and its pcb point to each other or not at all: whoever ends
\* the connection cuts both pointers.
Paired ==
    /\ arg <=> pcb
    /\ pcb => lw \notin {"none", "closing"} /\ refs > 0

\* A flag is set only by the call that waits for it.
FlagsOwned ==
    /\ connectPending => pc = "connecting" /\ pcb
    /\ sendWaiting => /\ pc = "sending" /\ ~Closed
                      /\ Len(txq) = SndBuf \/ call.starved

Inv == ConnTypeOK /\ Paired /\ FlagsOwned

-----------------------------------------------------------------------------
LEMMA NoCallType == NoCall \in CallType /\ NoCall.written <= NoCall.len
  BY DEF NoCall, CallType

LEMMA EmptyQueue == <<>> \in Seq({"copied", "borrowed"}) /\ Len(<<>>) <= SndBuf
  BY BufferAssumption

LEMMA InitInv == Init => Inv
<1> SUFFICES ASSUME Init PROVE Inv
  OBVIOUS
<1>1. ConnTypeOK
  <2>1. txq \in Seq({"copied", "borrowed"}) /\ Len(txq) <= SndBuf
    BY EmptyQueue DEF Init
  <2>2. sync \in BOOLEAN
    BY BufferAssumption DEF Init
  <2>3. call \in CallType /\ call.written <= call.len
    BY NoCallType DEF Init
  <2>4. DOMAIN hist = {"rcvd", "got", "credit", "sent"} /\ hist.sent \in Nat
    BY DEF Init
  <2>5. refs \in Nat
    BY DEF Init
  <2> QED BY <2>1, <2>2, <2>3, <2>4, <2>5, Zenon DEF Init, ConnTypeOK
<1>2. Paired
  BY DEF Init, Paired
<1>3. FlagsOwned
  BY DEF Init, FlagsOwned
<1> QED BY <1>1, <1>2, <1>3 DEF Inv

-----------------------------------------------------------------------------
(* lwIP's callbacks: _notify_error() clears the flags whenever the         *)
(* connection ends, and every acknowledgement and poll clears the one it   *)
(* could satisfy.                                                          *)

LEMMA LwStep == ASSUME Inv, LwNext PROVE Inv'
<1>1. ConnTypeOK /\ Paired /\ FlagsOwned
  BY DEF Inv
<1>2. CASE LwConnected
  <2>1. ConnTypeOK'
    BY <1>1, <1>2 DEF LwConnected, ConnTypeOK
  <2>2. Paired'
    BY <1>1, <1>2 DEF LwConnected, Paired
  <2>3. FlagsOwned'
    BY <1>1, <1>2 DEF LwConnected, FlagsOwned, Closed
  <2> QED BY <2>1, <2>2, <2>3 DEF Inv
<1>3. CASE LwRecv
  BY <1>1, <1>3 DEF LwRecv, conn, flags, Inv, ConnTypeOK, Paired, FlagsOwned, Closed
<1>4. CASE LwFin
  <2>1. ConnTypeOK'
    <3>1. txq' \in Seq({"copied", "borrowed"}) /\ Len(txq') <= SndBuf
      BY <1>1, <1>4, EmptyQueue DEF LwFin, ConnTypeOK
    <3>2. arg' \in BOOLEAN /\ pcb' \in BOOLEAN
      BY <1>1, <1>4, Zenon DEF LwFin, Abort, ConnTypeOK
    <3> QED BY <1>1, <1>4, <3>1, <3>2 DEF LwFin, Abort, NotifyError, ConnTypeOK
  <2>2. Paired'
    BY <1>1, <1>4 DEF LwFin, Abort, Paired
  <2>3. FlagsOwned'
    BY <1>4 DEF LwFin, NotifyError, FlagsOwned
  <2> QED BY <2>1, <2>2, <2>3 DEF Inv
<1>5. CASE LwError
  <2>1. ConnTypeOK'
    <3>1. txq' \in Seq({"copied", "borrowed"}) /\ Len(txq') <= SndBuf
      BY <1>5, EmptyQueue DEF LwError
    <3> QED BY <1>1, <1>5, <3>1 DEF LwError, NotifyError, ConnTypeOK
  <2>2. Paired'
    BY <1>1, <1>5 DEF LwError, Paired
  <2>3. FlagsOwned'
    BY <1>5 DEF LwError, NotifyError, FlagsOwned
  <2> QED BY <2>1, <2>2, <2>3 DEF Inv
<1>6. CASE LwAck
  <2>1. PICK n \in 1 .. Len(txq) : txq' = SubSeq(txq, n + 1, Len(txq))
    BY <1>6 DEF LwAck
  <2>2. txq' \in Seq({"copied", "borrowed"}) /\ Len(txq') <= SndBuf
    <3>1. txq \in Seq({"copied", "borrowed"}) /\ Len(txq) \in Nat /\ Len(txq) <= SndBuf
      BY <1>1 DEF ConnTypeOK
    <3>2. \A i \in n + 1 .. Len(txq) : txq[i] \in {"copied", "borrowed"}
      BY <3>1
    <3> QED BY <2>1, <3>1, <3>2, BufferAssumption, SubSeqProperties
  <2> QED BY <1>1, <1>6, <2>2
          DEF LwAck, conn, Inv, ConnTypeOK, Paired, FlagsOwned, Closed
<1>7. CASE LwPoll
  BY <1>1, <1>7 DEF LwPoll, conn, Inv, ConnTypeOK, Paired, FlagsOwned, Closed
<1> QED BY <1>2, <1>3, <1>4, <1>5, <1>6, <1>7 DEF LwNext

-----------------------------------------------------------------------------
(* The two ways a connection ends cut both pointers. *)

LEMMA CloseFacts ==
    ASSUME ConnTypeOK, Paired, Close
    PROVE  /\ ~arg' /\ ~pcb' /\ arg' \in BOOLEAN /\ pcb' \in BOOLEAN
           /\ lw' \in {"new", "syn_sent", "established", "close_wait", "closing", "none"}
<1>1. ~arg' /\ ~pcb' /\ arg' \in BOOLEAN /\ pcb' \in BOOLEAN
  BY Zenon DEF ConnTypeOK, Paired, Close, ArgAfterClose
<1>2. CASE pcb
  BY <1>1, <1>2 DEF Close
<1>3. CASE ~pcb
  BY <1>1, <1>3 DEF Close, ConnTypeOK
<1> QED BY <1>2, <1>3

LEMMA AbortFacts ==
    ASSUME ConnTypeOK, Paired, Abort
    PROVE  /\ ~arg' /\ ~pcb' /\ arg' \in BOOLEAN /\ pcb' \in BOOLEAN
           /\ lw' \in {"new", "syn_sent", "established", "close_wait", "closing", "none"}
<1>1. ~arg' /\ ~pcb' /\ arg' \in BOOLEAN /\ pcb' \in BOOLEAN
  BY Zenon DEF ConnTypeOK, Paired, Abort
<1> QED BY <1>1 DEF Abort, ConnTypeOK

\* What is discarded is credited, and nothing else of the history changes.
LEMMA DiscardHist ==
    ASSUME ConnTypeOK, NEW live, Discard(live)
    PROVE  DOMAIN hist' = {"rcvd", "got", "credit", "sent"} /\ hist'.sent \in Nat
<1>1. PICK c : hist' = [hist EXCEPT !.credit = c]
  BY DEF Discard
<1> QED BY <1>1, "credit" # "sent" DEF ConnTypeOK

LEMMA ConnectStep == ASSUME Inv, Connect \/ ConnectEnd PROVE Inv'
<1>1. ConnTypeOK /\ Paired /\ FlagsOwned
  BY DEF Inv
<1>2. CASE Connect
  <2>1. CASE lw' = "syn_sent" /\ connectPending' = TRUE /\ pc' = "connecting"
             /\ UNCHANGED <<arg, pcb, rxv, refs, hist>>
    <3>1. UNCHANGED <<txq, sendWaiting, sync, call>> /\ pc = "idle" /\ pcb
      BY <1>2 DEF Connect
    <3>2. ConnTypeOK'
      BY <1>1, <2>1, <3>1 DEF ConnTypeOK
    <3>3. Paired'
      BY <1>1, <2>1, <3>1 DEF Paired
    <3>4. FlagsOwned'
      BY <1>1, <2>1, <3>1 DEF FlagsOwned
    <3> QED BY <3>2, <3>3, <3>4 DEF Inv
  <2>2. CASE Close /\ Release(TRUE) /\ UNCHANGED <<connectPending, pc>>
    <3>1. UNCHANGED <<txq, sendWaiting, sync, call>> /\ pc = "idle"
      BY <1>2 DEF Connect
    <3>5. refs' \in Nat
      BY <2>2 DEF Release
    <3>6. DOMAIN hist' = {"rcvd", "got", "credit", "sent"} /\ hist'.sent \in Nat
      BY <1>1, <2>2, DiscardHist DEF Release
    <3>2. ConnTypeOK'
      BY <1>1, <2>2, <3>1, <3>5, <3>6, CloseFacts, Zenon DEF ConnTypeOK
    <3>3. Paired'
      BY <1>1, <2>2, CloseFacts DEF Paired
    <3>4. FlagsOwned'
      BY <1>1, <2>2, <3>1 DEF FlagsOwned
    <3> QED BY <3>2, <3>3, <3>4 DEF Inv
  <2> QED BY <1>2, <2>1, <2>2 DEF Connect
<1>3. CASE ConnectEnd
  <2>1. /\ pc = "connecting" /\ connectPending' = FALSE /\ pc' = "idle"
        /\ UNCHANGED <<txq, sendWaiting, sync, call>>
    BY <1>3 DEF ConnectEnd
  <2>2. FlagsOwned'
    BY <1>1, <2>1 DEF FlagsOwned
  <2>3. CASE Established
    <3>1. UNCHANGED <<lw, arg, pcb, refs, hist>>
      BY <1>3, <2>3 DEF ConnectEnd, conn
    <3> QED BY <1>1, <2>1, <2>2, <3>1 DEF Inv, ConnTypeOK, Paired
  <2>4. CASE ~Established
    <3>1. Abort /\ Release(FALSE)
      BY <1>3, <2>4 DEF ConnectEnd
    <3>5. refs' \in Nat
      BY <3>1 DEF Release
    <3>6. DOMAIN hist' = {"rcvd", "got", "credit", "sent"} /\ hist'.sent \in Nat
      BY <1>1, <3>1, DiscardHist DEF Release
    <3>2. ConnTypeOK'
      BY <1>1, <2>1, <3>1, <3>5, <3>6, AbortFacts DEF ConnTypeOK
    <3>3. Paired'
      BY <1>1, <3>1, AbortFacts DEF Paired
    <3> QED BY <2>2, <3>2, <3>3 DEF Inv
  <2> QED BY <2>3, <2>4
<1> QED BY <1>2, <1>3

-----------------------------------------------------------------------------
(* wait_until_acked() and its callers *)

LEMMA FinishStep ==
    ASSUME Inv, Finish, pc = "acking", UNCHANGED <<txq, rxv, flags, sync, refs, hist>>
    PROVE  Inv'
<1>1. ConnTypeOK /\ Paired /\ FlagsOwned
  BY DEF Inv
<1>2. pc' = "idle" /\ call' = NoCall /\ UNCHANGED <<sendWaiting, connectPending>>
  BY DEF Finish, flags
<1>3. call' \in CallType /\ call'.written <= call'.len
  BY <1>2, NoCallType
<1>4. FlagsOwned'
  BY <1>1, <1>2 DEF FlagsOwned
<1>5. Close \/ Abort \/ UNCHANGED <<lw, arg, pcb>>
  BY DEF Finish, conn
<1>6. CASE Close \/ Abort
  <2>1. /\ ~arg' /\ ~pcb' /\ arg' \in BOOLEAN /\ pcb' \in BOOLEAN
        /\ lw' \in {"new", "syn_sent", "established", "close_wait", "closing", "none"}
    BY <1>1, <1>6, CloseFacts, AbortFacts
  <2>2. ConnTypeOK'
    BY <1>1, <1>2, <1>3, <2>1 DEF ConnTypeOK
  <2>3. Paired'
    BY <2>1 DEF Paired
  <2> QED BY <1>4, <2>2, <2>3 DEF Inv
<1>7. CASE UNCHANGED <<lw, arg, pcb>>
  BY <1>1, <1>2, <1>3, <1>4, <1>7 DEF Inv, ConnTypeOK, Paired
<1> QED BY <1>5, <1>6, <1>7

LEMMA AckStep == ASSUME Inv, Flush \/ AckResume \/ AckTimeout PROVE Inv'
<1>1. ConnTypeOK /\ Paired /\ FlagsOwned
  BY DEF Inv
<1>2. CASE Flush
  <2>1. PICK k \in {"flush", "stop", "abort"} :
           call' = [NoCall EXCEPT !.kind = k, !.sampled = Len(txq)]
    BY <1>2 DEF Flush
  <2>2. call' \in CallType /\ call'.written <= call'.len
    <3>1. call' = [kind |-> k, len |-> 0, written |-> 0, sampled |-> Len(txq), starved |-> FALSE]
      BY <2>1 DEF NoCall
    <3>2. Len(txq) \in Nat
      BY <1>1 DEF ConnTypeOK
    <3> QED BY <3>1, <3>2 DEF CallType
  <2>3. /\ UNCHANGED <<lw, arg, pcb, txq, sendWaiting, connectPending, sync, refs, hist>>
        /\ pc = "idle" /\ pc' = "acking"
    BY <1>2 DEF Flush, Idle, conn, flags
  <2>4. FlagsOwned'
    BY <1>1, <2>3 DEF FlagsOwned
  <2> QED BY <1>1, <2>2, <2>3, <2>4 DEF Inv, ConnTypeOK, Paired
<1>3. CASE AckResume
  <2>1. CASE Finish
    BY <1>3, <2>1, FinishStep DEF AckResume
  <2>2. CASE /\ call' = [call EXCEPT !.sampled = Len(txq)]
             /\ UNCHANGED <<conn, pc>>
    <3>1. call' \in CallType /\ call'.written <= call'.len
      BY <1>1, <2>2 DEF CallType, ConnTypeOK
    <3>2. UNCHANGED <<lw, arg, pcb, txq, sendWaiting, connectPending, sync, refs, hist, pc>>
      BY <1>3, <2>2 DEF AckResume, conn, flags
    <3>3. FlagsOwned'
      BY <1>1, <1>3, <3>2 DEF FlagsOwned, AckResume
    <3> QED BY <1>1, <3>1, <3>2, <3>3 DEF Inv, ConnTypeOK, Paired
  <2> QED BY <1>3, <2>1, <2>2 DEF AckResume
<1>4. CASE AckTimeout
  BY <1>4, FinishStep DEF AckTimeout
<1> QED BY <1>2, <1>3, <1>4

-----------------------------------------------------------------------------
(* write(): a round that goes on waiting placed all that there was room    *)
(* for, so the send buffer is full, or was refused memory.                 *)

LEMMA WriteEndStep ==
    ASSUME Inv, WriteEnd(txq'), UNCHANGED <<conn, connectPending, sync, refs>>,
           pc # "connecting",
           txq' \in Seq({"copied", "borrowed"}) /\ Len(txq') <= SndBuf,
           DOMAIN hist' = {"rcvd", "got", "credit", "sent"} /\ hist'.sent \in Nat
    PROVE  Inv'
<1>1. ConnTypeOK /\ Paired /\ FlagsOwned
  BY DEF Inv
<1>2. sendWaiting' = FALSE /\ UNCHANGED <<lw, arg, pcb, connectPending, sync, refs>>
  BY DEF WriteEnd, WaitingAfterWrite, conn
<1>3. /\ pc' \in {"idle", "acking"}
      /\ call' \in CallType /\ call'.written <= call'.len
  <2>1. CASE sync /\ pcb
    <3>1. pc' = "acking" /\ call' = [NoCall EXCEPT !.kind = "sync", !.sampled = Len(txq')]
      BY <2>1 DEF WriteEnd
    <3>2. Len(txq') \in Nat
      OBVIOUS
    <3>3. call' = [kind |-> "sync", len |-> 0, written |-> 0, sampled |-> Len(txq'),
                   starved |-> FALSE]
      BY <3>1 DEF NoCall
    <3>4. call' \in CallType
      BY <3>2, <3>3 DEF CallType
    <3>5. call'.written <= call'.len
      BY <3>3
    <3> QED BY <3>1, <3>4, <3>5
  <2>2. CASE ~(sync /\ pcb)
    BY <2>2, NoCallType DEF WriteEnd
  <2> QED BY <2>1, <2>2
<1>4. ConnTypeOK'
  BY <1>1, <1>2, <1>3 DEF ConnTypeOK
<1>5. Paired'
  BY <1>1, <1>2 DEF Paired
<1>6. FlagsOwned'
  BY <1>1, <1>2 DEF FlagsOwned
<1> QED BY <1>4, <1>5, <1>6 DEF Inv

LEMMA WriteRoundStep ==
    ASSUME Inv, NEW c \in CallType, c.written <= c.len, WriteRound(c),
           pc # "connecting", UNCHANGED <<conn, connectPending, sync, refs>>
    PROVE  Inv'
<1>1. ConnTypeOK /\ Paired /\ FlagsOwned
  BY DEF Inv
<1>2. PICK k \in Chunks(c) :
        /\ txq' = txq \o [i \in 1 .. k |-> WriteFlag]
        /\ hist' = [hist EXCEPT !.sent = @ + k]
        /\ IF c.written + k = c.len \/ Closed
           THEN WriteEnd(txq')
           ELSE /\ call' = [c EXCEPT !.written = c.written + k, !.starved = k < Room(c)]
                /\ sendWaiting' = TRUE
                /\ pc' = "sending"
  BY DEF WriteRound
<1>3. /\ txq \in Seq({"copied", "borrowed"}) /\ Len(txq) \in Nat /\ Len(txq) <= SndBuf
      /\ SndBuf \in Nat /\ c.len \in Nat /\ c.written \in Nat
  BY <1>1, BufferAssumption DEF ConnTypeOK, CallType
<1>4. /\ Room(c) \in Nat /\ Room(c) <= SndBuf - Len(txq) /\ Room(c) <= c.len - c.written
      /\ Room(c) = SndBuf - Len(txq) \/ Room(c) = c.len - c.written
  BY <1>3 DEF Room
<1>5. k \in Nat /\ k <= Room(c)
  BY <1>2, <1>4 DEF Chunks
<1>6. /\ txq' \in Seq({"copied", "borrowed"}) /\ Len(txq') = Len(txq) + k
  <2>1. /\ [i \in 1 .. k |-> WriteFlag] \in Seq({"copied", "borrowed"})
        /\ Len([i \in 1 .. k |-> WriteFlag]) = k
    BY <1>5 DEF WriteFlag
  <2>2. PICK q \in Seq({"copied", "borrowed"}) : q = [i \in 1 .. k |-> WriteFlag] /\ Len(q) = k
    BY <2>1
  <2>3. txq' = txq \o q
    BY <1>2, <2>2
  <2> QED BY <1>3, <2>2, <2>3, ConcatProperties, ZenonT(60)
<1>7. Len(txq') <= SndBuf
  BY <1>3, <1>4, <1>5, <1>6
<1>8. DOMAIN hist' = {"rcvd", "got", "credit", "sent"} /\ hist'.sent \in Nat
  BY <1>1, <1>2, <1>5 DEF ConnTypeOK
<1>9. CASE c.written + k = c.len \/ Closed
  BY <1>2, <1>6, <1>7, <1>8, <1>9, WriteEndStep
<1>10. CASE ~(c.written + k = c.len \/ Closed)
  <2>1. /\ call' = [c EXCEPT !.written = c.written + k, !.starved = k < Room(c)]
        /\ sendWaiting' = TRUE /\ pc' = "sending"
    BY <1>2, <1>10
  <2>2. UNCHANGED <<lw, arg, pcb, connectPending, sync, refs>>
    BY DEF conn
  <2>3. (k < Room(c)) \in BOOLEAN
    BY <1>4, <1>5
  <2>4. call' = [kind |-> c.kind, len |-> c.len, written |-> c.written + k,
                 sampled |-> c.sampled, starved |-> k < Room(c)]
    BY <2>1 DEF CallType
  <2>5. call' \in CallType /\ call'.written <= call'.len
    BY <1>3, <1>4, <1>5, <2>3, <2>4 DEF CallType
  <2>6. Len(txq') = SndBuf \/ call'.starved
    <3>1. CASE k < Room(c)
      BY <2>4, <3>1
    <3>2. CASE k = Room(c)
      BY <1>3, <1>4, <1>6, <1>10, <3>2
    <3> QED BY <1>4, <1>5, <3>1, <3>2
  <2>7. ConnTypeOK'
    BY <1>1, <1>6, <1>7, <1>8, <2>1, <2>2, <2>5 DEF ConnTypeOK
  <2>8. Paired'
    BY <1>1, <2>2 DEF Paired
  <2>9. FlagsOwned'
    BY <1>1, <1>10, <2>1, <2>2, <2>6 DEF FlagsOwned, Closed
  <2> QED BY <2>7, <2>8, <2>9 DEF Inv
<1> QED BY <1>9, <1>10

LEMMA WriteStep == ASSUME Inv, SetSync \/ Write \/ SendResume \/ SendTimeout PROVE Inv'
<1>1. ConnTypeOK /\ Paired /\ FlagsOwned
  BY DEF Inv
<1>2. CASE SetSync
  <2>1. /\ UNCHANGED <<lw, arg, pcb, txq, sendWaiting, connectPending, refs, pc, call, hist>>
        /\ sync' \in BOOLEAN
    BY <1>2, BufferAssumption DEF SetSync, conn, flags
  <2> QED BY <1>1, <2>1 DEF Inv, ConnTypeOK, Paired, FlagsOwned, Closed
<1>3. CASE Write
  <2>1. PICK n \in 1 .. MaxTx - hist.sent :
           WriteRound([NoCall EXCEPT !.kind = "write", !.len = n])
    BY <1>3 DEF Write
  <2>2. n \in Nat
    BY <1>1, BufferAssumption DEF ConnTypeOK
  <2>3. PICK c : c = [NoCall EXCEPT !.kind = "write", !.len = n]
    OBVIOUS
  <2>4. c \in CallType /\ c.written <= c.len
    <3>1. c = [kind |-> "write", len |-> n, written |-> 0, sampled |-> 0, starved |-> FALSE]
      BY <2>3 DEF NoCall
    <3>2. c.written = 0 /\ c.len = n
      BY <3>1
    <3>3. c \in CallType
      BY <2>2, <3>1 DEF CallType
    <3> QED BY <2>2, <3>2, <3>3
  <2>5. pc # "connecting" /\ UNCHANGED <<conn, connectPending, sync, refs>>
    BY <1>3 DEF Write, Idle
  <2>6. WriteRound(c)
    BY <2>1, <2>3
  <2> QED BY <2>4, <2>5, <2>6, WriteRoundStep
<1>4. CASE SendResume
  <2>1. call \in CallType /\ call.written <= call.len
    BY <1>1 DEF ConnTypeOK
  <2> QED BY <1>4, <2>1, WriteRoundStep DEF SendResume
<1>5. CASE SendTimeout
  <2>1. WriteEnd(txq') /\ UNCHANGED txq /\ UNCHANGED hist
    BY <1>5 DEF SendTimeout
  <2>2. /\ txq' \in Seq({"copied", "borrowed"}) /\ Len(txq') <= SndBuf
        /\ DOMAIN hist' = {"rcvd", "got", "credit", "sent"} /\ hist'.sent \in Nat
    BY <1>1, <2>1 DEF ConnTypeOK
  <2> QED BY <1>5, <2>1, <2>2, WriteEndStep DEF SendTimeout
<1> QED BY <1>2, <1>3, <1>4, <1>5

-----------------------------------------------------------------------------
(* Reading, and the objects that share the context *)

LEMMA SharedStep == ASSUME Inv, Read \/ Ref \/ Unref PROVE Inv'
<1>1. ConnTypeOK /\ Paired /\ FlagsOwned
  BY DEF Inv
<1>2. CASE Read
  <2>1. UNCHANGED <<lw, arg, pcb, txq, sendWaiting, connectPending, sync, refs, pc, call>>
    BY <1>2 DEF Read, conn, flags
  <2>2. DOMAIN hist' = {"rcvd", "got", "credit", "sent"} /\ hist'.sent \in Nat
    <3>1. PICK n : hist' = [hist EXCEPT !.got = @ + n, !.credit = @ + Credit(n)]
      BY <1>2 DEF Read
    <3> QED BY <1>1, <3>1 DEF ConnTypeOK
  <2> QED BY <1>1, <2>1, <2>2 DEF Inv, ConnTypeOK, Paired, FlagsOwned, Closed
<1>3. CASE Ref
  BY <1>1, <1>3 DEF Ref, conn, flags, Inv, ConnTypeOK, Paired, FlagsOwned, Closed
<1>4. CASE Unref
  <2>1. /\ UNCHANGED <<txq, sendWaiting, connectPending, sync, pc, call>>
        /\ pc = "idle" /\ refs > 0 /\ refs' = refs - 1 /\ refs' \in Nat
    BY <1>1, <1>4 DEF Unref, Idle, flags, ConnTypeOK
  <2>2. FlagsOwned'
    BY <1>1, <2>1 DEF FlagsOwned
  <2>3. CASE refs = 1
    <3>1. Close /\ Discard(pcb)
      BY <1>4, <2>3 DEF Unref
    <3>4. DOMAIN hist' = {"rcvd", "got", "credit", "sent"} /\ hist'.sent \in Nat
      BY <1>1, <3>1, DiscardHist
    <3>2. ConnTypeOK'
      BY <1>1, <2>1, <3>1, <3>4, CloseFacts DEF ConnTypeOK
    <3>3. Paired'
      BY <1>1, <3>1, CloseFacts DEF Paired
    <3> QED BY <2>2, <3>2, <3>3 DEF Inv
  <2>4. CASE refs # 1
    <3>1. UNCHANGED <<lw, arg, pcb, hist>> /\ refs' > 0
      BY <1>1, <1>4, <2>1, <2>4 DEF Unref, conn, ConnTypeOK
    <3> QED BY <1>1, <2>1, <2>2, <3>1 DEF Inv, ConnTypeOK, Paired
  <2> QED BY <2>3, <2>4
<1> QED BY <1>2, <1>3, <1>4

-----------------------------------------------------------------------------
LEMMA NextInv == ASSUME Inv, [Next]_vars PROVE Inv'
<1>1. CASE Next
  BY <1>1, LwStep, ConnectStep, AckStep, WriteStep, SharedStep DEF Next
<1>2. CASE UNCHANGED vars
  BY <1>2 DEF vars, Inv, ConnTypeOK, Paired, FlagsOwned, Closed
<1> QED BY <1>1, <1>2

\* The invariant of the connection, whatever the peer and the users do.
THEOREM ConnInvariant == Spec => []Inv
  BY InitInv, NextInv, PTL DEF Spec

\* close(), abort(), _error() and _notify_error() leave neither _pcb with a
\* freed pcb nor a pcb with a callback into a deleted context.
THEOREM NoDanglingPointers == Spec => []NoDangling
<1>1. Inv => NoDangling
  BY DEF Inv, Paired, NoDangling
<1> QED BY <1>1, ConnInvariant, PTL

\* connect() and write() sleep only on a flag that something will still clear,
\* and leave no flag set for the asserts of the next call.
THEOREM WaitsHaveCause == Spec => []WaitsForCause
<1>1. Inv => WaitsForCause
  BY DEF Inv, FlagsOwned, WaitsForCause
<1> QED BY <1>1, ConnInvariant, PTL

-----------------------------------------------------------------------------
(* What is read                                                            *)

\* The chain holds the last bytes that arrived, without a gap, its last pbuf
\* ends where it ends, and the first is not used up.
ChainOK ==
    /\ rx \in Seq(Nat) /\ Len(rx) <= hist.rcvd
    /\ \A i \in 1 .. Len(rx) : rx[i] = hist.rcvd - Len(rx) + i
    /\ ends \subseteq 1 .. Len(rx) /\ (rx # <<>> => Len(rx) \in ends)
    /\ off \in Nat /\ (\A e \in ends : off < e) /\ (rx = <<>> => off = 0)

\* What has been received is either read or still in the chain, until the
\* context is deleted.
Counted ==
    /\ hist.rcvd \in Nat /\ hist.got \in Nat /\ hist.credit \in Nat
    /\ refs > 0 => hist.rcvd - hist.got = Len(rx) - off
    /\ pcb => hist.credit = hist.got
    /\ refs <= MaxRefs

RxInv == Inv /\ ChainOK /\ Counted

LEMMA RxInitInv == Init => RxInv
<1> SUFFICES ASSUME Init PROVE RxInv
  OBVIOUS
<1>1. ChainOK
  BY DEF Init, ChainOK
<1>2. Counted
  BY BufferAssumption DEF Init, Counted
<1> QED BY <1>1, <1>2, InitInv DEF RxInv

\* A step that receives and reads nothing, or deletes the context.
SameCount ==
    hist'.rcvd = hist.rcvd /\ hist'.got = hist.got /\ hist'.credit = hist.credit

LEMMA RxKept ==
    ASSUME ChainOK, Counted, ConnTypeOK,
           pcb' => pcb, refs' <= MaxRefs, refs' \in Nat,
           \/ UNCHANGED rxv /\ (refs' > 0 => refs > 0) /\ SameCount
           \/ refs' = 0 /\ ~pcb' /\ \E live \in BOOLEAN : Discard(live)
    PROVE  ChainOK' /\ Counted'
<1>1. CASE UNCHANGED rxv /\ (refs' > 0 => refs > 0) /\ SameCount
  <2>1. rx' = rx /\ ends' = ends /\ off' = off
    BY <1>1 DEF rxv
  <2>2. ChainOK'
    BY <1>1, <2>1 DEF ChainOK, SameCount
  <2>3. Counted'
    BY <1>1, <2>1 DEF Counted, SameCount
  <2> QED BY <2>2, <2>3
<1>2. CASE refs' = 0 /\ ~pcb' /\ \E live \in BOOLEAN : Discard(live)
  <2>1. PICK live \in BOOLEAN : Discard(live)
    BY <1>2
  <2>2. PICK more \in Nat : more = IF live THEN tot_len ELSE 0
    BY DEF ChainOK, tot_len
  <2>3. rx' = <<>> /\ ends' = {} /\ off' = 0 /\ hist' = [hist EXCEPT !.credit = @ + more]
    BY <2>1, <2>2 DEF Discard
  <2>4. hist'.rcvd = hist.rcvd /\ hist'.got = hist.got /\ hist'.credit = hist.credit + more
    BY <2>3 DEF ConnTypeOK
  <2>5. ChainOK'
    BY <2>3, <2>4 DEF ChainOK, Counted
  <2>6. Counted'
    BY <1>2, <2>4 DEF Counted
  <2> QED BY <2>5, <2>6
<1> QED BY <1>1, <1>2

\* What _consume() leaves: it drops whole pbufs, all that are used up.
LEMMA UsedUpIs ==
    ASSUME ChainOK, NEW n \in 1 .. getSize
    PROVE  /\ UsedUp(n) \in 0 .. Len(rx) /\ UsedUp(n) <= off + n /\ off + n <= Len(rx)
           /\ \A e \in ends : e <= off + n => e <= UsedUp(n)
<1>1. Len(rx) \in Nat /\ off \in Nat /\ ends \subseteq 1 .. Len(rx)
  BY DEF ChainOK
<1>2. n \in Nat /\ off + n <= Len(rx)
  BY <1>1 DEF getSize, tot_len
<1>3. PICK T : T = {0} \cup {e \in ends : e <= off + n}
  OBVIOUS
<1>4. T \in SUBSET Nat /\ T # {} /\ off + n \in Nat /\ \A y \in T : y <= off + n
  <2>1. off + n \in Nat
    BY <1>1, <1>2
  <2>2. T # {}
    BY <1>3
  <2>3. ASSUME NEW y \in T
        PROVE  y \in Nat /\ y <= off + n
    <3>1. CASE y = 0
      BY <2>1, <3>1
    <3>2. CASE y \in ends /\ y <= off + n
      <4>1. y \in 1 .. Len(rx)
        BY <1>1, <3>2
      <4> QED BY <3>2, <4>1
    <3> QED BY <1>3, <3>1, <3>2
  <2> QED BY <2>1, <2>2, <2>3
<1>5. PICK u : u = Max(T)
  OBVIOUS
<1>6. u \in T /\ \A y \in T : u >= y
  BY <1>4, <1>5, MaxNat
<1>7. u \in 0 .. Len(rx) /\ u <= off + n
  BY <1>1, <1>3, <1>4, <1>6
<1>8. ASSUME NEW e \in ends, e <= off + n
      PROVE  e <= u
  <2>1. e \in T /\ e \in Nat
    BY <1>1, <1>3, <1>8
  <2> QED BY <1>6, <1>7, <2>1
<1>9. UsedUp(n) = u
  BY <1>3, <1>5 DEF UsedUp
<1> QED BY <1>2, <1>7, <1>8, <1>9

LEMMA ReadRx == ASSUME RxInv, Read PROVE ChainOK' /\ Counted'
<1>1. /\ rx \in Seq(Nat) /\ Len(rx) \in Nat /\ Len(rx) <= hist.rcvd
      /\ \A i \in 1 .. Len(rx) : rx[i] = hist.rcvd - Len(rx) + i
      /\ ends \subseteq 1 .. Len(rx) /\ (rx # <<>> => Len(rx) \in ends)
      /\ off \in Nat /\ (\A e \in ends : off < e)
  BY DEF RxInv, ChainOK
<1>2. PICK n \in 1 .. getSize :
         /\ ConsumeRx(n) /\ off' = ConsumeOff(n)
         /\ hist' = [hist EXCEPT !.got = @ + n, !.credit = @ + Credit(n)]
  BY DEF Read
<1>3. PICK u \in 0 .. Len(rx) : /\ u = UsedUp(n) /\ u <= off + n /\ off + n <= Len(rx)
                                /\ \A e \in ends : e <= off + n => e <= u
  BY UsedUpIs DEF RxInv
<1>4. /\ rx' = SubSeq(rx, u + 1, Len(rx)) /\ off' = off + n - u
      /\ ends' = {e - u : e \in {f \in ends : f > u}}
  BY <1>2, <1>3 DEF ConsumeRx, ConsumeOff, tot_len
<1>5. n \in Nat
  BY <1>1 DEF getSize, tot_len
<1>6. /\ rx' \in Seq(Nat) /\ Len(rx') = Len(rx) - u
      /\ \A i \in 1 .. Len(rx) - u : rx'[i] = rx[u + i]
  <2>1. rx' \in Seq(Nat) /\ Len(rx') = Len(rx) - u
    BY <1>1, <1>4, SMTT(30)
  <2>2. \A i \in 1 .. Len(rx) - u : rx'[i] = rx[(u + 1) + i - 1]
    BY <1>1, <1>4
  <2>3. \A i \in 1 .. Len(rx) - u : (u + 1) + i - 1 = u + i
    OBVIOUS
  <2> QED BY <2>1, <2>2, <2>3
<1>7. /\ hist.rcvd \in Nat /\ hist.got \in Nat /\ hist.credit \in Nat
      /\ hist'.rcvd = hist.rcvd /\ hist'.got = hist.got + n
      /\ hist'.credit = hist.credit + Credit(n)
  BY <1>2 DEF RxInv, Inv, ConnTypeOK, Counted
<1>8. ASSUME NEW i \in 1 .. Len(rx')
      PROVE  rx'[i] = hist'.rcvd - Len(rx') + i
  <2>1. u + i \in 1 .. Len(rx) /\ i \in 1 .. Len(rx) - u
    BY <1>1, <1>6
  <2>2. rx'[i] = hist.rcvd - Len(rx) + (u + i)
    <3>1. rx'[i] = rx[u + i]
      BY <1>6, <2>1
    <3> QED BY <1>1, <2>1, <3>1
  <2>3. PICK r \in Nat : r = hist.rcvd
    BY <1>7
  <2>4. PICK l \in Nat : l = Len(rx)
    BY <1>1
  <2>5. i \in Int /\ u \in Int /\ Len(rx') = l - u /\ hist'.rcvd = r
    BY <1>6, <1>7, <2>3, <2>4
  <2>6. rx'[i] = r - l + (u + i)
    BY <2>2, <2>3, <2>4
  <2>7. r - l + (u + i) = r - (l - u) + i
    BY <2>5
  <2> QED BY <2>5, <2>6, <2>7
<1>9. ASSUME NEW g \in ends'
      PROVE  g \in 1 .. Len(rx') /\ off' < g
  <2>1. PICK e \in ends : e > u /\ g = e - u
    BY <1>4
  <2>2. e \in 1 .. Len(rx) /\ ~(e <= off + n)
    BY <1>1, <1>3, <2>1
  <2>3. PICK l \in Nat : l = Len(rx) /\ Len(rx') = l - u /\ off' = off + n - u
    BY <1>1, <1>4, <1>6
  <2>4. /\ off \in Nat /\ n \in Nat /\ u \in Nat
        /\ e \in Nat /\ e <= l /\ e > u /\ e > off + n /\ g = e - u
    BY <1>1, <1>5, <2>1, <2>2, <2>3
  <2>5. g \in 1 .. l - u /\ off + n - u < g
    BY <2>4
  <2> QED BY <2>3, <2>5
<1>10. rx' # <<>> => Len(rx') \in ends'
  <2> SUFFICES ASSUME rx' # <<>> PROVE Len(rx') \in ends'
    OBVIOUS
  <2>1. Len(rx') # 0
    BY <1>6
  <2>2. Len(rx) > u /\ rx # <<>>
    BY <1>1, <1>6, <2>1
  <2> QED BY <1>1, <1>4, <1>6, <2>2
<1>11. rx' = <<>> => off' = 0
  <2> SUFFICES ASSUME rx' = <<>> PROVE off' = 0
    OBVIOUS
  <2>1. Len(rx') = 0
    OBVIOUS
  <2> QED BY <1>1, <1>3, <1>4, <1>5, <1>6, <2>1
<1>12. off' \in Nat
  BY <1>1, <1>3, <1>4, <1>5, SMTT(30)
<1>13. Len(rx') <= hist'.rcvd
  BY <1>1, <1>6, <1>7
<1>14. ChainOK'
  BY <1>6, <1>8, <1>9, <1>10, <1>11, <1>12, <1>13 DEF ChainOK
<1>15. /\ refs' = refs /\ refs > 0 /\ pcb' = pcb
       /\ hist.rcvd - hist.got = Len(rx) - off /\ refs <= MaxRefs
       /\ pcb => hist.credit = hist.got
  BY DEF Read, Idle, conn, RxInv, Counted
<1>16. Credit(n) \in Nat /\ (pcb => Credit(n) = n)
  BY <1>5 DEF Credit
<1>17. hist'.rcvd - hist'.got = Len(rx') - off'
  <2>1. PICK r \in Nat : r = hist.rcvd
    BY <1>7
  <2>2. PICK g \in Nat : g = hist.got
    BY <1>7
  <2>3. PICK l \in Nat : l = Len(rx)
    BY <1>1
  <2>4. /\ hist'.rcvd = r /\ hist'.got = g + n
        /\ Len(rx') = l - u /\ off' = off + n - u
    BY <1>4, <1>6, <1>7, <2>1, <2>2, <2>3
  <2>5. r - g = l - off
    BY <1>15, <2>1, <2>2, <2>3
  <2>6. r - (g + n) = (l - u) - (off + n - u)
    BY <1>1, <1>5, <2>5
  <2> QED BY <2>4, <2>6
<1>18. hist'.rcvd \in Nat /\ hist'.got \in Nat /\ hist'.credit \in Nat
  BY <1>5, <1>7, <1>16
<1>19. pcb' => hist'.credit = hist'.got
  BY <1>7, <1>15, <1>16
<1>20. Counted'
  BY <1>15, <1>17, <1>18, <1>19 DEF Counted
<1> QED BY <1>14, <1>20

LEMMA RecvRx == ASSUME RxInv, LwRecv PROVE ChainOK' /\ Counted'
<1>1. /\ rx \in Seq(Nat) /\ Len(rx) \in Nat /\ Len(rx) <= hist.rcvd
      /\ \A i \in 1 .. Len(rx) : rx[i] = hist.rcvd - Len(rx) + i
      /\ ends \subseteq 1 .. Len(rx)
      /\ off \in Nat /\ (\A e \in ends : off < e) /\ (rx = <<>> => off = 0)
      /\ (rx # <<>> => Len(rx) \in ends)
  BY DEF RxInv, ChainOK
<1>2. hist.rcvd \in Nat /\ hist.got \in Nat /\ hist.credit \in Nat
  BY DEF RxInv, Counted
<1>3. PICK n \in 1 .. Wnd : /\ rx' = rx \o [i \in 1 .. n |-> hist.rcvd + i]
                            /\ ends' = ends \cup {Len(rx) + n}
                            /\ hist' = [hist EXCEPT !.rcvd = @ + n]
  BY DEF LwRecv, tot_len
<1>4. n \in Nat /\ n > 0 /\ off' = off /\ refs' = refs /\ pcb' = pcb
  BY <1>3, BufferAssumption DEF LwRecv, conn
<1>5. hist'.rcvd = hist.rcvd + n /\ hist'.got = hist.got /\ hist'.credit = hist.credit
  BY <1>3 DEF RxInv, Inv, ConnTypeOK
<1>6. PICK b : b = [i \in 1 .. n |-> hist.rcvd + i]
  OBVIOUS
<1>7. b \in Seq(Nat) /\ Len(b) = n /\ \A i \in 1 .. n : b[i] = hist.rcvd + i
  BY <1>2, <1>4, <1>6
<1>8. /\ rx' \in Seq(Nat) /\ Len(rx') = Len(rx) + n
      /\ \A i \in 1 .. Len(rx) + n :
            rx'[i] = IF i <= Len(rx) THEN rx[i] ELSE b[i - Len(rx)]
  BY <1>1, <1>3, <1>6, <1>7, ConcatProperties, SMTT(30)
<1>9. ASSUME NEW i \in 1 .. Len(rx')
      PROVE  rx'[i] = hist'.rcvd - Len(rx') + i
  <2>0. PICK r \in Nat, l \in Nat : /\ r = hist.rcvd /\ l = Len(rx)
                                   /\ hist'.rcvd = r + n /\ Len(rx') = l + n
    BY <1>1, <1>2, <1>5, <1>8
  <2>1. CASE i <= Len(rx)
    <3>1. i \in 1 .. Len(rx) /\ i \in 1 .. Len(rx) + n
      BY <1>1, <1>4, <1>8, <2>1
    <3>2. rx'[i] = rx[i]
      BY <1>8, <2>1, <3>1
    <3>3. rx'[i] = hist.rcvd - Len(rx) + i
      BY <1>1, <3>1, <3>2
    <3> QED BY <2>0, <3>3, SMTT(30)
  <2>2. CASE ~(i <= Len(rx))
    <3>1. i - Len(rx) \in 1 .. n /\ i \in 1 .. Len(rx) + n
      BY <1>1, <1>4, <1>8, <2>2
    <3>2. rx'[i] = b[i - Len(rx)]
      BY <1>8, <2>2, <3>1
    <3>3. rx'[i] = hist.rcvd + (i - Len(rx))
      BY <1>7, <3>1, <3>2
    <3> QED BY <2>0, <3>3
  <2> QED BY <2>1, <2>2
<1>10. Len(rx') # 0 /\ Len(rx') \in ends'
  BY <1>1, <1>3, <1>4, <1>8
<1>11. ASSUME NEW e \in ends'
       PROVE  e \in 1 .. Len(rx') /\ off' < e
  <2>1. CASE e \in ends
    BY <1>1, <1>4, <1>8, <2>1
  <2>2. CASE e = Len(rx) + n
    <3>1. off <= Len(rx)
      <4>1. CASE rx = <<>>
        BY <1>1, <4>1
      <4>2. CASE rx # <<>>
        BY <1>1, <4>2
      <4> QED BY <4>1, <4>2
    <3> QED BY <1>1, <1>4, <1>8, <2>2, <3>1
  <2> QED BY <1>3, <2>1, <2>2
<1>12. rx' = <<>> => off' = 0
  BY <1>10
<1>13. Len(rx') <= hist'.rcvd
  BY <1>1, <1>2, <1>4, <1>5, <1>8
<1>14. ChainOK'
  BY <1>1, <1>4, <1>8, <1>9, <1>10, <1>11, <1>12, <1>13 DEF ChainOK
<1>15. refs > 0 => hist.rcvd - hist.got = Len(rx) - off
  BY DEF RxInv, Counted
<1>16. refs' > 0 => hist'.rcvd - hist'.got = Len(rx') - off'
  <2> SUFFICES ASSUME refs' > 0 PROVE hist'.rcvd - hist'.got = Len(rx') - off'
    OBVIOUS
  <2>1. PICK r \in Nat : r = hist.rcvd
    BY <1>2
  <2>2. PICK g \in Nat : g = hist.got
    BY <1>2
  <2>3. PICK l \in Nat : l = Len(rx)
    BY <1>1
  <2>4. hist'.rcvd = r + n /\ hist'.got = g /\ Len(rx') = l + n /\ off' = off
    BY <1>4, <1>5, <1>8, <2>1, <2>2, <2>3
  <2>5. r - g = l - off
    BY <1>4, <1>15, <2>1, <2>2, <2>3
  <2>6. PICK o \in Nat : o = off
    BY <1>1
  <2>7. PICK m \in Nat : m = n
    BY <1>4
  <2>8. r + m - g = l + m - o
    BY <2>5, <2>6
  <2>9. hist'.rcvd - hist'.got = r + m - g
    BY <2>4, <2>7
  <2>10. Len(rx') - off' = l + m - o
    BY <2>4, <2>6, <2>7
  <2> QED BY <2>8, <2>9, <2>10
<1>17. hist'.rcvd \in Nat /\ hist'.got \in Nat /\ hist'.credit \in Nat
  BY <1>2, <1>4, <1>5
<1>18. (pcb' => hist'.credit = hist'.got) /\ refs' <= MaxRefs
  BY <1>4, <1>5 DEF RxInv, Counted
<1>19. Counted'
  BY <1>16, <1>17, <1>18 DEF Counted
<1> QED BY <1>14, <1>19

\* Every other step leaves what was received alone, or deletes the context.
LEMMA RxNextInv == ASSUME RxInv, [Next]_vars PROVE RxInv'
<1>1. ConnTypeOK /\ Paired /\ ChainOK /\ Counted
  BY DEF RxInv, Inv
<1>2. Inv'
  BY NextInv DEF RxInv
<1>3. refs \in Nat /\ refs <= MaxRefs /\ pcb \in BOOLEAN /\ MaxRefs \in Nat
  BY <1>1, BufferAssumption DEF ConnTypeOK, Counted
<1>4. Close \/ Abort => ~pcb'
  BY DEF Close, Abort
<1>5. ASSUME \/ LwConnected \/ LwFin \/ LwError \/ LwAck \/ LwPoll
             \/ Flush \/ AckResume \/ AckTimeout \/ SetSync
      PROVE  ChainOK' /\ Counted'
  <2>1. UNCHANGED <<rxv, refs, hist>>
    BY <1>5 DEF LwConnected, LwFin, LwError, LwAck, LwPoll, Flush, AckResume, AckTimeout, SetSync
  <2>2. pcb' => pcb
    BY <1>4, <1>5 DEF LwConnected, LwFin, LwError, LwAck, LwPoll, Flush, AckResume, AckTimeout,
           SetSync, Finish, conn
  <2> QED BY <1>1, <1>3, <2>1, <2>2, RxKept DEF SameCount
<1>6. ASSUME Write \/ SendResume \/ SendTimeout
      PROVE  ChainOK' /\ Counted'
  <2>1. UNCHANGED <<rxv, refs, pcb>>
    BY <1>6 DEF Write, SendResume, SendTimeout, conn
  <2>2. hist' = hist \/ \E k : hist' = [hist EXCEPT !.sent = @ + k]
    BY <1>6 DEF Write, SendResume, SendTimeout, WriteRound
  <2>3. hist'.rcvd = hist.rcvd /\ hist'.got = hist.got /\ hist'.credit = hist.credit
    BY <1>1, <2>2 DEF ConnTypeOK
  <2> QED BY <1>1, <1>3, <2>1, <2>3, RxKept DEF SameCount
<1>7. ASSUME Connect \/ ConnectEnd
      PROVE  ChainOK' /\ Counted'
  <2>1. pcb' => pcb
    BY <1>4, <1>7 DEF Connect, ConnectEnd, conn
  <2>2. \/ UNCHANGED <<rxv, refs>> /\ hist' = hist
        \/ refs' = 0 /\ ~pcb' /\ \E live \in BOOLEAN : Discard(live)
    BY <1>4, <1>7 DEF Connect, ConnectEnd, Release
  <2> QED BY <1>1, <1>3, <2>1, <2>2, RxKept DEF SameCount
<1>8. ASSUME Ref
      PROVE  ChainOK' /\ Counted'
  <2>1. UNCHANGED <<rxv, pcb, hist>> /\ refs' = refs + 1 /\ refs < MaxRefs /\ refs > 0
    BY <1>8 DEF Ref, conn, Idle
  <2> QED BY <1>1, <1>3, <2>1, RxKept DEF SameCount
<1>9. ASSUME Unref
      PROVE  ChainOK' /\ Counted'
  <2>1. refs' = refs - 1 /\ refs > 0
    BY <1>9 DEF Unref, Idle
  <2>2. CASE refs = 1
    <3>1. Discard(pcb) /\ ~pcb' /\ refs' = 0
      BY <1>4, <1>9, <2>1, <2>2 DEF Unref
    <3> QED BY <1>1, <1>3, <2>1, <3>1, RxKept
  <2>3. CASE refs # 1
    <3>1. UNCHANGED <<rxv, pcb, hist>>
      BY <1>9, <2>3 DEF Unref, conn
    <3> QED BY <1>1, <1>3, <2>1, <3>1, RxKept DEF SameCount
  <2> QED BY <2>2, <2>3
<1>10. ASSUME UNCHANGED vars
       PROVE  ChainOK' /\ Counted'
  BY <1>1, <1>3, <1>10, RxKept DEF vars, rxv, SameCount
<1>11. ASSUME Read
       PROVE  ChainOK' /\ Counted'
  BY <1>11, ReadRx
<1>12. ASSUME LwRecv
       PROVE  ChainOK' /\ Counted'
  BY <1>12, RecvRx
<1>13. ChainOK' /\ Counted'
  BY <1>5, <1>6, <1>7, <1>8, <1>9, <1>10, <1>11, <1>12, Zenon DEF Next, LwNext
<1> QED BY <1>2, <1>13 DEF RxInv

\* The user reads the bytes in the order they arrived, none missing and none
\* twice, and each byte opens the window once, however read() cuts the pbufs
\* and the peer sends meanwhile (_recv(), _consume(), tcp_recved()).
THEOREM ReadsInOrder == Spec => []RxInOrder
<1>1. RxInv => RxInOrder
  <2> SUFFICES ASSUME RxInv PROVE RxInOrder
    OBVIOUS
  <2>1. ConnTypeOK /\ ChainOK /\ Counted
    BY DEF RxInv, Inv
  <2>2. TypeOK
    BY <2>1 DEF ConnTypeOK, ChainOK, Counted, TypeOK, CallType
  <2>3. ASSUME refs > 0
        PROVE  SubSeq(rx, off + 1, tot_len) = [i \in 1 .. hist.rcvd - hist.got |-> hist.got + i]
    <3>1. PICK k \in Nat : k = hist.rcvd /\ k >= Len(rx)
      BY <2>1 DEF ChainOK, Counted
    <3>2. Len(rx) \in Nat /\ off \in Nat /\ hist.got \in Nat /\ off <= Len(rx)
      <4>1. rx = <<>> => off = 0
        BY <2>1 DEF ChainOK
      <4>2. rx # <<>> => off < Len(rx)
        BY <2>1 DEF ChainOK
      <4> QED BY <2>1, <4>1, <4>2 DEF ChainOK, Counted
    <3>3. hist.rcvd - hist.got = Len(rx) - off
      BY <2>1, <2>3 DEF Counted
    <3>4. hist.got = k - Len(rx) + off
      BY <3>1, <3>2, <3>3
    <3>5. SubSeq(rx, off + 1, Len(rx)) = [i \in 1 .. Len(rx) - off |-> rx[off + i]]
      <4>1. \A i \in 1 .. Len(rx) - off : (off + 1) + i - 1 = off + i
        BY <3>2
      <4>2. SubSeq(rx, off + 1, Len(rx)) = [i \in 1 .. Len(rx) - off |-> rx[(off + 1) + i - 1]]
        BY <2>1, <3>2 DEF ChainOK
      <4> QED BY <4>1, <4>2
    <3>6. ASSUME NEW i \in 1 .. Len(rx) - off
          PROVE  rx[off + i] = hist.got + i
      <4>1. off + i \in 1 .. Len(rx)
        BY <3>2
      <4>2. rx[off + i] = k - Len(rx) + (off + i)
        BY <2>1, <3>1, <4>1 DEF ChainOK
      <4> QED BY <3>1, <3>2, <3>4, <4>2
    <3>7. [i \in 1 .. Len(rx) - off |-> rx[off + i]] = [i \in 1 .. Len(rx) - off |-> hist.got + i]
      BY <3>6
    <3> QED BY <3>3, <3>5, <3>7 DEF tot_len
  <2>4. pcb => hist.credit = hist.got
    BY <2>1 DEF Counted
  <2> QED BY <2>2, <2>3, <2>4 DEF RxInOrder
<1> QED BY <1>1, RxInitInv, RxNextInv, PTL DEF Spec

=============================================================================
