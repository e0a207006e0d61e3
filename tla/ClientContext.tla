--------------------------- MODULE ClientContext ----------------------------
(***************************************************************************)
(* One TCP connection of the WiFi library: ClientContext                   *)
(* (libraries/ESP8266WiFi/src/include/ClientContext.h) with the calls that *)
(* WiFiClient makes on it.  The user's calls run in the CONT task and      *)
(* sleep in esp_delay() or esp_yield(); lwIP's callbacks run in the SYS    *)
(* task whenever CONT sleeps, which is where connect(), write() and        *)
(* flush() find the connection changed.                                    *)
(*                                                                         *)
(* lwIP is external: the Lw actions say what it may do to a connection and *)
(* contain the whole callback it makes.  Time is abstract: a wait may run  *)
(* out at any moment.  Received bytes are numbered from 1.                 *)
(***************************************************************************)
EXTENDS Integers, Sequences, FiniteSetsExt

CONSTANTS
    SndBuf,      \* TCP_SND_BUF, in bytes
    Wnd,         \* the receive window
    MaxRx,       \* bound on the bytes the peer sends
    MaxTx,       \* bound on the bytes the user writes
    MaxRefs,     \* bound on WiFiClient objects that share the connection
    Syncs        \* values setSync() is called with

ASSUME BufferAssumption ==
    /\ {SndBuf, Wnd, MaxRefs} \subseteq Nat \ {0}
    /\ {MaxRx, MaxTx} \subseteq Nat
    /\ Syncs \subseteq BOOLEAN /\ Syncs # {}

VARIABLES
    lw,              \* lwIP: the state of the pcb, "none" once it is freed
    arg,             \* lwIP: tcp_arg() points to this context
    txq,             \* lwIP: unacknowledged bytes, each "copied" or "borrowed"
    pcb,             \* _pcb # nullptr
    rx, ends,        \* the bytes chained at _rx_buf, and where its pbufs end
    off,             \* _rx_buf_offset
    sendWaiting,     \* _send_waiting
    connectPending,  \* _connect_pending
    sync,            \* _sync
    refs,            \* _refcnt
    pc,              \* the call in progress: where it is in its code
    call,            \* its data
    hist             \* history: bytes received, consumed, credited, written

conn == <<lw, arg, pcb>>
rxv == <<rx, ends, off>>
flags == <<sendWaiting, connectPending>>
vars == <<lw, arg, txq, pcb, rx, ends, off, sendWaiting, connectPending, sync, refs,
          pc, call, hist>>

NoCall == [kind |-> "none", len |-> 0, written |-> 0, sampled |-> 0, starved |-> FALSE]

TypeOK ==
    /\ lw \in {"new", "syn_sent", "established", "close_wait", "closing", "none"}
    /\ {arg, pcb, sendWaiting, connectPending, sync} \subseteq BOOLEAN
    /\ txq \in Seq({"copied", "borrowed"}) /\ Len(txq) <= SndBuf
    /\ ends \subseteq 1 .. Len(rx) /\ (rx # <<>> => Len(rx) \in ends)
    /\ off \in Nat /\ (\A e \in ends : off < e) /\ (rx = <<>> => off = 0)
    /\ refs \in 0 .. MaxRefs
    /\ pc \in {"idle", "connecting", "sending", "acking"}
    /\ call.written <= call.len

\* WiFiClient::connect() has made the context around a new pcb, or
\* WiFiServer::accept() around one that is connected; one WiFiClient refers
\* to it.
Init ==
    /\ lw \in {"new", "established"} /\ arg = TRUE /\ pcb = TRUE /\ txq = <<>>
    /\ rx = <<>> /\ ends = {} /\ off = 0
    /\ sendWaiting = FALSE /\ connectPending = FALSE
    /\ sync \in Syncs /\ refs = 1
    /\ pc = "idle" /\ call = NoCall
    /\ hist = [rcvd |-> 0, got |-> 0, credit |-> 0, sent |-> 0]

\* state(): CLOSED also when the peer closed and nothing more can be written.
Closed == ~pcb \/ lw \in {"new", "close_wait"}
Established == pcb /\ lw = "established"

tot_len == Len(rx)
getSize == tot_len - off

-----------------------------------------------------------------------------
(* The end of a connection *)

Abort == /\ lw' = IF pcb THEN "none" ELSE lw
         /\ arg' = (arg /\ ~pcb)
         /\ pcb' = FALSE

ArgAfterClose_Kept == arg

\* close() first takes itself out of every callback of the pcb.
ArgAfterClose == arg /\ ~pcb

\* tcp_close() may fail for want of memory; then the pcb is aborted.
Close == /\ lw' \in IF pcb THEN {"closing", "none"} ELSE {lw}
         /\ arg' = ArgAfterClose
         /\ pcb' = FALSE

NotifyError_ConnectOnly ==
    /\ connectPending' = FALSE
    /\ UNCHANGED sendWaiting

\* _notify_error(): wakes connect() and _write_from_source().
NotifyError ==
    /\ sendWaiting' = FALSE
    /\ connectPending' = FALSE

-----------------------------------------------------------------------------
(* lwIP and its callbacks *)

LwConnected ==
    /\ lw = "syn_sent" /\ arg
    /\ lw' = "established"
    /\ connectPending' = FALSE                                \* _connected()
    /\ UNCHANGED <<arg, pcb, txq, rxv, sendWaiting, sync, refs, pc, call, hist>>

LwRecv ==
    /\ lw = "established" /\ arg
    /\ \E n \in 1 .. Wnd :
          /\ n <= Wnd - (hist.rcvd - hist.credit) /\ hist.rcvd + n <= MaxRx
          /\ rx' = rx \o [i \in 1 .. n |-> hist.rcvd + i]       \* pbuf_cat
          /\ ends' = ends \cup {tot_len + n}
          /\ hist' = [hist EXCEPT !.rcvd = @ + n]
    /\ UNCHANGED <<conn, txq, off, flags, sync, refs, pc, call>>

\* The peer closed: with data left to read the pcb stays, otherwise it goes.
LwFin ==
    /\ lw = "established" /\ arg
    /\ NotifyError
    /\ IF rx = <<>>
       THEN Abort /\ txq' = <<>>
       ELSE lw' = "close_wait" /\ UNCHANGED <<arg, pcb, txq>>
    /\ UNCHANGED <<rxv, sync, refs, pc, call, hist>>

\* lwIP has freed the pcb when it calls _error().
LwError ==
    /\ lw \in {"syn_sent", "established", "close_wait"} /\ arg
    /\ lw' = "none" /\ txq' = <<>>
    /\ arg' = FALSE /\ pcb' = FALSE
    /\ NotifyError
    /\ UNCHANGED <<rxv, sync, refs, pc, call, hist>>

LwAck ==
    /\ arg /\ txq # <<>>
    /\ \E n \in 1 .. Len(txq) : txq' = SubSeq(txq, n + 1, Len(txq))
    /\ sendWaiting' = FALSE                     \* _write_some_from_cb()
    /\ UNCHANGED <<conn, rxv, connectPending, sync, refs, pc, call, hist>>

LwPoll ==
    /\ arg /\ sendWaiting
    /\ sendWaiting' = FALSE
    /\ UNCHANGED <<conn, txq, rxv, connectPending, sync, refs, pc, call, hist>>

LwNext == LwConnected \/ LwRecv \/ LwFin \/ LwError \/ LwAck \/ LwPoll

-----------------------------------------------------------------------------
(* connect() *)

\* discard_received(): a live pcb is credited with the whole chain, also with
\* what _consume() has already credited of its first pbuf.
Discard(live) ==
    /\ rx' = <<>> /\ ends' = {} /\ off' = 0
    /\ hist' = [hist EXCEPT !.credit = @ + (IF live THEN tot_len ELSE 0)]

\* WiFiClient::connect() lets go of a context that could not connect, and
\* deletes it: unref() discards what was received and closes.
Release(live) == refs' = 0 /\ Discard(live)

Connect ==
    /\ pc = "idle" /\ lw = "new" /\ pcb
    /\ \/ /\ lw' = "syn_sent" /\ connectPending' = TRUE /\ pc' = "connecting"
          /\ UNCHANGED <<arg, pcb, rxv, refs, hist>>
       \/ /\ Close /\ Release(TRUE)                      \* tcp_connect() failed
          /\ UNCHANGED <<connectPending, pc>>
    /\ UNCHANGED <<txq, sendWaiting, sync, call>>

\* Woken by _connected() or _notify_error(), or out of time.
ConnectEnd ==
    /\ pc = "connecting"
    /\ connectPending' = FALSE
    /\ pc' = "idle"
    /\ IF Established THEN UNCHANGED <<conn, rxv, refs, hist>> ELSE Abort /\ Release(FALSE)
    /\ UNCHANGED <<txq, sendWaiting, sync, call>>

\* A call of the user's: the context exists and is connected, or once was.
Idle == pc = "idle" /\ refs > 0 /\ lw # "new"

-----------------------------------------------------------------------------
(* wait_until_acked(), and what its callers do with the result *)

Finish ==
    /\ pc' = "idle" /\ call' = NoCall
    /\ CASE call.kind = "stop"  -> Close
         [] call.kind = "abort" -> Abort
         [] OTHER               -> UNCHANGED conn

\* flush(), and stop() and abort() that begin with it.
Flush ==
    /\ Idle /\ pcb
    /\ \E k \in {"flush", "stop", "abort"} :
          call' = [NoCall EXCEPT !.kind = k, !.sampled = Len(txq)]
    /\ pc' = "acking"
    /\ UNCHANGED <<conn, txq, rxv, flags, sync, refs, hist>>

\* After esp_yield(): the send buffer is the one read before it.
AckResume ==
    /\ pc = "acking"
    /\ IF ~Established \/ call.sampled = 0
       THEN Finish
       ELSE /\ call' = [call EXCEPT !.sampled = Len(txq)]
            /\ UNCHANGED <<conn, pc>>
    /\ UNCHANGED <<txq, rxv, flags, sync, refs, hist>>

AckOverdue_Changed == call.sampled # Len(txq)

\* The time limit restarts when the send buffer changes; once the peer is
\* silent it runs out.
AckOverdue == TRUE

AckTimeout ==
    /\ pc = "acking" /\ Established /\ call.sampled # 0
    /\ AckOverdue
    /\ Finish
    /\ UNCHANGED <<txq, rxv, flags, sync, refs, hist>>

-----------------------------------------------------------------------------
(* write() *)

SetSync ==
    /\ Idle /\ sync' \in Syncs /\ sync' # sync
    /\ UNCHANGED <<conn, txq, rxv, flags, refs, pc, call, hist>>

Room(c) == IF SndBuf - Len(txq) < c.len - c.written THEN SndBuf - Len(txq)
           ELSE c.len - c.written

\* What _write_some() hands to lwIP; tcp_write() may be short of memory.
Chunks(c) == IF Closed THEN {0} ELSE {0, Room(c)}

\* With sync the bytes are not copied: write() waits for them to be acked.
WriteFlag == IF sync THEN "borrowed" ELSE "copied"

WaitingAfterWrite == FALSE

WriteEnd(q) ==
    /\ sendWaiting' = WaitingAfterWrite
    /\ IF sync /\ pcb
       THEN pc' = "acking" /\ call' = [NoCall EXCEPT !.kind = "sync", !.sampled = Len(q)]
       ELSE pc' = "idle" /\ call' = NoCall

\* One round of _write_from_source(), from _write_some() to the next wait.
WriteRound(c) ==
    \E k \in Chunks(c) :
        LET w == c.written + k
        IN /\ txq' = txq \o [i \in 1 .. k |-> WriteFlag]
           /\ hist' = [hist EXCEPT !.sent = @ + k]
           /\ IF w = c.len \/ Closed
              THEN WriteEnd(txq')
              ELSE /\ call' = [c EXCEPT !.written = w, !.starved = k < Room(c)]
                   /\ sendWaiting' = TRUE
                   /\ pc' = "sending"

Write ==
    /\ Idle /\ pcb
    /\ \E n \in 1 .. MaxTx - hist.sent :
          WriteRound([NoCall EXCEPT !.kind = "write", !.len = n])
    /\ UNCHANGED <<conn, rxv, connectPending, sync, refs>>

SendResume ==
    /\ pc = "sending" /\ ~sendWaiting
    /\ WriteRound(call)
    /\ UNCHANGED <<conn, rxv, connectPending, sync, refs>>

\* The wait ran out, and _write_some() could not place a byte since.
SendTimeout ==
    /\ pc = "sending"
    /\ WriteEnd(txq)
    /\ UNCHANGED <<conn, txq, rxv, connectPending, sync, refs, hist>>

-----------------------------------------------------------------------------
(* Reading *)

\* The bytes of the pbufs that n more bytes use up.
UsedUp(n) == Max({0} \cup {e \in ends : e <= off + n})

ConsumeOff_Kept(n) ==
    IF UsedUp(n) = 0 THEN off + n ELSE IF UsedUp(n) = tot_len THEN 0 ELSE off

\* _rx_buf_offset, and the chain at _rx_buf, after _consume() was applied as
\* often as read(dst, n) does.
ConsumeOff(n) == off + n - UsedUp(n)

ConsumeRx(n) ==
    /\ rx' = SubSeq(rx, UsedUp(n) + 1, tot_len)
    /\ ends' = {e - UsedUp(n) : e \in {f \in ends : f > UsedUp(n)}}

\* tcp_recved(): the consumed bytes open the window again.
Credit(n) == IF pcb THEN n ELSE 0

Read ==
    /\ Idle
    /\ \E n \in 1 .. getSize :
          /\ ConsumeRx(n)
          /\ off' = ConsumeOff(n)
          /\ hist' = [hist EXCEPT !.got = @ + n, !.credit = @ + Credit(n)]
    /\ UNCHANGED <<conn, txq, flags, sync, refs, pc, call>>

-----------------------------------------------------------------------------
(* Reference counting *)

Ref ==
    /\ Idle /\ refs < MaxRefs
    /\ refs' = refs + 1
    /\ UNCHANGED <<conn, txq, rxv, flags, sync, pc, call, hist>>

\* The last WiFiClient discards what was received, closes and deletes.
Unref ==
    /\ Idle
    /\ refs' = refs - 1
    /\ IF refs = 1
       THEN Close /\ Discard(pcb)
       ELSE UNCHANGED <<conn, rxv, hist>>
    /\ UNCHANGED <<txq, flags, sync, pc, call>>

Next ==
    \/ LwNext
    \/ Connect \/ ConnectEnd
    \/ Flush \/ AckResume \/ AckTimeout
    \/ SetSync \/ Write \/ SendResume \/ SendTimeout
    \/ Read \/ Ref \/ Unref

Spec == Init /\ [][Next]_vars

\* CONT is resumed when it is woken, and every wait has a time limit.
FairSpec ==
    /\ Spec
    /\ WF_vars(ConnectEnd)
    /\ WF_vars(AckResume) /\ WF_vars(AckTimeout)
    /\ WF_vars(SendResume) /\ WF_vars(SendTimeout)

-----------------------------------------------------------------------------
(* Properties *)

\* The user reads the received bytes in order, none missing and none twice,
\* however reads cut across pbufs that arrive in between; and as long as there
\* is a pcb each byte read has been given back to the peer's window, once
\* (_consume(); discard_received() credits a part of them again, but is only
\* called when the pcb is about to be closed).
RxInOrder ==
    /\ TypeOK
    /\ refs > 0 => SubSeq(rx, off + 1, tot_len)
                      = [i \in 1 .. hist.rcvd - hist.got |-> hist.got + i]
    /\ pcb => hist.credit = hist.got

\* _pcb is never left pointing to a freed pcb, and no pcb is left with a
\* callback into a deleted context.
NoDangling == /\ pcb => lw \notin {"none", "closing"}
              /\ arg => refs > 0

\* A connect() goes on waiting only while there is a connection to wait for; a
\* write() only while lwIP's send buffer is full or lwIP was short of memory,
\* and not once the connection is lost.  A wait that is over, by whatever
\* cause, leaves no flag behind at which the asserts of the next write() fail.
WaitsForCause ==
    /\ pc = "idle" => ~sendWaiting /\ ~connectPending
    /\ pc = "connecting" /\ connectPending => pcb
    /\ pc = "sending" /\ sendWaiting =>
          ~Closed /\ (Len(txq) = SndBuf \/ call.starved)

\* Every call returns, whatever the peer does.
CallReturns == (pc # "idle") ~> (pc = "idle")

\* "With sync, we wait for acknowledgment before returning to user": when no
\* call is in progress lwIP holds no reference to the user's memory.
BorrowedReturned == pc = "idle" => \A i \in DOMAIN txq : txq[i] # "borrowed"
=============================================================================
