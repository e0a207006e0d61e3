------------------------------- MODULE UartRx -------------------------------
(***************************************************************************)
(* The receive path of cores/esp8266/uart.cpp (UART0 without GDB): bytes   *)
(* arrive in the hardware FIFO, uart_isr() moves them to the ring buffer   *)
(* rx_buffer, and the sketch takes them from both with read(), peek() and  *)
(* the peekBuffer API of Stream.                                           *)
(*                                                                         *)
(* What runs between ETS_UART_INTR_DISABLE() and _ENABLE() is one step;    *)
(* uart_isr() may run between any two steps, bytes may arrive at any time. *)
(* The bytes are numbered 1, 2, ... as they arrive; Junk is not a byte     *)
(* that was received.                                                      *)
(***************************************************************************)
EXTENDS Naturals, Sequences

CONSTANTS FifoSize,   \* capacity of the hardware FIFO
          Trigger,    \* INTRIGG: fill level that raises the interrupt
          Sizes,      \* sizes the sketch may give the software buffer
          MaxBytes,   \* bound: bytes that arrive
          MaxRead,    \* bound: the sketch's read sizes
          Uses        \* how the sketch may read: "read" or "peek"

ASSUME FifoAssumption == FifoSize \in Nat \ {0} /\ Trigger \in 1..FifoSize
ASSUME SizesAssumption == Sizes \subseteq Nat \ {0}
ASSUME BoundsAssumption == MaxBytes \in Nat /\ MaxRead \in Nat
ASSUME UseAssumption == Uses # {} /\ Uses \subseteq {"read", "peek"}

VARIABLES rb,         \* uart->rx_buffer: size, rpos, wpos, buffer
          overrun,    \* uart->rx_overrun
          hw, uiof,   \* hardware FIFO, its overflow interrupt bit
          use,        \* "peek": with the peekBuffer API too, from a paced sender
          pc, count,  \* a two-step call in progress, what it has counted
          received,   \* bytes that have arrived
          got,        \* the last byte delivered before the last call, then that call's
          lost,       \* history: a byte was dropped since the last report
          dropped,    \* history: a byte was dropped, by a full FIFO or a full buffer
          discarded,  \* history: a resize discarded what was in the buffer
          minusOne    \* history: uart_read_char_unsafe() returned -1 to the resize

history == <<received, got, lost, dropped, discarded, minusOne>>
uartVars == <<rb, overrun, hw, uiof, use, pc, count, history>>

Junk == 0
MinOf(a, b) == IF a < b THEN a ELSE b
Empty(size) == [size |-> size, rpos |-> 0, wpos |-> 0, buffer |-> [i \in 0..size - 1 |-> Junk]]

(* uart_init() *)
UartInit ==
  /\ \E size \in Sizes : rb = Empty(size)
  /\ overrun = FALSE
  /\ hw = <<>> /\ uiof = FALSE
  /\ use \in Uses /\ pc = "idle" /\ count = 0
  /\ received = 0 /\ got = <<0>>
  /\ lost = FALSE /\ dropped = FALSE /\ discarded = FALSE /\ minusOne = FALSE

(* uart_rx_buffer_available_unsafe() *)
Available(b) == IF b.wpos < b.rpos THEN (b.wpos + b.size) - b.rpos ELSE b.wpos - b.rpos

Contents == [i \in 1..Available(rb) |-> rb.buffer[(rb.rpos + i - 1) % rb.size]]

(* One turn of uart_rx_copy_fifo_to_buffer_unsafe(): the oldest byte makes *)
(* room for the new one.  s.b is the buffer, s.over says it was full.      *)
Push_NoFlag(s, data) ==
  LET nextPos == (s.b.wpos + 1) % s.b.size
      full == nextPos = s.b.rpos
  IN  [b |-> [s.b EXCEPT !.buffer[s.b.wpos] = data, !.wpos = nextPos,
                         !.rpos = IF full THEN (@ + 1) % s.b.size ELSE @],
       over |-> s.over]

Push(s, data) ==
  LET nextPos == (s.b.wpos + 1) % s.b.size
      full == nextPos = s.b.rpos
      rpos == IF ~full THEN s.b.rpos ELSE IF s.b.rpos + 1 = s.b.size THEN 0 ELSE s.b.rpos + 1
  IN  [b |-> [size |-> s.b.size, rpos |-> rpos, wpos |-> nextPos,
              buffer |-> [s.b.buffer EXCEPT ![s.b.wpos] = data]],
       over |-> s.over \/ full]

(* uart_rx_copy_fifo_to_buffer_unsafe() empties the FIFO. *)
Copied ==
  LET after[k \in 0..Len(hw)] ==
        IF k = 0 THEN [b |-> rb, over |-> FALSE] ELSE Push(after[k - 1], hw[k])
  IN  after[Len(hw)]

(* The bytes the copy drops are the ones that no longer fit, flagged or not. *)
CopyDrops == Available(rb) + Len(hw) > rb.size - 1

CopyFifo(flagged) ==
  /\ rb' = Copied.b
  /\ overrun' = (overrun \/ Copied.over \/ flagged)
  /\ hw' = <<>>
  /\ lost' = (lost \/ CopyDrops)
  /\ dropped' = (dropped \/ CopyDrops)
  /\ UNCHANGED discarded

----------------------------------------------------------------------------
(* A byte arrives (hardware): a full FIFO drops it and sets UIOF.  A paced *)
(* sender waits while the buffer has no room: the peekBuffer API is only   *)
(* sound with one, since an overrun moves rpos under the user's pointer.   *)
Receive ==
  /\ received < MaxBytes
  /\ use = "peek" => Available(rb) + Len(hw) < rb.size - 1
  /\ received' = received + 1
  /\ IF Len(hw) < FifoSize
       THEN hw' = Append(hw, received') /\ UNCHANGED <<uiof, lost, dropped>>
       ELSE uiof' = TRUE /\ lost' = TRUE /\ dropped' = TRUE /\ UNCHANGED hw
  /\ UNCHANGED <<rb, overrun, use, pc, count, got, discarded, minusOne>>

(* uart_isr().  UIFF, once raised, stays in USIS when a read takes the     *)
(* FIFO below the trigger: the copy may then happen or not.                *)
UartIsr ==
  /\ \/ /\ Len(hw) >= Trigger \/ uiof
        /\ CopyFifo(uiof)
     \/ /\ Len(hw) < Trigger /\ uiof
        /\ overrun' = TRUE /\ UNCHANGED <<rb, hw, lost, dropped, discarded>>
  /\ uiof' = FALSE
  /\ UNCHANGED <<use, pc, count, received, got, minusOne>>

----------------------------------------------------------------------------
LastByte == got[Len(got)]
Deliver(bytes) == got' = <<LastByte>> \o bytes

(* One turn of the loop of uart_read(): the largest linear piece of the    *)
(* buffer that the user's buffer has room for.                             *)
Pour(s, n) ==
  LET linear == IF s.b.rpos < s.b.wpos THEN s.b.wpos - s.b.rpos ELSE s.b.size - s.b.rpos
      chunk == MinOf(linear, n - Len(s.out))
  IN  IF Available(s.b) = 0 \/ Len(s.out) = n THEN s
      ELSE [b |-> [s.b EXCEPT !.rpos = (@ + chunk) % s.b.size],
            out |-> s.out \o [i \in 1..chunk |-> s.b.buffer[s.b.rpos + i - 1]]]

(* uart_read(): at most two pieces of the buffer, then the FIFO directly. *)
Read(n) ==
  /\ pc = "idle"
  /\ LET s == Pour(Pour([b |-> rb, out |-> <<>>], n), n)
         k == IF Available(s.b) = 0 THEN MinOf(n - Len(s.out), Len(hw)) ELSE 0
     IN  /\ rb' = s.b
         /\ Deliver(s.out \o SubSeq(hw, 1, k))
         /\ hw' = SubSeq(hw, k + 1, Len(hw))
  /\ UNCHANGED <<overrun, uiof, use, pc, count, received, lost, dropped, discarded, minusOne>>

(* uart_peek_char(): the FIFO cannot be peeked, so it is copied first. *)
PeekChar ==
  /\ pc = "idle"
  /\ Available(rb) = 0 /\ hw # <<>>
  /\ CopyFifo(FALSE)
  /\ UNCHANGED <<uiof, use, pc, count, received, got, minusOne>>

(* uart_rx_available(): the buffer is counted with the interrupt disabled, *)
(* the FIFO after it is enabled again.                                     *)
AvailPart_FifoFirst(i) == IF i = 1 THEN Len(hw) ELSE Available(rb)
AvailPart(i) == IF i = 1 THEN Available(rb) ELSE Len(hw)

RxAvailableBuffer ==
  /\ pc = "idle"
  /\ count' = AvailPart(1)
  /\ pc' = "available"
  /\ UNCHANGED <<rb, overrun, hw, uiof, use, history>>

RxAvailableFifo ==
  /\ pc = "available"
  /\ pc' = "idle" /\ count' = 0     \* returns count + AvailPart(2)
  /\ UNCHANGED <<rb, overrun, hw, uiof, use, history>>

(* uart_has_overrun() *)
HasOverrun ==
  /\ pc = "idle"
  /\ overrun
  /\ overrun' = FALSE
  /\ lost' = (lost /\ uiof)
  /\ UNCHANGED <<rb, hw, uiof, use, pc, count, received, got, dropped, discarded, minusOne>>

----------------------------------------------------------------------------
(* uart_resize_rx_buffer(): the loop runs as long as uart_rx_available_    *)
(* unsafe() counts something, and takes the bytes from the buffer only.    *)
(* When it fills the new buffer, with bytes or, as the FIFO is not empty,  *)
(* with -1, the buffer wraps to an empty one: all that was in it is gone,  *)
(* and rx_overrun does not tell.                                           *)
Resize(size) ==
  LET filled == IF hw # <<>> THEN size ELSE MinOf(Available(rb), size)
      kept == MinOf(Available(rb), filled)
  IN  /\ pc = "idle"
      /\ size # rb.size
      /\ rb' = [size |-> size, rpos |-> 0, wpos |-> IF filled = size THEN 0 ELSE filled,
                buffer |-> [i \in 0..size - 1 |-> IF i < kept THEN Contents[i + 1] ELSE Junk]]
      /\ minusOne' = (minusOne \/ filled > kept)
      /\ discarded' = (discarded \/ (Available(rb) > 0 /\ filled = size))
      /\ UNCHANGED <<overrun, hw, uiof, use, pc, count, received, got, lost, dropped>>

----------------------------------------------------------------------------
(* The peekBuffer API.  uart_peek_available(): how many bytes are linear,  *)
PeekCount_All(b) == Available(b)
PeekCount(b) == IF b.wpos < b.rpos THEN b.size - b.rpos ELSE b.wpos - b.rpos

PeekAvailable ==
  /\ use = "peek" /\ pc = "idle"
  /\ CopyFifo(FALSE)
  /\ count' = PeekCount(Copied.b)
  /\ pc' = "peek"
  /\ UNCHANGED <<uiof, use, received, got, minusOne>>

(* uart_peek_buffer(): the user takes up to that many of them,             *)
PeekBuffer(n) ==
  /\ pc = "peek"
  /\ n <= count
  /\ Deliver([i \in 1..n |-> IF rb.rpos + i - 1 < rb.size THEN rb.buffer[rb.rpos + i - 1]
                                                          ELSE Junk])
  /\ count' = n
  /\ pc' = "consume"
  /\ UNCHANGED <<rb, overrun, hw, uiof, use, received, lost, dropped, discarded, minusOne>>

(* and uart_peek_consume() discards as many. *)
ConsumePos == IF rb.rpos + count >= rb.size THEN rb.rpos + count - rb.size ELSE rb.rpos + count

PeekConsume ==
  /\ pc = "consume"
  /\ rb' = [rb EXCEPT !.rpos = ConsumePos]
  /\ pc' = "idle" /\ count' = 0
  /\ UNCHANGED <<overrun, hw, uiof, use, history>>

----------------------------------------------------------------------------
UartNext ==
  \/ Receive \/ UartIsr
  \/ (\E n \in 1..MaxRead : Read(n))
  \/ PeekChar \/ HasOverrun
  \/ RxAvailableBuffer \/ RxAvailableFifo
  \/ (\E size \in Sizes : Resize(size))
  \/ PeekAvailable \/ (\E n \in 0..MaxRead : PeekBuffer(n)) \/ PeekConsume

UartSpec == UartInit /\ [][UartNext]_uartVars

----------------------------------------------------------------------------
Bytes == 0..MaxBytes

UartTypeOK ==
  /\ rb.size \in Sizes /\ rb.rpos \in 0..rb.size - 1 /\ rb.wpos \in 0..rb.size - 1
  /\ rb.buffer \in [0..rb.size - 1 -> Bytes]
  /\ overrun \in BOOLEAN /\ uiof \in BOOLEAN
  /\ hw \in Seq(Bytes) /\ Len(hw) <= FifoSize
  /\ use \in Uses
  /\ pc \in {"idle", "available", "peek", "consume"} /\ count \in Nat
  /\ received \in Bytes /\ got \in Seq(Bytes)
  /\ lost \in BOOLEAN /\ dropped \in BOOLEAN /\ discarded \in BOOLEAN /\ minusOne \in BOOLEAN

(* The bytes of the last call are in the order they arrived, none twice    *)
(* and nothing that did not arrive.                                        *)
GotInOrder == \A i \in 1..Len(got) - 1 : got[i] < got[i + 1]

(* A byte was dropped for want of room, or discarded by a resize.          *)
Gaps == dropped \/ discarded

(* Until then no byte is missing: the buffer and then the FIFO hold        *)
(* exactly the bytes that arrived after the last one delivered.  So a      *)
(* resize with an empty FIFO to more bytes than wait in the buffer loses   *)
(* none of them.                                                           *)
NothingMissing ==
  ~Gaps /\ pc # "consume" => Contents \o hw = [i \in 1..received - LastByte |-> LastByte + i]

(* A byte that a full FIFO or a full buffer drops is never lost silently:  *)
(* until hasOverrun() has told the sketch, rx_overrun is set or the        *)
(* interrupt that will set it is pending.                                  *)
LossFlagged == lost => overrun \/ uiof

(* The sketch gets the bytes in the order they arrived, across wraps,      *)
(* overruns and resizes; none is missing before an overrun drops one or a  *)
(* resize discards some by filling the new buffer; and what an overrun     *)
(* drops is reported.  What a resize discards is not (uart_isr(),          *)
(* uart_read(), uart_has_overrun(), uart_resize_rx_buffer()).              *)
InOrder == UartTypeOK /\ GotInOrder /\ NothingMissing /\ LossFlagged

(* available() never returns more than read() could deliver at that moment,*)
(* although the interrupt moves and drops bytes between its two counts.    *)
AvailableHolds ==
  [][RxAvailableFifo => count + AvailPart(2) <= Available(rb) + Len(hw)]_uartVars

(* Between peekAvailable() and peekBuffer(), with a paced sender: the      *)
(* pointer peekBuffer() will return is one "to available data buffer (size *)
(* = peekAvailable())", although the interrupt may move bytes in between.  *)
PeekPromise == pc = "peek" => count <= Available(rb) /\ rb.rpos + count <= rb.size

(* uart_resize_rx_buffer(): "if uart_rx_available_unsafe() returns non-0,  *)
(* uart_read_char_unsafe() can't return -1".                               *)
ResizeReadsBytes == ~minusOne
=============================================================================
