------------------------------ MODULE MCBuffers ------------------------------
(***************************************************************************)
(* Memory that callbacks and interrupt handlers share with the sketch: the *)
(* receive buffer of the UART, the chains of a UDP socket, and the heap.   *)
(* They are checked in one instance, one at a time: part says which of     *)
(* them a behavior is about, the others stay in their initial states.      *)
(***************************************************************************)
EXTENDS UartRx, UdpSocket, UmmHeap

VARIABLE part

buffersVars == <<part, uartVars, udpVars, ummVars>>

BuffersInit ==
    /\ UartInit /\ UdpInit /\ UmmInit
    /\ \/ part = "uart"
       \/ part \in {"udp", "umm"} /\ rb.size = Max(Sizes) /\ use = "read"

BuffersNext ==
    /\ UNCHANGED part
    /\ \/ part = "uart" /\ UartNext /\ UNCHANGED <<udpVars, ummVars>>
       \/ part = "udp"  /\ UdpNext  /\ UNCHANGED <<uartVars, ummVars>>
       \/ part = "umm"  /\ UmmNext  /\ UNCHANGED <<uartVars, udpVars>>

BuffersSpec == BuffersInit /\ [][BuffersNext]_buffersVars

UdpTwoShapes == {<<1>>, <<0, 1>>}
=============================================================================
