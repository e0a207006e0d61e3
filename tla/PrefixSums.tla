----------------------------- MODULE PrefixSums -----------------------------
(***************************************************************************)
(* The running total of a loop that adds up f[1], f[2], ..., f[n]: in      *)
(* _processSize() of UdpContext.h over the lengths of pbufs, and in the    *)
(* PWM list of core_esp8266_waveform_pwm.cpp over the delays between two   *)
(* edges.  It is a recursive function, as the loops are, so that the       *)
(* proofs can follow them one turn at a time.                              *)
(***************************************************************************)
EXTENDS Naturals

SumTo(f, n) ==
    LET sum[k \in 0..n] == IF k = 0 THEN 0 ELSE sum[k - 1] + f[k]
    IN  sum[n]
=============================================================================
