---------------------------- MODULE RTTEstimator ----------------------------
(***************************************************************************)
(* ReliableSocket::update_rtt: the EWMA estimate of the round-trip time    *)
(* and the retransmission timeout it pushes to the UDP socket.  The code   *)
(* computes in double (alpha = 0.125, beta = 0.25) and stores the results  *)
(* in the int fields estimated_rtt and dev_rtt, which truncates; the       *)
(* sample is a uint32_t, so sample_rtt - estimated_rtt is computed modulo  *)
(* 2^32 before abs() sees it as an int.                                    *)
(***************************************************************************)
EXTENDS Integers

CONSTANT Samples        \* RTT samples (ms) that send_until_acked may measure

(* The operators and the update step are composed into ReliableSocket,   *)
(* whose sender owns these three variables.                               *)

VARIABLES estimated_rtt, dev_rtt, timeout_length

vars == <<estimated_rtt, dev_rtt, timeout_length>>

(* sample_rtt - estimated_rtt is a uint32_t difference, which abs(int)    *)
(* reads back as a signed int: for operands below 2^31, as all samples    *)
(* here are, the wrap-around cancels and the result is the plain signed   *)
(* difference.                                                            *)
AbsInt(x) == IF x < 0 THEN -x ELSE x

(* Mutant: (1 - alpha) left out of the estimate.                          *)
NewEstimateNoDecay(est, sample) == est + sample \div 8

(* (int)((1 - 0.125) * est + 0.125 * sample): exact in double, truncated. *)
NewEstimate(est, sample) == (7 * est + sample) \div 8

(* (int)((1 - 0.25) * dev + 0.25 * abs(sample - est')).                   *)
NewDeviation(dev, est2, sample) ==
    (3 * dev + AbsInt(sample - est2)) \div 4

(* timeout = estimated_rtt + 4 * dev_rtt, passed to set_timeout_length.   *)
Timeout(est, dev) == est + 4 * dev

(* ReliableSocket(): estimated_rtt 200 and dev_rtt 10.  The socket's      *)
(* timeout is 0 until connect_to_remote or accept_connection sets it.    *)
InitEstimate ==
    /\ estimated_rtt = 200
    /\ dev_rtt = 10

UpdateRtt(sample) ==
    LET est2 == NewEstimate(estimated_rtt, sample)
        dev2 == NewDeviation(dev_rtt, est2, sample)
    IN  /\ estimated_rtt' = est2
        /\ dev_rtt' = dev2
        /\ timeout_length' = Timeout(est2, dev2)

-----------------------------------------------------------------------------
Lo == IF \A s \in Samples : s >= 200 THEN 200 ELSE CHOOSE m \in Samples : \A s \in Samples : m <= s
Hi == IF \A s \in Samples : s <= 200 THEN 200 ELSE CHOOSE m \in Samples : \A s \in Samples : m >= s

(* Estimate, deviation and the timeout handed to set_timeout_length     *)
(* stay non-negative under update_rtt.                                   *)
TypeOK ==
    /\ estimated_rtt \in Nat /\ dev_rtt \in Nat
    /\ timeout_length \in Nat

(* The smoothed estimate never leaves the range of the values it          *)
(* averages (the initial 200 ms and every sample), and the deviation      *)
(* never exceeds the larger of its initial 10 ms and that range's width,  *)
(* however the samples are interleaved.                                   *)
SmoothedWithinRange ==
    /\ estimated_rtt \in Lo..Hi
    /\ dev_rtt <= IF Hi - Lo > 10 THEN Hi - Lo ELSE 10
=============================================================================
