------------------------------- MODULE MCRing -------------------------------
(***************************************************************************)
(* An instance of the ring for TLC: the capacity asked for is rounded up   *)
(* to two slots, and the counters have three bits, so that they wrap       *)
(* around every few batches.                                               *)
(***************************************************************************)
EXTENDS SpscRing

CONSTANT Asked          \* the capacity in the configuration file

ASSUME CapIsRoundedUp == Cap = roundUpPow2(Asked)

(* roundUpPow2 returns the least power of two, from 2 on, that is enough.  *)
ASSUME RoundUpIsLeast ==
  \A n \in 0 .. 40 :
    LET p == roundUpPow2(n)
    IN  /\ \E k \in 1 .. 6 : p = 2 ^ k
        /\ p >= n /\ (p > 2 => p \div 2 < n)
=============================================================================
