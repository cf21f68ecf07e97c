----------------------------------- MODULE Words -----------------------------------
(* Words of bits: the powers of two up to that of the widest type, 64 bits.          *)
EXTENDS Integers

MaxBits == 64

Power[n \in 0..MaxBits] == IF n = 0 THEN 1 ELSE 2 * Power[n - 1]
====================================================================================
