----------------------------- MODULE CacheAlloc -----------------------------
(***************************************************************************)
(* The split of the L3 ways that scripts/cache-alloc.sh makes between the  *)
(* hot and the noise group.  A mask is the set of the ways it selects,     *)
(* numbered from 0, the least significant bit.                             *)
(***************************************************************************)
EXTENDS Integers

AtLeast(x, lower) == IF x < lower THEN lower ELSE x

(* The first share of the hot group: a percentage, but min_cbm_bits ways.  *)
HotShare(ways, min_bits, hot_pct) == AtLeast((ways * hot_pct) \div 100, min_bits)

(* The noise group has the rest, but min_cbm_bits ways.                    *)
Noise(ways, min_bits, hot_pct) == AtLeast(ways - HotShare(ways, min_bits, hot_pct), min_bits)

(* Not the code: the hot group does not give way.                          *)
Hot_KeepsShare(ways, min_bits, hot_pct) == HotShare(ways, min_bits, hot_pct)

(* The hot group gives way when both together are too many.                *)
Hot(ways, min_bits, hot_pct) ==
  IF HotShare(ways, min_bits, hot_pct) + Noise(ways, min_bits, hot_pct) > ways
  THEN ways - Noise(ways, min_bits, hot_pct)
  ELSE HotShare(ways, min_bits, hot_pct)

(* ((1 << hot) - 1) << (ways - hot), and (1 << noise) - 1.                 *)
HotMask(ways, min_bits, hot_pct) == ways - Hot(ways, min_bits, hot_pct) .. ways - 1
NoiseMask(ways, min_bits, hot_pct) == 0 .. Noise(ways, min_bits, hot_pct) - 1
=============================================================================
