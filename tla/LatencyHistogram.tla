-------------------------- MODULE LatencyHistogram --------------------------
(***************************************************************************)
(* The fixed-bucket histogram of crates/shmbus/src/latency.rs, next to the *)
(* samples it was given: record, reset and summary.                        *)
(*                                                                         *)
(* A quantile is given in thousandths.  The code multiplies by an f64: for *)
(* 0.5, 0.9, 0.99 and 0.999 and any count below 2^53 the rounding error of *)
(* the product is below what could change its ceiling, so the ceiling is   *)
(* the exact one.                                                          *)
(***************************************************************************)
EXTENDS Integers, Sequences, FiniteSets

CONSTANTS Bounds,      \* BUCKET_BOUNDS_NS: inclusive upper bounds, the last u64::MAX
          Latencies,   \* the samples that may be recorded
          MaxCount     \* bound on their number

Buckets == DOMAIN Bounds
LastBucket == Len(Bounds)

(* "Must be sorted" (latency.rs:7).                                        *)
ASSUME BoundsAssumption ==
  /\ Bounds \in Seq(Nat) /\ Len(Bounds) > 0
  /\ \A i, j \in Buckets : i < j => Bounds[i] < Bounds[j]
  /\ Latencies \subseteq 0 .. Bounds[LastBucket]
  /\ MaxCount \in Nat

VARIABLES buckets, min_ns, max_ns, sum_ns, count,
          samples      \* samples[x]: how often x was recorded since the last reset

histVars == <<buckets, min_ns, max_ns, sum_ns, count, samples>>

HistInit ==
  /\ buckets = [i \in Buckets |-> 0]
  /\ min_ns = Bounds[LastBucket] /\ max_ns = 0
  /\ sum_ns = 0 /\ count = 0
  /\ samples = [x \in Latencies |-> 0]

(* The first bucket whose bound is not below the sample.                   *)
BucketOf(x) == CHOOSE i \in Buckets :
                 x <= Bounds[i] /\ \A j \in Buckets : j < i => Bounds[j] < x

record(x) ==
  /\ count < MaxCount
  /\ buckets' = [buckets EXCEPT ![BucketOf(x)] = @ + 1]
  /\ min_ns' = IF x < min_ns THEN x ELSE min_ns
  /\ max_ns' = IF x > max_ns THEN x ELSE max_ns
  /\ sum_ns' = sum_ns + x
  /\ count' = count + 1
  /\ samples' = [samples EXCEPT ![x] = @ + 1]

(* Not the code: the minimum survives a reset.                             *)
reset_KeepsMin == /\ count > 0
                  /\ buckets' = [i \in Buckets |-> 0]
                  /\ max_ns' = 0 /\ sum_ns' = 0 /\ count' = 0
                  /\ samples' = [x \in Latencies |-> 0]
                  /\ UNCHANGED min_ns

reset == /\ count > 0
         /\ buckets' = [i \in Buckets |-> 0]
         /\ min_ns' = Bounds[LastBucket] /\ max_ns' = 0
         /\ sum_ns' = 0 /\ count' = 0
         /\ samples' = [x \in Latencies |-> 0]

HistNext == reset \/ \E x \in Latencies : record(x)

HistSpec == HistInit /\ [][HistNext]_histVars

-----------------------------------------------------------------------------
(* The loop's running total after bucket i.                                *)
cum[i \in 0 .. LastBucket] == IF i = 0 THEN 0 ELSE cum[i - 1] + buckets[i]

AtLeastOne(n) == IF n < 1 THEN 1 ELSE n

(* ceil(count * q), at least 1.                                            *)
Target(q) == AtLeastOne((count * q + 999) \div 1000)

(* Not the code: a strict comparison.                                      *)
Reached_Strictly(q) == {i \in Buckets : cum[i] > Target(q)}

(* The buckets the running total has reached the rank in.                  *)
Reached(q) == {i \in Buckets : cum[i] >= Target(q)}

quantile(q) ==
  LET reached == Reached(q) IN
  IF count = 0 THEN 0
  ELSE IF reached = {} THEN max_ns
  ELSE Bounds[CHOOSE i \in reached : \A j \in reached : i <= j]

summary ==
  [count |-> count,
   min |-> IF count = 0 THEN 0 ELSE min_ns,
   max |-> max_ns,
   mean |-> IF count = 0 THEN 0 ELSE sum_ns \div count,
   p50 |-> quantile(500), p90 |-> quantile(900),
   p99 |-> quantile(990), p999 |-> quantile(999)]

-----------------------------------------------------------------------------
(* The samples, equal ones told apart by a number; how many are at most b. *)
Samples == {s \in Latencies \X (1 .. MaxCount) : s[2] <= samples[s[1]]}
AtMost(b) == Cardinality({s \in Samples : s[1] <= b})
Recorded == Cardinality(Samples)

(* The reference: the least bound that at least a fraction q/1000 of the   *)
(* samples do not exceed.                                                  *)
IsQuantile(b, q) ==
  LET enough == {i \in Buckets : 1000 * AtMost(Bounds[i]) >= q * Recorded
                                 /\ AtMost(Bounds[i]) > 0}
  IN  \E i \in enough : b = Bounds[i] /\ \A j \in enough : i <= j

(***************************************************************************)
(* "Returns the upper bound of the bucket containing the given quantile",  *)
(* "0 if no samples have been recorded" (latency.rs:84-85), for the four   *)
(* quantiles a summary reports and after any samples and resets.           *)
(***************************************************************************)
QuantilesAreRanks ==
  IF Recorded = 0 THEN \A q \in {500, 900, 990, 999} : quantile(q) = 0
  ELSE \A q \in {500, 900, 990, 999} : IsQuantile(quantile(q), q)

(***************************************************************************)
(* A summary is consistent: quantiles are ordered, none is below the       *)
(* minimum, the mean lies between the extremes, the extremes are samples.  *)
(***************************************************************************)
SummaryConsistent ==
  LET s == summary IN
  Recorded > 0 =>
     /\ s.min <= s.p50 /\ s.p50 <= s.p90 /\ s.p90 <= s.p99 /\ s.p99 <= s.p999
     /\ s.min <= s.mean /\ s.mean <= s.max
     /\ samples[s.min] > 0 /\ \A x \in Latencies : x < s.min => samples[x] = 0
     /\ samples[s.max] > 0 /\ \A x \in Latencies : x > s.max => samples[x] = 0
=============================================================================
