--------------------------- MODULE ExchangeProofs ---------------------------
(***************************************************************************)
(* For every number of symbols, period, slack, --count and --bench-secs:   *)
(* the mock exchange never runs ahead of its rate, its bursts are bounded, *)
(* and --count is exact.                                                   *)
(***************************************************************************)
EXTENDS Exchange, TLAPS

-----------------------------------------------------------------------------
(* Type correctness: every step of the loop, the clock and ctrl-c keeps    *)
(* the variables of main in their types.                                   *)
THEOREM TypeCorrect == Spec => []TypeOK
<1> USE ExchangeAssumption
<1>1. Init => TypeOK
  <2> SUFFICES ASSUME Init PROVE TypeOK
    OBVIOUS
  <2>1. sym \in Syms /\ sent \in [Syms -> Nat] /\ starts \in Seq(Nat)
    BY DEF Init, Syms
  <2> QED BY <2>1 DEF Init, TypeOK
<1>2. TypeOK /\ [Next]_vars => TypeOK'
  <2> SUFFICES ASSUME TypeOK, [Next]_vars PROVE TypeOK'
    OBVIOUS
  <2> USE DEF TypeOK, args
  <2>1. CASE Round
    BY <2>1 DEF Round, Syms
  <2>2. CASE Break
    BY <2>2 DEF Break
  <2>3. CASE Send
    <3>1. sym' \in Syms /\ seq' \in Nat /\ sent' \in [Syms -> Nat]
      BY <2>3 DEF Send, Syms
    <3> QED BY <2>3, <3>1 DEF Send
  <2>4. CASE Pace
    BY <2>4 DEF Pace, Rescheduled
  <2>5. CASE Wake
    BY <2>5 DEF Wake
  <2>6. CASE TimePasses
    BY <2>6 DEF TimePasses
  <2>7. CASE CtrlC
    BY <2>7 DEF CtrlC
  <2>8. CASE UNCHANGED vars
    BY <2>8 DEF vars
  <2> QED BY <2>1, <2>2, <2>3, <2>4, <2>5, <2>6, <2>7, <2>8 DEF Next, Main
<1> QED BY <1>1, <1>2, PTL DEF Spec

-----------------------------------------------------------------------------
(* The rounds whose end the schedule has taken into account.               *)
Paced == IF pc \in {"send", "pace", "returned"} THEN Len(starts) - 1 ELSE Len(starts)

(* The schedule has moved a period for every paced round, and since a      *)
(* round started it has moved, but for 50 ms, at least to that start and a *)
(* period for every paced round after it.  No round starts before it is    *)
(* due.                                                                    *)
ScheduleKept ==
  /\ next_due >= Paced * Per
  /\ \A i \in 1 .. Paced : next_due + Slack >= starts[i] + (Paced - i) * Per
  /\ pc = "top" => next_due <= now

StartsPast ==
  /\ Paced >= 0
  /\ \A i \in DOMAIN starts : starts[i] <= now

(* The inductive invariant behind NeverAhead and BurstBounded.             *)
PaceInv == ScheduleKept /\ StartsPast /\ NeverAhead /\ BurstBounded

(* One more round is one more period.                                      *)
LEMMA OneMorePeriod ==
  ASSUME NEW n \in Int
  PROVE  n * Per \in Int /\ (n + 1) * Per = n * Per + Per
BY ExchangeAssumption

(* Pace (main.rs:187-203) moves the schedule by a period or more, up to    *)
(* now at least but for 50 ms, and past now only into a sleep.             *)
LEMMA PaceMovesSchedule ==
  ASSUME TypeOK, Pace
  PROVE  /\ next_due' \in Nat
         /\ next_due' >= next_due + Per
         /\ next_due' + Slack >= now
         /\ pc' = "top" => next_due' <= now
         /\ pc' \in {"top", "sleep"}
BY ExchangeAssumption DEF TypeOK, Pace, Rescheduled

(* A schedule that is 50 ms behind now at most is 50 ms behind any start.  *)
LEMMA SlackCovers ==
  ASSUME NEW due \in Nat, NEW t \in Nat, due + Slack >= t,
         NEW start \in Nat, start <= t, NEW moved \in Int, moved <= 0
  PROVE  due + Slack >= start + moved
BY ExchangeAssumption

(* Steps that leave the schedule, the rounds and their number alone, while *)
(* the clock does not run backwards.                                       *)
LEMMA QuietStep ==
  ASSUME TypeOK, PaceInv, now' \in Nat, now' >= now,
         UNCHANGED <<next_due, starts>>, Paced' = Paced,
         pc' = "top" => next_due <= now
  PROVE  PaceInv'
<1> USE ExchangeAssumption
<1>1. ScheduleKept'
  BY DEF PaceInv, ScheduleKept, TypeOK
<1>2. StartsPast'
  BY DEF PaceInv, StartsPast, TypeOK
<1>3. NeverAhead' /\ BurstBounded'
  BY DEF PaceInv, NeverAhead, BurstBounded
<1> QED BY <1>1, <1>2, <1>3 DEF PaceInv

(* The pacing invariant holds whatever stalls the loop suffers: rounds     *)
(* start when they are due and no earlier, and the schedule is given up    *)
(* only in favour of a later one.                                          *)
THEOREM PacingInvariant == Spec => []PaceInv
<1> USE ExchangeAssumption
<1>1. Init => PaceInv
  BY DEF Init, PaceInv, ScheduleKept, StartsPast, NeverAhead, BurstBounded, Paced
<1>2. TypeOK /\ PaceInv /\ [Next]_vars => PaceInv'
  <2> SUFFICES ASSUME TypeOK, PaceInv, [Next]_vars PROVE PaceInv'
    OBVIOUS
  <2> USE DEF args
  <2>0. Len(starts) \in Nat /\ now \in Nat /\ next_due \in Nat
    BY DEF TypeOK
  <2>1. CASE Round
    <3> DEFINE n == Len(starts)
    <3>1. /\ Paced = n /\ Paced' = n /\ n \in Nat
          /\ starts' = Append(starts, now) /\ Len(starts') = n + 1
          /\ next_due' = next_due /\ now' = now
          /\ next_due <= now /\ pc' = "send"
      BY <2>0, <2>1 DEF Round, Paced, PaceInv, ScheduleKept, TypeOK
    <3>2. /\ starts'[n + 1] = now
          /\ \A i \in 1 .. n : starts'[i] = starts[i] /\ starts[i] \in Nat
      BY <2>0, <3>1 DEF TypeOK
    <3>3. ScheduleKept'
      BY <3>1, <3>2 DEF PaceInv, ScheduleKept
    <3>4. StartsPast'
      BY <2>0, <3>1, <3>2 DEF PaceInv, StartsPast, TypeOK
    <3>5. NeverAhead'
      <4>1. now >= n * Per
        BY <2>0, <3>1, OneMorePeriod DEF PaceInv, ScheduleKept
      <4>2. ASSUME NEW i \in 1 .. n + 1 PROVE starts'[i] >= (i - 1) * Per
        <5>1. CASE i = n + 1
          <6>1. i - 1 = n
            BY <3>1, <5>1
          <6> QED BY <3>2, <4>1, <5>1, <6>1
        <5>2. CASE i # n + 1
          <6>1. i \in 1 .. n
            BY <3>1, <5>2
          <6> QED BY <3>2, <6>1 DEF PaceInv, NeverAhead, TypeOK
        <5> QED BY <5>1, <5>2
      <4> QED BY <3>1, <4>2 DEF NeverAhead, TypeOK
    <3>6. BurstBounded'
      <4> SUFFICES ASSUME NEW i \in DOMAIN starts', NEW j \in DOMAIN starts', i < j
                   PROVE  ((j - i) - 1) * Per <= (starts'[j] - starts'[i]) + Slack
        BY DEF BurstBounded
      <4>1. i \in 1 .. n /\ j \in 1 .. n + 1
        BY <3>1 DEF TypeOK
      <4>2. CASE j = n + 1
        <5>1. (j - i) - 1 = n - i
          BY <3>1, <4>1, <4>2
        <5> DEFINE moved == (n - i) * Per
        <5>2. next_due + Slack >= starts[i] + moved
          BY <3>1, <4>1 DEF PaceInv, ScheduleKept
        <5>3. moved \in Int
          BY <3>1, <4>1
        <5> HIDE DEF moved
        <5>4. moved <= (now - starts[i]) + Slack
          BY <2>0, <3>1, <3>2, <4>1, <5>2, <5>3
        <5> QED BY <3>2, <4>1, <4>2, <5>1, <5>4 DEF moved
      <4>3. CASE j # n + 1
        <5>1. j \in 1 .. n
          BY <3>1, <4>1, <4>3
        <5> QED BY <3>1, <3>2, <4>1, <5>1 DEF PaceInv, BurstBounded, TypeOK
      <4> QED BY <4>2, <4>3
    <3> QED BY <3>3, <3>4, <3>5, <3>6 DEF PaceInv
  <2>2. CASE Break
    BY <2>0, <2>2, QuietStep DEF Break, Paced
  <2>3. CASE Send
    BY <2>0, <2>3, QuietStep DEF Send, Paced
  <2>4. CASE Pace
    <3> DEFINE n == Len(starts)
    <3>1. /\ Paced = n - 1 /\ Paced' = n /\ n \in Nat
          /\ starts' = starts /\ now' = now
      BY <2>0, <2>4, PaceMovesSchedule DEF Pace, Paced
    <3>2. /\ next_due' \in Nat /\ next_due' >= next_due + Per
          /\ next_due' + Slack >= now /\ (pc' = "top" => next_due' <= now)
      BY <2>4, PaceMovesSchedule
    <3>3. next_due' >= n * Per
      <4>1. n * Per = (n - 1) * Per + Per /\ (n - 1) * Per \in Int
        BY <3>1, OneMorePeriod
      <4> QED BY <2>0, <3>1, <3>2, <4>1 DEF PaceInv, ScheduleKept
    <3>4. ASSUME NEW i \in 1 .. n
          PROVE  next_due' + Slack >= starts[i] + (n - i) * Per
      <4>0. starts[i] \in Nat /\ starts[i] <= now
        BY <3>1, SMTT(30) DEF PaceInv, StartsPast, TypeOK
      <4>1. CASE i = n
        <5>1. (n - i) * Per <= 0 /\ (n - i) * Per \in Int
          BY <3>1, <4>1
        <5> QED BY <2>0, <3>2, <4>0, <5>1, SlackCovers
      <4>2. CASE i # n
        <5>1. i \in 1 .. n - 1
          BY <3>1, <4>2
        <5>2. next_due + Slack >= starts[i] + ((n - 1) - i) * Per
          BY <3>1, <5>1 DEF PaceInv, ScheduleKept
        <5>3. (n - i) * Per = ((n - 1) - i) * Per + Per /\ ((n - 1) - i) * Per \in Int
          <6>1. ((n - 1) - i) + 1 = n - i /\ (n - 1) - i \in Int
            BY <3>1
          <6> QED BY <6>1, OneMorePeriod
        <5> QED BY <2>0, <3>2, <4>0, <5>2, <5>3
      <4> QED BY <4>1, <4>2
    <3>5. ScheduleKept'
      BY <3>1, <3>2, <3>3, <3>4 DEF ScheduleKept
    <3>6. StartsPast' /\ NeverAhead' /\ BurstBounded'
      BY <3>1 DEF PaceInv, StartsPast, NeverAhead, BurstBounded
    <3> QED BY <3>5, <3>6 DEF PaceInv
  <2>5. CASE Wake
    BY <2>0, <2>5, QuietStep DEF Wake, Paced
  <2>6. CASE TimePasses
    BY <2>0, <2>6, QuietStep DEF TimePasses, Paced, PaceInv, ScheduleKept
  <2>7. CASE CtrlC
    BY <2>0, <2>7, QuietStep DEF CtrlC, Paced, PaceInv, ScheduleKept
  <2>8. CASE UNCHANGED vars
    BY <2>0, <2>8, QuietStep DEF vars, Paced, PaceInv, ScheduleKept
  <2> QED BY <2>1, <2>2, <2>3, <2>4, <2>5, <2>6, <2>7, <2>8 DEF Next, Main
<1> QED BY <1>1, <1>2, TypeCorrect, PTL DEF Spec

(* "Ticks per second per symbol" (main.rs:28) is an upper bound: no round  *)
(* starts before its place in the schedule, however often the loop was     *)
(* late and rescheduled.                                                   *)
THEOREM RateIsUpperBound == Spec => []NeverAhead
<1>1. PaceInv => NeverAhead
  BY DEF PaceInv
<1> QED BY <1>1, PacingInvariant, PTL

(* "Resync so we don't try to catch up forever" (main.rs:195): a stall of  *)
(* any length is followed by a burst of at most 50 ms worth of periods.    *)
THEOREM BurstsAreBounded == Spec => []BurstBounded
<1>1. PaceInv => BurstBounded
  BY DEF PaceInv
<1> QED BY <1>1, PacingInvariant, PTL

-----------------------------------------------------------------------------
(* 1 if the current round has sent symbol s its tick, else 0.              *)
Served(s) == IF s < sym THEN 1 ELSE 0

(* In the middle of a round the symbols before sym are one tick ahead;     *)
(* between rounds none is.                                                 *)
RoundsAreFair ==
  /\ pc = "send" => \A s, t \in Syms : sent[s] - sent[t] = Served(s) - Served(t)
  /\ pc \in {"top", "pace", "sleep"} => \A s, t \in Syms : sent[s] = sent[t]

(* The inductive invariant behind CountIsExact: main is still running only *)
(* below --count.                                                          *)
CountInv ==
  /\ CountIsExact
  /\ RoundsAreFair
  /\ count > 0 /\ pc # "returned" => seq < count

(* "Total ticks to publish before exiting" (main.rs:30): the return inside *)
(* the for loop makes --count exact in the middle of a round too, and no   *)
(* symbol is ever more than a tick ahead of another.                       *)
THEOREM CountIsKept == Spec => []CountIsExact
<1> USE ExchangeAssumption
<1>1. Init => CountInv
  <2> SUFFICES ASSUME Init PROVE CountInv
    OBVIOUS
  <2>1. \A s \in Syms : sent[s] = 0
    BY DEF Init
  <2> QED BY <2>1 DEF Init, CountInv, CountIsExact, RoundsAreFair, Syms
<1>2. TypeOK /\ CountInv /\ [Next]_vars => CountInv'
  <2> SUFFICES ASSUME TypeOK, CountInv, [Next]_vars PROVE CountInv'
    OBVIOUS
  <2> USE DEF args
  <2>0. /\ sym \in Nat /\ sym >= 1 /\ sym <= NSyms /\ seq \in Nat /\ count \in Nat
        /\ \A s \in Syms : sent[s] \in Nat /\ s \in Nat /\ s >= 1 /\ s <= NSyms
    BY DEF TypeOK, Syms
  <2>1. CASE Round
    <3>1. pc = "top" /\ sym' = 1 /\ UNCHANGED <<count, seq, sent>> /\ pc' = "send"
      BY <2>1 DEF Round
    <3>2. \A s \in Syms : Served(s)' = 0
      BY <2>0, <3>1 DEF Served
    <3>3. RoundsAreFair'
      BY <2>0, <3>1, <3>2 DEF CountInv, RoundsAreFair
    <3> QED BY <3>1, <3>3 DEF CountInv, CountIsExact
  <2>2. CASE Send
    <3>1. /\ pc = "send" /\ UNCHANGED <<count>> /\ seq' = seq + 1
          /\ sent' = [sent EXCEPT ![sym] = @ + 1]
          /\ sym' = IF sym < NSyms THEN sym + 1 ELSE sym
          /\ pc' = IF count > 0 /\ seq + 1 >= count THEN "returned"
                   ELSE IF sym < NSyms THEN "send" ELSE "pace"
      BY <2>2 DEF Send, Counted
    <3> DEFINE Next1(s) == Served(s) + (IF s = sym THEN 1 ELSE 0)
    <3>2. \A s \in Syms : sent'[s] = sent[s] + (IF s = sym THEN 1 ELSE 0)
      BY <2>0, <3>1 DEF TypeOK
    <3>3. \A s, t \in Syms : sent[s] - sent[t] = Served(s) - Served(t)
      BY <3>1 DEF CountInv, RoundsAreFair
    <3>4. \A s, t \in Syms : sent'[s] - sent'[t] = Next1(s) - Next1(t)
      BY <2>0, <3>2, <3>3 DEF Served
    <3>5. \A s, t \in Syms : s < t => sent'[s] - sent'[t] \in {0, 1}
      BY <2>0, <3>4 DEF Served
    <3>6. RoundsAreFair'
      <4>1. CASE sym < NSyms
        <5>1. \A s \in Syms : Served(s)' = Next1(s)
          BY <2>0, <3>1, <4>1 DEF Served
        <5>2. pc' \in {"send", "returned"}
          BY <3>1, <4>1
        <5> QED BY <3>4, <5>1, <5>2 DEF RoundsAreFair
      <4>2. CASE ~(sym < NSyms)
        <5>1. \A s \in Syms : Next1(s) = 1
          BY <2>0, <4>2 DEF Served
        <5>2. \A s \in Syms : sent'[s] \in Nat
          BY <2>0, <3>2
        <5>3. pc' \in {"pace", "returned"}
          BY <3>1, <4>2
        <5> QED BY <3>4, <5>1, <5>2, <5>3 DEF RoundsAreFair
      <4> QED BY <4>1, <4>2
    <3>7. /\ pc' = "returned" => seq' = count'
          /\ count' > 0 => seq' <= count'
          /\ count' > 0 /\ pc' # "returned" => seq' < count'
      BY <2>0, <3>1 DEF CountInv
    <3> QED BY <3>5, <3>6, <3>7 DEF CountInv, CountIsExact
  <2>3. CASE Break \/ Pace \/ Wake
    <3>1. /\ UNCHANGED <<count, seq, sent>> /\ pc \in {"top", "pace", "sleep"}
          /\ pc' \in {"top", "sleep", "stopped"}
      BY <2>3 DEF Break, Pace, Wake
    <3> QED BY <3>1 DEF CountInv, CountIsExact, RoundsAreFair
  <2>4. CASE TimePasses \/ CtrlC \/ UNCHANGED vars
    <3>1. UNCHANGED <<count, pc, seq, sent, sym>>
      BY <2>4 DEF TimePasses, CtrlC, vars
    <3> QED BY <3>1 DEF CountInv, CountIsExact, RoundsAreFair, Served
  <2> QED BY <2>1, <2>2, <2>3, <2>4 DEF Next, Main
<1>3. CountInv => CountIsExact
  BY DEF CountInv
<1> QED BY <1>1, <1>2, <1>3, TypeCorrect, PTL DEF Spec
=============================================================================
