------------------------------ MODULE Exchange ------------------------------
(***************************************************************************)
(* The mock exchange (crates/mock-exchange/src/main.rs): rounds of one     *)
(* tick per symbol, paced by a schedule next_due that each round moves by  *)
(* one period and that is given up when the loop falls too far behind it.  *)
(*                                                                         *)
(* Time is in units of which Per make a period and Slack make 50 ms.  It   *)
(* passes between any two steps: a stall of the process, a slow send and a *)
(* sleep that lasts too long are the same here.  Prices are left out; what *)
(* a send returns is ignored by the code, and here.                        *)
(***************************************************************************)
EXTENDS Integers, Sequences

CONSTANTS
  NSyms,      \* number of symbols
  Per,        \* per_tick_dur
  Slack,      \* 50 ms
  Counts,     \* the values --count may have (0: no limit)
  Deadlines,  \* the values --bench-secs may have (0: none)
  MaxTime     \* bound: no round starts at or after it

ASSUME ExchangeAssumption ==
  /\ NSyms \in Nat \ {0} /\ Per \in Nat \ {0} /\ Slack \in Nat
  /\ Counts \subseteq Nat /\ Deadlines \subseteq Nat
  /\ MaxTime \in Nat /\ \A d \in Deadlines : d < MaxTime

Syms == 1 .. NSyms

VARIABLES
  count, deadline,  \* --count, --bench-secs
  now,              \* Instant::now(), 0 at the start
  stop,             \* the flag the ctrl-c handler sets
  pc, sym,          \* where main is; the symbol of the for loop
  next_due,
  seq,              \* the last sequence number, which is also sent_total
  \* history
  sent,             \* sent[s]: ticks of symbol s
  starts            \* when each round started

args == <<count, deadline>>
vars == <<args, now, stop, pc, sym, next_due, seq, sent, starts>>

Init ==
  /\ count \in Counts /\ deadline \in Deadlines
  /\ now = 0 /\ stop = FALSE
  /\ pc = "top" /\ sym = 1
  /\ next_due = 0 /\ seq = 0
  /\ sent = [s \in Syms |-> 0] /\ starts = <<>>

-----------------------------------------------------------------------------
(* Not the code: the deadline is not looked at.                            *)
Over_StopOnly == stop

(* The two tests at the top of the loop.                                   *)
Over == stop \/ (deadline > 0 /\ now >= deadline)

Round ==
  /\ pc = "top" /\ ~Over /\ now < MaxTime
  /\ pc' = "send" /\ sym' = 1
  /\ starts' = Append(starts, now)
  /\ UNCHANGED <<args, now, stop, next_due, seq, sent>>

Break ==
  /\ pc = "top" /\ Over
  /\ pc' = "stopped"
  /\ UNCHANGED <<args, now, stop, sym, next_due, seq, sent, starts>>

(* Not the code: --count is looked at after a whole round.                 *)
Counted_PerRound(n) == count > 0 /\ n >= count /\ sym = NSyms

Counted(n) == count > 0 /\ n >= count

(* The body of the for loop: main returns inside it when --count is met.   *)
Send ==
  /\ pc = "send"
  /\ seq' = seq + 1
  /\ sent' = [sent EXCEPT ![sym] = @ + 1]
  /\ pc' = IF Counted(seq') THEN "returned" ELSE IF sym < NSyms THEN "send" ELSE "pace"
  /\ sym' = IF sym < NSyms THEN sym + 1 ELSE sym
  /\ UNCHANGED <<args, now, stop, next_due, starts>>

(* Not the code: the backlog is worked off, however large; a late round    *)
(* does not move the schedule.                                             *)
Rescheduled_CatchUp(due) == due
Rescheduled_LateIsFree(due) == IF now >= due THEN due - Per ELSE due

(* next_due after a round: on schedule, or now when the round is late by   *)
(* more than 50 ms.                                                        *)
Rescheduled(due) == IF now - due > Slack THEN now ELSE due

Pace ==
  /\ pc = "pace"
  /\ next_due' = Rescheduled(next_due + Per)
  /\ pc' = IF next_due + Per > now THEN "sleep" ELSE "top"
  /\ UNCHANGED <<args, now, stop, sym, seq, sent, starts>>

(* sleep(next_due - now) lasts at least that long, signals or not.         *)
Wake ==
  /\ pc = "sleep" /\ now >= next_due
  /\ pc' = "top"
  /\ UNCHANGED <<args, now, stop, sym, next_due, seq, sent, starts>>

-----------------------------------------------------------------------------
TimePasses ==
  /\ now < MaxTime + Per
  /\ now' = now + 1
  /\ UNCHANGED <<args, stop, pc, sym, next_due, seq, sent, starts>>

CtrlC ==
  /\ ~stop /\ stop' = TRUE
  /\ UNCHANGED <<args, now, pc, sym, next_due, seq, sent, starts>>

Main == Round \/ Break \/ Send \/ Pace \/ Wake

Next == Main \/ TimePasses \/ CtrlC

(* The process is scheduled and the clock runs.                            *)
Spec == Init /\ [][Next]_vars /\ WF_vars(Main) /\ WF_vars(TimePasses)

-----------------------------------------------------------------------------
TypeOK ==
  /\ count \in Counts /\ deadline \in Deadlines
  /\ now \in Nat /\ stop \in BOOLEAN
  /\ pc \in {"top", "send", "pace", "sleep", "stopped", "returned"} /\ sym \in Syms
  /\ next_due \in Nat /\ seq \in Nat
  /\ sent \in [Syms -> Nat] /\ starts \in Seq(Nat)

(***************************************************************************)
(* "Ticks per second per symbol" (main.rs:28) as an upper bound on the     *)
(* whole run: no round starts before its place in a schedule of one round  *)
(* per period, although a late loop hurries and reschedules.               *)
(***************************************************************************)
NeverAhead == \A i \in DOMAIN starts : starts[i] >= (i - 1) * Per

(***************************************************************************)
(* "Resync so we don't try to catch up forever" (main.rs:195): however     *)
(* long a stall, the burst after it is bounded.  Between any two rounds    *)
(* the loop starts no more rounds than the time between them allows, one   *)
(* and 50 ms worth of periods.                                             *)
(***************************************************************************)
BurstBounded ==
  \A i, j \in DOMAIN starts :
     i < j => ((j - i) - 1) * Per <= (starts[j] - starts[i]) + Slack

(***************************************************************************)
(* "Total ticks to publish before exiting" (main.rs:30), in the middle of  *)
(* a round too: a run that --count ends has numbered exactly that many     *)
(* ticks, and no run favours a symbol by more than a tick.                 *)
(***************************************************************************)
CountIsExact ==
  /\ pc = "returned" => seq = count
  /\ count > 0 => seq <= count
  /\ \A s, t \in Syms : s < t => sent[s] - sent[t] \in {0, 1}

(***************************************************************************)
(* "Run for N seconds then exit" (main.rs:49) and ctrl-c: both end the     *)
(* loop, on schedule or behind it.                                         *)
(***************************************************************************)
ExchangeExits ==
  (stop \/ (deadline > 0 /\ now >= deadline)) ~> pc \in {"stopped", "returned"}
=============================================================================
