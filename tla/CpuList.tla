------------------------------- MODULE CpuList -------------------------------
(***************************************************************************)
(* CPU lists (crates/shmbus/src/cpu.rs): parse_cpu_list turns the text of  *)
(* an option or of a file in /sys into a vector of CPUs, by which a binary *)
(* goes round pinning its noise threads (noise.rs:29-49); format_cpu_list  *)
(* turns the vector into the text of the report, and whoever repeats the   *)
(* run gives that text to a binary again.                                  *)
(*                                                                         *)
(* A text is the sequence of its parts between commas, each as the numbers *)
(* that str::parse finds in it: <<>> for a blank one, <<n>>, <<lo, hi>>    *)
(* for "lo-hi", and Garbage for what is no number.                         *)
(***************************************************************************)
EXTENDS Integers, Sequences, FiniteSets

CONSTANTS Texts      \* the texts given

Garbage == <<-1>>

Part == {<<>>, Garbage} \cup {p \in Seq(Nat) : Len(p) \in {1, 2}}

ASSUME TextsAssumption == Texts \subseteq Seq(Part)

VARIABLES
  caller,    \* "arg": an option of a binary; "sys": read_cpu_info
  given,     \* the text the caller started from
  pc,        \* "parse", "format", "again" (the text it wrote is parsed), or an end
  text, k,   \* the text being parsed, and the next part
  out,       \* parse: the vector so far
  cpus,      \* the vector the caller keeps
  sorted,    \* format: the vector, sorted, without duplicates
  i, j,      \* format: the first and the last CPU of the current run
  written    \* format: the text so far

vars == <<caller, given, pc, text, k, out, cpus, sorted, i, j, written>>

Init ==
  /\ caller \in {"arg", "sys"} /\ given \in Texts
  /\ pc = "parse" /\ text = given /\ k = 1 /\ out = <<>>
  /\ cpus = <<>> /\ sorted = <<>> /\ i = 1 /\ j = 1 /\ written = <<>>

-----------------------------------------------------------------------------
(* parse_cpu_list.                                                         *)

(* lo ..= hi.                                                              *)
Span(lo, hi) == [n \in 1 .. (hi - lo) + 1 |-> (lo + n) - 1]

(* Not the code: hi is left out.                                           *)
Expand_HalfOpen(p) == IF Len(p) = 1 THEN p ELSE Span(p[1], p[2] - 1)

Invalid(p) == p = Garbage \/ (Len(p) = 2 /\ p[2] < p[1])
Expand(p) == IF Len(p) = 1 THEN p ELSE Span(p[1], p[2])

ParsePart ==
  /\ pc \in {"parse", "again"} /\ k <= Len(text) /\ ~Invalid(text[k])
  /\ out' = IF text[k] = <<>> THEN out ELSE out \o Expand(text[k])
  /\ k' = k + 1
  /\ UNCHANGED <<caller, given, pc, text, cpus, sorted, i, j, written>>

(* Not the code: an option that cannot be parsed is an empty list.         *)
OnError_Default == "format"

(* An error ends main; read_cpu_info goes on with the default, no CPUs.    *)
OnError == IF caller = "sys" /\ pc = "parse" THEN "format" ELSE "refused"

ParseError ==
  /\ pc \in {"parse", "again"} /\ k <= Len(text) /\ Invalid(text[k])
  /\ pc' = OnError
  /\ out' = <<>>
  /\ UNCHANGED <<caller, given, text, k, cpus, sorted, i, j, written>>

-----------------------------------------------------------------------------
(* format_cpu_list.                                                        *)

Elems(q) == {q[n] : n \in DOMAIN q}

(* sort_unstable and dedup.                                                *)
SortDedup(q) ==
  CHOOSE s \in [1 .. Cardinality(Elems(q)) -> Elems(q)] :
     \A a, b \in DOMAIN s : a < b => s[a] < s[b]

ParseEnd ==
  /\ pc = "parse" /\ k > Len(text)
  /\ pc' = "format"
  /\ UNCHANGED <<caller, given, text, k, out, cpus, sorted, i, j, written>>

FormatBegin ==
  /\ pc = "format"
  /\ cpus' = out
  /\ sorted' = SortDedup(out) /\ i' = 1 /\ j' = 1 /\ written' = <<>>
  /\ pc' = "runs"
  /\ UNCHANGED <<caller, given, text, k, out>>

Adjacent(a, b) == b = a + 1

(* The inner loop: the run goes on.                                        *)
ExtendRun ==
  /\ pc = "runs" /\ j < Len(sorted) /\ Adjacent(sorted[j], sorted[j + 1])
  /\ j' = j + 1
  /\ UNCHANGED <<caller, given, pc, text, k, out, cpus, sorted, i, written>>

RunText == IF i = j THEN <<sorted[i]>> ELSE <<sorted[i], sorted[j]>>

WriteRun ==
  /\ pc = "runs" /\ i <= Len(sorted)
  /\ ~(j < Len(sorted) /\ Adjacent(sorted[j], sorted[j + 1]))
  /\ written' = Append(written, RunText)
  /\ i' = j + 1 /\ j' = j + 1
  /\ UNCHANGED <<caller, given, pc, text, k, out, cpus, sorted>>

(* The text is complete, and is parsed by the run that repeats this one.   *)
FormatEnd ==
  /\ pc = "runs" /\ i > Len(sorted)
  /\ pc' = "again" /\ text' = written /\ k' = 1 /\ out' = <<>>
  /\ UNCHANGED <<caller, given, cpus, sorted, i, j, written>>

AgainEnd ==
  /\ pc = "again" /\ k > Len(text)
  /\ pc' = "done"
  /\ UNCHANGED <<caller, given, text, k, out, cpus, sorted, i, j, written>>

Next == \/ ParsePart \/ ParseError \/ ParseEnd
        \/ FormatBegin \/ ExtendRun \/ WriteRun \/ FormatEnd \/ AgainEnd

Spec == Init /\ [][Next]_vars

-----------------------------------------------------------------------------
(* What a text means: the CPUs it names.                                   *)
Names(p) == IF Len(p) = 1 THEN {p[1]} ELSE IF Len(p) = 2 THEN p[1] .. p[2] ELSE {}
Denoted(t) == UNION {Names(t[n]) : n \in DOMAIN t}
Wrong(t) == \E n \in DOMAIN t : t[n] = Garbage \/ (Len(t[n]) = 2 /\ t[n][2] < t[n][1])

(* Ascending runs, no two of which could be one.                           *)
Canonical(t) ==
  \A n \in DOMAIN t :
     /\ Len(t[n]) = 2 => t[n][1] < t[n][2]
     /\ n > 1 => t[n - 1][Len(t[n - 1])] + 1 < t[n][1]

Ascending(q) == \A a, b \in DOMAIN q : a < b => q[a] < q[b]

(***************************************************************************)
(* The text of the report names exactly the CPUs the run was given, in the *)
(* "Linux range syntax" (cpu.rs:64) that the kernel would write, and every *)
(* CPU of it is parsed again.  Of a list that is ascending, without        *)
(* duplicates, the vector is the same, and so is the CPU of every noise    *)
(* thread; of any other list the order and the duplicates are lost, and    *)
(* with them which thread goes where.                                      *)
(***************************************************************************)
ReportNamesTheCpus ==
  /\ Canonical(written)
  /\ pc \in {"again", "done"} =>
       Denoted(written) = IF Wrong(given) THEN {} ELSE Denoted(given)
  /\ pc = "done" => Elems(out) = Elems(cpus) /\ (Ascending(cpus) => out = cpus)

(***************************************************************************)
(* A list is refused exactly when a part of it is wrong, and nothing that  *)
(* format_cpu_list wrote is refused; "Anything we can't read degrades to   *)
(* an empty string / empty vec" (cpu.rs:6) only where no user gave it.     *)
(***************************************************************************)
RefusedIfWrong ==
  /\ pc = "refused" => caller = "arg" /\ Wrong(given)
  /\ pc \in {"format", "runs", "again", "done"} /\ Wrong(given) => caller = "sys"
=============================================================================
