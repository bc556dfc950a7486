-------------------------------- MODULE Bench --------------------------------
(***************************************************************************)
(* scripts/run-bench.sh: it prepares the host (host-prep.sh, module        *)
(* HostPrep, and cache-alloc.sh), runs the pipeline in two scenarios, and  *)
(* restores the host in a trap, under ctrl-c and SIGTERM at any command.   *)
(* The threads of the three binaries place themselves on CPUs and in       *)
(* resctrl groups meanwhile (main of each binary, noise.rs, resctrl.rs).   *)
(*                                                                         *)
(* Bash delivers a trapped signal after the foreground command, runs the   *)
(* handler, and goes on with the script.  Ctrl-c also reaches the          *)
(* foreground command, whose failure then ends the script (set -e), unless *)
(* it stands before an "||".  No signal comes while a handler runs.        *)
(* Neither ISO_CPUS nor SHARED_CPUS is given.  A command may fail, and so  *)
(* may a thread's placing itself; that the kernel takes an old value back  *)
(* is HostPrep's assumption.                                               *)
(***************************************************************************)
EXTENDS CacheAlloc, FiniteSets

CONSTANTS
  Hosts,       \* [online : CPUs, siblings : those SMT off takes away,
               \*  isolated : what /sys reports, ways : of the L3]
  MinBits,     \* min_cbm_bits
  HotPct,      \* HOT_WAYS_PCT
  Workers, NoiseThreads,
  Timeout,     \* SECS + 5
  MaxSignals   \* bound on the signals the script receives

ASSUME BenchAssumption ==
  /\ Hosts \subseteq [online : SUBSET Nat, siblings : SUBSET Nat, isolated : SUBSET Nat,
                       ways : Nat \ {0}]
  /\ \A h \in Hosts : IsFiniteSet(h.online) /\ IsFiniteSet(h.isolated)
  /\ MinBits \in Nat \ {0} /\ HotPct \in 0 .. 100
  /\ Workers \in Nat /\ NoiseThreads \in Nat
  /\ Timeout \in Nat /\ MaxSignals \in Nat

Mains == {<<"exchange", 0>>, <<"feedhandler", 0>>, <<"engine", 0>>}
WorkerThreads == {"worker"} \X (0 .. Workers - 1)
Noises == {"noise"} \X (0 .. NoiseThreads - 1)
Threads == Mains \cup WorkerThreads \cup Noises
Engine == <<"engine", 0>>
EngineThreads == {Engine} \cup WorkerThreads \cup Noises
HotThreads == Threads \ Noises

Groups == {"hot", "noise"}
Absent == {}
AnyCpu == -1

VARIABLES
  hst,        \* the host
  prod,       \* PROD=1
  tuning,     \* its settings: "orig", "partly", "tuned", or "reverted": as
              \* they were but for the menus (HostPrep!RevertRestores)
  online,     \* the CPUs that are online, which the first setting, SMT, decides
  groups,     \* groups[g]: the mask of resctrl group g; Absent: no directory
  pc, back,   \* where the script is, and where it goes on after a handler
  prepped,    \* PROD_PREPPED
  listed,     \* ONLINE_DEFAULT: what was online when the CPUs were chosen
  scenario,   \* "iso" or "noisy"
  flags,      \* the groups named on the command lines of the scenario
  elapsed,
  signals,    \* how many came
  thr,        \* thr[t]: state, CPU and group of a thread, and the failures it logged
  \* history
  complete,   \* cache-alloc --setup ran to its end
  cut,        \* host-prep --apply did not: it failed or ctrl-c came
  failed,     \* the commands of the handler that failed when they last ran
  torn        \* a handler ran before the script was over

host == <<hst, prod, tuning, online>>
script == <<prepped, listed, scenario, flags, elapsed>>
history == <<complete, cut, failed, torn>>
vars == <<host, groups, pc, back, script, signals, thr, history>>

Idle(st) == [st |-> st, cpu |-> AnyCpu, group |-> "default", logged |-> {}]
Off == Idle("off")
Gone == Idle("gone")
Full == 0 .. hst.ways - 1

(* An interrupted run may have left groups with the default schemata.      *)
Init ==
  /\ hst \in Hosts
  /\ prod \in BOOLEAN
  /\ tuning = "orig" /\ online = hst.online
  /\ \/ groups = [g \in Groups |-> Absent]
     \/ groups = [g \in Groups |-> Full]
  /\ pc = IF prod THEN "apply" ELSE "prelude"
  /\ back = "ended"
  /\ prepped = FALSE /\ listed = {} /\ scenario = "iso" /\ flags = {} /\ elapsed = 0
  /\ signals = 0
  /\ thr = [t \in Threads |-> Off]
  /\ complete = FALSE /\ cut = FALSE /\ failed = {} /\ torn = FALSE

-----------------------------------------------------------------------------
(* prod_setup.                                                             *)

(* host-prep --apply ran to its end: every setting the kernel takes is     *)
(* set, which SMT off need not be.                                         *)
Apply ==
  /\ pc = "apply" /\ pc' = "mkdir_hot"
  /\ tuning' = "tuned"
  /\ online' \in {online, online \ hst.siblings}
  /\ UNCHANGED <<hst, prod, groups, back, script, signals, thr, history>>

(* It ended before, with some of the settings written.                     *)
ApplyCut ==
  /\ tuning' \in {"orig", "partly", "tuned"}
  /\ online' \in IF tuning' = "orig" THEN {online} ELSE {online, online \ hst.siblings}
  /\ cut' = TRUE

(* set -e: the script ends with PROD_PREPPED unset.                        *)
ApplyFails ==
  /\ pc = "apply" /\ pc' = "exit"
  /\ ApplyCut
  /\ UNCHANGED <<hst, prod, groups, back, script, signals, thr, complete, failed, torn>>

SetupSteps == {"mkdir_hot", "mkdir_noise", "write_hot", "write_noise"}

(* mkdir, unless the directory is there: a new group has every way.        *)
MakeGroup(g, at, to) ==
  /\ pc = at /\ pc' = to
  /\ groups' = [groups EXCEPT ![g] = IF @ = Absent THEN Full ELSE @]
  /\ UNCHANGED <<host, back, script, signals, thr, history>>

(* The kernel takes a mask of at least min_cbm_bits ways.                  *)
WriteSchemata(g, mask, at) ==
  /\ pc = at
  /\ Cardinality(mask) >= MinBits
  /\ groups' = [groups EXCEPT ![g] = mask]
  /\ UNCHANGED <<host, back, listed, scenario, flags, elapsed, signals, thr, cut, failed, torn>>

WriteHot ==
  /\ WriteSchemata("hot", HotMask(hst.ways, MinBits, HotPct), "write_hot")
  /\ pc' = "write_noise"
  /\ UNCHANGED <<prepped, complete>>

WriteNoise ==
  /\ WriteSchemata("noise", NoiseMask(hst.ways, MinBits, HotPct), "write_noise")
  /\ pc' = "prelude" /\ prepped' = TRUE /\ complete' = TRUE

(* Not the code: a host without CAT is not counted as prepared.            *)
PreppedAnyway_Not == prepped

PreppedAnyway == TRUE

(* cache-alloc fails at any of its commands: "continuing without CAT".     *)
SetupFails ==
  /\ pc \in SetupSteps
  /\ pc' = "prelude" /\ prepped' = PreppedAnyway
  /\ UNCHANGED <<host, groups, back, listed, scenario, flags, elapsed, signals, thr, history>>

-----------------------------------------------------------------------------
(* The CPUs of each scenario.                                              *)

Below(S, c) == Cardinality({d \in S : d < c})

(* /sys/devices/system/cpu/isolated may name CPUs that are offline; without *)
(* it, the upper half of those online.                                     *)
IsoCpus ==
  IF hst.isolated # {} THEN hst.isolated
  ELSE IF Cardinality(listed) < 4 THEN listed
  ELSE {c \in listed : Below(listed, c) >= Cardinality(listed) \div 2}

SharedCpus == listed \ IsoCpus

(* Element i of a list of CPUs in ascending order, from 0, wrapping.       *)
Nth(S, i) == CHOOSE c \in S : Below(S, c) = i % Cardinality(S)

List == IF scenario = "iso" THEN IsoCpus ELSE SharedCpus

(* Not the code: the workers start at the engine's CPU.                    *)
FirstWorker_Shared == 2

FirstWorker == 3

(* pick_pinning, and the round robin over --worker-cpus and --noise-cpus.  *)
PinOf(t) ==
  CASE t[1] = "exchange" -> Nth(List, 0)
    [] t[1] = "feedhandler" -> Nth(List, 1)
    [] t[1] = "engine" -> Nth(List, 2)
    [] t[1] = "worker" -> Nth(List, FirstWorker + t[2])
    [] t[1] = "noise" -> Nth(SharedCpus, t[2])

(* No CPU is left to share, or the build fails: exit.                      *)
Prelude ==
  /\ pc = "prelude"
  /\ listed' = online
  /\ UNCHANGED <<host, groups, back, prepped, scenario, flags, elapsed, signals, thr, history>>
  /\ pc' \in IF SharedCpus' = {} THEN {"exit"} ELSE {"exit", "scenario"}

-----------------------------------------------------------------------------
(* run_scenario.                                                           *)

(* Not the code: only the engine's noise threads are given a group.        *)
GroupFlags_NoiseOnly ==
  IF ~prepped \/ groups["noise"] = Absent \/ scenario = "iso" THEN {} ELSE {"noise"}

(* The directories found decide on the command lines.                      *)
GroupFlags ==
  IF ~prepped \/ groups["hot"] = Absent THEN {}
  ELSE {g \in Groups : g = "noise" => scenario = "noisy" /\ groups[g] # Absent}

StartScenario ==
  /\ pc = "scenario"
  /\ flags' = GroupFlags
  /\ elapsed' = 0 /\ pc' = "feedhandler"
  /\ UNCHANGED <<host, groups, back, prepped, listed, scenario, signals, thr, history>>

After == [feedhandler |-> "engine", engine |-> "exchange", exchange |-> "wait"]

Launch ==
  /\ pc \in DOMAIN After
  /\ thr' = [thr EXCEPT ![<<pc, 0>>].st = "starting"]
  /\ pc' = After[pc]
  /\ UNCHANGED <<host, groups, back, script, signals, history>>

Alive(t) == thr[t].st \notin {"off", "gone"}
Awaited == \E t \in Mains \ {<<"exchange", 0>>} : Alive(t)

(* Not the code: no bound on the iterations.                               *)
TimedOut_Never == FALSE

TimedOut == elapsed = Timeout

WaitTick ==
  /\ pc = "wait" /\ Awaited
  /\ elapsed < Timeout /\ elapsed' = elapsed + 1
  /\ UNCHANGED <<host, groups, pc, back, prepped, listed, scenario, flags, signals, thr, history>>

(* kill and wait: no binary handles SIGTERM.  After the second scenario    *)
(* the comparison is printed.                                              *)
WaitOver ==
  /\ pc = "wait" /\ (~Awaited \/ TimedOut)
  /\ thr' = [t \in Threads |-> Off]
  /\ IF scenario = "iso" THEN scenario' = "noisy" /\ pc' = "scenario"
                         ELSE pc' = "exit" /\ UNCHANGED scenario
  /\ UNCHANGED <<host, groups, back, prepped, listed, flags, elapsed, signals, history>>

-----------------------------------------------------------------------------
(* The handler, which is also what EXIT runs.                              *)

Exit ==
  /\ pc = "exit"
  /\ pc' = IF prepped THEN "clean_hot" ELSE "ended"
  /\ back' = "ended"
  /\ UNCHANGED <<host, groups, script, signals, thr, history>>

(* rmdir of a group: the kernel puts its threads into the default group.   *)
RemoveGroup(g, at, to) ==
  /\ pc = at /\ pc' = to
  /\ groups' = [groups EXCEPT ![g] = Absent]
  /\ thr' = [t \in Threads |->
               IF thr[t].group = g THEN [thr[t] EXCEPT !.group = "default"] ELSE thr[t]]
  /\ failed' = IF to = "revert" THEN failed \ {"clean"} ELSE failed
  /\ UNCHANGED <<host, back, script, signals, complete, cut, torn>>

(* cache-alloc --clean fails (set -e) before it removed the first group or *)
(* the second; the handler goes on ("|| true").                            *)
CleanFails ==
  /\ pc \in {"clean_hot", "clean_noise"} /\ pc' = "revert"
  /\ failed' = failed \cup {"clean"}
  /\ UNCHANGED <<host, groups, back, script, signals, thr, complete, cut, torn>>

Revert ==
  /\ pc = "revert" /\ pc' = back
  /\ tuning' = "reverted" /\ online' = hst.online
  /\ failed' = failed \ {"revert"}
  /\ UNCHANGED <<hst, prod, groups, back, script, signals, thr, complete, cut, torn>>

(* host-prep --revert fails at any of its commands; "|| true" again.       *)
RevertFails ==
  /\ pc = "revert" /\ pc' = back
  /\ \/ tuning' = "reverted" /\ online' = hst.online
     \/ /\ tuning # "reverted" /\ tuning' \in {tuning, "partly"}
        /\ online' \in {online, hst.online}
  /\ failed' = failed \cup {"revert"}
  /\ UNCHANGED <<hst, prod, groups, back, script, signals, thr, complete, cut, torn>>

InHandler == pc \in {"clean_hot", "clean_noise", "revert", "exit", "ended"}

(* Ctrl-c.                                                                 *)
CtrlC ==
  /\ ~InHandler /\ signals < MaxSignals /\ signals' = signals + 1
  /\ IF pc = "apply" THEN ApplyCut ELSE UNCHANGED <<tuning, online, cut>>
  /\ IF pc \in SetupSteps
     THEN pc' = "prelude" /\ prepped' = TRUE /\ UNCHANGED back
     ELSE /\ pc' = IF prepped THEN "clean_hot" ELSE "exit"
          /\ back' = "exit"
          /\ UNCHANGED prepped
  /\ UNCHANGED <<hst, prod, groups, listed, scenario, flags, elapsed, thr, complete, failed, torn>>

(* SIGTERM to the script alone: its handler does not exit.  Before         *)
(* PROD_PREPPED is set it does nothing at all.                             *)
Sigterm ==
  /\ ~InHandler /\ prepped /\ signals < MaxSignals
  /\ signals' = signals + 1
  /\ back' = pc /\ pc' = "clean_hot" /\ torn' = TRUE
  /\ UNCHANGED <<host, groups, script, thr, complete, cut, failed>>

-----------------------------------------------------------------------------
(* The binaries.                                                           *)

(* The group a thread is told to join, if any.                             *)
ToldGroup(t) == IF t \in Noises THEN flags \cap {"noise"} ELSE flags \cap {"hot"}

(* join_group: the group a thread is in after it.  A group that is gone is *)
(* not joined.                                                             *)
Missing(t) == \E g \in ToldGroup(t) : groups[g] = Absent
Joined(t) == IF ToldGroup(t) = {} \/ Missing(t) THEN thr[t].group
             ELSE CHOOSE g \in ToldGroup(t) : TRUE

(* pin_to_cpu, which only a CPU that is online can grant, and join_group.  *)
PlaceMain(t) ==
  /\ t \in Mains /\ thr[t].st = "starting"
  /\ PinOf(t) \in online /\ ~Missing(t)
  /\ thr' = [thr EXCEPT ![t] = [st |-> IF t = Engine THEN "placed" ELSE "up",
                               cpu |-> PinOf(t), group |-> Joined(t), logged |-> {}]]
  /\ UNCHANGED <<host, groups, pc, back, script, signals, history>>

(* The failure of either ends the process.                                 *)
MainFails(t) ==
  /\ t \in Mains /\ thr[t].st = "starting"
  /\ thr' = [thr EXCEPT ![t] = Gone]
  /\ UNCHANGED <<host, groups, pc, back, script, signals, history>>

(* The same in noise_worker and worker_main, which log a failure and go on *)
(* with what they inherited.  A missing group is no failure.               *)
PlaceSpawned(t, errors) ==
  /\ t \notin Mains /\ thr[t].st = "starting"
  /\ PinOf(t) \in online \/ "pin" \in errors
  /\ "join" \in errors => ToldGroup(t) # {} /\ ~Missing(t)
  /\ thr' = [thr EXCEPT ![t] =
                [st |-> "up",
                 cpu |-> IF "pin" \in errors THEN thr[t].cpu ELSE PinOf(t),
                 group |-> IF "join" \in errors THEN thr[t].group ELSE Joined(t),
                 logged |-> errors]]
  /\ UNCHANGED <<host, groups, pc, back, script, signals, history>>

(* A new thread starts on the CPU and in the group of its creator.         *)
Spawn(new, from, to) ==
  /\ thr[Engine].st = from
  /\ thr' = [t \in Threads |->
               IF t = Engine THEN [thr[t] EXCEPT !.st = to]
               ELSE IF t \in new THEN [thr[Engine] EXCEPT !.st = "starting"]
               ELSE thr[t]]
  /\ UNCHANGED <<host, groups, pc, back, script, signals, history>>

SpawnNoise == Spawn(IF scenario = "noisy" THEN Noises ELSE {}, "placed", "noisy")
SpawnWorkers == Spawn(WorkerThreads, "noisy", "up")

(* A process ends by itself; the engine waits for its threads.             *)
Finish(p) ==
  /\ thr[p].st = "up"
  /\ p = Engine => \A t \in EngineThreads : thr[t].st # "starting"
  /\ thr' = [t \in Threads |->
               IF t = p \/ (p = Engine /\ t \in EngineThreads)
               THEN Gone ELSE thr[t]]
  /\ UNCHANGED <<host, groups, pc, back, script, signals, history>>

-----------------------------------------------------------------------------
Script ==
  \/ Apply \/ ApplyFails
  \/ MakeGroup("hot", "mkdir_hot", "mkdir_noise") \/ MakeGroup("noise", "mkdir_noise", "write_hot")
  \/ WriteHot \/ WriteNoise \/ SetupFails
  \/ Prelude \/ StartScenario \/ Launch \/ WaitTick \/ WaitOver
  \/ Exit \/ CleanFails \/ Revert \/ RevertFails
  \/ RemoveGroup("hot", "clean_hot", "clean_noise") \/ RemoveGroup("noise", "clean_noise", "revert")

Binaries == \/ \E t \in Threads : \/ PlaceMain(t) \/ MainFails(t)
                                  \/ \E errors \in SUBSET {"pin", "join"} : PlaceSpawned(t, errors)
            \/ SpawnNoise \/ SpawnWorkers
            \/ \E p \in Mains : Finish(p)

Next == Script \/ Binaries \/ CtrlC \/ Sigterm

(* The script is scheduled.  A binary may hang (see Engine!Clogged),       *)
(* and no signal is owed.                                                  *)
Spec == Init /\ [][Next]_vars /\ WF_vars(Script)

-----------------------------------------------------------------------------
HostOK ==
  /\ hst \in Hosts /\ prod \in BOOLEAN /\ tuning \in {"orig", "partly", "tuned", "reverted"}
  /\ online \subseteq hst.online
  /\ groups \in [Groups -> SUBSET Full]

ScriptOK ==
  /\ prepped \in BOOLEAN /\ listed \subseteq hst.online
  /\ scenario \in {"iso", "noisy"} /\ flags \subseteq Groups
  /\ elapsed \in 0 .. Timeout /\ signals \in 0 .. MaxSignals
  /\ complete \in BOOLEAN /\ cut \in BOOLEAN /\ torn \in BOOLEAN
  /\ failed \subseteq {"clean", "revert"}

ThreadsOK ==
  thr \in [Threads -> [st : {"off", "starting", "placed", "noisy", "up", "gone"},
                       cpu : hst.online \cup {AnyCpu}, group : Groups \cup {"default"},
                       logged : SUBSET {"pin", "join"}]]

TypeOK == HostOK /\ ScriptOK /\ ThreadsOK

(***************************************************************************)
(* "Restores prior tuning at the end via host-prep --revert"               *)
(* (run-bench.sh:22): however the script ends, the settings are reverted   *)
(* (menus apart, as in HostPrep) with every CPU back online, unless the    *)
(* last --revert failed, and no group is left, unless the last --clean     *)
(* did: neither failure costs the other command.  The exception is a       *)
(* script cut short in host-prep --apply, before PROD_PREPPED is set.      *)
(***************************************************************************)
HostRestored ==
  pc = "ended" /\ prod /\ ~cut =>
     /\ "revert" \notin failed => tuning = "reverted" /\ online = hst.online
     /\ "clean" \notin failed => \A g \in Groups : groups[g] = Absent

(***************************************************************************)
(* A scenario is measured on the host that was prepared for it: until a    *)
(* handler tore it down, the settings are tuned while a thread runs and,   *)
(* if the groups were set up, every hot thread is in the hot group, the    *)
(* workers that are spawned late included.                                 *)
(***************************************************************************)
MeasuredAsPrepared ==
  prepped /\ ~torn /\ ~InHandler =>
     \A t \in HotThreads : thr[t].st = "up" =>
        tuning = "tuned" /\ (complete => thr[t].group = "hot")

(* The ways the threads of a group may use.                                *)
WaysOf(g) == IF g = "default" THEN Full ELSE groups[g]

(***************************************************************************)
(* "So its accesses get the noise CBM, not the hot-path one" (noise.rs:    *)
(* 27-28), "exclusive top L3 ways" (cache-alloc.sh:6): on groups that are  *)
(* completely set up a noise thread, though it starts in the hot group,    *)
(* shares no way with a hot thread once it is placed, unless it logged     *)
(* that it could not join its group.                                       *)
(***************************************************************************)
NoiseConfined ==
  complete /\ (\A g \in Groups : groups[g] # Absent) =>
     \A t \in Noises, u \in HotThreads :
        thr[t].st = "up" /\ thr[u].st = "up" /\ "join" \notin thr[t].logged =>
           WaysOf(thr[t].group) \cap WaysOf(thr[u].group) = {}

(***************************************************************************)
(* pick_pinning with run_with_workers: on a list with a CPU for each, of   *)
(* which some may be offline, no two threads of the hot path run on the    *)
(* same CPU, but for workers that logged that they could not be pinned:    *)
(* these stay on the engine's, and crowd nobody else.                      *)
(***************************************************************************)
HotThreadsApart ==
  Cardinality(List) >= 3 + Workers =>
     \A t, u \in HotThreads :
        t # u /\ thr[t].st = "up" /\ thr[u].st = "up" /\ thr[t].cpu = thr[u].cpu =>
           \A w \in {t, u} : w = Engine \/ "pin" \in thr[w].logged

(***************************************************************************)
(* "Bound the wait: scenario length + a small drain margin" (run-bench.sh: *)
(* 277): the script ends, also when the engine or the feedhandler hangs.   *)
(***************************************************************************)
BenchEnds == <>(pc = "ended")
=============================================================================
