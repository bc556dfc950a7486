---------------------------- MODULE BenchProofs ----------------------------
(***************************************************************************)
(* For every host, number of workers and noise threads, share of the cache *)
(* and number of signals: the script leaves the host as it found it, what  *)
(* it measures runs as prepared, noise shares no way of the cache with the *)
(* hot path, and the threads of the hot path share no CPU, as far as the   *)
(* commands and the threads themselves do not report a failure.            *)
(*                                                                         *)
(* And of host-prep.sh, the script's first and last step (HostPrep): for   *)
(* every list of settings, their values and targets, and any sequence of   *)
(* --apply and --revert runs, killed anywhere, snapshots hold the original *)
(* values and a revert restores them, as long as the kernel refuses no     *)
(* write but that of a setting no run has changed yet.                     *)
(***************************************************************************)
EXTENDS Bench, HostPrep, FiniteSetTheorems, TLAPS

HM == HotMask(hst.ways, MinBits, HotPct)
NM == NoiseMask(hst.ways, MinBits, HotPct)
Both == groups["hot"] # Absent /\ groups["noise"] # Absent

Setup == {"apply"} \cup SetupSteps
Points == {"prelude", "scenario", "feedhandler", "engine", "exchange", "wait", "exit", "ended"}
Handler == {"clean_hot", "clean_noise", "revert"}

(* Where the script is, or goes on after its handler.                      *)
At == IF pc \in Handler THEN back ELSE pc

(* PROD_PREPPED is set when the host may have been prepared, and what a    *)
(* handler does depends on it.                                             *)
ControlInv ==
  /\ pc \in Setup \cup Points \cup Handler /\ back \in Points
  /\ ~torn => back \in {"exit", "ended"}
  /\ pc \in Setup => ~prepped
  /\ complete \/ torn \/ pc \in Handler => prepped
  /\ prod /\ ~cut /\ pc \notin Setup => prepped

(* What the host is like on the way there and back.                        *)
TuningInv ==
  /\ pc \in SetupSteps => tuning = "tuned"
  /\ prepped /\ ~torn /\ ~InHandler => tuning = "tuned"

RestoreInv ==
  /\ pc = "clean_noise" => groups["hot"] = Absent
  /\ pc = "revert" => "clean" \in failed \/ \A g \in Groups : groups[g] = Absent
  /\ HostRestored

(* The groups, once set up, have their masks until they are removed.       *)
GroupInv ==
  /\ pc = "write_noise" => groups["hot"] = HM /\ HM # {}
  /\ complete => groups["hot"] \in {Absent, HM} /\ groups["noise"] \in {Absent, NM}
  /\ complete /\ ~torn /\ ~InHandler => Both

(* No thread runs outside a scenario, and noise only in the second.        *)
QuietInv ==
  /\ At \in Setup \cup {"prelude", "scenario", "feedhandler"} => \A t \in Threads : thr[t].st = "off"
  /\ \A t \in Noises : Alive(t) => scenario = "noisy"

(* A thread that placed itself has the CPU of its place in the list; one   *)
(* that the engine spawned has the engine's until then, and for good if it *)
(* logged a failure.                                                       *)
Placed == {"placed", "noisy", "up"}
OnEngine(t) == t \notin Mains /\ thr[t].cpu = PinOf(Engine)
PinInv ==
  \A t \in Threads :
     /\ thr[t].st \in Placed =>
          thr[t].cpu = PinOf(t) \/ ("pin" \in thr[t].logged /\ OnEngine(t))
     /\ thr[t].st = "starting" /\ t \notin Mains => OnEngine(t)

(* A thread is in the group it was told to join, or in the engine's, which *)
(* for a worker is the same, while the groups are there.                   *)
JoinInv ==
  complete /\ Both =>
    /\ At \in {"feedhandler", "engine", "exchange", "wait"} \/ (\E t \in Threads : thr[t].st # "off")
       => "hot" \in flags /\ (scenario = "noisy" => "noise" \in flags)
    /\ \A t \in HotThreads :
          thr[t].st \in Placed \/ (thr[t].st = "starting" /\ t \notin Mains) => thr[t].group = "hot"
    /\ \A t \in Noises :
          thr[t].st \in Placed /\ "join" \notin thr[t].logged => thr[t].group = "noise"

-----------------------------------------------------------------------------
(* The ways of the cache.                                                  *)

(* What a share of the ways is: a number of them.                          *)
LEMMA HotShareIsNat ==
  ASSUME NEW ways \in Nat, NEW min_bits \in Nat, NEW hot_pct \in Nat
  PROVE  HotShare(ways, min_bits, hot_pct) \in Nat
<1>1. ways * hot_pct \in Nat
  OBVIOUS
<1>2. (ways * hot_pct) \div 100 \in Nat
  BY <1>1
<1> QED BY <1>2 DEF HotShare, AtLeast

(***************************************************************************)
(* "Exclusive top L3 ways" and "bottom L3 ways" (cache-alloc.sh:6-7): for  *)
(* any percentage, on a cache with room for two minimal masks, the masks   *)
(* are disjoint, cover the cache, and both have min_cbm_bits ways.         *)
(***************************************************************************)
THEOREM SplitIsSound ==
  ASSUME NEW ways \in Nat, NEW min_bits \in Nat, NEW hot_pct \in Nat,
         ways >= 2 * min_bits
  PROVE  /\ HotMask(ways, min_bits, hot_pct) \cap NoiseMask(ways, min_bits, hot_pct) = {}
         /\ HotMask(ways, min_bits, hot_pct) \cup NoiseMask(ways, min_bits, hot_pct) = 0 .. ways - 1
         /\ Hot(ways, min_bits, hot_pct) >= min_bits
         /\ Noise(ways, min_bits, hot_pct) >= min_bits
<1> DEFINE share == HotShare(ways, min_bits, hot_pct)
           hot   == Hot(ways, min_bits, hot_pct)
           noise == Noise(ways, min_bits, hot_pct)
<1>1. share \in Nat
  BY HotShareIsNat
<1>2. share >= min_bits
  <2>1. (ways * hot_pct) \div 100 \in Int
    <3>1. ways * hot_pct \in Nat
      OBVIOUS
    <3> QED BY <3>1
  <2> QED BY <2>1 DEF HotShare, AtLeast
<1>3. noise = IF ways - share < min_bits THEN min_bits ELSE ways - share
  BY DEF Noise, AtLeast
<1>4. hot = IF share + noise > ways THEN ways - noise ELSE share
  BY DEF Hot
<1> HIDE DEF share, hot, noise
<1>5. noise \in Nat /\ noise >= min_bits /\ noise <= ways - min_bits
  BY <1>1, <1>2, <1>3
<1>6. hot \in Nat /\ hot >= min_bits /\ hot + noise = ways
  BY <1>1, <1>2, <1>3, <1>4, <1>5
<1>7. /\ (ways - hot .. ways - 1) \cap (0 .. noise - 1) = {}
      /\ (ways - hot .. ways - 1) \cup (0 .. noise - 1) = 0 .. ways - 1
  BY <1>5, <1>6
<1> QED BY <1>5, <1>6, <1>7 DEF HotMask, NoiseMask, hot, noise

(* Also on a cache too narrow for both the masks are disjoint, and a hot   *)
(* mask that is not empty leaves the noise mask inside the cache.          *)
LEMMA MasksApart ==
  ASSUME NEW ways \in Nat, NEW min_bits \in Nat, NEW hot_pct \in Nat
  PROVE  /\ HotMask(ways, min_bits, hot_pct) \cap NoiseMask(ways, min_bits, hot_pct) = {}
         /\ HotMask(ways, min_bits, hot_pct) \subseteq 0 .. ways - 1
         /\ HotMask(ways, min_bits, hot_pct) # {} => NoiseMask(ways, min_bits, hot_pct) \subseteq 0 .. ways - 1
<1> DEFINE share == HotShare(ways, min_bits, hot_pct)
           hot   == Hot(ways, min_bits, hot_pct)
           noise == Noise(ways, min_bits, hot_pct)
<1>1. share \in Nat
  BY HotShareIsNat
<1>2. noise = IF ways - share < min_bits THEN min_bits ELSE ways - share
  BY DEF Noise, AtLeast
<1>3. hot = IF share + noise > ways THEN ways - noise ELSE share
  BY DEF Hot
<1> HIDE DEF share, hot, noise
<1>4. noise \in Nat /\ hot \in Int /\ hot + noise <= ways
  BY <1>1, <1>2, <1>3
<1>5. /\ (ways - hot .. ways - 1) \cap (0 .. noise - 1) = {}
      /\ (ways - hot .. ways - 1) \subseteq 0 .. ways - 1
      /\ (ways - hot .. ways - 1) # {} => 0 .. noise - 1 \subseteq 0 .. ways - 1
  BY <1>4
<1> QED BY <1>5 DEF HotMask, NoiseMask, hot, noise

-----------------------------------------------------------------------------
(* Lists of CPUs.                                                          *)

(* The number of CPUs before c numbers the CPUs of a finite set from 0     *)
(* without a gap, so Nth finds the one it asks for.                        *)
LEMMA NthIsNth ==
  ASSUME NEW S, S \subseteq Nat, IsFiniteSet(S), S # {}, NEW i \in Nat
  PROVE  /\ Nth(S, i) \in S
         /\ Below(S, Nth(S, i)) = i % Cardinality(S)
<1> DEFINE n == Cardinality(S)
           Smaller(c) == {d \in S : d < c}
           f == [c \in S |-> Cardinality(Smaller(c))]
<1>1. n \in Nat /\ n # 0
  BY FS_CardinalityType, FS_EmptySet
<1>2. ASSUME NEW c \in S PROVE IsFiniteSet(Smaller(c)) /\ Cardinality(Smaller(c)) \in 0 .. n - 1
  <2>1. Smaller(c) \in SUBSET S /\ Smaller(c) # S
    BY <1>2
  <2>2. IsFiniteSet(Smaller(c)) /\ Cardinality(Smaller(c)) <= n /\ Cardinality(Smaller(c)) # n
    BY <2>1, FS_Subset
  <2>3. Cardinality(Smaller(c)) \in Nat
    BY <2>2, FS_CardinalityType
  <2> QED BY <1>1, <2>2, <2>3
<1>3. ASSUME NEW c \in S, NEW d \in S, c < d PROVE Cardinality(Smaller(c)) # Cardinality(Smaller(d))
  <2>0. ~(c < c) /\ \A e \in S : e < c => e < d
    <3>1. c \in Nat /\ d \in Nat /\ \A e \in S : e \in Nat
      OBVIOUS
    <3> QED BY <1>3, <3>1
  <2>1. Smaller(c) \in SUBSET Smaller(d) /\ c \in Smaller(d) /\ c \notin Smaller(c)
    BY <1>3, <2>0
  <2>2. Smaller(c) # Smaller(d)
    BY <2>1
  <2> QED BY <1>2, <2>1, <2>2, FS_Subset
<1>4. f \in Injection(S, 0 .. n - 1)
  <2>1. f \in [S -> 0 .. n - 1]
    BY <1>2
  <2>2. \A c, d \in S : c # d => c < d \/ d < c
    OBVIOUS
  <2>3. IsInjective(f)
    BY <1>3, <2>2 DEF IsInjective
  <2> QED BY <2>1, <2>3 DEF Injection
<1>5. IsFiniteSet(0 .. n - 1) /\ Cardinality(0 .. n - 1) = n
  <2>1. 0 \in Int /\ n - 1 \in Int /\ ~(0 > n - 1) /\ (n - 1) - 0 + 1 = n
    BY <1>1
  <2> QED BY <2>1, FS_Interval
<1>6. f \in Surjection(S, 0 .. n - 1)
  BY <1>4, <1>5, FS_Injection
<1>7. i % n \in 0 .. n - 1
  BY <1>1
<1>8. \E c \in S : Cardinality(Smaller(c)) = i % n
  BY <1>6, <1>7 DEF Surjection
<1> QED BY <1>8 DEF Nth, Below

(* Two places of a list that is long enough are two CPUs.                  *)
LEMMA NthApart ==
  ASSUME NEW S, S \subseteq Nat, IsFiniteSet(S), NEW i \in Nat, NEW j \in Nat,
         i < Cardinality(S), j < Cardinality(S), i # j
  PROVE  Nth(S, i) # Nth(S, j)
<1>1. Cardinality(S) \in Nat
  BY FS_CardinalityType
<1>2. S # {}
  BY <1>1, FS_EmptySet
<1>3. i % Cardinality(S) = i /\ j % Cardinality(S) = j
  BY <1>1
<1> QED BY <1>2, <1>3, NthIsNth

(* The lists of the script are finite, also when they name CPUs that are   *)
(* offline.                                                                *)
LEMMA CpuLists ==
  ASSUME hst \in Hosts, listed \subseteq hst.online
  PROVE  List \subseteq Nat /\ IsFiniteSet(List)
<1>1. /\ hst.online \subseteq Nat /\ hst.isolated \subseteq Nat
      /\ IsFiniteSet(hst.online) /\ IsFiniteSet(hst.isolated)
  BY BenchAssumption
<1>2. List \subseteq hst.isolated \/ List \subseteq hst.online
  BY DEF List, IsoCpus, SharedCpus
<1> QED BY <1>1, <1>2, FS_Subset

-----------------------------------------------------------------------------
(* Threads.                                                                *)

(* The three kinds of threads.                                             *)
LEMMA ThreadKinds ==
  /\ Threads = HotThreads \cup Noises /\ HotThreads = Mains \cup WorkerThreads
  /\ Engine \in Mains /\ Mains \subseteq Threads
  /\ Mains \cap WorkerThreads = {} /\ Mains \cap Noises = {} /\ WorkerThreads \cap Noises = {}
<1>1. /\ \A t \in Mains : t[1] \in {"exchange", "feedhandler", "engine"}
      /\ \A t \in WorkerThreads : t[1] = "worker"
      /\ \A t \in Noises : t[1] = "noise"
  BY DEF Mains, WorkerThreads, Noises
<1>2. Mains \cap WorkerThreads = {} /\ Mains \cap Noises = {} /\ WorkerThreads \cap Noises = {}
  BY <1>1
<1>3. Engine \in Mains
  BY DEF Engine, Mains
<1> QED BY <1>2, <1>3 DEF Threads, HotThreads

(* After as a function of the place in run_scenario.                       *)
LEMMA AfterIs ==
  /\ DOMAIN After = {"feedhandler", "engine", "exchange"}
  /\ After["feedhandler"] = "engine" /\ After["engine"] = "exchange" /\ After["exchange"] = "wait"
BY DEF After

(* A thread that is told to join a group that is there joins it.           *)
LEMMA Joins ==
  ASSUME NEW t \in Threads, NEW g \in Groups, ToldGroup(t) = {g}, groups[g] # Absent
  PROVE  ~Missing(t) /\ Joined(t) = g
<1>1. ~Missing(t)
  BY DEF Missing
<1>2. (CHOOSE h \in {g} : TRUE) = g
  OBVIOUS
<1> QED BY <1>1, <1>2 DEF Joined

-----------------------------------------------------------------------------
(* The control of the script.                                              *)

(* Every way through the script, with a signal at any command.             *)
LEMMA ControlStep == ScriptOK /\ ControlInv /\ [Next]_vars => ControlInv'
<1> SUFFICES ASSUME ScriptOK, ControlInv, [Next]_vars PROVE ControlInv'
  OBVIOUS
<1> USE DEF ControlInv, Setup, Points, Handler, SetupSteps
<1>1. CASE Apply \/ ApplyFails
  BY <1>1 DEF Apply, ApplyFails, ApplyCut, script, history
<1>2. CASE MakeGroup("hot", "mkdir_hot", "mkdir_noise") \/ MakeGroup("noise", "mkdir_noise", "write_hot")
  BY <1>2 DEF MakeGroup, host, script, history
<1>3. CASE WriteHot
  BY <1>3 DEF WriteHot, WriteSchemata
<1>4. CASE WriteNoise
  BY <1>4 DEF WriteNoise, WriteSchemata
<1>5. CASE SetupFails
  BY <1>5 DEF SetupFails, PreppedAnyway, history
<1>6. CASE Prelude \/ StartScenario
  BY <1>6 DEF Prelude, StartScenario, host, script, history
<1>7. CASE Launch
  BY <1>7, AfterIs DEF Launch, host, script, history
<1>8. CASE WaitTick \/ WaitOver
  BY <1>8 DEF WaitTick, WaitOver, host, history
<1>9. CASE Exit \/ CleanFails \/ Revert \/ RevertFails
  BY <1>9 DEF Exit, CleanFails, Revert, RevertFails, host, script, history
<1>10. CASE RemoveGroup("hot", "clean_hot", "clean_noise") \/ RemoveGroup("noise", "clean_noise", "revert")
  BY <1>10 DEF RemoveGroup, host, script, history
<1>11. CASE CtrlC
  BY <1>11 DEF CtrlC, ApplyCut, InHandler
<1>12. CASE Sigterm
  BY <1>12 DEF Sigterm, InHandler, host, script
<1>13. CASE Binaries \/ UNCHANGED vars
  <2>1. UNCHANGED <<pc, back, prepped, complete, cut, torn, prod>>
    BY <1>13 DEF Binaries, PlaceMain, MainFails, PlaceSpawned, SpawnNoise, SpawnWorkers, Spawn, Finish, vars, host,
           script, history
  <2> QED BY <2>1
<1> QED BY <1>1, <1>2, <1>3, <1>4, <1>5, <1>6, <1>7, <1>8, <1>9, <1>10, <1>11, <1>12, <1>13 DEF Next, Script

(* The settings are tuned from --apply until a handler ran.                *)
LEMMA TuningStep == ScriptOK /\ ControlInv /\ TuningInv /\ [Next]_vars => TuningInv'
<1> SUFFICES ASSUME ScriptOK, ControlInv, TuningInv, [Next]_vars PROVE TuningInv'
  OBVIOUS
<1> USE DEF TuningInv, InHandler, SetupSteps
<1>1. CASE Apply \/ ApplyFails
  BY <1>1 DEF Apply, ApplyFails, ControlInv, Setup, script, history
<1>2. CASE MakeGroup("hot", "mkdir_hot", "mkdir_noise") \/ MakeGroup("noise", "mkdir_noise", "write_hot")
  BY <1>2 DEF MakeGroup, host, script, history
<1>3. CASE WriteHot \/ WriteNoise
  BY <1>3 DEF WriteHot, WriteNoise, WriteSchemata, host
<1>4. CASE SetupFails
  BY <1>4 DEF SetupFails, host, history
<1>5. CASE Prelude \/ StartScenario
  BY <1>5 DEF Prelude, StartScenario, host, script, history
<1>6. CASE Launch
  BY <1>6, AfterIs DEF Launch, host, script, history
<1>7. CASE WaitTick \/ WaitOver
  BY <1>7 DEF WaitTick, WaitOver, host, history
<1>8. CASE Exit
  BY <1>8 DEF Exit, host, script, history
<1>9. CASE CleanFails \/ Revert \/ RevertFails
  BY <1>9 DEF CleanFails, Revert, RevertFails, script, history, host, ControlInv, Points
<1>10. CASE RemoveGroup("hot", "clean_hot", "clean_noise") \/ RemoveGroup("noise", "clean_noise", "revert")
  BY <1>10 DEF RemoveGroup, host
<1>11. CASE CtrlC
  <2>1. CASE pc = "apply"
    BY <1>11, <2>1 DEF CtrlC, ControlInv, Setup
  <2>2. CASE pc # "apply"
    BY <1>11, <2>2 DEF CtrlC
  <2> QED BY <2>1, <2>2
<1>12. CASE Sigterm
  BY <1>12 DEF Sigterm, host
<1>13. CASE Binaries \/ UNCHANGED vars
  <2>1. UNCHANGED <<pc, prepped, torn, tuning>>
    BY <1>13 DEF Binaries, PlaceMain, MainFails, PlaceSpawned, SpawnNoise, SpawnWorkers, Spawn, Finish, vars, host,
           script, history
  <2> QED BY <2>1
<1> QED BY <1>1, <1>2, <1>3, <1>4, <1>5, <1>6, <1>7, <1>8, <1>9, <1>10, <1>11, <1>12, <1>13 DEF Next, Script

(* A handler removes both groups and then reverts the settings.            *)
LEMMA RestoreStep == HostOK /\ ScriptOK /\ ControlInv /\ RestoreInv /\ [Next]_vars => RestoreInv'
<1> SUFFICES ASSUME HostOK, ScriptOK, ControlInv, RestoreInv, [Next]_vars PROVE RestoreInv'
  OBVIOUS
<1>0. groups \in [Groups -> SUBSET Full] /\ Groups = {"hot", "noise"}
  BY DEF HostOK, Groups
<1>1. ASSUME pc' \in Setup \cup Points \cup {"clean_hot"}, pc' # "ended" PROVE RestoreInv'
  BY <1>1 DEF RestoreInv, HostRestored, Setup, SetupSteps, Points
<1>2. CASE \/ Apply \/ ApplyFails \/ WriteHot \/ WriteNoise \/ SetupFails \/ Prelude \/ StartScenario
           \/ WaitTick \/ WaitOver \/ CtrlC \/ Sigterm
           \/ MakeGroup("hot", "mkdir_hot", "mkdir_noise") \/ MakeGroup("noise", "mkdir_noise", "write_hot")
  <2>1. pc' \in Setup \cup Points \cup {"clean_hot"} /\ pc' # "ended"
    BY <1>2 DEF Apply, ApplyFails, WriteHot, WriteNoise, SetupFails, Prelude, StartScenario, WaitTick, WaitOver,
           MakeGroup, CtrlC, Sigterm, Setup, SetupSteps, Points
  <2> QED BY <1>1, <2>1
<1>3. CASE Launch
  <2>1. pc' \in {"engine", "exchange", "wait"}
    BY <1>3, AfterIs DEF Launch
  <2> QED BY <1>1, <2>1 DEF Points
<1>4. CASE Exit
  <2>1. CASE prepped
    BY <1>1, <1>4, <2>1 DEF Exit
  <2>2. CASE ~prepped
    <3>1. pc = "exit" /\ pc' = "ended" /\ UNCHANGED <<prod, cut>>
      BY <1>4, <2>2 DEF Exit, host, history
    <3>2. ~(prod /\ ~cut)
      BY <2>2, <3>1 DEF ControlInv, Setup, SetupSteps
    <3> QED BY <3>1, <3>2 DEF RestoreInv, HostRestored
  <2> QED BY <2>1, <2>2
<1>5. CASE Revert \/ RevertFails
  <2>1. /\ pc = "revert" /\ pc' \in Points /\ groups' = groups /\ hst' = hst
        /\ "clean" \in failed' <=> "clean" \in failed
        /\ "revert" \notin failed' => tuning' = "reverted" /\ online' = hst.online
    BY <1>5 DEF Revert, RevertFails, ControlInv
  <2>2. "clean" \notin failed' => \A g \in Groups : groups'[g] = Absent
    BY <2>1 DEF RestoreInv
  <2> QED BY <2>1, <2>2 DEF RestoreInv, HostRestored, Points
<1>6. CASE RemoveGroup("hot", "clean_hot", "clean_noise") \/ RemoveGroup("noise", "clean_noise", "revert")
  BY <1>0, <1>6 DEF RemoveGroup, RestoreInv, HostRestored
<1>7. CASE CleanFails
  BY <1>7 DEF CleanFails, RestoreInv, HostRestored
<1>8. CASE Binaries \/ UNCHANGED vars
  <2>1. UNCHANGED <<pc, host, cut, failed, groups>>
    BY <1>8 DEF Binaries, PlaceMain, MainFails, PlaceSpawned, SpawnNoise, SpawnWorkers, Spawn, Finish, vars, history
  <2> QED BY <2>1 DEF RestoreInv, HostRestored, host
<1> QED BY <1>2, <1>3, <1>4, <1>5, <1>6, <1>7, <1>8 DEF Next, Script

-----------------------------------------------------------------------------
(* The groups.                                                             *)

(* The host is the same throughout, and so are its masks.                  *)
LEMMA SameHost ==
  [Next]_vars => hst' = hst /\ prod' = prod /\ Full' = Full /\ HM' = HM /\ NM' = NM
<1>1. [Next]_vars => hst' = hst /\ prod' = prod
  BY DEF Next, Script, Binaries, vars, host, Apply, ApplyFails, ApplyCut, MakeGroup, WriteHot, WriteNoise,
         WriteSchemata, SetupFails, Prelude, StartScenario, Launch, WaitTick, WaitOver, Exit, CleanFails,
         RevertFails, Revert, RemoveGroup, CtrlC, Sigterm, PlaceMain, MainFails, PlaceSpawned, SpawnNoise,
         SpawnWorkers, Spawn, Finish
<1> QED BY <1>1 DEF Full, HM, NM

(* A mask the kernel takes is not empty.                                   *)
LEMMA TakenMask == ASSUME NEW mask, Cardinality(mask) >= MinBits PROVE mask # {}
<1>1. MinBits \in Nat \ {0} /\ Cardinality({}) = 0
  BY BenchAssumption, FS_EmptySet
<1> QED BY <1>1

(* The masks of this host.                                                 *)
LEMMA HostMasks ==
  ASSUME HostOK
  PROVE  HM \cap NM = {} /\ HM \subseteq Full /\ (HM # {} => NM \subseteq Full)
<1>1. hst.ways \in Nat /\ MinBits \in Nat /\ HotPct \in Nat
  BY BenchAssumption DEF HostOK
<1> QED BY <1>1, MasksApart DEF HM, NM, Full

(* Setup writes the hot mask, then the other; a handler removes them.      *)
LEMMA GroupStep == HostOK /\ ScriptOK /\ ControlInv /\ GroupInv /\ [Next]_vars => GroupInv'
<1> SUFFICES ASSUME HostOK, ScriptOK, ControlInv, GroupInv, [Next]_vars PROVE GroupInv'
  OBVIOUS
<1>0. groups \in [Groups -> SUBSET Full] /\ Groups = {"hot", "noise"} /\ HM' = HM /\ NM' = NM
  BY SameHost DEF HostOK, Groups
<1>1. CASE \/ Apply \/ ApplyFails
           \/ MakeGroup("hot", "mkdir_hot", "mkdir_noise") \/ MakeGroup("noise", "mkdir_noise", "write_hot")
  <2>1. pc \in Setup /\ pc' # "write_noise" /\ complete' = complete
    BY <1>1 DEF Apply, ApplyFails, ApplyCut, MakeGroup, history, Setup, SetupSteps
  <2>2. ~complete
    BY <2>1 DEF ControlInv
  <2> QED BY <2>1, <2>2 DEF GroupInv
<1>2. CASE WriteHot
  <2>1. pc \in Setup /\ complete' = complete /\ Cardinality(HM) >= MinBits /\ groups' = [groups EXCEPT !["hot"] = HM]
    BY <1>2 DEF WriteHot, WriteSchemata, Setup, SetupSteps, HM
  <2>2. ~complete /\ HM # {} /\ groups'["hot"] = HM
    BY <1>0, <2>1, TakenMask DEF ControlInv
  <2> QED BY <1>0, <2>1, <2>2 DEF GroupInv
<1>3. CASE WriteNoise
  <2>1. /\ pc = "write_noise" /\ pc' = "prelude" /\ Cardinality(NM) >= MinBits
        /\ groups' = [groups EXCEPT !["noise"] = NM]
    BY <1>3 DEF WriteNoise, WriteSchemata, NM
  <2>2. NM # {} /\ HM # {} /\ groups'["hot"] = HM /\ groups'["noise"] = NM
    BY <1>0, <2>1, TakenMask DEF GroupInv
  <2> QED BY <1>0, <2>1, <2>2 DEF GroupInv, Both, Absent
<1>4. CASE SetupFails \/ CtrlC
  <2>1. groups' = groups /\ pc' # "write_noise" /\ complete' = complete /\ torn' = torn
    BY <1>4 DEF SetupFails, CtrlC, history
  <2>2. pc \in SetupSteps => ~complete
    BY DEF ControlInv, Setup
  <2>3. pc \in SetupSteps \/ pc' \in {"exit", "clean_hot"}
    BY <1>4 DEF SetupFails, CtrlC
  <2> QED BY <1>0, <2>1, <2>2, <2>3 DEF GroupInv, Both, InHandler
<1>5. CASE Prelude \/ StartScenario \/ Launch \/ WaitTick \/ WaitOver
  <2>1. groups' = groups /\ pc' # "write_noise" /\ complete' = complete /\ torn' = torn /\ ~InHandler
    BY <1>5, AfterIs DEF Prelude, StartScenario, Launch, WaitTick, WaitOver, history, InHandler
  <2> QED BY <1>0, <2>1 DEF GroupInv, Both
<1>6. CASE Exit
  <2>1. groups' = groups /\ pc' \in {"clean_hot", "ended"} /\ complete' = complete
    BY <1>6 DEF Exit, history
  <2> QED BY <1>0, <2>1 DEF GroupInv, InHandler
<1>7. CASE Revert \/ RevertFails
  <2>1. groups' = groups /\ pc' = back /\ complete' = complete /\ torn' = torn
    BY <1>7 DEF Revert, RevertFails
  <2>2. back \in Points /\ (~torn => back \in {"exit", "ended"})
    BY DEF ControlInv
  <2> QED BY <1>0, <2>1, <2>2 DEF GroupInv, InHandler, Points
<1>8. ASSUME NEW g \in Groups, groups' = [groups EXCEPT ![g] = Absent], pc' \in {"clean_noise", "revert"},
             complete' = complete
      PROVE  GroupInv'
  BY <1>0, <1>8 DEF GroupInv, InHandler, Absent
<1>9. CASE RemoveGroup("hot", "clean_hot", "clean_noise") \/ RemoveGroup("noise", "clean_noise", "revert")
  BY <1>0, <1>8, <1>9 DEF RemoveGroup, history
<1>10. CASE Sigterm \/ CleanFails
  <2>1. groups' = groups /\ pc' \in {"clean_hot", "revert"} /\ complete' = complete
    BY <1>10 DEF Sigterm, CleanFails
  <2> QED BY <1>0, <2>1 DEF GroupInv, InHandler
<1>11. CASE Binaries \/ UNCHANGED vars
  <2>1. UNCHANGED <<pc, groups, complete, torn>>
    BY <1>11 DEF Binaries, PlaceMain, MainFails, PlaceSpawned, SpawnNoise, SpawnWorkers, Spawn, Finish, vars, host,
           history
  <2> QED BY <1>0, <2>1 DEF GroupInv, Both, InHandler
<1> QED BY <1>1, <1>2, <1>3, <1>4, <1>5, <1>6, <1>7, <1>9, <1>10, <1>11 DEF Next, Script

-----------------------------------------------------------------------------
(* Types.                                                                  *)

(* The host and the groups: a noise mask is written after a hot mask that  *)
(* the kernel took, so it is a set of ways of the cache.                   *)
LEMMA HostStep == HostOK /\ GroupInv /\ [Next]_vars => HostOK'
<1> SUFFICES ASSUME HostOK, GroupInv, [Next]_vars PROVE HostOK'
  OBVIOUS
<1>0. /\ groups \in [Groups -> SUBSET Full] /\ "hot" \in Groups /\ "noise" \in Groups
      /\ hst' = hst /\ prod' = prod /\ Full' = Full
  BY SameHost DEF HostOK, Groups
<1>1. tuning' \in {"orig", "partly", "tuned", "reverted"} /\ online' \subseteq hst.online
  BY <1>0 DEF HostOK, Next, Script, Binaries, vars, host, Apply, ApplyFails, ApplyCut, MakeGroup, WriteHot,
         WriteNoise, WriteSchemata, SetupFails, Prelude, StartScenario, Launch, WaitTick, WaitOver, Exit,
         CleanFails, RevertFails, Revert, RemoveGroup, CtrlC, Sigterm, PlaceMain, MainFails, PlaceSpawned,
         SpawnNoise, SpawnWorkers, Spawn, Finish
<1>2. ASSUME NEW g \in Groups, NEW m \in SUBSET Full, groups' = [groups EXCEPT ![g] = m]
      PROVE  groups' \in [Groups -> SUBSET Full]
  BY <1>0, <1>2
<1>3. groups' \in [Groups -> SUBSET Full]
  <2>1. ASSUME NEW g \in Groups, NEW here, NEW to, MakeGroup(g, here, to) PROVE groups' \in [Groups -> SUBSET Full]
    <3>1. (IF groups[g] = Absent THEN Full ELSE groups[g]) \in SUBSET Full
      BY <1>0
    <3> QED BY <1>0, <2>1, <3>1 DEF MakeGroup
  <2>2. ASSUME NEW g \in Groups, NEW here, NEW to, RemoveGroup(g, here, to) PROVE groups' \in [Groups -> SUBSET Full]
    BY <1>2, <2>2 DEF RemoveGroup, Absent
  <2>3. CASE WriteHot
    BY <1>0, <1>2, <2>3, HostMasks DEF WriteHot, WriteSchemata, HM
  <2>4. CASE WriteNoise
    <3>1. NM \subseteq Full
      BY <2>4, HostMasks DEF GroupInv, WriteNoise, WriteSchemata
    <3> QED BY <1>0, <1>2, <2>4, <3>1 DEF WriteNoise, WriteSchemata, NM
  <2>5. CASE groups' = groups
    BY <1>0, <2>5
  <2>6. \/ groups' = groups \/ WriteHot \/ WriteNoise
        \/ MakeGroup("hot", "mkdir_hot", "mkdir_noise") \/ MakeGroup("noise", "mkdir_noise", "write_hot")
        \/ RemoveGroup("hot", "clean_hot", "clean_noise") \/ RemoveGroup("noise", "clean_noise", "revert")
    BY DEF Next, Script, Binaries, vars, Apply, ApplyFails, SetupFails, Prelude, StartScenario, Launch, WaitTick,
           WaitOver, Exit, CleanFails, RevertFails, Revert, CtrlC, Sigterm, PlaceMain, MainFails, PlaceSpawned,
           SpawnNoise, SpawnWorkers, Spawn, Finish
  <2> QED BY <1>0, <2>1, <2>2, <2>3, <2>4, <2>5, <2>6
<1> QED BY <1>0, <1>1, <1>3 DEF HostOK

(* The variables of the script.                                            *)
LEMMA ScriptStep == HostOK /\ ScriptOK /\ [Next]_vars => ScriptOK'
<1> SUFFICES ASSUME HostOK, ScriptOK, [Next]_vars PROVE ScriptOK'
  OBVIOUS
<1>1. elapsed' \in 0 .. Timeout
  <2>1. elapsed' \in {elapsed, 0} \/ (elapsed < Timeout /\ elapsed' = elapsed + 1)
    BY DEF Next, Script, Binaries, vars, host, script, Apply, ApplyFails, ApplyCut, MakeGroup, WriteHot, WriteNoise,
           WriteSchemata, SetupFails, Prelude, StartScenario, Launch, WaitTick, WaitOver, Exit, CleanFails,
           RevertFails, Revert, RemoveGroup, CtrlC, Sigterm, PlaceMain, MainFails, PlaceSpawned, SpawnNoise,
           SpawnWorkers, Spawn, Finish
  <2> QED BY <2>1, BenchAssumption DEF ScriptOK
<1>2. signals' \in 0 .. MaxSignals
  <2>1. signals' = signals \/ (signals < MaxSignals /\ signals' = signals + 1)
    BY DEF Next, Script, Binaries, vars, host, Apply, ApplyFails, ApplyCut, MakeGroup, WriteHot, WriteNoise,
           WriteSchemata, SetupFails, Prelude, StartScenario, Launch, WaitTick, WaitOver, Exit, CleanFails,
           RevertFails, Revert, RemoveGroup, CtrlC, Sigterm, PlaceMain, MainFails, PlaceSpawned, SpawnNoise,
           SpawnWorkers, Spawn, Finish
  <2> QED BY <2>1, BenchAssumption DEF ScriptOK
<1>3. scenario' \in {"iso", "noisy"} /\ flags' \subseteq Groups /\ listed' \subseteq hst'.online
  <2>1. scenario' \in {scenario, "noisy"} /\ flags' \in {flags, GroupFlags} /\ listed' \in {listed, online}
    BY DEF Next, Script, Binaries, vars, host, script, Apply, ApplyFails, ApplyCut, MakeGroup, WriteHot, WriteNoise,
           WriteSchemata, SetupFails, Prelude, StartScenario, Launch, WaitTick, WaitOver, Exit, CleanFails,
           RevertFails, Revert, RemoveGroup, CtrlC, Sigterm, PlaceMain, MainFails, PlaceSpawned, SpawnNoise,
           SpawnWorkers, Spawn, Finish
  <2>2. GroupFlags \subseteq Groups
    BY DEF GroupFlags
  <2> QED BY <2>1, <2>2, SameHost DEF HostOK, ScriptOK
<1>4. prepped' \in BOOLEAN /\ complete' \in BOOLEAN /\ torn' \in BOOLEAN
  <2>1. (prepped' = prepped \/ prepped' = TRUE) /\ (complete' = complete \/ complete' = TRUE)
        /\ (torn' = torn \/ torn' = TRUE)
    BY DEF Next, Script, Binaries, vars, host, script, history, Apply, ApplyFails, ApplyCut, MakeGroup, WriteHot,
           WriteNoise, WriteSchemata, SetupFails, PreppedAnyway, Prelude, StartScenario, Launch, WaitTick, WaitOver,
           Exit, CleanFails, RevertFails, Revert, RemoveGroup, CtrlC, Sigterm, PlaceMain, MainFails, PlaceSpawned,
           SpawnNoise, SpawnWorkers, Spawn, Finish
  <2> QED BY <2>1, Zenon DEF ScriptOK
<1>5. cut' \in BOOLEAN /\ failed' \subseteq {"clean", "revert"}
  <2>1. cut' = cut \/ cut' = TRUE
    BY DEF Next, Script, Binaries, vars, history, Apply, ApplyFails, ApplyCut, MakeGroup, WriteHot, WriteNoise,
           WriteSchemata, SetupFails, Prelude, StartScenario, Launch, WaitTick, WaitOver, Exit, CleanFails,
           RevertFails, Revert, RemoveGroup, CtrlC, Sigterm, PlaceMain, MainFails, PlaceSpawned, SpawnNoise,
           SpawnWorkers, Spawn, Finish
  <2>2. failed' \subseteq failed \cup {"clean", "revert"}
    BY DEF Next, Script, Binaries, vars, history, Apply, ApplyFails, MakeGroup, WriteHot, WriteNoise, WriteSchemata,
           SetupFails, Prelude, StartScenario, Launch, WaitTick, WaitOver, Exit, CleanFails, RevertFails, Revert,
           RemoveGroup, CtrlC, Sigterm, PlaceMain, MainFails, PlaceSpawned, SpawnNoise, SpawnWorkers, Spawn, Finish
  <2> QED BY <2>1, <2>2, Zenon DEF ScriptOK
<1> QED BY <1>1, <1>2, <1>3, <1>4, <1>5 DEF ScriptOK

-----------------------------------------------------------------------------
(* What a step does to a thread.                                           *)

States == {"off", "starting", "placed", "noisy", "up", "gone"}
Thread == [st : States, cpu : hst.online \cup {AnyCpu}, group : Groups \cup {"default"},
           logged : SUBSET {"pin", "join"}]

(* The thread starts, on its own or spawned by the engine, places itself,  *)
(* goes on, is over, or loses its group.                                   *)
Inherits(t) ==
  /\ thr[Engine].st \in Placed
  /\ thr'[t].cpu = thr[Engine].cpu /\ thr'[t].group = thr[Engine].group
Starts(t) ==
  /\ thr'[t].st = "starting"
  /\ t \in Noises => scenario = "noisy"
  /\ t \notin Mains => Inherits(t)
  /\ Launch \/ (\E u \in Threads : thr[u].st # "off")
Places(t) ==
  /\ thr[t].st = "starting" /\ thr'[t].st \in Placed
  /\ thr'[t].cpu = IF "pin" \in thr'[t].logged THEN thr[t].cpu ELSE PinOf(t)
  /\ thr'[t].group = IF "join" \in thr'[t].logged THEN thr[t].group ELSE Joined(t)
  /\ t \in Mains => thr'[t].logged = {}
GoesOn(t) ==
  /\ thr[t].st \in Placed /\ thr'[t].st \in Placed
  /\ thr'[t].cpu = thr[t].cpu /\ thr'[t].group = thr[t].group /\ thr'[t].logged = thr[t].logged
IsOver(t) == thr'[t].st = "gone" /\ \E u \in Threads : thr[u].st # "off"
IsOut(t) ==
  /\ thr'[t].st = thr[t].st /\ thr'[t].cpu = thr[t].cpu /\ thr'[t].logged = thr[t].logged
  /\ ~Both'
Move(t) == thr'[t] = thr[t] \/ Starts(t) \/ Places(t) \/ GoesOn(t) \/ IsOver(t) \/ IsOut(t) \/ thr'[t] = Off

(* A record with another state.                                            *)
LEMMA OtherState ==
  ASSUME NEW r \in Thread, NEW s \in States
  PROVE  /\ [r EXCEPT !.st = s] \in Thread
         /\ [r EXCEPT !.st = s].st = s /\ [r EXCEPT !.st = s].cpu = r.cpu
         /\ [r EXCEPT !.st = s].group = r.group /\ [r EXCEPT !.st = s].logged = r.logged
BY DEF Thread

(* A thread that is not there.                                             *)
LEMMA IdleThread == Off \in Thread /\ Gone \in Thread /\ Off.st = "off" /\ Gone.st = "gone"
BY DEF Off, Gone, Idle, Thread, States

(* join_group leaves a thread in a group.                                  *)
LEMMA JoinedType == ASSUME ScriptOK, NEW t \in Threads, thr[t] \in Thread PROVE Joined(t) \in Groups \cup {"default"}
<1>1. ToldGroup(t) \subseteq Groups
  BY DEF ToldGroup, ScriptOK
<1>2. ToldGroup(t) # {} => (CHOOSE g \in ToldGroup(t) : TRUE) \in ToldGroup(t)
  OBVIOUS
<1> QED BY <1>1, <1>2 DEF Joined, Thread

(* Every step moves every thread in one of these ways.                     *)
LEMMA ThreadStep ==
  ASSUME HostOK, ScriptOK, ThreadsOK, [Next]_vars
  PROVE  thr' \in [Threads -> Thread] /\ \A t \in Threads : Move(t)
<1>0. thr \in [Threads -> Thread] /\ \A t \in Threads : thr[t] \in Thread
  BY DEF ThreadsOK, Thread, States
<1>1. CASE thr' = thr
  BY <1>0, <1>1 DEF Move
<1>2. CASE Launch
  <2>1. <<pc, 0>> \in Mains
    BY <1>2, AfterIs DEF Launch, Mains
  <2>2. PICK p \in Mains : p = <<pc, 0>>
    BY <2>1
  <2>3. p \in Threads /\ p \notin Noises
    BY <2>2, ThreadKinds
  <2>4. thr' = [thr EXCEPT ![p] = [thr[p] EXCEPT !.st = "starting"]] /\ pc \in DOMAIN After
    BY <1>2, <2>2 DEF Launch
  <2>5. [thr[p] EXCEPT !.st = "starting"] \in Thread /\ [thr[p] EXCEPT !.st = "starting"].st = "starting"
    <3>1. thr[p] \in Thread /\ "starting" \in States
      BY <1>0, <2>3 DEF States
    <3> QED BY <3>1, OtherState
  <2>6. thr' \in [Threads -> Thread] /\ thr'[p].st = "starting" /\ \A t \in Threads \ {p} : thr'[t] = thr[t]
    BY <1>0, <2>3, <2>4, <2>5
  <2> QED BY <1>2, <2>2, <2>3, <2>6 DEF Move, Starts
<1>3. CASE WaitOver
  <2>1. thr' = [t \in Threads |-> Off]
    BY <1>3 DEF WaitOver
  <2> QED BY <2>1, IdleThread DEF Move
<1>4. ASSUME NEW g \in Groups, NEW here, NEW to, RemoveGroup(g, here, to)
      PROVE  thr' \in [Threads -> Thread] /\ \A t \in Threads : Move(t)
  <2>1. groups' = [groups EXCEPT ![g] = Absent] /\ groups \in [Groups -> SUBSET Full]
    BY <1>4 DEF RemoveGroup, HostOK
  <2>2. ~Both'
    BY <2>1 DEF Both, Groups
  <2>3. ASSUME NEW t \in Threads
        PROVE  /\ thr'[t] \in Thread /\ thr'[t].st = thr[t].st /\ thr'[t].cpu = thr[t].cpu
               /\ thr'[t].logged = thr[t].logged
    <3>1. thr'[t] = IF thr[t].group = g THEN [thr[t] EXCEPT !.group = "default"] ELSE thr[t]
      BY <1>4 DEF RemoveGroup
    <3> QED BY <1>0, <3>1 DEF Thread
  <2>4. thr' = [t \in Threads |-> thr'[t]]
    BY <1>4 DEF RemoveGroup
  <2> QED BY <2>2, <2>3, <2>4 DEF Move, IsOut
<1>5. ASSUME NEW t \in Threads, NEW r \in Thread, thr' = [thr EXCEPT ![t] = r]
      PROVE  thr' \in [Threads -> Thread] /\ thr'[t] = r /\ \A u \in Threads \ {t} : thr'[u] = thr[u]
  BY <1>0, <1>5
<1>6. ASSUME NEW t \in Threads, NEW s \in Placed, NEW errors \in SUBSET {"pin", "join"},
             thr[t].st = "starting", t \in Mains => errors = {}, PinOf(t) \in online \/ "pin" \in errors,
             thr' = [thr EXCEPT ![t] =
                       [st |-> s,
                        cpu |-> IF "pin" \in errors THEN thr[t].cpu ELSE PinOf(t),
                        group |-> IF "join" \in errors THEN thr[t].group ELSE Joined(t),
                        logged |-> errors]]
      PROVE  thr' \in [Threads -> Thread] /\ \A u \in Threads : Move(u)
  <2> DEFINE r == [st |-> s,
                   cpu |-> IF "pin" \in errors THEN thr[t].cpu ELSE PinOf(t),
                   group |-> IF "join" \in errors THEN thr[t].group ELSE Joined(t),
                   logged |-> errors]
  <2>1. s \in States /\ Joined(t) \in Groups \cup {"default"} /\ online \subseteq hst.online
    BY <1>0, JoinedType DEF Placed, States, HostOK
  <2>2. thr[t].cpu \in hst.online \cup {AnyCpu} /\ thr[t].group \in Groups \cup {"default"}
    BY <1>0 DEF Thread
  <2>3. r \in Thread
    BY <1>6, <2>1, <2>2 DEF Thread
  <2>4. /\ r.st = s /\ r.logged = errors
        /\ r.cpu = IF "pin" \in errors THEN thr[t].cpu ELSE PinOf(t)
        /\ r.group = IF "join" \in errors THEN thr[t].group ELSE Joined(t)
    OBVIOUS
  <2> HIDE DEF r
  <2>5. thr' = [thr EXCEPT ![t] = r]
    BY <1>6 DEF r
  <2>6. thr' \in [Threads -> Thread] /\ thr'[t] = r /\ \A u \in Threads \ {t} : thr'[u] = thr[u]
    BY <1>5, <2>3, <2>5
  <2>7. Places(t)
    BY <1>6, <2>4, <2>6 DEF Places
  <2> QED BY <2>6, <2>7 DEF Move
<1>7. ASSUME NEW t \in Threads, PlaceMain(t) PROVE thr' \in [Threads -> Thread] /\ \A u \in Threads : Move(u)
  <2>1. PICK s \in Placed :
          thr' = [thr EXCEPT ![t] = [st |-> s, cpu |-> PinOf(t), group |-> Joined(t), logged |-> {}]]
    BY <1>7 DEF PlaceMain, MainFails, Placed
  <2> QED BY <1>6, <1>7, <2>1 DEF PlaceMain, MainFails
<1>8. ASSUME NEW t \in Threads, MainFails(t) PROVE thr' \in [Threads -> Thread] /\ \A u \in Threads : Move(u)
  <2>1. thr[t].st # "off" /\ thr' = [thr EXCEPT ![t] = Gone]
    BY <1>8 DEF MainFails
  <2>2. thr' \in [Threads -> Thread] /\ thr'[t] = Gone /\ \A u \in Threads \ {t} : thr'[u] = thr[u]
    BY <1>5, <2>1, IdleThread
  <2> QED BY <2>1, <2>2, IdleThread DEF Move, IsOver
<1>9. ASSUME NEW t \in Threads, NEW errors \in SUBSET {"pin", "join"}, PlaceSpawned(t, errors)
      PROVE  thr' \in [Threads -> Thread] /\ \A u \in Threads : Move(u)
  <2>1. "up" \in Placed
    BY DEF Placed
  <2> QED BY <1>6, <1>9, <2>1 DEF PlaceSpawned
<1>10. ASSUME NEW new \in SUBSET (Threads \ Mains), NEW from \in Placed, NEW to \in Placed, Spawn(new, from, to),
              \A t \in new : t \in Noises => scenario = "noisy"
       PROVE  thr' \in [Threads -> Thread] /\ \A t \in Threads : Move(t)
  <2>1. Engine \in Threads /\ thr[Engine].st = from
    BY <1>10, ThreadKinds DEF Spawn
  <2>2. from # "off" /\ to \in States
    BY DEF Placed, States
  <2>3. /\ [thr[Engine] EXCEPT !.st = to] \in Thread /\ [thr[Engine] EXCEPT !.st = to].st = to
        /\ [thr[Engine] EXCEPT !.st = to].cpu = thr[Engine].cpu
        /\ [thr[Engine] EXCEPT !.st = to].group = thr[Engine].group
        /\ [thr[Engine] EXCEPT !.st = to].logged = thr[Engine].logged
        /\ [thr[Engine] EXCEPT !.st = "starting"] \in Thread /\ [thr[Engine] EXCEPT !.st = "starting"].st = "starting"
        /\ [thr[Engine] EXCEPT !.st = "starting"].cpu = thr[Engine].cpu
        /\ [thr[Engine] EXCEPT !.st = "starting"].group = thr[Engine].group
    <3>1. thr[Engine] \in Thread /\ "starting" \in States
      BY <1>0, <2>1 DEF States
    <3> QED BY <2>2, <3>1, OtherState
  <2>4. ASSUME NEW t \in Threads PROVE thr'[t] \in Thread /\ Move(t)
    <3>1. thr'[t] = IF t = Engine THEN [thr[t] EXCEPT !.st = to]
                    ELSE IF t \in new THEN [thr[Engine] EXCEPT !.st = "starting"] ELSE thr[t]
      BY <1>10 DEF Spawn
    <3>2. CASE t = Engine
      BY <2>1, <2>3, <3>1, <3>2 DEF Move, GoesOn
    <3>3. CASE t # Engine /\ t \in new
      <4>1. thr'[t] = [thr[Engine] EXCEPT !.st = "starting"]
        BY <3>1, <3>3
      <4>2. thr'[t] \in Thread /\ thr'[t].st = "starting" /\ Inherits(t)
        BY <2>1, <2>3, <4>1 DEF Inherits
      <4> QED BY <1>10, <2>1, <2>2, <3>3, <4>2 DEF Move, Starts
    <3>4. CASE t # Engine /\ t \notin new
      BY <1>0, <3>1, <3>4 DEF Move
    <3> QED BY <3>2, <3>3, <3>4
  <2>5. thr' = [t \in Threads |-> thr'[t]]
    BY <1>10 DEF Spawn
  <2> QED BY <2>4, <2>5
<1>11. CASE SpawnNoise
  <2>1. (IF scenario = "noisy" THEN Noises ELSE {}) \in SUBSET (Threads \ Mains)
    BY ThreadKinds
  <2> QED BY <1>10, <1>11, <2>1 DEF SpawnNoise, Placed
<1>12. CASE SpawnWorkers
  <2>1. WorkerThreads \in SUBSET (Threads \ Mains) /\ \A t \in WorkerThreads : t \notin Noises
    BY ThreadKinds
  <2> QED BY <1>10, <1>12, <2>1 DEF SpawnWorkers, Placed
<1>13. CASE \E p \in Mains : Finish(p)
  <2>1. PICK p \in Mains : Finish(p)
    BY <1>13
  <2>2. p \in Threads /\ thr[p].st # "off"
    BY <2>1, ThreadKinds DEF Finish
  <2>3. ASSUME NEW t \in Threads PROVE thr'[t] \in Thread /\ Move(t)
    <3>1. thr'[t] = Gone \/ thr'[t] = thr[t]
      BY <2>1 DEF Finish
    <3> QED BY <1>0, <2>2, <3>1, IdleThread DEF Move, IsOver
  <2>4. thr' = [t \in Threads |-> thr'[t]]
    BY <2>1 DEF Finish
  <2> QED BY <2>3, <2>4
<1>14. \/ thr' = thr \/ Launch \/ WaitOver \/ Binaries
       \/ RemoveGroup("hot", "clean_hot", "clean_noise") \/ RemoveGroup("noise", "clean_noise", "revert")
  BY DEF Next, Script, vars, Apply, ApplyFails, MakeGroup, WriteHot, WriteNoise, WriteSchemata, SetupFails, Prelude,
         StartScenario, WaitTick, Exit, CleanFails, RevertFails, Revert, CtrlC, Sigterm
<1> QED BY <1>1, <1>2, <1>3, <1>4, <1>7, <1>8, <1>9, <1>11, <1>12, <1>13, <1>14 DEF Binaries, Groups

-----------------------------------------------------------------------------
(* The threads.                                                            *)

(* A scenario is over when its threads are, and its command lines are      *)
(* written before the first of them is started.                            *)
LEMMA AtStep ==
  ASSUME ControlInv, [Next]_vars
  PROVE  /\ WaitOver => At' \in {"scenario", "exit"}
         /\ ~WaitOver => scenario' = scenario
         /\ ~WaitOver /\ ~StartScenario =>
              /\ flags' = flags
              /\ At' \in {"feedhandler", "engine", "exchange", "wait"} =>
                   At \in {"feedhandler", "engine", "exchange", "wait"}
         /\ At' \in Setup \cup {"prelude", "scenario", "feedhandler"} =>
              WaitOver \/ (At \in Setup \cup {"prelude", "scenario", "feedhandler"} /\ ~Launch)
         /\ ~Prelude => listed' = listed
         /\ Prelude => At' \in {"scenario", "exit"} /\ At = "prelude"
         /\ Launch => At \in {"feedhandler", "engine", "exchange"}
<1> USE DEF Setup, SetupSteps, Handler, At
<1>1. CASE \/ Apply \/ ApplyFails \/ WriteHot \/ WriteNoise \/ SetupFails
           \/ MakeGroup("hot", "mkdir_hot", "mkdir_noise") \/ MakeGroup("noise", "mkdir_noise", "write_hot")
  <2>1. At \in Setup /\ At' \in Setup \cup {"prelude", "exit"} /\ UNCHANGED <<scenario, flags, listed>> /\ pc \in Setup
    BY <1>1 DEF Apply, ApplyFails, WriteHot, WriteNoise, WriteSchemata, SetupFails, MakeGroup, script
  <2>2. ~Launch /\ ~Prelude /\ (WaitOver => pc = "wait" /\ pc' \in {"scenario", "exit"})
    BY <2>1, AfterIs DEF Launch, Prelude, WaitOver
  <2> QED BY <2>1, <2>2
<1>2. CASE Prelude
  <2>1. pc = "prelude" /\ pc' \in {"exit", "scenario"} /\ UNCHANGED <<scenario, flags>>
    BY <1>2 DEF Prelude
  <2>2. ~Launch /\ (WaitOver => pc = "wait" /\ pc' \in {"scenario", "exit"})
    BY <2>1, AfterIs DEF Launch, Prelude, WaitOver
  <2> QED BY <1>2, <2>1, <2>2
<1>3. CASE StartScenario
  <2>1. pc = "scenario" /\ pc' = "feedhandler" /\ UNCHANGED <<scenario, listed>>
    BY <1>3 DEF StartScenario
  <2>2. ~Launch /\ ~Prelude /\ (WaitOver => pc = "wait" /\ pc' \in {"scenario", "exit"})
    BY <2>1, AfterIs DEF Launch, Prelude, WaitOver
  <2> QED BY <1>3, <2>1, <2>2
<1>4. CASE Launch
  <2>1. pc \in {"feedhandler", "engine", "exchange"} /\ pc' \in {"engine", "exchange", "wait"}
        /\ UNCHANGED <<scenario, flags, listed>>
    BY <1>4, AfterIs DEF Launch, script
  <2>2. ~WaitOver /\ ~Prelude
    BY <2>1 DEF WaitOver, Prelude
  <2> QED BY <2>1, <2>2
<1>5. CASE WaitOver
  <2>1. pc = "wait" /\ pc' \in {"scenario", "exit"} /\ listed' = listed
    BY <1>5 DEF WaitOver
  <2>2. ~Launch /\ ~Prelude /\ (WaitOver => pc = "wait" /\ pc' \in {"scenario", "exit"})
    BY <2>1, AfterIs DEF Launch, Prelude, WaitOver
  <2> QED BY <1>5, <2>1, <2>2
<1>6. CASE Exit
  <2>1. pc = "exit" /\ At' = "ended" /\ UNCHANGED <<scenario, flags, listed>>
    BY <1>6 DEF Exit, script
  <2>2. ~Launch /\ ~Prelude /\ (WaitOver => pc = "wait" /\ pc' \in {"scenario", "exit"})
    BY <2>1, AfterIs DEF Launch, Prelude, WaitOver
  <2> QED BY <2>1, <2>2
<1>7. CASE CtrlC
  <2>1. UNCHANGED <<scenario, flags, listed>> /\ ~InHandler
        /\ ((At \in Setup /\ pc \in Setup /\ At' = "prelude") \/ At' = "exit")
    BY <1>7 DEF CtrlC
  <2>2. pc' # After[pc] \/ pc \notin DOMAIN After
    <3>1. pc' \in {"prelude", "clean_hot", "exit"}
      BY <1>7 DEF CtrlC
    <3> QED BY <3>1, AfterIs
  <2>3. ~Launch /\ (Prelude => pc = "prelude" /\ pc' \in {"exit", "scenario"})
        /\ (WaitOver => pc = "wait" /\ pc' \in {"scenario", "exit"})
    BY <2>2 DEF Launch, Prelude, WaitOver
  <2> QED BY <2>1, <2>3
<1>8. CASE Sigterm
  <2>1. UNCHANGED <<scenario, flags, listed>> /\ At' = At /\ pc' = "clean_hot"
    BY <1>8 DEF Sigterm, InHandler, script
  <2>2. ~Launch /\ ~Prelude /\ (WaitOver => pc = "wait" /\ pc' \in {"scenario", "exit"})
    BY <2>1, AfterIs DEF Launch, Prelude, WaitOver
  <2> QED BY <2>1, <2>2
<1>9. CASE Revert \/ RevertFails
  <2>1. UNCHANGED <<scenario, flags, listed>> /\ At' = At /\ pc = "revert"
    BY <1>9 DEF Revert, RevertFails, ControlInv, Points, script
  <2>2. ~Launch /\ ~Prelude /\ (WaitOver => pc = "wait" /\ pc' \in {"scenario", "exit"})
    BY <2>1, AfterIs DEF Launch, Prelude, WaitOver
  <2> QED BY <2>1, <2>2
<1>10. CASE CleanFails \/ RemoveGroup("hot", "clean_hot", "clean_noise") \/ RemoveGroup("noise", "clean_noise", "revert")
  <2>1. UNCHANGED <<scenario, flags, listed>> /\ At' = At /\ pc \in {"clean_hot", "clean_noise"}
    BY <1>10 DEF CleanFails, RemoveGroup, script
  <2>2. ~Launch /\ ~Prelude /\ (WaitOver => pc = "wait" /\ pc' \in {"scenario", "exit"})
    BY <2>1, AfterIs DEF Launch, Prelude, WaitOver
  <2> QED BY <2>1, <2>2
<1>11. CASE Binaries \/ WaitTick \/ UNCHANGED vars
  <2>1. UNCHANGED <<scenario, flags, listed, pc, back>>
    BY <1>11 DEF Binaries, PlaceMain, MainFails, PlaceSpawned, SpawnNoise, SpawnWorkers, Spawn, Finish, WaitTick,
           vars, script
  <2>2. ~Launch /\ ~Prelude /\ (WaitOver => pc = "wait" /\ pc' \in {"scenario", "exit"})
    BY <2>1, AfterIs DEF Launch, Prelude, WaitOver
  <2> QED BY <2>1, <2>2
<1> QED BY <1>1, <1>2, <1>3, <1>4, <1>5, <1>6, <1>7, <1>8, <1>9, <1>10, <1>11 DEF Next, Script

(* A scenario starts without a thread, and the first without noise.        *)
LEMMA QuietStep ==
  HostOK /\ ScriptOK /\ ThreadsOK /\ ControlInv /\ QuietInv /\ [Next]_vars => QuietInv'
<1> SUFFICES ASSUME HostOK, ScriptOK, ThreadsOK, ControlInv, QuietInv, [Next]_vars PROVE QuietInv'
  OBVIOUS
<1>1. \A t \in Threads : Move(t)
  BY ThreadStep
<1>2. WaitOver => \A t \in Threads : thr'[t].st = "off"
  BY IdleThread DEF WaitOver
<1>3. ASSUME At' \in Setup \cup {"prelude", "scenario", "feedhandler"}, NEW t \in Threads PROVE thr'[t].st = "off"
  <2>1. CASE WaitOver
    BY <1>2, <2>1
  <2>2. CASE ~WaitOver
    <3>1. ~Launch /\ \A u \in Threads : thr[u].st = "off"
      BY <1>3, <2>2, AtStep DEF QuietInv
    <3> QED BY <1>1, <3>1, IdleThread DEF Move, Starts, Places, GoesOn, IsOver, IsOut, Placed
  <2> QED BY <2>1, <2>2
<1>4. ASSUME NEW t \in Noises, thr'[t].st \notin {"off", "gone"} PROVE scenario' = "noisy"
  <2>1. CASE WaitOver
    BY <1>2, <1>4, <2>1, ThreadKinds
  <2>2. CASE ~WaitOver
    <3>1. scenario' = scenario
      BY <2>2, AtStep
    <3>2. Move(t)
      BY <1>1, ThreadKinds
    <3>3. scenario = "noisy"
      BY <1>4, <3>2, IdleThread DEF QuietInv, Alive, Move, Starts, Places, GoesOn, IsOver, IsOut, Placed
    <3> QED BY <3>1, <3>3
  <2> QED BY <2>1, <2>2
<1>5. (At \in Setup \cup {"prelude", "scenario", "feedhandler"} => \A t \in Threads : thr[t].st = "off")'
  BY <1>3
<1>6. (\A t \in Noises : Alive(t) => scenario = "noisy")'
  BY <1>4 DEF Alive
<1> QED BY <1>5, <1>6 DEF QuietInv

(* A thread keeps the CPU it took or inherited; the lists change while no  *)
(* thread runs.                                                            *)
LEMMA PinStep ==
  HostOK /\ ScriptOK /\ ThreadsOK /\ ControlInv /\ QuietInv /\ PinInv /\ [Next]_vars => PinInv'
<1> DEFINE OnOwn(t) == thr[t].cpu = PinOf(t) \/ ("pin" \in thr[t].logged /\ OnEngine(t))
<1> SUFFICES ASSUME HostOK, ScriptOK, ThreadsOK, ControlInv, QuietInv, PinInv, [Next]_vars, NEW t \in Threads
             PROVE  /\ thr'[t].st \in Placed => OnOwn(t)'
                    /\ thr'[t].st = "starting" /\ t \notin Mains => OnEngine(t)'
  BY DEF PinInv
<1>1. Move(t) /\ Engine \in Mains /\ Engine \in Threads
  BY ThreadStep, ThreadKinds
<1>2. CASE WaitOver \/ Prelude
  <2>1. thr'[t].st = "off"
    <3>1. CASE WaitOver
      BY <3>1, IdleThread DEF WaitOver
    <3>2. CASE Prelude
      <4>1. At = "prelude" /\ thr' = thr
        BY <3>2, AtStep DEF Prelude
      <4> QED BY <4>1 DEF QuietInv
    <3> QED BY <1>2, <3>1, <3>2
  <2> QED BY <2>1 DEF Placed
<1>3. CASE ~WaitOver /\ ~Prelude
  <2>1. scenario' = scenario /\ hst' = hst /\ listed' = listed
    BY <1>3, AtStep, SameHost
  <2>2. PinOf(t)' = PinOf(t) /\ PinOf(Engine)' = PinOf(Engine)
    BY <2>1 DEF PinOf, List, SharedCpus, IsoCpus
  <2>3. /\ thr[t].st \in Placed => OnOwn(t)
        /\ thr[t].st = "starting" /\ t \notin Mains => OnEngine(t)
        /\ thr[Engine].st \in Placed => thr[Engine].cpu = PinOf(Engine)
    BY <1>1 DEF PinInv, OnEngine
  <2>4. CASE thr'[t] = thr[t] \/ GoesOn(t) \/ IsOut(t)
    BY <2>2, <2>3, <2>4 DEF GoesOn, IsOut, OnEngine, Placed
  <2>5. CASE Starts(t)
    BY <2>2, <2>3, <2>5 DEF Starts, Inherits, OnEngine, Placed
  <2>6. CASE Places(t)
    BY <2>2, <2>3, <2>6 DEF Places, OnEngine, Placed
  <2>7. CASE IsOver(t) \/ thr'[t] = Off
    BY <2>7, IdleThread DEF IsOver, Placed
  <2> QED BY <1>1, <2>4, <2>5, <2>6, <2>7 DEF Move
<1> QED BY <1>2, <1>3

(* The groups that are set up change only by being removed.                *)
LEMMA GroupsKept ==
  ASSUME HostOK, ControlInv, [Next]_vars, complete', Both'
  PROVE  WriteNoise \/ (complete /\ Both /\ groups' = groups)
<1>1. CASE MakeGroup("hot", "mkdir_hot", "mkdir_noise") \/ MakeGroup("noise", "mkdir_noise", "write_hot") \/ WriteHot
  <2>1. pc \in Setup /\ complete' = complete
    BY <1>1 DEF MakeGroup, WriteHot, WriteSchemata, Setup, SetupSteps, history
  <2> QED BY <2>1 DEF ControlInv
<1>2. CASE RemoveGroup("hot", "clean_hot", "clean_noise") \/ RemoveGroup("noise", "clean_noise", "revert")
  <2>1. groups \in [Groups -> SUBSET Full] /\ "hot" \in Groups /\ "noise" \in Groups
    BY DEF HostOK, Groups
  <2> QED BY <1>2, <2>1 DEF RemoveGroup, Both
<1>3. CASE groups' = groups /\ complete' = complete
  BY <1>3 DEF Both
<1>4. \/ groups' = groups /\ complete' = complete
      \/ WriteHot \/ WriteNoise
      \/ MakeGroup("hot", "mkdir_hot", "mkdir_noise") \/ MakeGroup("noise", "mkdir_noise", "write_hot")
      \/ RemoveGroup("hot", "clean_hot", "clean_noise") \/ RemoveGroup("noise", "clean_noise", "revert")
  BY DEF Next, Script, Binaries, vars, history, Apply, ApplyFails, SetupFails, Prelude, StartScenario, Launch,
         WaitTick, WaitOver, Exit, CleanFails, RevertFails, Revert, CtrlC, Sigterm, PlaceMain, MainFails,
         PlaceSpawned, SpawnNoise, SpawnWorkers, Spawn, Finish
<1> QED BY <1>1, <1>2, <1>3, <1>4

(* A thread joins the group on its command line, and keeps it.             *)
LEMMA JoinStep ==
  HostOK /\ ScriptOK /\ ThreadsOK /\ ControlInv /\ QuietInv /\ JoinInv /\ [Next]_vars => JoinInv'
<1> SUFFICES ASSUME HostOK, ScriptOK, ThreadsOK, ControlInv, QuietInv, JoinInv, [Next]_vars, complete', Both'
             PROVE  /\ At' \in {"feedhandler", "engine", "exchange", "wait"} \/ (\E t \in Threads : thr'[t].st # "off")
                       => "hot" \in flags' /\ (scenario' = "noisy" => "noise" \in flags')
                    /\ \A t \in HotThreads :
                          thr'[t].st \in Placed \/ (thr'[t].st = "starting" /\ t \notin Mains) => thr'[t].group = "hot"
                    /\ \A t \in Noises :
                          thr'[t].st \in Placed /\ "join" \notin thr'[t].logged => thr'[t].group = "noise"
  BY DEF JoinInv
<1>0. HotThreads \subseteq Threads /\ Noises \subseteq Threads /\ HotThreads \cap Noises = {}
  BY ThreadKinds
<1>1. \A t \in Threads : Move(t)
  BY ThreadStep
<1>2. CASE WriteNoise
  <2>1. pc = "write_noise" /\ pc' = "prelude" /\ thr' = thr
    BY <1>2 DEF WriteNoise, WriteSchemata
  <2>2. At \in Setup /\ At' = "prelude"
    BY <2>1 DEF At, Handler, Setup, SetupSteps
  <2>3. \A t \in Threads : thr'[t].st = "off"
    BY <2>1, <2>2 DEF QuietInv
  <2> QED BY <1>0, <2>2, <2>3 DEF Placed
<1>3. CASE ~WriteNoise
  <2>1. complete /\ Both /\ groups' = groups
    BY <1>3, GroupsKept
  <2>2. At' \in {"feedhandler", "engine", "exchange", "wait"} \/ (\E t \in Threads : thr'[t].st # "off")
        => "hot" \in flags' /\ (scenario' = "noisy" => "noise" \in flags')
    <3>1. CASE WaitOver
      <4>1. At' \in {"scenario", "exit"} /\ \A t \in Threads : thr'[t].st = "off"
        <5>1. At' \in {"scenario", "exit"}
          BY <3>1, AtStep
        <5> QED BY <3>1, <5>1 DEF WaitOver, Off, Idle
      <4> QED BY <4>1
    <3>2. CASE StartScenario
      <4>1. flags' = GroupFlags /\ scenario' = scenario
        BY <3>2 DEF StartScenario
      <4>2. prepped
        BY <2>1 DEF ControlInv
      <4> QED BY <2>1, <4>1, <4>2 DEF GroupFlags, Groups, Both
    <3>3. CASE ~WaitOver /\ ~StartScenario
      <4>1. ASSUME NEW t \in Threads, thr'[t].st # "off"
            PROVE  At \in {"feedhandler", "engine", "exchange", "wait"} \/ \E u \in Threads : thr[u].st # "off"
        <5>1. Launch \/ \E u \in Threads : thr[u].st # "off"
          BY <1>1, <4>1 DEF Move, Starts, Places, GoesOn, IsOver, IsOut, Placed, Off, Idle
        <5> QED BY <5>1, AtStep
      <4>2. UNCHANGED <<scenario, flags>>
        BY <3>3, AtStep
      <4>3. At' \in {"feedhandler", "engine", "exchange", "wait"} =>
            At \in {"feedhandler", "engine", "exchange", "wait"}
        BY <3>3, AtStep
      <4> QED BY <2>1, <4>1, <4>2, <4>3 DEF JoinInv
    <3> QED BY <3>1, <3>2, <3>3
  <2>3. ASSUME NEW t \in HotThreads, thr'[t].st \in Placed \/ (thr'[t].st = "starting" /\ t \notin Mains)
        PROVE  thr'[t].group = "hot"
    <3>0. /\ t \in Threads /\ t \notin Noises /\ Engine \in HotThreads /\ Move(t)
          /\ thr[t].st \in Placed \/ (thr[t].st = "starting" /\ t \notin Mains) => thr[t].group = "hot"
          /\ thr[Engine].st \in Placed => thr[Engine].group = "hot"
      BY <1>0, <1>1, <2>1, ThreadKinds DEF JoinInv
    <3>1. CASE Places(t)
      <4>1. CASE "join" \in thr'[t].logged
        BY <3>0, <3>1, <4>1 DEF Places
      <4>2. CASE "join" \notin thr'[t].logged
        <5>1. "hot" \in flags
          BY <1>0, <2>1, <3>1 DEF JoinInv, Places
        <5>2. ToldGroup(t) = {"hot"} /\ "hot" \in Groups
          BY <3>0, <5>1 DEF ToldGroup, Groups
        <5> QED BY <3>0, <2>1, <3>1, <4>2, <5>2, Joins DEF Places, Both
      <4> QED BY <4>1, <4>2
    <3>2. CASE Starts(t)
      BY <2>3, <3>0, <3>2 DEF Starts, Inherits, Placed
    <3>3. CASE thr'[t] = thr[t] \/ GoesOn(t)
      BY <2>3, <3>0, <3>3 DEF GoesOn
    <3> QED BY <2>3, <3>0, <3>1, <3>2, <3>3, IdleThread DEF Move, IsOver, IsOut, Placed
  <2>4. ASSUME NEW t \in Noises, thr'[t].st \in Placed, "join" \notin thr'[t].logged PROVE thr'[t].group = "noise"
    <3>0. /\ t \in Threads /\ Move(t)
          /\ thr[t].st \in Placed /\ "join" \notin thr[t].logged => thr[t].group = "noise"
      BY <1>0, <1>1, <2>1 DEF JoinInv
    <3>1. CASE Places(t)
      <4>1. scenario = "noisy"
        BY <3>1 DEF QuietInv, Alive, Places
      <4>2. "noise" \in flags
        BY <3>0, <2>1, <3>1, <4>1 DEF JoinInv, Places
      <4>3. ToldGroup(t) = {"noise"} /\ "noise" \in Groups
        BY <4>2 DEF ToldGroup, Groups
      <4> QED BY <2>4, <3>0, <2>1, <3>1, <4>3, Joins DEF Places, Both
    <3>2. CASE thr'[t] = thr[t] \/ GoesOn(t)
      BY <2>4, <3>0, <3>2 DEF GoesOn
    <3> QED BY <2>4, <3>0, <3>1, <3>2, IdleThread DEF Move, Starts, IsOver, IsOut, Placed
  <2> QED BY <2>2, <2>3, <2>4
<1> QED BY <1>2, <1>3

-----------------------------------------------------------------------------
(* What holds throughout.                                                  *)

BenchInv ==
  /\ TypeOK /\ ControlInv /\ TuningInv /\ RestoreInv /\ GroupInv
  /\ QuietInv /\ PinInv /\ JoinInv

(* The script starts with the host as it was, and without a thread.        *)
LEMMA Starting == Init => BenchInv
<1> SUFFICES ASSUME Init PROVE BenchInv
  OBVIOUS
<1>1. \A t \in Threads : thr[t] = Off
  BY DEF Init
<1>2. HostOK
  <2>1. groups \in [Groups -> SUBSET Full]
    BY DEF Init, Absent
  <2> QED BY <2>1 DEF Init, HostOK
<1>3. ScriptOK
  <2>1. elapsed \in 0 .. Timeout /\ signals \in 0 .. MaxSignals
        /\ scenario \in {"iso", "noisy"} /\ flags \subseteq Groups
    BY BenchAssumption DEF Init
  <2>2. prepped \in BOOLEAN /\ complete \in BOOLEAN /\ cut \in BOOLEAN /\ torn \in BOOLEAN
    BY Zenon DEF Init
  <2>3. listed = {} /\ failed = {}
    BY DEF Init
  <2> QED BY <2>1, <2>2, <2>3 DEF ScriptOK
<1>4. ThreadsOK
  BY DEF Init, ThreadsOK, Off, Idle
<1>5. pc \in {"apply", "prelude"} /\ (prod => pc = "apply") /\ back = "ended"
  BY DEF Init
<1>6. ControlInv /\ TuningInv
  BY <1>5 DEF Init, ControlInv, TuningInv, Setup, SetupSteps, Points, Handler
<1>7. RestoreInv /\ GroupInv
  BY <1>5 DEF Init, RestoreInv, HostRestored, GroupInv
<1>8. QuietInv /\ PinInv /\ JoinInv
  <2>1. At \in {"apply", "prelude"}
    BY <1>5 DEF At, Handler
  <2> QED BY <1>1, <2>1, ThreadKinds DEF Init, QuietInv, PinInv, JoinInv, Alive, Off, Idle, Placed
<1> QED BY <1>2, <1>3, <1>4, <1>6, <1>7, <1>8 DEF BenchInv, TypeOK

(* The invariant is inductive.                                             *)
THEOREM BenchInvariant == Spec => []BenchInv
<1>1. Init => BenchInv
  BY Starting
<1>2. BenchInv /\ [Next]_vars => BenchInv'
  <2> SUFFICES ASSUME BenchInv, [Next]_vars PROVE BenchInv'
    OBVIOUS
  <2> USE DEF BenchInv, TypeOK
  <2>1. HostOK' /\ ScriptOK'
    BY HostStep, ScriptStep
  <2>2. ThreadsOK'
    <3>1. thr' \in [Threads -> Thread]
      BY ThreadStep
    <3> QED BY <3>1, SameHost DEF ThreadsOK, Thread, States
  <2>3. ControlInv' /\ TuningInv' /\ RestoreInv' /\ GroupInv'
    BY ControlStep, TuningStep, RestoreStep, GroupStep
  <2>4. QuietInv' /\ PinInv' /\ JoinInv'
    BY QuietStep, PinStep, JoinStep
  <2> QED BY <2>1, <2>2, <2>3, <2>4
<1> QED BY <1>1, <1>2, PTL DEF Spec

(* The variables of the model stay within their types; a thread is pinned  *)
(* to a CPU of the host, also when its list names others.                  *)
THEOREM TypeCorrect == Spec => []TypeOK
<1>1. BenchInv => TypeOK
  BY DEF BenchInv
<1> QED BY <1>1, BenchInvariant, PTL

(***************************************************************************)
(* "Restores prior tuning at the end via host-prep --revert"               *)
(* (run-bench.sh:22): on every host, whichever command after host-prep     *)
(* --apply fails and however often and wherever the script is interrupted, *)
(* the last --revert and the last --clean did all they report, and a       *)
(* failure of one takes nothing from the other.                            *)
(***************************************************************************)
THEOREM HostIsRestored == Spec => []HostRestored
<1>1. BenchInv => HostRestored
  BY DEF BenchInv, RestoreInv
<1> QED BY <1>1, BenchInvariant, PTL

(***************************************************************************)
(* Until a handler tore it down, the host is tuned while a thread of the   *)
(* hot path is up, and that thread is in the hot group: workers spawned    *)
(* late and threads of the second scenario too.                            *)
(***************************************************************************)
THEOREM PreparedIsMeasured == Spec => []MeasuredAsPrepared
<1>1. BenchInv => MeasuredAsPrepared
  BY DEF BenchInv, TuningInv, GroupInv, JoinInv, MeasuredAsPrepared, Placed
<1> QED BY <1>1, BenchInvariant, PTL

(***************************************************************************)
(* "So its accesses get the noise CBM, not the hot-path one" (noise.rs:    *)
(* 27-28): for every cache, share and number of threads, a noise thread    *)
(* that logged no failure and a thread of the hot path use no way in       *)
(* common.                                                                 *)
(***************************************************************************)
THEOREM NoiseIsConfined == Spec => []NoiseConfined
<1>1. BenchInv => NoiseConfined
  <2> SUFFICES ASSUME BenchInv, complete, \A g \in Groups : groups[g] # Absent,
                      NEW t \in Noises, NEW u \in HotThreads, thr[t].st = "up", thr[u].st = "up",
                      "join" \notin thr[t].logged
               PROVE  WaysOf(thr[t].group) \cap WaysOf(thr[u].group) = {}
    BY DEF NoiseConfined
  <2>1. Both
    BY DEF Both, Groups
  <2>2. groups["hot"] = HM /\ groups["noise"] = NM
    BY <2>1 DEF BenchInv, GroupInv, Both
  <2>3. thr[t].group = "noise" /\ thr[u].group = "hot"
    BY <2>1 DEF BenchInv, JoinInv, Placed
  <2>4. HM \cap NM = {}
    BY HostMasks DEF BenchInv, TypeOK
  <2> QED BY <2>2, <2>3, <2>4 DEF WaysOf
<1> QED BY <1>1, BenchInvariant, PTL

(* The place of a thread of the hot path in its list.                      *)
Slot(t) == IF t[1] = "exchange" THEN 0 ELSE IF t[1] = "feedhandler" THEN 1
           ELSE IF t[1] = "engine" THEN 2 ELSE 3 + t[2]

(* Every thread of the hot path has a place of its own.                    *)
LEMMA Slots ==
  /\ \A t \in HotThreads : Slot(t) \in 0 .. 2 + Workers /\ PinOf(t) = Nth(List, Slot(t))
  /\ \A t, u \in HotThreads : t # u => Slot(t) # Slot(u)
<1>0. Workers \in Nat
  BY BenchAssumption
<1>1. ASSUME NEW t \in Mains
      PROVE  \/ t = <<"exchange", 0>> /\ Slot(t) = 0 /\ PinOf(t) = Nth(List, Slot(t))
             \/ t = <<"feedhandler", 0>> /\ Slot(t) = 1 /\ PinOf(t) = Nth(List, Slot(t))
             \/ t = <<"engine", 0>> /\ Slot(t) = 2 /\ PinOf(t) = Nth(List, Slot(t))
  BY DEF Mains, Slot, PinOf
<1>2. ASSUME NEW t \in WorkerThreads
      PROVE  \E i \in 0 .. Workers - 1 : t = <<"worker", i>> /\ Slot(t) = 3 + i /\ PinOf(t) = Nth(List, Slot(t))
  BY DEF WorkerThreads, Slot, PinOf, FirstWorker
<1>3. ASSUME NEW t \in HotThreads PROVE Slot(t) \in 0 .. 2 + Workers /\ PinOf(t) = Nth(List, Slot(t))
  BY <1>0, <1>1, <1>2, ThreadKinds
<1>4. ASSUME NEW t \in HotThreads, NEW u \in HotThreads, t # u PROVE Slot(t) # Slot(u)
  <2>1. CASE t \in Mains /\ u \in Mains
    BY <1>1, <1>4, <2>1
  <2>2. CASE t \in Mains /\ u \in WorkerThreads
    BY <1>0, <1>1, <1>2, <2>2
  <2>3. CASE t \in WorkerThreads /\ u \in Mains
    BY <1>0, <1>1, <1>2, <2>3
  <2>4. CASE t \in WorkerThreads /\ u \in WorkerThreads
    BY <1>0, <1>2, <1>4, <2>4
  <2> QED BY <2>1, <2>2, <2>3, <2>4, ThreadKinds
<1> QED BY <1>3, <1>4

(***************************************************************************)
(* pick_pinning and run_with_workers: however many workers and whichever   *)
(* CPUs are offline, on a list with a CPU for each thread of the hot path  *)
(* a shared CPU is the engine's, and every other thread on it a worker     *)
(* that logged that it could not be pinned.                                *)
(***************************************************************************)
THEOREM HotPathIsSpread == Spec => []HotThreadsApart
<1>1. BenchInv => HotThreadsApart
  <2> SUFFICES ASSUME BenchInv, Cardinality(List) >= 3 + Workers, NEW t \in HotThreads, NEW u \in HotThreads,
                      t # u, thr[t].st = "up", thr[u].st = "up", thr[t].cpu = thr[u].cpu
               PROVE  \A w \in {t, u} : w = Engine \/ "pin" \in thr[w].logged
    BY DEF HotThreadsApart
  <2>1. ASSUME NEW x \in HotThreads, NEW y \in HotThreads, x # y PROVE PinOf(x) # PinOf(y)
    <3>1. PICK i \in 0 .. 2 + Workers, j \in 0 .. 2 + Workers :
               i # j /\ PinOf(x) = Nth(List, i) /\ PinOf(y) = Nth(List, j)
      BY <2>1, Slots
    <3>2. List \subseteq Nat /\ IsFiniteSet(List)
      BY CpuLists DEF BenchInv, TypeOK, HostOK, ScriptOK
    <3>3. Cardinality(List) \in Nat
      BY <3>2, FS_CardinalityType
    <3>4. i \in Nat /\ j \in Nat /\ i < Cardinality(List) /\ j < Cardinality(List)
      BY <3>3, BenchAssumption
    <3> QED BY <3>1, <3>2, <3>4, NthApart
  <2>2. ASSUME NEW w \in {t, u}
        PROVE  thr[w].cpu = PinOf(w) \/ ("pin" \in thr[w].logged /\ thr[w].cpu = PinOf(Engine))
    BY ThreadKinds DEF BenchInv, PinInv, Placed, OnEngine
  <2>3. Engine \in HotThreads
    BY ThreadKinds
  <2> QED BY <2>1, <2>2, <2>3
<1> QED BY <1>1, BenchInvariant, PTL

-----------------------------------------------------------------------------
(* host-prep.sh.  The settings that read as a menu, and those whose        *)
(* snapshot was cut off, are excepted, as in the properties.               *)

PrepTexts == {Reads(k, v) : k \in KnobSet, v \in Values}

PrepTypeOK ==
  /\ val \in [KnobSet -> Values] /\ orig \in [KnobSet -> Values]
  /\ saved \in [KnobSet -> PrepTexts \cup {None, Empty}]
  /\ action \in {"apply", "revert", "idle"} /\ at \in Nat \ {0}
  /\ step \in {"snapshot", "file", "write"}
  /\ step = "file" => current \in PrepTexts /\ Knobs[at] \in KnobSet
  /\ skip \subseteq KnobSet /\ damaged \subseteq KnobSet
  /\ clean \in BOOLEAN

(* The settings the properties speak of.                                   *)
Plain == KnobSet \ (MenuKnobs \cup damaged)

(* A snapshot is empty only between its creation and its writing.          *)
NoHalfSnapshot == \A k \in Plain : saved[k] = Empty => step = "file" /\ k = Knobs[at]

(* What a call of write_sysfs has done when it is about to write: in an    *)
(* apply the snapshot is there, in a revert the value is back.             *)
CallDone(k) ==
  /\ action = "apply" => saved[k] \notin {None, Empty}
  /\ action = "revert" => val[k] = orig[k]

(* When it is about to fill the snapshot, the original value is in force.  *)
HasRead(k) == current = Reads(k, orig[k]) /\ val[k] = orig[k]

CallsDone ==
  /\ step = "write" => \A k \in Plain : k = Knobs[at] => CallDone(k)
  /\ step = "file" => action = "apply" /\ \A k \in Plain : k = Knobs[at] => HasRead(k)

(* A revert has restored the settings it has gone through, ...             *)
RevertedSoFar ==
  action = "revert" =>
     \A i \in DOMAIN Knobs :
        i < at /\ Knobs[i] \in Plain \ skip => val[Knobs[i]] = orig[Knobs[i]]

(* ... and clean is set only by one that went through all.                 *)
CleanIsRestored ==
  clean => action = "idle" /\ \A k \in Plain \ skip : val[k] = orig[k]

(* The inductive invariant.                                                *)
PrepInv ==
  SnapshotIsOriginal /\ NoHalfSnapshot /\ CallsDone /\ RevertedSoFar /\ CleanIsRestored

(* The kernel refuses at most the first write of a setting.                *)
OnlyFirstRefused == Refusals \subseteq {"first"}

-----------------------------------------------------------------------------
(* The end of write_sysfs keeps the script's place and clean in their      *)
(* types.                                                                  *)
LEMMA ReturnTypes ==
  ASSUME PrepTypeOK, Return
  PROVE  /\ action' \in {"apply", "revert", "idle"} /\ at' \in Nat \ {0}
         /\ step' = "snapshot" /\ clean' \in BOOLEAN
<1>1. CASE at = Len(Knobs)
  <2>1. action' = "idle" /\ at' = 1 /\ step' = "snapshot" /\ clean' = (action = "revert")
    BY <1>1 DEF Return
  <2>2. clean' \in BOOLEAN
    BY <2>1, Zenon
  <2> QED BY <2>1, <2>2
<1>2. CASE at # Len(Knobs)
  BY <1>2 DEF Return, PrepTypeOK
<1> QED BY <1>1, <1>2

(* Type correctness: every command of host-prep.sh keeps settings and      *)
(* snapshot files in their types.                                          *)
THEOREM PrepTypeCorrect == PrepSpec => []PrepTypeOK
<1> USE KnobsAssumption
<1>1. PrepInit => PrepTypeOK
  BY DEF PrepInit, PrepTypeOK
<1>2. PrepTypeOK /\ [PrepNext]_prepVars => PrepTypeOK'
  <2> SUFFICES ASSUME PrepTypeOK, [PrepNext]_prepVars PROVE PrepTypeOK'
    OBVIOUS
  <2> USE DEF PrepTypeOK
  <2>1. ASSUME NEW a \in {"apply", "revert"}, NEW options \in SUBSET Options, Start(a, options)
        PROVE  PrepTypeOK'
    <3>1. action' \in {"apply", "revert", "idle"} /\ clean' \in BOOLEAN
      BY <2>1 DEF Start
    <3>2. UNION options \subseteq KnobSet
      OBVIOUS
    <3> QED BY <2>1, <3>1, <3>2 DEF Start
  <2>2. ASSUME NEW k \in KnobSet, Skip(k) PROVE PrepTypeOK'
    BY <2>2, ReturnTypes DEF Skip
  <2>3. ASSUME NEW k \in KnobSet, Snapshot(k) PROVE PrepTypeOK'
    <3>1. current' \in PrepTexts /\ Knobs[at] \in KnobSet
      BY <2>3 DEF Snapshot, PrepTexts
    <3>2. saved' \in [KnobSet -> PrepTexts \cup {None, Empty}]
      BY <2>3 DEF Snapshot
    <3> QED BY <2>3, <3>1, <3>2 DEF Snapshot
  <2>4. ASSUME NEW k \in KnobSet, WriteSnapshot(k) PROVE PrepTypeOK'
    <3>1. saved' \in [KnobSet -> PrepTexts \cup {None, Empty}]
      BY <2>4 DEF WriteSnapshot
    <3> QED BY <2>4, <3>1 DEF WriteSnapshot
  <2>5. ASSUME NEW k \in KnobSet, NEW v \in Targets[k], Set(k, v) PROVE PrepTypeOK'
    <3>1. v \in Values
      OBVIOUS
    <3>2. val' \in [KnobSet -> Values]
      BY <2>5, <3>1 DEF Set
    <3> QED BY <2>5, <3>2, ReturnTypes DEF Set
  <2>6. ASSUME NEW k \in KnobSet, WriteFailed(k) PROVE PrepTypeOK'
    BY <2>6, ReturnTypes DEF WriteFailed
  <2>7. ASSUME NEW k \in KnobSet, NEW v \in Targets[k], Already(k, v) PROVE PrepTypeOK'
    BY <2>7, ReturnTypes DEF Already
  <2>8. ASSUME NEW k \in KnobSet, Restore(k) PROVE PrepTypeOK'
    <3>1. val' \in [KnobSet -> Values]
      BY <2>8 DEF Restore, Legal
    <3> QED BY <2>8, <3>1 DEF Restore
  <2>9. ASSUME NEW k \in KnobSet, RemoveSnapshot(k) PROVE PrepTypeOK'
    BY <2>9, ReturnTypes DEF RemoveSnapshot
  <2>10. ASSUME NEW k \in KnobSet, NoSnapshot(k) PROVE PrepTypeOK'
    BY <2>10, ReturnTypes DEF NoSnapshot
  <2>11. CASE Killed
    <3>1. damaged' \subseteq KnobSet
      BY <2>11 DEF Killed
    <3> QED BY <2>11, <3>1 DEF Killed
  <2>12. CASE UNCHANGED prepVars
    BY <2>12 DEF prepVars
  <2> QED BY <2>1, <2>2, <2>3, <2>4, <2>5, <2>6, <2>7, <2>8, <2>9, <2>10, <2>11, <2>12 DEF PrepNext
<1> QED BY <1>1, <1>2, PTL DEF PrepSpec

-----------------------------------------------------------------------------
(* Where write_sysfs returns to, from an apply and from a revert.          *)
LEMMA ReturnFromApply ==
  ASSUME PrepTypeOK, ~clean, action = "apply", Return
  PROVE  step' = "snapshot" /\ action' # "revert" /\ ~clean'
<1>1. CASE at = Len(Knobs)
  BY <1>1 DEF Return
<1>2. CASE at # Len(Knobs)
  BY <1>2 DEF Return
<1> QED BY <1>1, <1>2

(* A revert that returns has one more setting behind it.                   *)
LEMMA ReturnFromRevert ==
  ASSUME PrepTypeOK, RevertedSoFar, ~clean, action = "revert",
         Return, UNCHANGED <<val, orig, skip, damaged>>,
         \A k \in Plain \ skip : k = Knobs[at] => val[k] = orig[k]
  PROVE  step' = "snapshot" /\ RevertedSoFar' /\ CleanIsRestored'
<1> USE KnobsAssumption
<1>1. \A i \in DOMAIN Knobs :
         i <= at /\ Knobs[i] \in Plain \ skip => val[Knobs[i]] = orig[Knobs[i]]
  <2> SUFFICES ASSUME NEW i \in DOMAIN Knobs, i <= at, Knobs[i] \in Plain \ skip
               PROVE  val[Knobs[i]] = orig[Knobs[i]]
    OBVIOUS
  <2>1. CASE i = at
    BY <2>1
  <2>2. CASE i < at
    BY <2>2 DEF RevertedSoFar
  <2> QED BY <2>1, <2>2 DEF PrepTypeOK
<1>2. Plain' = Plain /\ skip' = skip
  BY DEF Plain
<1>3. CASE at = Len(Knobs)
  <2>1. action' = "idle" /\ at' = 1 /\ step' = "snapshot"
    BY <1>3 DEF Return
  <2>2. \A k \in Plain \ skip : val[k] = orig[k]
    <3> TAKE k \in Plain \ skip
    <3>1. PICK i \in DOMAIN Knobs : k = Knobs[i]
      BY DEF Plain, KnobSet
    <3>2. i <= at
      BY <1>3
    <3> QED BY <1>1, <3>1, <3>2
  <2> QED BY <1>2, <2>1, <2>2 DEF RevertedSoFar, CleanIsRestored
<1>4. CASE at # Len(Knobs)
  <2>1. at' = at + 1 /\ step' = "snapshot" /\ action' = action /\ clean' = clean
    BY <1>4 DEF Return
  <2>2. RevertedSoFar'
    BY <1>1, <1>2, <2>1 DEF RevertedSoFar, PrepTypeOK
  <2> QED BY <2>1, <2>2 DEF CleanIsRestored
<1> QED BY <1>3, <1>4

(* What a plain setting reads as, and that writing that back is accepted.  *)
LEMMA PlainReads ==
  ASSUME NEW k \in Plain, NEW v \in Values
  PROVE  /\ Reads(k, v) = <<"value", v>> /\ Reads(k, v) \notin {None, Empty}
         /\ Legal(Reads(k, v)) /\ Reads(k, v)[2] = v
BY KnobsAssumption DEF Plain, Reads, Legal, Empty

(* The invariant holds after every command of any sequence of runs,        *)
(* wherever they were killed: write_sysfs takes a snapshot before it       *)
(* writes, and never over an older one (host-prep.sh:84-110).              *)
THEOREM PrepInvariant ==
  ASSUME OnlyFirstRefused
  PROVE  PrepSpec => []PrepInv
<1> USE KnobsAssumption
<1>1. PrepInit => PrepInv
  BY DEF PrepInit, PrepInv, SnapshotIsOriginal, NoHalfSnapshot, CallsDone, RevertedSoFar,
         CleanIsRestored, Plain
<1>2. PrepTypeOK /\ PrepInv /\ [PrepNext]_prepVars => PrepInv'
  <2> SUFFICES ASSUME PrepTypeOK, PrepInv, [PrepNext]_prepVars PROVE PrepInv'
    OBVIOUS
  <2>0. /\ SnapshotIsOriginal /\ NoHalfSnapshot /\ CallsDone /\ RevertedSoFar /\ CleanIsRestored
        /\ action # "idle" => ~clean
        /\ \A k \in Plain : k \in KnobSet /\ k \notin MenuKnobs /\ val[k] \in Values /\ orig[k] \in Values
        /\ damaged' = damaged => Plain' = Plain
    BY DEF PrepInv, CleanIsRestored, PrepTypeOK, Plain
  <2>00. \A k \in Plain : /\ val[k] # orig[k] => saved[k] \notin {None, Empty}
                          /\ saved[k] \notin {None, Empty} => saved[k] = Reads(k, orig[k])
    BY <2>0 DEF SnapshotIsOriginal, Plain
  <2>1. ASSUME NEW a \in {"apply", "revert"}, NEW options \in SUBSET Options, Start(a, options)
        PROVE  PrepInv'
    <3>1. /\ UNCHANGED <<val, saved, orig, damaged>> /\ step' = "snapshot"
          /\ at' = 1 /\ ~clean' /\ action = "idle"
      BY <2>1 DEF Start
    <3>2. SnapshotIsOriginal'
      BY <2>0, <3>1 DEF SnapshotIsOriginal
    <3>3. NoHalfSnapshot'
      BY <2>0, <3>1 DEF NoHalfSnapshot, CallsDone
    <3>4. CallsDone' /\ RevertedSoFar' /\ CleanIsRestored'
      BY <3>1 DEF CallsDone, RevertedSoFar, CleanIsRestored
    <3> QED BY <3>2, <3>3, <3>4 DEF PrepInv
  <2>2. ASSUME NEW k \in KnobSet, Skip(k) PROVE PrepInv'
    <3>1. /\ action # "idle" /\ k = Knobs[at] /\ k \in skip /\ step = "snapshot" /\ Return
          /\ UNCHANGED <<val, saved, skip, orig, damaged>>
      BY <2>2 DEF Skip
    <3>2. step' = "snapshot" /\ RevertedSoFar' /\ CleanIsRestored'
      <4>1. CASE action = "apply"
        BY <2>0, <3>1, <4>1, ReturnFromApply DEF RevertedSoFar, CleanIsRestored
      <4>2. CASE action = "revert"
        BY <2>0, <3>1, <4>2, ReturnFromRevert
      <4> QED BY <3>1, <4>1, <4>2 DEF PrepTypeOK
    <3>3. SnapshotIsOriginal' /\ NoHalfSnapshot'
      BY <2>0, <3>1 DEF SnapshotIsOriginal, NoHalfSnapshot
    <3> QED BY <3>2, <3>3 DEF PrepInv, CallsDone
  <2>3. ASSUME NEW k \in KnobSet, Snapshot(k) PROVE PrepInv'
    <3>1. /\ action = "apply" /\ k = Knobs[at] /\ step = "snapshot"
          /\ UNCHANGED <<val, action, at, skip, orig, clean, damaged>>
          /\ current' = Reads(k, val[k])
      BY <2>3 DEF Snapshot
    <3>2. CASE saved[k] = None
      <4>1. saved' = [saved EXCEPT ![k] = Empty] /\ step' = "file"
        BY <2>3, <3>2 DEF Snapshot, NoneYet
      <4>2. \A h \in Plain : saved'[h] = IF h = k THEN Empty ELSE saved[h]
        BY <2>0, <4>1 DEF PrepTypeOK
      <4>3. k \in Plain => val[k] = orig[k]
        BY <2>00, <3>2
      <4>4. SnapshotIsOriginal'
        BY <2>00, <3>1, <4>2, <4>3 DEF SnapshotIsOriginal, Plain
      <4>5. NoHalfSnapshot'
        BY <2>0, <3>1, <4>1, <4>2 DEF NoHalfSnapshot
      <4>6. CallsDone'
        BY <2>0, <3>1, <4>1, <4>3 DEF CallsDone, HasRead
      <4>7. RevertedSoFar' /\ CleanIsRestored'
        BY <2>0, <3>1 DEF RevertedSoFar, CleanIsRestored
      <4> QED BY <4>4, <4>5, <4>6, <4>7 DEF PrepInv
    <3>3. CASE saved[k] # None
      <4>1. saved' = saved /\ step' = "write"
        BY <2>3, <3>3 DEF Snapshot, NoneYet
      <4>2. SnapshotIsOriginal' /\ NoHalfSnapshot'
        BY <2>0, <3>1, <4>1 DEF SnapshotIsOriginal, NoHalfSnapshot
      <4>3. CallsDone'
        BY <2>0, <3>1, <3>3, <4>1 DEF CallsDone, CallDone, NoHalfSnapshot
      <4>4. RevertedSoFar' /\ CleanIsRestored'
        BY <2>0, <3>1 DEF RevertedSoFar, CleanIsRestored
      <4> QED BY <4>2, <4>3, <4>4 DEF PrepInv
    <3> QED BY <3>2, <3>3
  <2>4. ASSUME NEW k \in KnobSet, WriteSnapshot(k) PROVE PrepInv'
    <3>1. /\ action = "apply" /\ k = Knobs[at] /\ step = "file" /\ step' = "write"
          /\ saved' = [saved EXCEPT ![k] = current]
          /\ UNCHANGED <<val, action, at, skip, orig, clean, damaged>>
      BY <2>0, <2>4 DEF WriteSnapshot, CallsDone
    <3>2. \A h \in Plain : saved'[h] = IF h = k THEN current ELSE saved[h]
      BY <2>0, <3>1 DEF PrepTypeOK
    <3>3. k \in Plain => HasRead(k) /\ current \notin {None, Empty}
      <4>1. k \in Plain => HasRead(k)
        BY <2>0, <3>1 DEF CallsDone
      <4> QED BY <2>0, <4>1, PlainReads DEF HasRead
    <3>4. SnapshotIsOriginal'
      BY <2>00, <3>1, <3>2, <3>3 DEF SnapshotIsOriginal, HasRead, Plain
    <3>5. NoHalfSnapshot'
      BY <2>0, <3>1, <3>2, <3>3 DEF NoHalfSnapshot
    <3>6. CallsDone'
      BY <2>0, <3>1, <3>2, <3>3 DEF CallsDone, CallDone
    <3>7. RevertedSoFar' /\ CleanIsRestored'
      BY <2>0, <3>1 DEF RevertedSoFar, CleanIsRestored
    <3> QED BY <3>4, <3>5, <3>6, <3>7 DEF PrepInv
  <2>5. ASSUME NEW k \in KnobSet, NEW v \in Targets[k], Set(k, v) PROVE PrepInv'
    <3>1. /\ action = "apply" /\ k = Knobs[at] /\ step = "write" /\ Return
          /\ val' = [val EXCEPT ![k] = v] /\ UNCHANGED <<saved, skip, orig, damaged>>
      BY <2>5 DEF Set
    <3>2. SnapshotIsOriginal'
      <4>1. \A h \in Plain : h # k => val'[h] = val[h]
        BY <2>0, <3>1 DEF PrepTypeOK
      <4>2. k \in Plain => saved[k] \notin {None, Empty}
        BY <2>0, <3>1 DEF CallsDone, CallDone
      <4> QED BY <2>00, <3>1, <4>1, <4>2 DEF SnapshotIsOriginal, Plain
    <3>3. NoHalfSnapshot'
      BY <2>0, <3>1 DEF NoHalfSnapshot
    <3> QED BY <2>0, <3>1, <3>2, <3>3, ReturnFromApply
            DEF PrepInv, CallsDone, RevertedSoFar, CleanIsRestored
  <2>6. ASSUME NEW k \in KnobSet, WriteFailed(k) PROVE PrepInv'
    <3>1. /\ action = "apply" /\ step = "write" /\ Return /\ saved' = [saved EXCEPT ![k] = None]
          /\ UNCHANGED <<val, skip, orig, damaged>> /\ val[k] = orig[k]
      BY <2>6 DEF WriteFailed, OnlyFirstRefused
    <3>2. \A h \in Plain : saved'[h] = IF h = k THEN None ELSE saved[h]
      BY <2>0, <3>1 DEF PrepTypeOK
    <3>3. SnapshotIsOriginal'
      BY <2>00, <3>1, <3>2 DEF SnapshotIsOriginal, Plain
    <3>4. NoHalfSnapshot'
      BY <2>0, <3>1, <3>2 DEF NoHalfSnapshot
    <3> QED BY <2>0, <3>1, <3>3, <3>4, ReturnFromApply
            DEF PrepInv, CallsDone, RevertedSoFar, CleanIsRestored
  <2>7. ASSUME NEW k \in KnobSet, NEW v \in Targets[k], Already(k, v) PROVE PrepInv'
    <3>1. /\ action = "apply" /\ step = "write" /\ Return
          /\ UNCHANGED <<val, saved, skip, orig, damaged>>
      BY <2>7 DEF Already
    <3>2. SnapshotIsOriginal' /\ NoHalfSnapshot'
      BY <2>0, <3>1 DEF SnapshotIsOriginal, NoHalfSnapshot
    <3> QED BY <2>0, <3>1, <3>2, ReturnFromApply
            DEF PrepInv, CallsDone, RevertedSoFar, CleanIsRestored
  <2>8. ASSUME NEW k \in KnobSet, Restore(k) PROVE PrepInv'
    <3>1. /\ action = "revert" /\ k = Knobs[at] /\ step = "snapshot" /\ step' = "write"
          /\ saved[k] # None /\ UNCHANGED <<saved, action, at, skip, orig, clean, damaged>>
      BY <2>8 DEF Restore
    <3>2. val' = [val EXCEPT ![k] = saved[k][2]] \/ val' = val
      BY <2>8 DEF Restore
    <3>3. ASSUME k \in Plain PROVE val'[k] = orig[k]
      <4>1. saved[k] = Reads(k, orig[k])
        BY <2>0, <2>00, <3>1, <3>3 DEF NoHalfSnapshot
      <4>2. Legal(saved[k]) /\ saved[k][2] = orig[k]
        BY <2>0, <3>3, <4>1, PlainReads
      <4>3. val' = [val EXCEPT ![k] = saved[k][2]]
        BY <2>8, <4>2 DEF Restore, OnlyFirstRefused
      <4> QED BY <4>2, <4>3 DEF PrepTypeOK
    <3>4. \A h \in KnobSet : h # k => val'[h] = val[h]
      BY <3>2 DEF PrepTypeOK
    <3>5. SnapshotIsOriginal'
      BY <2>00, <3>1, <3>3, <3>4 DEF SnapshotIsOriginal, Plain
    <3>6. NoHalfSnapshot' /\ CallsDone'
      BY <2>0, <3>1, <3>3 DEF NoHalfSnapshot, CallsDone, CallDone
    <3>7. RevertedSoFar'
      BY <2>0, <3>1, <3>3, <3>4 DEF RevertedSoFar, Plain, KnobSet
    <3>8. CleanIsRestored'
      BY <2>0, <3>1 DEF CleanIsRestored
    <3> QED BY <3>5, <3>6, <3>7, <3>8 DEF PrepInv
  <2>9. ASSUME NEW k \in KnobSet, RemoveSnapshot(k) PROVE PrepInv'
    <3>1. /\ action = "revert" /\ k = Knobs[at] /\ step = "write" /\ Return
          /\ saved' = [saved EXCEPT ![k] = None] /\ UNCHANGED <<val, skip, orig, damaged>>
      BY <2>9 DEF RemoveSnapshot
    <3>2. k \in Plain => val[k] = orig[k]
      BY <2>0, <3>1 DEF CallsDone, CallDone
    <3>3. \A h \in Plain : saved'[h] = IF h = k THEN None ELSE saved[h]
      BY <2>0, <3>1 DEF PrepTypeOK
    <3>4. SnapshotIsOriginal'
      BY <2>00, <3>1, <3>2, <3>3 DEF SnapshotIsOriginal, Plain
    <3>5. NoHalfSnapshot'
      BY <2>0, <3>1, <3>3 DEF NoHalfSnapshot
    <3>6. step' = "snapshot" /\ RevertedSoFar' /\ CleanIsRestored'
      BY <2>0, <3>1, <3>2, ReturnFromRevert
    <3> QED BY <3>4, <3>5, <3>6 DEF PrepInv, CallsDone
  <2>10. ASSUME NEW k \in KnobSet, NoSnapshot(k) PROVE PrepInv'
    <3>1. /\ action = "revert" /\ k = Knobs[at] /\ step = "snapshot" /\ saved[k] = None /\ Return
          /\ UNCHANGED <<val, saved, skip, orig, damaged>>
      BY <2>10 DEF NoSnapshot
    <3>2. k \in Plain => val[k] = orig[k]
      BY <2>00, <3>1
    <3>3. SnapshotIsOriginal' /\ NoHalfSnapshot'
      BY <2>0, <3>1 DEF SnapshotIsOriginal, NoHalfSnapshot
    <3>4. step' = "snapshot" /\ RevertedSoFar' /\ CleanIsRestored'
      BY <2>0, <3>1, <3>2, ReturnFromRevert
    <3> QED BY <3>3, <3>4 DEF PrepInv, CallsDone
  <2>11. CASE Killed
    <3>1. /\ action' = "idle" /\ step' = "snapshot" /\ ~clean' /\ UNCHANGED <<val, saved, orig>>
          /\ damaged' = IF step = "file" THEN damaged \cup {Knobs[at]} ELSE damaged
      BY <2>0, <2>11 DEF Killed
    <3>2. \A h \in Plain' : h \in Plain /\ ~(step = "file" /\ h = Knobs[at])
      BY <3>1 DEF Plain
    <3>3. SnapshotIsOriginal'
      BY <2>00, <3>1, <3>2 DEF SnapshotIsOriginal, Plain
    <3>4. NoHalfSnapshot'
      BY <2>0, <3>1, <3>2 DEF NoHalfSnapshot
    <3> QED BY <3>1, <3>3, <3>4 DEF PrepInv, CallsDone, RevertedSoFar, CleanIsRestored
  <2>12. CASE UNCHANGED prepVars
    <3>1. UNCHANGED <<val, saved, action, at, step, current, skip, orig, clean, damaged>>
      BY <2>12 DEF prepVars
    <3> QED BY <2>0, <3>1
            DEF PrepInv, SnapshotIsOriginal, NoHalfSnapshot, CallsDone, CallDone, HasRead,
                RevertedSoFar, CleanIsRestored
  <2> QED BY <2>1, <2>2, <2>3, <2>4, <2>5, <2>6, <2>7, <2>8, <2>9, <2>10, <2>11, <2>12 DEF PrepNext
<1> QED BY <1>1, <1>2, PrepTypeCorrect, PTL DEF PrepSpec

(* "Re-running --apply is idempotent" (host-prep.sh:24): no run, killed    *)
(* or complete, overwrites or loses the snapshot of an original value; but *)
(* a kill while a snapshot is being written leaves it empty for good.      *)
THEOREM SnapshotsAreKept ==
  ASSUME OnlyFirstRefused
  PROVE  PrepSpec => []SnapshotIsOriginal
<1>1. PrepInv => SnapshotIsOriginal
  BY DEF PrepInv
<1> QED BY <1>1, PrepInvariant, PTL

(* "--revert restores the prior values exactly" (host-prep.sh:22-23):      *)
(* after a revert that ran to its end, whatever came before, the settings  *)
(* its options do not leave out are back; with the exceptions of           *)
(* RevertRestores.                                                         *)
THEOREM RevertIsExact ==
  ASSUME OnlyFirstRefused
  PROVE  PrepSpec => []RevertRestores
<1>1. PrepInv => RevertRestores
  BY DEF PrepInv, CleanIsRestored, RevertRestores, Plain
<1> QED BY <1>1, PrepInvariant, PTL
=============================================================================
