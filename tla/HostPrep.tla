------------------------------ MODULE HostPrep ------------------------------
(***************************************************************************)
(* scripts/host-prep.sh: --apply and --revert of kernel settings through   *)
(* write_sysfs, which snapshots a setting before it is first touched.  Any *)
(* run may be killed between two commands, and runs follow one another in  *)
(* any order, --apply after --apply with other values (HUGEPAGES=n) and    *)
(* with other options (--no-irq, --no-hugepages, --keep-smt) too.          *)
(*                                                                         *)
(* A knob is a file that takes one of its legal values.  Some answer a     *)
(* read with a menu of all of them, the chosen one in brackets             *)
(* (transparent_hugepage/enabled and defrag): a menu is no legal value.    *)
(* A knob that is missing or not writable is skipped by every run, and is  *)
(* left out.                                                               *)
(***************************************************************************)
EXTENDS Naturals, Sequences

CONSTANTS Knobs,         \* the files the script writes, in its order
          MenuKnobs,     \* those of them that read as a menu
          Values,        \* the legal values
          None,          \* no snapshot
          Targets,       \* Targets[k]: the values --apply may be asked for; more
                         \* than one for nr_hugepages, which HUGEPAGES chooses
          Options,       \* the knobs each option leaves out of a run
          Refusals       \* when the kernel may refuse a write: "first", of a
                         \* setting no run changed; "again", of one a run
                         \* changed; "revert", of the old value

KnobSet == {Knobs[i] : i \in DOMAIN Knobs}

(* What cat prints, and whether echo of it is accepted.                    *)
Menu(v) == <<"menu", v>>
Reads(k, v) == IF k \in MenuKnobs THEN Menu(v) ELSE <<"value", v>>
Empty == <<"empty", "">>
Legal(text) == text[1] = "value" /\ text[2] \in Values

ASSUME KnobsAssumption ==
  /\ Knobs \in Seq(STRING)
  /\ \A i, j \in DOMAIN Knobs : Knobs[i] = Knobs[j] => i = j
  /\ Targets \in [KnobSet -> SUBSET Values]
  /\ Options \subseteq SUBSET KnobSet
  /\ Refusals \subseteq {"first", "again", "revert"}
  /\ \A k \in KnobSet, v \in Values : Reads(k, v) # None
  /\ Empty # None

VARIABLES
  val,       \* val[k]: the setting in force
  saved,     \* saved[k]: the content of its snapshot file, None if there is none
  action,    \* "apply", "revert" or "idle"
  at,        \* the knob write_sysfs is called for
  step,      \* where it is: "snapshot", "file" (created, still empty) or "write"
  current,   \* its local variable
  skip,      \* the knobs the options leave out
  \* history
  orig,      \* val before the first run
  clean,     \* the last run was a revert that ran to its end
  damaged    \* the knobs whose snapshot was cut off

prepVars == <<val, saved, action, at, step, current, skip, orig, clean, damaged>>

PrepInit ==
  /\ val \in [KnobSet -> Values] /\ orig = val
  /\ saved = [k \in KnobSet |-> None]
  /\ action = "idle" /\ at = 1 /\ step = "snapshot" /\ current = None
  /\ skip = {} /\ clean = TRUE /\ damaged = {}

Start(a, options) ==
  /\ action = "idle"
  /\ action' = a /\ at' = 1 /\ step' = "snapshot" /\ clean' = FALSE
  /\ skip' = UNION options
  /\ UNCHANGED <<val, saved, current, orig, damaged>>

(* The end of write_sysfs: on to the next knob, or the end of the script.  *)
Return ==
  IF at = Len(Knobs)
  THEN action' = "idle" /\ at' = 1 /\ step' = "snapshot" /\ clean' = (action = "revert")
  ELSE at' = at + 1 /\ step' = "snapshot" /\ UNCHANGED <<action, clean>>

(* Not the code: a snapshot is taken by every run.                         *)
NoneYet_Ignored(k) == TRUE

NoneYet(k) == saved[k] = None

(* if (( DO_SMT_OFF )), if (( DO_HUGEPAGES )), if (( DO_IRQ )).            *)
Skip(k) ==
  /\ action # "idle" /\ k = Knobs[at] /\ step = "snapshot" /\ k \in skip
  /\ Return
  /\ UNCHANGED <<val, saved, current, skip, orig, damaged>>

(* [[ -f "$saved" ]] || ...                                                *)
Snapshot(k) ==
  /\ action = "apply" /\ k = Knobs[at] /\ step = "snapshot" /\ k \notin skip
  /\ current' = Reads(k, val[k])
  /\ IF NoneYet(k) THEN saved' = [saved EXCEPT ![k] = Empty] /\ step' = "file"
                   ELSE step' = "write" /\ UNCHANGED saved
  /\ UNCHANGED <<val, action, at, skip, orig, clean, damaged>>

(* ... echo "$current" > "$saved".                                         *)
WriteSnapshot(k) ==
  /\ k = Knobs[at] /\ step = "file"
  /\ saved' = [saved EXCEPT ![k] = current] /\ step' = "write"
  /\ UNCHANGED <<val, action, at, current, skip, orig, clean, damaged>>

(* The value differs from the text read, and the write succeeds; or the    *)
(* write fails, and the snapshot is removed; or the value is there.        *)
Set(k, v) ==
  /\ action = "apply" /\ k = Knobs[at] /\ step = "write"
  /\ current # <<"value", v>>
  /\ val' = [val EXCEPT ![k] = v]
  /\ Return
  /\ UNCHANGED <<saved, current, skip, orig, damaged>>

WriteFailed(k) ==
  /\ action = "apply" /\ k = Knobs[at] /\ step = "write"
  /\ (IF val[k] = orig[k] THEN "first" ELSE "again") \in Refusals
  /\ \E v \in Targets[k] : current # <<"value", v>>
  /\ saved' = [saved EXCEPT ![k] = None]
  /\ Return
  /\ UNCHANGED <<val, current, skip, orig, damaged>>

Already(k, v) ==
  /\ action = "apply" /\ k = Knobs[at] /\ step = "write"
  /\ current = <<"value", v>>
  /\ Return
  /\ UNCHANGED <<val, saved, current, skip, orig, damaged>>

(* echo "$prev" > "$path" || true: its failure goes unnoticed.             *)
Restore(k) ==
  /\ action = "revert" /\ k = Knobs[at] /\ step = "snapshot" /\ k \notin skip
  /\ saved[k] # None
  /\ \/ Legal(saved[k]) /\ val' = [val EXCEPT ![k] = saved[k][2]]
     \/ (~Legal(saved[k]) \/ "revert" \in Refusals) /\ UNCHANGED val
  /\ step' = "write"
  /\ UNCHANGED <<saved, action, at, current, skip, orig, clean, damaged>>

(* rm -f "$saved".                                                         *)
RemoveSnapshot(k) ==
  /\ action = "revert" /\ k = Knobs[at] /\ step = "write"
  /\ saved' = [saved EXCEPT ![k] = None]
  /\ Return
  /\ UNCHANGED <<val, current, skip, orig, damaged>>

NoSnapshot(k) ==
  /\ action = "revert" /\ k = Knobs[at] /\ step = "snapshot" /\ k \notin skip
  /\ saved[k] = None
  /\ Return
  /\ UNCHANGED <<val, saved, current, skip, orig, damaged>>

(* The run is killed between two commands.                                 *)
Killed ==
  /\ action # "idle"
  /\ action' = "idle" /\ at' = 1 /\ step' = "snapshot"
  /\ damaged' = IF step = "file" THEN damaged \cup {Knobs[at]} ELSE damaged
  /\ UNCHANGED <<val, saved, current, skip, orig, clean>>

PrepNext ==
  \/ \E a \in {"apply", "revert"}, options \in SUBSET Options : Start(a, options)
  \/ \E k \in KnobSet : \/ Skip(k) \/ Snapshot(k) \/ WriteSnapshot(k) \/ WriteFailed(k)
                        \/ \E v \in Targets[k] : Set(k, v) \/ Already(k, v)
                        \/ Restore(k) \/ RemoveSnapshot(k) \/ NoSnapshot(k)
  \/ Killed

PrepSpec == PrepInit /\ [][PrepNext]_prepVars

-----------------------------------------------------------------------------
(***************************************************************************)
(* "Every individual write is snapshotted ... before being touched, so     *)
(* --revert restores the prior values exactly" (host-prep.sh:22-23): after *)
(* a revert that ran to its end, whatever runs came before, with whatever  *)
(* options, and wherever they were killed, every setting its own options   *)
(* do not leave out is what it was before the first run.  The exceptions   *)
(* are a setting that reads as a menu (:104), which the kernel does not    *)
(* take back, and one whose snapshot was cut off while it was written.     *)
(***************************************************************************)
RevertRestores ==
  clean => \A k \in KnobSet \ (MenuKnobs \cup skip \cup damaged) : val[k] = orig[k]

(***************************************************************************)
(* "Re-running --apply is idempotent" (host-prep.sh:24): a setting that is *)
(* not what it was has a snapshot that is complete, and such a snapshot    *)
(* holds the original value; with the same exceptions: of a menu a later   *)
(* run snapshots what the script set, and of a damaged setting also.       *)
(***************************************************************************)
SnapshotIsOriginal ==
  \A k \in KnobSet \ (MenuKnobs \cup damaged) :
     /\ val[k] # orig[k] => saved[k] \notin {None, Empty}
     /\ saved[k] \notin {None, Empty} => saved[k] = Reads(k, orig[k])
=============================================================================
