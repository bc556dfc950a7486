------------------------------- MODULE ShmBus -------------------------------
(***************************************************************************)
(* ShmBus::open_or_create (crates/shmbus/src/shm.rs): how two processes,   *)
(* the feedhandler and the trading engine, come to share one mmap'd file,  *)
(* when either may be killed and started again at any moment.              *)
(*                                                                         *)
(* A step is one system call or one access to the mapping that the other   *)
(* process can observe.  A ring is kept to what an initialisation can      *)
(* destroy: its two cursors and the sequence words found in its slots.     *)
(* MaxSeq bounds what is published and is below RING_CAPACITY, so slots    *)
(* are never reused here (module SpscRing is about that).                  *)
(***************************************************************************)
EXTENDS Integers

CONSTANTS MaxSeq,      \* bound on the sequence numbers published
          Leftovers    \* what may be at the bus path at first (LeftoverKinds)

ASSUME MaxSeqAssumption == MaxSeq \in Nat \ {0}

Procs == {"feedhandler", "engine"}
Rings == {"ticks", "orders"}

(* The handles each binary creates: a ring and the cursor it moves.        *)
Handles == Rings \X {"head", "tail"}
Owned(p) == IF p = "feedhandler" THEN {<<"ticks", "head">>, <<"orders", "tail">>}
                                 ELSE {<<"ticks", "tail">>, <<"orders", "head">>}

VARIABLES
  file,    \* its length and the three words of the BusHeader
  cur,     \* cur[h]: the cursor of handle h in shared memory
  avail,   \* avail[r]: the sequence words of ring r's slots
  pc,      \* where each process is
  fresh,   \* the local "fresh" of each open_or_create
  todo,    \* what a cold init has still to zero or initialise
  next     \* next[h]: next_seq of handle h; Closed while there is none

vars == <<file, cur, avail, pc, fresh, todo, next>>

Closed == -1

LeftoverKinds == {"missing", "shorter", "no_magic", "other_version", "used", "unready"}
ASSUME LeftoversAssumption == Leftovers \subseteq LeftoverKinds /\ Leftovers # {}

(* magic and version are compared with one value each: 1 stands for        *)
(* BUS_MAGIC and for BUS_VERSION, 2 for the version of another build.      *)
Leftover(kind) ==
  [len |-> CASE kind = "missing" -> "none" [] kind = "shorter" -> "short" [] OTHER -> "full",
   magic |-> IF kind \in {"missing", "no_magic"} THEN 0 ELSE 1,
   version |-> CASE kind \in {"missing", "no_magic"} -> 0
                 [] kind \in {"shorter", "other_version"} -> 2
                 [] OTHER -> 1,
   ready |-> IF kind \in {"shorter", "other_version", "used"} THEN 1 ELSE 0]

(* A file an earlier run used holds one tick nobody consumed.              *)
Init == \E kind \in Leftovers :
  /\ file = Leftover(kind)
  /\ cur = [h \in Handles |-> IF kind = "used" /\ h = <<"ticks", "head">> THEN 1 ELSE 0]
  /\ avail = [r \in Rings |-> IF kind = "used" /\ r = "ticks" THEN {1} ELSE {}]
  /\ pc = [p \in Procs |-> "down"]
  /\ fresh = [p \in Procs |-> FALSE]
  /\ todo = [p \in Procs |-> {}]
  /\ next = [h \in Handles |-> Closed]

-----------------------------------------------------------------------------
Goto(p, to) == pc' = [pc EXCEPT ![p] = to]

(* open(O_CREAT).                                                          *)
Open(p) ==
  /\ pc[p] = "down"
  /\ file' = IF file.len = "none" THEN [file EXCEPT !.len = "short"] ELSE file
  /\ Goto(p, "stat")
  /\ UNCHANGED <<cur, avail, fresh, todo, next>>

(* metadata().len() against the size of the layout.                        *)
Stat(p) ==
  /\ pc[p] = "stat"
  /\ fresh' = [fresh EXCEPT ![p] = file.len # "full"]
  /\ Goto(p, IF fresh'[p] THEN "set_len" ELSE "map")
  /\ UNCHANGED <<file, cur, avail, todo, next>>

SetLen(p) ==
  /\ pc[p] = "set_len"
  /\ file' = [file EXCEPT !.len = "full"]
  /\ Goto(p, "map")
  /\ UNCHANGED <<cur, avail, fresh, todo, next>>

(* Not the code: magic is not looked at.                                   *)
ColdInit_Always(p) == TRUE

ColdInit(p) == fresh[p] \/ file.magic # 1

(* mmap, and the load of magic that chooses between init and attach.       *)
Map(p) ==
  /\ pc[p] = "map"
  /\ IF ColdInit(p)
     THEN Goto(p, "zero") /\ todo' = [todo EXCEPT ![p] = Rings \cup {"header"}]
     ELSE Goto(p, "version") /\ UNCHANGED todo
  /\ UNCHANGED <<file, cur, avail, fresh, next>>

-----------------------------------------------------------------------------
(* Cold init.                                                              *)

ClearRing(r) == /\ cur' = [h \in Handles |-> IF h[1] = r THEN 0 ELSE cur[h]]
                /\ avail' = [avail EXCEPT ![r] = {}]

(* write_bytes over the whole layout, which fixes no order.                *)
Zero(p, part) ==
  /\ pc[p] = "zero"
  /\ part \in todo[p]
  /\ IF part = "header"
     THEN /\ file' = [file EXCEPT !.magic = 0, !.version = 0, !.ready = 0]
          /\ UNCHANGED <<cur, avail>>
     ELSE ClearRing(part) /\ UNCHANGED file
  /\ IF todo[p] = {part}
     THEN Goto(p, "init") /\ todo' = [todo EXCEPT ![p] = Rings]
     ELSE todo' = [todo EXCEPT ![p] = @ \ {part}] /\ UNCHANGED pc
  /\ UNCHANGED <<fresh, next>>

(* init_in_place of ticks, then of orders.                                 *)
InitInPlace(p, r) ==
  /\ pc[p] = "init"
  /\ r = IF "ticks" \in todo[p] THEN "ticks" ELSE "orders"
  /\ ClearRing(r)
  /\ todo' = [todo EXCEPT ![p] = @ \ {r}]
  /\ IF r = "orders" THEN Goto(p, "put_version") ELSE UNCHANGED pc
  /\ UNCHANGED <<file, fresh, next>>

PutVersion(p) ==
  /\ pc[p] = "put_version"
  /\ file' = [file EXCEPT !.version = 1]
  /\ Goto(p, "put_magic")
  /\ UNCHANGED <<cur, avail, fresh, todo, next>>

PutMagic(p) ==
  /\ pc[p] = "put_magic"
  /\ file' = [file EXCEPT !.magic = 1]
  /\ Goto(p, "put_ready")
  /\ UNCHANGED <<cur, avail, fresh, todo, next>>

(* Not the code: ready is never stored.                                    *)
ReadyStored_Not == file.ready

ReadyStored == 1

PutReady(p) ==
  /\ pc[p] = "put_ready"
  /\ file' = [file EXCEPT !.ready = ReadyStored]
  /\ Goto(p, "up")
  /\ UNCHANGED <<cur, avail, fresh, todo, next>>

-----------------------------------------------------------------------------
(* Attach.                                                                 *)

(* Not the code: a mismatch of versions is let through.                    *)
VersionMatches_Always == TRUE

VersionMatches == file.version = 1

(* The load of version: a mismatch is an error, and the process exits.     *)
CheckVersion(p) ==
  /\ pc[p] = "version"
  /\ Goto(p, IF VersionMatches THEN "spin" ELSE "failed")
  /\ UNCHANGED <<file, cur, avail, fresh, todo, next>>

(* The loop on ready ends: until then the process spins.                   *)
SeeReady(p) ==
  /\ pc[p] = "spin"
  /\ file.ready = 1
  /\ Goto(p, "up")
  /\ UNCHANGED <<file, cur, avail, fresh, todo, next>>

-----------------------------------------------------------------------------
(* An open bus in use.                                                     *)

(* Not the code: a handle always starts at 0.                              *)
Resumed_FromZero(h) == 0

Resumed(h) == cur[h]

(* RingProducer::new, RingConsumer::new: resume from the shared cursor.    *)
NewHandle(p, h) ==
  /\ pc[p] = "up"
  /\ h \in Owned(p)
  /\ next[h] = Closed
  /\ next' = [next EXCEPT ![h] = Resumed(h)]
  /\ UNCHANGED <<file, cur, avail, pc, fresh, todo>>

(* A try_publish that succeeds: a tail ahead of next_seq reads as a full   *)
(* ring, because the subtraction wraps.                                    *)
Publish(p, r) ==
  LET h == <<r, "head">> IN
  /\ h \in Owned(p)
  /\ next[h] # Closed
  /\ next[h] < MaxSeq
  /\ next[h] >= cur[<<r, "tail">>]
  /\ avail' = [avail EXCEPT ![r] = @ \cup {next[h] + 1}]
  /\ next' = [next EXCEPT ![h] = @ + 1]
  /\ cur' = [cur EXCEPT ![h] = next[h] + 1]
  /\ UNCHANGED <<file, pc, fresh, todo>>

(* A try_consume that succeeds: the slot carries the expected sequence.    *)
Consume(p, r) ==
  LET h == <<r, "tail">> IN
  /\ h \in Owned(p)
  /\ next[h] # Closed
  /\ next[h] + 1 \in avail[r]
  /\ next' = [next EXCEPT ![h] = @ + 1]
  /\ cur' = [cur EXCEPT ![h] = next[h] + 1]
  /\ UNCHANGED <<file, avail, pc, fresh, todo>>

(* The process ends (killed, or exited after a failed open) and may be     *)
(* started again.  Of a cold init, one point is kept apart: after the      *)
(* store of magic and before the store of ready.                           *)
Down(p) ==
  /\ Goto(p, "down")
  /\ fresh' = [fresh EXCEPT ![p] = FALSE]
  /\ todo' = [todo EXCEPT ![p] = {}]
  /\ next' = [h \in Handles |-> IF h \in Owned(p) THEN Closed ELSE next[h]]
  /\ UNCHANGED <<file, cur, avail>>

Kill(p) == pc[p] \notin {"down", "put_ready"} /\ Down(p)

KillBeforeReady(p) == pc[p] = "put_ready" /\ Down(p)

-----------------------------------------------------------------------------
(* The rest of open_or_create.                                             *)
Opening(p) ==
  \/ Stat(p) \/ SetLen(p) \/ Map(p)
  \/ \E part \in Rings \cup {"header"} : Zero(p, part)
  \/ \E r \in Rings : InitInPlace(p, r)
  \/ PutVersion(p) \/ PutMagic(p) \/ PutReady(p)
  \/ CheckVersion(p) \/ SeeReady(p)

InOpen(p) == pc[p] \notin {"down", "up", "failed"}

Use(p) == \/ \E h \in Handles : NewHandle(p, h)
          \/ \E r \in Rings : Publish(p, r) \/ Consume(p, r)

(* run-demo.sh and run-bench.sh start the second process after a sleep     *)
(* that stands for "the first one has returned from open_or_create".       *)
StaggeredOpen(p) == (\A q \in Procs : ~InOpen(q)) /\ Open(p)

StaggeredNext ==
  \E p \in Procs : StaggeredOpen(p) \/ Opening(p) \/ Use(p) \/ Kill(p) \/ KillBeforeReady(p)

(* A process that opens the bus keeps running until open_or_create is done *)
(* and its handles are made.                                               *)
StaggeredSpec ==
  /\ Init /\ [][StaggeredNext]_vars
  /\ \A p \in Procs : WF_vars(Opening(p)) /\ WF_vars(\E h \in Handles : NewHandle(p, h))

(* Nothing keeps the two processes from opening at the same time.          *)
RacingSpec == Init /\ [][\E p \in Procs : Open(p) \/ Opening(p) \/ Use(p)]_vars

-----------------------------------------------------------------------------
Files == [len : {"none", "short", "full"}, magic : 0 .. 1, version : 0 .. 2, ready : 0 .. 1]
Places == {"down", "stat", "set_len", "map", "zero", "init", "put_version", "put_magic",
           "put_ready", "version", "spin", "up", "failed"}

MemoryOK ==
  /\ cur \in [Handles -> 0 .. MaxSeq]
  /\ avail \in [Rings -> SUBSET (1 .. MaxSeq)]
  /\ next \in [Handles -> {Closed} \cup 0 .. MaxSeq]

ProcsOK ==
  /\ pc \in [Procs -> Places]
  /\ fresh \in [Procs -> BOOLEAN]
  /\ todo \in [Procs -> SUBSET (Rings \cup {"header"})]

TypeOK == file \in Files /\ MemoryOK /\ ProcsOK

(* A process inside the initialisation of the layout.                      *)
Initialising(p) == pc[p] \in {"zero", "init", "put_version", "put_magic", "put_ready"}

(***************************************************************************)
(* "Whoever observes a fresh (zeroed) file initialises the rings, the      *)
(* other side just attaches" (shm.rs:5-6) and "must be called by exactly   *)
(* one process before the bus goes live" (ring.rs:57-58): no process       *)
(* initialises the layout while another initialises it or has it open.     *)
(***************************************************************************)
InitialisedByOne ==
  \A p, q \in Procs : p # q /\ Initialising(p) => ~Initialising(q) /\ pc[q] # "up"

(***************************************************************************)
(* Nothing a process has through its handles is taken from it: next_seq    *)
(* is the cursor in shared memory, and every message between the cursors   *)
(* is there to be consumed, whoever else opens, fails or dies meanwhile.   *)
(***************************************************************************)
HandlesAgree ==
  /\ \A h \in Handles : next[h] # Closed => next[h] = cur[h]
  /\ \A p \in Procs, r \in Rings : pc[p] = "up" =>
        avail[r] \cap (cur[<<r, "tail">>] + 1 .. MaxSeq)
          = cur[<<r, "tail">>] + 1 .. cur[<<r, "head">>]

(***************************************************************************)
(* "A mis-matched build can't silently attach" (shm.rs:3-4), and a peer of *)
(* a live process can: the header of an open bus is complete and has this  *)
(* build's version.                                                        *)
(***************************************************************************)
OpenBusIsReady ==
  \A p \in Procs : pc[p] = "up" =>
     file = [len |-> "full", magic |-> 1, version |-> 1, ready |-> 1]

(* A header with magic and without ready, and nobody there who could have  *)
(* stored ready or could store it.                                         *)
Abandoned == /\ file.magic = 1 /\ file.ready = 0
             /\ \A p \in Procs : pc[p] \notin {"put_ready", "up"}

(***************************************************************************)
(* "Spin briefly for the creator's ready bit" (shm.rs:83): open_or_create  *)
(* returns, with a bus or an error, to every opener, whoever dies where,   *)
(* but for one cause: an initialiser that is killed between its stores of  *)
(* magic and of ready, in this run or in an earlier one.                   *)
(***************************************************************************)
OpenReturnsUnlessAbandoned ==
  \A p \in Procs : InOpen(p) ~> (~InOpen(p) \/ Abandoned)
=============================================================================
