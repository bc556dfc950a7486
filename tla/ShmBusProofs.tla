---------------------------- MODULE ShmBusProofs ----------------------------
(***************************************************************************)
(* When the scripts stagger the starts, whatever file is found at the path *)
(* and whoever is killed where: the layout is initialised by one process   *)
(* alone, an open bus has a complete header, and nothing a process has     *)
(* through its handles is taken from it.  For every bound on the numbers   *)
(* published.  Without the stagger the first of these is false (run        *)
(* bus_race).                                                              *)
(***************************************************************************)
EXTENDS ShmBus, TLAPS

(* The whole of open_or_create is entered by one process at a time.        *)
OneOpens == \A p, q \in Procs : InOpen(p) /\ InOpen(q) => p = q

(* What the opener has made sure of, by the point it has reached.          *)
Reached(p) ==
  /\ pc[p] \in {"map", "version", "spin"} \/ Initialising(p) => file.len = "full"
  /\ pc[p] \in {"version", "spin", "put_ready"} => file.magic = 1
  /\ pc[p] \in {"spin", "put_magic", "put_ready"} => file.version = 1

(* Beside a process that has the bus open, an opener attaches.             *)
Attaching(q) ==
  pc[q] # "set_len" /\ ~Initialising(q) /\ (pc[q] = "map" => ~fresh[q])

Complete == file.len = "full" /\ file.magic = 1 /\ file.version = 1 /\ file.ready = 1

HeaderInv ==
  /\ OneOpens
  /\ \A p \in Procs : Reached(p)
  /\ \A p \in Procs : pc[p] = "up" => Complete
  /\ \A p, q \in Procs : p # q /\ pc[p] = "up" => Attaching(q)

(* The sequence words of a ring are those between its cursors.             *)
RingInv(r) ==
  \A n \in 1 .. MaxSeq :
    n > cur[<<r, "tail">>] => (n \in avail[r] <=> n <= cur[<<r, "head">>])

(* A handle belongs to a process that has the bus open.                    *)
HandleInv ==
  \A p \in Procs : \A h \in Owned(p) :
    next[h] # Closed => pc[p] = "up" /\ next[h] = cur[h]

CursorInv == HandleInv /\ \A r \in Rings : RingInv(r)

-----------------------------------------------------------------------------
(* The words of the header that a store, a set_len or the zeroing leaves.  *)
LEMMA HeaderStores ==
  ASSUME NEW f \in Files
  PROVE  /\ \A v \in {"short", "full"} : [f EXCEPT !.len = v] =
              [len |-> v, magic |-> f.magic, version |-> f.version, ready |-> f.ready]
         /\ [f EXCEPT !.version = 1] =
              [len |-> f.len, magic |-> f.magic, version |-> 1, ready |-> f.ready]
         /\ [f EXCEPT !.magic = 1] =
              [len |-> f.len, magic |-> 1, version |-> f.version, ready |-> f.ready]
         /\ [f EXCEPT !.ready = 1] =
              [len |-> f.len, magic |-> f.magic, version |-> f.version, ready |-> 1]
         /\ [f EXCEPT !.magic = 0, !.version = 0, !.ready = 0] =
              [len |-> f.len, magic |-> 0, version |-> 0, ready |-> 0]
         /\ f.len \in {"none", "short", "full"} /\ f.magic \in 0 .. 1
         /\ f.version \in 0 .. 2 /\ f.ready \in 0 .. 1
<1> DEFINE g == [f EXCEPT !.magic = 0]
           k == [g EXCEPT !.version = 0]
<1>1. g = [len |-> f.len, magic |-> 0, version |-> f.version, ready |-> f.ready]
  BY DEF Files
<1>2. [f EXCEPT !.magic = 0, !.version = 0, !.ready = 0] = [k EXCEPT !.ready = 0]
  OBVIOUS
<1>3. f.len \in {"none", "short", "full"} /\ f.magic \in 0 .. 1 /\ f.version \in 0 .. 2 /\ f.ready \in 0 .. 1
  BY DEF Files
<1> HIDE DEF g, k
<1>4. g \in Files /\ g.len = f.len /\ g.ready = f.ready /\ g.magic = 0
  BY <1>1, <1>3 DEF Files
<1>5. k = [len |-> f.len, magic |-> 0, version |-> 0, ready |-> f.ready]
  BY <1>4 DEF Files, k
<1>6. k \in Files
  BY <1>3, <1>5 DEF Files
<1>7. [k EXCEPT !.ready = 0] = [len |-> k.len, magic |-> k.magic, version |-> k.version, ready |-> 0]
  BY <1>6 DEF Files
<1>8. [f EXCEPT !.magic = 0, !.version = 0, !.ready = 0]
        = [len |-> f.len, magic |-> 0, version |-> 0, ready |-> 0]
  BY <1>2, <1>5, <1>7
<1>9. \A v \in {"short", "full"} : [f EXCEPT !.len = v] =
              [len |-> v, magic |-> f.magic, version |-> f.version, ready |-> f.ready]
  BY DEF Files
<1>10. /\ [f EXCEPT !.version = 1] =
              [len |-> f.len, magic |-> f.magic, version |-> 1, ready |-> f.ready]
       /\ [f EXCEPT !.magic = 1] =
              [len |-> f.len, magic |-> 1, version |-> f.version, ready |-> f.ready]
       /\ [f EXCEPT !.ready = 1] =
              [len |-> f.len, magic |-> f.magic, version |-> f.version, ready |-> 1]
  BY DEF Files
<1> QED BY <1>3, <1>8, <1>9, <1>10, Zenon

-----------------------------------------------------------------------------
(* The header is one of Files after every step.                            *)
LEMMA FileTypes == TypeOK /\ [StaggeredNext]_vars => file' \in Files
<1> SUFFICES ASSUME TypeOK, [StaggeredNext]_vars PROVE file' \in Files
  OBVIOUS
<1>0. /\ file \in Files
      /\ file.len \in {"none", "short", "full"} /\ file.magic \in 0 .. 1
      /\ file.version \in 0 .. 2 /\ file.ready \in 0 .. 1
  BY HeaderStores DEF TypeOK
<1>1. ASSUME NEW p \in Procs,
             Open(p) \/ SetLen(p) \/ PutVersion(p) \/ PutMagic(p) \/ PutReady(p)
                \/ (\E part \in Rings \cup {"header"} : Zero(p, part))
      PROVE  file' \in Files
  <2>1. \/ file' = file
        \/ file' = [file EXCEPT !.len = "short"] \/ file' = [file EXCEPT !.len = "full"]
        \/ file' = [file EXCEPT !.version = 1] \/ file' = [file EXCEPT !.magic = 1]
        \/ file' = [file EXCEPT !.ready = 1]
        \/ file' = [file EXCEPT !.magic = 0, !.version = 0, !.ready = 0]
    BY <1>1 DEF Open, SetLen, PutVersion, PutMagic, PutReady, ReadyStored, Zero
  <2>2. \/ file' = file
        \/ file' = [len |-> "short", magic |-> file.magic, version |-> file.version, ready |-> file.ready]
        \/ file' = [len |-> "full", magic |-> file.magic, version |-> file.version, ready |-> file.ready]
        \/ file' = [len |-> file.len, magic |-> file.magic, version |-> 1, ready |-> file.ready]
        \/ file' = [len |-> file.len, magic |-> 1, version |-> file.version, ready |-> file.ready]
        \/ file' = [len |-> file.len, magic |-> file.magic, version |-> file.version, ready |-> 1]
        \/ file' = [len |-> file.len, magic |-> 0, version |-> 0, ready |-> 0]
    BY <1>0, <2>1, HeaderStores, Zenon
  <2> QED BY <1>0, <2>2 DEF Files
<1>2. ASSUME NEW p \in Procs,
             \/ Stat(p) \/ Map(p) \/ CheckVersion(p) \/ SeeReady(p) \/ Use(p)
             \/ Kill(p) \/ KillBeforeReady(p) \/ \E r \in Rings : InitInPlace(p, r)
      PROVE  file' \in Files
  BY <1>0, <1>2 DEF Stat, Map, CheckVersion, SeeReady, Use, NewHandle, Publish, Consume,
                    Kill, KillBeforeReady, Down, InitInPlace
<1> QED BY <1>0, <1>1, <1>2 DEF StaggeredNext, StaggeredOpen, Opening, vars

(* Cursors, sequence words and next_seq stay within their bounds.          *)
LEMMA MemoryTypes == TypeOK /\ [StaggeredNext]_vars => MemoryOK'
<1> SUFFICES ASSUME TypeOK, [StaggeredNext]_vars PROVE MemoryOK'
  OBVIOUS
<1> USE MaxSeqAssumption
<1>0. MemoryOK /\ \A r \in Rings : <<r, "head">> \in Handles /\ <<r, "tail">> \in Handles
  BY DEF TypeOK, Handles
<1>1. ASSUME NEW r \in Rings, ClearRing(r), UNCHANGED next PROVE MemoryOK'
  BY <1>0, <1>1 DEF ClearRing, MemoryOK
<1>2. ASSUME NEW p \in Procs, NEW h \in Handles, NewHandle(p, h) PROVE MemoryOK'
  <2>1. cur[h] \in 0 .. MaxSeq
    BY <1>0 DEF MemoryOK
  <2> QED BY <1>0, <1>2, <2>1 DEF NewHandle, Resumed, MemoryOK
<1>3. ASSUME NEW p \in Procs, NEW r \in Rings, Publish(p, r) PROVE MemoryOK'
  <2> DEFINE h == <<r, "head">>
  <2>1. h \in Handles /\ next[h] + 1 \in 1 .. MaxSeq
    BY <1>0, <1>3 DEF Publish, MemoryOK, Closed
  <2>2. /\ avail' = [avail EXCEPT ![r] = @ \cup {next[h] + 1}]
        /\ next' = [next EXCEPT ![h] = next[h] + 1]
        /\ cur' = [cur EXCEPT ![h] = next[h] + 1]
    BY <1>3 DEF Publish
  <2> HIDE DEF h
  <2> QED BY <1>0, <2>1, <2>2 DEF MemoryOK
<1>4. ASSUME NEW p \in Procs, NEW r \in Rings, Consume(p, r) PROVE MemoryOK'
  <2> DEFINE h == <<r, "tail">>
  <2>1. h \in Handles /\ next[h] + 1 \in 1 .. MaxSeq
    BY <1>0, <1>4 DEF Consume, MemoryOK
  <2>2. /\ avail' = avail
        /\ next' = [next EXCEPT ![h] = next[h] + 1]
        /\ cur' = [cur EXCEPT ![h] = next[h] + 1]
    BY <1>4 DEF Consume
  <2> HIDE DEF h
  <2> QED BY <1>0, <2>1, <2>2 DEF MemoryOK
<1>5. ASSUME NEW p \in Procs, Down(p) PROVE MemoryOK'
  BY <1>0, <1>5 DEF Down, MemoryOK
<1>6. ASSUME NEW p \in Procs, Opening(p) \/ Open(p) PROVE MemoryOK'
  <2>1. UNCHANGED <<cur, avail, next>> \/ \E r \in Rings : ClearRing(r) /\ UNCHANGED next
    BY <1>6 DEF Opening, Open, Stat, SetLen, Map, Zero, InitInPlace, PutVersion, PutMagic, PutReady,
                CheckVersion, SeeReady, Rings
  <2> QED BY <1>0, <1>1, <2>1 DEF MemoryOK
<1>7. CASE UNCHANGED vars
  BY <1>0, <1>7 DEF MemoryOK, vars
<1> QED BY <1>2, <1>3, <1>4, <1>5, <1>6, <1>7
        DEF StaggeredNext, StaggeredOpen, Use, Kill, KillBeforeReady

(* A process is always at one of the points of open_or_create, or past it. *)
LEMMA ProcTypes == TypeOK /\ [StaggeredNext]_vars => ProcsOK'
<1> SUFFICES ASSUME TypeOK, [StaggeredNext]_vars PROVE ProcsOK'
  OBVIOUS
<1>0. /\ pc \in [Procs -> Places] /\ fresh \in [Procs -> BOOLEAN]
      /\ todo \in [Procs -> SUBSET (Rings \cup {"header"})]
  BY DEF TypeOK, ProcsOK
<1>1. pc' \in [Procs -> Places]
  <2>1. ASSUME NEW p \in Procs, Opening(p) \/ Open(p) PROVE pc' = pc \/ \E c \in Places : Goto(p, c)
    BY <1>0, <2>1 DEF Opening, Open, Stat, SetLen, Map, Zero, InitInPlace, PutVersion, PutMagic,
                      PutReady, CheckVersion, SeeReady, Places
  <2>2. ASSUME NEW p \in Procs, Use(p) \/ Kill(p) \/ KillBeforeReady(p)
        PROVE  pc' = pc \/ \E c \in Places : Goto(p, c)
    BY <2>2 DEF Use, NewHandle, Publish, Consume, Kill, KillBeforeReady, Down, Places
  <2>3. ASSUME NEW p \in Procs, NEW c \in Places, Goto(p, c) PROVE pc' \in [Procs -> Places]
    BY <1>0, <2>3 DEF Goto
  <2> QED BY <1>0, <2>1, <2>2, <2>3 DEF StaggeredNext, StaggeredOpen, vars
<1>2. fresh' \in [Procs -> BOOLEAN]
  <2>1. fresh' = fresh \/ \E p \in Procs, b \in BOOLEAN : fresh' = [fresh EXCEPT ![p] = b]
    <3>1. ASSUME NEW p \in Procs, Stat(p)
          PROVE  \E b \in BOOLEAN : fresh' = [fresh EXCEPT ![p] = b]
      BY <3>1, (file.len # "full") \in BOOLEAN, Zenon DEF Stat
    <3>2. ASSUME NEW p \in Procs, Kill(p) \/ KillBeforeReady(p)
          PROVE  \E b \in BOOLEAN : fresh' = [fresh EXCEPT ![p] = b]
      BY <3>2, Zenon DEF Kill, KillBeforeReady, Down
    <3>3. ASSUME NEW p \in Procs, ~Stat(p), Open(p) \/ Opening(p) \/ Use(p)
          PROVE  fresh' = fresh
      BY <3>3 DEF Opening, Open, SetLen, Map, Zero, InitInPlace, PutVersion, PutMagic, PutReady,
                  CheckVersion, SeeReady, Use, NewHandle, Publish, Consume
    <3>4. CASE UNCHANGED vars
      BY <3>4, Zenon DEF vars
    <3> QED BY <3>1, <3>2, <3>3, <3>4, Zenon DEF StaggeredNext, StaggeredOpen
  <2> QED BY <1>0, <2>1, Zenon
<1>3. todo' \in [Procs -> SUBSET (Rings \cup {"header"})]
  <2>1. ASSUME NEW p \in Procs, Opening(p)
        PROVE  todo' = todo \/ \E T \in SUBSET (Rings \cup {"header"}) : todo' = [todo EXCEPT ![p] = T]
    <3>1. todo[p] \in SUBSET (Rings \cup {"header"})
      BY <1>0
    <3>2. CASE \/ Map(p) \/ (\E part \in Rings \cup {"header"} : Zero(p, part))
               \/ (\E r \in Rings : InitInPlace(p, r))
      BY <3>1, <3>2 DEF Map, Zero, InitInPlace
    <3>3. CASE \/ Stat(p) \/ SetLen(p) \/ PutVersion(p) \/ PutMagic(p) \/ PutReady(p)
               \/ CheckVersion(p) \/ SeeReady(p)
      BY <3>3 DEF Stat, SetLen, PutVersion, PutMagic, PutReady, CheckVersion, SeeReady
    <3> QED BY <2>1, <3>2, <3>3 DEF Opening
  <2>2. ASSUME NEW p \in Procs, Open(p) \/ Use(p) \/ Kill(p) \/ KillBeforeReady(p)
        PROVE  todo' = todo \/ todo' = [todo EXCEPT ![p] = {}]
    BY <2>2 DEF Open, Use, NewHandle, Publish, Consume, Kill, KillBeforeReady, Down
  <2> QED BY <1>0, <2>1, <2>2 DEF StaggeredNext, StaggeredOpen, vars
<1> QED BY <1>1, <1>2, <1>3 DEF ProcsOK

-----------------------------------------------------------------------------
(* Type correctness of the bus file, the mapping and the processes.        *)
THEOREM TypeCorrect == StaggeredSpec => []TypeOK
<1>1. Init => TypeOK
  BY LeftoversAssumption, MaxSeqAssumption
     DEF Init, Leftover, TypeOK, Files, MemoryOK, ProcsOK, Places, Handles, Rings, Procs
<1>2. TypeOK /\ [StaggeredNext]_vars => TypeOK'
  BY FileTypes, MemoryTypes, ProcTypes DEF TypeOK
<1> QED BY <1>1, <1>2, PTL DEF StaggeredSpec

-----------------------------------------------------------------------------
(* The opener alone changes the header, and not beside a process that has  *)
(* the bus open.                                                           *)
LEMMA HeaderStep ==
  TypeOK /\ HeaderInv /\ [StaggeredNext]_vars => HeaderInv'
<1> SUFFICES ASSUME TypeOK, HeaderInv, [StaggeredNext]_vars PROVE HeaderInv'
  OBVIOUS
<1>0. pc \in [Procs -> Places] /\ file \in Files /\ fresh \in [Procs -> BOOLEAN]
  BY DEF TypeOK, ProcsOK
<1>1. ASSUME NEW p \in Procs, StaggeredOpen(p) PROVE HeaderInv'
  <2>1. /\ pc[p] = "down" /\ pc' = [pc EXCEPT ![p] = "stat"] /\ fresh' = fresh
        /\ \A q \in Procs : ~InOpen(q)
        /\ file' = IF file.len = "none" THEN [file EXCEPT !.len = "short"] ELSE file
    BY <1>1 DEF StaggeredOpen, Open, Goto
  <2>2. file.len = "full" => file' = file
    BY <2>1
  <2>3. \A q \in Procs : q # p => pc'[q] = pc[q]
    BY <1>0, <2>1
  <2>4. pc'[p] = "stat"
    BY <1>0, <2>1
  <2>5. OneOpens'
    BY <2>1, <2>3, <2>4 DEF OneOpens, InOpen
  <2>6. \A q \in Procs : Reached(q)'
    BY <2>1, <2>3, <2>4 DEF Reached, InOpen, Initialising
  <2>7. \A q \in Procs : pc'[q] = "up" => Complete'
    BY <2>2, <2>3, <2>4 DEF HeaderInv, Complete
  <2>8. \A q, r \in Procs : q # r /\ pc'[q] = "up" => Attaching(r)'
    BY <2>1, <2>3, <2>4 DEF HeaderInv, Attaching, Initialising
  <2> QED BY <2>5, <2>6, <2>7, <2>8 DEF HeaderInv
<1>2. ASSUME NEW p \in Procs, Kill(p) \/ KillBeforeReady(p) PROVE HeaderInv'
  <2>1. /\ pc' = [pc EXCEPT ![p] = "down"] /\ file' = file
        /\ fresh' = [fresh EXCEPT ![p] = FALSE]
    BY <1>2 DEF Kill, KillBeforeReady, Down, Goto
  <2>2. pc'[p] = "down" /\ \A q \in Procs : q # p => pc'[q] = pc[q]
    BY <1>0, <2>1
  <2>3. \A q \in Procs : q # p => fresh'[q] = fresh[q]
    BY <1>0, <2>1
  <2>4. OneOpens'
    BY <2>2 DEF HeaderInv, OneOpens, InOpen
  <2>5. \A q \in Procs : Reached(q)'
    BY <2>1, <2>2 DEF HeaderInv, Reached, Initialising
  <2>6. \A q \in Procs : pc'[q] = "up" => Complete'
    BY <2>1, <2>2 DEF HeaderInv, Complete
  <2>7. \A q, r \in Procs : q # r /\ pc'[q] = "up" => Attaching(r)'
    BY <2>2, <2>3, Zenon DEF HeaderInv, Attaching, Initialising
  <2> QED BY <2>4, <2>5, <2>6, <2>7 DEF HeaderInv
<1>3. ASSUME NEW p \in Procs, Opening(p) PROVE HeaderInv'
  <2>0. /\ InOpen(p) /\ \A q \in Procs : q # p => ~InOpen(q)
    <3>1. InOpen(p)
      BY <1>3 DEF Opening, InOpen, Stat, SetLen, Map, Zero, InitInPlace, PutVersion, PutMagic,
                  PutReady, CheckVersion, SeeReady
    <3> QED BY <3>1 DEF HeaderInv, OneOpens
  <2>1. \A q \in Procs : q # p => pc'[q] = pc[q]
    BY <1>0, <1>3 DEF Opening, Goto, Stat, SetLen, Map, Zero, InitInPlace, PutVersion, PutMagic,
                      PutReady, CheckVersion, SeeReady
  <2>2. OneOpens'
    BY <2>0, <2>1 DEF OneOpens, InOpen
  <2>3. \A q \in Procs : q # p => Reached(q)' /\ Attaching(q)'
    BY <2>0, <2>1 DEF Reached, Attaching, InOpen, Initialising
  <2>4. ASSUME Reached(p)', pc'[p] = "up" => Complete',
               (\E q \in Procs : q # p /\ pc[q] = "up") => Complete' /\ Attaching(p)'
        PROVE  HeaderInv'
    BY <2>1, <2>2, <2>3, <2>4 DEF HeaderInv
  <2>5. Reached(p)
    BY DEF HeaderInv
  <2>6. ASSUME NEW q \in Procs, q # p, pc[q] = "up" PROVE Complete /\ Attaching(p)
    BY <2>6 DEF HeaderInv
  <2>7. CASE Stat(p)
    <3>1. /\ file' = file /\ fresh' = [fresh EXCEPT ![p] = file.len # "full"]
          /\ pc'[p] = IF fresh'[p] THEN "set_len" ELSE "map"
      BY <1>0, <2>7 DEF Stat, Goto
    <3>2. fresh'[p] <=> file.len # "full"
      BY <1>0, <3>1, Zenon
    <3> QED BY <2>4, <2>6, <3>1, <3>2 DEF Reached, Complete, Attaching, Initialising
  <2>8. CASE SetLen(p)
    <3>1. pc[p] = "set_len" /\ pc'[p] = "map" /\ file' = [file EXCEPT !.len = "full"]
      BY <1>0, <2>8 DEF SetLen, Goto
    <3>2. file'.len = "full"
      BY <1>0, <3>1 DEF Files
    <3> QED BY <2>4, <2>6, <3>1, <3>2 DEF Reached, Attaching, Initialising
  <2>9. CASE Map(p)
    <3>1. /\ pc[p] = "map" /\ file' = file
          /\ \/ pc'[p] = "zero" /\ ColdInit(p)
             \/ pc'[p] = "version" /\ file.magic = 1
      BY <1>0, <2>9 DEF Map, Goto, ColdInit
    <3> QED BY <2>4, <2>5, <2>6, <3>1 DEF Reached, Complete, Attaching, Initialising, ColdInit
  <2>10. ASSUME NEW part \in Rings \cup {"header"}, Zero(p, part) PROVE HeaderInv'
    <3>1. /\ pc[p] = "zero" /\ pc'[p] \in {"zero", "init"}
          /\ file' = file \/ file' = [file EXCEPT !.magic = 0, !.version = 0, !.ready = 0]
      BY <1>0, <2>10 DEF Zero, Goto
    <3>2. file'.len = file.len
      BY <1>0, <3>1, HeaderStores
    <3>3. Reached(p)' /\ pc'[p] # "up"
      BY <2>5, <3>1, <3>2 DEF Reached, Initialising
    <3> QED BY <2>4, <2>6, <3>1, <3>3 DEF Attaching, Initialising
  <2>11. ASSUME NEW r \in Rings, InitInPlace(p, r) PROVE HeaderInv'
    <3>1. pc[p] = "init" /\ pc'[p] \in {"init", "put_version"} /\ file' = file
      BY <1>0, <2>11 DEF InitInPlace, Goto
    <3>2. Reached(p)' /\ pc'[p] # "up"
      BY <2>5, <3>1 DEF Reached, Initialising
    <3> QED BY <2>4, <2>6, <3>1, <3>2 DEF Attaching, Initialising
  <2>12. CASE PutVersion(p) \/ PutMagic(p) \/ PutReady(p)
    <3>1. \/ pc[p] = "put_version" /\ pc'[p] = "put_magic" /\ file' = [file EXCEPT !.version = 1]
          \/ pc[p] = "put_magic" /\ pc'[p] = "put_ready" /\ file' = [file EXCEPT !.magic = 1]
          \/ pc[p] = "put_ready" /\ pc'[p] = "up" /\ file' = [file EXCEPT !.ready = 1]
      BY <1>0, <2>12 DEF PutVersion, PutMagic, PutReady, ReadyStored, Goto
    <3>2. \/ /\ pc[p] = "put_version" /\ pc'[p] = "put_magic"
             /\ file'.version = 1 /\ file'.len = file.len
          \/ /\ pc[p] = "put_magic" /\ pc'[p] = "put_ready"
             /\ file'.magic = 1 /\ file'.version = file.version /\ file'.len = file.len
          \/ /\ pc[p] = "put_ready" /\ pc'[p] = "up"
             /\ file'.ready = 1 /\ file'.magic = file.magic
             /\ file'.version = file.version /\ file'.len = file.len
      BY <1>0, <3>1, HeaderStores
    <3>3. Reached(p)' /\ (pc'[p] = "up" => Complete')
      BY <2>5, <3>2 DEF Reached, Complete, Initialising
    <3> QED BY <2>4, <2>6, <3>2, <3>3 DEF Attaching, Initialising
  <2>13. CASE CheckVersion(p)
    <3>1. /\ pc[p] = "version" /\ file' = file
          /\ \/ pc'[p] = "spin" /\ file.version = 1
             \/ pc'[p] = "failed"
      BY <1>0, <2>13 DEF CheckVersion, VersionMatches, Goto
    <3> QED BY <2>4, <2>5, <2>6, <3>1 DEF Reached, Complete, Attaching, Initialising
  <2>14. CASE SeeReady(p)
    <3>1. pc[p] = "spin" /\ pc'[p] = "up" /\ file' = file /\ file.ready = 1
      BY <1>0, <2>14 DEF SeeReady, Goto
    <3> QED BY <2>4, <2>5, <2>6, <3>1 DEF Reached, Complete, Attaching, Initialising
  <2> QED BY <1>3, <2>7, <2>8, <2>9, <2>10, <2>11, <2>12, <2>13, <2>14 DEF Opening
<1>4. CASE (\E p \in Procs : Use(p)) \/ UNCHANGED vars
  <2>1. UNCHANGED <<file, pc, fresh>>
    BY <1>4 DEF Use, NewHandle, Publish, Consume, vars
  <2> QED BY <2>1 DEF HeaderInv, OneOpens, InOpen, Reached, Complete, Attaching, Initialising
<1> QED BY <1>1, <1>2, <1>3, <1>4 DEF StaggeredNext

(* Whatever file is found at the path, and whoever is killed where.        *)
THEOREM HeaderInvariant == StaggeredSpec => []HeaderInv
<1>1. Init => HeaderInv
  BY DEF Init, HeaderInv, OneOpens, InOpen, Reached, Attaching, Initialising
<1> QED BY <1>1, HeaderStep, TypeCorrect, PTL DEF StaggeredSpec

(* "Whoever observes a fresh (zeroed) file initialises the rings, the      *)
(* other side just attaches" (shm.rs:5-6), "exactly one process"           *)
(* (ring.rs:57-58), when the starts are staggered.                         *)
THEOREM OneInitialises == StaggeredSpec => []InitialisedByOne
<1>1. HeaderInv => InitialisedByOne
  BY DEF HeaderInv, OneOpens, InOpen, Attaching, Initialising, InitialisedByOne
<1> QED BY <1>1, HeaderInvariant, PTL

(* "A mis-matched build can't silently attach" (shm.rs:3-4): the header of *)
(* an open bus is complete and of this version, for as long as any process *)
(* has it open.                                                            *)
THEOREM OpenIsReady == StaggeredSpec => []OpenBusIsReady
<1>1. TypeOK /\ HeaderInv => OpenBusIsReady
  BY DEF TypeOK, Files, HeaderInv, Complete, OpenBusIsReady
<1> QED BY <1>1, TypeCorrect, HeaderInvariant, PTL

-----------------------------------------------------------------------------
(* The rings are cleared when no process has a handle to lose, and every   *)
(* other step moves a cursor with its next_seq.                            *)
LEMMA CursorStep ==
  TypeOK /\ HeaderInv /\ CursorInv /\ [StaggeredNext]_vars => CursorInv'
<1> SUFFICES ASSUME TypeOK, HeaderInv, CursorInv, [StaggeredNext]_vars PROVE CursorInv'
  OBVIOUS
<1> USE MaxSeqAssumption
<1>0. /\ cur \in [Handles -> 0 .. MaxSeq] /\ avail \in [Rings -> SUBSET (1 .. MaxSeq)]
      /\ next \in [Handles -> {Closed} \cup 0 .. MaxSeq] /\ pc \in [Procs -> Places]
      /\ \A r \in Rings : <<r, "head">> \in Handles /\ <<r, "tail">> \in Handles
  BY DEF TypeOK, MemoryOK, ProcsOK, Handles
<1>a. /\ \A p \in Procs : Owned(p) \subseteq Handles
      /\ \A p, q \in Procs : p # q => Owned(p) \cap Owned(q) = {}
  BY DEF Procs, Owned, Handles, Rings
<1>1. ASSUME NEW p \in Procs, Initialising(p), NEW c \in Rings, ClearRing(c), UNCHANGED next,
             pc'[p] # "up", \A q \in Procs : q # p => pc'[q] = pc[q]
      PROVE  CursorInv'
  <2>1. \A q \in Procs : pc[q] # "up"
    BY <1>1 DEF HeaderInv, Attaching, Initialising
  <2>2. \A q \in Procs : \A h \in Owned(q) : next[h] = Closed
    BY <2>1 DEF CursorInv, HandleInv
  <2>3. HandleInv'
    BY <1>1, <2>2 DEF HandleInv
  <2>4. ASSUME NEW r \in Rings PROVE RingInv(r)'
    <3>1. CASE r = c
      <4>1. cur'[<<r, "head">>] = 0 /\ avail'[r] = {}
        BY <1>0, <1>1, <3>1 DEF ClearRing
      <4> QED BY <4>1 DEF RingInv
    <3>2. CASE r # c
      <4>1. /\ cur'[<<r, "head">>] = cur[<<r, "head">>] /\ cur'[<<r, "tail">>] = cur[<<r, "tail">>]
            /\ avail'[r] = avail[r]
        BY <1>0, <1>1, <3>2 DEF ClearRing
      <4> QED BY <4>1 DEF CursorInv, RingInv
    <3> QED BY <3>1, <3>2
  <2> QED BY <2>3, <2>4 DEF CursorInv
<1>2. ASSUME NEW p \in Procs, NEW h \in Handles, NewHandle(p, h) PROVE CursorInv'
  <2>1. /\ pc[p] = "up" /\ h \in Owned(p) /\ next' = [next EXCEPT ![h] = cur[h]]
        /\ UNCHANGED <<cur, avail, pc>>
    BY <1>2 DEF NewHandle, Resumed
  <2>2. HandleInv'
    BY <1>0, <1>a, <2>1 DEF CursorInv, HandleInv
  <2> QED BY <2>1, <2>2 DEF CursorInv, RingInv
<1>3. ASSUME NEW p \in Procs, NEW r \in Rings, Publish(p, r) PROVE CursorInv'
  <2> DEFINE h == <<r, "head">>
             t == <<r, "tail">>
  <2>1. /\ h \in Owned(p) /\ next[h] # Closed /\ next[h] < MaxSeq /\ next[h] >= cur[t]
        /\ avail' = [avail EXCEPT ![r] = @ \cup {next[h] + 1}]
        /\ next' = [next EXCEPT ![h] = next[h] + 1]
        /\ cur' = [cur EXCEPT ![h] = next[h] + 1] /\ pc' = pc
    BY <1>3 DEF Publish
  <2>2. pc[p] = "up" /\ next[h] = cur[h]
    BY <2>1 DEF CursorInv, HandleInv
  <2>3. HandleInv'
    BY <1>0, <1>a, <2>1, <2>2 DEF CursorInv, HandleInv
  <2>4. ASSUME NEW s \in Rings PROVE RingInv(s)'
    <3>1. CASE s = r
      <4>1. PICK hd \in 0 .. MaxSeq, tl \in 0 .. MaxSeq : hd = cur[h] /\ tl = cur[t] /\ hd >= tl
        BY <1>0, <2>1, <2>2
      <4>2. cur'[h] = hd + 1 /\ cur'[t] = tl /\ avail'[r] = avail[r] \cup {hd + 1}
        BY <1>0, <2>1, <2>2, <4>1
      <4>3. \A n \in 1 .. MaxSeq : n > tl => (n \in avail[r] <=> n <= hd)
        BY <4>1 DEF CursorInv, RingInv
      <4>4. \A n \in 1 .. MaxSeq : n > tl => (n \in avail[r] \cup {hd + 1} <=> n <= hd + 1)
        BY <4>1, <4>3
      <4> QED BY <3>1, <4>2, <4>4 DEF RingInv
    <3>2. CASE s # r
      <4>1. /\ cur'[<<s, "head">>] = cur[<<s, "head">>] /\ cur'[<<s, "tail">>] = cur[<<s, "tail">>]
            /\ avail'[s] = avail[s]
        BY <1>0, <2>1, <3>2
      <4> QED BY <4>1 DEF CursorInv, RingInv
    <3> QED BY <3>1, <3>2
  <2> QED BY <2>3, <2>4 DEF CursorInv
<1>4. ASSUME NEW p \in Procs, NEW r \in Rings, Consume(p, r) PROVE CursorInv'
  <2> DEFINE h == <<r, "head">>
             t == <<r, "tail">>
  <2>1. /\ t \in Owned(p) /\ next[t] # Closed /\ next[t] + 1 \in avail[r]
        /\ next' = [next EXCEPT ![t] = next[t] + 1]
        /\ cur' = [cur EXCEPT ![t] = next[t] + 1] /\ pc' = pc /\ avail' = avail
    BY <1>4 DEF Consume
  <2>2. pc[p] = "up" /\ next[t] = cur[t]
    BY <2>1 DEF CursorInv, HandleInv
  <2>3. HandleInv'
    BY <1>0, <1>a, <2>1, <2>2 DEF CursorInv, HandleInv
  <2>4. ASSUME NEW s \in Rings PROVE RingInv(s)'
    <3>1. CASE s = r
      <4>0. h \in Handles /\ t \in Handles /\ h # t
        BY <1>0
      <4>1. cur'[h] = cur[h] /\ cur'[t] = cur[t] + 1 /\ cur[t] \in Nat
        <5> HIDE DEF h, t
        <5> QED BY <1>0, <2>1, <2>2, <4>0
      <4> QED BY <2>1, <3>1, <4>1 DEF CursorInv, RingInv
    <3>2. CASE s # r
      <4>1. /\ cur'[<<s, "head">>] = cur[<<s, "head">>] /\ cur'[<<s, "tail">>] = cur[<<s, "tail">>]
            /\ avail'[s] = avail[s]
        BY <1>0, <2>1, <3>2
      <4> QED BY <4>1 DEF CursorInv, RingInv
    <3> QED BY <3>1, <3>2
  <2> QED BY <2>3, <2>4 DEF CursorInv
<1>5. ASSUME NEW p \in Procs, Kill(p) \/ KillBeforeReady(p) PROVE CursorInv'
  <2>1. /\ pc' = [pc EXCEPT ![p] = "down"] /\ UNCHANGED <<cur, avail>>
        /\ next' = [h \in Handles |-> IF h \in Owned(p) THEN Closed ELSE next[h]]
    BY <1>5 DEF Kill, KillBeforeReady, Down, Goto
  <2>2. HandleInv'
    BY <1>0, <1>a, <2>1 DEF CursorInv, HandleInv
  <2> QED BY <2>1, <2>2 DEF CursorInv, RingInv
<1>6. ASSUME NEW p \in Procs, StaggeredOpen(p) \/ Opening(p) PROVE CursorInv'
  <2>1. /\ \A q \in Procs : q # p => pc'[q] = pc[q]
        /\ pc[p] # "up" /\ UNCHANGED next
    BY <1>0, <1>6 DEF StaggeredOpen, Opening, Goto, Open, Stat, SetLen, Map, Zero, InitInPlace,
                      PutVersion, PutMagic, PutReady, CheckVersion, SeeReady
  <2>2. \/ UNCHANGED <<cur, avail>>
        \/ Initialising(p) /\ pc'[p] # "up" /\ \E c \in Rings : ClearRing(c)
    BY <1>0, <1>6 DEF StaggeredOpen, Opening, Goto, Open, Stat, SetLen, Map, Zero, InitInPlace,
                      PutVersion, PutMagic, PutReady, CheckVersion, SeeReady, Initialising, Rings
  <2>3. CASE UNCHANGED <<cur, avail>>
    <3>1. HandleInv'
      BY <2>1, <2>3 DEF CursorInv, HandleInv
    <3> QED BY <2>3, <3>1 DEF CursorInv, RingInv
  <2> QED BY <1>1, <2>1, <2>2, <2>3
<1>7. CASE UNCHANGED vars
  BY <1>7 DEF vars, CursorInv, HandleInv, RingInv
<1> QED BY <1>2, <1>3, <1>4, <1>5, <1>6, <1>7 DEF StaggeredNext, Use

(* Nothing that a process has through its handles is taken from it: no     *)
(* restart, failed open or death of the other resets a cursor under it or  *)
(* loses a message between the cursors (shm.rs:60-90, ring.rs:75-150).     *)
THEOREM HandlesAreKept == StaggeredSpec => []HandlesAgree
<1>1. Init => CursorInv
  <2>1. Init => HandleInv
    BY DEF Init, HandleInv, Owned, Handles, Procs, Rings
  <2>2. ASSUME Init, NEW r \in Rings PROVE RingInv(r)
    <3>1. <<r, "head">> \in Handles /\ <<r, "tail">> \in Handles
      BY DEF Handles
    <3>2. /\ cur[<<r, "tail">>] = 0
          /\ \/ cur[<<r, "head">>] = 0 /\ avail[r] = {}
             \/ cur[<<r, "head">>] = 1 /\ avail[r] = {1}
      BY <2>2, <3>1 DEF Init
    <3> QED BY <3>2, MaxSeqAssumption DEF RingInv
  <2> QED BY <2>1, <2>2 DEF CursorInv
<1>2. TypeOK /\ CursorInv => HandlesAgree
  <2> SUFFICES ASSUME TypeOK, CursorInv PROVE HandlesAgree
    OBVIOUS
  <2>1. \A h \in Handles : next[h] # Closed => next[h] = cur[h]
    <3>1. \A h \in Handles : \E p \in Procs : h \in Owned(p)
      BY DEF Handles, Owned, Procs, Rings
    <3> QED BY <3>1 DEF CursorInv, HandleInv
  <2>2. ASSUME NEW r \in Rings
        PROVE  avail[r] \cap (cur[<<r, "tail">>] + 1 .. MaxSeq)
                 = cur[<<r, "tail">>] + 1 .. cur[<<r, "head">>]
    <3>1. PICK hd \in 0 .. MaxSeq, tl \in 0 .. MaxSeq :
            hd = cur[<<r, "head">>] /\ tl = cur[<<r, "tail">>]
      BY MaxSeqAssumption DEF TypeOK, MemoryOK, Handles
    <3>2. avail[r] \subseteq 1 .. MaxSeq
      BY DEF TypeOK, MemoryOK
    <3>3. \A n \in 1 .. MaxSeq : n > tl => (n \in avail[r] <=> n <= hd)
      BY <3>1 DEF CursorInv, RingInv
    <3>4. avail[r] \cap (tl + 1 .. MaxSeq) = tl + 1 .. hd
      BY <3>2, <3>3, MaxSeqAssumption
    <3> QED BY <3>1, <3>4
  <2> QED BY <2>1, <2>2 DEF HandlesAgree
<1> QED BY <1>1, <1>2, CursorStep, TypeCorrect, HeaderInvariant, PTL DEF StaggeredSpec
=============================================================================
