---------------------------- MODULE RegistryProofs ----------------------------
(***************************************************************************)
(* Proofs about StrategyRegistry, for any files, edits, crashes and calls   *)
(* of stop_all: a name is kept from the watcher only while the watchdog     *)
(* handles it (PendingIsHandled), and no thread that trades is forgotten    *)
(* (TradersAreKept).                                                        *)
(*                                                                         *)
(* Both rest on how the two tasks share the names: what the watchdog has    *)
(* pending and what the watcher has claimed, to load or being loaded, are   *)
(* different names and none of them is loaded (TasksAgree).                 *)
(***************************************************************************)
EXTENDS StrategyRegistry, FiniteSetTheorems, TLAPS

Threads ==
  [name : Names, version : Versions, alive : BOOLEAN, stop : BOOLEAN, heartbeat : BOOLEAN]

\* Threads and the table of loaded strategies that goes with them.
Entries(is) == [inst : {0} \union DOMAIN is, mtime : Versions]
TableTypes(is, ld) ==
  /\ is \in Seq(Threads) /\ ld \in [Names -> Entries(is)]
  /\ \A n \in Names : ld[n].inst # 0 => is[ld[n].inst].name = n

Tables ==
  /\ up \in BOOLEAN /\ files \in [Names -> Versions] /\ edits \in Nat
  /\ TableTypes(insts, loaded)

WatcherTypes ==
  watcher \in [pc : {"sleep", "dead"}]
              \union [pc : {"work"} \union Names, seen : [Names -> Versions],
                      toLoad : SUBSET Names, toCheck : SUBSET Names]
WatchdogTypes ==
  watchdog \in [pc : {"sleep"}]
               \union [pc : {"backoff", "load"}, name : Names, version : Versions, crashed : SUBSET Names]
StopperTypes ==
  stopper \in [pc : {"sleep"}] \union [pc : {"stop"}, by : Nat, left : SUBSET Names]

Scanning == watcher.pc \notin {"sleep", "dead"}

\* The names the watcher is about to load, or loads.
Claimed == IF Scanning THEN (watcher.toLoad \union {watcher.pc}) \intersect Names ELSE {}

ScanInv ==
  /\ WatcherTypes
  /\ Scanning => watcher.toLoad \intersect watcher.toCheck = {} /\ watcher.pc \notin watcher.toLoad

DogInv ==
  /\ WatchdogTypes
  /\ pending = IF watchdog.pc = "sleep" THEN {} ELSE {watchdog.name}
  /\ watchdog.pc # "sleep" => watchdog.name \notin watchdog.crashed

TasksAgree ==
  /\ \A n \in pending \union Claimed : loaded[n].inst = 0
  /\ pending \intersect Claimed = {}

RegistryInv == Tables /\ StopperTypes /\ ScanInv /\ DogInv /\ TasksAgree
------------------------------------------------------------------------------
(* What the steps do to the tables.                                          *)

LEMMA Numbers == 0 \in Versions /\ 1 \in Versions /\ NotLoaded.inst = 0 /\ NotLoaded.mtime = 0
  BY BoundsAreNumbers DEF Versions, NotLoaded

LEMMA ThreadType ==
  ASSUME NEW n \in Names, NEW v \in Versions
  PROVE  Thread(n, v) \in Threads /\ Thread(n, v).name = n
  BY DEF Thread, Threads

\* The initial scan has a thread for every file.
LEMMA ScanTypes ==
  ASSUME NEW fs \in [Names -> Versions], NEW is, NEW ld, InitialScan(fs, is, ld)
  PROVE  TableTypes(is, ld)
<1> DEFINE P == {n \in Names : fs[n] # 0}
           T == {Thread(n, fs[n]) : n \in Names}
           Covers(s) == \A n \in Names : fs[n] # 0 => \E i \in DOMAIN s : s[i] = Thread(n, fs[n])
<1>1. IsFiniteSet(P)
  BY NamesAreNoPlaces, FS_Subset
<1>2. Cardinality(P) \in Nat /\ ExistsBijection(1..Cardinality(P), P)
  BY <1>1, FS_CardinalityType
<1>3. PICK f \in [1..Cardinality(P) -> P] : \A n \in P : \E i \in 1..Cardinality(P) : f[i] = n
  BY <1>2 DEF ExistsBijection, Bijection, Surjection
<1>4. \E s \in [1..Cardinality(P) -> T] : Covers(s)
  <2> DEFINE s == [i \in 1..Cardinality(P) |-> Thread(f[i], fs[f[i]])]
  <2>1. s \in [1..Cardinality(P) -> T]
    BY <1>3
  <2>2. Covers(s)
    BY <1>3
  <2> QED
    BY <2>1, <2>2
<1>5. is \in [1..Cardinality(P) -> T] /\ Covers(is)
  <2>1. is = CHOOSE s \in [1..Cardinality(P) -> T] : Covers(s)
    BY DEF InitialScan, InitialThreads
  <2> QED
    BY <1>4, <2>1
<1>6. T \subseteq Threads
  BY ThreadType
<1>7. is \in Seq(Threads) /\ DOMAIN is = 1..Cardinality(P)
  <2> HIDE DEF T, P
  <2>1. \A i \in 1..Cardinality(P) : is[i] \in Threads
    BY <1>5, <1>6
  <2>2. is = [i \in 1..Cardinality(P) |-> is[i]] /\ Cardinality(P) \in Nat
    BY <1>2, <1>5
  <2> QED
    BY <2>1, <2>2
<1>8. ASSUME NEW n \in Names
      PROVE  /\ ld[n] \in Entries(is)
             /\ ld[n].inst # 0 => is[ld[n].inst].name = n
  <2>1. CASE fs[n] = 0
    <3>1. ld[n] = NotLoaded
      BY <2>1 DEF InitialScan
    <3> QED
      BY <3>1, Numbers DEF Entries, NotLoaded
  <2>2. CASE fs[n] # 0
    <3>1. \E i \in DOMAIN is : is[i].name = n
      BY <1>5, <2>2, ThreadType
    <3>2. PICK j : j = CHOOSE i \in DOMAIN is : is[i].name = n
      OBVIOUS
    <3>3. j \in DOMAIN is /\ is[j].name = n
      BY <3>1, <3>2
    <3>4. ld[n] = [inst |-> j, mtime |-> fs[n]]
      BY <2>2, <3>2 DEF InitialScan
    <3> QED
      BY <3>3, <3>4 DEF Entries
  <2> QED
    BY <2>1, <2>2
<1>9. ld = [n \in Names |-> ld[n]]
  BY DEF InitialScan
<1> QED
  BY <1>7, <1>8, <1>9 DEF TableTypes

\* Threads may be told to stop or end, and strategies be forgotten.
LEMMA Forgotten ==
  ASSUME NEW is, NEW ld, TableTypes(is, ld), NEW is2 \in Seq(Threads), DOMAIN is2 = DOMAIN is,
         \A i \in DOMAIN is : is2[i].name = is[i].name,
         NEW ld2 \in [Names -> {NotLoaded} \union {ld[n] : n \in Names}],
         \A n \in Names : ld2[n] \in {NotLoaded, ld[n]}
  PROVE  TableTypes(is2, ld2)
<1>1. \A n \in Names : ld2[n] \in Entries(is2)
  BY Numbers DEF TableTypes, Entries, NotLoaded
<1>2. \A n \in Names : ld2[n].inst # 0 => ld2[n] = ld[n] /\ ld[n].inst \in DOMAIN is
  BY Numbers DEF TableTypes, Entries
<1> QED
  BY <1>1, <1>2 DEF TableTypes

LEMMA StoppedTypes ==
  ASSUME NEW is \in Seq(Threads), NEW ids
  PROVE  /\ Stopped(is, ids) \in Seq(Threads) /\ DOMAIN Stopped(is, ids) = DOMAIN is
         /\ \A i \in DOMAIN is : /\ Stopped(is, ids)[i].name = is[i].name
                                 /\ i \in ids => Stopped(is, ids)[i].stop
<1>1. DOMAIN Stopped(is, ids) = 1..Len(is) /\ Len(is) \in Nat /\ DOMAIN is = 1..Len(is)
  BY DEF Stopped
<1>2. ASSUME NEW i \in DOMAIN is
      PROVE  /\ Stopped(is, ids)[i] \in Threads
             /\ Stopped(is, ids)[i].name = is[i].name
             /\ i \in ids => Stopped(is, ids)[i].stop
  <2>1. is[i] \in Threads
    OBVIOUS
  <2>2. Stopped(is, ids)[i] = IF i \in ids THEN [is[i] EXCEPT !.stop = TRUE, !.alive = FALSE] ELSE is[i]
    BY DEF Stopped
  <2> QED
    BY <2>1, <2>2 DEF Threads
<1>3. Stopped(is, ids) = [i \in 1..Len(is) |-> Stopped(is, ids)[i]]
  BY <1>1 DEF Stopped
<1> QED
  BY <1>1, <1>2, <1>3

\* A strategy is loaded.
LEMMA StartTypes ==
  ASSUME NEW is, NEW ld, TableTypes(is, ld), NEW n \in Names, NEW v \in Versions, NEW m \in Versions
  PROVE  TableTypes(Append(is, Thread(n, v)), [ld EXCEPT ![n] = [inst |-> Len(is) + 1, mtime |-> m]])
<1>1. is \in Seq(Threads) /\ ld \in [Names -> Entries(is)] /\ Thread(n, v) \in Threads /\ Thread(n, v).name = n
  BY ThreadType DEF TableTypes
<1>2. PICK t : t = Thread(n, v)
  OBVIOUS
<1>3. PICK is2 : is2 = Append(is, t)
  OBVIOUS
<1>4. /\ is2 \in Seq(Threads) /\ DOMAIN is = 1..Len(is) /\ Len(is) \in Nat
      /\ DOMAIN is2 = 1..(Len(is) + 1) /\ is2[Len(is) + 1] = t
      /\ \A i \in 1..Len(is) : is2[i] = is[i]
  BY <1>1, <1>2, <1>3
<1>5. PICK e : e = [inst |-> Len(is) + 1, mtime |-> m]
  OBVIOUS
<1>6. PICK ld2 : ld2 = [ld EXCEPT ![n] = e]
  OBVIOUS
<1>7. Len(is) + 1 \in DOMAIN is2 /\ DOMAIN is \subseteq DOMAIN is2 /\ Len(is) + 1 # 0
  BY <1>4
<1>8. \A k \in Names : ld2[k] = IF k = n THEN e ELSE ld[k]
  BY <1>1, <1>6
<1>9. ASSUME NEW k \in Names
      PROVE  ld2[k] \in Entries(is2) /\ (ld2[k].inst # 0 => is2[ld2[k].inst].name = k)
  <2>1. CASE k = n
    BY <1>1, <1>2, <1>4, <1>5, <1>7, <1>8, <2>1 DEF Entries
  <2>2. CASE k # n
    <3>1. ld[k] \in Entries(is) /\ (ld[k].inst # 0 => is[ld[k].inst].name = k)
      BY DEF TableTypes
    <3>2. ld[k].inst # 0 => ld[k].inst \in 1..Len(is)
      BY <1>4, <3>1 DEF Entries
    <3> QED
      BY <1>4, <1>7, <1>8, <2>2, <3>1, <3>2 DEF Entries
  <2> QED
    BY <2>1, <2>2
<1>10. ld2 \in [Names -> Entries(is2)]
  BY <1>1, <1>6, <1>8, <1>9
<1>11. TableTypes(is2, ld2)
  BY <1>4, <1>9, <1>10 DEF TableTypes
<1> QED
  BY <1>2, <1>3, <1>5, <1>6, <1>11
------------------------------------------------------------------------------
(* The tables, step by step.                                                 *)

\* What a step of the watchdog leaves of the table ld.
LEMMA Taken ==
  ASSUME DogInv, watchdog.pc # "sleep", NEW ld, NEW crashed, crashed = watchdog.crashed, TakeNext(crashed, ld)
  PROVE  /\ DogInv'
         /\ \/ loaded' = ld /\ pending' = {}
            \/ \E n \in watchdog.crashed :
                 /\ n \in Names /\ ld[n].inst # 0
                 /\ loaded' = [ld EXCEPT ![n] = NotLoaded] /\ pending' = {n}
<1>1. watchdog \in [pc : {"backoff", "load"}, name : Names, version : Versions, crashed : SUBSET Names]
  BY DEF DogInv, WatchdogTypes
<1>2. pending = {watchdog.name}
  BY DEF DogInv
<1> DEFINE rest == crashed \intersect LoadedNames(ld)
<1>3. CASE rest = {}
  <2>1. watchdog' = Sleeping /\ loaded' = ld /\ pending' = pending \ {watchdog.name}
    BY <1>3 DEF TakeNext
  <2>2. DogInv'
    BY <1>2, <2>1 DEF DogInv, WatchdogTypes, Sleeping
  <2> QED
    BY <1>2, <2>1, <2>2
<1>4. CASE rest # {}
  <2>1. PICK n \in rest :
          /\ watchdog' = [pc |-> "backoff", name |-> n, version |-> 0, crashed |-> rest \ {n}]
          /\ loaded' = [ld EXCEPT ![n] = NotLoaded]
          /\ pending' = (pending \ {watchdog.name}) \union {n}
    BY <1>4 DEF TakeNext
  <2>2. n \in watchdog.crashed /\ n \in Names /\ ld[n].inst # 0 /\ rest \ {n} \subseteq Names
    BY <1>1, <2>1 DEF LoadedNames
  <2>3. pending' = {n}
    BY <1>2, <2>1
  <2>4. DogInv'
    <3>1. watchdog' \in [pc : {"backoff", "load"}, name : Names, version : Versions, crashed : SUBSET Names]
      BY <2>1, <2>2, Numbers
    <3> QED
      BY <2>1, <2>3, <3>1 DEF DogInv, WatchdogTypes
  <2> QED
    BY <2>1, <2>2, <2>3, <2>4
<1> QED
  BY <1>3, <1>4

\* Names leave the table.
LEMMA LeaveTable ==
  ASSUME NEW is, NEW ld, TableTypes(is, ld), NEW n \in Names
  PROVE  /\ TableTypes(is, [ld EXCEPT ![n] = NotLoaded])
         /\ \A k \in Names : [ld EXCEPT ![n] = NotLoaded][k] = IF k = n THEN NotLoaded ELSE ld[k]
<1>1. is \in Seq(Threads) /\ ld \in [Names -> Entries(is)]
  BY DEF TableTypes
<1>2. PICK ld2 : ld2 = [ld EXCEPT ![n] = NotLoaded]
  OBVIOUS
<1>3. \A k \in Names : ld2[k] = IF k = n THEN NotLoaded ELSE ld[k]
  BY <1>1, <1>2
<1>4. ld2 \in [Names -> {NotLoaded} \union {ld[k] : k \in Names}]
  BY <1>1, <1>2, <1>3
<1>5. TableTypes(is, ld2)
  BY <1>1, <1>3, <1>4, Forgotten
<1> QED
  BY <1>2, <1>3, <1>5

LEMMA RescanTables ==
  ASSUME Tables, NEW gone \in SUBSET Names, insts' = Stopped(insts, InstsOf(gone)),
         loaded' = [n \in Names |-> IF n \in gone THEN NotLoaded ELSE loaded[n]]
  PROVE  TableTypes(insts, loaded)'
<1>1. TableTypes(insts, loaded) /\ insts \in Seq(Threads)
  BY DEF Tables, TableTypes
<1>2. /\ insts' \in Seq(Threads) /\ DOMAIN insts' = DOMAIN insts
      /\ \A i \in DOMAIN insts : insts'[i].name = insts[i].name
  BY <1>1, StoppedTypes
<1>3. \A n \in Names : loaded'[n] \in {NotLoaded, loaded[n]}
  OBVIOUS
<1>4. loaded' \in [Names -> {NotLoaded} \union {loaded[n] : n \in Names}]
  OBVIOUS
<1> QED
  BY <1>1, <1>2, <1>3, <1>4, Forgotten

\* One thread changes, and keeps its class.
LEMMA OneChanges ==
  ASSUME Tables, NEW i \in InstIds, NEW t \in Threads, t.name = insts[i].name,
         insts' = [insts EXCEPT ![i] = t], NEW ld2, TableTypes(insts, ld2)
  PROVE  TableTypes(insts', ld2)
<1>1. insts \in Seq(Threads) /\ i \in DOMAIN insts
  BY DEF Tables, TableTypes, InstIds
<1>2. /\ insts' \in Seq(Threads) /\ DOMAIN insts' = DOMAIN insts
      /\ \A k \in DOMAIN insts : insts'[k].name = insts[k].name
  BY <1>1
<1>3. ld2 \in [Names -> {NotLoaded} \union {ld2[n] : n \in Names}]
  BY DEF TableTypes
<1> QED
  BY <1>2, <1>3, Forgotten

LEMMA TablesStep ==
  ASSUME RegistryInv, [Next]_vars PROVE Tables'
<1> USE DEF tables, counts
<1>1. /\ up \in BOOLEAN /\ files \in [Names -> Versions] /\ edits \in Nat /\ TableTypes(insts, loaded)
      /\ insts \in Seq(Threads) /\ loaded \in [Names -> Entries(insts)]
  BY DEF RegistryInv, Tables, TableTypes
<1>2. DogInv /\ ScanInv
  BY DEF RegistryInv
<1>3. Tables
  BY DEF RegistryInv
<1>4. ASSUME UNCHANGED <<up, files, edits>>, TableTypes(insts, loaded)' PROVE Tables'
  BY <1>1, <1>4 DEF Tables
<1>5. CASE UNCHANGED <<files, edits, tables>> /\ up' \in BOOLEAN
  BY <1>1, <1>5 DEF Tables
<1>6. ASSUME NEW n \in Names, Edit(n) PROVE Tables'
  <2>1. edits' = edits + 1 /\ edits < MaxEdits
    BY <1>6 DEF Edit
  <2>2. PICK v \in {0, edits + 2} : files' = [files EXCEPT ![n] = v]
    BY <1>6 DEF Edit
  <2>3. v \in Versions
    BY <1>1, <2>1, <2>2, BoundsAreNumbers DEF Versions
  <2> QED
    BY <1>1, <1>6, <2>1, <2>2, <2>3 DEF Tables, Edit
<1>7. CASE Rescan
  BY <1>3, <1>4, <1>7, RescanTables DEF Rescan, LoadedNames
<1>8. ASSUME NEW n \in Names, RescanCheck(n) PROVE Tables'
  <2>1. CASE UNCHANGED tables
    BY <1>4, <1>8, <2>1, <1>1 DEF RescanCheck
  <2>2. CASE insts' = Stopped(insts, {loaded[n].inst}) /\ loaded' = [loaded EXCEPT ![n] = NotLoaded]
    <3>1. TableTypes(insts, loaded') /\ loaded' \in [Names -> Entries(insts)]
      BY <1>1, <2>2, LeaveTable DEF TableTypes
    <3>2. /\ insts' \in Seq(Threads) /\ DOMAIN insts' = DOMAIN insts
          /\ \A i \in DOMAIN insts : insts'[i].name = insts[i].name
      BY <1>1, <2>2, StoppedTypes
    <3>3. loaded' \in [Names -> {NotLoaded} \union {loaded'[k] : k \in Names}]
      BY <3>1
    <3>4. TableTypes(insts', loaded')
      BY <3>1, <3>2, <3>3, Forgotten
    <3> QED
      BY <1>4, <1>8, <3>4 DEF RescanCheck
  <2> QED
    BY <1>8, <2>1, <2>2 DEF RescanCheck
<1>9. ASSUME NEW n \in Names, RescanLoaded(n) PROVE Tables'
  <2>1. CASE LoadFails
    BY <1>4, <1>9, <2>1, <1>1 DEF RescanLoaded, LoadFails
  <2>2. CASE Start(n, watcher.seen[n])
    <3>1. watcher.seen[n] \in Versions /\ files[n] \in Versions
      <4>1. watcher.pc = n
        BY <1>9 DEF RescanLoaded
      <4>2. watcher.pc \notin {"sleep", "dead"}
        BY <4>1, NamesAreNoPlaces
      <4> QED
        BY <1>1, <1>2, <4>2 DEF ScanInv, WatcherTypes
    <3>2. TableTypes(insts', loaded')
      BY <1>1, <2>2, <3>1, StartTypes DEF Start
    <3> QED
      BY <1>4, <1>9, <3>2 DEF RescanLoaded
  <2> QED
    BY <1>9, <2>1, <2>2 DEF RescanLoaded
<1>10. CASE Watch
  <2>1. PICK n \in Crashed : loaded' = [loaded EXCEPT ![n] = NotLoaded]
    BY <1>10 DEF Watch
  <2>2. n \in Names
    BY DEF Crashed, LoadedNames
  <2>3. TableTypes(insts, loaded')
    BY <1>1, <2>1, <2>2, LeaveTable
  <2> QED
    BY <1>4, <1>10, <2>3 DEF Watch
<1>11. ASSUME watchdog.pc # "sleep", NEW ld, TableTypes(insts', ld), TakeNext(watchdog.crashed, ld),
              UNCHANGED <<up, files, edits>>
       PROVE  Tables'
  <2>1. TableTypes(insts', loaded')
    BY <1>2, <1>11, Taken, LeaveTable
  <2> QED
    BY <1>4, <1>11, <2>1
<1>12. CASE BackoffOver
  <2>1. CASE UNCHANGED loaded
    BY <1>1, <1>4, <1>12, <2>1 DEF BackoffOver
  <2>2. CASE TakeNext(watchdog.crashed, loaded)
    BY <1>1, <1>11, <1>12, <2>2 DEF BackoffOver
  <2> QED
    BY <1>12, <2>1, <2>2 DEF BackoffOver
<1>13. CASE Reloaded
  <2>1. watchdog.pc # "sleep" /\ UNCHANGED <<up, files, edits>>
    BY <1>13 DEF Reloaded
  <2>2. watchdog.name \in Names /\ watchdog.version \in Versions /\ files[watchdog.name] \in Versions
    BY <1>1, <1>2, <2>1 DEF DogInv, WatchdogTypes
  <2>3. CASE insts' = insts /\ TakeNext(watchdog.crashed, loaded)
    BY <1>1, <1>11, <2>1, <2>3
  <2>4. CASE /\ insts' = Append(insts, Thread(watchdog.name, watchdog.version))
             /\ TakeNext(watchdog.crashed,
                         [loaded EXCEPT ![watchdog.name] =
                            [inst |-> Len(insts) + 1, mtime |-> files[watchdog.name]]])
    <3>1. TableTypes(insts', [loaded EXCEPT ![watchdog.name] =
                                [inst |-> Len(insts) + 1, mtime |-> files[watchdog.name]]])
      BY <1>1, <2>2, <2>4, StartTypes
    <3> QED
      BY <1>11, <2>1, <2>4, <3>1
  <2> QED
    BY <1>13, <2>3, <2>4 DEF Reloaded
<1>14. ASSUME NEW n \in Names, StopNext(n) PROVE Tables'
  <2>1. CASE UNCHANGED tables
    BY <1>1, <1>4, <1>14, <2>1 DEF StopNext
  <2>2. ASSUME ~UNCHANGED tables
        PROVE  /\ loaded[n].inst # 0 /\ loaded' = [loaded EXCEPT ![n] = NotLoaded]
               /\ \/ insts' = Stopped(insts, {loaded[n].inst})
                  \/ insts' = [insts EXCEPT ![loaded[n].inst].stop = TRUE]
    BY <1>14, <2>2 DEF StopNext
  <2>3. CASE ~UNCHANGED tables
    <3>1. TableTypes(insts, loaded') /\ loaded' \in [Names -> Entries(insts)]
      BY <1>1, <2>2, <2>3, LeaveTable DEF TableTypes
    <3>2. CASE insts' = Stopped(insts, {loaded[n].inst})
      <4>1. /\ insts' \in Seq(Threads) /\ DOMAIN insts' = DOMAIN insts
            /\ \A i \in DOMAIN insts : insts'[i].name = insts[i].name
        BY <1>1, <3>2, StoppedTypes
      <4>2. loaded' \in [Names -> {NotLoaded} \union {loaded'[k] : k \in Names}]
        BY <3>1
      <4>3. TableTypes(insts', loaded')
        BY <3>1, <4>1, <4>2, Forgotten
      <4> QED
        BY <1>4, <1>14, <4>3 DEF StopNext
    <3>3. CASE insts' = [insts EXCEPT ![loaded[n].inst].stop = TRUE]
      <4>1. loaded[n].inst \in InstIds /\ insts[loaded[n].inst] \in Threads
        BY <1>1, <2>2, <2>3 DEF Entries, InstIds
      <4>2. PICK t : t = [insts[loaded[n].inst] EXCEPT !.stop = TRUE]
        OBVIOUS
      <4>3. t \in Threads /\ t.name = insts[loaded[n].inst].name
        BY <4>1, <4>2 DEF Threads
      <4>4. insts' = [insts EXCEPT ![loaded[n].inst] = t]
        BY <3>3, <4>2
      <4>5. TableTypes(insts', loaded')
        BY <1>3, <3>1, <4>1, <4>3, <4>4, OneChanges
      <4> QED
        BY <1>4, <1>14, <4>5 DEF StopNext
    <3> QED
      BY <2>2, <2>3, <3>2, <3>3
  <2> QED
    BY <2>1, <2>3
<1>15. ASSUME NEW i \in InstIds, ThreadExits(i) \/ Crash(i) PROVE Tables'
  <2>1. insts[i] \in Threads
    BY <1>1 DEF InstIds
  <2>2. PICK h \in BOOLEAN : insts' = [insts EXCEPT ![i] = [@ EXCEPT !.alive = FALSE, !.heartbeat = h]]
    <3>1. CASE Crash(i)
      BY <3>1 DEF Crash
    <3>2. CASE ThreadExits(i)
      <4>1. insts[i].heartbeat \in BOOLEAN /\ insts' = [insts EXCEPT ![i].alive = FALSE]
        BY <2>1, <3>2 DEF ThreadExits, Threads
      <4>2. [insts[i] EXCEPT !.alive = FALSE, !.heartbeat = insts[i].heartbeat] = [insts[i] EXCEPT !.alive = FALSE]
        BY <2>1 DEF Threads
      <4> QED
        BY <4>1, <4>2
    <3> QED
      BY <1>15, <3>1, <3>2
  <2>3. PICK t : t = [insts[i] EXCEPT !.alive = FALSE, !.heartbeat = h]
    OBVIOUS
  <2>4. t \in Threads /\ t.name = insts[i].name
    BY <2>1, <2>3 DEF Threads
  <2>5. insts' = [insts EXCEPT ![i] = t]
    BY <2>2, <2>3
  <2>6. TableTypes(insts', loaded)
    BY <1>1, <1>3, <2>4, <2>5, OneChanges
  <2> QED
    BY <1>4, <1>15, <2>6 DEF ThreadExits, Crash
<1>16. CASE Restart
  <2>1. PICK fs \in Loadable : InitialScan(fs, insts', loaded')
    BY <1>16 DEF Restart
  <2>2. fs \in [Names -> Versions]
    BY DEF Loadable
  <2>3. TableTypes(insts', loaded')
    BY <2>1, <2>2, ScanTypes
  <2> QED
    BY <1>1, <1>16, <2>3 DEF Restart, Tables
<1>17. ASSUME \/ \E n \in Names : RescanLoad(n)
              \/ RescanDone \/ (\E by \in InstIds \union {0} : StopAll(by)) \/ StopAllDone
              \/ (\E i \in InstIds : HeartbeatTimeout(i)) \/ UNCHANGED vars
       PROVE  UNCHANGED <<files, edits, tables>> /\ up' \in BOOLEAN
  BY <1>1, <1>17 DEF RescanLoad, RescanDone, StopAll, StopAllDone, HeartbeatTimeout, vars
<1> QED
  BY <1>5, <1>6, <1>7, <1>8, <1>9, <1>10, <1>12, <1>13, <1>14, <1>15, <1>16, <1>17
     DEF Next, WatcherNext, WatchdogNext, StopperNext, ThreadNext
------------------------------------------------------------------------------
(* The tasks, step by step.                                                  *)

LEMMA StopperStep ==
  ASSUME Tables, StopperTypes, [Next]_vars PROVE StopperTypes'
<1>1. CASE UNCHANGED stopper
  BY <1>1 DEF StopperTypes
<1>2. ASSUME NEW by \in InstIds \union {0}, StopAll(by) PROVE StopperTypes'
  <2>1. by \in Nat
    BY DEF Tables, TableTypes, InstIds
  <2> QED
    BY <1>2, <2>1 DEF StopAll, StopperTypes, LoadedNames
<1>3. ASSUME NEW n \in Names, StopNext(n) PROVE StopperTypes'
  BY <1>3 DEF StopNext, StopperTypes, Sleeping
<1>4. CASE StopAllDone \/ Restart
  BY <1>4 DEF StopAllDone, Restart, StopperTypes, Sleeping
<1>5. ASSUME \/ Rescan \/ RescanDone \/ (\E n \in Names : RescanLoad(n) \/ RescanCheck(n) \/ RescanLoaded(n))
             \/ Watch \/ BackoffOver \/ Reloaded \/ ThreadNext \/ (\E n \in Names : Edit(n)) \/ UNCHANGED vars
      PROVE  UNCHANGED stopper
  BY <1>5 DEF Rescan, RescanDone, RescanLoad, RescanCheck, RescanLoaded, Watch, BackoffOver, Reloaded,
              ThreadNext, ThreadExits, Crash, HeartbeatTimeout, Edit, vars
<1> QED
  BY <1>1, <1>2, <1>3, <1>4, <1>5 DEF Next, WatcherNext, WatchdogNext, StopperNext

\* Whoever is not the watcher leaves it alone, or ends it with the process.
LEMMA WatcherAlone ==
  ASSUME [Next]_vars
  PROVE  \/ UNCHANGED watcher \/ (Restart /\ watcher' = Sleeping)
         \/ UNCHANGED <<pending, watchdog>> /\ WatcherNext
<1>1. CASE WatcherNext
  BY <1>1 DEF WatcherNext, Rescan, RescanDone, RescanLoad, RescanCheck, RescanLoaded
<1>2. CASE Restart
  BY <1>2 DEF Restart
<1>3. ASSUME WatchdogNext \/ StopperNext \/ ThreadNext \/ (\E n \in Names : Edit(n)) \/ UNCHANGED vars
      PROVE  UNCHANGED watcher
  BY <1>3 DEF WatchdogNext, Watch, BackoffOver, Reloaded, StopperNext, StopAll, StopNext, StopAllDone,
              ThreadNext, ThreadExits, Crash, HeartbeatTimeout, Edit, vars
<1> QED
  BY <1>1, <1>2, <1>3 DEF Next

LEMMA ScanStep ==
  ASSUME Tables, ScanInv, [Next]_vars PROVE ScanInv'
<1>0. files \in [Names -> Versions]
  BY DEF Tables
<1>1. CASE UNCHANGED watcher
  BY <1>1 DEF ScanInv, WatcherTypes, Scanning
<1>2. CASE watcher' = Sleeping
  BY <1>2 DEF ScanInv, WatcherTypes, Scanning, Sleeping
<1>3. CASE Rescan
  <2>1. watcher' = [pc |-> "work", seen |-> files,
                    toLoad |-> (Present \ LoadedNames(loaded)) \ pending,
                    toCheck |-> Present \intersect LoadedNames(loaded)]
    BY <1>3 DEF Rescan
  <2>2. Present \subseteq Names /\ "work" \notin Names
    BY NamesAreNoPlaces DEF Present
  <2>3. WatcherTypes'
    BY <1>0, <2>1, <2>2 DEF WatcherTypes
  <2>4. watcher'.toLoad \intersect watcher'.toCheck = {} /\ watcher'.pc \notin watcher'.toLoad
    BY <2>1, <2>2
  <2> QED
    BY <2>3, <2>4 DEF ScanInv
<1>4. ASSUME NEW n \in Names, RescanLoad(n) PROVE ScanInv'
  <2>1. /\ watcher.pc = "work" /\ n \in watcher.toLoad
        /\ watcher' = [watcher EXCEPT !.pc = n, !.toLoad = @ \ {n}]
    BY <1>4 DEF RescanLoad
  <2>2. watcher \in [pc : {"work"} \union Names, seen : [Names -> Versions],
                     toLoad : SUBSET Names, toCheck : SUBSET Names]
    BY <2>1 DEF ScanInv, WatcherTypes
  <2>3. watcher.toLoad \intersect watcher.toCheck = {}
    BY <2>1 DEF ScanInv, Scanning
  <2>4. watcher'.pc = n /\ watcher'.toLoad = watcher.toLoad \ {n} /\ watcher'.toCheck = watcher.toCheck
    BY <2>1, <2>2
  <2>5. WatcherTypes'
    BY <2>1, <2>2 DEF WatcherTypes
  <2> QED
    BY <2>3, <2>4, <2>5 DEF ScanInv
<1>5. ASSUME NEW n \in Names, RescanCheck(n) PROVE ScanInv'
  <2>1. watcher.pc = "work" /\ watcher.toLoad = {} /\ n \in watcher.toCheck
    BY <1>5 DEF RescanCheck
  <2>2. watcher \in [pc : {"work"} \union Names, seen : [Names -> Versions],
                     toLoad : SUBSET Names, toCheck : SUBSET Names]
    BY <2>1 DEF ScanInv, WatcherTypes
  <2>3. \/ watcher' = [pc |-> "dead"]
        \/ watcher' = [watcher EXCEPT !.toCheck = @ \ {n}]
        \/ watcher' = [watcher EXCEPT !.pc = n, !.toCheck = @ \ {n}]
    BY <1>5 DEF RescanCheck
  <2>4. CASE watcher' = [pc |-> "dead"]
    BY <2>4 DEF ScanInv, WatcherTypes, Scanning
  <2>5. CASE watcher' \in {[watcher EXCEPT !.toCheck = @ \ {n}], [watcher EXCEPT !.pc = n, !.toCheck = @ \ {n}]}
    <3>1. watcher'.toLoad = {}
      BY <2>1, <2>2, <2>5
    <3>2. WatcherTypes'
      BY ZenonT(60), <2>2, <2>5 DEF WatcherTypes
    <3> QED
      BY <3>1, <3>2 DEF ScanInv
  <2> QED
    BY <2>3, <2>4, <2>5
<1>6. ASSUME NEW n \in Names, RescanLoaded(n) PROVE ScanInv'
  <2>1. watcher.pc = n /\ watcher' = [watcher EXCEPT !.pc = "work"]
    BY <1>6 DEF RescanLoaded
  <2>2. Scanning /\ "work" \notin Names
    BY <2>1, NamesAreNoPlaces DEF Scanning
  <2>3. watcher \in [pc : {"work"} \union Names, seen : [Names -> Versions],
                     toLoad : SUBSET Names, toCheck : SUBSET Names]
    BY <2>2 DEF ScanInv, WatcherTypes, Scanning
  <2>4. watcher.toLoad \intersect watcher.toCheck = {}
    BY <2>2 DEF ScanInv
  <2>5. watcher'.pc = "work" /\ watcher'.toLoad = watcher.toLoad /\ watcher'.toCheck = watcher.toCheck
    BY <2>1, <2>3
  <2>6. WatcherTypes'
    BY <2>1, <2>3 DEF WatcherTypes
  <2> QED
    BY <2>2, <2>3, <2>4, <2>5, <2>6 DEF ScanInv
<1>7. CASE RescanDone
  BY <1>2, <1>7 DEF RescanDone
<1> QED
  BY <1>1, <1>2, <1>3, <1>4, <1>5, <1>6, <1>7, WatcherAlone DEF WatcherNext

\* The watchdog, and what it has pending.
LEMMA DogStep ==
  ASSUME Tables, DogInv, [Next]_vars PROVE DogInv'
<1>1. CASE UNCHANGED <<pending, watchdog>>
  BY <1>1 DEF DogInv, WatchdogTypes
<1>2. CASE Watch
  <2>1. PICK n \in Crashed :
          /\ watchdog' = [pc |-> "backoff", name |-> n, version |-> 0, crashed |-> Crashed \ {n}]
          /\ pending' = pending \union {n}
    BY <1>2 DEF Watch
  <2>2. pending = {}
    BY <1>2 DEF Watch, DogInv
  <2>3. Crashed \subseteq Names
    BY DEF Crashed, LoadedNames
  <2>4. WatchdogTypes'
    <3>1. watchdog' \in [pc : {"backoff", "load"}, name : Names, version : Versions, crashed : SUBSET Names]
      BY <2>1, <2>3, Numbers
    <3> QED
      BY <3>1 DEF WatchdogTypes
  <2> QED
    BY <2>1, <2>2, <2>4 DEF DogInv
<1>3. CASE BackoffOver
  <2>1. CASE TakeNext(watchdog.crashed, loaded)
    BY <1>3, <2>1, Taken DEF BackoffOver
  <2>2. CASE watchdog' = [watchdog EXCEPT !.pc = "load", !.version = files[watchdog.name]] /\ pending' = pending
    <3>1. watchdog \in [pc : {"backoff", "load"}, name : Names, version : Versions, crashed : SUBSET Names]
      BY <1>3 DEF BackoffOver, DogInv, WatchdogTypes
    <3>2. files[watchdog.name] \in Versions
      BY <1>3, <3>1 DEF Tables
    <3>3. /\ watchdog' \in [pc : {"backoff", "load"}, name : Names, version : Versions, crashed : SUBSET Names]
          /\ watchdog'.name = watchdog.name /\ watchdog'.crashed = watchdog.crashed /\ watchdog'.pc = "load"
      BY <2>2, <3>1, <3>2
    <3>4. pending = {watchdog.name} /\ watchdog.name \notin watchdog.crashed
      BY <1>3 DEF BackoffOver, DogInv
    <3> QED
      BY <2>2, <3>3, <3>4 DEF DogInv, WatchdogTypes
  <2> QED
    BY <1>3, <2>1, <2>2 DEF BackoffOver
<1>4. CASE Reloaded
  <2>1. PICK ld : TakeNext(watchdog.crashed, ld)
    BY <1>4 DEF Reloaded
  <2> QED
    BY <1>4, <2>1, Taken DEF Reloaded
<1>5. CASE Restart
  BY <1>5 DEF Restart, DogInv, WatchdogTypes, Sleeping
<1>6. ASSUME WatcherNext \/ StopperNext \/ ThreadNext \/ (\E n \in Names : Edit(n)) \/ UNCHANGED vars
      PROVE  UNCHANGED <<pending, watchdog>>
  BY <1>6 DEF WatcherNext, Rescan, RescanDone, RescanLoad, RescanCheck, RescanLoaded,
              StopperNext, StopAll, StopNext, StopAllDone,
              ThreadNext, ThreadExits, Crash, HeartbeatTimeout, Edit, vars
<1> QED
  BY <1>1, <1>2, <1>3, <1>4, <1>5, <1>6 DEF Next, WatchdogNext
------------------------------------------------------------------------------
(* How the tasks share the names.                                            *)

LEMMA AgreeStep ==
  ASSUME RegistryInv, Tables', ScanInv', DogInv', [Next]_vars PROVE TasksAgree'
<1> USE DEF tables, counts
<1>1. /\ Tables /\ ScanInv /\ DogInv /\ TasksAgree /\ loaded \in [Names -> Entries(insts)]
      /\ NotLoaded.inst = 0
  BY Numbers DEF RegistryInv, Tables, TableTypes
<1>2. \A n \in pending \union Claimed : n \in Names /\ loaded[n].inst = 0
  BY <1>1 DEF TasksAgree, DogInv, WatchdogTypes, Claimed
<1>3. ASSUME watcher' = watcher PROVE Claimed' = Claimed
  BY <1>3 DEF Claimed, Scanning
<1>4. ASSUME watcher' = watcher, pending' = pending, \A n \in Names : loaded'[n] \in {loaded[n], NotLoaded}
      PROVE  TasksAgree'
  BY <1>1, <1>2, <1>3, <1>4 DEF TasksAgree
<1>5. CASE UNCHANGED <<watcher, pending, loaded>>
  BY <1>4, <1>5
<1>6. CASE Rescan
  <2>1. /\ loaded' = [n \in Names |-> IF n \in LoadedNames(loaded) \ Present THEN NotLoaded ELSE loaded[n]]
        /\ watcher'.pc = "work" /\ watcher'.toLoad = (Present \ LoadedNames(loaded)) \ pending
        /\ pending' = pending
    BY <1>6 DEF Rescan
  <2>2. Claimed' = watcher'.toLoad
    BY <2>1, NamesAreNoPlaces DEF Claimed, Scanning, Present
  <2>3. \A n \in Claimed' : n \in Names /\ loaded[n].inst = 0 /\ n \notin pending
    BY <2>1, <2>2 DEF Present, LoadedNames
  <2>4. \A n \in Names : loaded[n].inst = 0 => loaded'[n].inst = 0
    BY <1>1, <2>1
  <2> QED
    BY <1>2, <2>1, <2>3, <2>4 DEF TasksAgree
<1>7. ASSUME NEW n \in Names, RescanLoad(n) PROVE TasksAgree'
  <2>1. /\ watcher.pc = "work" /\ n \in watcher.toLoad /\ UNCHANGED <<pending, loaded>>
        /\ watcher' = [watcher EXCEPT !.pc = n, !.toLoad = @ \ {n}]
    BY <1>7 DEF RescanLoad
  <2>2. watcher'.pc = n /\ watcher'.toLoad = watcher.toLoad \ {n}
    BY <1>1, <2>1 DEF ScanInv, WatcherTypes
  <2>3. Claimed' \subseteq Claimed
    BY <2>1, <2>2 DEF Claimed, Scanning
  <2> QED
    BY <1>1, <2>1, <2>3 DEF TasksAgree
<1>8. ASSUME NEW n \in Names, RescanCheck(n) PROVE TasksAgree'
  <2>1. /\ watcher.pc = "work" /\ watcher.toLoad = {} /\ pending' = pending
    BY <1>8 DEF RescanCheck
  <2>2. CASE watcher' = [pc |-> "dead"] /\ loaded' = loaded
    <3>1. Claimed' = {}
      BY <2>2 DEF Claimed, Scanning
    <3> QED
      BY <1>1, <2>1, <2>2, <3>1 DEF TasksAgree
  <2>3. CASE watcher' = [watcher EXCEPT !.toCheck = @ \ {n}] /\ loaded' = loaded
    <3>1. watcher'.pc = watcher.pc /\ watcher'.toLoad = watcher.toLoad
      BY <1>1, <2>1, <2>3 DEF ScanInv, WatcherTypes
    <3>2. Claimed' = Claimed
      BY <3>1 DEF Claimed, Scanning
    <3> QED
      BY <1>1, <2>1, <2>3, <3>2 DEF TasksAgree
  <2>4. CASE /\ watcher' = [watcher EXCEPT !.pc = n, !.toCheck = @ \ {n}]
             /\ loaded[n].inst # 0 /\ loaded' = [loaded EXCEPT ![n] = NotLoaded]
    <3>1. watcher'.pc = n /\ watcher'.toLoad = {}
      BY <1>1, <2>1, <2>4 DEF ScanInv, WatcherTypes
    <3>2. Claimed' \subseteq {n}
      BY <3>1 DEF Claimed
    <3>3. n \notin pending
      BY <1>2, <2>4
    <3>4. \A k \in Names : loaded'[k] = IF k = n THEN NotLoaded ELSE loaded[k]
      BY <1>1, <2>4
    <3> QED
      BY <1>1, <1>2, <2>1, <3>2, <3>3, <3>4 DEF TasksAgree
  <2> QED
    BY <1>8, <2>2, <2>3, <2>4 DEF RescanCheck
<1>9. ASSUME NEW n \in Names, RescanLoaded(n) PROVE TasksAgree'
  <2>1. watcher.pc = n /\ watcher' = [watcher EXCEPT !.pc = "work"] /\ pending' = pending
    BY <1>9 DEF RescanLoaded
  <2>2. Scanning /\ "work" \notin Names
    BY <2>1, NamesAreNoPlaces DEF Scanning
  <2>3. watcher'.pc = "work" /\ watcher'.toLoad = watcher.toLoad
    BY <1>1, <2>1, <2>2 DEF ScanInv, WatcherTypes, Scanning
  <2>4. n \notin watcher.toLoad /\ n \in Claimed
    BY <1>1, <2>1, <2>2 DEF ScanInv, Claimed
  <2>5. n \notin pending
    BY <1>1, <2>4 DEF TasksAgree
  <2>6. Claimed' \subseteq Claimed \ {n}
    BY <2>2, <2>3, <2>4 DEF Claimed
  <2>7. \A k \in Names \ {n} : loaded'[k] = loaded[k]
    BY <1>1, <1>9 DEF RescanLoaded, Start, LoadFails
  <2> QED
    BY <1>1, <1>2, <2>1, <2>5, <2>6, <2>7 DEF TasksAgree
<1>10. CASE RescanDone \/ Restart
  <2>1. watcher' = Sleeping
    BY <1>10 DEF RescanDone, Restart
  <2>2. Claimed' = {}
    BY <2>1 DEF Claimed, Scanning, Sleeping
  <2>3. pending' = {} \/ (pending' = pending /\ loaded' = loaded)
    BY <1>10 DEF RescanDone, Restart
  <2> QED
    BY <1>1, <2>2, <2>3 DEF TasksAgree
<1>11. CASE Watch
  <2>1. PICK n \in Crashed : loaded' = [loaded EXCEPT ![n] = NotLoaded] /\ pending' = pending \union {n}
    BY <1>11 DEF Watch
  <2>2. n \in Names /\ loaded[n].inst # 0
    BY DEF Crashed, LoadedNames
  <2>3. n \notin Claimed /\ watcher' = watcher
    BY <1>2, <1>11, <2>2 DEF Watch
  <2>4. \A k \in Names : loaded'[k] = IF k = n THEN NotLoaded ELSE loaded[k]
    BY <1>1, <2>1
  <2> QED
    BY <1>1, <1>2, <1>3, <2>1, <2>2, <2>3, <2>4 DEF TasksAgree
<1>12. ASSUME watchdog.pc # "sleep", NEW ld, ld \in [Names -> Entries(insts')], TakeNext(watchdog.crashed, ld), watcher' = watcher,
              \A k \in Names \ {watchdog.name} : ld[k] = loaded[k]
       PROVE  TasksAgree'
  <2>1. pending = {watchdog.name} /\ watchdog.name \notin watchdog.crashed
    BY <1>1, <1>12 DEF DogInv
  <2>2. watchdog.name \notin Claimed /\ \A k \in Claimed : k \in Names /\ ld[k].inst = 0
    BY <1>1, <1>2, <1>12, <2>1 DEF TasksAgree
  <2>3. CASE loaded' = ld /\ pending' = {}
    BY <1>3, <1>12, <2>2, <2>3 DEF TasksAgree
  <2>4. CASE \E n \in watchdog.crashed :
               /\ n \in Names /\ ld[n].inst # 0
               /\ loaded' = [ld EXCEPT ![n] = NotLoaded] /\ pending' = {n}
    <3>1. PICK n \in watchdog.crashed :
            /\ n \in Names /\ ld[n].inst # 0
            /\ loaded' = [ld EXCEPT ![n] = NotLoaded] /\ pending' = {n}
      BY <2>4
    <3>2. n \notin Claimed
      BY <2>2, <3>1
    <3>3. \A k \in Names : loaded'[k] = IF k = n THEN NotLoaded ELSE ld[k]
      BY <1>12, <3>1
    <3> QED
      BY <1>1, <1>3, <1>12, <2>2, <3>1, <3>2, <3>3 DEF TasksAgree
  <2> QED
    BY <1>1, <1>12, <2>3, <2>4, Taken
<1>13. CASE BackoffOver
  <2>1. CASE UNCHANGED <<loaded, pending>>
    BY <1>5, <1>13, <2>1 DEF BackoffOver
  <2>2. CASE TakeNext(watchdog.crashed, loaded)
    BY <1>1, <1>12, <1>13, <2>2 DEF BackoffOver
  <2> QED
    BY <1>13, <2>1, <2>2 DEF BackoffOver
<1>14. CASE Reloaded
  <2>1. watchdog.pc # "sleep" /\ watcher' = watcher
    BY <1>14 DEF Reloaded
  <2>2. watchdog.name \in Names /\ watchdog.version \in Versions /\ files[watchdog.name] \in Versions
    BY <1>1, <2>1 DEF DogInv, WatchdogTypes, Tables
  <2>3. CASE insts' = insts /\ TakeNext(watchdog.crashed, loaded)
    BY <1>1, <1>12, <2>1, <2>3
  <2>4. CASE /\ insts' = Append(insts, Thread(watchdog.name, watchdog.version))
             /\ TakeNext(watchdog.crashed,
                         [loaded EXCEPT ![watchdog.name] =
                            [inst |-> Len(insts) + 1, mtime |-> files[watchdog.name]]])
    <3>1. PICK ld : ld = [loaded EXCEPT ![watchdog.name] =
                            [inst |-> Len(insts) + 1, mtime |-> files[watchdog.name]]]
      OBVIOUS
    <3>2. TableTypes(insts', ld)
      BY <1>1, <2>2, <2>4, <3>1, StartTypes DEF Tables
    <3>3. ld \in [Names -> Entries(insts')] /\ \A k \in Names \ {watchdog.name} : ld[k] = loaded[k]
      BY <1>1, <3>1, <3>2 DEF TableTypes
    <3>4. TakeNext(watchdog.crashed, ld)
      BY <2>4, <3>1
    <3> QED
      BY <1>12, <2>1, <3>3, <3>4
  <2> QED
    BY <1>14, <2>3, <2>4 DEF Reloaded
<1>15. ASSUME NEW n \in Names, StopNext(n) PROVE TasksAgree'
  BY <1>1, <1>4, <1>15 DEF StopNext
<1>16. ASSUME \/ (\E by \in InstIds \union {0} : StopAll(by)) \/ StopAllDone
              \/ ThreadNext \/ (\E n \in Names : Edit(n)) \/ UNCHANGED vars
       PROVE  UNCHANGED <<watcher, pending, loaded>>
  BY <1>16 DEF StopAll, StopAllDone, ThreadNext, ThreadExits, Crash, HeartbeatTimeout, Edit, vars
<1> QED
  BY <1>5, <1>6, <1>7, <1>8, <1>9, <1>10, <1>11, <1>13, <1>14, <1>15, <1>16
     DEF Next, WatcherNext, WatchdogNext, StopperNext
------------------------------------------------------------------------------
LEMMA RegistryStarts == Init => RegistryInv
<1> SUFFICES ASSUME Init PROVE RegistryInv
  OBVIOUS
<1>1. files \in [Names -> Versions]
  BY BoundsAreNumbers DEF Init, Versions
<1>2. TableTypes(insts, loaded)
  <2>1. PICK fs \in Loadable : InitialScan(fs, insts, loaded)
    BY DEF Init
  <2>2. fs \in [Names -> Versions]
    BY DEF Loadable
  <2> QED
    BY <2>1, <2>2, ScanTypes
<1>3. Tables
  BY <1>1, <1>2 DEF Init, Tables
<1>4. /\ pending = {} /\ watcher = [pc |-> "sleep"] /\ watchdog = [pc |-> "sleep"]
      /\ stopper = [pc |-> "sleep"]
  BY DEF Init, Sleeping
<1>5. StopperTypes /\ ScanInv /\ DogInv
  BY <1>4 DEF StopperTypes, ScanInv, WatcherTypes, DogInv, WatchdogTypes, Scanning
<1>6. TasksAgree
  BY <1>4 DEF TasksAgree, Claimed, Scanning
<1> QED
  BY <1>3, <1>5, <1>6 DEF RegistryInv

LEMMA RegistrySteps == RegistryInv /\ [Next]_vars => RegistryInv'
<1> SUFFICES ASSUME RegistryInv, [Next]_vars PROVE RegistryInv'
  OBVIOUS
<1>1. Tables /\ StopperTypes /\ ScanInv /\ DogInv
  BY DEF RegistryInv
<1>2. Tables'
  BY TablesStep
<1>3. StopperTypes' /\ ScanInv' /\ DogInv'
  BY <1>1, StopperStep, ScanStep, DogStep
<1>4. TasksAgree'
  BY <1>2, <1>3, AgreeStep
<1> QED
  BY <1>2, <1>3, <1>4 DEF RegistryInv

THEOREM RegistryIsInvariant == Spec => []RegistryInv
  BY RegistryStarts, RegistrySteps, PTL DEF Spec

\* A crashed strategy is hidden from the watcher only while the watchdog's
\* handling of it goes on (registry.py, _pending_restart in _handle_crash and
\* _rescan): a failed restart, a file that is gone, an unload or a stop_all
\* leaves no name behind.  The types are proved with it.
THEOREM PendingHolds == Spec => []PendingIsHandled
<1>1. ASSUME RegistryInv PROVE PendingIsHandled
  <2>1. Tables /\ TableTypes(insts, loaded) /\ StopperTypes /\ ScanInv /\ DogInv
    BY <1>1 DEF RegistryInv, Tables
  <2>2. \A i \in InstIds :
          insts[i] \in [name : Names, version : Versions, alive : BOOLEAN, stop : BOOLEAN, heartbeat : BOOLEAN]
    <3>1. insts \in Seq(Threads)
      BY <2>1 DEF TableTypes
    <3>2. \A i \in DOMAIN insts : insts[i] \in Threads
      BY <3>1
    <3> QED
      BY <3>2 DEF InstIds, Threads
  <2>3. /\ loaded \in [Names -> [inst : {0} \union InstIds, mtime : Versions]]
        /\ \A n \in LoadedNames(loaded) : insts[loaded[n].inst].name = n
    BY <2>1 DEF TableTypes, Entries, InstIds, LoadedNames
  <2>4. /\ watcher.pc \in {"sleep", "work", "dead"} \union Names
        /\ watcher.pc \notin {"sleep", "dead"} => watcher.toLoad \intersect watcher.toCheck = {}
    BY <2>1 DEF ScanInv, WatcherTypes, Scanning
  <2>5. /\ watchdog.pc \in {"sleep", "backoff", "load"}
        /\ watchdog.pc # "sleep" => watchdog.name \notin watchdog.crashed
        /\ pending \subseteq Names
        /\ pending = IF watchdog.pc = "sleep" THEN {} ELSE {watchdog.name}
    BY <2>1 DEF DogInv, WatchdogTypes
  <2>6. stopper.pc \in {"sleep", "stop"}
    BY <2>1 DEF StopperTypes
  <2> QED
    BY <2>1, <2>2, <2>3, <2>4, <2>5, <2>6 DEF PendingIsHandled, TypeOK, Tables
<1> QED
  BY <1>1, RegistryIsInvariant, PTL

\* Whatever the watcher, the watchdog and stop_all do between each other's
\* steps, an entry of _loaded whose thread trades is replaced or removed only
\* by somebody who tells the thread to stop (registry.py, _stop_thread), with
\* the exception of a name of a crash list that has grown old.
THEOREM TradersHold == Spec => TradersAreKept
<1>1. ASSUME RegistryInv, [Next]_vars
      PROVE  [\A n \in LoadedNames(loaded) :
                LET i == loaded[n].inst
                IN up /\ up' /\ insts[i].alive /\ ~insts[i].stop /\ loaded'[n].inst # i
                     => insts'[i].stop \/ (watchdog.pc # "sleep" /\ n \in watchdog.crashed)]_vars
  <2> USE DEF tables, counts
  <2> SUFFICES ASSUME NEW n \in Names, loaded[n].inst # 0, up, up',
                      insts[loaded[n].inst].alive, ~insts[loaded[n].inst].stop,
                      loaded'[n].inst # loaded[n].inst
               PROVE  insts'[loaded[n].inst].stop \/ (watchdog.pc # "sleep" /\ n \in watchdog.crashed)
    BY DEF LoadedNames
  <2>1. /\ loaded \in [Names -> Entries(insts)] /\ insts \in Seq(Threads)
        /\ ScanInv /\ DogInv /\ TasksAgree
    BY <1>1 DEF RegistryInv, Tables, TableTypes
  <2>2. loaded[n].inst \in DOMAIN insts /\ loaded' # loaded
    BY <2>1 DEF Entries
  <2>3. n \notin pending \union Claimed
    BY <2>1 DEF TasksAgree
  <2>4. CASE Rescan
    <3>1. n \in LoadedNames(loaded) \ Present
      BY <2>1, <2>4 DEF Rescan
    <3>2. loaded[n].inst \in InstsOf(LoadedNames(loaded) \ Present)
      BY <3>1 DEF InstsOf
    <3> QED
      BY <2>1, <2>2, <2>4, <3>2, StoppedTypes DEF Rescan
  <2>5. ASSUME NEW k \in Names, RescanCheck(k) PROVE insts'[loaded[n].inst].stop
    <3>1. insts' = Stopped(insts, {loaded[k].inst}) /\ loaded' = [loaded EXCEPT ![k] = NotLoaded]
      BY <2>2, <2>5 DEF RescanCheck
    <3>2. k = n
      BY <2>1, <3>1
    <3> QED
      BY <2>1, <2>2, <3>1, <3>2, StoppedTypes
  <2>6. ASSUME NEW k \in Names, RescanLoaded(k) PROVE FALSE
    <3>1. watcher.pc = k
      BY <2>6 DEF RescanLoaded
    <3>2. k \in Claimed
      BY <3>1, NamesAreNoPlaces DEF Claimed, Scanning
    <3>3. k = n
      BY <2>1, <2>2, <2>6 DEF RescanLoaded, Start, LoadFails
    <3> QED
      BY <2>3, <3>2, <3>3
  <2>7. CASE Watch
    <3>1. PICK k \in Crashed : loaded' = [loaded EXCEPT ![k] = NotLoaded]
      BY <2>7 DEF Watch
    <3>2. k = n /\ ~insts[loaded[n].inst].alive
      BY <2>1, <3>1 DEF Crashed, LoadedNames
    <3> QED
      BY <3>2
  <2>8. ASSUME watchdog.pc # "sleep", NEW ld, ld \in [Names -> Entries(insts')],
               TakeNext(watchdog.crashed, ld), ld[n] = loaded[n]
        PROVE  n \in watchdog.crashed
    <3>1. PICK k \in watchdog.crashed : loaded' = [ld EXCEPT ![k] = NotLoaded]
      <4>1. loaded' # ld
        BY <2>8
      <4> QED
        BY <2>1, <2>8, <4>1, Taken
    <3> QED
      BY <2>8, <3>1
  <2>9. CASE BackoffOver
    BY <2>1, <2>2, <2>8, <2>9 DEF BackoffOver
  <2>10. CASE Reloaded
    <3>1. watchdog.pc # "sleep" /\ n # watchdog.name
      BY <2>1, <2>3, <2>10 DEF Reloaded, DogInv
    <3>2. watchdog.name \in Names /\ watchdog.version \in Versions /\ files[watchdog.name] \in Versions
      BY <1>1, <2>1, <3>1 DEF DogInv, WatchdogTypes, RegistryInv, Tables
    <3>3. CASE insts' = insts /\ TakeNext(watchdog.crashed, loaded)
      BY <2>1, <2>8, <3>1, <3>3
    <3>4. CASE /\ insts' = Append(insts, Thread(watchdog.name, watchdog.version))
               /\ TakeNext(watchdog.crashed,
                           [loaded EXCEPT ![watchdog.name] =
                              [inst |-> Len(insts) + 1, mtime |-> files[watchdog.name]]])
      <4>1. PICK ld : ld = [loaded EXCEPT ![watchdog.name] =
                              [inst |-> Len(insts) + 1, mtime |-> files[watchdog.name]]]
        OBVIOUS
      <4>2. TableTypes(insts', ld)
        BY <1>1, <3>2, <3>4, <4>1, StartTypes DEF RegistryInv, Tables
      <4>3. ld \in [Names -> Entries(insts')] /\ ld[n] = loaded[n]
        BY <2>1, <3>1, <4>1, <4>2 DEF TableTypes
      <4>4. TakeNext(watchdog.crashed, ld)
        BY <3>4, <4>1
      <4> QED
        BY <2>8, <3>1, <4>3, <4>4
    <3> QED
      BY <2>10, <3>3, <3>4 DEF Reloaded
  <2>11. ASSUME NEW k \in Names, StopNext(k) PROVE insts'[loaded[n].inst].stop
    <3>1. /\ loaded' = [loaded EXCEPT ![k] = NotLoaded]
          /\ \/ insts' = Stopped(insts, {loaded[k].inst})
             \/ insts' = [insts EXCEPT ![loaded[k].inst].stop = TRUE]
      BY <2>2, <2>11 DEF StopNext
    <3>2. k = n
      BY <2>1, <3>1
    <3>3. insts[loaded[n].inst] \in Threads
      BY <2>1, <2>2
    <3>4. CASE insts' = Stopped(insts, {loaded[k].inst})
      BY <2>1, <2>2, <3>2, <3>4, StoppedTypes
    <3>5. CASE insts' = [insts EXCEPT ![loaded[k].inst].stop = TRUE]
      BY <2>1, <2>2, <3>2, <3>3, <3>5 DEF Threads
    <3> QED
      BY <3>1, <3>4, <3>5
  <2>12. ASSUME \/ Restart
                \/ \E k \in Names : Edit(k) \/ RescanLoad(k)
                \/ RescanDone \/ (\E by \in InstIds \union {0} : StopAll(by)) \/ StopAllDone
                \/ ThreadNext \/ UNCHANGED vars
         PROVE  FALSE
    BY <2>2, <2>12 DEF Restart, Edit, RescanLoad, RescanDone, StopAll, StopAllDone, ThreadNext,
                       ThreadExits, Crash, HeartbeatTimeout, vars
  <2> QED
    BY <1>1, <2>4, <2>5, <2>6, <2>7, <2>8, <2>9, <2>10, <2>11, <2>12
       DEF Next, WatcherNext, WatchdogNext, StopperNext
<1> QED
  BY <1>1, RegistryIsInvariant, PTL DEF Spec, TradersAreKept
==============================================================================
