-------------------------- MODULE ModelServiceProofs --------------------------
(***************************************************************************)
(* Proofs about ModelService, for any set of clusters and any number of    *)
(* trainings, rows, loops and faults: what models.json, the list in memory *)
(* and the directories say of each other, and what reaches the signals     *)
(* stream.                                                                 *)
(***************************************************************************)
EXTENDS ModelService, TLAPS

------------------------------------------------------------------------------
(* What the variables are, more closely than TypeOK says.                   *)

Entry == [slot : Clusters, ver : Vers]
Signals == [ver : Nat, slot : Clusters \union {0}, pair : Pairs]
Task == [at : {"poll", "predict", "publish", "ended"}, row : Nat, last : Nat, signal : Signals]
Line == [task : Nat, row : Nat, answered : BOOLEAN]

CallPlaces == {"idle", "fit", "write", "drop", "append", "save", "rename", "tree"}

Calls == [at : CallPlaces, todo : SUBSET Clusters, done : SUBSET Clusters,
          slot : Clusters \union {0}, wrote : 0..3, list : SUBSET Entry, deletes : BOOLEAN]

RegistryTypes ==
  /\ dir \in [Clusters -> Pairs]
  /\ disk \in SUBSET Entry /\ entries \in SUBSET Entry
  /\ call \in Calls
  /\ trained \in 0..MaxTrainings
  /\ torn \in SUBSET Clusters /\ mixed \in SUBSET Clusters /\ rewritten \in SUBSET Clusters
  /\ broken \in BOOLEAN /\ faults \in Nat

LoopTypes ==
  /\ cache \in [Clusters -> Pairs]
  /\ latest \in 0..MaxRows
  /\ tasks \in Seq(Task) /\ running \in 0..Len(tasks)
  /\ stream \in Seq(Line)

------------------------------------------------------------------------------
(* The registry.  A call is a training or a deletion; what it has got to    *)
(* says how models.json, the list in memory and the list being saved        *)
(* differ.                                                                  *)

Trained == [model |-> trained, scaler |-> trained]

CallInv ==
  /\ call.at \in {"fit", "write", "drop", "append"} => ~call.deletes
  /\ call.at = "tree" => call.deletes
  /\ call.deletes => call.done = {}
  /\ call.at = "idle" => call.done = {}
  /\ call.at \in {"fit", "write"} => call.wrote \in (IF call.at = "fit" THEN {0} ELSE 1..3)
  /\ call.at = "write" => call.slot \in Clusters
  /\ call.at # "idle" /\ ~call.deletes => trained >= 1
  /\ call.at \in {"append", "save", "rename"} /\ ~call.deletes => call.slot \in call.done
  /\ call.at # "idle" /\ call.deletes => call.slot \in Clusters
  /\ \A s \in call.todo : s \notin call.done
  /\ call.at = "write" => call.slot \in call.todo
  /\ \A s \in call.done : dir[s] = Trained

\* The files a slot is left with: a pair fitted together, or nothing that loads.
FilesInv ==
  \A s \in Clusters :
    \/ s \in mixed
    \/ call.at = "write" /\ call.slot = s
    \/ Loads(dir[s]) => dir[s].model = dir[s].scaler

Others(s) == {e \in disk : e.slot # s}

ListsInv ==
  /\ \A e \in disk, f \in disk : e.slot = f.slot => e = f
  /\ call.at \in {"idle", "fit", "write", "drop", "tree"} => entries = disk
  /\ call.at = "append" => entries = Others(call.slot)
  /\ call.at \in {"save", "rename"} /\ call.deletes => entries = Others(call.slot)
  /\ call.at \in {"save", "rename"} /\ ~call.deletes =>
       entries = Others(call.slot) \union {[slot |-> call.slot, ver |-> trained]}
  /\ call.at = "rename" => call.list = entries
  /\ call.at = "tree" => \A e \in disk : e.slot # call.slot
  /\ \A e \in disk :
       /\ dir[e.slot] # NoDir
       /\ e.slot \notin torn \union Torn => dir[e.slot] = [model |-> e.ver, scaler |-> e.ver]

RegistryInv ==
  /\ RegistryTypes /\ CallInv /\ FilesInv
  /\ ~broken => ListsInv

------------------------------------------------------------------------------
(* The loops.                                                               *)

\* What the engine has cached was on disk when it was read: a whole pair.
CacheInv ==
  /\ \A s \in Clusters : cache[s] # NoDir => Loads(cache[s])
  /\ \A s \in Clusters : Loads(cache[s]) => cache[s].model = cache[s].scaler \/ s \in mixed
  /\ \A s \in Clusters \ rewritten : cache[s] = NoDir \/ cache[s] = dir[s]

\* A task works on a row that is newer than the one it noted, and everything
\* it has sent before is older, or was sent without an answer.
SoundTask(t, x) ==
  /\ x.at = "ended" => x.row = 0 /\ x.last = 0
  /\ x.at # "ended" =>
       /\ t = running
       /\ x.last <= latest /\ (x.row = 0 \/ x.last < x.row) /\ x.row <= latest
       /\ x.at \in {"predict", "publish"} => x.row > 0
       /\ x.at = "publish" /\ x.signal # NoSignal =>
            x.signal.pair.model = x.signal.pair.scaler \/ x.signal.slot \in mixed

SoundLine(line, x) ==
  x.at # "ended" =>
    /\ line.answered => line.row <= x.last
    /\ x.row # 0 => line.row <= x.row

StreamInv ==
  \A i \in 1..Len(stream) :
    /\ stream[i].task \in 1..Len(tasks) /\ stream[i].row <= latest
    /\ SoundLine(stream[i], tasks[stream[i].task])

LoopInv ==
  /\ LoopTypes
  /\ CacheInv
  /\ \A t \in 1..Len(tasks) : SoundTask(t, tasks[t])
  /\ StreamInv
  /\ RowsAreInOrder

ServiceInv == RegistryInv /\ LoopInv
------------------------------------------------------------------------------
(* The steps of the registry.                                               *)

LEMMA IdleFields ==
  /\ Idle \in Calls /\ Idle.at = "idle" /\ Idle.todo = {} /\ Idle.done = {}
  /\ Idle.slot = 0 /\ Idle.wrote = 0 /\ Idle.list = {} /\ Idle.deletes = FALSE
  BY DEF Idle, Calls, CallPlaces

LEMMA CallFields ==
  ASSUME NEW c \in Calls, NEW place \in CallPlaces,
         NEW todo \in SUBSET Clusters, NEW done \in SUBSET Clusters
  PROVE  [c EXCEPT !.at = place, !.wrote = 0, !.todo = todo, !.done = done] \in Calls
  <1> DEFINE d == [c EXCEPT !.at = place, !.wrote = 0]
  <1>0. \A k \in 0..3 : [c EXCEPT !.at = place, !.wrote = k] \in Calls  BY DEF Calls
  <1>1. d \in Calls  BY <1>0
  <1>2. \A e \in Calls : [e EXCEPT !.todo = todo, !.done = done] \in Calls  BY DEF Calls
  <1>3. [d EXCEPT !.todo = todo, !.done = done] \in Calls  BY <1>1, <1>2
  <1> QED BY <1>3

LEMMA NoDirIsAPair == NoDir \in Pairs /\ ~Loads(NoDir)
  BY ModelServiceAssumption DEF NoDir, Pairs, Loads

LEMMA RegistryStarts == Init => RegistryInv
  <1> SUFFICES ASSUME Init PROVE RegistryInv  OBVIOUS
  <1> USE DEF Init
  <1>1. RegistryTypes
    <2>1. dir \in [Clusters -> Pairs]  BY NoDirIsAPair
    <2>2. call \in Calls  BY IdleFields
    <2>3. trained \in 0..MaxTrainings  BY ModelServiceAssumption
    <2> QED BY <2>1, <2>2, <2>3 DEF RegistryTypes
  <1>2. CallInv  BY IdleFields DEF CallInv
  <1>3. FilesInv  BY NoDirIsAPair DEF FilesInv
  <1>4. ListsInv  BY IdleFields DEF ListsInv
  <1> QED BY <1>1, <1>2, <1>3, <1>4 DEF RegistryInv

\* What no step of the loops touches.
LEMMA RegistryUntouched ==
  ASSUME RegistryInv, faults' \in Nat,
         UNCHANGED <<dir, disk, entries, call, trained, torn, mixed, rewritten, broken>>
  PROVE  RegistryInv'
  BY DEF RegistryInv, RegistryTypes, CallInv, FilesInv, ListsInv, Trained, Others, Torn

LEMMA TrainStep == ASSUME RegistryInv, Train PROVE RegistryInv'
  <1> USE DEF RegistryInv
  <1>1. PICK slots \in SUBSET Clusters : call' = [Idle EXCEPT !.at = "fit", !.todo = slots]
    BY DEF Train
  <1>2. /\ call' \in Calls /\ call'.at = "fit" /\ call'.todo = slots /\ call'.done = {}
        /\ call'.wrote = 0 /\ call'.deletes = FALSE
    BY <1>1, IdleFields DEF Calls, CallPlaces
  <1>3. /\ UNCHANGED <<dir, disk, entries, torn, mixed, rewritten, broken, faults>>
        /\ call.at = "idle" /\ trained' = trained + 1 /\ trained < MaxTrainings
    BY IdleFields DEF Train, registry, history
  <1>4. RegistryTypes'
    BY <1>2, <1>3, ModelServiceAssumption DEF RegistryTypes
  <1>5. CallInv'
    <2>1. trained' >= 1  BY <1>3, ModelServiceAssumption DEF RegistryTypes
    <2> QED BY <1>2, <2>1 DEF CallInv
  <1>6. FilesInv'  BY <1>2, <1>3 DEF FilesInv
  <1>7. ~broken' => ListsInv'
    <2>1. Torn' = {} /\ Torn = {}  BY <1>2, <1>3 DEF Torn, CallInv
    <2> QED BY <1>2, <1>3, <2>1 DEF ListsInv
  <1> QED BY <1>4, <1>5, <1>6, <1>7

LEMMA WrittenPairs ==
  ASSUME trained \in 0..MaxTrainings, NEW k \in 1..4, NEW scaler \in -1..MaxTrainings
  PROVE  /\ Written(k, scaler) \in Pairs /\ Written(k, scaler) # NoDir
         /\ k = 4 => Written(k, scaler) = Trained
  BY ModelServiceAssumption DEF Written, Pairs, NoDir, Trained

LEMMA WriteFilesStep ==
  ASSUME RegistryInv, NEW s \in Clusters, WriteFiles(s)
  PROVE  RegistryInv'
  <1> USE DEF RegistryInv
  <1> DEFINE k == call.wrote + 1
             old == IF dir[s] = NoDir THEN 0 ELSE dir[s].scaler
  <1>1. /\ call \in Calls /\ call.at \in {"fit", "write"} /\ s \in call.todo
        /\ call.at = "write" => s = call.slot
        /\ call.deletes = FALSE
    <2>1. call \in Calls  BY DEF RegistryTypes
    <2>2. call.deletes \in BOOLEAN  BY <2>1 DEF Calls
    <2> QED BY <2>1, <2>2 DEF WriteFiles, CallInv
  <1>2. k \in 1..4 /\ call.wrote \in 0..3
    <2>1. call.wrote \in 0..3  BY <1>1 DEF Calls
    <2> QED BY <2>1
  <1>3. old \in -1..MaxTrainings /\ trained \in 0..MaxTrainings
    <2>1. dir[s] \in Pairs  BY DEF RegistryTypes
    <2>2. dir[s].scaler \in -1..MaxTrainings  BY <2>1 DEF Pairs
    <2> QED BY <2>2, ModelServiceAssumption DEF RegistryTypes
  <1>4. /\ dir' = [dir EXCEPT ![s] = Written(k, old)]
        /\ rewritten' = rewritten \union {s}
        /\ UNCHANGED <<disk, entries, trained, torn, mixed, broken, faults>>
        /\ call' = IF k < 4 THEN [call EXCEPT !.at = "write", !.slot = s, !.wrote = k]
                   ELSE [call EXCEPT !.at = IF call.todo = {s} THEN "drop" ELSE "fit", !.wrote = 0,
                                     !.todo = @ \ {s}, !.done = @ \union {s}]
    BY DEF WriteFiles, registry
  <1> DEFINE w == Written(k, old)
  <1>5. w \in Pairs /\ w # NoDir /\ (k = 4 => w = Trained)
    BY <1>2, <1>3, WrittenPairs
  <1> HIDE DEF w, k, old
  <1>6. /\ call' \in Calls /\ call'.deletes = FALSE
        /\ \/ /\ k # 4 /\ call'.at = "write" /\ call'.slot = s /\ call'.wrote = k
              /\ call'.todo = call.todo /\ call'.done = call.done
           \/ /\ k = 4 /\ call'.at \in {"drop", "fit"} /\ call'.wrote = 0
              /\ call'.todo = call.todo \ {s} /\ call'.done = call.done \union {s}
    <2>1. CASE k < 4
      <3>1. call' = [call EXCEPT !.at = "write", !.slot = s, !.wrote = k]  BY <1>4, <2>1
      <3>2. k \in 0..3 /\ k # 4 /\ s \in Clusters \union {0}  BY <1>2, <2>1
      <3>3. /\ call'.deletes = call.deletes /\ call'.at = "write" /\ call'.slot = s
            /\ call'.wrote = k /\ call'.todo = call.todo /\ call'.done = call.done
        BY <1>1, <3>1 DEF Calls
      <3>4. call' \in Calls  BY <1>1, <3>1, <3>2 DEF Calls, CallPlaces
      <3> QED BY <1>1, <3>2, <3>3, <3>4
    <2>2. CASE ~(k < 4)
      <3>1. PICK at \in {"drop", "fit"} :
              call' = [call EXCEPT !.at = at, !.wrote = 0,
                                   !.todo = @ \ {s}, !.done = @ \union {s}]
        BY <1>4, <2>2
      <3>2. k = 4  BY <1>2, <2>2
      <3>3. /\ call'.deletes = call.deletes /\ call'.at = at /\ call'.wrote = 0
            /\ call'.todo = call.todo \ {s} /\ call'.done = call.done \union {s}
        BY <1>1, <3>1 DEF Calls
      <3>4. call.todo \ {s} \in SUBSET Clusters /\ call.done \union {s} \in SUBSET Clusters
        BY <1>1 DEF Calls
      <3>5. PICK todo \in SUBSET Clusters, done \in SUBSET Clusters :
              todo = call.todo \ {s} /\ done = call.done \union {s}
        BY <3>4
      <3>6. call' = [call EXCEPT !.at = at, !.wrote = 0, !.todo = todo, !.done = done]
        BY <3>1, <3>5
      <3>7. at \in CallPlaces  BY DEF CallPlaces
      <3>8. call' \in Calls  BY <1>1, <3>6, <3>7, CallFields
      <3> QED BY <1>1, <3>2, <3>3, <3>8
    <2> QED BY <2>1, <2>2
  <1>7. /\ dir' \in [Clusters -> Pairs] /\ dir'[s] = w
        /\ \A x \in Clusters : x # s => dir'[x] = dir[x]
    BY <1>4, <1>5 DEF w, RegistryTypes
  <1>8. call.done \subseteq Clusters /\ s \notin call.done
    BY <1>1 DEF Calls, CallInv
  <1>9. RegistryTypes'
    BY <1>4, <1>6, <1>7 DEF RegistryTypes
  <1>10. CallInv'
    <2>1. \A x \in call'.done : dir'[x] = Trained'
      <3>1. Trained' = Trained  BY <1>4 DEF Trained
      <3> QED BY <1>5, <1>6, <1>7, <1>8, <3>1 DEF CallInv
    <2>2. trained' >= 1  BY <1>1, <1>4 DEF CallInv
    <2>3. k # 4 => k \in 1..3  BY <1>2
    <2>4. \A x \in call'.todo : x \notin call'.done
      BY <1>6, <1>8 DEF CallInv
    <2>5. call'.at = "write" => call'.slot \in call'.todo /\ call'.slot \in Clusters
      BY <1>1, <1>6
    <2> QED BY <1>6, <2>1, <2>2, <2>3, <2>4, <2>5 DEF CallInv
  <1>11. FilesInv'
    <2> SUFFICES ASSUME NEW x \in Clusters, x \notin mixed, ~(call'.at = "write" /\ call'.slot = x)
                 PROVE  Loads(dir'[x]) => dir'[x].model = dir'[x].scaler
      BY <1>4 DEF FilesInv
    <2>1. CASE x = s
      BY <1>5, <1>6, <1>7, <2>1 DEF Trained
    <2>2. CASE x # s
      BY <1>1, <1>7, <2>2 DEF FilesInv
    <2> QED BY <2>1, <2>2
  <1>12. ~broken' => ListsInv'
    <2> SUFFICES ASSUME ~broken PROVE ListsInv'  BY <1>4
    <2>1. ListsInv  OBVIOUS
    <2>2. Torn \subseteq Torn' /\ s \in Torn'
      <3>1. call.at = "write" => call.slot = s  BY <1>1
      <3> QED BY <1>6, <3>1 DEF Torn
    <2>3. ASSUME NEW e \in disk
          PROVE  /\ dir'[e.slot] # NoDir
                 /\ e.slot \notin torn \union Torn' => dir'[e.slot] = [model |-> e.ver, scaler |-> e.ver]
      <3>1. e.slot \in Clusters  BY DEF RegistryTypes, Entry
      <3>2. CASE e.slot = s  BY <1>5, <1>7, <2>2, <3>2
      <3>3. CASE e.slot # s  BY <1>7, <2>1, <2>2, <3>1, <3>3 DEF ListsInv
      <3> QED BY <3>2, <3>3
    <2>4. entries' = disk' /\ disk' = disk /\ torn' = torn
      BY <1>1, <1>4, <2>1 DEF ListsInv
    <2>5. call'.at \in {"fit", "write", "drop"}  BY <1>6
    <2> QED BY <2>1, <2>3, <2>4, <2>5 DEF ListsInv
  <1> QED BY <1>9, <1>10, <1>11, <1>12

\* What a call that ends early leaves: its slots count as torn, and the one
\* being written as mixed.
LEMMA LeaveKeeps ==
  ASSUME RegistryInv, Leave, UNCHANGED <<dir, trained>>
  PROVE  /\ call' = Idle /\ CallInv' /\ FilesInv'
         /\ torn' \in SUBSET Clusters /\ mixed' \in SUBSET Clusters
         /\ torn' = torn \union Torn /\ Torn' = {} /\ mixed \subseteq mixed'
  <1> USE DEF RegistryInv
  <1>1. /\ call' = Idle /\ torn' = torn \union Torn
        /\ mixed' = mixed \union IF call.at = "write" THEN {call.slot} ELSE {}
    BY DEF Leave
  <1>2. Torn \subseteq Clusters
    BY DEF Torn, RegistryTypes, Calls, CallInv
  <1>3. Torn' = {}  BY <1>1, IdleFields DEF Torn
  <1>4. CallInv'  BY <1>1, IdleFields DEF CallInv
  <1>5. FilesInv'
    BY <1>1 DEF FilesInv
  <1>6. torn' \in SUBSET Clusters /\ mixed' \in SUBSET Clusters
    BY <1>1, <1>2 DEF RegistryTypes, CallInv
  <1>7. mixed \subseteq mixed'  BY <1>1
  <1> QED BY <1>1, <1>3, <1>4, <1>5, <1>6, <1>7

LEMMA TrainFailsStep == ASSUME RegistryInv, TrainFails PROVE RegistryInv'
  <1> USE DEF RegistryInv
  <1>1. /\ Leave /\ UNCHANGED <<dir, disk, entries, trained, rewritten, broken>>
        /\ call.at \in {"fit", "write"} /\ faults' = faults + 1
    BY DEF TrainFails, registry, Fault
  <1>2. /\ call' = Idle /\ CallInv' /\ FilesInv'
        /\ torn' \in SUBSET Clusters /\ mixed' \in SUBSET Clusters
        /\ torn' = torn \union Torn /\ Torn' = {}
    BY <1>1, LeaveKeeps
  <1>3. RegistryTypes'  BY <1>1, <1>2, IdleFields DEF RegistryTypes
  <1>4. ~broken' => ListsInv'
    <2> SUFFICES ASSUME ~broken PROVE ListsInv'  BY <1>1
    <2>1. ListsInv  OBVIOUS
    <2> QED BY <1>1, <1>2, <2>1, IdleFields DEF ListsInv
  <1> QED BY <1>2, <1>3, <1>4

LEMMA UpsertDropStep ==
  ASSUME RegistryInv, NEW s \in Clusters, UpsertDrop(s) PROVE RegistryInv'
  <1> USE DEF RegistryInv
  <1>1. /\ call.at = "drop" /\ s \in call.done
        /\ entries' = {e \in entries : e.slot # s}
        /\ call' = [call EXCEPT !.at = "append", !.slot = s]
        /\ UNCHANGED <<dir, disk, trained, torn, mixed, rewritten, broken, faults>>
    BY DEF UpsertDrop, history
  <1>2. call \in Calls  BY DEF RegistryTypes
  <1>3. /\ call'.at = "append" /\ call'.slot = s /\ call'.done = call.done
        /\ call'.todo = call.todo /\ call'.deletes = call.deletes
    BY <1>1, <1>2 DEF Calls
  <1>4. call' \in Calls  BY <1>1, <1>2 DEF Calls, CallPlaces
  <1>5. RegistryTypes'  BY <1>1, <1>4 DEF RegistryTypes
  <1>6. CallInv'  BY <1>1, <1>3 DEF CallInv, Trained
  <1>7. FilesInv'  BY <1>1, <1>3 DEF FilesInv
  <1>8. ~broken' => ListsInv'
    <2> SUFFICES ASSUME ~broken PROVE ListsInv'  BY <1>1
    <2>1. ListsInv  OBVIOUS
    <2>2. Torn' = Torn  BY <1>1, <1>3 DEF Torn
    <2>3. entries' = Others(s)'  BY <1>1, <2>1 DEF ListsInv, Others
    <2> QED BY <1>1, <1>3, <2>1, <2>2, <2>3 DEF ListsInv
  <1> QED BY <1>5, <1>6, <1>7, <1>8

LEMMA UpsertAppendStep == ASSUME RegistryInv, UpsertAppend PROVE RegistryInv'
  <1> USE DEF RegistryInv
  <1> DEFINE new == [slot |-> call.slot, ver |-> trained]
  <1>1. /\ call.at = "append"
        /\ entries' = entries \union {new}
        /\ call' = [call EXCEPT !.at = "save"]
        /\ UNCHANGED <<dir, disk, trained, torn, mixed, rewritten, broken, faults>>
    BY DEF UpsertAppend, history
  <1>2. call \in Calls /\ call.deletes = FALSE
    <2>1. call \in Calls  BY DEF RegistryTypes
    <2>2. call.deletes \in BOOLEAN  BY <2>1 DEF Calls
    <2> QED BY <1>1, <2>1, <2>2 DEF CallInv
  <1>3. /\ call'.at = "save" /\ call'.slot = call.slot /\ call'.done = call.done
        /\ call'.todo = call.todo /\ call'.deletes = FALSE
    BY <1>1, <1>2 DEF Calls
  <1>4. call' \in Calls  BY <1>1, <1>2 DEF Calls, CallPlaces
  <1>5. new \in Entry
    <2>1. trained \in 1..MaxTrainings
      BY <1>1, <1>2, ModelServiceAssumption DEF CallInv, RegistryTypes
    <2>2. call.slot \in Clusters  BY <1>1, <1>2 DEF CallInv, Calls
    <2> QED BY <2>1, <2>2 DEF Entry, Vers
  <1> HIDE DEF new
  <1>6. RegistryTypes'  BY <1>1, <1>4, <1>5 DEF RegistryTypes
  <1>7. CallInv'  BY <1>1, <1>2, <1>3 DEF CallInv, Trained
  <1>8. FilesInv'  BY <1>1, <1>3 DEF FilesInv
  <1>9. ~broken' => ListsInv'
    <2> SUFFICES ASSUME ~broken PROVE ListsInv'  BY <1>1
    <2>1. ListsInv  OBVIOUS
    <2>2. Torn' = Torn  BY <1>1, <1>3 DEF Torn
    <2>3. entries' = Others(call.slot) \union {new}  BY <1>1, <2>1 DEF ListsInv
    <2>4. entries' = Others(call.slot)' \union {[slot |-> call'.slot, ver |-> trained']}
      BY <1>1, <1>3, <2>3 DEF Others, new
    <2> QED BY <1>1, <1>3, <2>1, <2>2, <2>4 DEF ListsInv, Others
  <1> QED BY <1>6, <1>7, <1>8, <1>9

LEMMA SaveStep == ASSUME RegistryInv, Save PROVE RegistryInv'
  <1> USE DEF RegistryInv
  <1>1. /\ call.at = "save" /\ call' = [call EXCEPT !.at = "rename", !.list = entries]
        /\ UNCHANGED <<dir, disk, entries, trained, torn, mixed, rewritten, broken, faults>>
    BY DEF Save, registry, history
  <1>2. call \in Calls /\ entries \in SUBSET Entry  BY DEF RegistryTypes
  <1>3. /\ call'.at = "rename" /\ call'.slot = call.slot /\ call'.done = call.done
        /\ call'.todo = call.todo /\ call'.deletes = call.deletes /\ call'.list = entries
    BY <1>1, <1>2 DEF Calls
  <1>4. call' \in Calls  BY <1>1, <1>2 DEF Calls, CallPlaces
  <1>5. RegistryTypes'  BY <1>1, <1>4 DEF RegistryTypes
  <1>6. CallInv'  BY <1>1, <1>3 DEF CallInv, Trained
  <1>7. FilesInv'  BY <1>1, <1>3 DEF FilesInv
  <1>8. ~broken' => ListsInv'
    <2> SUFFICES ASSUME ~broken PROVE ListsInv'  BY <1>1
    <2>1. ListsInv  OBVIOUS
    <2>2. Torn' = Torn  BY <1>1, <1>3 DEF Torn
    <2>3. Others(call.slot)' = Others(call.slot)  BY <1>1, <1>3 DEF Others
    <2> QED BY <1>1, <1>3, <2>1, <2>2, <2>3 DEF ListsInv
  <1> QED BY <1>5, <1>6, <1>7, <1>8

\* models.json becomes the list: what the upsert put there describes the
\* files of its slot, and a deletion's directory is named no more.
LEMMA RenameStep == ASSUME RegistryInv, Rename PROVE RegistryInv'
  <1> USE DEF RegistryInv
  <1> DEFINE rest == call.done \ {call.slot}
  <1>1. /\ call.at = "rename" /\ disk' = call.list
        /\ UNCHANGED <<dir, entries, trained, mixed, rewritten, broken, faults>>
        /\ torn' = IF call.deletes THEN torn ELSE torn \ {call.slot}
    BY DEF Rename
  <1>2. call \in Calls /\ call.deletes \in BOOLEAN /\ call.list \in SUBSET Entry
        /\ call.done \in SUBSET Clusters
    BY DEF RegistryTypes, Calls
  <1>3. \/ /\ call.deletes /\ call' = [call EXCEPT !.at = "tree"]
        \/ /\ ~call.deletes /\ rest # {} /\ call' = [Idle EXCEPT !.at = "drop", !.done = rest]
        \/ /\ ~call.deletes /\ rest = {} /\ call' = Idle
    BY <1>2 DEF Rename
  <1>4. /\ call' \in Calls /\ call'.at \in {"tree", "drop", "idle"}
        /\ call'.at = "tree" <=> call.deletes
        /\ call'.deletes = call.deletes /\ call'.done = rest
        /\ call'.at = "idle" => rest = {}
        /\ call'.deletes => call'.slot = call.slot
        /\ ~call.deletes => call'.todo = {}
        /\ call.deletes => call'.todo = call.todo
    <2>1. CASE call.deletes
      <3>1. call' = [call EXCEPT !.at = "tree"]  BY <1>3, <2>1
      <3>2. call' \in Calls  BY <1>2, <3>1 DEF Calls, CallPlaces
      <3>3. call.done = {}  BY <2>1 DEF CallInv
      <3>4. /\ call'.at = "tree" /\ call'.deletes = call.deletes /\ call'.done = call.done
            /\ call'.slot = call.slot /\ call'.todo = call.todo
        BY <1>2, <3>1 DEF Calls
      <3> QED BY <2>1, <3>2, <3>3, <3>4
    <2>2. CASE ~call.deletes /\ rest # {}
      <3>1. call' = [Idle EXCEPT !.at = "drop", !.done = rest]  BY <1>3, <2>2
      <3>2. /\ call'.at = "drop" /\ call'.deletes = FALSE /\ call'.done = rest
            /\ call'.todo = {}
        BY <3>1 DEF Idle
      <3>3. rest \in SUBSET Clusters  BY <1>2
      <3>4. PICK r \in SUBSET Clusters : r = rest  BY <3>3
      <3>5. [Idle EXCEPT !.at = "drop", !.done = r] \in Calls  BY IdleFields DEF Calls, CallPlaces
      <3> QED BY <1>2, <2>2, <3>1, <3>2, <3>4, <3>5
    <2>3. CASE ~call.deletes /\ rest = {}
      BY <1>2, <1>3, <2>3, IdleFields
    <2> QED BY <2>1, <2>2, <2>3
  <1>5. RegistryTypes'
    <2>1. torn' \in SUBSET Clusters  BY <1>1 DEF RegistryTypes
    <2> QED BY <1>1, <1>2, <1>4, <2>1 DEF RegistryTypes
  <1>6. CallInv'
    <2>1. \A s \in rest : dir'[s] = Trained'  BY <1>1 DEF CallInv, Trained
    <2>2. rest \subseteq call.done  OBVIOUS
    <2>3. call'.deletes => call'.slot \in Clusters  BY <1>1, <1>4 DEF CallInv
    <2>4. ~call.deletes => trained' >= 1  BY <1>1 DEF CallInv
    <2>5. call'.at = "idle" => call'.done = {}  BY <1>4
    <2>6. call'.deletes => call'.done = {}  BY <1>4, <2>2 DEF CallInv
    <2>7. \A s \in call'.todo : s \notin call'.done  BY <1>4, <2>2 DEF CallInv
    <2> HIDE DEF rest
    <2> QED BY <1>2, <1>4, <2>1, <2>3, <2>4, <2>5, <2>6, <2>7 DEF CallInv
  <1>7. FilesInv'  BY <1>1, <1>4 DEF FilesInv
  <1>8. ~broken' => ListsInv'
    <2> SUFFICES ASSUME ~broken PROVE ListsInv'  BY <1>1
    <2>1. ListsInv  OBVIOUS
    <2>2. disk' = entries /\ entries' = disk'  BY <1>1, <2>1 DEF ListsInv
    <2>3. Torn = call.done /\ Torn' = rest  BY <1>1, <1>4 DEF Torn
    <2>4. CASE call.deletes
      <3>1. disk' = Others(call.slot)  BY <1>1, <2>1, <2>2, <2>4 DEF ListsInv
      <3>2. call.done = {} /\ rest = {} /\ torn' = torn  BY <1>1, <2>4 DEF CallInv
      <3>3. \A e \in disk' : e \in disk /\ e.slot # call.slot  BY <3>1 DEF Others
      <3>4. \A e \in disk' :
              /\ dir'[e.slot] # NoDir
              /\ e.slot \notin torn' \union Torn' => dir'[e.slot] = [model |-> e.ver, scaler |-> e.ver]
        BY <1>1, <2>1, <2>3, <3>2, <3>3 DEF ListsInv
      <3>5. \A e \in disk', f \in disk' : e.slot = f.slot => e = f
        BY <2>1, <3>3 DEF ListsInv
      <3>6. call'.at = "tree" /\ call'.slot = call.slot  BY <1>4, <2>4
      <3> QED BY <2>2, <3>3, <3>4, <3>5, <3>6 DEF ListsInv
    <2>5. CASE ~call.deletes
      <3> DEFINE new == [slot |-> call.slot, ver |-> trained]
      <3>1. disk' = Others(call.slot) \union {new}
        BY <1>1, <2>1, <2>2, <2>5 DEF ListsInv
      <3>2. call.slot \in call.done /\ torn' = torn \ {call.slot}  BY <1>1, <2>5 DEF CallInv
      <3>3. dir[call.slot] = [model |-> new.ver, scaler |-> new.ver]
            /\ new.slot = call.slot
        BY <3>2 DEF CallInv, Trained
      <3>4. dir[call.slot] # NoDir
        <4>1. trained >= 1  BY <1>1, <2>5 DEF CallInv
        <4>2. dir[call.slot].model = trained  BY <3>2 DEF CallInv, Trained
        <4> QED BY <4>1, <4>2, ModelServiceAssumption DEF NoDir, RegistryTypes
      <3> HIDE DEF new
      <3>5. \A e \in disk' : e = new \/ (e \in disk /\ e.slot # call.slot)
        BY <3>1 DEF Others
      <3>6. \A e \in disk' :
              /\ dir'[e.slot] # NoDir
              /\ e.slot \notin torn' \union Torn' => dir'[e.slot] = [model |-> e.ver, scaler |-> e.ver]
        <4> TAKE e \in disk'
        <4>1. CASE e = new  BY <1>1, <3>3, <3>4, <4>1
        <4>2. CASE e \in disk /\ e.slot # call.slot
          <5>1. e.slot \in torn \union Torn => e.slot \in torn' \union Torn'
            BY <2>3, <3>2, <4>2
          <5> QED BY <1>1, <2>1, <4>2, <5>1 DEF ListsInv
        <4> QED BY <3>5, <4>1, <4>2
      <3>7. \A e \in disk', f \in disk' : e.slot = f.slot => e = f
        BY <2>1, <3>3, <3>5 DEF ListsInv
      <3>8. call'.at \in {"drop", "idle"}  BY <1>4, <2>5
      <3> QED BY <2>2, <3>6, <3>7, <3>8 DEF ListsInv
    <2> QED BY <2>4, <2>5
  <1> QED BY <1>5, <1>6, <1>7, <1>8

LEMMA SaveFailsStep == ASSUME RegistryInv, SaveFails PROVE RegistryInv'
  <1> USE DEF RegistryInv
  <1>1. /\ Leave /\ UNCHANGED <<dir, disk, entries, trained, rewritten>>
        /\ broken' = TRUE /\ faults' = faults + 1
    BY DEF SaveFails, registry, Fault
  <1>2. /\ call' = Idle /\ CallInv' /\ FilesInv'
        /\ torn' \in SUBSET Clusters /\ mixed' \in SUBSET Clusters
    BY <1>1, LeaveKeeps
  <1>3. RegistryTypes'  BY <1>1, <1>2, IdleFields DEF RegistryTypes
  <1> QED BY <1>1, <1>2, <1>3

LEMMA DeleteStep ==
  ASSUME RegistryInv, NEW x \in entries, Delete(x) PROVE RegistryInv'
  <1> USE DEF RegistryInv
  <1>1. /\ call = Idle /\ entries' = entries \ {x}
        /\ call' = [Idle EXCEPT !.at = "save", !.slot = x.slot, !.deletes = TRUE]
        /\ UNCHANGED <<dir, disk, trained, torn, mixed, rewritten, broken, faults>>
    BY DEF Delete, history
  <1>2. x \in Entry /\ x.slot \in Clusters  BY DEF RegistryTypes, Entry
  <1>3. /\ call'.at = "save" /\ call'.slot = x.slot /\ call'.deletes = TRUE
        /\ call'.todo = {} /\ call'.done = {}
    BY <1>1 DEF Idle
  <1>4. call' \in Calls  BY <1>1, <1>2, IdleFields DEF Calls, CallPlaces
  <1>5. RegistryTypes'  BY <1>1, <1>4 DEF RegistryTypes
  <1>6. CallInv'  BY <1>2, <1>3 DEF CallInv
  <1>7. FilesInv'  BY <1>1, <1>3, IdleFields DEF FilesInv
  <1>8. ~broken' => ListsInv'
    <2> SUFFICES ASSUME ~broken PROVE ListsInv'  BY <1>1
    <2>1. ListsInv /\ entries = disk  BY <1>1, IdleFields DEF ListsInv
    <2>2. Torn' = {} /\ Torn = {}  BY <1>1, <1>3, IdleFields DEF Torn
    <2>3. \A e \in disk : e.slot = x.slot <=> e = x  BY <2>1 DEF ListsInv
    <2>4. entries' = Others(x.slot)'  BY <1>1, <2>1, <2>3 DEF Others
    <2> QED BY <1>1, <1>3, <2>1, <2>2, <2>4 DEF ListsInv
  <1> QED BY <1>5, <1>6, <1>7, <1>8

LEMMA RemoveTreeStep == ASSUME RegistryInv, RemoveTree PROVE RegistryInv'
  <1> USE DEF RegistryInv
  <1>1. /\ call.at = "tree" /\ dir' = [dir EXCEPT ![call.slot] = NoDir] /\ call' = Idle
        /\ rewritten' = rewritten \union {call.slot}
        /\ UNCHANGED <<disk, entries, trained, torn, mixed, broken, faults>>
    BY DEF RemoveTree, registry
  <1>2. call.slot \in Clusters /\ call.done = {}  BY <1>1 DEF CallInv
  <1>3. /\ dir' \in [Clusters -> Pairs] /\ dir'[call.slot] = NoDir
        /\ \A s \in Clusters : s # call.slot => dir'[s] = dir[s]
    BY <1>1, <1>2, NoDirIsAPair DEF RegistryTypes
  <1>4. RegistryTypes'  BY <1>1, <1>2, <1>3, IdleFields DEF RegistryTypes
  <1>5. CallInv'  BY <1>1, IdleFields DEF CallInv
  <1>6. FilesInv'
    <2> SUFFICES ASSUME NEW s \in Clusters, s \notin mixed
                 PROVE  Loads(dir'[s]) => dir'[s].model = dir'[s].scaler
      BY <1>1 DEF FilesInv
    <2> QED BY <1>1, <1>3, NoDirIsAPair DEF FilesInv
  <1>7. ~broken' => ListsInv'
    <2> SUFFICES ASSUME ~broken PROVE ListsInv'  BY <1>1
    <2>1. ListsInv /\ entries = disk  BY <1>1 DEF ListsInv
    <2>2. Torn = {} /\ Torn' = {}  BY <1>1, <1>2, IdleFields DEF Torn
    <2>3. \A e \in disk : e.slot \in Clusters /\ dir'[e.slot] = dir[e.slot]
      BY <1>1, <1>3, <2>1 DEF ListsInv, RegistryTypes, Entry
    <2> QED BY <1>1, <2>1, <2>2, <2>3, IdleFields DEF ListsInv
  <1> QED BY <1>4, <1>5, <1>6, <1>7

LEMMA HangupStep == ASSUME RegistryInv, Hangup PROVE RegistryInv'
  <1> USE DEF RegistryInv
  <1>1. /\ entries' = disk /\ rewritten' = {} /\ faults' = faults + 1
        /\ broken' = (broken \/ call.at \in {"append", "save", "rename"})
        /\ UNCHANGED <<dir, disk, call, trained, torn, mixed>>
    BY DEF Hangup, Reload, Fault
  <1>2. RegistryTypes'  BY <1>1 DEF RegistryTypes
  <1>3. CallInv' /\ FilesInv'  BY <1>1 DEF CallInv, FilesInv, Trained
  <1>4. ~broken' => ListsInv'
    <2> SUFFICES ASSUME ~broken, call.at \notin {"append", "save", "rename"} PROVE ListsInv'
      BY <1>1
    <2>1. ListsInv  OBVIOUS
    <2>2. Torn' = Torn  BY <1>1 DEF Torn
    <2> QED BY <1>1, <2>1, <2>2 DEF ListsInv
  <1> QED BY <1>2, <1>3, <1>4

LEMMA RestartStep == ASSUME RegistryInv, Restart PROVE RegistryInv'
  <1> USE DEF RegistryInv
  <1>1. /\ Leave /\ entries' = disk /\ rewritten' = {} /\ faults' = faults + 1
        /\ UNCHANGED <<dir, disk, trained, broken>>
    BY DEF Restart, Reload, Fault
  <1>2. /\ call' = Idle /\ CallInv' /\ FilesInv'
        /\ torn' \in SUBSET Clusters /\ mixed' \in SUBSET Clusters
        /\ torn' = torn \union Torn /\ Torn' = {}
    BY <1>1, LeaveKeeps
  <1>3. RegistryTypes'  BY <1>1, <1>2, IdleFields DEF RegistryTypes
  <1>4. ~broken' => ListsInv'
    <2> SUFFICES ASSUME ~broken PROVE ListsInv'  BY <1>1
    <2>1. ListsInv  OBVIOUS
    <2> QED BY <1>1, <1>2, <2>1, IdleFields DEF ListsInv
  <1> QED BY <1>2, <1>3, <1>4

LEMMA RegistryStep == RegistryInv /\ [Next]_vars => RegistryInv'
  <1> SUFFICES ASSUME RegistryInv, [Next]_vars PROVE RegistryInv'  OBVIOUS
  <1>1. CASE CallStep
    BY <1>1, WriteFilesStep, UpsertDropStep, UpsertAppendStep, SaveStep, RenameStep,
       RemoveTreeStep DEF CallStep
  <1>2. CASE TrainFails \/ SaveFails \/ Train \/ Hangup \/ Restart
    BY <1>2, TrainFailsStep, SaveFailsStep, TrainStep, HangupStep, RestartStep
  <1>3. CASE \E e \in entries : Delete(e)  BY <1>3, DeleteStep
  <1>4. CASE \/ NewRow \/ Start \/ Stop \/ UNCHANGED vars
             \/ \E t \in 1..MaxTasks : LoopStep(t)
             \/ \E t \in DOMAIN tasks : PublishFails(t)
    <2>1. faults \in Nat  BY DEF RegistryInv, RegistryTypes
    <2> DEFINE Same == UNCHANGED <<dir, disk, entries, call, trained, torn, mixed, rewritten, broken>>
    <2>2. faults' \in Nat /\ Same
      <3>1. CASE NewRow \/ Start \/ Stop \/ UNCHANGED vars
        BY <2>1, <3>1 DEF NewRow, Start, Stop, registry, history, vars
      <3>2. ASSUME NEW t \in 1..MaxTasks, LoopStep(t) PROVE faults' \in Nat /\ Same
        <4>1. CASE Fetch(t)  BY <2>1, <4>1 DEF Fetch, registry, history
        <4>2. CASE Predict(t)  BY <2>1, <4>2 DEF Predict, registry, history
        <4>3. CASE Publish(t)  BY <2>1, <4>3 DEF Publish, registry, history
        <4> QED BY <3>2, <4>1, <4>2, <4>3 DEF LoopStep
      <3>3. ASSUME NEW t \in DOMAIN tasks, PublishFails(t) PROVE faults' \in Nat /\ Same
        BY <2>1, <3>3 DEF PublishFails, Fault, registry, history
      <3> QED BY <1>4, <3>1, <3>2, <3>3
    <2> QED BY <2>2, RegistryUntouched
  <1> QED BY <1>1, <1>2, <1>3, <1>4 DEF Next
------------------------------------------------------------------------------
(* The steps of the loops.                                                  *)

LEMMA NewTaskFields ==
  /\ NewTask \in Task /\ NewTask.at = "poll" /\ NewTask.row = 0 /\ NewTask.last = 0
  /\ Ended \in Task /\ Ended.at = "ended" /\ Ended.row = 0 /\ Ended.last = 0
  /\ \A n \in Nat : /\ [NewTask EXCEPT !.last = n] \in Task
                    /\ [NewTask EXCEPT !.last = n].at = "poll"
                    /\ [NewTask EXCEPT !.last = n].row = 0
                    /\ [NewTask EXCEPT !.last = n].last = n
  <1>1. NoSignal \in Signals  BY NoDirIsAPair DEF NoSignal, Signals
  <1> HIDE DEF NoSignal
  <1>2. NewTask \in Task /\ NewTask.at = "poll" /\ NewTask.row = 0 /\ NewTask.last = 0
    BY <1>1 DEF NewTask, Task
  <1>3. Ended \in Task /\ Ended.at = "ended" /\ Ended.row = 0 /\ Ended.last = 0
    BY <1>1 DEF Ended, NewTask, Task
  <1>4. \A n \in Nat : /\ [NewTask EXCEPT !.last = n] \in Task
                       /\ [NewTask EXCEPT !.last = n].at = "poll"
                       /\ [NewTask EXCEPT !.last = n].row = 0
                       /\ [NewTask EXCEPT !.last = n].last = n
    BY <1>1 DEF NewTask, Task
  <1> QED BY <1>2, <1>3, <1>4

LEMMA LoopsStart == Init => LoopInv
  <1> SUFFICES ASSUME Init PROVE LoopInv  OBVIOUS
  <1> USE DEF Init
  <1>1. LoopTypes
    <2>1. cache \in [Clusters -> Pairs]  BY NoDirIsAPair
    <2>2. latest \in 0..MaxRows  BY ModelServiceAssumption
    <2> QED BY <2>1, <2>2 DEF LoopTypes
  <1>2. CacheInv  BY NoDirIsAPair DEF CacheInv
  <1> QED BY <1>1, <1>2 DEF LoopInv, StreamInv, RowsAreInOrder

\* What a step of the registry leaves to the loops: files change only where
\* rewritten says so, and nothing is whole again that was mixed.
LEMMA LoopsUntouched ==
  ASSUME LoopInv, UNCHANGED <<cache, latest, tasks, running, stream>>,
         mixed \subseteq mixed', rewritten \subseteq rewritten',
         \A s \in Clusters \ rewritten' : dir'[s] = dir[s]
  PROVE  LoopInv'
  <1>1. LoopTypes'  BY DEF LoopInv, LoopTypes
  <1>2. CacheInv'
    <2>1. CacheInv  BY DEF LoopInv
    <2>2. \A s \in Clusters : Loads(cache[s]) => cache[s].model = cache[s].scaler \/ s \in mixed'
      BY <2>1 DEF CacheInv
    <2>3. \A s \in Clusters \ rewritten' : cache[s] = NoDir \/ cache[s] = dir'[s]
      BY <2>1 DEF CacheInv
    <2> QED BY <2>1, <2>2, <2>3 DEF CacheInv
  <1>3. ASSUME NEW t \in 1..Len(tasks) PROVE SoundTask(t, tasks[t])'
    <2>1. SoundTask(t, tasks[t])  BY DEF LoopInv
    <2> QED BY <2>1 DEF SoundTask
  <1>4. StreamInv' /\ RowsAreInOrder'
    BY DEF LoopInv, StreamInv, SoundLine, RowsAreInOrder
  <1> QED BY <1>1, <1>2, <1>3, <1>4 DEF LoopInv

\* The one task that has not ended moves on.
LEMMA TaskMoves ==
  ASSUME LoopInv, NEW t \in DOMAIN tasks, NEW x \in Task,
         tasks[t].at # "ended", tasks' = [tasks EXCEPT ![t] = x],
         UNCHANGED <<latest, running, mixed>>, SoundTask(t, x)
  PROVE  /\ tasks' \in Seq(Task) /\ running' \in 0..Len(tasks') /\ Len(tasks') = Len(tasks)
         /\ \A u \in 1..Len(tasks') : SoundTask(u, tasks[u])'
         /\ t \in 1..Len(tasks) /\ tasks'[t] = x
         /\ \A u \in 1..Len(tasks) : u # t => tasks'[u].at = "ended"
  <1>1. tasks \in Seq(Task) /\ DOMAIN tasks = 1..Len(tasks) /\ running \in 0..Len(tasks)
    BY DEF LoopInv, LoopTypes
  <1>2. /\ tasks' \in Seq(Task) /\ Len(tasks') = Len(tasks) /\ tasks'[t] = x
        /\ \A u \in 1..Len(tasks) : u # t => tasks'[u] = tasks[u]
    BY <1>1
  <1>3. \A u \in 1..Len(tasks) : SoundTask(u, tasks[u])  BY DEF LoopInv
  <1>4. t = running  BY <1>1, <1>3 DEF SoundTask
  <1>5. \A u \in 1..Len(tasks) : u # t => tasks[u].at = "ended"
    BY <1>3, <1>4 DEF SoundTask
  <1>6. ASSUME NEW u \in 1..Len(tasks') PROVE SoundTask(u, tasks[u])'
    <2>1. CASE u = t  BY <1>2, <2>1 DEF SoundTask
    <2>2. CASE u # t  BY <1>2, <1>3, <1>5, <2>2 DEF SoundTask
    <2> QED BY <2>1, <2>2
  <1> QED BY <1>1, <1>2, <1>5, <1>6

\* ... and what was sent stays sound if it is for that task.
LEMMA LinesStaySound ==
  ASSUME LoopInv, NEW t \in DOMAIN tasks, NEW x, Len(tasks') = Len(tasks), tasks'[t] = x,
         \A u \in 1..Len(tasks) : u # t => tasks'[u].at = "ended",
         UNCHANGED <<stream, latest>>,
         \A i \in 1..Len(stream) : stream[i].task = t => SoundLine(stream[i], x)
  PROVE  StreamInv' /\ RowsAreInOrder'
  <1>1. RowsAreInOrder'  BY DEF LoopInv, RowsAreInOrder
  <1>2. ASSUME NEW i \in 1..Len(stream)
        PROVE  /\ stream[i].task \in 1..Len(tasks') /\ stream[i].row <= latest
               /\ SoundLine(stream[i], tasks'[stream[i].task])
    <2>1. stream[i].task \in 1..Len(tasks) /\ stream[i].row <= latest
      BY DEF LoopInv, StreamInv
    <2>2. CASE stream[i].task = t  BY <2>1, <2>2
    <2>3. CASE stream[i].task # t  BY <2>1, <2>3 DEF SoundLine
    <2> QED BY <2>1, <2>2, <2>3
  <1> QED BY <1>1, <1>2 DEF StreamInv, SoundLine

LEMMA FetchStep ==
  ASSUME RegistryInv, LoopInv, NEW t \in DOMAIN tasks, Fetch(t) PROVE LoopInv'
  <1>1. /\ tasks[t].at = "poll" /\ latest # 0 /\ latest # tasks[t].last
        /\ tasks' = [tasks EXCEPT ![t] = [tasks[t] EXCEPT !.at = "predict", !.row = latest]]
        /\ UNCHANGED <<dir, cache, latest, running, stream, mixed, rewritten>>
    BY DEF Fetch, history
  <1>2. tasks[t] \in Task /\ latest \in Nat /\ SoundTask(t, tasks[t])
    <2>1. tasks \in Seq(Task) /\ t \in 1..Len(tasks)  BY DEF LoopInv, LoopTypes
    <2>2. latest \in Nat  BY ModelServiceAssumption DEF LoopInv, LoopTypes
    <2> QED BY <2>1, <2>2 DEF LoopInv
  <1> DEFINE x == [tasks[t] EXCEPT !.at = "predict", !.row = latest]
  <1>3. x \in Task /\ x.at = "predict" /\ x.row = latest /\ x.last = tasks[t].last
    BY <1>2 DEF Task
  <1> HIDE DEF x
  <1>4. tasks[t].last \in Nat  BY <1>2 DEF Task
  <1>5. SoundTask(t, x)
    BY <1>1, <1>2, <1>3, <1>4 DEF SoundTask
  <1>6. /\ tasks' \in Seq(Task) /\ running' \in 0..Len(tasks') /\ Len(tasks') = Len(tasks)
        /\ \A u \in 1..Len(tasks') : SoundTask(u, tasks[u])'
        /\ tasks'[t] = x
        /\ \A u \in 1..Len(tasks) : u # t => tasks'[u].at = "ended"
    BY <1>1, <1>3, <1>5, TaskMoves DEF x
  <1>7. \A i \in 1..Len(stream) : stream[i].task = t => SoundLine(stream[i], x)
    BY <1>1, <1>3 DEF LoopInv, StreamInv, SoundLine
  <1>8. StreamInv' /\ RowsAreInOrder'
    BY <1>1, <1>6, <1>7, LinesStaySound
  <1>9. LoopTypes'  BY <1>1, <1>6 DEF LoopInv, LoopTypes
  <1>10. CacheInv'  BY <1>1 DEF LoopInv, CacheInv
  <1> QED BY <1>6, <1>8, <1>9, <1>10 DEF LoopInv

\* What _load_artifacts returns was fitted together, or its slot is mixed.
LEMMA LoadedPair ==
  ASSUME RegistryInv, LoopInv, call = Idle, NEW s \in Clusters, Loads(LoadArtifacts(s))
  PROVE  /\ LoadArtifacts(s) \in Pairs
         /\ LoadArtifacts(s).model = LoadArtifacts(s).scaler \/ s \in mixed
         /\ s \notin rewritten => LoadArtifacts(s) = dir[s]
  <1>1. cache[s] \in Pairs /\ dir[s] \in Pairs
    BY DEF LoopInv, LoopTypes, RegistryInv, RegistryTypes
  <1>2. CASE Loads(cache[s])
    <2>1. LoadArtifacts(s) = cache[s]  BY <1>2 DEF LoadArtifacts
    <2>2. cache[s] # NoDir  BY <1>2, NoDirIsAPair
    <2> QED BY <1>1, <1>2, <2>1, <2>2 DEF LoopInv, CacheInv
  <1>3. CASE ~Loads(cache[s])
    <2>1. LoadArtifacts(s) = dir[s]  BY <1>3 DEF LoadArtifacts
    <2> QED BY <1>1, <2>1, IdleFields DEF RegistryInv, FilesInv
  <1> QED BY <1>2, <1>3

LEMMA PredictStep ==
  ASSUME RegistryInv, LoopInv, NEW t \in DOMAIN tasks, Predict(t) PROVE LoopInv'
  <1>1. /\ call = Idle /\ tasks[t].at = "predict"
        /\ UNCHANGED <<dir, latest, running, stream, mixed, rewritten>>
    BY DEF Predict, history
  <1>2. /\ tasks[t] \in Task /\ SoundTask(t, tasks[t]) /\ latest \in Nat
        /\ \A i \in 1..Len(stream) : stream[i].task = t => SoundLine(stream[i], tasks[t])
        /\ stream \in Seq(Line)
    <2>1. tasks \in Seq(Task) /\ t \in 1..Len(tasks)  BY DEF LoopInv, LoopTypes
    <2>2. latest \in Nat  BY ModelServiceAssumption DEF LoopInv, LoopTypes
    <2>3. stream \in Seq(Line)  BY DEF LoopInv, LoopTypes
    <2> QED BY <2>1, <2>2, <2>3 DEF LoopInv, StreamInv
  <1>3. ASSUME NEW x \in Task, tasks' = [tasks EXCEPT ![t] = x], CacheInv',
               cache' \in [Clusters -> Pairs],
               \/ /\ x.at = "publish" /\ x.row = tasks[t].row /\ x.last = tasks[t].last
                  /\ x.signal # NoSignal =>
                       x.signal.pair.model = x.signal.pair.scaler \/ x.signal.slot \in mixed
               \/ x.at = "poll" /\ x.row = 0 /\ x.last = tasks[t].last
        PROVE  LoopInv'
    <2>1. SoundTask(t, x)  BY <1>1, <1>2, <1>3 DEF SoundTask
    <2>2. /\ tasks' \in Seq(Task) /\ running' \in 0..Len(tasks') /\ Len(tasks') = Len(tasks)
          /\ \A u \in 1..Len(tasks') : SoundTask(u, tasks[u])'
          /\ tasks'[t] = x
          /\ \A u \in 1..Len(tasks) : u # t => tasks'[u].at = "ended"
      BY <1>1, <1>3, <2>1, TaskMoves
    <2>3. \A i \in 1..Len(stream) : stream[i].task = t => SoundLine(stream[i], x)
      BY <1>1, <1>2, <1>3 DEF SoundLine
    <2>4. StreamInv' /\ RowsAreInOrder'
      BY <1>1, <2>2, <2>3, LinesStaySound
    <2>5. LoopTypes'  BY <1>1, <1>3, <2>2 DEF LoopInv, LoopTypes
    <2> QED BY <1>3, <2>2, <2>4, <2>5 DEF LoopInv
  <1>4. UNCHANGED cache => CacheInv' /\ cache' \in [Clusters -> Pairs]
    BY <1>1 DEF LoopInv, CacheInv, LoopTypes
  <1>5. CASE tasks' = [tasks EXCEPT ![t].at = "publish", ![t].signal = NoSignal] /\ UNCHANGED cache
    <2> DEFINE x == [tasks[t] EXCEPT !.at = "publish", !.signal = NoSignal]
    <2>1. NoSignal \in Signals  BY NoDirIsAPair DEF NoSignal, Signals
    <2> HIDE DEF NoSignal
    <2>2. /\ x \in Task /\ x.at = "publish" /\ x.row = tasks[t].row /\ x.last = tasks[t].last
          /\ x.signal = NoSignal
      BY <1>2, <2>1 DEF Task
    <2>3. tasks' = [tasks EXCEPT ![t] = x]  BY <1>5
    <2> HIDE DEF x
    <2> QED BY <1>3, <1>4, <1>5, <2>2, <2>3
  <1>6. ASSUME NEW e \in entries, Loads(LoadArtifacts(e.slot)),
               cache' = [cache EXCEPT ![e.slot] = LoadArtifacts(e.slot)],
               \/ tasks' = [tasks EXCEPT ![t].at = "publish",
                             ![t].signal = [ver |-> e.ver, slot |-> e.slot,
                                            pair |-> LoadArtifacts(e.slot)]]
               \/ tasks' = [tasks EXCEPT ![t] = [NewTask EXCEPT !.last = tasks[t].last]]
        PROVE  LoopInv'
    <2> DEFINE pair == LoadArtifacts(e.slot)
    <2>1. e.slot \in Clusters /\ e.ver \in Nat
      BY ModelServiceAssumption DEF RegistryInv, RegistryTypes, Entry, Vers
    <2>2. /\ pair \in Pairs /\ Loads(pair)
          /\ pair.model = pair.scaler \/ e.slot \in mixed
          /\ e.slot \notin rewritten => pair = dir[e.slot]
      BY <1>1, <1>6, <2>1, LoadedPair
    <2> HIDE DEF pair
    <2>3. /\ cache' \in [Clusters -> Pairs] /\ cache'[e.slot] = pair
          /\ \A s \in Clusters : s # e.slot => cache'[s] = cache[s]
      BY <1>6, <2>1, <2>2 DEF LoopInv, LoopTypes, pair
    <2>4. CacheInv'
      <3>1. CacheInv  BY DEF LoopInv
      <3>2. ASSUME NEW s \in Clusters
            PROVE  /\ cache'[s] # NoDir => Loads(cache'[s])
                   /\ Loads(cache'[s]) => cache'[s].model = cache'[s].scaler \/ s \in mixed'
                   /\ s \notin rewritten' => cache'[s] = NoDir \/ cache'[s] = dir'[s]
        <4>1. CASE s = e.slot  BY <1>1, <2>2, <2>3, <4>1
        <4>2. CASE s # e.slot  BY <1>1, <2>3, <3>1, <4>2 DEF CacheInv
        <4> QED BY <4>1, <4>2
      <3> QED BY <3>2 DEF CacheInv
    <2>5. CASE tasks' = [tasks EXCEPT ![t].at = "publish",
                           ![t].signal = [ver |-> e.ver, slot |-> e.slot, pair |-> pair]]
      <3> DEFINE signal == [ver |-> e.ver, slot |-> e.slot, pair |-> pair]
                 x == [tasks[t] EXCEPT !.at = "publish", !.signal = signal]
      <3>1. signal \in Signals /\ signal.slot = e.slot /\ signal.pair = pair
        BY <2>1, <2>2 DEF Signals
      <3>2. tasks' = [tasks EXCEPT ![t] = x]  BY <2>5
      <3> HIDE DEF signal
      <3>3. /\ x \in Task /\ x.at = "publish" /\ x.row = tasks[t].row /\ x.last = tasks[t].last
            /\ x.signal = signal
        BY <1>2, <3>1 DEF Task
      <3> HIDE DEF x
      <3> QED BY <1>3, <2>2, <2>3, <2>4, <3>1, <3>2, <3>3
    <2>6. CASE tasks' = [tasks EXCEPT ![t] = [NewTask EXCEPT !.last = tasks[t].last]]
      <3>1. tasks[t].last \in Nat  BY <1>2 DEF Task
      <3>2. PICK x \in Task : /\ x = [NewTask EXCEPT !.last = tasks[t].last]
                              /\ x.at = "poll" /\ x.row = 0 /\ x.last = tasks[t].last
        BY <3>1, NewTaskFields
      <3> QED BY <1>3, <2>3, <2>4, <2>6, <3>2
    <2> QED BY <1>6, <2>5, <2>6 DEF pair
  <1>7. \/ /\ tasks' = [tasks EXCEPT ![t].at = "publish", ![t].signal = NoSignal]
           /\ UNCHANGED cache
        \/ \E e \in entries :
             /\ Loads(LoadArtifacts(e.slot))
             /\ cache' = [cache EXCEPT ![e.slot] = LoadArtifacts(e.slot)]
             /\ \/ tasks' = [tasks EXCEPT ![t].at = "publish",
                               ![t].signal = [ver |-> e.ver, slot |-> e.slot,
                                              pair |-> LoadArtifacts(e.slot)]]
                \/ tasks' = [tasks EXCEPT ![t] = [NewTask EXCEPT !.last = tasks[t].last]]
    BY DEF Predict
  <1> QED BY <1>5, <1>6, <1>7
\* A line a task adds comes behind what it has sent, and repeats only a row
\* that was sent without an answer.
LEMMA AddedLine ==
  ASSUME LoopInv, NEW t \in DOMAIN tasks, tasks[t].at = "publish",
         NEW answered \in BOOLEAN, stream' = Added(t, answered)
  PROVE  /\ stream' \in Seq(Line) /\ RowsAreInOrder'
         /\ Len(stream') = Len(stream) + 1
         /\ \A i \in 1..Len(stream') :
              \/ i \in 1..Len(stream) /\ stream'[i] = stream[i]
              \/ stream'[i] = [task |-> t, row |-> tasks[t].row, answered |-> answered]
         /\ t \in 1..Len(tasks) /\ tasks[t].row <= latest
         /\ \A i \in 1..Len(stream) : stream[i].task = t => stream[i].row <= tasks[t].row
  <1> DEFINE new == [task |-> t, row |-> tasks[t].row, answered |-> answered]
  <1>1. /\ tasks \in Seq(Task) /\ t \in 1..Len(tasks) /\ stream \in Seq(Line)
        /\ tasks[t] \in Task /\ SoundTask(t, tasks[t]) /\ t \in Nat
    <2>1. tasks \in Seq(Task) /\ t \in 1..Len(tasks) /\ stream \in Seq(Line)
      BY DEF LoopInv, LoopTypes
    <2> QED BY <2>1 DEF LoopInv
  <1>2. /\ tasks[t].row > 0 /\ tasks[t].last < tasks[t].row /\ tasks[t].row <= latest
        /\ tasks[t].row \in Nat /\ tasks[t].last \in Nat
    BY <1>1 DEF SoundTask, Task
  <1>3. new \in Line /\ new.task = t /\ new.row = tasks[t].row
    BY <1>1, <1>2 DEF Line
  <1>4. stream' = Append(stream, new)  BY DEF Added
  <1> HIDE DEF new
  <1>5. /\ stream' \in Seq(Line) /\ Len(stream') = Len(stream) + 1 /\ Len(stream) \in Nat
        /\ \A i \in 1..Len(stream) : stream'[i] = stream[i]
        /\ stream'[Len(stream) + 1] = new
    BY <1>1, <1>3, <1>4
  <1>6. \A i \in 1..Len(stream') :
          \/ i \in 1..Len(stream) /\ stream'[i] = stream[i]
          \/ i = Len(stream) + 1 /\ stream'[i] = new
    BY <1>5
  <1>7. \A i \in 1..Len(stream) : stream[i].task = t => SoundLine(stream[i], tasks[t])
    BY DEF LoopInv, StreamInv
  <1>8. \A i \in 1..Len(stream) : stream[i].task = t =>
          /\ stream[i].row <= tasks[t].row
          /\ stream[i].answered => stream[i].row <= tasks[t].last
    BY <1>2, <1>7 DEF SoundLine
  <1>9. RowsAreInOrder'
    <2>1. DOMAIN stream' = 1..Len(stream') /\ DOMAIN stream = 1..Len(stream)  BY <1>1, <1>5
    <2>2. SUFFICES ASSUME NEW i \in 1..Len(stream'), NEW j \in 1..Len(stream'),
                          i < j, stream'[i].task = stream'[j].task
                   PROVE  \/ stream'[i].row < stream'[j].row
                          \/ stream'[i].row = stream'[j].row /\ ~stream'[i].answered
      BY <2>1 DEF RowsAreInOrder
    <2>3. i \in 1..Len(stream) /\ stream'[i] = stream[i]  BY <1>5, <1>6, <2>2
    <2>4. CASE j \in 1..Len(stream) /\ stream'[j] = stream[j]
      BY <2>1, <2>2, <2>3, <2>4 DEF LoopInv, RowsAreInOrder
    <2>5. CASE stream'[j] = new
      <3>1. stream[i].task = t  BY <1>3, <2>2, <2>3, <2>5
      <3>2. stream[i] \in Line  BY <1>1, <2>3
      <3>3. stream[i].row \in Nat  BY <3>2 DEF Line
      <3>4. stream[i].row <= tasks[t].row /\ (stream[i].answered => stream[i].row <= tasks[t].last)
        BY <1>8, <2>3, <3>1
      <3>5. \/ stream[i].row < tasks[t].row
            \/ stream[i].row = tasks[t].row /\ ~stream[i].answered
        BY <1>2, <3>3, <3>4
      <3> QED BY <1>3, <2>3, <2>5, <3>5
    <2> QED BY <1>6, <2>4, <2>5
  <1> QED BY <1>1, <1>2, <1>5, <1>6, <1>8, <1>9 DEF new

\* The task goes back to its poll; what it noted is what it was answered for.
LEMMA PublishStep ==
  ASSUME LoopInv, NEW t \in DOMAIN tasks, NEW n \in Nat, tasks[t].at = "publish",
         tasks' = [tasks EXCEPT ![t] = [NewTask EXCEPT !.last = n]],
         \/ /\ stream' = Added(t, TRUE) /\ n = tasks[t].row
         \/ /\ stream' \in {stream, Added(t, FALSE)} /\ n = tasks[t].last,
         UNCHANGED <<dir, cache, latest, running, mixed, rewritten>>
  PROVE  LoopInv'
  <1>1. /\ tasks \in Seq(Task) /\ t \in 1..Len(tasks) /\ stream \in Seq(Line)
        /\ tasks[t] \in Task /\ SoundTask(t, tasks[t])
    <2>1. tasks \in Seq(Task) /\ t \in 1..Len(tasks) /\ stream \in Seq(Line)
      BY DEF LoopInv, LoopTypes
    <2> QED BY <2>1 DEF LoopInv
  <1>2. PICK x \in Task : /\ x = [NewTask EXCEPT !.last = n]
                          /\ x.at = "poll" /\ x.row = 0 /\ x.last = n
    BY NewTaskFields
  <1>3. /\ n <= latest /\ t = running /\ latest \in Nat
    <2>1. latest \in Nat  BY ModelServiceAssumption DEF LoopInv, LoopTypes
    <2> QED BY <1>1, <2>1 DEF SoundTask
  <1>4. SoundTask(t, x)  BY <1>2, <1>3 DEF SoundTask
  <1>5. /\ tasks' \in Seq(Task) /\ running' \in 0..Len(tasks') /\ Len(tasks') = Len(tasks)
        /\ \A u \in 1..Len(tasks') : SoundTask(u, tasks[u])'
        /\ tasks'[t] = x
        /\ \A u \in 1..Len(tasks) : u # t => tasks'[u].at = "ended"
    BY <1>2, <1>4, TaskMoves
  <1>6. CacheInv'  BY DEF LoopInv, CacheInv
  <1>7. SUFFICES stream' \in Seq(Line) /\ StreamInv' /\ RowsAreInOrder'
    BY <1>5, <1>6 DEF LoopInv, LoopTypes
  <1>8. CASE stream' = stream
    <2>1. n = tasks[t].last \/ n = tasks[t].row  OBVIOUS
    <2>2. tasks[t].last <= n  BY <1>1, <2>1 DEF SoundTask, Task
    <2>3. ASSUME NEW i \in 1..Len(stream), stream[i].task = t
          PROVE  SoundLine(stream[i], x)
      <3>1. SoundLine(stream[i], tasks[t])  BY <2>3 DEF LoopInv, StreamInv
      <3>2. stream[i] \in Line  BY <1>1
      <3>3. stream[i].row \in Nat /\ tasks[t].last \in Nat  BY <1>1, <3>2 DEF Line, Task
      <3>4. stream[i].answered => stream[i].row <= tasks[t].last
        BY <3>1 DEF SoundLine
      <3> QED BY <1>2, <2>2, <3>3, <3>4 DEF SoundLine
    <2> QED BY <1>1, <1>5, <1>8, <2>3, LinesStaySound
  <1>9. ASSUME NEW answered \in BOOLEAN, stream' = Added(t, answered),
               answered => n = tasks[t].row, ~answered => n = tasks[t].last
        PROVE  stream' \in Seq(Line) /\ StreamInv' /\ RowsAreInOrder'
    <2> DEFINE new == [task |-> t, row |-> tasks[t].row, answered |-> answered]
    <2>1. /\ stream' \in Seq(Line) /\ RowsAreInOrder'
          /\ \A i \in 1..Len(stream') : \/ i \in 1..Len(stream) /\ stream'[i] = stream[i]
                                        \/ stream'[i] = new
          /\ tasks[t].row <= latest
          /\ \A i \in 1..Len(stream) : stream[i].task = t => stream[i].row <= tasks[t].row
      BY <1>9, AddedLine
    <2>2. new.task = t /\ new.row = tasks[t].row /\ new.answered = answered  OBVIOUS
    <2> HIDE DEF new
    <2>3. ASSUME NEW i \in 1..Len(stream')
          PROVE  /\ stream'[i].task \in 1..Len(tasks') /\ stream'[i].row <= latest
                 /\ SoundLine(stream'[i], tasks'[stream'[i].task])
      <3>1. CASE i \in 1..Len(stream) /\ stream'[i] = stream[i]
        <4>1. stream[i].task \in 1..Len(tasks) /\ stream[i].row <= latest
              /\ SoundLine(stream[i], tasks[stream[i].task])
          BY <3>1 DEF LoopInv, StreamInv
        <4>2. CASE stream[i].task = t
          <5>1. stream[i].row <= tasks[t].row  BY <2>1, <3>1, <4>2
          <5>2. stream[i].answered => stream[i].row <= tasks[t].last
            BY <4>1, <4>2 DEF SoundLine
          <5>3. stream[i].answered => stream[i].row <= n  BY <1>9, <5>1, <5>2
          <5>4. SoundLine(stream[i], x)  BY <1>2, <5>3 DEF SoundLine
          <5>5. stream'[i] = stream[i] /\ tasks'[t] = x /\ t \in 1..Len(tasks')
            BY <1>1, <1>5, <3>1
          <5> QED BY <3>1, <4>1, <4>2, <5>4, <5>5
        <4>3. CASE stream[i].task # t
          BY <1>5, <3>1, <4>1, <4>3 DEF SoundLine
        <4> QED BY <4>2, <4>3
      <3>2. CASE stream'[i] = new
        <4>1. answered => tasks[t].row <= n
          <5>1. tasks[t].row \in Nat  BY <1>1 DEF Task
          <5> QED BY <1>9, <5>1
        <4> QED BY <1>1, <1>2, <1>5, <2>1, <2>2, <3>2, <4>1 DEF SoundLine
      <3> QED BY <2>1, <3>1, <3>2
    <2>4. StreamInv'  BY <2>3 DEF StreamInv, SoundLine
    <2> QED BY <2>1, <2>4
  <1>10. CASE stream' = Added(t, TRUE) /\ n = tasks[t].row  BY <1>9, <1>10
  <1>11. CASE stream' = Added(t, FALSE) /\ n = tasks[t].last  BY <1>9, <1>11
  <1> QED BY <1>8, <1>10, <1>11

LEMMA NewRowStep == ASSUME LoopInv, NewRow PROVE LoopInv'
  <1>1. /\ latest < MaxRows /\ latest' = latest + 1
        /\ UNCHANGED <<dir, cache, tasks, running, stream, mixed, rewritten>>
    BY DEF NewRow, loops, history
  <1>2. latest \in Nat /\ MaxRows \in Nat /\ tasks \in Seq(Task) /\ stream \in Seq(Line)
    BY ModelServiceAssumption DEF LoopInv, LoopTypes
  <1>3. LoopTypes' /\ CacheInv' /\ RowsAreInOrder'
    BY <1>1, <1>2 DEF LoopInv, LoopTypes, CacheInv, RowsAreInOrder
  <1>4. ASSUME NEW t \in 1..Len(tasks) PROVE SoundTask(t, tasks[t])'
    <2>1. tasks[t] \in Task /\ SoundTask(t, tasks[t])  BY <1>2 DEF LoopInv
    <2>2. tasks[t].last \in Nat /\ tasks[t].row \in Nat  BY <2>1 DEF Task
    <2> QED BY <1>1, <1>2, <2>1, <2>2 DEF SoundTask
  <1>5. StreamInv'
    <2> SUFFICES ASSUME NEW i \in 1..Len(stream)
                 PROVE  /\ stream[i].task \in 1..Len(tasks) /\ stream[i].row <= latest'
                        /\ SoundLine(stream[i], tasks[stream[i].task])
      BY <1>1 DEF StreamInv, SoundLine
    <2>1. stream[i] \in Line  BY <1>2
    <2>2. stream[i].row \in Nat  BY <2>1 DEF Line
    <2> QED BY <1>1, <1>2, <2>2 DEF LoopInv, StreamInv
  <1> QED BY <1>1, <1>3, <1>4, <1>5 DEF LoopInv

\* While no loop runs, all tasks have ended, and have nothing to keep.
LEMMA AllEnded ==
  ASSUME LoopInv, tasks' \in Seq(Task), running' \in 0..Len(tasks'), LoopTypes', CacheInv',
         UNCHANGED <<stream, latest>>,
         Len(tasks) <= Len(tasks'),
         \A u \in 1..Len(tasks) : tasks'[u].at = "ended",
         \A u \in 1..Len(tasks') : SoundTask(u, tasks[u])'
  PROVE  LoopInv'
  <1>1. tasks \in Seq(Task)  BY DEF LoopInv, LoopTypes
  <1>2. Len(tasks) \in Nat /\ Len(tasks') \in Nat  BY <1>1
  <1>3. StreamInv'
    <2>1. ASSUME NEW i \in 1..Len(stream)
          PROVE  /\ stream[i].task \in 1..Len(tasks') /\ stream[i].row <= latest
                 /\ SoundLine(stream[i], tasks'[stream[i].task])
      <3>1. stream[i].task \in 1..Len(tasks) /\ stream[i].row <= latest
        BY DEF LoopInv, StreamInv
      <3> QED BY <1>2, <3>1 DEF SoundLine
    <2> QED BY <2>1 DEF StreamInv, SoundLine
  <1>4. RowsAreInOrder'  BY DEF LoopInv, RowsAreInOrder
  <1> QED BY <1>3, <1>4 DEF LoopInv

LEMMA StartStep == ASSUME LoopInv, Start PROVE LoopInv'
  <1>1. /\ running = 0 /\ tasks' = Append(tasks, NewTask) /\ running' = Len(tasks) + 1
        /\ UNCHANGED <<dir, cache, latest, stream, mixed, rewritten>>
    BY DEF Start, history
  <1>2. tasks \in Seq(Task) /\ Len(tasks) \in Nat /\ latest \in Nat
    <2>1. tasks \in Seq(Task)  BY DEF LoopInv, LoopTypes
    <2> QED BY <2>1, ModelServiceAssumption DEF LoopInv, LoopTypes
  <1>3. /\ tasks' \in Seq(Task) /\ Len(tasks') = Len(tasks) + 1
        /\ \A u \in 1..Len(tasks) : tasks'[u] = tasks[u]
        /\ tasks'[Len(tasks) + 1] = NewTask
    BY <1>1, <1>2, NewTaskFields
  <1>4. \A u \in 1..Len(tasks) : tasks[u].at = "ended"
    <2> TAKE u \in 1..Len(tasks)
    <2>1. SoundTask(u, tasks[u]) /\ u # 0  BY DEF LoopInv
    <2> QED BY <1>1, <2>1 DEF SoundTask
  <1>5. ASSUME NEW u \in 1..Len(tasks') PROVE SoundTask(u, tasks[u])'
    <2>1. CASE u \in 1..Len(tasks)
      BY <1>3, <1>4, <2>1 DEF SoundTask, LoopInv
    <2>2. CASE u = Len(tasks) + 1
      BY <1>1, <1>2, <1>3, <2>2, NewTaskFields DEF SoundTask
    <2> QED BY <1>2, <1>3, <2>1, <2>2
  <1>6. LoopTypes' /\ CacheInv'
    BY <1>1, <1>2, <1>3 DEF LoopInv, LoopTypes, CacheInv
  <1>7. /\ running' \in 0..Len(tasks') /\ Len(tasks) <= Len(tasks')
        /\ \A u \in 1..Len(tasks) : tasks'[u].at = "ended"
    BY <1>1, <1>2, <1>3, <1>4
  <1> QED BY <1>1, <1>3, <1>5, <1>6, <1>7, AllEnded

LEMMA StopStep == ASSUME LoopInv, Stop PROVE LoopInv'
  <1>1. /\ running # 0 /\ tasks' = [tasks EXCEPT ![running] = Ended] /\ running' = 0
        /\ UNCHANGED <<dir, cache, latest, stream, mixed, rewritten>>
    BY DEF Stop, history
  <1>2. tasks \in Seq(Task) /\ Len(tasks) \in Nat /\ running \in 1..Len(tasks)
    <2>1. tasks \in Seq(Task) /\ running \in 0..Len(tasks)  BY DEF LoopInv, LoopTypes
    <2> QED BY <1>1, <2>1
  <1>3. /\ tasks' \in Seq(Task) /\ Len(tasks') = Len(tasks) /\ tasks'[running] = Ended
        /\ \A u \in 1..Len(tasks) : u # running => tasks'[u] = tasks[u]
    BY <1>1, <1>2, NewTaskFields
  <1>4. \A u \in 1..Len(tasks) : tasks'[u].at = "ended"
    <2> TAKE u \in 1..Len(tasks)
    <2>1. SoundTask(u, tasks[u])  BY DEF LoopInv
    <2> QED BY <1>3, <2>1, NewTaskFields DEF SoundTask
  <1>5. \A u \in 1..Len(tasks') : SoundTask(u, tasks[u])'
    <2> TAKE u \in 1..Len(tasks')
    <2>1. SoundTask(u, tasks[u])  BY <1>3 DEF LoopInv
    <2>2. tasks'[u] = tasks[u] \/ tasks'[u] = Ended  BY <1>3
    <2> QED BY <1>3, <1>4, <2>1, <2>2, NewTaskFields DEF SoundTask
  <1>6. running' \in 0..Len(tasks')  BY <1>1, <1>2, <1>3
  <1>7. LoopTypes' /\ CacheInv'
    BY <1>1, <1>3, <1>6 DEF LoopInv, LoopTypes, CacheInv
  <1> QED BY <1>1, <1>2, <1>3, <1>4, <1>5, <1>6, <1>7, AllEnded

\* A reload forgets what was cached; a restart ends the tasks as well.
LEMMA ReloadedCache ==
  ASSUME Reload PROVE cache' \in [Clusters -> Pairs] /\ CacheInv'
  <1>1. cache' = [s \in Clusters |-> NoDir]  BY DEF Reload
  <1>2. cache' \in [Clusters -> Pairs] /\ \A s \in Clusters : cache'[s] = NoDir
    BY <1>1, NoDirIsAPair
  <1> QED BY <1>2, NoDirIsAPair DEF CacheInv

LEMMA HangupKeepsLoops == ASSUME LoopInv, Hangup PROVE LoopInv'
  <1>1. Reload /\ UNCHANGED <<latest, tasks, running, stream, mixed>>
    BY DEF Hangup, loops
  <1>2. cache' \in [Clusters -> Pairs] /\ CacheInv'  BY <1>1, ReloadedCache
  <1>3. LoopTypes'  BY <1>1, <1>2 DEF LoopInv, LoopTypes
  <1>4. ASSUME NEW t \in 1..Len(tasks) PROVE SoundTask(t, tasks[t])'
    BY <1>1 DEF LoopInv, SoundTask
  <1>5. StreamInv' /\ RowsAreInOrder'
    BY <1>1 DEF LoopInv, StreamInv, SoundLine, RowsAreInOrder
  <1> QED BY <1>1, <1>2, <1>3, <1>4, <1>5 DEF LoopInv

LEMMA RestartKeepsLoops == ASSUME LoopInv, Restart PROVE LoopInv'
  <1>1. /\ Reload /\ tasks' = [t \in DOMAIN tasks |-> Ended] /\ running' = 0
        /\ UNCHANGED <<latest, stream>>
    BY DEF Restart
  <1>2. cache' \in [Clusters -> Pairs] /\ CacheInv'  BY <1>1, ReloadedCache
  <1>3. tasks \in Seq(Task) /\ Len(tasks) \in Nat /\ DOMAIN tasks = 1..Len(tasks)
    BY DEF LoopInv, LoopTypes
  <1>4. /\ tasks' \in Seq(Task) /\ Len(tasks') = Len(tasks)
        /\ \A u \in 1..Len(tasks) : tasks'[u] = Ended
    <2>1. Ended \in Task  BY NewTaskFields
    <2>2. tasks' \in [1..Len(tasks) -> Task]  BY <1>1, <1>3, <2>1
    <2>3. tasks' \in Seq(Task) /\ Len(tasks') = Len(tasks)  BY <1>3, <2>2
    <2> QED BY <1>1, <1>3, <2>3
  <1>5. \A u \in 1..Len(tasks) : tasks'[u].at = "ended"  BY <1>4, NewTaskFields
  <1>6. \A u \in 1..Len(tasks') : SoundTask(u, tasks[u])'
    BY <1>4, <1>5, NewTaskFields DEF SoundTask
  <1>7. running' \in 0..Len(tasks')  BY <1>1, <1>3, <1>4
  <1>8. LoopTypes'  BY <1>1, <1>2, <1>4, <1>7 DEF LoopInv, LoopTypes
  <1> QED BY <1>1, <1>2, <1>3, <1>4, <1>5, <1>6, <1>7, <1>8, AllEnded

LEMMA LoopsStep == RegistryInv /\ LoopInv /\ [Next]_vars => LoopInv'
  <1> SUFFICES ASSUME RegistryInv, LoopInv, [Next]_vars PROVE LoopInv'  OBVIOUS
  <1> DEFINE Untouched == UNCHANGED <<cache, latest, tasks, running, stream>>
             Kept == /\ mixed \subseteq mixed' /\ rewritten \subseteq rewritten'
                     /\ \A s \in Clusters \ rewritten' : dir'[s] = dir[s]
  <1>1. CASE Hangup  BY <1>1, HangupKeepsLoops
  <1>2. CASE Restart  BY <1>2, RestartKeepsLoops
  <1>3. CASE NewRow  BY <1>3, NewRowStep
  <1>4. CASE Start  BY <1>4, StartStep
  <1>5. CASE Stop  BY <1>5, StopStep
  <1>6. ASSUME NEW t \in DOMAIN tasks, Publish(t) \/ PublishFails(t) PROVE LoopInv'
    <2>1. tasks[t] \in Task
      <3>1. tasks \in Seq(Task)  BY DEF LoopInv, LoopTypes
      <3> QED BY <3>1
    <2>2. tasks[t].row \in Nat /\ tasks[t].last \in Nat  BY <2>1 DEF Task
    <2>3. CASE Publish(t)
      <3>1. /\ tasks[t].at = "publish" /\ stream' = Added(t, TRUE)
            /\ tasks' = [tasks EXCEPT ![t] = [NewTask EXCEPT !.last = tasks[t].row]]
            /\ UNCHANGED <<dir, cache, latest, running, mixed, rewritten>>
        BY <2>3 DEF Publish, history
      <3> QED BY <2>2, <3>1, PublishStep
    <2>4. CASE PublishFails(t)
      <3>1. /\ tasks[t].at = "publish" /\ stream' \in {stream, Added(t, FALSE)}
            /\ tasks' = [tasks EXCEPT ![t] = [NewTask EXCEPT !.last = tasks[t].last]]
            /\ UNCHANGED <<dir, cache, latest, running, mixed, rewritten>>
        BY <2>4 DEF PublishFails, history
      <3> QED BY <2>2, <3>1, PublishStep
    <2> QED BY <1>6, <2>3, <2>4
  <1>7. CASE \E t \in 1..MaxTasks : LoopStep(t)
    BY <1>6, <1>7, FetchStep, PredictStep DEF LoopStep
  <1>8. CASE \E t \in DOMAIN tasks : PublishFails(t)  BY <1>6, <1>8
  <1>9. CASE CallStep
    <2>1. ASSUME NEW s \in Clusters, WriteFiles(s) PROVE Untouched /\ Kept
      <3>1. /\ rewritten' = rewritten \union {s} /\ mixed' = mixed
            /\ dir' = [dir EXCEPT ![s] = Written(call.wrote + 1, IF @ = NoDir THEN 0 ELSE @.scaler)]
            /\ Untouched
        BY <2>1 DEF WriteFiles, loops
      <3>2. \A x \in Clusters \ rewritten' : dir'[x] = dir[x]
        BY <3>1 DEF RegistryInv, RegistryTypes
      <3> QED BY <3>1, <3>2
    <2>2. ASSUME NEW s \in Clusters, UpsertDrop(s) PROVE Untouched /\ Kept
      BY <2>2 DEF UpsertDrop, loops, history
    <2>3. ASSUME UpsertAppend \/ Save \/ Rename PROVE Untouched /\ Kept
      BY <2>3 DEF UpsertAppend, Save, Rename, loops, history
    <2>4. ASSUME RemoveTree PROVE Untouched /\ Kept
      <3>1. /\ rewritten' = rewritten \union {call.slot} /\ mixed' = mixed
            /\ dir' = [dir EXCEPT ![call.slot] = NoDir] /\ Untouched
        BY <2>4 DEF RemoveTree, loops
      <3>2. \A x \in Clusters \ rewritten' : dir'[x] = dir[x]
        BY <3>1 DEF RegistryInv, RegistryTypes
      <3> QED BY <3>1, <3>2
    <2> QED BY <1>9, <2>1, <2>2, <2>3, <2>4, LoopsUntouched DEF CallStep
  <1>10. CASE TrainFails \/ SaveFails
    <2>1. Untouched /\ Kept
      BY <1>10 DEF TrainFails, SaveFails, Leave, loops
    <2> QED BY <2>1, LoopsUntouched
  <1>11. CASE Train \/ (\E e \in entries : Delete(e)) \/ UNCHANGED vars
    <2>1. Untouched /\ Kept
      BY <1>11 DEF Train, Delete, loops, history, vars
    <2> QED BY <2>1, LoopsUntouched
  <1> QED
    BY <1>1, <1>2, <1>3, <1>4, <1>5, <1>7, <1>8, <1>9, <1>10, <1>11 DEF Next
------------------------------------------------------------------------------
(* The theorems.                                                            *)

LEMMA ServiceIsInvariant == Spec => []ServiceInv
  <1>1. Init => ServiceInv  BY RegistryStarts, LoopsStart DEF ServiceInv
  <1>2. ServiceInv /\ [Next]_vars => ServiceInv'
    BY RegistryStep, LoopsStep DEF ServiceInv
  <1> QED BY <1>1, <1>2, PTL DEF Spec

\* The type invariant the runs check follows from the closer one.
LEMMA TypesFollow == ServiceInv => TypeOK
  <1> SUFFICES ASSUME ServiceInv PROVE TypeOK  OBVIOUS
  <1> USE DEF ServiceInv, RegistryInv, LoopInv
  <1>1. {dir, cache} \subseteq [Clusters -> Pairs]  BY DEF RegistryTypes, LoopTypes
  <1>2. \A list \in {disk, entries, call.list} : list \subseteq [slot : Clusters, ver : Vers]
    <2>1. call.list \in SUBSET Entry  BY DEF RegistryTypes, Calls
    <2> QED BY <2>1 DEF RegistryTypes, Entry
  <1>3. call.at \in {"idle", "fit", "write", "drop", "append", "save", "rename", "tree"}
    BY DEF RegistryTypes, Calls, CallPlaces
  <1>4. UNION {call.todo, call.done, torn, mixed, rewritten} \subseteq Clusters
    BY DEF RegistryTypes, Calls
  <1>5. /\ tasks \in Seq(Task) /\ DOMAIN tasks = 1..Len(tasks) /\ latest \in Nat
        /\ running \in 0..Len(tasks)
    BY ModelServiceAssumption DEF LoopTypes
  <1>6. ASSUME NEW t \in DOMAIN tasks
        PROVE  /\ tasks[t].at \in {"poll", "predict", "publish", "ended"}
               /\ tasks[t].row \in {0, latest} \union (tasks[t].last + 1)..latest
               /\ tasks[t].last <= latest
    <2>1. tasks[t] \in Task  BY <1>5
    <2>2. SoundTask(t, tasks[t])  BY <1>5
    <2>3. tasks[t].at \in {"poll", "predict", "publish", "ended"} /\ tasks[t].row \in Nat
          /\ tasks[t].last \in Nat
      BY <2>1 DEF Task
    <2>4. CASE tasks[t].at # "ended"
      BY <1>5, <2>2, <2>3, <2>4 DEF SoundTask
    <2>5. CASE tasks[t].at = "ended"
      BY <1>5, <2>2, <2>3, <2>5 DEF SoundTask
    <2> QED BY <2>3, <2>4, <2>5
  <1>7. running \in {0} \union DOMAIN tasks  BY <1>5
  <1> QED BY <1>1, <1>2, <1>3, <1>4, <1>6, <1>7 DEF TypeOK

\* registry.py:74-162: the list in memory, models.json and the directories
\* agree at every step and after every restart, one entry a slot, unless a
\* signal or a failed write cut an update (or a training its files).
THEOREM RegistryHolds == Spec => []RegistryIsSound
  <1>1. ServiceInv => RegistryIsSound
    <2> SUFFICES ASSUME ServiceInv PROVE RegistryIsSound  OBVIOUS
    <2> USE DEF ServiceInv, RegistryInv
    <2>1. call = Idle /\ ~broken => disk = entries  BY IdleFields DEF ListsInv
    <2>2. ~broken => \A e \in entries :
            \/ e \in disk
            \/ e.slot = call.slot /\ \A f \in entries : f.slot = call.slot => f = e
      <3> SUFFICES ASSUME ~broken, NEW e \in entries, e \notin disk
                   PROVE  e.slot = call.slot /\ \A f \in entries : f.slot = call.slot => f = e
        OBVIOUS
      <3> DEFINE new == [slot |-> call.slot, ver |-> trained]
      <3>1. ListsInv /\ call.at \in CallPlaces  BY DEF RegistryTypes, Calls
      <3>2. entries = Others(call.slot) \union {new}
        BY <3>1 DEF ListsInv, Others, CallPlaces
      <3>3. new.slot = call.slot  OBVIOUS
      <3> HIDE DEF new
      <3> QED BY <3>2, <3>3 DEF Others
    <2>3. SlotsAreSingle
      <3> SUFFICES ASSUME ~broken
                   PROVE  /\ \A e \in disk, f \in disk : e.slot = f.slot => e = f
                          /\ \A e \in entries, f \in entries : e.slot = f.slot => e = f
        BY DEF SlotsAreSingle
      <3>1. \A e \in disk, f \in disk : e.slot = f.slot => e = f  BY DEF ListsInv
      <3>2. \A e \in entries, f \in entries : e.slot = f.slot => e = f
        BY <2>2, <3>1
      <3> QED BY <3>1, <3>2
    <2>4. NamedDirsExist  BY DEF NamedDirsExist, ListsInv
    <2>5. EntriesDescribeFiles
      <3> SUFFICES ASSUME call = Idle, ~broken, NEW e \in disk, e.slot \notin torn
                   PROVE  dir[e.slot] = [model |-> e.ver, scaler |-> e.ver]
        BY DEF EntriesDescribeFiles
      <3>1. Torn = {}  BY IdleFields DEF Torn
      <3> QED BY <3>1 DEF ListsInv
    <2>6. RegistryIsDurable  BY <2>1 DEF RegistryIsDurable
    <2> QED BY <2>3, <2>4, <2>5, <2>6, TypesFollow DEF RegistryIsSound
  <1> QED BY <1>1, ServiceIsInvariant, PTL

\* engine.py:40-58, loop.py:52-166: a signal's model and scaler were fitted
\* together, a cache is older than its files only after a rewrite, the one
\* loop that runs is the one stop can reach, and it sends the rows in order
\* and none again that was answered for.
THEOREM LoopsHold == Spec => []SignalsAreSound
  <1>1. ServiceInv => SignalsAreSound
    <2> SUFFICES ASSUME ServiceInv PROVE SignalsAreSound  OBVIOUS
    <2> USE DEF ServiceInv, LoopInv
    <2>1. DOMAIN tasks = 1..Len(tasks)  BY DEF LoopTypes
    <2>2. SignalsUseOnePair
      <3> SUFFICES ASSUME NEW t \in DOMAIN tasks, tasks[t].at = "publish",
                          tasks[t].signal # NoSignal
                   PROVE  \/ tasks[t].signal.pair.model = tasks[t].signal.pair.scaler
                          \/ tasks[t].signal.slot \in mixed
        BY DEF SignalsUseOnePair
      <3>1. SoundTask(t, tasks[t])  BY <2>1
      <3> QED BY <3>1 DEF SoundTask
    <2>3. CacheIsStaleOnlyAfterARewrite
      BY DEF CacheInv, CacheIsStaleOnlyAfterARewrite
    <2>4. LoopsAreNamed  BY <2>1 DEF SoundTask, LoopsAreNamed
    <2> QED BY <2>2, <2>3, <2>4 DEF SignalsAreSound
  <1> QED BY <1>1, ServiceIsInvariant, PTL
=============================================================================
