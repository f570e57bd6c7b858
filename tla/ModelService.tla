------------------------------ MODULE ModelService ------------------------------
(***************************************************************************)
(* The model service for one market and one regime: training and its        *)
(* artifacts (training/trainer.py), the registry with models.json and its   *)
(* reload on SIGHUP (registry/registry.py), the engine with its cache       *)
(* (inference/engine.py), the inference loop (inference/loop.py) and the    *)
(* handlers that drive them (main.py).                                      *)
(*                                                                         *)
(* A slot is a cluster of the regime.  What is fitted is the number of the  *)
(* training that fitted it; such a number stands for the model, the scaler, *)
(* the id and the feature names.  Which clusters a training finds, what the *)
(* pipeline of module Features leaves of them, is any set.  A handler does  *)
(* not await, so a call runs between two steps of the loops; a signal is    *)
(* handled between any two steps of a call.  QuestDB and Redis are          *)
(* external: the newest row, and a stream entry that may be accepted        *)
(* although the call fails.                                                 *)
(***************************************************************************)
EXTENDS Integers, Sequences, FiniteSets, SequencesExt

CONSTANTS
  Clusters,      (* the slots                                             *)
  MaxTrainings,  (* bound: calls of /train                                *)
  MaxRows,       (* bound: rows of snapshot_1s                            *)
  MaxTasks,      (* bound: loops started                                  *)
  MaxFaults      (* bound: restarts, SIGHUPs, and fits, writes and Redis  *)
                 (* calls that fail                                       *)

ASSUME ModelServiceAssumption ==
  /\ IsFiniteSet(Clusters)
  /\ {MaxTrainings, MaxRows, MaxTasks, MaxFaults} \subseteq Nat

VARIABLES
  dir,           \* artifact directory of each slot
  disk,          \* models.json
  entries,       \* _entries
  cache,         \* _MODEL_CACHE, by slot
  call,          \* the call of /train or DELETE /registry under way
  trained,       \* trainings begun
  latest,        \* newest row of snapshot_1s, 0 for none
  tasks,         \* the loops' tasks, in the order they were started
  running,       \* the task in _running_tasks, 0 for none
  stream,        \* the signals stream
  torn,          \* history: slots whose files a training replaced, but not the entry
  mixed,         \* history: slots whose files were left half replaced
  rewritten,     \* history: slots whose files changed since the cache was emptied
  broken,        \* history: an update of the registry was cut by a signal or a failed save
  faults

registry == <<disk, entries>>
loops == <<tasks, running, stream>>
history == <<torn, mixed, rewritten, broken>>
vars == <<dir, registry, cache, call, trained, latest, loops, history, faults>>
------------------------------------------------------------------------------
NoDir == [model |-> -1, scaler |-> -1]      \* no directory; 0 is a file that does not load
Loads(pair) == pair.model > 0 /\ pair.scaler > 0
NoSignal == [ver |-> 0, slot |-> 0, pair |-> NoDir]

\* at: "idle", of a training "fit" and "write" (todo and done are the slots to
\* fit and fitted, wrote counts the opens and closes of a slot's two files) and
\* for each fitted slot "drop", of both calls "append", "save" and "rename",
\* and of a deletion "tree".
Idle == [at |-> "idle", todo |-> {}, done |-> {}, slot |-> 0, wrote |-> 0, list |-> {}, deletes |-> FALSE]

Init ==
  /\ dir = [s \in Clusters |-> NoDir] /\ disk = {} /\ entries = {}
  /\ cache = [s \in Clusters |-> NoDir] /\ call = Idle /\ trained = 0
  /\ latest = 0 /\ tasks = <<>> /\ running = 0 /\ stream = <<>>
  /\ torn = {} /\ mixed = {} /\ rewritten = {} /\ broken = FALSE /\ faults = 0

NewTask == [at |-> "poll", row |-> 0, last |-> 0, signal |-> NoSignal]
Ended == [NewTask EXCEPT !.at = "ended"]

Fault == faults < MaxFaults /\ faults' = faults + 1
------------------------------------------------------------------------------
(* /train: run_training, then the upserts.                                  *)

\* A call that finds no data or no target answers with an error and does
\* nothing.
Train ==
  /\ call = Idle /\ trained < MaxTrainings
  /\ trained' = trained + 1
  /\ \E slots \in SUBSET Clusters \ {{}} : call' = [Idle EXCEPT !.at = "fit", !.todo = slots]
  /\ UNCHANGED <<dir, registry, cache, latest, loops, history, faults>>

\* The files of a slot after each open and close, scaler being the old one.
Written(k, scaler) ==
  CASE k = 1 -> [model |-> 0, scaler |-> scaler]
    [] k = 2 -> [model |-> trained, scaler |-> scaler]
    [] k = 3 -> [model |-> trained, scaler |-> 0]
    [] k = 4 -> [model |-> trained, scaler |-> trained]

\* A slot is fitted and its files are written, one after the other.
WriteFiles(s) ==
  LET k == call.wrote + 1
  IN /\ \/ call.at = "fit" /\ s \in call.todo
        \/ call.at = "write" /\ s = call.slot
     /\ dir' = [dir EXCEPT ![s] = Written(k, IF @ = NoDir THEN 0 ELSE @.scaler)]
     /\ call' = IF k < 4 THEN [call EXCEPT !.at = "write", !.slot = s, !.wrote = k]
                ELSE [call EXCEPT !.at = IF call.todo = {s} THEN "drop" ELSE "fit", !.wrote = 0,
                                  !.todo = @ \ {s}, !.done = @ \union {s}]
     /\ rewritten' = rewritten \union {s}
     /\ UNCHANGED <<registry, cache, trained, latest, loops, torn, mixed, broken, faults>>

\* What a training that ends now leaves behind: files without their entry.
Torn == call.done \union IF call.at = "write" THEN {call.slot} ELSE {}
Leave == /\ torn' = torn \union Torn
         /\ mixed' = mixed \union IF call.at = "write" THEN {call.slot} ELSE {}
         /\ call' = Idle

\* A fit or a write raises: 500, and no entry is upserted.
TrainFails ==
  /\ call.at \in {"fit", "write"} /\ Fault
  /\ Leave
  /\ UNCHANGED <<dir, registry, cache, trained, latest, loops, rewritten, broken>>

\* A faulty upsert that keeps the entry the slot has.
KeepOld(s) ==
  /\ call.at = "drop" /\ s \in call.done
  /\ call' = [call EXCEPT !.at = "append", !.slot = s]
  /\ UNCHANGED <<dir, entries, disk, cache, trained, latest, loops, history, faults>>

\* upsert: the slot's entry is dropped from the list ...
UpsertDrop(s) ==
  /\ call.at = "drop" /\ s \in call.done
  /\ entries' = {e \in entries : e.slot # s}
  /\ call' = [call EXCEPT !.at = "append", !.slot = s]
  /\ UNCHANGED <<dir, disk, cache, trained, latest, loops, history, faults>>

\* ... and the new one appended to whatever list there is now.
UpsertAppend ==
  /\ call.at = "append"
  /\ entries' = entries \union {[slot |-> call.slot, ver |-> trained]}
  /\ call' = [call EXCEPT !.at = "save"]
  /\ UNCHANGED <<dir, disk, cache, trained, latest, loops, history, faults>>

\* _save is called with the list.
Save ==
  /\ call.at = "save"
  /\ call' = [call EXCEPT !.at = "rename", !.list = entries]
  /\ UNCHANGED <<dir, registry, cache, trained, latest, loops, history, faults>>

\* A faulty run of upserts that ends after the first.
FirstOnly ==
  /\ call.at = "rename"
  /\ disk' = call.list
  /\ call' = IF call.deletes THEN [call EXCEPT !.at = "tree"] ELSE Idle
  /\ UNCHANGED <<dir, entries, cache, trained, latest, loops, history, faults>>

\* The list is written next to models.json and renamed.
Rename ==
  /\ call.at = "rename"
  /\ disk' = call.list
  /\ LET rest == call.done \ {call.slot}
     IN call' = CASE call.deletes -> [call EXCEPT !.at = "tree"]
                  [] ~call.deletes /\ rest # {} -> [Idle EXCEPT !.at = "drop", !.done = rest]
                  [] OTHER -> Idle
  /\ torn' = IF call.deletes THEN torn ELSE torn \ {call.slot}
  /\ UNCHANGED <<dir, entries, cache, trained, latest, loops, mixed, rewritten, broken, faults>>

\* The write raises: 500; the list in memory stays as it is.
SaveFails ==
  /\ call.at = "rename" /\ Fault
  /\ broken' = TRUE
  /\ Leave
  /\ UNCHANGED <<dir, registry, cache, trained, latest, loops, rewritten>>

\* A faulty delete that removes the directory before it saves the list.
TreeFirst(e) ==
  /\ call = Idle /\ e \in entries
  /\ entries' = entries \ {e}
  /\ dir' = [dir EXCEPT ![e.slot] = NoDir]
  /\ call' = [Idle EXCEPT !.at = "save", !.slot = e.slot, !.deletes = TRUE]
  /\ rewritten' = rewritten \union {e.slot}
  /\ UNCHANGED <<disk, cache, trained, latest, loops, torn, mixed, broken, faults>>

\* A faulty delete that leaves models.json alone.
DeleteUnsaved(e) ==
  /\ call = Idle /\ e \in entries
  /\ entries' = entries \ {e}
  /\ call' = [Idle EXCEPT !.at = "tree", !.slot = e.slot, !.deletes = TRUE]
  /\ UNCHANGED <<dir, disk, cache, trained, latest, loops, history, faults>>

\* DELETE /registry: the entry goes, the list is saved, and then the directory
\* goes.  An unknown id is a 404.
Delete(e) ==
  /\ call = Idle /\ e \in entries
  /\ entries' = entries \ {e}
  /\ call' = [Idle EXCEPT !.at = "save", !.slot = e.slot, !.deletes = TRUE]
  /\ UNCHANGED <<dir, disk, cache, trained, latest, loops, history, faults>>

RemoveTree ==
  /\ call.at = "tree"
  /\ dir' = [dir EXCEPT ![call.slot] = NoDir]
  /\ rewritten' = rewritten \union {call.slot}
  /\ call' = Idle
  /\ UNCHANGED <<registry, cache, trained, latest, loops, torn, mixed, broken, faults>>
------------------------------------------------------------------------------
(* The process.                                                             *)

\* A faulty handler that does not empty the engine's cache.
ReloadKeepingCache ==
  /\ entries' = disk
  /\ UNCHANGED cache

\* What _reload_handler does, and the start of the process.
Reload ==
  /\ entries' = disk
  /\ cache' = [s \in Clusters |-> NoDir]

\* SIGHUP, handled in the main thread wherever it is; its lock is re-entrant.
Hangup ==
  /\ Fault
  /\ Reload
  /\ rewritten' = {}
  /\ broken' = (broken \/ call.at \in {"append", "save", "rename"})
  /\ UNCHANGED <<dir, disk, call, trained, latest, loops, torn, mixed>>

\* The process dies and comes back: no loop is started again.
Restart ==
  /\ Fault
  /\ Reload
  /\ rewritten' = {}
  /\ Leave
  /\ tasks' = [t \in DOMAIN tasks |-> Ended] /\ running' = 0
  /\ UNCHANGED <<dir, disk, trained, latest, stream, broken>>
------------------------------------------------------------------------------
(* The loops.                                                               *)

NewRow ==
  /\ latest < MaxRows /\ latest' = latest + 1
  /\ UNCHANGED <<dir, registry, cache, call, trained, loops, history, faults>>

\* A faulty start that does not look for a running loop.
StartAgain ==
  /\ call = Idle /\ Len(tasks) < MaxTasks
  /\ tasks' = Append(tasks, NewTask)
  /\ running' = Len(tasks) + 1
  /\ UNCHANGED <<dir, registry, cache, call, trained, latest, stream, history, faults>>

\* start: a market whose loop runs is skipped.
Start ==
  /\ call = Idle /\ Len(tasks) < MaxTasks
  /\ running = 0
  /\ tasks' = Append(tasks, NewTask)
  /\ running' = Len(tasks) + 1
  /\ UNCHANGED <<dir, registry, cache, call, trained, latest, stream, history, faults>>

\* stop: the task leaves _running_tasks and is cancelled wherever it awaits.  A
\* signal whose xadd is under way counts as added before this step or never.
Stop ==
  /\ call = Idle /\ running # 0
  /\ tasks' = [tasks EXCEPT ![running] = Ended]
  /\ running' = 0
  /\ UNCHANGED <<dir, registry, cache, call, trained, latest, stream, history, faults>>

\* A faulty loop that notes the row when it reads it.
FetchAndNote(t) ==
  /\ call = Idle /\ tasks[t].at = "poll"
  /\ latest \notin {0, tasks[t].last}
  /\ tasks' = [tasks EXCEPT ![t].at = "predict", ![t].row = latest, ![t].last = latest]
  /\ UNCHANGED <<dir, registry, cache, call, trained, latest, running, stream, history, faults>>

\* _fetch_latest_row returns a row that was not published yet; one that was, an
\* error or no row lead to the next poll.
Fetch(t) ==
  /\ call = Idle /\ tasks[t].at = "poll"
  /\ latest \notin {0, tasks[t].last}
  /\ tasks' = [tasks EXCEPT ![t].at = "predict", ![t].row = latest]
  /\ UNCHANGED <<dir, registry, cache, call, trained, latest, running, stream, history, faults>>

\* A faulty _load_artifacts that caches the model alone.
LoadModelCached(s) ==
  IF Loads(cache[s]) THEN [model |-> cache[s].model, scaler |-> dir[s].scaler] ELSE dir[s]

\* _load_artifacts: the cached pair, or else the files.
LoadArtifacts(s) == IF Loads(cache[s]) THEN cache[s] ELSE dir[s]

\* predict returns: FLAT behind the gates, without an entry or without
\* artifacts; else a signal of the best entry, any of them.  The old scaler of
\* another training may not fit the entry's features: the loop's iteration ends.
Predict(t) ==
  /\ call = Idle /\ tasks[t].at = "predict"
  /\ \/ /\ tasks' = [tasks EXCEPT ![t].at = "publish", ![t].signal = NoSignal]
        /\ UNCHANGED cache
     \/ \E e \in entries :
          LET pair == LoadArtifacts(e.slot)
          IN IF ~Loads(pair)
             THEN /\ tasks' = [tasks EXCEPT ![t].at = "publish", ![t].signal = NoSignal]
                  /\ UNCHANGED cache
             ELSE /\ cache' = [cache EXCEPT ![e.slot] = pair]
                  /\ \/ tasks' = [tasks EXCEPT ![t].at = "publish",
                                    ![t].signal = [ver |-> e.ver, slot |-> e.slot, pair |-> pair]]
                     \/ pair.scaler # e.ver /\ tasks' = [tasks EXCEPT ![t] = [NewTask EXCEPT !.last = tasks[t].last]]
  /\ UNCHANGED <<dir, registry, call, trained, latest, running, stream, history, faults>>

Added(t, answered) == Append(stream, [task |-> t, row |-> tasks[t].row, answered |-> answered])

\* A faulty loop that does not note the row it published.
PublishUnnoted(t) ==
  /\ call = Idle /\ tasks[t].at = "publish"
  /\ stream' = Added(t, TRUE)
  /\ tasks' = [tasks EXCEPT ![t] = [NewTask EXCEPT !.last = tasks[t].last]]
  /\ UNCHANGED <<dir, registry, cache, call, trained, latest, running, history, faults>>

\* xadd returns, and the row is noted.
Publish(t) ==
  /\ call = Idle /\ tasks[t].at = "publish"
  /\ stream' = Added(t, TRUE)
  /\ tasks' = [tasks EXCEPT ![t] = [NewTask EXCEPT !.last = tasks[t].row]]
  /\ UNCHANGED <<dir, registry, cache, call, trained, latest, running, history, faults>>

\* xadd raises: the entry may have been added, and the row is tried again.
PublishFails(t) ==
  /\ call = Idle /\ tasks[t].at = "publish" /\ Fault
  /\ stream' \in {stream, Added(t, FALSE)}
  /\ tasks' = [tasks EXCEPT ![t] = [NewTask EXCEPT !.last = tasks[t].last]]
  /\ UNCHANGED <<dir, registry, cache, call, trained, latest, running, history>>
------------------------------------------------------------------------------
CallStep ==
  \/ \E s \in Clusters : WriteFiles(s) \/ UpsertDrop(s)
  \/ UpsertAppend \/ Save \/ Rename \/ RemoveTree

LoopStep(t) == t \in DOMAIN tasks /\ (Fetch(t) \/ Predict(t) \/ Publish(t))

Next ==
  \/ CallStep \/ TrainFails \/ SaveFails
  \/ Train \/ \E e \in entries : Delete(e)
  \/ Hangup \/ Restart
  \/ NewRow \/ Start \/ Stop
  \/ \E t \in 1..MaxTasks : LoopStep(t)
  \/ \E t \in DOMAIN tasks : PublishFails(t)

Spec == Init /\ [][Next]_vars

\* A call runs to its end, and the event loop runs its tasks, whose requests
\* have a timeout.
FairSpec ==
  /\ Spec
  /\ WF_vars(CallStep)
  /\ \A t \in 1..MaxTasks : WF_vars(LoopStep(t))
------------------------------------------------------------------------------
Vers == 1..MaxTrainings
Pairs == [model : -1..MaxTrainings, scaler : -1..MaxTrainings]

(* Registry, artifacts, cache, call, tasks and stream stay what they are.   *)
TypeOK ==
  /\ {dir, cache} \subseteq [Clusters -> Pairs]
  /\ \A list \in {disk, entries, call.list} : list \subseteq [slot : Clusters, ver : Vers]
  /\ call.at \in {"idle", "fit", "write", "drop", "append", "save", "rename", "tree"}
  /\ UNION {call.todo, call.done, torn, mixed, rewritten} \subseteq Clusters
  /\ \A t \in DOMAIN tasks :
       /\ tasks[t].at \in {"poll", "predict", "publish", "ended"}
       /\ tasks[t].row \in {0, latest} \union (tasks[t].last + 1)..latest /\ tasks[t].last <= latest
  /\ running \in {0} \union DOMAIN tasks

(* registry.py:106-118 and 151-156: between calls, and so after a restart,   *)
(* models.json and the list in memory are the same, unless a signal or a     *)
(* failed write cut an update.                                               *)
RegistryIsDurable == call = Idle /\ ~broken => disk = entries

(* registry.py:86-89: a slot has one entry, in memory and on disk, unless an *)
(* update was cut.                                                           *)
SlotsAreSingle ==
  ~broken => \A list \in {disk, entries} : \A e, f \in list : e.slot = f.slot => e = f

(* registry.py:155-160: whenever the process dies, models.json names no      *)
(* directory that was removed, unless an update was cut.                     *)
NamedDirsExist == ~broken => \A e \in disk : dir[e.slot] # NoDir

(* main.py:131-144, trainer.py:313-346: between calls an entry describes the *)
(* files in its directory, unless a training replaced them and ended before  *)
(* its upsert, or an update was cut.                                         *)
EntriesDescribeFiles ==
  call = Idle /\ ~broken =>
    \A e \in disk : e.slot \notin torn => dir[e.slot] = [model |-> e.ver, scaler |-> e.ver]

(* registry.py:74-162: types apart, list, models.json and directories agree  *)
(* at every step and after every restart, but for what was cut.              *)
RegistryIsSound ==
  TypeOK /\ RegistryIsDurable /\ SlotsAreSingle /\ NamedDirsExist /\ EntriesDescribeFiles

(* engine.py:40-53: a signal's model and scaler were fitted together, unless *)
(* a training ended between the two files of the slot.                       *)
SignalsUseOnePair ==
  \A t \in DOMAIN tasks :
    LET s == tasks[t].signal
    IN tasks[t].at = "publish" /\ s # NoSignal => s.pair.model = s.pair.scaler \/ s.slot \in mixed

(* registry.py:59-71: what is cached is what the directory holds, unless a   *)
(* call rewrote or removed it after the last reload.                         *)
CacheIsStaleOnlyAfterARewrite ==
  \A s \in Clusters \ rewritten : cache[s] \in {NoDir, dir[s]}

(* loop.py:133-166: the only task that polls and publishes is the one        *)
(* _running_tasks names, which stop can reach.                               *)
LoopsAreNamed == \A t \in DOMAIN tasks : tasks[t].at # "ended" => t = running

(* loop.py:72 and 99: a task publishes rows in their order, and a row again  *)
(* only after an xadd that failed although it was accepted.                  *)
RowsAreInOrder ==
  \A i, j \in DOMAIN stream : i < j /\ stream[i].task = stream[j].task =>
    \/ stream[i].row < stream[j].row
    \/ stream[i].row = stream[j].row /\ ~stream[i].answered

(* engine.py:40-58, loop.py:52-166: what reaches the stream was predicted    *)
(* with artifacts that belong together, is in order and not repeated, and    *)
(* comes from the loop that can be stopped.                                  *)
SignalsAreSound ==
  SignalsUseOnePair /\ CacheIsStaleOnlyAfterARewrite /\ LoopsAreNamed /\ RowsAreInOrder

\* An entry whose slot loads a scaler of another training.
Unfit == \E e \in entries : LET pair == LoadArtifacts(e.slot) IN Loads(pair) /\ pair.scaler # e.ver

(* loop.py:68-127: whatever fails on the way, a running loop publishes the   *)
(* newest row, unless a newer one comes, the loop is stopped, or an entry's  *)
(* cached artifacts are another training's.                                  *)
NewestIsPublished ==
  \A r \in 1..MaxRows :
    (running # 0 /\ latest = r) ~>
      \/ running = 0 \/ latest # r \/ Unfit
      \/ \E i \in DOMAIN stream : stream[i].task = running /\ stream[i].row = r
==============================================================================
