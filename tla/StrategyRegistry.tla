--------------------------- MODULE StrategyRegistry ---------------------------
(***************************************************************************)
(* The strategies of one bot-service process (strategy/registry.py,        *)
(* strategy/base.py, main.py): the FileWatcher's two tasks, the watcher    *)
(* that follows the strategies directory and the watchdog that restarts    *)
(* crashed threads; the threads themselves; and stop_all, which an HTTP    *)
(* request or the circuit breaker calls from another thread.               *)
(*                                                                         *)
(* The two tasks share one asyncio loop, and the watcher keeps it from its *)
(* scan to the reconciliation of a load: the watchdog gets on only while   *)
(* the watcher sleeps or awaits one.  stop_all runs in a thread of its own *)
(* and comes between any two steps of theirs.  A version of a file stands  *)
(* for its code and its mtime.                                             *)
(***************************************************************************)
EXTENDS Naturals, Sequences, FiniteSets

CONSTANTS
  Names,          (* class names, one per file                                *)
  MaxEdits,       (* bound: changes of files                                  *)
  MaxCrashes,     (* bound: threads that end by themselves                    *)
  MaxStopAlls,    (* bound: calls of stop_all                                 *)
  MaxFailures     (* bound: loads that fail                                   *)

\* A task that awaits the load of a file is at the file's name.
ASSUME NamesAreNoPlaces == IsFiniteSet(Names) /\ Names \intersect {"sleep", "work", "dead"} = {}

ASSUME BoundsAreNumbers ==
  {MaxEdits, MaxCrashes, MaxStopAlls, MaxFailures} \subseteq Nat

VARIABLES
  up,             \* the process runs
  files,          \* version of each file; 0 when there is none
  insts,          \* every strategy thread the process has started
  loaded,         \* _loaded: instance (0 if none) and remembered mtime
  pending,        \* _pending_restart
  watcher,        \* the task of run_loop
  watchdog,       \* the task of watch_loop
  stopper,        \* a running call of stop_all
  edits, crashes, stopAlls, failures    \* what the bounds count

tables == <<insts, loaded>>
counts == <<edits, crashes, stopAlls, failures>>
vars == <<up, files, tables, pending, watcher, watchdog, stopper, counts>>

Versions == 0..(MaxEdits + 1)
------------------------------------------------------------------------------
InstIds == DOMAIN insts

\* A strategy thread: alive, told to stop, watched by its heartbeat thread.
Thread(n, v) == [name |-> n, version |-> v, alive |-> TRUE, stop |-> FALSE, heartbeat |-> TRUE]

NotLoaded == [inst |-> 0, mtime |-> 0]

LoadedNames(ld) == {n \in Names : ld[n].inst # 0}

Present == {n \in Names : files[n] # 0}

Sleeping == [pc |-> "sleep"]

Running(n) == \E i \in InstIds : insts[i].name = n /\ insts[i].alive /\ ~insts[i].stop

\* _stop_thread: the event is set and the thread joined.
Stopped(is, ids) == [i \in DOMAIN is |->
                       IF i \in ids THEN [is[i] EXCEPT !.stop = TRUE, !.alive = FALSE] ELSE is[i]]

InstsOf(names) == {loaded[n].inst : n \in names} \ {0}

\* A faulty end of _load_new that gives up when the file has no mtime.
StartUnlessGone(n, v) ==
  /\ insts' = Append(insts, Thread(n, v))
  /\ loaded' = IF files[n] = 0 THEN loaded
               ELSE [loaded EXCEPT ![n] = [inst |-> Len(insts) + 1, mtime |-> files[n]]]
  /\ UNCHANGED failures

\* The end of _load_new: a thread for the class that was imported, entered
\* with the mtime the file has by now.
Start(n, v) ==
  /\ insts' = Append(insts, Thread(n, v))
  /\ loaded' = [loaded EXCEPT ![n] = [inst |-> Len(insts) + 1, mtime |-> files[n]]]
  /\ UNCHANGED failures

LoadFails ==
  /\ failures < MaxFailures
  /\ failures' = failures + 1
  /\ UNCHANGED tables

\* The initial scan, before the tasks start: fs has the files that could be
\* loaded.
InitialThreads(fs) ==
  CHOOSE s \in [1..Cardinality({n \in Names : fs[n] # 0}) -> {Thread(n, fs[n]) : n \in Names}] :
    \A n \in Names : fs[n] # 0 => \E i \in DOMAIN s : s[i] = Thread(n, fs[n])

InitialScan(fs, is, ld) ==
  /\ is = InitialThreads(fs)
  /\ ld = [n \in Names |->
             IF fs[n] = 0 THEN NotLoaded
             ELSE [inst |-> CHOOSE i \in DOMAIN is : is[i].name = n, mtime |-> fs[n]]]

Loadable == {fs \in [Names -> Versions] : \A n \in Names : fs[n] \in {0, files[n]}}

Init ==
  /\ up = TRUE
  /\ files \in [Names -> 0..1]
  /\ \E fs \in Loadable : InitialScan(fs, insts, loaded)
  /\ pending = {} /\ watcher = Sleeping /\ watchdog = Sleeping /\ stopper = Sleeping
  /\ edits = 0 /\ crashes = 0 /\ stopAlls = 0 /\ failures = 0
------------------------------------------------------------------------------
\* Somebody writes or removes a strategy file.
Edit(n) ==
  /\ edits < MaxEdits
  /\ edits' = edits + 1
  /\ \E v \in {0, edits + 2} : v # files[n] /\ files' = [files EXCEPT ![n] = v]
  /\ UNCHANGED <<up, tables, pending, watcher, watchdog, stopper, crashes, stopAlls, failures>>
------------------------------------------------------------------------------
(* The watcher.                                                             *)

\* A faulty scan that does not ask what the watchdog is restarting.
RescanUnheeding ==
  /\ up /\ watcher.pc = "sleep"
  /\ LET known == LoadedNames(loaded)
         gone == known \ Present
     IN /\ insts' = Stopped(insts, InstsOf(gone))
        /\ loaded' = [n \in Names |-> IF n \in gone THEN NotLoaded ELSE loaded[n]]
        /\ watcher' = [pc |-> "work", seen |-> files,
                       toLoad |-> Present \ known,
                       toCheck |-> Present \intersect known]
  /\ UNCHANGED <<up, files, pending, watchdog, stopper, counts>>

\* A faulty scan that compares the mtimes of new files, too.
RescanComparesAll ==
  /\ up /\ watcher.pc = "sleep"
  /\ LET known == LoadedNames(loaded)
         gone == known \ Present
     IN /\ insts' = Stopped(insts, InstsOf(gone))
        /\ loaded' = [n \in Names |-> IF n \in gone THEN NotLoaded ELSE loaded[n]]
        /\ watcher' = [pc |-> "work", seen |-> files,
                       toLoad |-> (Present \ known) \ pending,
                       toCheck |-> Present]
  /\ UNCHANGED <<up, files, pending, watchdog, stopper, counts>>

\* _rescan: what the directory holds and what is loaded; strategies without
\* a file are unloaded at once.
Rescan ==
  /\ up /\ watcher.pc = "sleep"
  /\ LET known == LoadedNames(loaded)
         gone == known \ Present
     IN /\ insts' = Stopped(insts, InstsOf(gone))
        /\ loaded' = [n \in Names |-> IF n \in gone THEN NotLoaded ELSE loaded[n]]
        /\ watcher' = [pc |-> "work", seen |-> files,
                       toLoad |-> (Present \ known) \ pending,
                       toCheck |-> Present \intersect known]
  /\ UNCHANGED <<up, files, pending, watchdog, stopper, counts>>

\* _load_new of a new file, up to its await of the reconciliation.
RescanLoad(n) ==
  /\ up /\ watcher.pc = "work" /\ n \in watcher.toLoad
  /\ watcher' = [watcher EXCEPT !.pc = n, !.toLoad = @ \ {n}]
  /\ UNCHANGED <<up, files, tables, pending, watchdog, stopper, counts>>

\* The third loop of _rescan: a loaded file whose mtime has changed is
\* reloaded; a name that is loaded no more raises KeyError and ends the task.
RescanCheck(n) ==
  /\ up /\ watcher.pc = "work" /\ watcher.toLoad = {} /\ n \in watcher.toCheck
  /\ \/ /\ loaded[n].inst = 0
        /\ watcher' = [pc |-> "dead"]
        /\ UNCHANGED tables
     \/ /\ loaded[n].inst # 0
        /\ files[n] \in {0, loaded[n].mtime}
        /\ watcher' = [watcher EXCEPT !.toCheck = @ \ {n}]
        /\ UNCHANGED tables
     \/ /\ loaded[n].inst # 0
        /\ files[n] \notin {0, loaded[n].mtime}
        /\ watcher' = [watcher EXCEPT !.pc = n, !.toCheck = @ \ {n}]
        /\ insts' = Stopped(insts, {loaded[n].inst})
        /\ loaded' = [loaded EXCEPT ![n] = NotLoaded]
  /\ UNCHANGED <<up, files, pending, watchdog, stopper, counts>>

\* The reconciliation is done: the thread starts, or the load has failed.
\* The class is the one that the scan imported.
RescanLoaded(n) ==
  /\ up /\ watcher.pc = n
  /\ Start(n, watcher.seen[n]) \/ LoadFails
  /\ watcher' = [watcher EXCEPT !.pc = "work"]
  /\ UNCHANGED <<up, files, pending, watchdog, stopper, edits, crashes, stopAlls>>

RescanDone ==
  /\ up /\ watcher.pc = "work" /\ watcher.toLoad = {} /\ watcher.toCheck = {}
  /\ watcher' = Sleeping
  /\ UNCHANGED <<up, files, tables, pending, watchdog, stopper, counts>>
------------------------------------------------------------------------------
(* The watchdog.                                                            *)

\* The watcher sleeps, awaits a reconciliation or has ended.
LoopIsFree == watcher.pc # "work"

\* _handle_crash takes the next name of the list that is still loaded, and
\* forgets its thread, up to the backoff sleep.
TakeNext(crashed, ld) ==
  LET rest == crashed \intersect LoadedNames(ld)
  IN IF rest = {}
     THEN watchdog' = Sleeping /\ loaded' = ld /\ pending' = pending \ {watchdog.name}
     ELSE \E n \in rest :
            /\ watchdog' = [pc |-> "backoff", name |-> n, version |-> 0, crashed |-> rest \ {n}]
            /\ loaded' = [ld EXCEPT ![n] = NotLoaded]
            /\ pending' = (pending \ {watchdog.name}) \union {n}

Crashed == {n \in LoadedNames(loaded) : /\ ~insts[loaded[n].inst].alive
                                        /\ ~insts[loaded[n].inst].stop}

Watch ==
  /\ up /\ LoopIsFree /\ watchdog.pc = "sleep"
  /\ Crashed # {}
  /\ \E n \in Crashed :
       /\ watchdog' = [pc |-> "backoff", name |-> n, version |-> 0, crashed |-> Crashed \ {n}]
       /\ loaded' = [loaded EXCEPT ![n] = NotLoaded]
       /\ pending' = pending \union {n}
  /\ UNCHANGED <<up, files, insts, watcher, stopper, counts>>

\* A faulty handler that leaves a name pending when its file is gone.
BackoffOverKeepsPending ==
  /\ up /\ LoopIsFree /\ watchdog.pc = "backoff"
  /\ IF files[watchdog.name] = 0
     THEN watchdog' = Sleeping /\ UNCHANGED <<loaded, pending>>
     ELSE /\ watchdog' = [watchdog EXCEPT !.pc = "load", !.version = files[watchdog.name]]
          /\ UNCHANGED <<loaded, pending>>
  /\ UNCHANGED <<up, files, insts, watcher, stopper, counts>>

\* After the backoff the file is imported again; a file that is gone ends
\* the handling.
BackoffOver ==
  /\ up /\ LoopIsFree /\ watchdog.pc = "backoff"
  /\ IF files[watchdog.name] = 0
     THEN TakeNext(watchdog.crashed, loaded)
     ELSE /\ watchdog' = [watchdog EXCEPT !.pc = "load", !.version = files[watchdog.name]]
          /\ UNCHANGED <<loaded, pending>>
  /\ UNCHANGED <<up, files, insts, watcher, stopper, counts>>

\* A faulty handler that clears the pending name only after a load succeeded.
ReloadedUnlessFailed ==
  /\ up /\ LoopIsFree /\ watchdog.pc = "load"
  /\ \/ /\ insts' = Append(insts, Thread(watchdog.name, watchdog.version))
        /\ TakeNext(watchdog.crashed,
                    [loaded EXCEPT ![watchdog.name] =
                       [inst |-> Len(insts) + 1, mtime |-> files[watchdog.name]]])
        /\ UNCHANGED failures
     \/ /\ failures < MaxFailures /\ failures' = failures + 1
        /\ watchdog' = Sleeping
        /\ UNCHANGED <<insts, loaded, pending>>
  /\ UNCHANGED <<up, files, watcher, stopper, edits, crashes, stopAlls>>

\* _load_new of the watchdog ends, and the next crash is taken.
Reloaded ==
  /\ up /\ LoopIsFree /\ watchdog.pc = "load"
  /\ \/ /\ insts' = Append(insts, Thread(watchdog.name, watchdog.version))
        /\ TakeNext(watchdog.crashed,
                    [loaded EXCEPT ![watchdog.name] =
                       [inst |-> Len(insts) + 1, mtime |-> files[watchdog.name]]])
        /\ UNCHANGED failures
     \/ /\ failures < MaxFailures /\ failures' = failures + 1
        /\ TakeNext(watchdog.crashed, loaded)
        /\ UNCHANGED insts
  /\ UNCHANGED <<up, files, watcher, stopper, edits, crashes, stopAlls>>
------------------------------------------------------------------------------
(* stop_all.                                                                *)

\* An HTTP request (by = 0) or the circuit breaker, in the thread of the
\* strategy whose fill tripped it, starts to stop what is loaded.
StopAll(by) ==
  /\ up /\ stopper.pc = "sleep" /\ stopAlls < MaxStopAlls
  /\ by # 0 => insts[by].alive /\ ~insts[by].stop
  /\ stopAlls' = stopAlls + 1
  /\ stopper' = [pc |-> "stop", by |-> by, left |-> LoadedNames(loaded)]
  /\ UNCHANGED <<up, files, tables, pending, watcher, watchdog, edits, crashes, failures>>

\* One strategy is stopped and joined.  A name that was popped meanwhile
\* raises KeyError, and a thread that joins itself RuntimeError: both end
\* the call, the second once the event is set.
StopNext(n) ==
  /\ up /\ stopper.pc = "stop" /\ n \in stopper.left
  /\ LET i == loaded[n].inst
     IN \/ /\ i = 0
           /\ stopper' = Sleeping /\ UNCHANGED tables
        \/ /\ i # 0 /\ i # stopper.by
           /\ insts' = Stopped(insts, {i})
           /\ loaded' = [loaded EXCEPT ![n] = NotLoaded]
           /\ stopper' = [stopper EXCEPT !.left = @ \ {n}]
        \/ /\ i # 0 /\ i = stopper.by
           /\ insts' = [insts EXCEPT ![i].stop = TRUE]
           /\ loaded' = [loaded EXCEPT ![n] = NotLoaded]
           /\ stopper' = Sleeping
  /\ UNCHANGED <<up, files, pending, watcher, watchdog, counts>>

StopAllDone ==
  /\ up /\ stopper.pc = "stop" /\ stopper.left = {}
  /\ stopper' = Sleeping
  /\ UNCHANGED <<up, files, tables, pending, watcher, watchdog, counts>>
------------------------------------------------------------------------------
(* Threads and the process.                                                 *)

\* A thread that was told to stop leaves its loop.
ThreadExits(i) ==
  /\ up /\ insts[i].alive /\ insts[i].stop
  /\ insts' = [insts EXCEPT ![i].alive = FALSE]
  /\ UNCHANGED <<up, files, loaded, pending, watcher, watchdog, stopper, counts>>

\* A thread ends by itself: an exception of the strategy, or subscribe()
\* failed before there was a heartbeat.
Crash(i) ==
  /\ up /\ crashes < MaxCrashes
  /\ insts[i].alive /\ ~insts[i].stop
  /\ crashes' = crashes + 1
  /\ \E h \in BOOLEAN : insts' = [insts EXCEPT ![i].alive = FALSE, ![i].heartbeat = h]
  /\ UNCHANGED <<up, files, loaded, pending, watcher, watchdog, stopper, edits, stopAlls,
                 failures>>

\* Nobody stops a heartbeat thread: when its strategy's loop acknowledges no
\* more, it sends SIGTERM to the process.
HeartbeatTimeout(i) ==
  /\ up /\ ~insts[i].alive /\ insts[i].heartbeat
  /\ up' = FALSE
  /\ UNCHANGED <<files, tables, pending, watcher, watchdog, stopper, counts>>

\* The container starts the process again.
Restart ==
  /\ ~up
  /\ up' = TRUE
  /\ \E fs \in Loadable : InitialScan(fs, insts', loaded')
  /\ pending' = {} /\ watcher' = Sleeping /\ watchdog' = Sleeping /\ stopper' = Sleeping
  /\ UNCHANGED <<files, counts>>
------------------------------------------------------------------------------
WatcherNext == Rescan \/ RescanDone
               \/ \E n \in Names : RescanLoad(n) \/ RescanCheck(n) \/ RescanLoaded(n)
WatchdogNext == Watch \/ BackoffOver \/ Reloaded
StopperNext == (\E by \in InstIds \union {0} : StopAll(by))
               \/ (\E n \in Names : StopNext(n)) \/ StopAllDone
ThreadNext == \E i \in InstIds : ThreadExits(i) \/ Crash(i) \/ HeartbeatTimeout(i)

Next == \/ \E n \in Names : Edit(n)
        \/ WatcherNext \/ WatchdogNext \/ StopperNext \/ ThreadNext \/ Restart

Spec == Init /\ [][Next]_vars

(* Both tasks are polled by timers and get on in the end; the loop serves   *)
(* what is ready in turn, so that the watchdog finds it free, which takes   *)
(* strong fairness.  A thread that was told to stop, a heartbeat that is    *)
(* not acknowledged and the container's restart policy get on, too.         *)
(* Nothing makes anyone edit, call stop_all or crash.                       *)
Fairness == /\ WF_vars(WatcherNext) /\ SF_vars(WatchdogNext)
            /\ WF_vars(\E i \in InstIds : ThreadExits(i) \/ HeartbeatTimeout(i))
            /\ WF_vars(Restart)

FairSpec == Spec /\ Fairness
------------------------------------------------------------------------------
(* Properties.                                                              *)

\* Types: the entries of _loaded name threads of their own class, and each
\* task is at one of its awaits with the names it has left.
TypeOK ==
  /\ up \in BOOLEAN /\ files \in [Names -> Versions]
  /\ \A i \in InstIds :
       insts[i] \in [name : Names, version : Versions, alive : BOOLEAN, stop : BOOLEAN,
                     heartbeat : BOOLEAN]
  /\ loaded \in [Names -> [inst : {0} \union InstIds, mtime : Versions]]
  /\ \A n \in LoadedNames(loaded) : insts[loaded[n].inst].name = n
  /\ pending \subseteq Names
  /\ watcher.pc \in {"sleep", "work", "dead"} \union Names
  /\ watcher.pc \notin {"sleep", "dead"} => watcher.toLoad \intersect watcher.toCheck = {}
  /\ watchdog.pc \in {"sleep", "backoff", "load"}
  /\ watchdog.pc # "sleep" => watchdog.name \notin watchdog.crashed
  /\ stopper.pc \in {"sleep", "stop"}

\* A thread that trades is taken out of _loaded only when it is told to
\* stop or the process ends, so that unload, the watchdog and stop_all reach
\* every one; threads are started by two tasks and forgotten by three
\* parties, with awaits in between.  The exception is a name of a crash list
\* that has grown old: the watchdog may start a second thread for it.
TradersAreKept ==
  [][\A n \in LoadedNames(loaded) :
       LET i == loaded[n].inst
       IN up /\ up' /\ insts[i].alive /\ ~insts[i].stop /\ loaded'[n].inst # i
            => insts'[i].stop \/ (watchdog.pc # "sleep" /\ n \in watchdog.crashed)]_vars

\* A name is kept from the watcher only while the watchdog handles it, so
\* that no failed restart hides a strategy for good; the types are checked
\* with it.
PendingIsHandled ==
  TypeOK /\ pending = IF watchdog.pc = "sleep" THEN {} ELSE {watchdog.name}

\* stop_all is never called, and the watcher's task has not ended: a scan that
\* checks a name popped during one of its awaits raises KeyError.
Undisturbed == stopAlls = 0 /\ watcher.pc # "dead"

\* MaxEdits bounds the changes of files, so the directory settles in the end.

\* A strategy whose file stays in the directory runs in the end, whatever
\* crashed, failed to load or was reloaded before.
PresentFileRuns == <>[]Undisturbed => <>[](\A n \in Present : Running(n))

\* A strategy whose file stays away is stopped for good, even if the file
\* went while it was being loaded or restarted.
RemovedFileStops == <>[]Undisturbed => <>[](\A n \in Names \ Present : ~Running(n))
=============================================================================
