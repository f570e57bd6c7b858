------------------------------- MODULE Backtests -------------------------------
(***************************************************************************)
(* Backtests from the page to the tables: the backtest page of the          *)
(* dashboard (dashboard/callbacks_backtest.py, backtest_data.py), the jobs  *)
(* of the bot service (bot_service/main.py) and the run in its thread       *)
(* (backtest/runner.py; what a run computes is module Replay).              *)
(*                                                                         *)
(* One strategy file, of which the module keeps a version, 0 for no file.   *)
(* A request carries the number of its click; the service would answer      *)
(* with a fresh uuid.  Dash is external: of two unanswered calls of one     *)
(* callback it applies the answer of the later.  QuestDB is external: a row *)
(* flushed to it becomes visible to queries some time later.  The source in *)
(* a snapshot is left out.                                                  *)
(***************************************************************************)
EXTENDS Replay

CONSTANTS
  Runs,          (* the clicks there can be, numbered from 1              *)
  MaxResults,    (* _BACKTEST_RESULTS_MAX                                  *)
  SampleEvery,   (* sample_every: bars between points of the curve         *)
  MaxVersions,   (* bound: versions of the file                            *)
  MaxFaults      (* bound: restarts of the service, calls and writes that  *)
                 (* fail, incomplete clicks                                *)

ASSUME BacktestsAssumption ==
  /\ Runs = 1..Cardinality(Runs)
  /\ {MaxResults, SampleEvery, MaxVersions} \subseteq Nat \ {0}
  /\ MaxFaults \in Nat

VARIABLES
  file,          \* version of the strategy file
  jobs,          \* what became of each click
  results,       \* _backtest_results
  snapshots,     \* hashes with a row of strategy_snapshots flushed
  runRows,       \* rows of backtest_runs flushed
  equityRows,    \* runs whose backtest_equity rows are flushed
  asked,         \* the click the page awaits the answer of, 0 for none
  store,         \* backtest-run-id-store, 0 for none
  polling,       \* backtest-poll-interval is enabled
  poll,          \* the on_poll under way
  shown,         \* the run whose equity curve is drawn, 0 for none
  replay,        \* history: what the run of the last step computed
  faults

tables == <<snapshots, runRows, equityRows>>
service == <<jobs, results, tables>>
page == <<asked, store, polling, poll, shown>>
backtestsVars == <<file, service, page, replay, faults>>
------------------------------------------------------------------------------
Alive == {"started", "replayed", "snapshot", "row", "equity", "report"}  \* in _backtest_tasks
Over == {"refused", "ended", "lost"}

NoPoll == [run |-> 0, answer |-> "none"]

NewJob == [at |-> "idle", hash |-> 0, curve |-> FALSE]

BacktestsInit ==
  /\ file = 1
  /\ jobs = [r \in Runs |-> NewJob] /\ results = <<>>
  /\ snapshots = {} /\ runRows = {} /\ equityRows = {}
  /\ asked = 0 /\ store = 0 /\ polling = FALSE /\ poll = NoPoll /\ shown = 0
  /\ replay = <<>> /\ faults = 0

Moves(r, from, to) == jobs[r].at = from /\ jobs' = [jobs EXCEPT ![r].at = to]
Entry(r) == {i \in DOMAIN results : results[i].run = r}
StatusOf(r) == IF Entry(r) = {} THEN "error" ELSE results[CHOOSE i \in Entry(r) : TRUE].status

\* A faulty _put_result that adds an entry for a run it has.
PutTwice(r, status) ==
  LET put == Append(results, [run |-> r, status |-> status])
  IN results' = IF Len(put) > MaxResults + 1 THEN Tail(put) ELSE put

\* _put_result: the entry of a known run keeps its place in the OrderedDict;
\* the oldest goes when there are too many.
Put(r, status) ==
  LET entry == [run |-> r, status |-> status]
      put == IF Entry(r) = {} THEN Append(results, entry)
             ELSE [i \in DOMAIN results |-> IF i \in Entry(r) THEN entry ELSE results[i]]
  IN results' = IF Len(put) > MaxResults THEN Tail(put) ELSE put

Fault == faults < MaxFaults /\ faults' = faults + 1
------------------------------------------------------------------------------
(* The file.                                                                *)

\* An edit, or the file moving away.
FileChanges ==
  /\ file # 0 /\ file' \in {0} \union (file + 1)..MaxVersions
  /\ UNCHANGED <<service, page, faults>>
------------------------------------------------------------------------------
(* The service.                                                             *)

\* backtest_run: the file is found and read, the run noted, the task begun.
Accept(r) ==
  /\ jobs[r].at = "posted" /\ file # 0
  /\ jobs' = [jobs EXCEPT ![r].at = "started"]
  /\ Put(r, "running")
  /\ UNCHANGED <<file, tables, page, faults>>

Refuse(r) ==
  /\ file = 0 /\ Moves(r, "posted", "refused")
  /\ UNCHANGED <<file, results, tables, page, faults>>

\* run_backtest in its thread: the file is hashed and loaded, the rows are
\* fetched and replayed, the curve is sampled.
Run(r) ==
  /\ jobs[r].at = "started" /\ file # 0
  /\ replay' \in Replays
  /\ jobs' = [jobs EXCEPT ![r] = [at |-> "replayed", hash |-> file,
                                  curve |-> Bars(replay'.window) >= SampleEvery]]
  /\ UNCHANGED <<file, results, tables, page, faults>>

\* A faulty _snapshot_exists that takes an error for yes.
ExistsOnError(r) ==
  /\ jobs[r].at = "replayed"
  /\ \E to \in {"snapshot", "row"} : jobs' = [jobs EXCEPT ![r].at = to]
  /\ UNCHANGED <<file, results, tables, page, faults>>

\* Back on the loop: _snapshot_exists asks for a row with the hash.  A query
\* that fails, or does not see the row yet, is taken for no.
LookForSnapshot(r) ==
  /\ jobs[r].at = "replayed"
  /\ \E to \in {"snapshot", "row"} :
       /\ to = "row" => jobs[r].hash \in snapshots
       /\ jobs' = [jobs EXCEPT ![r].at = to]
  /\ UNCHANGED <<file, results, tables, page, faults>>

WriteSnapshot(r) ==
  /\ Moves(r, "snapshot", "row")
  /\ snapshots' = snapshots \union {jobs[r].hash}
  /\ UNCHANGED <<file, results, runRows, equityRows, page, faults>>

\* A faulty order of the writes: the run is reported before its curve.
ReportEarly(r) ==
  /\ Moves(r, "row", "report")
  /\ runRows' = runRows \union {[run |-> r, hash |-> jobs[r].hash]}
  /\ UNCHANGED <<file, results, snapshots, equityRows, page, faults>>

WriteRun(r) ==
  /\ Moves(r, "row", IF jobs[r].curve THEN "equity" ELSE "report")
  /\ runRows' = runRows \union {[run |-> r, hash |-> jobs[r].hash]}
  /\ UNCHANGED <<file, results, snapshots, equityRows, page, faults>>

WriteEquity(r) ==
  /\ Moves(r, "equity", "report")
  /\ equityRows' = equityRows \union {r}
  /\ UNCHANGED <<file, results, snapshots, runRows, page, faults>>

\* A faulty report that leaves the failed run "running".
DropFailure(r, status) ==
  /\ jobs' = [jobs EXCEPT ![r] = [at |-> "ended", hash |-> 0, curve |-> jobs[r].curve]]
  /\ IF status = "done" THEN Put(r, status) ELSE UNCHANGED results

\* A faulty end that leaves the task among the tasks.
KeepTask(r, status) ==
  /\ UNCHANGED jobs
  /\ Put(r, status)

\* The end of _run_backtest_task: the outcome is put and the task removed.
Conclude(r, status) ==
  /\ jobs' = [jobs EXCEPT ![r] = [at |-> "ended", hash |-> 0, curve |-> jobs[r].curve]]
  /\ Put(r, status)

Report(r) ==
  /\ jobs[r].at = "report"
  /\ Conclude(r, "done")
  /\ UNCHANGED <<file, tables, page, faults>>

\* The file is gone when the thread reads it.
FileGone(r) ==
  /\ jobs[r].at = "started" /\ file = 0
  /\ Conclude(r, "failed")
  /\ UNCHANGED <<file, tables, page, faults>>

\* Anything else in the try that raises: a file that does not load, a window
\* without bars, a write that fails, the row of which may have arrived.
Break(r) ==
  /\ jobs[r].at \in Alive \ {"replayed", "report"} /\ Fault
  /\ Conclude(r, "failed")
  /\ snapshots' \in {snapshots} \union IF jobs[r].at = "snapshot" THEN {snapshots \union {jobs[r].hash}} ELSE {}
  /\ runRows' \in {runRows} \union
       IF jobs[r].at = "row" THEN {runRows \union {[run |-> r, hash |-> jobs[r].hash]}} ELSE {}
  /\ UNCHANGED <<file, equityRows, page>>

\* What the service kept in memory is gone, and with it every task.
Restart ==
  /\ Fault
  /\ jobs' = [r \in Runs |-> IF jobs[r].at \in {"posted"} \union Alive
                             THEN [NewJob EXCEPT !.at = "lost"] ELSE jobs[r]]
  /\ results' = <<>>
  /\ UNCHANGED <<file, tables, page>>
------------------------------------------------------------------------------
(* The page.                                                                *)

\* on_run_click: the form is complete and the request goes out.
Click(r) ==
  /\ jobs[r].at = "idle" /\ \A q \in Runs : q < r => jobs[q].at # "idle"
  /\ jobs' = [jobs EXCEPT ![r].at = "posted"]
  /\ asked' = r
  /\ UNCHANGED <<file, results, tables, store, polling, poll, shown, faults>>

\* ... or something is missing: the callback only disables the interval.
ClickIncomplete ==
  /\ Fault
  /\ asked' = 0 /\ polling' = FALSE
  /\ UNCHANGED <<file, service, store, poll, shown>>

\* The answer to the click: a run to poll.
ClickAnswered ==
  /\ asked # 0 /\ jobs[asked].at \in Alive \union {"ended"}
  /\ asked' = 0 /\ store' = asked /\ polling' = TRUE /\ shown' = 0
  /\ UNCHANGED <<file, service, poll, faults>>

\* ... or an error: the request was refused or lost, or its answer is late.
ClickFails ==
  /\ asked # 0
  /\ IF jobs[asked].at \in {"refused", "lost"} THEN UNCHANGED faults ELSE Fault
  /\ asked' = 0 /\ store' = 0 /\ polling' = FALSE
  /\ UNCHANGED <<file, service, poll, shown>>

\* The interval: on_poll is called with the run of the store.
Tick ==
  /\ polling /\ poll = NoPoll
  /\ IF store = 0 THEN polling' = FALSE /\ UNCHANGED poll
     ELSE poll' = [run |-> store, answer |-> "none"] /\ UNCHANGED polling
  /\ UNCHANGED <<file, service, asked, store, shown, faults>>

\* backtest_status: an unknown run is a 404, and a failed run's answer has an
\* "error" as well.
Answer ==
  /\ poll.run # 0 /\ poll.answer = "none"
  /\ \/ poll' = [poll EXCEPT !.answer = StatusOf(poll.run)] /\ UNCHANGED faults
     \/ poll' = [poll EXCEPT !.answer = "error"] /\ Fault
  /\ UNCHANGED <<file, service, asked, store, polling, shown>>

\* A faulty on_poll that goes on polling after an error.
PollOn ==
  /\ poll.answer # "none"
  /\ poll' = NoPoll
  /\ polling' = (poll.answer \in {"running", "error"})
  /\ shown' = IF poll.answer = "done" THEN poll.run ELSE shown
  /\ UNCHANGED <<file, service, asked, store, faults>>

\* on_poll returns: "running" enables the interval, all else disables it.
PollReturns ==
  /\ poll.answer # "none"
  /\ poll' = NoPoll
  /\ polling' = (poll.answer = "running")
  /\ shown' = IF poll.answer = "done" THEN poll.run ELSE shown
  /\ UNCHANGED <<file, service, asked, store, faults>>
------------------------------------------------------------------------------
Job(r) ==
  \/ Run(r)
  \/ /\ Accept(r) \/ Refuse(r) \/ FileGone(r)
        \/ LookForSnapshot(r) \/ WriteSnapshot(r) \/ WriteRun(r) \/ WriteEquity(r) \/ Report(r)
     /\ replay' = <<>>

Poll == (Tick \/ Answer \/ PollReturns) /\ replay' = <<>>

Other ==
  /\ FileChanges \/ Restart \/ ClickIncomplete \/ ClickAnswered \/ ClickFails
     \/ \E r \in Runs : Click(r) \/ Break(r)
  /\ replay' = <<>>

BacktestsNext == (\E r \in Runs : Job(r)) \/ Poll \/ Other

BacktestsSpec == BacktestsInit /\ [][BacktestsNext]_backtestsVars

\* The loop and the thread of a run go on: a strategy's replay ends, and every
\* query and write has a timeout.  The dashboard ticks, and its calls return.
FairBacktestsSpec ==
  /\ BacktestsSpec
  /\ \A r \in Runs : WF_backtestsVars(Job(r))
  /\ WF_backtestsVars(Poll)
------------------------------------------------------------------------------
(* The stages, the tables and the page stay what they are.                  *)
BacktestsTypeOK ==
  /\ file \in 0..MaxVersions
  /\ \A r \in Runs :
       /\ jobs[r].at \in {"idle", "posted"} \union Alive \union Over
       /\ jobs[r].hash \in 0..MaxVersions
  /\ Len(results) <= MaxResults
  /\ \A i, j \in DOMAIN results : results[i].run = results[j].run => i = j
  /\ \A i \in DOMAIN results : results[i].status \in {"running", "done", "failed"}
  /\ snapshots \subseteq 1..MaxVersions /\ equityRows \subseteq Runs
  /\ {asked, store, shown, poll.run} \subseteq {0} \union Runs
  /\ poll.answer \in {"none", "running", "done", "failed", "error"}

(* _run_backtest_task, main.py:375-378: whatever fails, restarts or runs     *)
(* beside it, a row of backtest_runs names a hash whose source was written   *)
(* to strategy_snapshots.                                                    *)
RunsHaveASource == \A row \in runRows : row.hash \in snapshots

Stored(r) ==
  /\ \E row \in runRows : row.run = r
  /\ jobs[r].curve => r \in equityRows

(* main.py:378-392, callbacks_backtest.py:226-252: a run the service calls   *)
(* done, and the one the page draws, even after a restart, is in the tables, *)
(* with its equity curve if it has one.                                      *)
DoneIsStored ==
  /\ \A i \in DOMAIN results : results[i].status = "done" => Stored(results[i].run)
  /\ shown # 0 => Stored(shown)

(* main.py:359-395, 466-470: a run reported as running has its task.         *)
RunningHasATask ==
  \A i \in DOMAIN results : results[i].status = "running" => jobs[results[i].run].at \in Alive

(* feeds.py:98-143 against 295-312: the segments shown with a result are the *)
(* maximal stretches of the bars that were replayed, in their order.         *)
SegmentsAreTheBars ==
  replay # <<>> =>
    LET w == replay.window  segs == replay.segments
        bar(i) == i \in DOMAIN w /\ w[i] = "bar"
    IN /\ ToSet(segs) = {s \in (DOMAIN w) \X (DOMAIN w) :
                           /\ s[1] <= s[2] /\ \A i \in s[1]..s[2] : bar(i)
                           /\ ~bar(s[1] - 1) /\ ~bar(s[2] + 1)}
       /\ \A i, j \in DOMAIN segs : i < j => segs[i][2] < segs[j][1]

\* The position after the first k fills.
Position(fills, k) ==
  LET after[j \in 0..Len(fills)] == IF j = 0 THEN 0 ELSE after[j - 1] + fills[j].size
  IN after[k]

(* runner.py:318-356: while a strategy is never short and never adds to its  *)
(* position, the trades listed are its round trips, whatever was rejected.   *)
TradesAreRoundTrips ==
  replay # <<>> =>
    LET fills == replay.fills
    IN (\A k \in DOMAIN fills : Position(fills, k) \in {0, 1}) =>
         replay.trades = [k \in 1..(Len(fills) \div 2) |-> <<fills[2 * k - 1].id, fills[2 * k].id>>]

(* main.py:356-395, 474-479: types apart, what the tables, the service and   *)
(* the page say of a run is true: its source and its rows are there, and a   *)
(* running one has a task.                                                   *)
RunsAreRecorded == BacktestsTypeOK /\ RunsHaveASource /\ DoneIsStored /\ RunningHasATask

(* runner.py:318-356, feeds.py:98-143: segments and trades of a result are   *)
(* those of what was replayed.                                               *)
ReplayIsReported == SegmentsAreTheBars /\ TradesAreRoundTrips

(* Every run the service was asked for ends: it concludes, is refused or is  *)
(* lost with the service.                                                    *)
EveryRunEnds == \A r \in Runs : jobs[r].at = "posted" ~> jobs[r].at \in Over

(* callbacks_backtest.py:211-252: the page does not poll for ever, although  *)
(* its run may be evicted, lost or replaced under a poll.                    *)
PollingStops == polling ~> ~polling

(* main.py:359-395, callbacks_backtest.py:211-252: a click is followed to an *)
(* end on both sides, whatever restarts, fails or is clicked meanwhile.      *)
EverythingEnds == EveryRunEnds /\ PollingStops
==============================================================================
