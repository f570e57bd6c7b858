------------------------------- MODULE Flusher --------------------------------
(***************************************************************************)
(* The daily export of snapshot_1s to B2 (internal/flusher/flusher.go):    *)
(* one goroutine in each slot of the blue/green pair, both of which flush. *)
(* The slots share the B2 bucket, QuestDB's flush_manifest and the Redis   *)
(* key candle:last_flush_date, and nothing else.                           *)
(*                                                                         *)
(* Days are numbered from 1 and the flushers run from day 2 on; 0 stands   *)
(* for no day.  Day 1 has rows, a later day may have none.  The clock has  *)
(* two events a day: the flush time of FLUSH_TIME_UTC and midnight.  Rows  *)
(* outlive the model: QuestDB keeps them for 30 days.  An object is named  *)
(* after its day, so that a second upload of a day replaces the first.     *)
(***************************************************************************)
EXTENDS Naturals, FiniteSets

CONSTANTS
  Slots,          (* the processes: blue, green                               *)
  LastDay,        (* bound: the calendar ends here                            *)
  MaxUpsets       (* bound: failures, stops, overruns and overrides together  *)

ASSUME CalendarIsLongEnough == LastDay \in Nat \ {0, 1} /\ MaxUpsets \in Nat

VARIABLES
  today,          \* the current day (UTC)
  fired,          \* today's flush time has passed
  captured,       \* days that have rows in snapshot_1s
  prior,          \* the day archived before the first start; 0 on a first run
  archive,        \* days with an object in the bucket
  manifest,       \* days with a success row in flush_manifest
  key,            \* candle:last_flush_date; 0 when absent
  flusher,        \* each slot's goroutine
  reported,       \* days with a failure sequence: manifest row, alert, counter
  upsets,         \* what MaxUpsets counts
  seen            \* the kinds of upset so far

stores == <<archive, manifest, key>>
clock == <<today, fired>>
fixed == <<captured, prior>>
budget == <<upsets, seen>>
flusherVars == <<clock, fixed, stores, flusher, reported, budget>>

Days == 1..LastDay
------------------------------------------------------------------------------
Idle(pc, due) == [pc |-> pc, mode |-> "none", date |-> 0, until |-> 0, due |-> due]

Down == Idle("down", 0)

\* A faulty nextFlushTime that always takes tomorrow's.
NextDueTomorrow == today + 1

\* nextFlushTime: today's flush time if it is still to come.
NextDue == IF fired THEN today + 1 ELSE today

Waiting == Idle("wait", NextDue)

Flush(mode, d) == [pc |-> "query", mode |-> mode, date |-> d, until |-> 0, due |-> 0]

\* A faulty range that leaves yesterday out.
LastMissingExclusive == today - 2

\* flushDateRange: from the day after the last flush to yesterday.
LastMissing == today - 1
Catchup(last) == [pc |-> "pick", mode |-> "catchup", date |-> last + 1,
                  until |-> LastMissing, due |-> 0]

InRange(f) == f.date <= f.until

\* Where flushDate returns to, with an error or without.
After(f) == CASE f.mode = "catchup" -> [f EXCEPT !.pc = "pick", !.date = @ + 1]
              [] f.mode = "daily" -> Waiting
              [] f.mode = "override" -> Idle("done", 0)

At(s, pc) == flusher[s].pc = pc
Move(s, f) == flusher' = [flusher EXCEPT ![s] = f]
Goto(s, pc) == Move(s, [flusher[s] EXCEPT !.pc = pc])

Kinds == {"override", "get", "read", "check", "flush", "record", "set", "stop", "lost", "overrun"}

Upset(kind) == /\ upsets < MaxUpsets
               /\ upsets' = upsets + 1
               /\ seen' = seen \cup {kind}
Calm == UNCHANGED budget

FlusherInit ==
  /\ today = 2 /\ fired = FALSE
  /\ captured \in {{1} \cup ds : ds \in SUBSET (2..(LastDay - 1))}
  /\ prior \in {0, 1}
  /\ key = prior /\ archive = {prior} \ {0} /\ manifest = {prior} \ {0}
  /\ flusher = [s \in Slots |-> Down]
  /\ reported = {} /\ upsets = 0 /\ seen = {}
------------------------------------------------------------------------------
(* Run and runCatchup.                                                      *)

Start(s) == /\ At(s, "down") /\ Goto(s, "start")
            /\ Calm /\ UNCHANGED <<clock, fixed, stores, reported>>

\* FLUSH_DATE_OVERRIDE: that date, a complete day, and nothing after it.
StartOverride(s) ==
  /\ At(s, "down")
  /\ \E d \in 1..(today - 1) : Move(s, Flush("override", d))
  /\ Upset("override") /\ UNCHANGED <<clock, fixed, stores, reported>>

ReadKey(s) ==
  /\ At(s, "start") /\ key # 0
  /\ Move(s, Catchup(key))
  /\ Calm /\ UNCHANGED <<clock, fixed, stores, reported>>

\* The key is absent, or GET fails: the manifest's latest success.
ReadManifest(s) ==
  /\ At(s, "start")
  /\ IF key = 0 THEN Calm ELSE Upset("get")
  /\ \E last \in manifest : (\A d \in manifest : d <= last) /\ Move(s, Catchup(last))
  /\ UNCHANGED <<clock, fixed, stores, reported>>

\* Nothing was ever flushed.
FirstRun(s) ==
  /\ At(s, "start") /\ key = 0 /\ manifest = {}
  /\ Move(s, Waiting)
  /\ Calm /\ UNCHANGED <<clock, fixed, stores, reported>>

\* The manifest cannot be read either: "catch-up failed".
ReadFails(s) ==
  /\ At(s, "start")
  /\ Move(s, Waiting)
  /\ Upset("read") /\ UNCHANGED <<clock, fixed, stores, reported>>

\* manifestHasSuccess; on an error of its own the day is flushed anyway.
SkipDay(s) ==
  /\ At(s, "pick") /\ InRange(flusher[s]) /\ flusher[s].date \in manifest
  /\ Move(s, After(flusher[s]))
  /\ Calm /\ UNCHANGED <<clock, fixed, stores, reported>>

FlushDay(s) ==
  /\ At(s, "pick") /\ InRange(flusher[s])
  /\ IF flusher[s].date \in manifest THEN Upset("check") ELSE Calm
  /\ Goto(s, "query")
  /\ UNCHANGED <<clock, fixed, stores, reported>>

CatchupOver(s) ==
  /\ At(s, "pick") /\ ~InRange(flusher[s])
  /\ Move(s, Waiting)
  /\ Calm /\ UNCHANGED <<clock, fixed, stores, reported>>

IsDue(s) == At(s, "wait") /\ flusher[s].due <= today /\ (fired \/ flusher[s].due < today)

\* The timer fires: yesterday is flushed.
Wake(s) == /\ IsDue(s) /\ Move(s, Flush("daily", today - 1))
           /\ Calm /\ UNCHANGED <<clock, fixed, stores, reported>>
------------------------------------------------------------------------------
(* flushDate.                                                               *)

Query(s) ==
  /\ At(s, "query")
  /\ IF flusher[s].date \in captured THEN Goto(s, "upload") ELSE Move(s, After(flusher[s]))
  /\ Calm /\ UNCHANGED <<clock, fixed, stores, reported>>

QueryFails(s) ==
  /\ At(s, "query")
  /\ Move(s, After(flusher[s]))
  /\ reported' = reported \cup {flusher[s].date}
  /\ Upset("flush") /\ UNCHANGED <<clock, fixed, stores>>

Upload(s) ==
  /\ At(s, "upload") /\ Goto(s, "record")
  /\ archive' = archive \cup {flusher[s].date}
  /\ Calm /\ UNCHANGED <<clock, fixed, manifest, key, reported>>

\* A faulty flushDate that only logs the upload's error.
UploadErrorLogged(s) ==
  /\ At(s, "upload") /\ Goto(s, "record")
  /\ \E stored \in SUBSET {flusher[s].date} : archive' = archive \cup stored
  /\ Upset("flush") /\ UNCHANGED <<clock, fixed, manifest, key, reported>>

\* Rows that make no parquet file, or an upload that fails; an upload
\* may fail after B2 has completed the object.
UploadFails(s) ==
  /\ At(s, "upload") /\ Move(s, After(flusher[s]))
  /\ \E stored \in SUBSET {flusher[s].date} : archive' = archive \cup stored
  /\ reported' = reported \cup {flusher[s].date}
  /\ Upset("flush") /\ UNCHANGED <<clock, fixed, manifest, key>>

\* writeManifestRow only logs its errors, and so does the SET after it.
Record(s) ==
  /\ At(s, "record") /\ Goto(s, "key")
  /\ \/ manifest' = manifest \cup {flusher[s].date} /\ Calm
     \/ UNCHANGED manifest /\ Upset("record")
  /\ UNCHANGED <<clock, fixed, archive, key, reported>>

SetKey(s) ==
  /\ At(s, "key") /\ Move(s, After(flusher[s]))
  /\ \/ key' = flusher[s].date /\ Calm
     \/ UNCHANGED key /\ Upset("set")
  /\ UNCHANGED <<clock, fixed, archive, manifest, reported>>
------------------------------------------------------------------------------
(* The process, Redis and the calendar.                                     *)

\* A stop, a crash or a redeployment; the container is started again.
Stop(s) == /\ ~At(s, "down") /\ Move(s, Down)
           /\ Upset("stop") /\ UNCHANGED <<clock, fixed, stores, reported>>

LoseKey == /\ key # 0 /\ key' = 0
           /\ Upset("lost") /\ UNCHANGED <<clock, fixed, archive, manifest, flusher, reported>>

\* One day's flush ends within its timeouts, hours before the next flush
\* time; a catch-up of several days, or a late one, may not.
FlushTime ==
  /\ ~fired /\ fired' = TRUE
  /\ \A s \in Slots : ~IsDue(s) /\ flusher[s].mode # "daily"
  /\ IF \E s \in Slots : flusher[s].mode = "catchup" THEN Upset("overrun") ELSE Calm
  /\ UNCHANGED <<today, fixed, stores, flusher, reported>>

Midnight ==
  /\ fired /\ today < LastDay
  /\ \A s \in Slots : ~IsDue(s)
  /\ today' = today + 1 /\ fired' = FALSE
  /\ Calm /\ UNCHANGED <<fixed, stores, flusher, reported>>

CatchupStep(s) == ReadKey(s) \/ ReadManifest(s) \/ FirstRun(s) \/ SkipDay(s) \/ FlushDay(s) \/ CatchupOver(s)
FlushStep(s) == Query(s) \/ Upload(s) \/ Record(s) \/ SetKey(s)
Step(s) == Start(s) \/ CatchupStep(s) \/ Wake(s) \/ FlushStep(s)
Fault(s) == StartOverride(s) \/ ReadFails(s) \/ QueryFails(s) \/ UploadFails(s) \/ Stop(s)

FlusherNext == (\E s \in Slots : Step(s) \/ Fault(s)) \/ LoseKey \/ FlushTime \/ Midnight

FlusherSpec ==
  /\ FlusherInit /\ [][FlusherNext]_flusherVars
  /\ \A s \in Slots : WF_flusherVars(Step(s))
  /\ WF_flusherVars(FlushTime) /\ WF_flusherVars(Midnight)
------------------------------------------------------------------------------
FlusherStates ==
  [pc : {"down", "start", "pick", "query", "upload", "record", "key", "wait", "done"},
   mode : {"none", "catchup", "daily", "override"},
   date : 0..LastDay, until : 0..LastDay, due : 0..(LastDay + 1)]

\* Every variable keeps its type; in particular no flush is of a day after the calendar.
FlusherTypeOK ==
  /\ today \in 2..LastDay /\ fired \in BOOLEAN
  /\ captured \in SUBSET Days /\ prior \in {0, 1}
  /\ archive \in SUBSET Days /\ manifest \in SUBSET Days /\ reported \in SUBSET Days
  /\ key \in 0..LastDay
  /\ flusher \in [Slots -> FlusherStates]
  /\ upsets \in 0..MaxUpsets
  /\ seen \in SUBSET Kinds

\* flushDate records a day only after its upload, whatever fails and whoever
\* flushes beside it: what the manifest and the key name is in the bucket, so
\* that skipping those days (runCatchup) loses nothing.
RecordsAreTrue == manifest \cup ({key} \ {0}) \subseteq archive

\* The days the service has dealt with: in the bucket, or reported as failed.
Attempted == archive \cup reported

\* Three events let the flushers leave a day out without a trace: a catch-up
\* that cannot read its starting point, one that is still running at the flush
\* time, and an override that moves the key forward.  A first run promises
\* nothing about the days before it.
Ordinary == prior # 0 /\ seen \cap {"read", "overrun", "override"} = {}

\* "Catch-up on startup ensures no days are silently skipped when Redis state
\* is lost" (flusher.go:2), as far as it holds: every day with rows up to the
\* one a restart would continue from, by the key or by the manifest, was
\* exported or its failure was reported, across failures of every step, stops
\* at any point, a lost key and two slots that flush at the same time.
NoDayIsPassedOver ==
  Ordinary => \A d \in captured, k \in manifest \cup {key} : d <= k => d \in Attempted

\* A slot that waits for the timer has nothing left behind it: the days before
\* the one it will flush next were dealt with (runCatchup, nextFlushTime).
WaitersAreCurrent ==
  Ordinary => \A s \in Slots, d \in captured :
                At(s, "wait") /\ d + 1 < flusher[s].due => d \in Attempted

\* No day is left out behind what says how far the flushers have come.
NoDayIsLeftOut == NoDayIsPassedOver /\ WaitersAreCurrent

\* Every complete day with rows is in the end exported or reported as failed,
\* though slots stop and start at any time and the key may be lost
\* (Run, runCatchup, nextFlushTime together).
EveryDayIsDealtWith ==
  \A d \in 1..(LastDay - 1) : d \in captured ~> (d \in Attempted \/ ~Ordinary)
=============================================================================
