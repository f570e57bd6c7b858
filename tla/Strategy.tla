------------------------------- MODULE Strategy -------------------------------
(***************************************************************************)
(* One strategy of the bot service between its queue and its orders: the   *)
(* event loop of strategy/registry.py, the BaseStrategy of                 *)
(* strategy/base.py (rolling frames, history, gap invalidation, the answer *)
(* to a silent bus) and a trading handler as the crossover strategies have *)
(* it (strategies/active/ema_cross_kucoin.py and its inactive siblings).   *)
(*                                                                         *)
(* The strategy trades one symbol, Sym, on one of the timeframes it gets.  *)
(* Of a frame only its length matters here, up to MinLookback rows.  The   *)
(* queue loses bars only to an overflow, which leaves a marker that names  *)
(* no symbol (module EventBus).                                            *)
(*                                                                         *)
(* _open_positions holds what the startup reconciliation found.            *)
(***************************************************************************)
EXTENDS Integers, Sequences, FiniteSets, SequencesExt

CONSTANTS
  Tfs,            (* timeframes whose bars reach the strategy                 *)
  TradedTf,       (* the one it has a handler for                             *)
  MinLookback,    (* min_lookback                                             *)
  CloseOnTimeout, (* close_on_bus_timeout                                     *)
  Closers,        (* threads of _emergency_close_symbol there can be          *)
  MaxQueue,       (* bound: events in the queue                               *)
  MaxBars,        (* bound: bars of a timeframe                               *)
  MaxGaps,        (* bound: gaps and overflows                                *)
  MaxSilences,    (* bound: silences of the bus                               *)
  MaxFailures     (* bound: orders that fail                                  *)

ASSUME StrategyAssumption ==
  /\ TradedTf \in Tfs /\ MinLookback \in Nat \ {0}
  /\ CloseOnTimeout \in BOOLEAN
  /\ {MaxQueue, MaxGaps, MaxSilences, MaxFailures} \subseteq Nat /\ MaxBars \in Nat \ {0}

VARIABLES
  closed,         \* bars of each timeframe so far
  queue,          \* the strategy's queue
  phase,          \* its thread
  rows,           \* rows of each frame in _dfs, MinLookback at most
  retries,        \* timeframes with a _retry_loop task
  invalid,        \* _signal_invalid
  cleanBars,      \* _clean_bar_count
  side,           \* _current_side
  legs,           \* orders posted: entries less exits, for each side
  silent,         \* _last_event_ts is bus_timeout_seconds old
  live,           \* not paper_trading
  positions,      \* _open_positions has an entry of the symbol
  inFlight,       \* _emergency_close_in_flight
  checker,        \* the thread of _bus_timeout_loop
  closers,        \* the emergency-close threads
  sinceGap,       \* history: bars handled since a gap in the symbol
  gaps, silences, failures

data == <<rows, retries, invalid, cleanBars, sinceGap>>
trading == <<side, legs>>
timeout == <<live, positions, inFlight, checker, closers>>
counts == <<gaps, silences, failures>>
vars == <<closed, queue, phase, data, trading, silent, timeout, counts>>
------------------------------------------------------------------------------
Sym == "sym"        \* the traded symbol
NoSym == "none"     \* the empty symbol of an overflow's marker

Sides == {"long", "short"}
Opposite(s) == IF s = "long" THEN "short" ELSE "long"

Bar(tf) == [type |-> "bar", tf |-> tf]
Gap(s) == [type |-> "gap", symbol |-> s]
Funding == [type |-> "funding"]

AtMost(n) == IF n < MinLookback THEN n ELSE MinLookback

Init ==
  /\ closed \in [Tfs -> 0..1] /\ queue = <<>>
  /\ phase = "subscribing"
  /\ rows = [tf \in Tfs |-> 0] /\ retries = {}
  /\ invalid = [s \in {Sym, NoSym} |-> FALSE] /\ cleanBars = [s \in {Sym, NoSym} |-> 0]
  /\ side = "none" /\ legs = [s \in Sides |-> 0]
  /\ silent = FALSE /\ live \in BOOLEAN /\ positions \in BOOLEAN /\ inFlight = FALSE
  /\ checker = "sleep" /\ closers = [c \in Closers |-> "none"]
  /\ sinceGap = MinLookback
  /\ gaps = 0 /\ silences = 0 /\ failures = 0
------------------------------------------------------------------------------
(* Around the strategy.                                                     *)

Enqueue(e) == Len(queue) < MaxQueue /\ queue' = Append(queue, e)

BarCloses(tf) ==
  /\ closed[tf] < MaxBars
  /\ closed' = [closed EXCEPT ![tf] = @ + 1]
  /\ Enqueue(Bar(tf))
  /\ UNCHANGED <<phase, data, trading, silent, timeout, counts>>

\* A GapMarker from the stream, or of an overflow.
GapArrives ==
  /\ gaps < MaxGaps
  /\ gaps' = gaps + 1
  /\ \E s \in {Sym, NoSym} : Enqueue(Gap(s))
  /\ UNCHANGED <<closed, phase, data, trading, silent, timeout, silences, failures>>

FundingArrives ==
  /\ silent /\ Funding \notin ToSet(queue)
  /\ Enqueue(Funding)
  /\ UNCHANGED <<closed, phase, data, trading, silent, timeout, counts>>

\* Nothing arrives for bus_timeout_seconds.
BusFallsSilent ==
  /\ ~silent /\ silences < MaxSilences
  /\ silent' = TRUE /\ silences' = silences + 1
  /\ UNCHANGED <<closed, queue, phase, data, trading, timeout, gaps, failures>>
------------------------------------------------------------------------------
(* subscribe() and the history.                                             *)

\* What _query_questdb can return, the candle service storing each bar some
\* time after it closed: the newest MinLookback of the first n bars.
Loads(tf) == \E n \in 0..closed[tf] : rows' = [rows EXCEPT ![tf] = AtMost(n)]

\* subscribe(): get_history for the traded timeframe, whose frame is left
\* alone and for which a retry is scheduled when the query fails; then the
\* handler is registered and the event loop begins.
Subscribe ==
  /\ phase = "subscribing"
  /\ phase' = "running"
  /\ \/ Loads(TradedTf) /\ UNCHANGED retries
     \/ retries' = retries \union {TradedTf} /\ UNCHANGED rows
  /\ UNCHANGED <<closed, queue, invalid, cleanBars, sinceGap, trading, silent, timeout, counts>>

\* _retry_loop, every 30 s: it queries and assigns in one go, and ends once
\* a query succeeds.
RetryHistory(tf) ==
  /\ phase = "running" /\ tf \in retries
  /\ Loads(tf)
  /\ retries' = retries \ {tf}
  /\ UNCHANGED <<closed, queue, phase, invalid, cleanBars, sinceGap, trading, silent, timeout, counts>>
------------------------------------------------------------------------------
(* The event loop.                                                          *)

\* _on_clean_bar: MinLookback bars without a gap restore the signal.
CleanBar(s) ==
  LET n == cleanBars[s] + 1
  IN \/ /\ ~invalid[s]
        /\ UNCHANGED <<invalid, cleanBars>>
     \/ /\ invalid[s] /\ n >= MinLookback
        /\ invalid' = [invalid EXCEPT ![s] = FALSE]
        /\ cleanBars' = [cleanBars EXCEPT ![s] = 0]
     \/ /\ invalid[s] /\ n < MinLookback
        /\ cleanBars' = [cleanBars EXCEPT ![s] = n]
        /\ UNCHANGED invalid

Enter(s) == [legs EXCEPT ![s] = @ + 1]
Flip(s) == [legs EXCEPT ![s] = @ + 1, ![Opposite(s)] = @ - 1]

\* A faulty handler that closes the opposite leg also when it knows of none.
TradeBothLegs(target) ==
  \/ side = target /\ UNCHANGED trading
  \/ side # target /\ legs' = Flip(target) /\ side' = target

\* The handler (_on_bar of the strategy), when the signal says buy or sell:
\* nothing on the side it is on; else the leg of the side it knows itself on
\* is closed and one is opened.
Trade(target) ==
  \/ /\ side = target
     /\ UNCHANGED trading
  \/ /\ side = Opposite(target)
     /\ legs' = Flip(target) /\ side' = target
  \/ /\ side = "none"
     /\ legs' = Enter(target) /\ side' = target

\* The wrapper of register_bar_handler, and the handler's own first test.
HandlerRuns(tf, n, inv) == tf = TradedTf /\ n >= MinLookback /\ ~inv[Sym]

\* on_bar.
OnBar(tf) ==
  /\ silent' = FALSE
  /\ rows' = [rows EXCEPT ![tf] = AtMost(@ + 1)]
  /\ CleanBar(Sym)
  /\ sinceGap' = AtMost(sinceGap + 1)
  /\ \/ UNCHANGED trading
     \/ /\ HandlerRuns(tf, rows'[tf], invalid')
        /\ \E target \in Sides : Trade(target)
  /\ UNCHANGED retries

\* A faulty handle_gap that goes on counting.
GapKeepsCount(s) ==
  /\ invalid' = [invalid EXCEPT ![s] = TRUE]
  /\ UNCHANGED cleanBars

Invalidate(s) ==
  /\ invalid' = [invalid EXCEPT ![s] = TRUE]
  /\ cleanBars' = [cleanBars EXCEPT ![s] = 0]

\* handle_gap, as the crossover strategies override it: the side is forgotten
\* whatever the symbol; then BaseStrategy.handle_gap for the marker's symbol.
HandleGap(s) ==
  /\ side' = "none"
  /\ Invalidate(s)
  /\ sinceGap' = IF s = Sym THEN 0 ELSE sinceGap
  /\ UNCHANGED <<rows, retries, legs, silent>>

\* run_strategy_event_loop takes the next event.
HandleEvent ==
  /\ phase = "running" /\ queue # <<>>
  /\ queue' = Tail(queue)
  /\ LET e == Head(queue)
     IN \/ e.type = "bar" /\ OnBar(e.tf)
        \/ e.type = "gap" /\ HandleGap(e.symbol)
        \/ e.type = "funding" /\ silent' = FALSE /\ UNCHANGED <<data, trading>>
  /\ UNCHANGED <<closed, phase, timeout, counts>>
------------------------------------------------------------------------------
(* The answer to a silent bus.                                              *)

\* _on_bus_timeout: the positions are copied ...
TimeoutFires ==
  /\ phase = "running" /\ checker = "sleep" /\ silent
  /\ CloseOnTimeout /\ positions
  /\ checker' = "copied"
  /\ UNCHANGED <<closed, queue, phase, data, trading, silent, live, positions, inFlight, closers, counts>>

Spawn == \E c \in Closers :
           /\ closers[c] = "none"
           /\ closers' = [closers EXCEPT ![c] = "place"]

\* A faulty thread guard that is read but not set.
GuardOnlyRead ==
  /\ checker = "copied"
  /\ checker' = "sleep"
  /\ IF inFlight THEN UNCHANGED <<inFlight, closers>>
     ELSE /\ Spawn /\ UNCHANGED inFlight
  /\ UNCHANGED <<closed, queue, phase, data, trading, silent, live, positions, counts>>

\* ... and for each copied position that no thread is closing one is started.
SpawnCloser ==
  /\ checker = "copied"
  /\ checker' = "sleep"
  /\ IF inFlight THEN UNCHANGED <<inFlight, closers>>
     ELSE /\ Spawn /\ inFlight' = TRUE
  /\ UNCHANGED <<closed, queue, phase, data, trading, silent, live, positions, counts>>

\* _emergency_close_symbol: a paper strategy sells nothing; a market order is
\* placed, again after 5 s when the call fails, which it can do before or
\* after the exchange took the order; then the position is dropped, and at
\* the end the thread is no longer in flight.
CloseSkipped(c) ==
  /\ closers[c] = "place" /\ ~live
  /\ closers' = [closers EXCEPT ![c] = "end"]
  /\ UNCHANGED <<closed, queue, phase, data, trading, silent, live, positions, inFlight, checker, counts>>

PlaceSucceeds(c) ==
  /\ closers[c] = "place" /\ live
  /\ closers' = [closers EXCEPT ![c] = "placed"]
  /\ UNCHANGED <<closed, queue, phase, data, trading, silent, live, positions, inFlight, checker, counts>>

PlaceFails(c) ==
  /\ closers[c] = "place" /\ live /\ failures < MaxFailures
  /\ failures' = failures + 1
  /\ UNCHANGED <<closed, queue, phase, data, trading, silent, live, positions, inFlight, checker, closers, gaps, silences>>

\* A faulty end of a sale that keeps the position.
ForgetNothing(c) ==
  /\ closers[c] = "placed"
  /\ closers' = [closers EXCEPT ![c] = "end"]
  /\ UNCHANGED <<closed, queue, phase, data, trading, silent, live, positions, inFlight, checker, counts>>

Forget(c) ==
  /\ closers[c] = "placed"
  /\ positions' = FALSE
  /\ closers' = [closers EXCEPT ![c] = "end"]
  /\ UNCHANGED <<closed, queue, phase, data, trading, silent, live, inFlight, checker, counts>>

Leave(c) ==
  /\ closers[c] = "end"
  /\ inFlight' = FALSE
  /\ closers' = [closers EXCEPT ![c] = "none"]
  /\ UNCHANGED <<closed, queue, phase, data, trading, silent, live, positions, checker, counts>>
------------------------------------------------------------------------------
CloserStep(c) == CloseSkipped(c) \/ PlaceSucceeds(c) \/ Forget(c) \/ Leave(c)

Next == \/ \E tf \in Tfs : BarCloses(tf) \/ RetryHistory(tf)
        \/ GapArrives \/ FundingArrives \/ BusFallsSilent
        \/ Subscribe \/ HandleEvent \/ TimeoutFires \/ SpawnCloser
        \/ \E c \in Closers : CloserStep(c) \/ PlaceFails(c)

Spec == Init /\ [][Next]_vars

\* Threads and tasks get on.
FairSpec == /\ Spec
            /\ WF_vars(Subscribe) /\ WF_vars(HandleEvent)
            /\ WF_vars(TimeoutFires) /\ WF_vars(SpawnCloser)
            /\ \A c \in Closers : WF_vars(CloserStep(c))
------------------------------------------------------------------------------
Events == [type : {"bar"}, tf : Tfs] \union [type : {"gap"}, symbol : {Sym, NoSym}]
            \union {Funding}

TypeOK ==
  /\ closed \in [Tfs -> 0..MaxBars] /\ queue \in Seq(Events) /\ phase \in {"subscribing", "running"}
  /\ rows \in [Tfs -> 0..MinLookback]
  /\ retries \subseteq Tfs
  /\ invalid \in [{Sym, NoSym} -> BOOLEAN] /\ cleanBars \in [{Sym, NoSym} -> 0..(MinLookback - 1)]
  /\ side \in Sides \union {"none"} /\ legs \in [Sides -> Int]
  /\ {silent, live, positions, inFlight} \subseteq BOOLEAN /\ checker \in {"sleep", "copied"}
  /\ closers \in [Closers -> {"none", "place", "placed", "end"}]
  /\ sinceGap \in 0..MinLookback
  /\ gaps \in 0..MaxGaps /\ silences \in 0..MaxSilences /\ failures \in 0..MaxFailures

\* The signal is suspended exactly until MinLookback bars of the symbol have
\* been handled since its last gap, however gaps and bars follow each other
\* (handle_gap and _on_clean_bar).
SuspendedExactly == invalid[Sym] <=> sinceGap < MinLookback

\* An exit is posted only for a leg that is open, also when gaps made the
\* strategy forget its side in between (_on_bar and handle_gap).
ExitsHaveALeg == \A s \in Sides : legs[s] >= IF side = s THEN 1 ELSE 0

\* At most one thread closes a position at a time: the next check of the bus
\* cannot start another while a sale is retried ("thread explosion guard").
OneCloser == \A c, d \in Closers : closers[c] # "none" /\ closers[d] # "none" => c = d

\* Neither an exit nor an emergency sale is posted for what is not there.
OrdersAreSound == ExitsHaveALeg /\ OneCloser

\* A position known when the bus falls silent is closed unless the bus comes
\* back (_bus_timeout_loop with close_on_bus_timeout, for a live strategy).
SilenceIsAnswered ==
  (live /\ silent /\ positions /\ phase = "running") ~> (~silent \/ ~positions)
==============================================================================
