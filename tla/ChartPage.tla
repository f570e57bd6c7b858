-------------------------------- MODULE ChartPage --------------------------------
(***************************************************************************)
(* The charts page of the dashboard (dashboard/callbacks.py over data.py).  *)
(* QuestDB and Redis are external: a query answers with what there is, or   *)
(* fails.  Properties bear the id of their component, with _ for -, and     *)
(* hold its value, or its data.                                             *)
(***************************************************************************)
EXTENDS Dash, ChartData

CONSTANTS
  Markets,   (* the options of the symbol dropdown                          *)
  Tfs,       (* the timeframes, in base rows a bar                          *)
  MaxNow,    (* bound: base periods                                         *)
  MaxRows,   (* bound: base rows of each market                             *)
  MaxTicks   (* bound: entries of the order book stream of each market      *)

ASSUME ChartPageAssumption ==
  /\ Tfs \subseteq Nat \ {0} /\ 1 \in Tfs
  /\ {MaxRows, MaxTicks} \subseteq [Markets -> Nat]
  /\ MaxNow \in Nat

VARIABLES
  now,    \* base periods over
  rows,   \* market -> the base rows QuestDB has
  ticks,  \* market -> entries of its ob_features stream
  late,   \* history: the live call under way was made before the stores got
          \* the selection they have
  mixed   \* history: the stores hold the answer to such a call

market == <<now, rows, ticks>>
chartVars == <<market, late, mixed>>
------------------------------------------------------------------------------
ChartStores == {"candle_store", "last_ts", "ob_store", "ob_cursor"}

ChartCallbacks ==
  [update_candle_store |->
     Callback({"symbol_dropdown", "tf_dropdown"}, {},
              ChartStores \union {"ob_cursor_symbol", "active_tf"}, {}, TRUE),
   live_update |->
     Callback({"live_interval"},
              ChartStores \union {"symbol_dropdown", "ob_cursor_symbol", "active_tf"},
              {}, ChartStores, FALSE)]

ChartsLayout ==
  [symbol_dropdown |-> CHOOSE m \in Markets : TRUE, tf_dropdown |-> 1, live_interval |-> 0,
   candle_store |-> <<>>, last_ts |-> None, ob_store |-> <<>>, ob_cursor |-> 0,
   ob_cursor_symbol |-> None, active_tf |-> 1]

\* A query of bars that may fail, which gives none.
OrNone(bars) == {bars, <<>>}

\* fetch_ob_snapshot: the last entry of the stream, 0 when there is none or
\* Redis does not answer.
Cursors(m) == {0, ticks[m]}

\* fetch_ob_live: the entries after the cursor.
NewTicks(m, cursor) ==
  LET last == IF ticks[m] < cursor + Poll THEN ticks[m] ELSE cursor + Poll
  IN [i \in 1..last - cursor |-> [market |-> m, id |-> cursor + i]]

\* A faulty seeding of the stores that keeps the rows of the order book.
SeededOverTicks(w, bars, cursor) ==
  [candle_store |-> bars,
   last_ts |-> IF bars = <<>> THEN None ELSE LastSource(w.tf_dropdown, bars[Len(bars)].ts),
   ob_cursor |-> cursor, ob_cursor_symbol |-> w.symbol_dropdown, active_tf |-> w.tf_dropdown]

Seeded(w, bars, cursor) ==
  [candle_store |-> bars,
   last_ts |-> IF bars = <<>> THEN None ELSE LastSource(w.tf_dropdown, bars[Len(bars)].ts),
   ob_store |-> <<>>, ob_cursor |-> cursor,
   ob_cursor_symbol |-> w.symbol_dropdown, active_tf |-> w.tf_dropdown]

\* update_candle_store; the symbol dropdown cannot be cleared.
UpdateCandleStore(w) ==
  LET m == w.symbol_dropdown
  IN {Seeded(w, bars, cursor) : bars \in OrNone(History(m, rows[m], w.tf_dropdown, now)),
                                cursor \in Cursors(m)}

LiveCandles(w, new) ==
  IF new = <<>> THEN NoUpdate
  ELSE [candle_store |-> LastOf(w.candle_store \o new, Limit),
        last_ts |-> LastSource(w.active_tf, new[Len(new)].ts)]

LiveTicks(w, new) ==
  IF new = <<>> THEN NoUpdate
  ELSE [ob_store |-> LastOf(w.ob_store \o new, Limit), ob_cursor |-> new[Len(new)].id]

\* live_update
LiveUpdate(w) ==
  LET m == w.symbol_dropdown
      bars == NewBars(m, rows[m], w.last_ts, w.active_tf, now)
      entries == IF w.ob_cursor_symbol = m THEN NewTicks(m, w.ob_cursor) ELSE <<>>
  IN IF w.last_ts = None THEN {NoUpdate}
     ELSE {LiveCandles(w, b) ++ LiveTicks(w, e) : b \in OrNone(bars), e \in OrNone(entries)}
------------------------------------------------------------------------------
\* The page begins; what is outside begins with the page that looks at it.
ChartInit ==
  /\ now = 0 /\ rows = [m \in Markets |-> {}] /\ ticks = [m \in Markets |-> 0]
  /\ late = FALSE /\ mixed = FALSE

ChartReset ==
  /\ now' = 0 /\ rows' = [m \in Markets |-> {}] /\ ticks' = [m \in Markets |-> 0]
  /\ late' = FALSE /\ mixed' = FALSE

\* The clock, kept while it is looked at.
Advance ==
  /\ Shows(ChartsLayout) /\ now < MaxNow /\ now' = now + 1
  /\ UNCHANGED <<browser, rows, ticks, late, mixed>>

\* The candle service writes the row of the period that is just over; a period
\* may pass without one.
WriteRow(m) ==
  /\ now > 0 /\ now - 1 \notin rows[m] /\ Cardinality(rows[m]) < MaxRows[m]
  /\ rows' = [rows EXCEPT ![m] = @ \union {now - 1}]
  /\ UNCHANGED <<browser, now, ticks, late, mixed>>

AddTick(m) ==
  /\ Shows(ChartsLayout) /\ ticks[m] < MaxTicks[m] /\ ticks' = [ticks EXCEPT ![m] = @ + 1]
  /\ UNCHANGED <<browser, now, rows, late, mixed>>

Choose ==
  /\ Shows(ChartsLayout)
  /\ \/ \E m \in Markets : m # props.symbol_dropdown /\ UserInput([symbol_dropdown |-> m])
     \/ \E n \in Tfs : n # props.tf_dropdown /\ UserInput([tf_dropdown |-> n])
  /\ UNCHANGED chartVars

\* live-interval
LiveTick ==
  /\ Shows(ChartsLayout) /\ Input([live_interval |-> 0])
  /\ late' = (mixed \/ Pending("update_candle_store"))
  /\ UNCHANGED <<inputs, market, mixed>>

Stores == Serve("update_candle_store", UpdateCandleStore) /\ UNCHANGED chartVars

StoresAnswered ==
  /\ Apply("update_candle_store") /\ mixed' = FALSE
  /\ late' = Pending("live_update")
  /\ UNCHANGED market

Live == Serve("live_update", LiveUpdate) /\ UNCHANGED chartVars

LiveAnswered ==
  /\ Apply("live_update")
  /\ mixed' = (mixed \/ (late /\ calls["live_update"].answer # NoUpdate))
  /\ late' = FALSE
  /\ UNCHANGED market

Charts ==
  \/ Advance
  \/ \E m \in Markets : WriteRow(m) \/ AddTick(m)
  \/ Choose \/ LiveTick \/ Stores \/ StoresAnswered \/ Live \/ LiveAnswered
------------------------------------------------------------------------------
\* Whether the stores hold what the dropdowns ask for.
Settled == Shows(ChartsLayout) /\ ~mixed /\ ~Pending("update_candle_store")
                                         /\ ~Pending("render_page")

\* Unless a live answer overtook a change of selection, the chart is of the
\* selection: its bars are of that market and of windows of that timeframe, in
\* ascending order, and live updates go on from the end of the last; the rows
\* of the order book are of that market and follow one another up to the
\* cursor (callbacks.update_candle_store, live_update).
ChartIsOfSelection == Settled =>
  LET bars == props.candle_store
      book == props.ob_store
      n == props.tf_dropdown
  IN /\ props.active_tf = n /\ props.ob_cursor_symbol = props.symbol_dropdown
     /\ \A i \in DOMAIN bars :
          /\ bars[i].market = props.symbol_dropdown /\ bars[i].ts % n = 0
          /\ bars[i].of \subseteq bars[i].ts..bars[i].ts + n - 1
          /\ i > 1 => bars[i - 1].ts < bars[i].ts
     /\ props.last_ts = IF bars = <<>> THEN None ELSE LastSource(n, bars[Len(bars)].ts)
     /\ \A i \in DOMAIN book :
          /\ book[i].market = props.symbol_dropdown
          /\ book[i].id = props.ob_cursor - (Len(book) - i)

\* Unless so overtaken, no base row between the first bar and the last is
\* missing, except the last row of its window, which comes when the clock has
\* closed the window (data.fetch_history, fetch_new_candles, last_source_ts).
ChartHasNoHoles == Settled /\ props.candle_store # <<>> =>
  LET bars == props.candle_store
      n == props.tf_dropdown
  IN \A t \in rows[props.symbol_dropdown] :
       bars[1].ts <= t /\ t <= props.last_ts =>
         \E i \in DOMAIN bars : /\ bars[i].ts = Opening(t, n)
                                /\ t \in bars[i].of \/ (n > 1 /\ t = bars[i].ts + n - 1)
==================================================================================
