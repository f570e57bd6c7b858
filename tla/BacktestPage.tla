------------------------------- MODULE BacktestPage -------------------------------
(***************************************************************************)
(* The form of the backtests page, the history of runs and the chart of a   *)
(* trade (dashboard/callbacks_backtest.py over backtest_data.py).  The bot  *)
(* service is external here: it accepts a run and reports its trades once   *)
(* it is done (what goes on in it, and the polling itself, is module        *)
(* Backtests).  Dates are "first" and "last", so that a range of dates is   *)
(* known by the market it is of.                                            *)
(***************************************************************************)
EXTENDS Dash, Sequences

CONSTANTS
  Exchanges,   (* the options of the exchange dropdown, the first its value *)
  Listed,      (* exchange -> the symbols snapshot_1s has rows of           *)
  Strategies,  (* the files of the strategies                               *)
  Hashes,      (* the versions some run is of                               *)
  TradesOfRun  (* the trades of every run                                   *)

ASSUME BacktestPageAssumption ==
  /\ Exchanges \in Seq(DOMAIN Listed) /\ Exchanges # <<>> /\ TradesOfRun \in Nat
  /\ DOMAIN Listed = {Exchanges[i] : i \in DOMAIN Exchanges}
  /\ \A e \in DOMAIN Listed : Listed[e] \in Seq({Listed[e][i] : i \in DOMAIN Listed[e]})

VARIABLES
  runs,       \* the runs accepted: what was asked for
  hasty,      \* history: the run button was clicked while the form was filled in,
              \* or before the page was shown again
  strayed,    \* history: a strategy was chosen while a history of another was
              \* under way, or the trades replaced under a click on one, or the
              \* page shown again under either
  pressed     \* history: the trade whose chart was asked for

backtestVars == <<runs, hasty, strayed, pressed>>
------------------------------------------------------------------------------
BacktestCallbacks ==
  [load_strategy_options |->
     Callback({"strategies_refresh"}, {}, {"strategy_options"}, {}, TRUE),
   load_symbol_options |->
     Callback({"exchange_dd"}, {}, {"symbol_options", "symbol_dd", "symbol_data"}, {}, TRUE),
   update_date_range |->
     Callback({"symbol_dd"}, {"symbol_data", "exchange_dd"}, {"date_range"}, {}, TRUE),
   on_strategy_select |->
     Callback({"strategy_dd"}, {}, {"code_view", "hash_options", "history_table"}, {}, TRUE),
   on_hash_filter |->
     Callback({"hash_filter_dd"}, {"strategy_dd"}, {}, {"history_table"}, FALSE),
   on_run_click |->
     Callback({"run_btn"}, {"strategy_dd", "exchange_dd", "symbol_dd", "date_range"},
              {"run_id_store", "poll_disabled"}, {}, FALSE),
   on_poll |->
     Callback({"poll_interval"}, {"run_id_store", "strategy_dd", "exchange_dd", "symbol_dd"},
              {"trades_store", "trades_div"}, {"poll_disabled", "history_table"}, FALSE),
   on_trade_chart_click |->
     Callback({"trade_chart_btn"}, {"exchange_dd", "symbol_dd", "trades_store"},
              {"chart_candles_store", "chart_trade_idx"}, {}, FALSE),
   build_inline_chart |->
     Callback({"chart_candles_store", "chart_trade_idx"}, {"trades_store"},
              {"inline_candlestick"}, {}, FALSE)]

BacktestLayout ==
  [strategies_refresh |-> 0, strategy_options |-> {}, strategy_dd |-> None, code_view |-> None,
   exchange_dd |-> Exchanges[1], symbol_options |-> {}, symbol_dd |-> None, symbol_data |-> <<>>,
   date_range |-> None, run_btn |-> 0, run_id_store |-> None,
   poll_interval |-> 0, poll_disabled |-> TRUE,
   trades_store |-> <<>>, trades_div |-> <<>>, trade_chart_btn |-> 0,
   chart_candles_store |-> None, chart_trade_idx |-> None, inline_candlestick |-> None,
   hash_options |-> {}, hash_filter_dd |-> None, history_table |-> None]

Market(exchange, symbol) == [exchange |-> exchange, symbol |-> symbol]

\* load_strategy_options; nothing when the bot service does not answer.
LoadStrategyOptions(w) == {[strategy_options |-> found] : found \in {Strategies, {}}}

\* load_symbol_options: the first symbol there is, if any, is chosen.
LoadSymbolOptions(w) ==
  {[symbol_options |-> {found[i].symbol : i \in DOMAIN found},
    symbol_dd |-> IF found = <<>> THEN None ELSE found[1].symbol, symbol_data |-> found] :
     found \in {[i \in DOMAIN Listed[w.exchange_dd] |->
                   Market(w.exchange_dd, Listed[w.exchange_dd][i])], <<>>}}

\* A faulty update_date_range that does not look at the exchange.
DateRangeOfSymbol(w) ==
  [date_range |-> IF w.symbol_dd = None THEN None
                  ELSE CHOOSE m \in {Market(e, w.symbol_dd) : e \in DOMAIN Listed} : TRUE]

UpdateDateRange(w) ==
  LET data == w.symbol_data
      found == {data[i] : i \in {j \in DOMAIN data : /\ data[j].symbol = w.symbol_dd
                                                     /\ data[j].exchange = w.exchange_dd}}
  IN [date_range |-> IF found = {} THEN None ELSE CHOOSE m \in found : TRUE]

\* fetch_run_history and _build_history: the rows, known by what they are
\* selected by; no table when there are none, or QuestDB does not answer.
HistoryOf(strategy, hash) == {None, [strategy |-> strategy, hash |-> hash]}

\* on_strategy_select
StrategySelect(w) ==
  IF w.strategy_dd = None
  THEN {[code_view |-> None, hash_options |-> {}, history_table |-> None]}
  ELSE {[code_view |-> w.strategy_dd, hash_options |-> IF h = None THEN {} ELSE Hashes,
         history_table |-> h] : h \in HistoryOf(w.strategy_dd, None)}

HashFilter(w) == {[history_table |-> h] : h \in HistoryOf(w.strategy_dd, w.hash_filter_dd)}

\* on_run_click with the form w: the answer and the runs accepted then.  The
\* answer may be lost, with the request or without it.
RunClick(w) ==
  LET asked == [of |-> Market(w.exchange_dd, w.symbol_dd), dates |-> w.date_range]
      fails == [run_id_store |-> None, poll_disabled |-> TRUE]
  IN IF w.strategy_dd = None \/ w.symbol_dd = None \/ w.date_range = None
     THEN {<<[poll_disabled |-> TRUE], runs>>}
     ELSE {<<[run_id_store |-> Len(runs) + 1, poll_disabled |-> FALSE], Append(runs, asked)>>,
           <<fails, runs>>, <<fails, Append(runs, asked)>>}

\* on_poll: the run goes on; it has failed or there is no answer; it is done.
OnPoll(w) ==
  LET traded == [i \in 1..TradesOfRun |-> [run |-> w.run_id_store, nr |-> i]]
  IN IF w.run_id_store = None THEN {[poll_disabled |-> TRUE]}
     ELSE {[poll_disabled |-> FALSE], [poll_disabled |-> TRUE]} \union
          {[poll_disabled |-> TRUE, trades_store |-> traded, trades_div |-> traded,
            history_table |-> h] : h \in HistoryOf(w.strategy_dd, None)}

\* on_trade_chart_click: the button of the trade at that place of the table.
TradeChartClick(w) ==
  {IF w.trade_chart_btn \notin DOMAIN w.trades_store THEN NoUpdate
   ELSE [chart_candles_store |-> Market(w.exchange_dd, w.symbol_dd),
         chart_trade_idx |-> w.trade_chart_btn]}

\* A faulty build_inline_chart that highlights the trade after.
HighlightNext(w) ==
  [inline_candlestick |-> IF w.chart_trade_idx + 1 \in DOMAIN w.trades_store
                          THEN w.trades_store[w.chart_trade_idx + 1] ELSE None]

BuildInlineChart(w) ==
  [inline_candlestick |-> IF w.chart_trade_idx \in DOMAIN w.trades_store
                          THEN w.trades_store[w.chart_trade_idx] ELSE None]
------------------------------------------------------------------------------
BacktestInit == runs = <<>> /\ hasty = FALSE /\ strayed = FALSE /\ pressed = None

\* A call may be under way from when the page was shown before: what it asks
\* for, or answers, is of the choices made then.
BacktestReset ==
  /\ runs' = <<>> /\ pressed' = None
  /\ hasty' = ("on_run_click" \in DOMAIN calls')
  /\ strayed' = (DOMAIN calls' \intersect {"on_hash_filter", "on_poll", "on_trade_chart_click",
                                           "build_inline_chart"} # {})

\* Calls under way that write what one chooses after.
FillingIn == Pending("load_symbol_options") \/ Pending("update_date_range")

Charting == Pending("on_trade_chart_click") \/ Pending("build_inline_chart")

ChooseExchange ==
  /\ Shows(BacktestLayout)
  /\ \E e \in DOMAIN Listed : e # props.exchange_dd /\ UserInput([exchange_dd |-> e])
  /\ UNCHANGED backtestVars

ChooseSymbol ==
  /\ Shows(BacktestLayout)
  /\ \E s \in props.symbol_options : s # props.symbol_dd /\ UserInput([symbol_dd |-> s])
  /\ UNCHANGED backtestVars

RefreshStrategies ==
  /\ Shows(BacktestLayout) /\ UserInput([strategies_refresh |-> 1])
  /\ UNCHANGED backtestVars

ChooseStrategy ==
  /\ Shows(BacktestLayout)
  /\ \E s \in props.strategy_options : s # props.strategy_dd /\ UserInput([strategy_dd |-> s])
  /\ strayed' = (strayed \/ Writers("history_table") \ {"on_strategy_select"} # {})
  /\ UNCHANGED <<runs, hasty, pressed>>

ChooseHash ==
  /\ Shows(BacktestLayout)
  /\ \E h \in {None} \union props.hash_options :
       h # props.hash_filter_dd /\ UserInput([hash_filter_dd |-> h])
  /\ UNCHANGED backtestVars

ClickRun ==
  /\ Shows(BacktestLayout) /\ UserInput([run_btn |-> 1])
  /\ hasty' = (hasty \/ FillingIn)
  /\ UNCHANGED <<runs, strayed, pressed>>

PollTick ==
  /\ Shows(BacktestLayout) /\ ~props.poll_disabled /\ Input([poll_interval |-> 0])
  /\ UNCHANGED <<inputs, backtestVars>>

ClickTrade ==
  /\ Shows(BacktestLayout)
  /\ \E i \in DOMAIN props.trades_div :
       UserInput([trade_chart_btn |-> i]) /\ pressed' = props.trades_div[i]
  /\ UNCHANGED <<runs, hasty, strayed>>

\* on_run_click, with the request to the service.
RunAsked ==
  /\ Served("on_run_click")
  /\ \E outcome \in RunClick(calls["on_run_click"].with) :
       /\ Serve("on_run_click", LAMBDA w : {outcome[1]})
       /\ runs' = outcome[2]
  /\ UNCHANGED <<hasty, strayed, pressed>>

\* on_poll: the trades of a later run may come between a click on a trade and
\* its chart.
PollAnswered ==
  /\ Apply("on_poll")
  /\ strayed' = (strayed \/ /\ "trades_store" \in DOMAIN calls["on_poll"].answer
                            /\ Charting)
  /\ UNCHANGED <<runs, hasty, pressed>>

Asked(c, Handler(_)) == (Serve(c, Handler) \/ Apply(c)) /\ UNCHANGED backtestVars

BacktestForm ==
  \/ ChooseExchange \/ ChooseSymbol \/ RefreshStrategies \/ ChooseStrategy \/ ChooseHash
  \/ ClickRun \/ PollTick \/ ClickTrade
  \/ RunAsked
  \/ Apply("on_run_click") /\ UNCHANGED backtestVars
  \/ PollAnswered
  \/ Asked("load_strategy_options", LoadStrategyOptions)
  \/ Asked("load_symbol_options", LoadSymbolOptions)
  \/ Reply("update_date_range", UpdateDateRange) /\ UNCHANGED backtestVars
  \/ Asked("on_strategy_select", StrategySelect)
  \/ Asked("on_hash_filter", HashFilter)
  \/ Serve("on_poll", OnPoll) /\ UNCHANGED backtestVars
  \/ Asked("on_trade_chart_click", TradeChartClick)
  \/ Reply("build_inline_chart", BuildInlineChart) /\ UNCHANGED backtestVars
------------------------------------------------------------------------------
\* Once the form is filled in, the range of dates is that of the market chosen,
\* which the exchange has; a run is of such a form unless its button was clicked
\* before (load_symbol_options, update_date_range, on_run_click).
FormIsCoherent == Shows(BacktestLayout) =>
  /\ ~FillingIn => \/ props.symbol_dd = None /\ props.date_range = None
                   \/ props.date_range = Market(props.exchange_dd, props.symbol_dd)
  /\ ~hasty => \A i \in DOMAIN runs : runs[i].dates = runs[i].of

\* Unless choices and older answers crossed, the history is that of the
\* strategy chosen, and the chart highlights the trade pressed
\* (on_strategy_select, on_hash_filter, on_poll, build_inline_chart).
ViewsAreOfChoices == (Shows(BacktestLayout) /\ ~strayed) =>
  /\ Writers("history_table") = {} /\ props.history_table # None =>
       props.history_table.strategy = props.strategy_dd
  /\ (pressed # None /\ ~Charting) =>
       props.inline_candlestick = pressed

\* What the backtests page sends and shows is what was chosen.
BacktestPageFollows == FormIsCoherent /\ ViewsAreOfChoices
==================================================================================
