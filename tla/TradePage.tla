-------------------------------- MODULE TradePage --------------------------------
(***************************************************************************)
(* The page that shows one trade of a backtest among the bars around it     *)
(* (dashboard/callbacks_chart.py).  Its address names a run and the place   *)
(* of the trade, counted from 0; the bot service knows the trades of the    *)
(* runs that are done until it forgets them.                                *)
(***************************************************************************)
EXTENDS BacktestPage

CONSTANT DoneRuns  (* the runs that are done *)

\* No value is neither a place of a trade nor a trade.
ASSUME TradePageAssumption ==
  None \notin 0..TradesOfRun /\ None \notin [run : DoneRuns, nr : 1..TradesOfRun]
------------------------------------------------------------------------------
TradeCallbacks ==
  [load_chart_data |->
     Callback({"url"}, {}, {"chart_candle_store", "chart_trades_store", "chart_selected_idx"},
              {}, TRUE),
   build_chart |->
     Callback({"chart_candle_store", "chart_trades_store", "chart_selected_idx"}, {},
              {"chart_candlestick"}, {}, TRUE),
   update_trade_info |->
     Callback({"chart_trades_store", "chart_selected_idx"}, {}, {"chart_trade_info"}, {}, TRUE),
   update_all_trades |->
     Callback({"chart_trades_store", "chart_selected_idx"}, {}, {"chart_all_trades"}, {}, TRUE)]

TradeLayout ==
  [chart_candle_store |-> None, chart_trades_store |-> <<>>, chart_selected_idx |-> None,
   chart_candlestick |-> None, chart_trade_info |-> None, chart_all_trades |-> <<>>]

\* What an address names: a run and the place of a trade; None for neither.
TradeAddresses == [run : DoneRuns, idx : 0..TradesOfRun]

TradesDone(run) == [i \in 1..TradesOfRun |-> [run |-> run, nr |-> i]]

\* A faulty load_chart_data that counts the trades from 1.
LoadNext(w) ==
  IF w.url.page # "/chart" THEN {NoUpdate}
  ELSE {[chart_candle_store |-> bars, chart_trades_store |-> done,
         chart_selected_idx |-> IF w.url.of = None THEN 0 ELSE w.url.of.idx + 1] :
          bars \in {None, w.url.of},
          done \in {<<>>} \union (IF w.url.of = None THEN {} ELSE {TradesDone(w.url.of.run)})}

\* load_chart_data: the bars around the trade, known by the address, and the
\* trades of the run; either query may give none.
LoadChart(w) ==
  IF w.url.page # "/chart" THEN {NoUpdate}
  ELSE {[chart_candle_store |-> bars, chart_trades_store |-> done,
         chart_selected_idx |-> IF w.url.of = None THEN 0 ELSE w.url.of.idx] :
          bars \in {None, w.url.of},
          done \in {<<>>} \union (IF w.url.of = None THEN {} ELSE {TradesDone(w.url.of.run)})}

\* The trade of that place, None when there is none.
At(done, idx) == IF idx # None /\ idx < Len(done) THEN done[idx + 1] ELSE None

BuildChart(w) ==
  [chart_candlestick |-> [bars |-> w.chart_candle_store, marked |-> w.chart_trades_store,
                          golden |-> At(w.chart_trades_store, w.chart_selected_idx)]]

TradeInfo(w) == [chart_trade_info |-> At(w.chart_trades_store, w.chart_selected_idx)]

\* Each row with whether it is highlighted.
AllTrades(w) ==
  [chart_all_trades |-> [i \in DOMAIN w.chart_trades_store |->
                           [trade |-> w.chart_trades_store[i],
                            selected |-> w.chart_selected_idx = i - 1]]]

TradeViewer ==
  \/ Serve("load_chart_data", LoadChart) \/ Apply("load_chart_data")
  \/ Reply("build_chart", BuildChart)
  \/ Reply("update_trade_info", TradeInfo)
  \/ Reply("update_all_trades", AllTrades)
------------------------------------------------------------------------------
\* The chart, the card and the table show the trades the service knew and single
\* out the trade the address names, if it is one of them.
ViewerIsOf(address) ==
  LET done == props.chart_trades_store
      named == IF address # None /\ address.idx < Len(done)
               THEN [run |-> address.run, nr |-> address.idx + 1] ELSE None
  IN /\ props.chart_candlestick.bars \in {None, address}
     /\ props.chart_candlestick.marked = done
     /\ props.chart_candlestick.golden = named /\ props.chart_trade_info = named
     /\ {row.trade : row \in {props.chart_all_trades[i] : i \in
            {j \in DOMAIN done : props.chart_all_trades[j].selected}}} = {named} \ {None}
==================================================================================
