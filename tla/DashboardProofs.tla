---------------------------- MODULE DashboardProofs ----------------------------
(***************************************************************************)
(* Proofs about the dashboard, for any markets, files, bots, runs and       *)
(* trades, and any number of inputs and links.                              *)
(*                                                                          *)
(* Ordered says what Dash keeps of itself: what is under way is of the page *)
(* that shows; the chain of a call only leads downhill, so that no write is *)
(* hidden from a callback that reads it; a call that was sent has read what *)
(* its page still holds; and the page is that of the address or is about to *)
(* be replaced.  A step that is about some properties leaves the callbacks  *)
(* of the others alone (About).  On these stand what each callback has      *)
(* drawn, or will draw when it is called: of the trade and of the strategy  *)
(* the address names, of the filters chosen, of the bot whose row was       *)
(* clicked, and of the form, the history and the trade chosen for a run.    *)
(***************************************************************************)
EXTENDS Dashboard, WellFoundedInduction, TLAPS

\* A call that is made, or one that is sent, has the parts of one.
CallShape(k) == k = [chain |-> k.chain, with |-> k.with, answer |-> k.answer]

\* What is under way is of callbacks on the page, and so are the answers.
Placed ==
  /\ props = [x \in DOMAIN props |-> props[x]]
  /\ calls = [c \in DOMAIN calls |-> calls[c]]
  /\ DOMAIN calls \subseteq DOMAIN Graph
  /\ \A c \in DOMAIN calls :
       /\ CallShape(calls[c]) /\ IsOn(c, props)
       /\ calls[c].answer # None =>
            calls[c].with # Nothing /\ DOMAIN calls[c].answer \subseteq Outputs(c)

\* What is called when the properties of new are written on the page p.
Anew(new, chain, p) ==
  {c \in DOMAIN Graph : Graph[c].ins \intersect new # {} /\ c \notin chain /\ IsOn(c, p)}

\* The calls f once those that the properties of new call are added to cs.
CalledIn(f, cs, p, new, chain) ==
  /\ DOMAIN f = Anew(new, chain, p) \union DOMAIN cs
  /\ \A c \in DOMAIN f : f[c] = IF c \in Anew(new, chain, p) THEN NewCall(chain) ELSE cs[c]

\* The call k1 is k, which may have been sent from the page p.
SentOrNot(k1, k, c, p) ==
  \/ k1 = k
  \/ k.with = Nothing /\ k1 = [k EXCEPT !.with = [x \in Reads[c] |-> p[x]]]

\* The calls f are cs, of which those that need not wait are sent.
SentIn(f, cs, p) ==
  /\ DOMAIN f = DOMAIN cs /\ f = [c \in DOMAIN cs |-> f[c]]
  /\ \A c \in DOMAIN cs :
       /\ SentOrNot(f[c], cs[c], c, p)
       /\ cs[c].with = Nothing /\ Feeders[c] \intersect DOMAIN cs = {} =>
            f[c] = [cs[c] EXCEPT !.with = [x \in Reads[c] |-> p[x]]]

\* What a step writes that leaves the page.
Writes(new) ==
  /\ DOMAIN props' = DOMAIN props
  /\ props' = [x \in DOMAIN props' |-> props'[x]]
  /\ \A x \in DOMAIN new : props'[x] = new[x]
  /\ \A x \in DOMAIN props \ DOMAIN new : props'[x] = props[x]

\* What it calls.
Calls(cs, new, chain) ==
  \E f : CalledIn(f, cs, props, DOMAIN new, chain) /\ SentIn(calls', f, props')
------------------------------------------------------------------------------
\* The callbacks of an Input are those that name it.
LEMMA ReadersAre ==
  ASSUME NEW x
  PROVE  /\ x \in DOMAIN Readers <=> \E c \in DOMAIN Graph : x \in Graph[c].ins
         /\ x \in DOMAIN Readers => Readers[x] = {c \in DOMAIN Graph : x \in Graph[c].ins}
  BY DEF Readers

\* What Called adds to the calls.
LEMMA CalledAre ==
  ASSUME NEW cs, NEW p, NEW new, NEW chain
  PROVE  CalledIn(Called(cs, p, new, chain), cs, p, new, chain)
  <1> DEFINE read == UNION {Readers[x] : x \in new \intersect DOMAIN Readers}
  <1>1. read = {c \in DOMAIN Graph : Graph[c].ins \intersect new # {}}
    <2>1. ASSUME NEW c \in read PROVE c \in DOMAIN Graph /\ Graph[c].ins \intersect new # {}
      <3>1. PICK x \in new \intersect DOMAIN Readers : c \in Readers[x] OBVIOUS
      <3> QED BY <3>1, ReadersAre
    <2>2. ASSUME NEW c \in DOMAIN Graph, NEW x \in Graph[c].ins \intersect new PROVE c \in read
      <3>1. x \in DOMAIN Readers /\ c \in Readers[x] BY <2>2, ReadersAre
      <3> QED BY <3>1, <2>2
    <2> QED BY <2>1, <2>2
  <1> DEFINE f == [c \in {c \in read \ chain : IsOn(c, p)} |-> NewCall(chain)]
  <1>2. Called(cs, p, new, chain) = f ++ cs BY DEF Called
  <1>3. DOMAIN f = Anew(new, chain, p) /\ \A c \in Anew(new, chain, p) : f[c] = NewCall(chain)
    BY <1>1 DEF Anew
  <1> HIDE DEF f, read
  <1> QED BY <1>2, <1>3 DEF ++, CalledIn

\* What Sent makes of them.
LEMMA SentAre ==
  ASSUME NEW cs, NEW p
  PROVE  SentIn(Sent(cs, p), cs, p)
  BY DEF Sent, SentIn, SentOrNot

\* A step that writes new, some calls cs going on.
LEMMA WrittenDoes ==
  ASSUME Placed, NEW cs, NEW new, NEW chain, Written(cs, new, chain),
         DOMAIN new \subseteq DOMAIN props
  PROVE  Writes(new) /\ Calls(cs, new, chain)
  <1>1. props' = new ++ props BY DEF Written
  <1>2. Writes(new)
    <2>1. DOMAIN new \union DOMAIN props = DOMAIN props OBVIOUS
    <2>2. /\ DOMAIN props' = DOMAIN props
          /\ props' = [x \in DOMAIN props |-> props'[x]]
      BY <1>1, <2>1 DEF ++
    <2>3. /\ \A x \in DOMAIN new : props'[x] = new[x]
          /\ \A x \in DOMAIN props \ DOMAIN new : props'[x] = props[x]
      BY <1>1 DEF ++
    <2> QED BY <2>2, <2>3 DEF Writes
  <1>3. PICK p, xs : p = props' /\ xs = DOMAIN new OBVIOUS
  <1>4. PICK f : f = Called(cs, p, xs, chain) OBVIOUS
  <1>5. calls' = Sent(f, p) BY <1>1, <1>3, <1>4 DEF Written
  <1>6. CalledIn(f, cs, p, xs, chain) BY <1>4, CalledAre
  <1>7. CalledIn(f, cs, props, xs, chain)
    <2>1. \A c : IsOn(c, p) = IsOn(c, props) BY <1>2, <1>3 DEF IsOn, Writes
    <2>2. Anew(xs, chain, p) = Anew(xs, chain, props) BY <2>1 DEF Anew
    <2> QED BY <1>6, <2>2 DEF CalledIn
  <1>8. SentIn(calls', f, p) BY <1>5, SentAre
  <1> QED BY <1>2, <1>3, <1>7, <1>8 DEF Calls
------------------------------------------------------------------------------
\* The callbacks, page by page.
LEMMA GraphIs ==
  /\ DOMAIN Graph = {"render_page"} \union DOMAIN ChartCallbacks \union DOMAIN ProfileCallbacks
                      \union DOMAIN BotCallbacks \union DOMAIN BacktestCallbacks
                      \union DOMAIN TradeCallbacks \union DOMAIN StrategyCallbacks
  /\ Graph["render_page"] = Callback({"url"}, {}, {}, {}, TRUE)
  /\ \A c \in DOMAIN ChartCallbacks : Graph[c] = ChartCallbacks[c]
  /\ \A c \in DOMAIN ProfileCallbacks : Graph[c] = ProfileCallbacks[c]
  /\ \A c \in DOMAIN BotCallbacks : Graph[c] = BotCallbacks[c]
  /\ \A c \in DOMAIN BacktestCallbacks : Graph[c] = BacktestCallbacks[c]
  /\ \A c \in DOMAIN TradeCallbacks : Graph[c] = TradeCallbacks[c]
  /\ \A c \in DOMAIN StrategyCallbacks : Graph[c] = StrategyCallbacks[c]
  <1> DEFINE r == [render_page |-> Callback({"url"}, {}, {}, {}, TRUE)]
  <1>1. Graph = r ++ ChartCallbacks ++ ProfileCallbacks ++ BotCallbacks ++ BacktestCallbacks
                  ++ TradeCallbacks ++ StrategyCallbacks
    BY DashboardAssumption DEF AllCallbacks
  <1>2. DOMAIN r = {"render_page"} /\ r["render_page"] = Callback({"url"}, {}, {}, {}, TRUE)
    OBVIOUS
  <1>3. /\ DOMAIN ChartCallbacks = {"update_candle_store", "live_update"}
        /\ DOMAIN ProfileCallbacks =
             {"auto_load_on_profiles_visit", "sync_profile_dropdown", "load_profile_fields",
              "save_profile", "create_profile", "delete_profile", "switch_active_profile",
              "save_to_file", "load_from_file"}
        /\ DOMAIN BotCallbacks = {"refresh_bot_overview", "clear_leaderboard_selection",
                                  "select_bot", "show_bot_detail"}
        /\ DOMAIN BacktestCallbacks =
             {"load_strategy_options", "load_symbol_options", "update_date_range",
              "on_strategy_select", "on_hash_filter", "on_run_click", "on_poll",
              "on_trade_chart_click", "build_inline_chart"}
        /\ DOMAIN TradeCallbacks = {"load_chart_data", "build_chart", "update_trade_info",
                                    "update_all_trades"}
        /\ DOMAIN StrategyCallbacks = {"load_strategies", "set_folder_filter", "render_cards",
                                       "populate_detail"}
    BY DEF ChartCallbacks, ProfileCallbacks, BotCallbacks, BacktestCallbacks, TradeCallbacks,
           StrategyCallbacks
  <1> HIDE DEF r
  <1> QED BY <1>1, <1>2, <1>3 DEF ++

\* The properties of each page, and those every page has.
Base == {"url", "hover_profile_store"}
PageNames == {{}, DOMAIN ChartsLayout, DOMAIN ProfilesLayout, DOMAIN BotsLayout,
              DOMAIN BacktestLayout, DOMAIN TradeLayout, DOMAIN BrowserLayout,
              DOMAIN DetailLayout(None)}

OnPage(names) == DOMAIN props = Base \union names
PageKnown == \E names \in PageNames : OnPage(names)

\* The properties of each page.
LEMMA ChartsNames ==
  DOMAIN ChartsLayout = {"symbol_dropdown", "tf_dropdown", "live_interval", "candle_store", "last_ts",
                         "ob_store", "ob_cursor", "ob_cursor_symbol", "active_tf"}
  BY DEF ChartsLayout

\* Those of the profiles.
LEMMA ProfilesNames ==
  DOMAIN ProfilesLayout = {"profile_active_options", "profile_active_dd", "profile_field_check",
                           "profile_save_btn", "profile_create_btn", "profile_delete_btn",
                           "profile_save_file_btn", "profile_load_file_btn"}
  BY DEF ProfilesLayout

\* Those of the bots.
LEMMA BotsNames ==
  DOMAIN BotsLayout = {"bot_mode_toggle", "bot_interval", "bot_leaderboard", "bot_selected_rows",
                       "bot_selected", "bot_detail"}
  BY DEF BotsLayout

\* Those of the backtests.
LEMMA BacktestNames ==
  DOMAIN BacktestLayout =
    {"strategies_refresh", "strategy_options", "strategy_dd", "code_view", "exchange_dd",
     "symbol_options", "symbol_dd", "symbol_data", "date_range", "run_btn", "run_id_store",
     "poll_interval", "poll_disabled", "trades_store", "trades_div", "trade_chart_btn",
     "chart_candles_store", "chart_trade_idx", "inline_candlestick", "hash_options",
     "hash_filter_dd", "history_table"}
  BY DEF BacktestLayout

\* Those of a trade.
LEMMA TradeNames ==
  DOMAIN TradeLayout = {"chart_candle_store", "chart_trades_store", "chart_selected_idx",
                        "chart_candlestick", "chart_trade_info", "chart_all_trades"}
  BY DEF TradeLayout

\* Those of the strategies.
LEMMA BrowserNames ==
  DOMAIN BrowserLayout = {"strat_refresh_btn", "strat_all_data", "strat_group_options",
                          "strat_tag_options", "strat_filter_btn", "strat_folder_filter",
                          "strat_filter_color", "strat_group_filter", "strat_tag_filter",
                          "strat_cards_grid"}
  BY DEF BrowserLayout

\* Those of one strategy, whichever it is.
LEMMA DetailNames ==
  \A n : DOMAIN DetailLayout(n) = {"strat_detail_name", "strat_detail"}
  BY DEF DetailLayout

\* No two pages share a property.
LEMMA PagesAreApart ==
  /\ \A a, b \in PageNames : a # b => a \intersect b = {}
  /\ \A a \in PageNames : a \intersect Base = {}
  BY ChartsNames, ProfilesNames, BotsNames, BacktestNames, TradeNames, BrowserNames, DetailNames
  DEF PageNames, Base

\* What a callback is about, and what it reads.
LEMMA PartsAre == \A c \in DOMAIN Graph : /\ Parts[c] = Graph[c].ins \union Outputs(c)
                                          /\ Reads[c] = Graph[c].ins \union Graph[c].states
  BY DEF Parts, Reads

\* The callbacks of a page have a part on it, and write nothing of another.
BelongTo(callbacks, names) ==
  \A c \in callbacks : /\ c \in DOMAIN Graph
                       /\ Parts[c] \intersect names # {}
                       /\ Graph[c].ins \subseteq {"url"} \union names
                       /\ Outputs(c) \subseteq names

\* The charts' callbacks, ...
LEMMA ChartsBelong == BelongTo(DOMAIN ChartCallbacks, DOMAIN ChartsLayout)
  BY GraphIs, PartsAre, ChartsNames
  DEF BelongTo, ChartCallbacks, Callback, Outputs, ChartStores, Base

\* ... those of the bots, ...
LEMMA BotsBelong == BelongTo(DOMAIN BotCallbacks, DOMAIN BotsLayout)
  BY GraphIs, PartsAre, BotsNames DEF BelongTo, BotCallbacks, Callback, Outputs, Base

\* ... of the backtests, ...
LEMMA BacktestBelong == BelongTo(DOMAIN BacktestCallbacks, DOMAIN BacktestLayout)
  BY SMTT(30), GraphIs, PartsAre, BacktestNames DEF BelongTo, BacktestCallbacks, Callback, Outputs, Base

\* ... of a trade, ...
LEMMA TradeBelong == BelongTo(DOMAIN TradeCallbacks, DOMAIN TradeLayout)
  BY GraphIs, PartsAre, TradeNames DEF BelongTo, TradeCallbacks, Callback, Outputs, Base

\* ... of the strategies ...
LEMMA BrowserBelong ==
  BelongTo({"load_strategies", "set_folder_filter", "render_cards"}, DOMAIN BrowserLayout)
  BY GraphIs, PartsAre, BrowserNames DEF BelongTo, StrategyCallbacks, Callback, Outputs, Base

\* ... and of one strategy belong to their page.
LEMMA DetailBelongs == BelongTo({"populate_detail"}, DOMAIN DetailLayout(None))
  BY GraphIs, PartsAre, DetailNames DEF BelongTo, StrategyCallbacks, Callback, Outputs, Base

\* Those of the profiles page write the profiles, too; one is called on any page.
LEMMA ProfilesBelong ==
  \A c \in DOMAIN ProfileCallbacks :
    /\ c \in DOMAIN Graph
    /\ c # "auto_load_on_profiles_visit" => Parts[c] \intersect DOMAIN ProfilesLayout # {}
    /\ Graph[c].ins \subseteq Base \union DOMAIN ProfilesLayout
    /\ Outputs(c) \subseteq {"hover_profile_store"} \union DOMAIN ProfilesLayout
  <1> SUFFICES ASSUME NEW c \in DOMAIN ProfileCallbacks
               PROVE  /\ c \in DOMAIN Graph
                      /\ c # "auto_load_on_profiles_visit" => Parts[c] \intersect DOMAIN ProfilesLayout # {}
                      /\ Graph[c].ins \subseteq Base \union DOMAIN ProfilesLayout
                      /\ Outputs(c) \subseteq {"hover_profile_store"} \union DOMAIN ProfilesLayout
    OBVIOUS
  <1> DEFINE cb == ProfileCallbacks[c]
  <1>1. c \in DOMAIN Graph /\ Graph[c] = cb BY GraphIs
  <1>2. Parts[c] = cb.ins \union cb.outs \union cb.more BY <1>1, PartsAre DEF Outputs
  <1>3. c # "auto_load_on_profiles_visit"
          => (cb.ins \union cb.outs \union cb.more) \intersect DOMAIN ProfilesLayout # {}
    BY ProfilesNames DEF ProfileCallbacks, Callback
  <1>4. cb.ins \subseteq Base \union DOMAIN ProfilesLayout
    BY ProfilesNames DEF ProfileCallbacks, Callback, Base
  <1>5. cb.outs \union cb.more \subseteq {"hover_profile_store"} \union DOMAIN ProfilesLayout
    BY ProfilesNames DEF ProfileCallbacks, Callback
  <1> HIDE DEF cb
  <1> QED BY <1>1, <1>2, <1>3, <1>4, <1>5 DEF Outputs

\* A callback of a page is called only on that page.
LEMMA SamePage ==
  ASSUME NEW there \in PageNames, NEW p, DOMAIN p = Base \union there,
         NEW names \in PageNames, NEW c, Parts[c] \intersect names # {}, IsOn(c, p)
  PROVE  there = names
  <1>1. PICK x \in Parts[c] \intersect names : x \in Base \union there
    BY DEF IsOn
  <1>2. x \notin Base BY PagesAreApart, <1>1
  <1> QED BY PagesAreApart, <1>1, <1>2

\* The page a callback of names is on is the page of names.
LEMMA OnItsPage ==
  ASSUME PageKnown, NEW names \in PageNames, NEW c, Parts[c] \intersect names # {}, IsOn(c, props)
  PROVE  OnPage(names)
  <1>1. PICK there \in PageNames : DOMAIN props = Base \union there BY DEF PageKnown, OnPage
  <1>2. there = names BY <1>1, SamePage
  <1> QED BY <1>1, <1>2 DEF OnPage

\* A page that shows is the one the tab is on.
LEMMA ShownPage ==
  ASSUME PageKnown, NEW names \in PageNames, names # {}, names \subseteq DOMAIN props
  PROVE  OnPage(names)
  <1>1. PICK there \in PageNames : OnPage(there) BY DEF PageKnown
  <1>2. PICK x \in names : x \in Base \union there BY <1>1 DEF OnPage
  <1>3. x \notin Base BY PagesAreApart, <1>2
  <1>4. there = names BY PagesAreApart, <1>2, <1>3
  <1> QED BY <1>1, <1>4

\* The callbacks that no chain of calls comes back to.
Straight == DOMAIN Graph \ (DOMAIN ProfileCallbacks \ {"auto_load_on_profiles_visit"})

\* How many answers a call of a callback can be away from what the user did.
Rank(c) == CASE c = "show_bot_detail" -> 2
             [] c \in {"select_bot", "update_date_range", "build_inline_chart", "build_chart",
                       "update_trade_info", "update_all_trades", "render_cards"} -> 1
             [] OTHER -> 0

\* A property of a page is an Input of that page's callbacks only.
ReadBy(names, callbacks) ==
  \A c \in DOMAIN Graph, x \in names : x \in Graph[c].ins => c \in callbacks

\* Each page's properties are read by its own callbacks.
LEMMA PagesAreRead ==
  /\ ReadBy(DOMAIN ChartsLayout, DOMAIN ChartCallbacks)
  /\ ReadBy(DOMAIN ProfilesLayout, DOMAIN ProfileCallbacks)
  /\ ReadBy(DOMAIN BotsLayout, DOMAIN BotCallbacks)
  /\ ReadBy(DOMAIN BacktestLayout, DOMAIN BacktestCallbacks)
  /\ ReadBy(DOMAIN TradeLayout, DOMAIN TradeCallbacks)
  /\ ReadBy(DOMAIN BrowserLayout, {"load_strategies", "set_folder_filter", "render_cards"})
  /\ ReadBy(DOMAIN DetailLayout(None), {"populate_detail"})
  <1> SUFFICES ASSUME NEW c \in DOMAIN Graph, NEW x \in Graph[c].ins
               PROVE  /\ x \in DOMAIN ChartsLayout => c \in DOMAIN ChartCallbacks
                      /\ x \in DOMAIN ProfilesLayout => c \in DOMAIN ProfileCallbacks
                      /\ x \in DOMAIN BotsLayout => c \in DOMAIN BotCallbacks
                      /\ x \in DOMAIN BacktestLayout => c \in DOMAIN BacktestCallbacks
                      /\ x \in DOMAIN TradeLayout => c \in DOMAIN TradeCallbacks
                      /\ x \in DOMAIN BrowserLayout =>
                           c \in {"load_strategies", "set_folder_filter", "render_cards"}
                      /\ x \in DOMAIN DetailLayout(None) => c \in {"populate_detail"}
    BY DEF ReadBy
  <1>1. DOMAIN StrategyCallbacks = {"load_strategies", "set_folder_filter", "render_cards"}
                                     \union {"populate_detail"}
    BY DEF StrategyCallbacks
  <1>2. Graph["render_page"].ins \subseteq Base BY GraphIs DEF Callback, Base
  <1>3. CASE c \in DOMAIN ChartCallbacks
    <2>1. x \in {"url"} \union DOMAIN ChartsLayout BY <1>3, ChartsBelong DEF BelongTo
    <2> QED
      BY <1>3, <2>1, ChartsNames, ProfilesNames, BotsNames, BacktestNames, TradeNames,
         BrowserNames, DetailNames DEF Base
  <1>4. CASE c \in DOMAIN ProfileCallbacks
    <2>1. x \in Base \union DOMAIN ProfilesLayout BY <1>4, ProfilesBelong DEF BelongTo
    <2> QED
      BY <1>4, <2>1, ChartsNames, ProfilesNames, BotsNames, BacktestNames, TradeNames,
         BrowserNames, DetailNames DEF Base
  <1>5. CASE c \in DOMAIN BotCallbacks
    <2>1. x \in {"url"} \union DOMAIN BotsLayout BY <1>5, BotsBelong DEF BelongTo
    <2> QED
      BY <1>5, <2>1, ChartsNames, ProfilesNames, BotsNames, BacktestNames, TradeNames,
         BrowserNames, DetailNames DEF Base
  <1>6. CASE c \in DOMAIN BacktestCallbacks
    <2>1. x \in {"url"} \union DOMAIN BacktestLayout BY <1>6, BacktestBelong DEF BelongTo
    <2> QED
      BY <1>6, <2>1, ChartsNames, ProfilesNames, BotsNames, BacktestNames, TradeNames,
         BrowserNames, DetailNames DEF Base
  <1>7. CASE c \in DOMAIN TradeCallbacks
    <2>1. x \in {"url"} \union DOMAIN TradeLayout BY <1>7, TradeBelong DEF BelongTo
    <2> QED
      BY <1>7, <2>1, ChartsNames, ProfilesNames, BotsNames, BacktestNames, TradeNames,
         BrowserNames, DetailNames DEF Base
  <1>8. CASE c \in {"load_strategies", "set_folder_filter", "render_cards"}
    <2>1. x \in {"url"} \union DOMAIN BrowserLayout BY <1>8, BrowserBelong DEF BelongTo
    <2> QED
      BY <1>8, <2>1, ChartsNames, ProfilesNames, BotsNames, BacktestNames, TradeNames,
         BrowserNames, DetailNames DEF Base
  <1>9. CASE c \in {"populate_detail"}
    <2>1. x \in {"url"} \union DOMAIN DetailLayout(None) BY <1>9, DetailBelongs DEF BelongTo
    <2> QED
      BY <1>9, <2>1, ChartsNames, ProfilesNames, BotsNames, BacktestNames, TradeNames,
         BrowserNames, DetailNames DEF Base
  <1>10. CASE c = "render_page"
    BY <1>2, <1>10, ChartsNames, ProfilesNames, BotsNames, BacktestNames, TradeNames,
       BrowserNames, DetailNames DEF Base
  <1> QED BY <1>1, <1>3, <1>4, <1>5, <1>6, <1>7, <1>8, <1>9, <1>10, GraphIs

\* An answer calls callbacks further away only.
LEMMA Downhill ==
  \A c \in Straight, d \in DOMAIN Graph :
    Graph[c].ins \intersect Outputs(d) # {} => d \in Straight /\ Rank(d) < Rank(c)
  <1> SUFFICES ASSUME NEW c \in Straight, NEW d \in DOMAIN Graph, NEW x \in Graph[c].ins,
                      x \in Outputs(d)
               PROVE  d \in Straight /\ Rank(d) < Rank(c)
    OBVIOUS
  <1> USE DEF Rank, Callback
  <1>0. c \in DOMAIN Graph BY DEF Straight
  <1>1. CASE d = "render_page" BY <1>1, GraphIs DEF Outputs
  <1>2. CASE d \in DOMAIN ChartCallbacks
    <2>1. c \in DOMAIN ChartCallbacks BY <1>0, <1>2, ChartsBelong, PagesAreRead DEF BelongTo, ReadBy
    <2> QED BY <1>2, <2>1, GraphIs DEF ChartCallbacks, ChartStores, Outputs
  <1>3. CASE d \in DOMAIN ProfileCallbacks
    <2>1. x \in {"hover_profile_store"} \union DOMAIN ProfilesLayout BY <1>3, ProfilesBelong
    <2>2. c \in DOMAIN ProfileCallbacks
      <3>1. CASE x = "hover_profile_store"
        <4>1. \A names \in PageNames : x \notin names BY <3>1, PagesAreApart DEF Base
        <4> QED
          BY <1>0, <4>1, <3>1, GraphIs, ChartsBelong, BotsBelong, BacktestBelong, TradeBelong, BrowserBelong,
             DetailBelongs DEF BelongTo, PageNames, StrategyCallbacks
      <3>2. CASE x \in DOMAIN ProfilesLayout BY <1>0, <3>2, PagesAreRead DEF ReadBy
      <3> QED BY <2>1, <3>1, <3>2
    <2>3. c = "auto_load_on_profiles_visit" BY <2>2 DEF Straight
    <2>4. x = "url" BY <2>3, GraphIs DEF ProfileCallbacks
    <2> QED BY <2>1, <2>4, ProfilesNames
  <1>4. CASE d \in DOMAIN BotCallbacks
    <2>1. c \in DOMAIN BotCallbacks BY <1>0, <1>4, BotsBelong, PagesAreRead DEF BelongTo, ReadBy
    <2>2. d \in Straight BY <1>4, GraphIs DEF Straight, BotCallbacks, ProfileCallbacks
    <2> QED BY <1>4, <2>1, <2>2, GraphIs DEF BotCallbacks, Outputs
  <1>5. CASE d \in DOMAIN BacktestCallbacks
    <2>1. c \in DOMAIN BacktestCallbacks
      BY <1>0, <1>5, BacktestBelong, PagesAreRead DEF BelongTo, ReadBy
    <2>2. d \in Straight BY <1>5, GraphIs DEF Straight, BacktestCallbacks, ProfileCallbacks
    <2> QED BY <1>5, <2>1, <2>2, GraphIs DEF BacktestCallbacks, Outputs
  <1>6. CASE d \in DOMAIN TradeCallbacks
    <2>1. c \in DOMAIN TradeCallbacks
      BY <1>0, <1>6, TradeBelong, PagesAreRead DEF BelongTo, ReadBy
    <2>2. d \in Straight BY <1>6, GraphIs DEF Straight, TradeCallbacks, ProfileCallbacks
    <2> QED BY <1>6, <2>1, <2>2, GraphIs DEF TradeCallbacks, Outputs
  <1>7. CASE d \in DOMAIN StrategyCallbacks
    <2>1. c \in DOMAIN StrategyCallbacks
      BY <1>0, <1>7, BrowserBelong, DetailBelongs, PagesAreRead DEF BelongTo, ReadBy, StrategyCallbacks
    <2>2. d \in Straight BY <1>7, GraphIs DEF Straight, StrategyCallbacks, ProfileCallbacks
    <2> QED BY <1>7, <2>1, <2>2, GraphIs DEF StrategyCallbacks, Outputs
  <1> QED BY <1>1, <1>2, <1>3, <1>4, <1>5, <1>6, <1>7, GraphIs
------------------------------------------------------------------------------
\* The call k1 of c is k, which may have been sent from the page p.
Keeps(k1, k, c, p) ==
  /\ k1.chain = k.chain /\ k1.answer = k.answer
  /\ \/ k1.with = k.with
     \/ k.with = Nothing /\ k1.with = [x \in Reads[c] |-> p[x]]

\* What becomes of the calls cs, and which are made.
CallsBecome(cs, new, chain) ==
  LET anew == Anew(DOMAIN new, chain, props)
  IN /\ calls' = [c \in DOMAIN calls' |-> calls'[c]]
     /\ DOMAIN calls' = anew \union DOMAIN cs
     /\ \A c \in DOMAIN calls' : CallShape(calls'[c])
     /\ \A c \in anew : Keeps(calls'[c], NewCall(chain), c, props')
     /\ \A c \in DOMAIN cs \ anew : Keeps(calls'[c], cs[c], c, props')
     /\ \A c \in anew : Feeders[c] \intersect DOMAIN calls' = {} =>
                          calls'[c].with = [x \in Reads[c] |-> props'[x]]

\* Sending a call changes nothing else of it.
LEMMA SentKeeps ==
  ASSUME NEW k1, NEW k, NEW c, NEW p, CallShape(k), SentOrNot(k1, k, c, p)
  PROVE  CallShape(k1) /\ Keeps(k1, k, c, p)
  BY DEF CallShape, SentOrNot, Keeps

\* A new call has been neither sent nor answered.
LEMMA NewCallShape ==
  ASSUME NEW chain
  PROVE  CallShape(NewCall(chain)) /\ NewCall(chain).chain = chain
         /\ NewCall(chain).with = Nothing /\ NewCall(chain).answer = None
  BY DEF CallShape, NewCall

\* What a write makes of the calls, callback by callback.
LEMMA CallsDo ==
  ASSUME NEW cs, NEW new, NEW chain, Calls(cs, new, chain),
         \A c \in DOMAIN cs : CallShape(cs[c])
  PROVE  CallsBecome(cs, new, chain)
  <1> DEFINE anew == Anew(DOMAIN new, chain, props)
  <1>1. PICK f : CalledIn(f, cs, props, DOMAIN new, chain) /\ SentIn(calls', f, props')
    BY DEF Calls
  <1>2. DOMAIN f = anew \union DOMAIN cs
    BY <1>1 DEF CalledIn
  <1>3. \A c \in anew : f[c] = NewCall(chain)
    BY <1>1 DEF CalledIn
  <1>4. \A c \in DOMAIN cs \ anew : f[c] = cs[c]
    BY <1>1 DEF CalledIn
  <1> HIDE DEF anew
  <1>5. \A c \in DOMAIN f : CallShape(f[c])
    BY <1>2, <1>3, <1>4, NewCallShape
  <1>6. DOMAIN calls' = DOMAIN f /\ calls' = [c \in DOMAIN calls' |-> calls'[c]]
    BY <1>1 DEF SentIn
  <1>7. \A c \in DOMAIN f : SentOrNot(calls'[c], f[c], c, props')
    BY <1>1 DEF SentIn
  <1>8. \A c \in DOMAIN f : CallShape(calls'[c]) /\ Keeps(calls'[c], f[c], c, props')
    BY <1>5, <1>7, SentKeeps
  <1>9. ASSUME NEW c \in anew, Feeders[c] \intersect DOMAIN calls' = {}
        PROVE  calls'[c].with = [x \in Reads[c] |-> props'[x]]
    <2>1. f[c].with = Nothing BY <1>3, NewCallShape
    <2>2. calls'[c] = [f[c] EXCEPT !.with = [x \in Reads[c] |-> props'[x]]]
      BY <1>1, <1>2, <1>6, <1>9, <2>1 DEF SentIn
    <2>3. CallShape(f[c]) BY <1>2, <1>5
    <2> QED BY <2>2, <2>3 DEF CallShape
  <1> QED BY <1>2, <1>3, <1>4, <1>6, <1>8, <1>9 DEF CallsBecome, anew
------------------------------------------------------------------------------
\* The chain of a call that is not in the loop leads up to it.
Chains ==
  \A c \in DOMAIN calls \intersect Straight :
    \A d \in calls[c].chain : d \in Straight /\ Rank(d) < Rank(c)

\* What such a call has read of its Inputs is what the page holds, if the page
\* makes the call when it is shown.
Fresh ==
  \A c \in DOMAIN calls \intersect Straight :
    Graph[c].first /\ calls[c].with # Nothing => \A x \in Graph[c].ins : calls[c].with[x] = props[x]

\* The page is that of the address, or is about to be replaced.
Addressed ==
  ~Pending("render_page") =>
    /\ OnPage(DOMAIN Layout(props.url))
    /\ props.url.page = "/strategies/" => props.strat_detail_name = props.url.of

Ordered == Placed /\ PageKnown /\ Chains /\ Fresh /\ Addressed

\* The calls of cs are among those under way.
Some(cs) == DOMAIN cs \subseteq DOMAIN calls /\ \A c \in DOMAIN cs : cs[c] = calls[c]

\* A chain that may come to write new.
ChainTo(chain, new) ==
  \A c \in Straight : Graph[c].ins \intersect DOMAIN new # {} =>
                        \A d \in chain : d \in Straight /\ Rank(d) < Rank(c)

\* Ranks are numbers.
LEMMA RankType == \A c : Rank(c) \in Nat
  BY DEF Rank

\* A write keeps the calls on the page ...
LEMMA WriteKeepsPlaced ==
  ASSUME Placed, NEW cs, NEW new, NEW chain, Some(cs), Writes(new), CallsBecome(cs, new, chain)
  PROVE  Placed'
  <1>1. \A c : IsOn(c, props') = IsOn(c, props) BY DEF Writes, IsOn
  <1>2. \A c \in Anew(DOMAIN new, chain, props) : c \in DOMAIN Graph /\ IsOn(c, props) BY DEF Anew
  <1>3. ASSUME NEW c \in DOMAIN calls'
        PROVE  /\ c \in DOMAIN Graph /\ CallShape(calls'[c]) /\ IsOn(c, props')
               /\ calls'[c].answer # None =>
                    calls'[c].with # Nothing /\ DOMAIN calls'[c].answer \subseteq Outputs(c)
    <2>1. CASE c \in Anew(DOMAIN new, chain, props)
      BY <1>1, <1>2, <2>1, NewCallShape DEF CallsBecome, Keeps
    <2>2. CASE c \in DOMAIN cs \ Anew(DOMAIN new, chain, props)
      BY <1>1, <2>2 DEF CallsBecome, Keeps, Some, Placed
    <2> QED BY <2>1, <2>2 DEF CallsBecome
  <1> QED BY <1>3 DEF Placed, CallsBecome, Writes

\* ... and their chains in order; ...
LEMMA WriteKeepsChains ==
  ASSUME Chains, NEW cs, NEW new, NEW chain, Some(cs), CallsBecome(cs, new, chain),
         ChainTo(chain, new)
  PROVE  Chains'
  <1> SUFFICES ASSUME NEW c \in DOMAIN calls' \intersect Straight, NEW d \in calls'[c].chain
               PROVE  d \in Straight /\ Rank(d) < Rank(c)
    BY DEF Chains
  <1>1. CASE c \in Anew(DOMAIN new, chain, props)
    <2>1. d \in chain BY <1>1, NewCallShape DEF CallsBecome, Keeps
    <2> QED BY <1>1, <2>1 DEF Anew, ChainTo
  <1>2. CASE c \in DOMAIN cs \ Anew(DOMAIN new, chain, props)
    BY <1>2 DEF CallsBecome, Keeps, Some, Chains
  <1> QED BY <1>1, <1>2 DEF CallsBecome

\* ... what was sent before it does not depend on it, or is sent anew; ...
LEMMA WriteKeepsFresh ==
  ASSUME Placed, Fresh, NEW cs, NEW new, NEW chain, Some(cs), Writes(new), CallsBecome(cs, new, chain),
         ChainTo(chain, new)
  PROVE  Fresh'
  <1> SUFFICES ASSUME NEW c \in DOMAIN calls' \intersect Straight, calls'[c].with # Nothing,
                      Graph[c].first,
                      NEW x \in Graph[c].ins
               PROVE  calls'[c].with[x] = props'[x]
    BY DEF Fresh
  <1>0. c \in DOMAIN Graph /\ x \in Reads[c] BY PartsAre DEF Straight
  <1>1. CASE calls'[c].with = [y \in Reads[c] |-> props'[y]] BY <1>0, <1>1
  <1>2. CASE calls'[c].with # [y \in Reads[c] |-> props'[y]]
    <2>1. c \notin Anew(DOMAIN new, chain, props)
      BY <1>2, NewCallShape DEF CallsBecome, Keeps
    <2>2. c \in DOMAIN cs /\ calls'[c].with = cs[c].with
      BY <1>2, <2>1 DEF CallsBecome, Keeps
    <2>3. calls[c].with[x] = props[x] /\ calls'[c].with = calls[c].with /\ c \in DOMAIN calls
      BY <2>2 DEF Some, Fresh
    <2>4. IsOn(c, props) BY <2>3 DEF Placed
    <2>5. x \notin DOMAIN new
      <3> SUFFICES ASSUME x \in DOMAIN new PROVE FALSE OBVIOUS
      <3>1. c \in chain BY <1>0, <2>1, <2>4 DEF Anew
      <3> QED BY <3>1, RankType DEF ChainTo
    <2>6. x \in DOMAIN props BY <1>0, <2>4, PartsAre DEF IsOn
    <2> QED BY <2>3, <2>5, <2>6 DEF Writes
  <1> QED BY <1>1, <1>2

\* ... and the page stays that of the address, or render_page is called.
LEMMA WriteKeepsAddressed ==
  ASSUME Placed, Addressed, NEW cs, NEW new, NEW chain, Writes(new), CallsBecome(cs, new, chain),
         DOMAIN new \subseteq DOMAIN props, "url" \in DOMAIN props,
         Pending("render_page") => "render_page" \in DOMAIN cs,
         "url" \in DOMAIN new => "render_page" \notin chain,
         "strat_detail_name" \notin DOMAIN new
  PROVE  Addressed'
  <1> SUFFICES ASSUME "render_page" \notin DOMAIN calls'
               PROVE  /\ OnPage(DOMAIN Layout(props.url))'
                      /\ props'.url.page = "/strategies/" => props'.strat_detail_name = props'.url.of
    BY DEF Addressed, Pending
  <1>1. "render_page" \notin DOMAIN cs /\ "render_page" \notin Anew(DOMAIN new, chain, props)
    BY DEF CallsBecome
  <1>2. ~Pending("render_page") BY <1>1
  <1>3. OnPage(DOMAIN Layout(props.url))
        /\ (props.url.page = "/strategies/" => props.strat_detail_name = props.url.of)
    BY <1>2 DEF Addressed
  <1>4. "url" \notin DOMAIN new
    <2> SUFFICES ASSUME "url" \in DOMAIN new PROVE FALSE OBVIOUS
    <2>1. "render_page" \in DOMAIN Graph /\ Graph["render_page"].ins = {"url"}
          /\ Outputs("render_page") = {}
      BY GraphIs DEF Callback, Outputs
    <2>2. IsOn("render_page", props) BY <2>1, PartsAre DEF IsOn
    <2> QED BY <1>1, <2>1, <2>2 DEF Anew
  <1>5. props'.url = props.url BY <1>4 DEF Writes
  <1>6. OnPage(DOMAIN Layout(props.url))'
    BY <1>3, <1>5 DEF OnPage, Writes, Layout, Base
  <1>7. ASSUME props.url.page = "/strategies/" PROVE props'.strat_detail_name = props.url.of
    <2>1. DOMAIN Layout(props.url) = DOMAIN DetailLayout(props.url.of)
      BY <1>7 DEF Layout
    <2>2. "strat_detail_name" \in DOMAIN props BY <1>3, <2>1, DetailNames DEF OnPage
    <2> QED BY <1>3, <1>7, <2>2 DEF Writes
  <1> QED BY <1>5, <1>6, <1>7

\* The call of c goes on, or it is called anew; c is not called only when nothing it
\* reads is written.
Goes(c) ==
  /\ c \in DOMAIN calls' /\ calls'[c].answer # None =>
       c \in DOMAIN calls /\ calls'[c].answer = calls[c].answer /\ calls'[c].with = calls[c].with
  /\ c \in Straight /\ IsOn(c, props) /\ c \notin DOMAIN calls' =>
       c \notin DOMAIN calls /\ \A x \in Graph[c].ins : props'[x] = props[x]

\* The call of c, if it is called, goes on.
GoesOn(c) ==
  c \in DOMAIN calls' => c \in DOMAIN calls /\ Keeps(calls'[c], calls[c], c, props')

\* A step about the properties names of the page, and the calls that write them.
About(names) ==
  /\ DOMAIN props' = DOMAIN props
  /\ \A x \in DOMAIN props \ names : props'[x] = props[x]
  /\ \A c \in DOMAIN Graph :
       Outputs(c) # {} /\ (Outputs(c) \union Graph[c].ins) \intersect names = {} => GoesOn(c)
  /\ \A c \in DOMAIN Graph : Outputs(c) # {} /\ Outputs(c) \intersect names = {} => Goes(c)

\* A write of some of names is about names.
LEMMA WriteIsAbout ==
  ASSUME Ordered, NEW cs, NEW new, NEW chain, Some(cs), Writes(new), CallsBecome(cs, new, chain),
         ChainTo(chain, new), NEW names, DOMAIN new \subseteq names,
         \A c \in DOMAIN calls \ DOMAIN cs : Outputs(c) \intersect names = {} => Outputs(c) = {}
  PROVE  About(names)
  <1>1. ASSUME NEW c \in DOMAIN Graph, Outputs(c) # {}, Outputs(c) \intersect names = {}
        PROVE  Goes(c)
    <2>1. ASSUME c \in DOMAIN calls', calls'[c].answer # None
          PROVE  c \in DOMAIN calls /\ calls'[c].answer = calls[c].answer /\ calls'[c].with = calls[c].with
      <3>1. c \notin Anew(DOMAIN new, chain, props)
        BY <2>1, NewCallShape DEF CallsBecome, Keeps
      <3>2. c \in DOMAIN cs /\ Keeps(calls'[c], cs[c], c, props')
        BY <2>1, <3>1 DEF CallsBecome
      <3>3. c \in DOMAIN calls /\ cs[c] = calls[c] BY <3>2 DEF Some
      <3>4. calls'[c].answer = calls[c].answer BY <3>2, <3>3 DEF Keeps
      <3>5. calls[c].with # Nothing BY <2>1, <3>3, <3>4 DEF Ordered, Placed
      <3> QED BY <3>2, <3>3, <3>4, <3>5 DEF Keeps
    <2>2. ASSUME c \in Straight, IsOn(c, props), c \notin DOMAIN calls'
          PROVE  c \notin DOMAIN calls /\ \A x \in Graph[c].ins : props'[x] = props[x]
      <3>1. c \notin DOMAIN cs /\ c \notin Anew(DOMAIN new, chain, props)
        BY <2>2 DEF CallsBecome
      <3>2. c \notin DOMAIN calls BY <1>1, <3>1
      <3>3. Graph[c].ins \intersect DOMAIN new = {}
        <4> SUFFICES ASSUME Graph[c].ins \intersect DOMAIN new # {} PROVE FALSE OBVIOUS
        <4>1. c \in chain BY <2>2, <3>1 DEF Anew
        <4> QED BY <2>2, <4>1, RankType DEF ChainTo
      <3>4. Graph[c].ins \subseteq DOMAIN props BY <2>2, PartsAre DEF IsOn
      <3> QED BY <3>2, <3>3, <3>4 DEF Writes
    <2> QED BY <2>1, <2>2 DEF Goes
  <1>2. ASSUME NEW c \in DOMAIN Graph, Outputs(c) # {}, c \in DOMAIN calls',
               (Outputs(c) \union Graph[c].ins) \intersect names = {}
        PROVE  c \in DOMAIN calls /\ Keeps(calls'[c], calls[c], c, props')
    <2>1. c \notin Anew(DOMAIN new, chain, props) BY <1>2 DEF Anew
    <2>2. c \in DOMAIN cs /\ Keeps(calls'[c], cs[c], c, props') BY <1>2, <2>1 DEF CallsBecome
    <2> QED BY <2>2 DEF Some
  <1> QED BY <1>1, <1>2 DEF About, Writes, GoesOn

\* A step about names is about any more of them.
LEMMA AboutMore ==
  ASSUME NEW names, About(names), NEW more, names \subseteq more
  PROVE  About(more)
  <1>1. \A c : Outputs(c) \intersect more = {} => Outputs(c) \intersect names = {} OBVIOUS
  <1>2. \A c : (Outputs(c) \union Graph[c].ins) \intersect more = {} =>
                 (Outputs(c) \union Graph[c].ins) \intersect names = {}
    OBVIOUS
  <1> QED BY <1>1, <1>2 DEF About

\* A step that writes new, while the calls cs go on, keeps order.
LEMMA WriteKeepsOrder ==
  ASSUME Ordered, NEW cs, NEW new, NEW chain, Some(cs), Written(cs, new, chain),
         DOMAIN new \subseteq DOMAIN props, ChainTo(chain, new),
         Pending("render_page") => "render_page" \in DOMAIN cs,
         "url" \in DOMAIN new => "render_page" \notin chain,
         "strat_detail_name" \notin DOMAIN new,
         NEW names, DOMAIN new \subseteq names,
         \A c \in DOMAIN calls \ DOMAIN cs : Outputs(c) \intersect names = {} => Outputs(c) = {}
  PROVE  Ordered' /\ About(names) /\ Writes(new) /\ CallsBecome(cs, new, chain)
  <1>1. Writes(new) /\ Calls(cs, new, chain) BY WrittenDoes DEF Ordered
  <1>2. \A c \in DOMAIN cs : CallShape(cs[c]) BY DEF Ordered, Placed, Some
  <1>3. CallsBecome(cs, new, chain) BY <1>1, <1>2, CallsDo
  <1>4. PageKnown' BY <1>1 DEF Ordered, PageKnown, OnPage, Writes, PageNames, ChartsLayout
  <1>5. "url" \in DOMAIN props BY DEF Ordered, PageKnown, OnPage, Base
  <1>6. Placed' /\ Chains' /\ Fresh'
    BY <1>1, <1>3, WriteKeepsPlaced, WriteKeepsChains, WriteKeepsFresh DEF Ordered
  <1>7. Addressed' BY <1>1, <1>3, <1>5, WriteKeepsAddressed DEF Ordered
  <1>8. About(names) BY <1>1, <1>3, WriteIsAbout
  <1> QED BY <1>1, <1>3, <1>4, <1>6, <1>7, <1>8 DEF Ordered

\* What the browser does of its own keeps order.
LEMMA UnchangedKeepsOrder ==
  ASSUME Ordered, UNCHANGED <<props, calls>>
  PROVE  Ordered' /\ \A names : About(names)
  <1>1. Ordered'
    BY DEF Ordered, Placed, PageKnown, Chains, Fresh, Addressed, OnPage, Pending, IsOn, PageNames, Layout
  <1>2. \A names : About(names) BY DEF About, Goes, GoesOn, Keeps
  <1> QED BY <1>1, <1>2

\* A handler's answer, not yet applied, changes only its call.
LEMMA ServeKeepsOrder ==
  ASSUME Ordered, NEW c \in DOMAIN calls, NEW answer,
         answer # None => DOMAIN answer \subseteq Outputs(c), calls[c].with # Nothing,
         calls' = [calls EXCEPT ![c].answer = answer], props' = props
  PROVE  /\ Ordered' /\ About(Outputs(c)) /\ DOMAIN calls' = DOMAIN calls
         /\ calls'[c].with = calls[c].with /\ calls'[c].answer = answer
  <1>1. /\ DOMAIN calls' = DOMAIN calls
        /\ calls' = [d \in DOMAIN calls' |-> calls'[d]]
        /\ \A d \in DOMAIN calls : d # c => calls'[d] = calls[d]
        /\ calls'[c] = [calls[c] EXCEPT !.answer = answer]
    BY DEF Ordered, Placed
  <1>2. /\ CallShape(calls'[c]) /\ calls'[c].chain = calls[c].chain
        /\ calls'[c].with = calls[c].with /\ calls'[c].answer = answer
    BY <1>1 DEF Ordered, Placed, CallShape
  <1>3. Placed' BY <1>1, <1>2 DEF Ordered, Placed, IsOn
  <1>4. Chains' BY <1>1, <1>2 DEF Ordered, Chains
  <1>5. Fresh' BY <1>1, <1>2 DEF Ordered, Fresh
  <1>6. Addressed' BY <1>1 DEF Ordered, Addressed, Pending, OnPage, Layout
  <1>7. PageKnown' BY DEF Ordered, PageKnown, OnPage, PageNames
  <1>8. \A d : d # c => Goes(d) /\ GoesOn(d) BY <1>1 DEF Goes, GoesOn, Keeps
  <1>9. About(Outputs(c)) BY <1>8 DEF About
  <1> QED BY <1>1, <1>2, <1>3, <1>4, <1>5, <1>6, <1>7, <1>9 DEF Ordered

\* The other calls are calls.
LEMMA OthersAre ==
  ASSUME Placed, NEW c
  PROVE  Some(Others(c)) /\ DOMAIN Others(c) = DOMAIN calls \ {c}
  BY DEF Others, Only, Some, Placed

\* save_to_file writes a file and no property.
LEMMA SaveKeepsOrder ==
  ASSUME Ordered, calls' = Others("save_to_file"), props' = props
  PROVE  Ordered' /\ \A names : About(names)
  <1>1. Some(calls') /\ DOMAIN calls' = DOMAIN calls \ {"save_to_file"}
    BY OthersAre DEF Ordered
  <1>2. Placed' BY <1>1 DEF Ordered, Placed, Some, IsOn, Others, Only
  <1>3. Chains' /\ Fresh' BY <1>1 DEF Ordered, Chains, Fresh, Some
  <1>4. Addressed' BY <1>1 DEF Ordered, Addressed, Pending, OnPage, Layout
  <1>5. PageKnown' BY DEF Ordered, PageKnown, OnPage, PageNames
  <1>6. Outputs("save_to_file") = {}
    BY GraphIs DEF ProfileCallbacks, Callback, Outputs
  <1>7. \A c : c # "save_to_file" => Goes(c) /\ GoesOn(c) BY <1>1 DEF Goes, GoesOn, Keeps, Some
  <1>8. \A names : About(names) BY <1>6, <1>7 DEF About
  <1> QED BY <1>2, <1>3, <1>4, <1>5, <1>8 DEF Ordered
------------------------------------------------------------------------------
\* What is called when the page of layout is shown.
FirstOn(layout, p) ==
  {d \in DOMAIN Graph : IsOn(d, p) /\ Graph[d].first /\ Outputs(d) \intersect DOMAIN layout # {}}

\* The calls that go on then.
GoOn(p) == {d \in DOMAIN calls : d # "render_page" /\ IsOn(d, p)}

Mounts(layout) ==
  /\ props' = [x \in DOMAIN props' |-> props'[x]]
  /\ DOMAIN props' = DOMAIN layout \union Base
  /\ \A x \in DOMAIN layout : props'[x] = layout[x]
  /\ \A x \in Base : props'[x] = props[x]
  /\ calls' = [c \in DOMAIN calls' |-> calls'[c]]
  /\ DOMAIN calls' = FirstOn(layout, props') \union GoOn(props')
  /\ \A c \in DOMAIN calls' : CallShape(calls'[c])
  /\ \A c \in FirstOn(layout, props') : Keeps(calls'[c], NewCall({}), c, props')
  /\ \A c \in GoOn(props') \ FirstOn(layout, props') : Keeps(calls'[c], calls[c], c, props')

\* What showing a page does to the properties and the calls.
LEMMA MountDoes ==
  ASSUME Ordered, NEW layout, DOMAIN layout \in PageNames, Mount("render_page", layout, Base)
  PROVE  Mounts(layout)
  <1> DEFINE kept == [x \in Base |-> props[x]]
  <1>1. props' = layout ++ kept BY DEF Mount
  <1>2. /\ props' = [x \in DOMAIN props' |-> props'[x]]
        /\ DOMAIN props' = DOMAIN layout \union Base
        /\ \A x \in DOMAIN layout : props'[x] = layout[x]
    BY <1>1 DEF ++
  <1>3. \A x \in Base : props'[x] = props[x]
    BY <1>1, PagesAreApart DEF ++
  <1>4. PICK p : p = props' OBVIOUS
  <1> DEFINE first == [d \in FirstOn(layout, p) |-> NewCall({})]
             others == Only(calls, {d \in DOMAIN Graph \ {"render_page"} : IsOn(d, p)})
             cs == first ++ others
  <1>5. calls' = Sent(cs, p)
    BY <1>1, <1>4 DEF Mount, FirstOn
  <1>6. DOMAIN others = GoOn(p) /\ \A d \in GoOn(p) : others[d] = calls[d]
    BY DEF Only, GoOn, Ordered, Placed
  <1>7. DOMAIN first = FirstOn(layout, p) /\ \A d \in FirstOn(layout, p) : first[d] = NewCall({})
    OBVIOUS
  <1> HIDE DEF first, others
  <1>8. /\ DOMAIN cs = FirstOn(layout, p) \union GoOn(p)
        /\ \A d \in FirstOn(layout, p) : cs[d] = NewCall({})
        /\ \A d \in GoOn(p) \ FirstOn(layout, p) : cs[d] = calls[d]
    BY <1>6, <1>7 DEF ++
  <1> HIDE DEF cs
  <1>9. SentIn(calls', cs, p) BY <1>5, SentAre
  <1>10. \A d \in DOMAIN cs : CallShape(cs[d])
    BY <1>8, NewCallShape DEF GoOn, Ordered, Placed
  <1>11. \A d \in DOMAIN cs : CallShape(calls'[d]) /\ Keeps(calls'[d], cs[d], d, p)
    BY <1>9, <1>10, SentKeeps DEF SentIn
  <1>12. DOMAIN calls' = DOMAIN cs /\ calls' = [c \in DOMAIN calls' |-> calls'[c]]
    BY <1>9 DEF SentIn
  <1> QED BY <1>2, <1>3, <1>4, <1>8, <1>11, <1>12 DEF Mounts

\* Every address has one of the pages.
LEMMA LayoutNames == \A url : DOMAIN Layout(url) \in PageNames \ {{}}
  <1> TAKE url
  <1>1. DOMAIN Layout(url) \in PageNames
    BY DetailNames DEF Layout, PageNames
  <1>2. DOMAIN Layout(url) # {}
    BY ChartsNames, ProfilesNames, BotsNames, BacktestNames, TradeNames, BrowserNames, DetailNames
    DEF Layout
  <1> QED BY <1>1, <1>2

\* What a page calls when it is shown writes to it.
LEMMA FirstOnes ==
  ASSUME NEW c \in Straight, Graph[c].first, c # "render_page"
  PROVE  \E names \in PageNames : /\ Parts[c] \intersect names # {}
                                  /\ Outputs(c) \subseteq names /\ Outputs(c) # {}
  <1> USE DEF Callback, Outputs, PageNames
  <1>1. CASE c \in DOMAIN ChartCallbacks
    BY <1>1, ChartsBelong, GraphIs DEF BelongTo, ChartCallbacks, ChartStores
  <1>2. CASE c \in DOMAIN BotCallbacks BY <1>2, BotsBelong, GraphIs DEF BelongTo, BotCallbacks
  <1>3. CASE c \in DOMAIN BacktestCallbacks
    BY SMTT(30), <1>3, BacktestBelong, GraphIs DEF BelongTo, BacktestCallbacks
  <1>4. CASE c \in DOMAIN TradeCallbacks
    BY SMTT(30), <1>4, TradeBelong, GraphIs DEF BelongTo, TradeCallbacks
  <1>5. CASE c \in DOMAIN StrategyCallbacks
    BY <1>5, BrowserBelong, DetailBelongs, GraphIs DEF BelongTo, StrategyCallbacks
  <1>6. CASE c = "auto_load_on_profiles_visit"
    BY <1>6, GraphIs DEF ProfileCallbacks
  <1> QED BY <1>1, <1>2, <1>3, <1>4, <1>5, <1>6, GraphIs DEF Straight

\* The page shown is that of the address, and the calls that go on are on it.
LEMMA MountKeepsOrder ==
  ASSUME Ordered, NEW layout, layout = Layout(props.url), Mount("render_page", layout, Base)
  PROVE  Ordered' /\ Mounts(layout)
  <1>1. DOMAIN layout \in PageNames BY LayoutNames
  <1>2. Mounts(layout) BY <1>1, MountDoes
  <1>3. ASSUME NEW c \in DOMAIN calls'
        PROVE  /\ c \in DOMAIN Graph /\ IsOn(c, props')
               /\ calls'[c].answer # None =>
                    calls'[c].with # Nothing /\ DOMAIN calls'[c].answer \subseteq Outputs(c)
               /\ c \in Straight => \A d \in calls'[c].chain : d \in Straight /\ Rank(d) < Rank(c)
    <2>1. CASE c \in FirstOn(layout, props')
      <3>1. Keeps(calls'[c], NewCall({}), c, props') BY <1>2, <2>1 DEF Mounts
      <3>2. calls'[c].chain = {} /\ calls'[c].answer = None BY <3>1, NewCallShape DEF Keeps
      <3> QED BY <2>1, <3>2 DEF FirstOn
    <2>2. CASE c \in GoOn(props') \ FirstOn(layout, props')
      <3>1. Keeps(calls'[c], calls[c], c, props') BY <1>2, <2>2 DEF Mounts
      <3>2. c \in DOMAIN calls /\ IsOn(c, props') BY <2>2 DEF GoOn
      <3> QED BY <3>1, <3>2 DEF Keeps, Ordered, Placed, Chains
    <2> QED BY <1>2, <2>1, <2>2 DEF Mounts
  <1>4. Placed' /\ Chains' BY <1>2, <1>3 DEF Mounts, Placed, Chains
  <1>5. PageKnown' BY <1>1, <1>2 DEF Mounts, PageKnown, OnPage, PageNames
  <1>6. Fresh'
    <2> SUFFICES ASSUME NEW c \in DOMAIN calls' \intersect Straight, Graph[c].first,
                        calls'[c].with # Nothing, NEW x \in Graph[c].ins
                 PROVE  calls'[c].with[x] = props'[x]
      BY DEF Fresh
    <2>1. c # "render_page"
      <3>1. Outputs("render_page") = {} BY GraphIs DEF Callback, Outputs
      <3> QED BY <1>2, <3>1 DEF Mounts, FirstOn, GoOn
    <2>2. PICK names \in PageNames : /\ Parts[c] \intersect names # {}
                                     /\ Outputs(c) \subseteq names /\ Outputs(c) # {}
      BY <2>1, FirstOnes
    <2>3. IsOn(c, props') /\ c \in DOMAIN Graph BY <1>3
    <2>4. DOMAIN layout = names
      <3>1. PICK p : p = props' OBVIOUS
      <3>2. DOMAIN p = Base \union DOMAIN layout BY <1>2, <3>1 DEF Mounts
      <3>3. IsOn(c, p) BY <2>3, <3>1
      <3> QED BY <1>1, <2>2, <3>2, <3>3, SamePage
    <2>5. c \in FirstOn(layout, props') BY <2>2, <2>3, <2>4 DEF FirstOn
    <2>6. calls'[c].with = [y \in Reads[c] |-> props'[y]]
      BY <1>2, <2>5, NewCallShape DEF Mounts, Keeps
    <2> QED BY <2>3, <2>6, PartsAre
  <1>7. Addressed'
    <2>1. props'.url = props.url BY <1>2 DEF Mounts, Base
    <2>2. OnPage(DOMAIN Layout(props.url))'
      BY <1>2, <2>1 DEF Mounts, OnPage, Layout
    <2>3. props.url.page = "/strategies/" => props'.strat_detail_name = props.url.of
      BY <1>2 DEF Mounts, Layout, DetailLayout
    <2> QED BY <2>1, <2>2, <2>3 DEF Addressed
  <1> QED BY <1>2, <1>4, <1>5, <1>6, <1>7 DEF Ordered
------------------------------------------------------------------------------
\* No callback writes the address, or which strategy a page is about.
LEMMA AddressIsTheUsers ==
  \A c \in DOMAIN Graph : "url" \notin Outputs(c) /\ "strat_detail_name" \notin Outputs(c)
  <1> TAKE c \in DOMAIN Graph
  <1> USE DEF Outputs, Callback
  <1>1. CASE c = "render_page" BY <1>1, GraphIs
  <1>2. CASE c \in DOMAIN ChartCallbacks BY <1>2, GraphIs DEF ChartCallbacks, ChartStores
  <1>3. CASE c \in DOMAIN ProfileCallbacks BY <1>3, GraphIs DEF ProfileCallbacks
  <1>4. CASE c \in DOMAIN BotCallbacks BY <1>4, GraphIs DEF BotCallbacks
  <1>5. CASE c \in DOMAIN BacktestCallbacks BY <1>5, GraphIs DEF BacktestCallbacks
  <1>6. CASE c \in DOMAIN TradeCallbacks BY <1>6, GraphIs DEF TradeCallbacks
  <1>7. CASE c \in DOMAIN StrategyCallbacks BY <1>7, GraphIs DEF StrategyCallbacks
  <1> QED BY <1>1, <1>2, <1>3, <1>4, <1>5, <1>6, <1>7, GraphIs

\* An answer, or a reply, of a callback.
LEMMA AnswerKeepsOrder ==
  ASSUME Ordered, NEW c \in DOMAIN calls, c # "render_page", NEW new, DOMAIN new \subseteq Outputs(c),
         Written(Others(c), new, calls[c].chain \union {c})
  PROVE  /\ Ordered' /\ About(Outputs(c)) /\ Writes(new)
         /\ CallsBecome(Others(c), new, calls[c].chain \union {c})
  <1>1. c \in DOMAIN Graph /\ IsOn(c, props) BY DEF Ordered, Placed
  <1>2. DOMAIN new \subseteq DOMAIN props BY <1>1, PartsAre DEF IsOn
  <1>3. "url" \notin DOMAIN new /\ "strat_detail_name" \notin DOMAIN new
    BY <1>1, AddressIsTheUsers
  <1>4. Some(Others(c)) /\ DOMAIN Others(c) = DOMAIN calls \ {c} BY OthersAre DEF Ordered
  <1>5. ChainTo(calls[c].chain \union {c}, new)
    <2> SUFFICES ASSUME NEW b \in Straight, Graph[b].ins \intersect DOMAIN new # {},
                        NEW d \in calls[c].chain \union {c}
                 PROVE  d \in Straight /\ Rank(d) < Rank(b)
      BY DEF ChainTo
    <2>1. c \in Straight /\ Rank(c) < Rank(b) BY <1>1, Downhill
    <2>2. d # c => d \in Straight /\ Rank(d) < Rank(c) BY <2>1 DEF Ordered, Chains
    <2> QED BY <2>1, <2>2, RankType
  <1> QED BY <1>2, <1>3, <1>4, <1>5, WriteKeepsOrder DEF Pending

\* What the user or a timer writes.
LEMMA InputKeepsOrder ==
  ASSUME Ordered, NEW new, DOMAIN new \subseteq DOMAIN props, "strat_detail_name" \notin DOMAIN new,
         Input(new), NEW names, DOMAIN new \subseteq names
  PROVE  Ordered' /\ About(names) /\ Writes(new) /\ CallsBecome(calls, new, {})
  BY WriteKeepsOrder DEF Input, Some, ChainTo, Pending

\* The same, of the actions of the pages.
LEMMA ReplyKeepsOrder ==
  ASSUME Ordered, NEW c, c # "render_page", NEW new, DOMAIN new \subseteq Outputs(c), Served(c),
         Written(Others(c), new, calls[c].chain \union {c}), NEW names, Outputs(c) \subseteq names
  PROVE  Ordered' /\ About(names) /\ Writes(new)
  BY AnswerKeepsOrder, AboutMore DEF Served, Pending

\* The answer to a call, when it is applied.
LEMMA ApplyKeepsOrder ==
  ASSUME Ordered, NEW c, c # "render_page", Apply(c), NEW names, Outputs(c) \subseteq names
  PROVE  /\ Ordered' /\ About(names) /\ Writes(calls[c].answer)
         /\ CallsBecome(Others(c), calls[c].answer, calls[c].chain \union {c})
  <1>1. DOMAIN calls[c].answer \subseteq Outputs(c) BY DEF Apply, Pending, Ordered, Placed
  <1> QED BY <1>1, AnswerKeepsOrder, AboutMore DEF Apply, Pending
------------------------------------------------------------------------------
\* The answer of a handler, when it is given.
LEMMA ServesKeepOrder ==
  ASSUME Ordered, NEW c, NEW answers, \A answer \in answers : DOMAIN answer \subseteq Outputs(c),
         Served(c), props' = props,
         \E answer \in answers : calls' = [calls EXCEPT ![c].answer = answer],
         NEW names, Outputs(c) \subseteq names
  PROVE  /\ Ordered' /\ About(names) /\ DOMAIN calls' = DOMAIN calls
         /\ calls'[c].with = calls[c].with /\ calls'[c].answer \in answers
  BY ServeKeepsOrder, AboutMore DEF Served, Pending

\* The answers of the page of a trade, and those of the other pages.
LEMMA TradeKeepsOrder ==
  ASSUME Ordered, TradeViewer
  PROVE  Ordered' /\ About(DOMAIN TradeLayout)
  <1> DEFINE names == DOMAIN TradeLayout
  <1>0. \A c \in DOMAIN TradeCallbacks : Outputs(c) \subseteq names
    BY TradeBelong DEF BelongTo, TradeCallbacks
  <1> HIDE DEF names
  <1> USE DEF Callback
  <1> SUFFICES Ordered' /\ About(names) BY DEF names
  <1>1. CASE Serve("load_chart_data", LoadChart)
    <2>1. \A answer \in LoadChart(calls["load_chart_data"].with) :
           DOMAIN answer \subseteq Outputs("load_chart_data")
      BY GraphIs DEF Outputs, TradeCallbacks, LoadChart, NoUpdate
    <2> QED BY <1>1, <2>1, <1>0, ServesKeepOrder DEF Serve, TradeCallbacks
  <1>2. CASE Apply("load_chart_data") BY <1>2, <1>0, ApplyKeepsOrder DEF TradeCallbacks
  <1>3. CASE Reply("build_chart", BuildChart)
    <2>1. DOMAIN BuildChart(calls["build_chart"].with) \subseteq Outputs("build_chart")
      BY GraphIs DEF Outputs, TradeCallbacks, BuildChart
    <2> QED BY <1>3, <2>1, <1>0, ReplyKeepsOrder DEF Reply, TradeCallbacks
  <1>4. CASE Reply("update_trade_info", TradeInfo)
    <2>1. DOMAIN TradeInfo(calls["update_trade_info"].with) \subseteq Outputs("update_trade_info")
      BY GraphIs DEF Outputs, TradeCallbacks, TradeInfo
    <2> QED BY <1>4, <2>1, <1>0, ReplyKeepsOrder DEF Reply, TradeCallbacks
  <1>5. CASE Reply("update_all_trades", AllTrades)
    <2>1. DOMAIN AllTrades(calls["update_all_trades"].with) \subseteq Outputs("update_all_trades")
      BY GraphIs DEF Outputs, TradeCallbacks, AllTrades
    <2> QED BY <1>5, <2>1, <1>0, ReplyKeepsOrder DEF Reply, TradeCallbacks
  <1> QED BY <1>1, <1>2, <1>3, <1>4, <1>5 DEF TradeViewer

\* The user and the answers, on the pages of the strategies.
LEMMA StrategiesKeepOrder ==
  ASSUME Ordered, StrategyBrowser
  PROVE  Ordered' /\ About(DOMAIN BrowserLayout \union DOMAIN DetailLayout(None))
  <1> DEFINE names == DOMAIN BrowserLayout \union DOMAIN DetailLayout(None)
  <1>0. \A c \in DOMAIN StrategyCallbacks : Outputs(c) \subseteq names
    BY BrowserBelong, DetailBelongs DEF BelongTo, StrategyCallbacks
  <1> HIDE DEF names
  <1> USE DEF Callback
  <1> SUFFICES Ordered' /\ About(names) BY DEF names
  <1>1. CASE Filter
    <2>1. PICK new : DOMAIN new \subseteq DOMAIN BrowserLayout /\ "strat_detail_name" \notin DOMAIN new /\ Input(new)
      BY <1>1, BrowserNames DEF Filter, UserInput
    <2> QED BY <1>1, <2>1, BrowserNames, DetailNames, InputKeepsOrder DEF Shows, Filter, names
  <1>2. CASE RefreshFiles
    <2>1. PICK new : DOMAIN new \subseteq DOMAIN BrowserLayout /\ "strat_detail_name" \notin DOMAIN new /\ Input(new)
      BY <1>2, BrowserNames DEF RefreshFiles, UserInput
    <2> QED BY <1>2, <2>1, BrowserNames, DetailNames, InputKeepsOrder DEF Shows, RefreshFiles, names
  <1>3. CASE Serve("load_strategies", LoadStrategies)
    <2>1. \A answer \in LoadStrategies(calls["load_strategies"].with) :
           DOMAIN answer \subseteq Outputs("load_strategies")
      BY GraphIs DEF Outputs, StrategyCallbacks, LoadStrategies
    <2> QED BY <1>3, <2>1, <1>0, ServesKeepOrder DEF Serve, StrategyCallbacks
  <1>4. CASE Apply("load_strategies") BY <1>4, <1>0, ApplyKeepsOrder DEF StrategyCallbacks
  <1>5. CASE Reply("set_folder_filter", SetFolderFilter)
    <2>1. DOMAIN SetFolderFilter(calls["set_folder_filter"].with) \subseteq Outputs("set_folder_filter")
      BY GraphIs DEF Outputs, StrategyCallbacks, SetFolderFilter
    <2> QED BY <1>5, <2>1, <1>0, ReplyKeepsOrder DEF Reply, StrategyCallbacks
  <1>6. CASE Reply("render_cards", RenderCards)
    <2>1. DOMAIN RenderCards(calls["render_cards"].with) \subseteq Outputs("render_cards")
      BY GraphIs DEF Outputs, StrategyCallbacks, RenderCards
    <2> QED BY <1>6, <2>1, <1>0, ReplyKeepsOrder DEF Reply, StrategyCallbacks
  <1>7. CASE Serve("populate_detail", PopulateDetail)
    <2>1. \A answer \in PopulateDetail(calls["populate_detail"].with) :
           DOMAIN answer \subseteq Outputs("populate_detail")
      BY GraphIs DEF Outputs, StrategyCallbacks, PopulateDetail
    <2> QED BY <1>7, <2>1, <1>0, ServesKeepOrder DEF Serve, StrategyCallbacks
  <1>8. CASE Apply("populate_detail") BY <1>8, <1>0, ApplyKeepsOrder DEF StrategyCallbacks
  <1> QED BY <1>1, <1>2, <1>3, <1>4, <1>5, <1>6, <1>7, <1>8 DEF StrategyBrowser, Listing

\* On the page of the bots.
LEMMA BotsKeepOrder ==
  ASSUME Ordered, Overview
  PROVE  Ordered' /\ About(DOMAIN BotsLayout)
  <1> DEFINE names == DOMAIN BotsLayout
  <1>0. \A c \in DOMAIN BotCallbacks : Outputs(c) \subseteq names
    BY BotsBelong DEF BelongTo, BotCallbacks
  <1> HIDE DEF names
  <1> USE DEF Callback
  <1> SUFFICES Ordered' /\ About(names) BY DEF names
  <1>1. CASE \E mode \in {"paper", "live"} : Toggle(mode)
    <2>1. PICK mode : Toggle(mode) BY <1>1
    <2>2. "bot_mode_toggle" \in DOMAIN props BY <2>1, BotsNames DEF Toggle, Shows
    <2>3. Input([bot_mode_toggle |-> mode]) BY <2>1 DEF Toggle, UserInput
    <2> QED BY <2>2, <2>3, BotsNames, InputKeepsOrder DEF names
  <1>2. CASE Refresh
    <2>1. "bot_interval" \in DOMAIN props /\ Input([bot_interval |-> 0])
      BY <1>2, BotsNames DEF Refresh, Shows
    <2> QED BY <2>1, BotsNames, InputKeepsOrder DEF names
  <1>3. CASE ClickRow
    <2>1. PICK i : UserInput([bot_selected_rows |-> <<i>>]) BY <1>3 DEF ClickRow
    <2>2. "bot_selected_rows" \in DOMAIN props BY <1>3, BotsNames DEF ClickRow, Shows
    <2>3. Input([bot_selected_rows |-> <<i>>]) BY <2>1 DEF UserInput
    <2> QED BY <2>2, <2>3, BotsNames, InputKeepsOrder DEF names
  <1>4. CASE Serve("refresh_bot_overview", RefreshOverview)
    <2>1. \A answer \in RefreshOverview(calls["refresh_bot_overview"].with) :
           DOMAIN answer \subseteq Outputs("refresh_bot_overview")
      BY GraphIs DEF Outputs, BotCallbacks, RefreshOverview
    <2> QED BY <1>4, <2>1, <1>0, ServesKeepOrder DEF Serve, BotCallbacks
  <1>5. CASE Apply("refresh_bot_overview") BY <1>5, <1>0, ApplyKeepsOrder DEF BotCallbacks
  <1>6. CASE Reply("clear_leaderboard_selection", ClearSelection)
    <2>1. DOMAIN ClearSelection(calls["clear_leaderboard_selection"].with) \subseteq Outputs("clear_leaderboard_selection")
      BY GraphIs DEF Outputs, BotCallbacks, ClearSelection
    <2> QED BY <1>6, <2>1, <1>0, ReplyKeepsOrder DEF Reply, BotCallbacks
  <1>7. CASE Reply("select_bot", SelectBot)
    <2>1. DOMAIN SelectBot(calls["select_bot"].with) \subseteq Outputs("select_bot")
      BY GraphIs DEF Outputs, BotCallbacks, SelectBot, NoUpdate
    <2> QED BY <1>7, <2>1, <1>0, ReplyKeepsOrder DEF Reply, BotCallbacks
  <1>8. CASE Serve("show_bot_detail", ShowDetail)
    <2>1. \A answer \in ShowDetail(calls["show_bot_detail"].with) :
           DOMAIN answer \subseteq Outputs("show_bot_detail")
      <3> SUFFICES ASSUME NEW answer \in ShowDetail(calls["show_bot_detail"].with)
                   PROVE  DOMAIN answer = {"bot_detail"}
        BY GraphIs DEF Outputs, BotCallbacks
      <3>1. \E v : answer = [bot_detail |-> v] BY DEF ShowDetail, ++
      <3> QED BY <3>1
    <2> QED BY <1>8, <2>1, <1>0, ServesKeepOrder DEF Serve, BotCallbacks
  <1>9. CASE Apply("show_bot_detail") BY <1>9, <1>0, ApplyKeepsOrder DEF BotCallbacks
  <1> QED BY <1>1, <1>2, <1>3, <1>4, <1>5, <1>6, <1>7, <1>8, <1>9 DEF Overview

\* On the charts, with what the exchanges send.
LEMMA ChartsKeepOrder ==
  ASSUME Ordered, Charts
  PROVE  Ordered' /\ About(DOMAIN ChartsLayout)
  <1> DEFINE names == DOMAIN ChartsLayout
  <1>0. \A c \in DOMAIN ChartCallbacks : Outputs(c) \subseteq names
    BY ChartsBelong DEF BelongTo, ChartCallbacks
  <1> HIDE DEF names
  <1> USE DEF Callback
  <1> SUFFICES Ordered' /\ About(names) BY DEF names
  <1>1. CASE Advance \/ \E m \in Markets : WriteRow(m) \/ AddTick(m)
    <2>1. UNCHANGED <<props, calls>> BY <1>1 DEF Advance, WriteRow, AddTick, browser
    <2> QED BY <2>1, UnchangedKeepsOrder
  <1>2. CASE Choose
    <2>1. {"symbol_dropdown", "tf_dropdown"} \subseteq DOMAIN props BY <1>2, ChartsNames DEF Choose, Shows
    <2>2. {"symbol_dropdown", "tf_dropdown"} \subseteq names BY ChartsNames DEF names
    <2>3. CASE \E m : Input([symbol_dropdown |-> m])
      <3>1. PICK m : Input([symbol_dropdown |-> m]) BY <2>3
      <3> QED BY <2>1, <2>2, <3>1, InputKeepsOrder
    <2>4. CASE \E n : Input([tf_dropdown |-> n])
      <3>1. PICK n : Input([tf_dropdown |-> n]) BY <2>4
      <3> QED BY <2>1, <2>2, <3>1, InputKeepsOrder
    <2> QED BY <1>2, <2>3, <2>4 DEF Choose, UserInput
  <1>3. CASE LiveTick
    <2>1. "live_interval" \in DOMAIN props /\ Input([live_interval |-> 0])
      BY <1>3, ChartsNames DEF LiveTick, Shows
    <2> QED BY <2>1, ChartsNames, InputKeepsOrder DEF names
  <1>4. CASE Serve("update_candle_store", UpdateCandleStore)
    <2>1. \A answer \in UpdateCandleStore(calls["update_candle_store"].with) :
           DOMAIN answer \subseteq Outputs("update_candle_store")
      BY GraphIs DEF Outputs, ChartCallbacks, UpdateCandleStore, Seeded, ChartStores
    <2> QED BY <1>4, <2>1, <1>0, ServesKeepOrder DEF Serve, ChartCallbacks
  <1>5. CASE StoresAnswered BY <1>5, <1>0, ApplyKeepsOrder DEF StoresAnswered, ChartCallbacks
  <1>6. CASE Serve("live_update", LiveUpdate)
    <2>1. \A answer \in LiveUpdate(calls["live_update"].with) :
           DOMAIN answer \subseteq Outputs("live_update")
      <3> SUFFICES ASSUME NEW answer \in LiveUpdate(calls["live_update"].with)
                   PROVE  DOMAIN answer \subseteq ChartStores
        BY GraphIs DEF Outputs, ChartCallbacks
      <3> DEFINE w == calls["live_update"].with
      <3>1. \/ answer = NoUpdate
            \/ \E b, e : answer = LiveCandles(w, b) ++ LiveTicks(w, e)
        <4> HIDE DEF w
        <4>1. answer \in LiveUpdate(w) BY DEF w
        <4> DEFINE m == w.symbol_dropdown
                   bars == OrNone(NewBars(m, rows[m], w.last_ts, w.active_tf, now))
                   entries == OrNone(IF w.ob_cursor_symbol = m THEN NewTicks(m, w.ob_cursor) ELSE <<>>)
                   some == {LiveCandles(w, b) ++ LiveTicks(w, e) : b \in bars, e \in entries}
        <4>2. LiveUpdate(w) = IF w.last_ts = None THEN {NoUpdate} ELSE some BY DEF LiveUpdate, ++
        <4>3. answer = NoUpdate \/ answer \in some
          <5> HIDE DEF some
          <5> QED BY <4>1, <4>2
        <4>4. ASSUME answer \in some PROVE \E b, e : answer = LiveCandles(w, b) ++ LiveTicks(w, e)
          <5>1. PICK b \in bars, e \in entries : answer = LiveCandles(w, b) ++ LiveTicks(w, e)
            BY <4>4 DEF ++
          <5> QED BY <5>1 DEF ++
        <4> HIDE DEF some
        <4> QED BY <4>3, <4>4, Zenon
      <3>2. \A b, e : DOMAIN LiveCandles(w, b) \subseteq ChartStores /\ DOMAIN LiveTicks(w, e) \subseteq ChartStores
        BY DEF LiveCandles, LiveTicks, NoUpdate, ChartStores
      <3>3. CASE answer = NoUpdate BY <3>3 DEF NoUpdate
      <3>4. CASE answer # NoUpdate
        <4>1. PICK b, e : answer = LiveCandles(w, b) ++ LiveTicks(w, e) BY <3>1, <3>4
        <4>2. PICK f, g : f = LiveCandles(w, b) /\ g = LiveTicks(w, e) OBVIOUS
        <4>3. answer = f ++ g BY <4>1, <4>2
        <4> QED BY <3>2, <4>2, <4>3 DEF ++
      <3> QED BY <3>3, <3>4
    <2> QED BY <1>6, <2>1, <1>0, ServesKeepOrder DEF Serve, ChartCallbacks
  <1>7. CASE LiveAnswered BY <1>7, <1>0, ApplyKeepsOrder DEF LiveAnswered, ChartCallbacks
  <1> QED BY <1>1, <1>2, <1>3, <1>4, <1>5, <1>6, <1>7 DEF Charts, Stores, Live

\* On the profiles.
LEMMA ProfilesKeepOrder ==
  ASSUME Ordered, Profiles
  PROVE  Ordered' /\ About({"hover_profile_store"} \union DOMAIN ProfilesLayout)
  <1> DEFINE names == {"hover_profile_store"} \union DOMAIN ProfilesLayout
  <1>0. \A c \in DOMAIN ProfileCallbacks : Outputs(c) \subseteq names
    BY ProfilesBelong DEF BelongTo, ProfileCallbacks
  <1> HIDE DEF names
  <1> USE DEF Callback
  <1> SUFFICES Ordered' /\ About(names) BY DEF names
  <1>1. CASE \E fields \in SUBSET Fields : Check(fields)
    <2>1. \E v : Input([profile_field_check |-> v]) BY <1>1 DEF Check, Does, UserInput
    <2>2. "profile_field_check" \in DOMAIN props BY <1>1, ProfilesNames DEF Check, Does, Shows
    <2> QED BY <2>1, <2>2, ProfilesNames, InputKeepsOrder DEF names
  <1>2. CASE ClickSave
    <2>1. \E v : Input([profile_save_btn |-> v]) BY <1>2 DEF ClickSave, Does, UserInput
    <2>2. "profile_save_btn" \in DOMAIN props BY <1>2, ProfilesNames DEF ClickSave, Does, Shows
    <2> QED BY <2>1, <2>2, ProfilesNames, InputKeepsOrder DEF names
  <1>3. CASE ClickDelete
    <2>1. \E v : Input([profile_delete_btn |-> v]) BY <1>3 DEF ClickDelete, Does, UserInput
    <2>2. "profile_delete_btn" \in DOMAIN props BY <1>3, ProfilesNames DEF ClickDelete, Does, Shows
    <2> QED BY <2>1, <2>2, ProfilesNames, InputKeepsOrder DEF names
  <1>4. CASE ClickLoadFile
    <2>1. \E v : Input([profile_load_file_btn |-> v]) BY <1>4 DEF ClickLoadFile, Does, UserInput
    <2>2. "profile_load_file_btn" \in DOMAIN props BY <1>4, ProfilesNames DEF ClickLoadFile, Does, Shows
    <2> QED BY <2>1, <2>2, ProfilesNames, InputKeepsOrder DEF names
  <1>5. CASE ClickSaveFile
    <2>1. \E v : Input([profile_save_file_btn |-> v]) BY <1>5 DEF ClickSaveFile, Does, UserInput
    <2>2. "profile_save_file_btn" \in DOMAIN props BY <1>5, ProfilesNames DEF ClickSaveFile, Does, Shows
    <2> QED BY <2>1, <2>2, ProfilesNames, InputKeepsOrder DEF names
  <1>6. CASE \E name \in Names : ClickCreate(name)
    <2>1. \E v : Input([profile_create_btn |-> v]) BY <1>6 DEF ClickCreate, Does, UserInput
    <2>2. "profile_create_btn" \in DOMAIN props BY <1>6, ProfilesNames DEF ClickCreate, Does, Shows
    <2> QED BY <2>1, <2>2, ProfilesNames, InputKeepsOrder DEF names
  <1>7. CASE \E name \in Names : Switch(name)
    <2>1. \E v : Input([profile_active_dd |-> v]) BY <1>7 DEF Switch, Does, UserInput
    <2>2. "profile_active_dd" \in DOMAIN props BY <1>7, ProfilesNames DEF Switch, Does, Shows
    <2> QED BY <2>1, <2>2, ProfilesNames, InputKeepsOrder DEF names
  <1>8. CASE Answered("auto_load_on_profiles_visit", AutoLoad)
    <2>1. DOMAIN AutoLoad(calls["auto_load_on_profiles_visit"].with) \subseteq Outputs("auto_load_on_profiles_visit")
      BY GraphIs DEF Outputs, ProfileCallbacks, AutoLoad, NoUpdate
    <2> QED BY <1>8, <2>1, <1>0, ReplyKeepsOrder DEF Answered, Reply, ProfileCallbacks
  <1>9. CASE Answered("load_from_file", LoadFromFile)
    <2>1. DOMAIN LoadFromFile(calls["load_from_file"].with) \subseteq Outputs("load_from_file")
      BY GraphIs DEF Outputs, ProfileCallbacks, LoadFromFile, NoUpdate
    <2> QED BY <1>9, <2>1, <1>0, ReplyKeepsOrder DEF Answered, Reply, ProfileCallbacks
  <1>10. CASE SaveToFile BY <1>10, SaveKeepsOrder DEF SaveToFile
  <1>11. CASE Answered("sync_profile_dropdown", SyncDropdown)
    <2>1. DOMAIN SyncDropdown(calls["sync_profile_dropdown"].with) \subseteq Outputs("sync_profile_dropdown")
      BY GraphIs DEF Outputs, ProfileCallbacks, SyncDropdown
    <2> QED BY <1>11, <2>1, <1>0, ReplyKeepsOrder DEF Answered, Reply, ProfileCallbacks
  <1>12. CASE Answered("load_profile_fields", LoadFields)
    <2>1. DOMAIN LoadFields(calls["load_profile_fields"].with) \subseteq Outputs("load_profile_fields")
      BY GraphIs DEF Outputs, ProfileCallbacks, LoadFields
    <2> QED BY <1>12, <2>1, <1>0, ReplyKeepsOrder DEF Answered, Reply, ProfileCallbacks
  <1>13. CASE Answered("save_profile", SaveProfile)
    <2>1. DOMAIN SaveProfile(calls["save_profile"].with) \subseteq Outputs("save_profile")
      BY GraphIs DEF Outputs, ProfileCallbacks, SaveProfile, NoUpdate
    <2> QED BY <1>13, <2>1, <1>0, ReplyKeepsOrder DEF Answered, Reply, ProfileCallbacks
  <1>14. CASE Answered("create_profile", CreateProfile)
    <2>1. DOMAIN CreateProfile(calls["create_profile"].with) \subseteq Outputs("create_profile")
      BY GraphIs DEF Outputs, ProfileCallbacks, CreateProfile, StoreAndDropdown, NoUpdate
    <2> QED BY <1>14, <2>1, <1>0, ReplyKeepsOrder DEF Answered, Reply, ProfileCallbacks
  <1>15. CASE Answered("delete_profile", DeleteProfile)
    <2>1. DOMAIN DeleteProfile(calls["delete_profile"].with) \subseteq Outputs("delete_profile")
      BY GraphIs DEF Outputs, ProfileCallbacks, DeleteProfile, StoreAndDropdown, NoUpdate
    <2> QED BY <1>15, <2>1, <1>0, ReplyKeepsOrder DEF Answered, Reply, ProfileCallbacks
  <1>16. CASE Answered("switch_active_profile", SwitchActive)
    <2>1. DOMAIN SwitchActive(calls["switch_active_profile"].with) \subseteq Outputs("switch_active_profile")
      BY GraphIs DEF Outputs, ProfileCallbacks, SwitchActive, NoUpdate
    <2> QED BY <1>16, <2>1, <1>0, ReplyKeepsOrder DEF Answered, Reply, ProfileCallbacks
  <1> QED
    BY <1>1, <1>2, <1>3, <1>4, <1>5, <1>6, <1>7, <1>8, <1>9, <1>10, <1>11, <1>12, <1>13, <1>14,
       <1>15, <1>16
    DEF Profiles

\* On the page of the backtests.
LEMMA BacktestKeepsOrder ==
  ASSUME Ordered, BacktestForm
  PROVE  Ordered' /\ About(DOMAIN BacktestLayout)
  <1> DEFINE names == DOMAIN BacktestLayout
  <1>0. \A c \in DOMAIN BacktestCallbacks : Outputs(c) \subseteq names
    BY BacktestBelong DEF BelongTo, BacktestCallbacks
  <1> HIDE DEF names
  <1> USE DEF Callback
  <1> SUFFICES Ordered' /\ About(names) BY DEF names
  <1>1. CASE ChooseExchange
    <2>1. \E v : Input([exchange_dd |-> v]) BY <1>1 DEF ChooseExchange, UserInput
    <2>2. "exchange_dd" \in DOMAIN props BY <1>1, BacktestNames DEF ChooseExchange, Shows
    <2> QED BY <2>1, <2>2, BacktestNames, InputKeepsOrder DEF names
  <1>2. CASE ChooseSymbol
    <2>1. \E v : Input([symbol_dd |-> v]) BY <1>2 DEF ChooseSymbol, UserInput
    <2>2. "symbol_dd" \in DOMAIN props BY <1>2, BacktestNames DEF ChooseSymbol, Shows
    <2> QED BY <2>1, <2>2, BacktestNames, InputKeepsOrder DEF names
  <1>3. CASE RefreshStrategies
    <2>1. \E v : Input([strategies_refresh |-> v]) BY <1>3 DEF RefreshStrategies, UserInput
    <2>2. "strategies_refresh" \in DOMAIN props BY <1>3, BacktestNames DEF RefreshStrategies, Shows
    <2> QED BY <2>1, <2>2, BacktestNames, InputKeepsOrder DEF names
  <1>4. CASE ChooseStrategy
    <2>1. \E v : Input([strategy_dd |-> v]) BY <1>4 DEF ChooseStrategy, UserInput
    <2>2. "strategy_dd" \in DOMAIN props BY <1>4, BacktestNames DEF ChooseStrategy, Shows
    <2> QED BY <2>1, <2>2, BacktestNames, InputKeepsOrder DEF names
  <1>5. CASE ChooseHash
    <2>1. \E v : Input([hash_filter_dd |-> v]) BY <1>5 DEF ChooseHash, UserInput
    <2>2. "hash_filter_dd" \in DOMAIN props BY <1>5, BacktestNames DEF ChooseHash, Shows
    <2> QED BY <2>1, <2>2, BacktestNames, InputKeepsOrder DEF names
  <1>6. CASE ClickRun
    <2>1. \E v : Input([run_btn |-> v]) BY <1>6 DEF ClickRun, UserInput
    <2>2. "run_btn" \in DOMAIN props BY <1>6, BacktestNames DEF ClickRun, Shows
    <2> QED BY <2>1, <2>2, BacktestNames, InputKeepsOrder DEF names
  <1>7. CASE PollTick
    <2>1. \E v : Input([poll_interval |-> v]) BY <1>7 DEF PollTick
    <2>2. "poll_interval" \in DOMAIN props BY <1>7, BacktestNames DEF PollTick, Shows
    <2> QED BY <2>1, <2>2, BacktestNames, InputKeepsOrder DEF names
  <1>8. CASE ClickTrade
    <2>1. \E v : Input([trade_chart_btn |-> v]) BY <1>8 DEF ClickTrade, UserInput
    <2>2. "trade_chart_btn" \in DOMAIN props BY <1>8, BacktestNames DEF ClickTrade, Shows
    <2> QED BY <2>1, <2>2, BacktestNames, InputKeepsOrder DEF names
  <1>9. CASE RunAsked
    <2>1. PICK outcome \in RunClick(calls["on_run_click"].with) :
            /\ Served("on_run_click") /\ props' = props
            /\ calls' = [calls EXCEPT !["on_run_click"].answer = outcome[1]]
      BY <1>9 DEF RunAsked, Serve
    <2>2. DOMAIN outcome[1] \subseteq Outputs("on_run_click")
      BY GraphIs DEF Outputs, BacktestCallbacks, RunClick
    <2>3. Ordered' /\ About(Outputs("on_run_click"))
      BY <2>1, <2>2, ServeKeepsOrder DEF Served, Pending
    <2> QED BY <2>3, <1>0, AboutMore DEF BacktestCallbacks
  <1>10. CASE Apply("on_run_click") BY <1>10, <1>0, ApplyKeepsOrder DEF BacktestCallbacks
  <1>11. CASE PollAnswered BY <1>11, <1>0, ApplyKeepsOrder DEF PollAnswered, BacktestCallbacks
  <1>12. CASE Serve("load_strategy_options", LoadStrategyOptions)
    <2>1. \A answer \in LoadStrategyOptions(calls["load_strategy_options"].with) :
           DOMAIN answer \subseteq Outputs("load_strategy_options")
      BY GraphIs DEF Outputs, BacktestCallbacks, LoadStrategyOptions
    <2> QED BY <1>12, <2>1, <1>0, ServesKeepOrder DEF Serve, BacktestCallbacks
  <1>13. CASE Apply("load_strategy_options") BY <1>13, <1>0, ApplyKeepsOrder DEF BacktestCallbacks
  <1>14. CASE Serve("load_symbol_options", LoadSymbolOptions)
    <2>1. \A answer \in LoadSymbolOptions(calls["load_symbol_options"].with) :
           DOMAIN answer \subseteq Outputs("load_symbol_options")
      <3> SUFFICES ASSUME NEW answer \in LoadSymbolOptions(calls["load_symbol_options"].with)
                   PROVE  DOMAIN answer = {"symbol_options", "symbol_dd", "symbol_data"}
        BY GraphIs DEF Outputs, BacktestCallbacks
      <3>1. \E a, b, d : answer = [symbol_options |-> a, symbol_dd |-> b, symbol_data |-> d]
        BY DEF LoadSymbolOptions
      <3> QED BY <3>1
    <2> QED BY <1>14, <2>1, <1>0, ServesKeepOrder DEF Serve, BacktestCallbacks
  <1>15. CASE Apply("load_symbol_options") BY <1>15, <1>0, ApplyKeepsOrder DEF BacktestCallbacks
  <1>16. CASE Reply("update_date_range", UpdateDateRange)
    <2>1. DOMAIN UpdateDateRange(calls["update_date_range"].with) \subseteq Outputs("update_date_range")
      BY GraphIs DEF Outputs, BacktestCallbacks, UpdateDateRange
    <2> QED BY <1>16, <2>1, <1>0, ReplyKeepsOrder DEF Reply, BacktestCallbacks
  <1>17. CASE Serve("on_strategy_select", StrategySelect)
    <2>1. \A answer \in StrategySelect(calls["on_strategy_select"].with) :
           DOMAIN answer \subseteq Outputs("on_strategy_select")
      BY GraphIs DEF Outputs, BacktestCallbacks, StrategySelect
    <2> QED BY <1>17, <2>1, <1>0, ServesKeepOrder DEF Serve, BacktestCallbacks
  <1>18. CASE Apply("on_strategy_select") BY <1>18, <1>0, ApplyKeepsOrder DEF BacktestCallbacks
  <1>19. CASE Serve("on_hash_filter", HashFilter)
    <2>1. \A answer \in HashFilter(calls["on_hash_filter"].with) :
           DOMAIN answer \subseteq Outputs("on_hash_filter")
      BY GraphIs DEF Outputs, BacktestCallbacks, HashFilter
    <2> QED BY <1>19, <2>1, <1>0, ServesKeepOrder DEF Serve, BacktestCallbacks
  <1>20. CASE Apply("on_hash_filter") BY <1>20, <1>0, ApplyKeepsOrder DEF BacktestCallbacks
  <1>21. CASE Serve("on_poll", OnPoll)
    <2>1. \A answer \in OnPoll(calls["on_poll"].with) : DOMAIN answer \subseteq Outputs("on_poll")
      BY GraphIs DEF Outputs, BacktestCallbacks, OnPoll
    <2> QED BY <1>21, <2>1, <1>0, ServesKeepOrder DEF Serve, BacktestCallbacks
  <1>22. CASE Serve("on_trade_chart_click", TradeChartClick)
    <2>1. \A answer \in TradeChartClick(calls["on_trade_chart_click"].with) :
           DOMAIN answer \subseteq Outputs("on_trade_chart_click")
      BY GraphIs DEF Outputs, BacktestCallbacks, TradeChartClick, NoUpdate
    <2> QED BY <1>22, <2>1, <1>0, ServesKeepOrder DEF Serve, BacktestCallbacks
  <1>23. CASE Apply("on_trade_chart_click") BY <1>23, <1>0, ApplyKeepsOrder DEF BacktestCallbacks
  <1>24. CASE Reply("build_inline_chart", BuildInlineChart)
    <2>1. DOMAIN BuildInlineChart(calls["build_inline_chart"].with) \subseteq Outputs("build_inline_chart")
      BY GraphIs DEF Outputs, BacktestCallbacks, BuildInlineChart
    <2> QED BY <1>24, <2>1, <1>0, ReplyKeepsOrder DEF Reply, BacktestCallbacks
  <1> QED
    BY <1>1, <1>2, <1>3, <1>4, <1>5, <1>6, <1>7, <1>8, <1>9, <1>10, <1>11, <1>12, <1>13, <1>14,
       <1>15, <1>16, <1>17, <1>18, <1>19, <1>20, <1>21, <1>22, <1>23, <1>24
    DEF BacktestForm, Asked
------------------------------------------------------------------------------
\* Every step keeps order.
LEMMA NextKeepsOrder ==
  ASSUME Ordered, [Next]_vars
  PROVE  Ordered'
  <1>1. CASE \E url \in Addresses : GoTo(url)
    <2>1. PICK url \in Addresses : GoTo(url) BY <1>1
    <2>2. "url" \in DOMAIN props BY DEF Ordered, PageKnown, OnPage, Base
    <2>3. Input([url |-> url]) BY <2>1 DEF GoTo, UserInput
    <2>4. DOMAIN [url |-> url] = {"url"} OBVIOUS
    <2> QED BY <2>2, <2>3, <2>4, InputKeepsOrder
  <1>2. CASE RenderPage
    <2>1. Mount("render_page", Layout(props.url), Base) BY <1>2 DEF RenderPage, Base
    <2> QED BY <2>1, MountKeepsOrder
  <1>3. CASE StrategiesOutside
    <2>1. UNCHANGED <<props, calls>> BY <1>3 DEF StrategiesOutside, PutFile, TakeFile, Changes, browser
    <2> QED BY <2>1, UnchangedKeepsOrder
  <1>4. CASE BotsOutside
    <2>1. UNCHANGED <<props, calls>> BY <1>4 DEF BotsOutside, MoveBot, Trade, browser
    <2> QED BY <2>1, UnchangedKeepsOrder
  <1>5. CASE UNCHANGED vars BY <1>5, UnchangedKeepsOrder DEF vars, browser
  <1> QED
    BY <1>1, <1>2, <1>3, <1>4, <1>5, ChartsKeepOrder, ProfilesKeepOrder, BotsKeepOrder,
       BacktestKeepsOrder, TradeKeepsOrder, StrategiesKeepOrder DEF Next

\* The tab opens in order.
LEMMA InitOrdered == Init => Ordered
  <1> SUFFICES ASSUME Init PROVE Ordered OBVIOUS
  <1>1. PICK url, stored : props = [url |-> url, hover_profile_store |-> stored]
    BY DEF Init
  <1>2. calls = Sent(Called(<<>>, props, {"url"}, {}), props) BY DEF Init
  <1>3. PICK p, f : p = props /\ f = Called(<<>>, p, {"url"}, {}) OBVIOUS
  <1>4. CalledIn(f, <<>>, p, {"url"}, {}) BY <1>3, CalledAre
  <1>5. calls = Sent(f, p) BY <1>2, <1>3
  <1>6. SentIn(calls, f, p) BY <1>5, SentAre
  <1>7. DOMAIN f = Anew({"url"}, {}, p) /\ \A c \in DOMAIN f : f[c] = NewCall({})
    BY <1>4 DEF CalledIn
  <1>8. DOMAIN calls = Anew({"url"}, {}, props) /\ calls = [c \in DOMAIN calls |-> calls[c]]
    BY <1>3, <1>6, <1>7 DEF SentIn
  <1>9. \A c \in DOMAIN calls : CallShape(calls[c]) /\ Keeps(calls[c], NewCall({}), c, props)
    <2>1. \A c \in DOMAIN f : CallShape(f[c]) BY <1>7, NewCallShape
    <2> QED BY <1>3, <1>6, <1>7, <2>1, SentKeeps DEF SentIn
  <1>10. Placed
    <2>1. \A c \in DOMAIN calls : c \in DOMAIN Graph /\ IsOn(c, props) BY <1>8 DEF Anew
    <2>2. \A c \in DOMAIN calls : calls[c].answer = None BY <1>9, NewCallShape DEF Keeps
    <2> QED BY <1>1, <1>8, <1>9, <2>1, <2>2 DEF Placed
  <1>11. PageKnown BY <1>1 DEF PageKnown, PageNames, OnPage, Base
  <1>12. Chains
    <2>1. \A c \in DOMAIN calls : calls[c].chain = {} BY <1>9, NewCallShape DEF Keeps
    <2> QED BY <2>1 DEF Chains
  <1>13. Fresh
    <2>1. \A c \in DOMAIN calls : calls[c].with # Nothing =>
            calls[c].with = [x \in Reads[c] |-> props[x]]
      BY <1>9, NewCallShape DEF Keeps
    <2>2. \A c \in DOMAIN calls : Graph[c].ins \subseteq Reads[c] BY <1>10, PartsAre DEF Placed
    <2> QED BY <2>1, <2>2 DEF Fresh
  <1>14. Addressed
    <2>1. /\ "render_page" \in DOMAIN Graph /\ Graph["render_page"].ins = {"url"}
          /\ Outputs("render_page") = {}
      BY GraphIs DEF Callback, Outputs
    <2>2. IsOn("render_page", props) BY <1>1, <2>1, PartsAre DEF IsOn
    <2>3. "render_page" \in DOMAIN calls BY <1>8, <2>1, <2>2 DEF Anew
    <2> QED BY <2>3 DEF Addressed, Pending
  <1> QED BY <1>10, <1>11, <1>12, <1>13, <1>14 DEF Ordered

\* The calls and the page are in order at all times.
THEOREM OrderHolds == Spec => []Ordered
  BY InitOrdered, NextKeepsOrder, PTL DEF Spec
------------------------------------------------------------------------------
\* What a step about other properties leaves of a callback of the page.
LEMMA AboutOthers ==
  ASSUME Ordered, NEW names, About(names), NEW c \in Straight, Outputs(c) # {},
         Outputs(c) \intersect names = {}, IsOn(c, props)
  PROVE  /\ Goes(c) /\ \A x \in Outputs(c) : props'[x] = props[x]
         /\ c \notin DOMAIN calls' =>
              c \notin DOMAIN calls /\ \A x \in Graph[c].ins : props'[x] = props[x]
  <1>1. c \in DOMAIN Graph BY DEF Straight
  <1>2. Outputs(c) \subseteq DOMAIN props BY <1>1, PartsAre DEF IsOn
  <1> QED BY <1>1, <1>2 DEF About, Goes

\* What a page calls when it is shown has not answered then.
LEMMA FirstCalls ==
  ASSUME NEW layout, Mounts(layout), NEW c \in DOMAIN Graph, Graph[c].first,
         Outputs(c) \intersect DOMAIN layout # {}, Parts[c] \subseteq Base \union DOMAIN layout
  PROVE  c \in DOMAIN calls' /\ calls'[c].answer = None
  <1>1. c \in FirstOn(layout, props') BY DEF FirstOn, Mounts, IsOn
  <1> QED BY <1>1, NewCallShape DEF Mounts, Keeps

\* The stores are, or will be, of the trade of the address, and what is drawn of them.
LoadRight ==
  LET load == calls["load_chart_data"]
  IN /\ Pending("load_chart_data") /\ load.answer # None => load.answer \in LoadChart(load.with)
     /\ ~Pending("load_chart_data") /\ props.url.page = "/chart" =>
          [chart_candle_store |-> props.chart_candle_store,
           chart_trades_store |-> props.chart_trades_store,
           chart_selected_idx |-> props.chart_selected_idx] \in LoadChart(props)

ChartRight == ~Pending("build_chart") =>
  props.chart_candlestick = BuildChart(props).chart_candlestick

InfoRight == ~Pending("update_trade_info") =>
  props.chart_trade_info = TradeInfo(props).chart_trade_info

RowsRight == ~Pending("update_all_trades") =>
  props.chart_all_trades = AllTrades(props).chart_all_trades

TradeRight ==
  OnPage(DOMAIN TradeLayout) => LoadRight /\ ChartRight /\ InfoRight /\ RowsRight

\* The callbacks of the page of a trade write apart, and none writes what it reads.
LEMMA TradeGraph ==
  /\ DOMAIN TradeCallbacks \subseteq Straight
  /\ \A c \in DOMAIN TradeCallbacks : Graph[c].first /\ Outputs(c) # {}
  /\ \A c, d \in DOMAIN TradeCallbacks : c # d => Outputs(c) \intersect Outputs(d) = {}
  /\ \A c \in DOMAIN TradeCallbacks : Outputs(c) \intersect Graph[c].ins = {}
  BY SMTT(30), GraphIs DEF Straight, TradeCallbacks, ProfileCallbacks, Outputs, Callback

\* They are all on that page.
LEMMA TradeOn ==
  ASSUME OnPage(DOMAIN TradeLayout), NEW c \in DOMAIN TradeCallbacks
  PROVE  IsOn(c, props)
  BY TradeBelong, PartsAre DEF BelongTo, OnPage, IsOn, Base

\* What is right stays so in a step that is about something else.
LEMMA TradeStays ==
  ASSUME Ordered, OnPage(DOMAIN TradeLayout), NEW names, About(names)
  PROVE  /\ Outputs("load_chart_data") \intersect names = {} /\ LoadRight => LoadRight'
         /\ Outputs("build_chart") \intersect names = {} /\ ChartRight => ChartRight'
         /\ Outputs("update_trade_info") \intersect names = {} /\ InfoRight => InfoRight'
         /\ Outputs("update_all_trades") \intersect names = {} /\ RowsRight => RowsRight'
  <1> USE DEF Pending
  <1>0. \A c \in DOMAIN TradeCallbacks : c \in Straight /\ Outputs(c) # {} /\ IsOn(c, props)
    BY TradeGraph, TradeOn
  <1>1. ASSUME Outputs("load_chart_data") \intersect names = {}, LoadRight PROVE LoadRight'
    <2>1. /\ Goes("load_chart_data") /\ \A x \in Outputs("load_chart_data") : props'[x] = props[x]
          /\ "load_chart_data" \notin DOMAIN calls' =>
               /\ "load_chart_data" \notin DOMAIN calls
               /\ \A x \in Graph["load_chart_data"].ins : props'[x] = props[x]
      BY <1>0, <1>1, AboutOthers DEF TradeCallbacks
    <2>2. /\ Outputs("load_chart_data") = {"chart_candle_store", "chart_trades_store", "chart_selected_idx"}
          /\ Graph["load_chart_data"].ins = {"url"}
      BY GraphIs DEF TradeCallbacks, Callback, Outputs
    <2>3. ASSUME "load_chart_data" \in DOMAIN calls', calls'["load_chart_data"].answer # None
          PROVE  calls'["load_chart_data"].answer \in LoadChart(calls'["load_chart_data"].with)
      BY <1>1, <2>1, <2>3 DEF LoadRight, Goes
    <2>4. ASSUME "load_chart_data" \notin DOMAIN calls', props'.url.page = "/chart"
          PROVE  [chart_candle_store |-> props'.chart_candle_store,
                  chart_trades_store |-> props'.chart_trades_store,
                  chart_selected_idx |-> props'.chart_selected_idx] \in LoadChart(props')
      <3>1. props'.url = props.url BY <2>1, <2>2, <2>4
      <3>2. LoadChart(props') = LoadChart(props) BY <3>1 DEF LoadChart
      <3> QED BY <1>1, <2>1, <2>2, <2>4, <3>1, <3>2 DEF LoadRight
    <2> QED BY <2>3, <2>4 DEF LoadRight
  <1>2. ASSUME Outputs("build_chart") \intersect names = {}, ChartRight PROVE ChartRight'
    <2>1. /\ \A x \in Outputs("build_chart") : props'[x] = props[x]
          /\ "build_chart" \notin DOMAIN calls' =>
               "build_chart" \notin DOMAIN calls /\ \A x \in Graph["build_chart"].ins : props'[x] = props[x]
      BY <1>0, <1>2, AboutOthers DEF TradeCallbacks
    <2>2. /\ Outputs("build_chart") = {"chart_candlestick"}
          /\ Graph["build_chart"].ins = {"chart_candle_store", "chart_trades_store", "chart_selected_idx"}
      BY GraphIs DEF TradeCallbacks, Callback, Outputs
    <2> QED BY <1>2, <2>1, <2>2 DEF ChartRight, BuildChart
  <1>3. ASSUME Outputs("update_trade_info") \intersect names = {}, InfoRight PROVE InfoRight'
    <2>1. /\ \A x \in Outputs("update_trade_info") : props'[x] = props[x]
          /\ "update_trade_info" \notin DOMAIN calls' =>
               /\ "update_trade_info" \notin DOMAIN calls
               /\ \A x \in Graph["update_trade_info"].ins : props'[x] = props[x]
      BY <1>0, <1>3, AboutOthers DEF TradeCallbacks
    <2>2. /\ Outputs("update_trade_info") = {"chart_trade_info"}
          /\ Graph["update_trade_info"].ins = {"chart_trades_store", "chart_selected_idx"}
      BY GraphIs DEF TradeCallbacks, Callback, Outputs
    <2> QED BY <1>3, <2>1, <2>2 DEF InfoRight, TradeInfo
  <1>4. ASSUME Outputs("update_all_trades") \intersect names = {}, RowsRight PROVE RowsRight'
    <2>1. /\ \A x \in Outputs("update_all_trades") : props'[x] = props[x]
          /\ "update_all_trades" \notin DOMAIN calls' =>
               /\ "update_all_trades" \notin DOMAIN calls
               /\ \A x \in Graph["update_all_trades"].ins : props'[x] = props[x]
      BY <1>0, <1>4, AboutOthers DEF TradeCallbacks
    <2>2. /\ Outputs("update_all_trades") = {"chart_all_trades"}
          /\ Graph["update_all_trades"].ins = {"chart_trades_store", "chart_selected_idx"}
      BY GraphIs DEF TradeCallbacks, Callback, Outputs
    <2> QED BY <1>4, <2>1, <2>2 DEF RowsRight, AllTrades
  <1> QED BY <1>1, <1>2, <1>3, <1>4

\* What an answer is made of is still on the page.
LEMMA ServedFresh ==
  ASSUME Ordered, NEW c \in Straight, Graph[c].first, Served(c)
  PROVE  \A x \in Graph[c].ins : calls[c].with[x] = props[x]
  BY DEF Ordered, Fresh, Served, Pending

\* An answer of that page leaves it right.
LEMMA TradeViewerIsRight ==
  ASSUME Ordered, TradeRight, TradeViewer
  PROVE  TradeRight'
  <1> SUFFICES ASSUME OnPage(DOMAIN TradeLayout)'
               PROVE  LoadRight' /\ ChartRight' /\ InfoRight' /\ RowsRight'
    BY DEF TradeRight
  <1>0. /\ \A c \in DOMAIN TradeCallbacks : c \in Straight /\ Graph[c].first
        /\ \A c \in DOMAIN TradeCallbacks : c # "render_page"
        /\ Outputs("load_chart_data") = {"chart_candle_store", "chart_trades_store", "chart_selected_idx"}
        /\ Outputs("build_chart") = {"chart_candlestick"}
        /\ Outputs("update_trade_info") = {"chart_trade_info"}
        /\ Outputs("update_all_trades") = {"chart_all_trades"}
        /\ Graph["load_chart_data"].ins = {"url"}
        /\ Graph["build_chart"].ins = {"chart_candle_store", "chart_trades_store", "chart_selected_idx"}
        /\ Graph["update_trade_info"].ins = {"chart_trades_store", "chart_selected_idx"}
        /\ Graph["update_all_trades"].ins = {"chart_trades_store", "chart_selected_idx"}
    BY GraphIs, TradeGraph DEF TradeCallbacks, Callback, Outputs
  <1>1. ASSUME NEW names, About(names) PROVE OnPage(DOMAIN TradeLayout)
    BY <1>1 DEF OnPage, About
  <1>2. CASE Serve("load_chart_data", LoadChart)
    <2>1. \A answer \in LoadChart(calls["load_chart_data"].with) :
           DOMAIN answer \subseteq Outputs("load_chart_data")
      BY <1>0 DEF LoadChart, NoUpdate
    <2>2. /\ About(Outputs("load_chart_data")) /\ DOMAIN calls' = DOMAIN calls
          /\ calls'["load_chart_data"].with = calls["load_chart_data"].with
          /\ calls'["load_chart_data"].answer \in LoadChart(calls["load_chart_data"].with)
      BY <1>2, <2>1, ServesKeepOrder DEF Serve
    <2>3. ChartRight' /\ InfoRight' /\ RowsRight'
      BY <1>0, <1>1, <2>2, TradeStays DEF TradeRight
    <2>4. "load_chart_data" \in DOMAIN calls' BY <1>2, <2>2 DEF Serve, Served, Pending
    <2> QED BY <2>2, <2>3, <2>4 DEF LoadRight, Pending
  <1>3. CASE Apply("load_chart_data")
    <2>1. About(Outputs("load_chart_data")) /\ Writes(calls["load_chart_data"].answer)
      BY <1>0, <1>3, ApplyKeepsOrder DEF TradeCallbacks
    <2>2. ChartRight' /\ InfoRight' /\ RowsRight'
      BY <1>0, <1>1, <2>1, TradeStays DEF TradeRight
    <2>3. PICK answer, w : answer = calls["load_chart_data"].answer /\ w = calls["load_chart_data"].with
      OBVIOUS
    <2>4. answer \in LoadChart(w)
      BY <1>1, <1>3, <2>1, <2>3 DEF TradeRight, LoadRight, Apply
    <2>5. w.url = props.url
      BY <1>0, <1>3, <2>3 DEF Ordered, Placed, Fresh, Apply, Pending, TradeCallbacks
    <2>6. props'.url = props.url BY <1>0, <2>1 DEF About, Ordered, PageKnown, OnPage, Base
    <2>7. LoadChart(props') = LoadChart(w) BY <2>5, <2>6 DEF LoadChart
    <2>8. ASSUME props'.url.page = "/chart"
          PROVE  [chart_candle_store |-> props'.chart_candle_store,
                  chart_trades_store |-> props'.chart_trades_store,
                  chart_selected_idx |-> props'.chart_selected_idx] \in LoadChart(props')
      <3>1. \E a, b, i : answer = [chart_candle_store |-> a, chart_trades_store |-> b,
                                   chart_selected_idx |-> i]
        BY <2>4, <2>5, <2>6, <2>8 DEF LoadChart
      <3>2. answer = [chart_candle_store |-> props'.chart_candle_store,
                      chart_trades_store |-> props'.chart_trades_store,
                      chart_selected_idx |-> props'.chart_selected_idx]
        BY <2>1, <2>3, <3>1 DEF Writes
      <3> QED BY <2>4, <2>7, <3>2
    <2>9. "load_chart_data" \in DOMAIN calls' => calls'["load_chart_data"].answer = None
      <3>1. CallsBecome(Others("load_chart_data"), answer, calls["load_chart_data"].chain \union {"load_chart_data"})
        BY <1>0, <1>3, <2>3, ApplyKeepsOrder DEF TradeCallbacks
      <3>2. "load_chart_data" \notin DOMAIN Others("load_chart_data") BY OthersAre DEF Ordered
      <3> QED BY <3>1, <3>2, NewCallShape DEF CallsBecome, Keeps
    <2> QED BY <2>2, <2>8, <2>9 DEF LoadRight, Pending
  <1>4. CASE Reply("build_chart", BuildChart)
    <2> DEFINE new == BuildChart(calls["build_chart"].with)
    <2>1. About(Outputs("build_chart")) /\ Writes(new)
      <3>1. DOMAIN new \subseteq Outputs("build_chart") BY <1>0 DEF BuildChart
      <3> QED BY <1>0, <1>4, <3>1, ReplyKeepsOrder DEF Reply, TradeCallbacks
    <2>2. LoadRight' /\ InfoRight' /\ RowsRight' BY <1>0, <1>1, <2>1, TradeStays DEF TradeRight
    <2>3. \A x \in Graph["build_chart"].ins : calls["build_chart"].with[x] = props'[x]
      BY <1>0, <1>1, <1>4, <2>1, ServedFresh, TradeNames DEF Reply, About, OnPage, TradeCallbacks
    <2>4. props'.chart_candlestick = new.chart_candlestick BY <2>1 DEF Writes, BuildChart
    <2>5. ChartRight' BY <1>0, <2>3, <2>4 DEF ChartRight, BuildChart
    <2> QED BY <2>2, <2>5
  <1>5. CASE Reply("update_trade_info", TradeInfo)
    <2> DEFINE new == TradeInfo(calls["update_trade_info"].with)
    <2>1. About(Outputs("update_trade_info")) /\ Writes(new)
      <3>1. DOMAIN new \subseteq Outputs("update_trade_info") BY <1>0 DEF TradeInfo
      <3> QED BY <1>0, <1>5, <3>1, ReplyKeepsOrder DEF Reply, TradeCallbacks
    <2>2. LoadRight' /\ ChartRight' /\ RowsRight' BY <1>0, <1>1, <2>1, TradeStays DEF TradeRight
    <2>3. \A x \in Graph["update_trade_info"].ins : calls["update_trade_info"].with[x] = props'[x]
      BY <1>0, <1>1, <1>5, <2>1, ServedFresh, TradeNames DEF Reply, About, OnPage, TradeCallbacks
    <2>4. props'.chart_trade_info = new.chart_trade_info BY <2>1 DEF Writes, TradeInfo
    <2>5. InfoRight' BY <1>0, <2>3, <2>4 DEF InfoRight, TradeInfo
    <2> QED BY <2>2, <2>5
  <1>6. CASE Reply("update_all_trades", AllTrades)
    <2> DEFINE new == AllTrades(calls["update_all_trades"].with)
    <2>1. About(Outputs("update_all_trades")) /\ Writes(new)
      <3>1. DOMAIN new \subseteq Outputs("update_all_trades") BY <1>0 DEF AllTrades
      <3> QED BY <1>0, <1>6, <3>1, ReplyKeepsOrder DEF Reply, TradeCallbacks
    <2>2. LoadRight' /\ ChartRight' /\ InfoRight' BY <1>0, <1>1, <2>1, TradeStays DEF TradeRight
    <2>3. \A x \in Graph["update_all_trades"].ins : calls["update_all_trades"].with[x] = props'[x]
      BY <1>0, <1>1, <1>6, <2>1, ServedFresh, TradeNames DEF Reply, About, OnPage, TradeCallbacks
    <2>4. props'.chart_all_trades = new.chart_all_trades BY <2>1 DEF Writes, AllTrades
    <2>5. RowsRight' BY <1>0, <2>3, <2>4 DEF RowsRight, AllTrades
    <2> QED BY <2>2, <2>5
  <1> QED BY <1>2, <1>3, <1>4, <1>5, <1>6 DEF TradeViewer
------------------------------------------------------------------------------
FoldersType == folders \in [{"active", "inactive"} -> Seq(Files)]

\* The strategies found in the folders are a sequence.
LEMMA FoundIsList ==
  ASSUME FoldersType, NEW data \in {Found, <<>>}
  PROVE  \E n \in Nat : DOMAIN data = 1..n
  <1>1. CASE data = <<>>
    <2>1. DOMAIN <<>> = 1..0 OBVIOUS
    <2> QED BY <1>1, <2>1
  <1>2. CASE data = Found
    <2> DEFINE listed(folder) == [i \in DOMAIN folders[folder] |-> folders[folder][i] ++ [folder |-> folder]]
    <2>1. ASSUME NEW f \in {"active", "inactive"}
          PROVE  \E s, m : m \in Nat /\ s = listed(f) /\ s = [i \in 1..m |-> s[i]]
      <3>1. folders[f] \in Seq(Files) BY DEF FoldersType
      <3>2. PICK m \in Nat : DOMAIN folders[f] = 1..m BY <3>1
      <3> QED BY <3>2
    <2>2. PICK a, m : m \in Nat /\ a = listed("active") /\ a = [i \in 1..m |-> a[i]] BY <2>1
    <2>3. PICK b, n : n \in Nat /\ b = listed("inactive") /\ b = [i \in 1..n |-> b[i]] BY <2>1
    <2>4. Found = a \o b BY <2>2, <2>3 DEF Found
    <2> HIDE DEF listed
    <2> DEFINE S == {a[i] : i \in 1..m} \union {b[i] : i \in 1..n}
    <2>5. a \in Seq(S) /\ b \in Seq(S)
      <3>1. a \in [1..m -> S] BY <2>2
      <3>2. b \in [1..n -> S] BY <2>3
      <3> HIDE DEF S
      <3> QED BY <2>2, <2>3, <3>1, <3>2
    <2> HIDE DEF S
    <2>6. a \o b \in Seq(S) BY <2>5
    <2> QED BY <1>2, <2>4, <2>6
  <1> QED BY <1>1, <1>2

\* A set of numbers has a least.
LEMMA Least ==
  ASSUME NEW S, S \subseteq Nat, S # {}
  PROVE  \E i \in S : \A j \in S : i <= j
  <1> DEFINE R == OpToRel(<, Nat)
  <1>1. IsWellFoundedOn(R, Nat)
    BY NatLessThanWellFounded
  <1>2. PICK i \in S : \A j \in S : <<j, i>> \notin R
    <2> HIDE DEF R
    <2> QED BY <1>1, WFMin
  <1>3. ASSUME NEW j \in S, ~(i <= j) PROVE FALSE
    <2>1. j < i /\ <<j, i>> \in Nat \X Nat BY <1>3
    <2>2. <<j, i>> \in R BY <2>1 DEF OpToRel
    <2> QED BY <2>2, <1>2
  <1> QED BY <1>3

\* What is said of a strategy: that it is not found, or what was found of that name.
SaidOf(d, name) == d.of = name /\ (d.found # None => d.found.name = name)

\* What is found for a name is of that name.
LEMMA PopulateSays ==
  ASSUME FoldersType, NEW w, NEW answer \in PopulateDetail(w)
  PROVE  \E d : answer = [strat_detail |-> d] /\ SaidOf(d, w.strat_detail_name)
  <1> DEFINE name == w.strat_detail_name
             named(data) == {i \in DOMAIN data : data[i].name = name}
             first(data) == CHOOSE i \in DOMAIN data : /\ data[i].name = name
                                                       /\ \A j \in 1..i - 1 : data[j].name # name
  <1>1. PICK data \in {Found, <<>>} :
          answer = [strat_detail |-> [of |-> name,
                                      found |-> IF \E i \in DOMAIN data : data[i].name = name
                                                THEN data[first(data)] ELSE None]]
    BY DEF PopulateDetail
  <1>2. ASSUME \E i \in DOMAIN data : data[i].name = name PROVE data[first(data)].name = name
    <2>1. PICK n \in Nat : DOMAIN data = 1..n BY FoundIsList
    <2>2. named(data) \in SUBSET Nat /\ named(data) # {} BY <1>2, <2>1
    <2>3. PICK i \in named(data) : \A j \in named(data) : i <= j
      <3> HIDE DEF named
      <3> QED BY <2>2, Least
    <2>4. \A j \in 1..i - 1 : data[j].name # name
      <3> SUFFICES ASSUME NEW j \in 1..i - 1, data[j].name = name PROVE FALSE OBVIOUS
      <3>1. i \in 1..n BY <2>1
      <3>2. j \in 1..n /\ j < i BY <3>1
      <3>3. j \in named(data) BY <2>1, <3>2
      <3> QED BY <2>2, <2>3, <3>2, <3>3
    <2> HIDE DEF name
    <2> QED BY <2>4
  <1>3. PICK found, n : /\ n = name /\ (found # None => found.name = n)
                        /\ answer = [strat_detail |-> [of |-> n, found |-> found]]
    <2>1. CASE \E i \in DOMAIN data : data[i].name = name
      <3> HIDE DEF first
      <3> QED BY <1>1, <1>2, <2>1
    <2>2. CASE ~\E i \in DOMAIN data : data[i].name = name
      <3>1. answer = [strat_detail |-> [of |-> name, found |-> None]]
        <4> HIDE DEF name, first
        <4> QED BY <1>1, <2>2
      <3> QED BY <3>1
    <2> QED BY <2>1, <2>2
  <1>4. SaidOf([of |-> n, found |-> found], n) BY <1>3 DEF SaidOf
  <1>5. n = w.strat_detail_name BY <1>3
  <1> HIDE DEF name, first, named
  <1> QED BY <1>3, <1>4, <1>5
------------------------------------------------------------------------------
\* The cards are, or will be, those the filters leave.
CardsRight == ~Pending("render_cards") =>
  props.strat_cards_grid = RenderCards(props).strat_cards_grid

ColorRight == props.strat_filter_color \in {None, props.strat_folder_filter}

BrowserRight == OnPage(DOMAIN BrowserLayout) => CardsRight /\ ColorRight

\* The detail is, or will be, what is said of the strategy the page is about.
SaysRight ==
  LET populate == calls["populate_detail"]
  IN /\ Pending("populate_detail") /\ populate.answer # None =>
          \E d : /\ populate.answer = [strat_detail |-> d]
                 /\ SaidOf(d, populate.with.strat_detail_name)
     /\ ~Pending("populate_detail") => SaidOf(props.strat_detail, props.strat_detail_name)

DetailRight == OnPage(DOMAIN DetailLayout(None)) => SaysRight

\* The callbacks of the pages of the strategies.
LEMMA StrategyGraph ==
  /\ DOMAIN StrategyCallbacks = {"load_strategies", "set_folder_filter", "render_cards", "populate_detail"}
  /\ DOMAIN StrategyCallbacks \subseteq Straight /\ "render_page" \notin DOMAIN StrategyCallbacks
  /\ \A c \in DOMAIN StrategyCallbacks \ {"set_folder_filter"} : Graph[c].first
  /\ Outputs("load_strategies") = {"strat_all_data", "strat_group_options", "strat_tag_options"}
  /\ Outputs("set_folder_filter") = {"strat_folder_filter", "strat_filter_color"}
  /\ Outputs("render_cards") = {"strat_cards_grid"}
  /\ Outputs("populate_detail") = {"strat_detail"}
  /\ Graph["render_cards"].ins =
       {"strat_all_data", "strat_folder_filter", "strat_group_filter", "strat_tag_filter"}
  /\ Graph["populate_detail"].ins = {"strat_detail_name"}
  BY GraphIs DEF Straight, StrategyCallbacks, ProfileCallbacks, Outputs, Callback

\* Those of the list are on its page.
LEMMA BrowserOn ==
  /\ OnPage(DOMAIN BrowserLayout) => IsOn("render_cards", props)
  /\ OnPage(DOMAIN DetailLayout(None)) => IsOn("populate_detail", props)
  BY BrowserBelong, DetailBelongs, PartsAre DEF BelongTo, OnPage, IsOn, Base

\* What is right of the strategies stays so in a step that is about something else.
LEMMA StrategiesStay ==
  ASSUME Ordered, NEW names, About(names)
  PROVE  /\ /\ OnPage(DOMAIN BrowserLayout) /\ CardsRight
            /\ Outputs("render_cards") \intersect names = {}
            => CardsRight'
         /\ /\ OnPage(DOMAIN BrowserLayout) /\ ColorRight
            /\ Outputs("set_folder_filter") \intersect names = {}
            => ColorRight'
         /\ /\ OnPage(DOMAIN DetailLayout(None)) /\ SaysRight
            /\ Outputs("populate_detail") \intersect names = {}
            => SaysRight'
  <1> USE DEF Pending
  <1>1. ASSUME OnPage(DOMAIN BrowserLayout), CardsRight, Outputs("render_cards") \intersect names = {}
        PROVE  CardsRight'
    <2>1. /\ \A x \in Outputs("render_cards") : props'[x] = props[x]
          /\ "render_cards" \notin DOMAIN calls' =>
               "render_cards" \notin DOMAIN calls /\ \A x \in Graph["render_cards"].ins : props'[x] = props[x]
      BY <1>1, StrategyGraph, BrowserOn, AboutOthers
    <2> QED BY <1>1, <2>1, StrategyGraph DEF CardsRight, RenderCards
  <1>2. ASSUME OnPage(DOMAIN BrowserLayout), ColorRight, Outputs("set_folder_filter") \intersect names = {}
        PROVE  ColorRight'
    <2>1. {"strat_folder_filter", "strat_filter_color"} \subseteq DOMAIN props \ names
      BY <1>2, StrategyGraph, BrowserNames DEF OnPage
    <2> QED BY <1>2, <2>1 DEF ColorRight, About
  <1>3. ASSUME OnPage(DOMAIN DetailLayout(None)), SaysRight,
               Outputs("populate_detail") \intersect names = {}
        PROVE  SaysRight'
    <2>1. /\ Goes("populate_detail") /\ \A x \in Outputs("populate_detail") : props'[x] = props[x]
          /\ "populate_detail" \notin DOMAIN calls' =>
               /\ "populate_detail" \notin DOMAIN calls
               /\ \A x \in Graph["populate_detail"].ins : props'[x] = props[x]
      BY <1>3, StrategyGraph, BrowserOn, AboutOthers
    <2> QED BY <1>3, <2>1, StrategyGraph DEF SaysRight, Goes
  <1> QED BY <1>1, <1>2, <1>3

\* What the user does on the page of the strategies.
LEMMA BrowserInputIsAbout ==
  ASSUME Ordered, Filter \/ RefreshFiles
  PROVE  About({"strat_filter_btn", "strat_group_filter", "strat_tag_filter", "strat_refresh_btn"})
  <1> DEFINE names == {"strat_filter_btn", "strat_group_filter", "strat_tag_filter", "strat_refresh_btn"}
  <1>1. names \subseteq DOMAIN props /\ "strat_detail_name" \notin names
    BY BrowserNames DEF Filter, RefreshFiles, Shows
  <1>2. PICK new : DOMAIN new \subseteq names /\ Input(new)
    BY DEF Filter, RefreshFiles, UserInput
  <1> HIDE DEF names
  <1>3. About(names) BY <1>1, <1>2, InputKeepsOrder
  <1> QED BY <1>3 DEF names

\* What the user does there, and the answers, leave it right.
LEMMA StrategyBrowserIsRight ==
  ASSUME Ordered, FoldersType, BrowserRight, DetailRight, StrategyBrowser
  PROVE  BrowserRight' /\ DetailRight'
  <1>1. ASSUME NEW names, About(names)
        PROVE  /\ OnPage(DOMAIN BrowserLayout)' => OnPage(DOMAIN BrowserLayout)
               /\ OnPage(DOMAIN DetailLayout(None))' => OnPage(DOMAIN DetailLayout(None))
    BY <1>1 DEF OnPage, About, DetailLayout, BrowserLayout
  <1>2. CASE Filter \/ RefreshFiles
    BY <1>1, <1>2, BrowserInputIsAbout, StrategiesStay, StrategyGraph DEF BrowserRight, DetailRight
  <1>3. CASE Serve("load_strategies", LoadStrategies)
    <2>1. \A answer \in LoadStrategies(calls["load_strategies"].with) :
           DOMAIN answer \subseteq Outputs("load_strategies")
      BY StrategyGraph DEF LoadStrategies
    <2>2. About(Outputs("load_strategies")) BY <1>3, <2>1, ServesKeepOrder DEF Serve
    <2> QED BY <1>1, <2>2, StrategiesStay, StrategyGraph DEF BrowserRight, DetailRight
  <1>4. CASE Apply("load_strategies")
    <2>1. About(Outputs("load_strategies")) BY <1>4, StrategyGraph, ApplyKeepsOrder
    <2> QED BY <1>1, <2>1, StrategiesStay, StrategyGraph DEF BrowserRight, DetailRight
  <1>5. CASE Reply("set_folder_filter", SetFolderFilter)
    <2> DEFINE new == SetFolderFilter(calls["set_folder_filter"].with)
    <2>1. About(Outputs("set_folder_filter")) /\ Writes(new)
      <3>1. DOMAIN new \subseteq Outputs("set_folder_filter") BY StrategyGraph DEF SetFolderFilter
      <3> QED BY <1>5, <3>1, StrategyGraph, ReplyKeepsOrder DEF Reply
    <2>2. props'.strat_folder_filter = props'.strat_filter_color BY <2>1 DEF Writes, SetFolderFilter
    <2>3. ColorRight' BY <2>2 DEF ColorRight
    <2> QED BY <1>1, <2>1, <2>3, StrategiesStay, StrategyGraph DEF BrowserRight, DetailRight
  <1>6. CASE Reply("render_cards", RenderCards)
    <2> DEFINE new == RenderCards(calls["render_cards"].with)
    <2>1. About(Outputs("render_cards")) /\ Writes(new)
      <3>1. DOMAIN new \subseteq Outputs("render_cards") BY StrategyGraph DEF RenderCards
      <3> QED BY <1>6, <3>1, StrategyGraph, ReplyKeepsOrder DEF Reply
    <2>2. ASSUME OnPage(DOMAIN BrowserLayout) PROVE CardsRight'
      <3>1. \A x \in Graph["render_cards"].ins : calls["render_cards"].with[x] = props'[x]
        BY <1>6, <2>1, <2>2, ServedFresh, StrategyGraph, BrowserNames DEF Reply, About, OnPage
      <3>2. props'.strat_cards_grid = new.strat_cards_grid BY <2>1 DEF Writes, RenderCards
      <3> QED BY <3>1, <3>2, StrategyGraph DEF CardsRight, RenderCards
    <2> QED BY <1>1, <2>1, <2>2, StrategiesStay, StrategyGraph DEF BrowserRight, DetailRight
  <1>7. CASE Serve("populate_detail", PopulateDetail)
    <2>1. PICK w : w = calls["populate_detail"].with OBVIOUS
    <2>2. \A answer \in PopulateDetail(w) : DOMAIN answer \subseteq Outputs("populate_detail")
      BY StrategyGraph DEF PopulateDetail
    <2>3. /\ About(Outputs("populate_detail")) /\ DOMAIN calls' = DOMAIN calls
          /\ calls'["populate_detail"].with = w
          /\ calls'["populate_detail"].answer \in PopulateDetail(w)
      BY <1>7, <2>1, <2>2, ServesKeepOrder DEF Serve
    <2>4. SaysRight'
      <3>1. "populate_detail" \in DOMAIN calls' BY <1>7, <2>3 DEF Serve, Served, Pending
      <3> QED BY <2>3, <3>1, PopulateSays DEF SaysRight, Pending
    <2> QED BY <1>1, <2>3, <2>4, StrategiesStay, StrategyGraph DEF BrowserRight, DetailRight
  <1>8. CASE Apply("populate_detail")
    <2>1. PICK answer, w, chain : /\ answer = calls["populate_detail"].answer
                                  /\ w = calls["populate_detail"].with
                                  /\ chain = calls["populate_detail"].chain
      OBVIOUS
    <2>2. /\ About(Outputs("populate_detail")) /\ Writes(answer)
          /\ CallsBecome(Others("populate_detail"), answer, chain \union {"populate_detail"})
      BY <1>8, <2>1, StrategyGraph, ApplyKeepsOrder
    <2>3. ASSUME OnPage(DOMAIN DetailLayout(None)) PROVE SaysRight'
      <3>1. PICK d : answer = [strat_detail |-> d] /\ SaidOf(d, w.strat_detail_name)
        BY <1>8, <2>1, <2>3 DEF DetailRight, SaysRight, Apply
      <3>2. w.strat_detail_name = props.strat_detail_name
        BY <1>8, <2>1, StrategyGraph DEF Ordered, Placed, Fresh, Apply, Pending
      <3>3. props'.strat_detail_name = props.strat_detail_name
        BY <2>2, <2>3, StrategyGraph, DetailNames DEF About, OnPage
      <3>4. props'.strat_detail = d BY <2>2, <3>1 DEF Writes
      <3>5. "populate_detail" \in DOMAIN calls' => calls'["populate_detail"].answer = None
        <4>1. "populate_detail" \notin DOMAIN Others("populate_detail") BY OthersAre DEF Ordered
        <4> QED BY <2>2, <4>1, NewCallShape DEF CallsBecome, Keeps
      <3> QED BY <3>1, <3>2, <3>3, <3>4, <3>5 DEF SaysRight, Pending
    <2> QED BY <1>1, <2>2, <2>3, StrategiesStay, StrategyGraph DEF BrowserRight, DetailRight
  <1> QED BY <1>2, <1>3, <1>4, <1>5, <1>6, <1>7, <1>8 DEF StrategyBrowser, Listing
------------------------------------------------------------------------------
\* A step is about one page, or shows another.
LEMMA NextIsAbout ==
  ASSUME Ordered, [Next]_vars
  PROVE  \/ RenderPage
         \/ /\ \E url \in Addresses : props'.url = url
            /\ About({"url"})
         \/ /\ TradeViewer /\ About(DOMAIN TradeLayout)
         \/ /\ StrategyBrowser /\ About(DOMAIN BrowserLayout \union DOMAIN DetailLayout(None))
         \/ \E names \in {DOMAIN ChartsLayout, {"hover_profile_store"} \union DOMAIN ProfilesLayout,
                          DOMAIN BotsLayout, DOMAIN BacktestLayout} : About(names)
  <1>1. CASE \E url \in Addresses : GoTo(url)
    <2>1. PICK url \in Addresses : GoTo(url) BY <1>1
    <2>2. "url" \in DOMAIN props BY DEF Ordered, PageKnown, OnPage, Base
    <2>3. Input([url |-> url]) BY <2>1 DEF GoTo, UserInput
    <2>4. DOMAIN [url |-> url] = {"url"} OBVIOUS
    <2>5. About({"url"}) /\ Writes([url |-> url]) BY <2>2, <2>3, <2>4, InputKeepsOrder
    <2>6. props'.url = url BY <2>5 DEF Writes
    <2> QED BY <2>5, <2>6
  <1>2. CASE StrategiesOutside \/ BotsOutside \/ UNCHANGED vars
    <2>1. UNCHANGED <<props, calls>>
      BY <1>2 DEF StrategiesOutside, PutFile, TakeFile, Changes, BotsOutside, MoveBot, Trade, browser, vars
    <2> QED BY <2>1, UnchangedKeepsOrder
  <1>3. CASE Charts BY <1>3, ChartsKeepOrder
  <1>4. CASE Profiles BY <1>4, ProfilesKeepOrder
  <1>5. CASE Overview BY <1>5, BotsKeepOrder
  <1>6. CASE BacktestForm BY <1>6, BacktestKeepsOrder
  <1>7. CASE TradeViewer BY <1>7, TradeKeepsOrder
  <1>8. CASE StrategyBrowser BY <1>8, StrategiesKeepOrder
  <1> QED BY <1>1, <1>2, <1>3, <1>4, <1>5, <1>6, <1>7, <1>8 DEF Next

\* The folders keep their type.
LEMMA NextKeepsFolders ==
  ASSUME FoldersType, [Next]_vars
  PROVE  FoldersType'
  <1>1. CASE UNCHANGED folders BY <1>1 DEF FoldersType
  <1>2. CASE StrategyReset BY <1>2 DEF StrategyReset, FoldersType
  <1>3. CASE StrategiesOutside
    <2>1. PICK folder \in {"active", "inactive"} :
            \/ \E found \in Files : PutFile(folder, found)
            \/ \E i \in DOMAIN folders[folder] : TakeFile(folder, i)
      BY <1>3 DEF StrategiesOutside, FoldersType
    <2>2. folders[folder] \in Seq(Files) BY DEF FoldersType
    <2>3. CASE \E found \in Files : PutFile(folder, found)
      <3>1. PICK found \in Files : folders' = [folders EXCEPT ![folder] = Append(@, found)]
        BY <2>3 DEF PutFile
      <3>2. Append(folders[folder], found) \in Seq(Files) BY <2>2
      <3> QED BY <3>1, <3>2 DEF FoldersType
    <2>4. CASE \E i \in DOMAIN folders[folder] : TakeFile(folder, i)
      <3>1. PICK i \in DOMAIN folders[folder] :
              folders' = [folders EXCEPT ![folder] = SubSeq(@, 1, i - 1) \o SubSeq(@, i + 1, Len(@))]
        BY <2>4 DEF TakeFile
      <3>2. SubSeq(folders[folder], 1, i - 1) \o SubSeq(folders[folder], i + 1, Len(folders[folder])) \in Seq(Files)
        <4>1. i \in 1..Len(folders[folder]) BY <2>2
        <4>2. SubSeq(folders[folder], 1, i - 1) \in Seq(Files) BY <2>2, <4>1
        <4>3. SubSeq(folders[folder], i + 1, Len(folders[folder])) \in Seq(Files) BY <2>2, <4>1
        <4> QED BY <4>2, <4>3
      <3> QED BY <3>1, <3>2 DEF FoldersType
    <2> QED BY <2>1, <2>3, <2>4
  <1>4. CASE StrategyBrowser
    <2>1. UNCHANGED folders
      BY <1>4 DEF StrategyBrowser, Filter, RefreshFiles, Listing, strategyVars
    <2> QED BY <1>1, <2>1
  <1> QED BY <1>1, <1>2, <1>3, <1>4 DEF Next, RenderPage, GoTo, vars, strategyVars

\* The pages are, or will be, of what was chosen.
PagesRight ==
  /\ Ordered /\ FoldersType
  /\ props.url \in Typed
  /\ TradeRight /\ BrowserRight /\ DetailRight

\* A page that is shown calls all that draws it.
LEMMA MountIsRight ==
  ASSUME Ordered, NEW layout, layout = Layout(props.url), Mount("render_page", layout, Base)
  PROVE  TradeRight' /\ BrowserRight' /\ DetailRight'
  <1>1. Mounts(layout) BY MountKeepsOrder
  <1>2. DOMAIN layout \in PageNames \ {{}} BY LayoutNames
  <1>3. ASSUME NEW names \in PageNames, DOMAIN props' = Base \union names
        PROVE  names = DOMAIN layout
    <2>1. PICK there : there = DOMAIN layout OBVIOUS
    <2>2. Base \union names = Base \union there BY <1>1, <1>3, <2>1 DEF Mounts
    <2> QED BY <1>2, <2>1, <2>2, PagesAreApart
  <1>4. \A c \in DOMAIN Graph : Graph[c].first /\ Outputs(c) \intersect DOMAIN layout # {}
                                  /\ Parts[c] \subseteq Base \union DOMAIN layout =>
          c \in DOMAIN calls' /\ calls'[c].answer = None
    BY <1>1, FirstCalls
  <1>5. TradeRight'
    <2> SUFFICES ASSUME DOMAIN props' = Base \union DOMAIN TradeLayout
                 PROVE  LoadRight' /\ ChartRight' /\ InfoRight' /\ RowsRight'
      BY DEF TradeRight, OnPage
    <2>1. DOMAIN layout = DOMAIN TradeLayout BY <1>3 DEF PageNames
    <2>2. ASSUME NEW c \in DOMAIN TradeCallbacks PROVE c \in DOMAIN calls' /\ calls'[c].answer = None
      <3>1. c \in DOMAIN Graph /\ Graph[c].first /\ Outputs(c) # {} BY TradeGraph DEF Straight
      <3>2. Outputs(c) \subseteq DOMAIN layout BY <2>1, TradeBelong DEF BelongTo
      <3>3. Parts[c] \subseteq Base \union DOMAIN layout
        BY <2>1, <3>1, TradeBelong, PartsAre DEF BelongTo, Base
      <3> QED BY <1>4, <3>1, <3>2, <3>3
    <2>3. \A c \in {"load_chart_data", "build_chart", "update_trade_info", "update_all_trades"} :
            c \in DOMAIN calls' /\ calls'[c].answer = None
      BY <2>2 DEF TradeCallbacks
    <2> QED BY <2>3 DEF LoadRight, ChartRight, InfoRight, RowsRight, Pending
  <1>6. BrowserRight'
    <2> SUFFICES ASSUME DOMAIN props' = Base \union DOMAIN BrowserLayout
                 PROVE  CardsRight' /\ ColorRight'
      BY DEF BrowserRight, OnPage
    <2>1. DOMAIN layout = DOMAIN BrowserLayout BY <1>3 DEF PageNames
    <2>2. "render_cards" \in DOMAIN calls'
      <3>1. "render_cards" \in DOMAIN Graph BY StrategyGraph DEF Straight
      <3>2. Parts["render_cards"] \subseteq Base \union DOMAIN layout
        BY <2>1, <3>1, BrowserBelong, PartsAre DEF BelongTo, Base
      <3> QED BY <1>4, <2>1, <3>1, <3>2, StrategyGraph, BrowserNames
    <2>3. layout = BrowserLayout
      BY <2>1, ChartsNames, ProfilesNames, BotsNames, BacktestNames, TradeNames, BrowserNames,
         DetailNames DEF Layout
    <2>4. props'.strat_filter_color = None BY <1>1, <2>3 DEF Mounts, BrowserLayout
    <2> QED BY <2>2, <2>4 DEF CardsRight, ColorRight, Pending
  <1>7. DetailRight'
    <2> SUFFICES ASSUME DOMAIN props' = Base \union DOMAIN DetailLayout(None)
                 PROVE  SaysRight'
      BY DEF DetailRight, OnPage, DetailLayout
    <2>1. DOMAIN layout = DOMAIN DetailLayout(None) BY <1>3 DEF PageNames
    <2>2. "populate_detail" \in DOMAIN calls' /\ calls'["populate_detail"].answer = None
      <3>1. "populate_detail" \in DOMAIN Graph BY StrategyGraph DEF Straight
      <3>2. Parts["populate_detail"] \subseteq Base \union DOMAIN layout
        BY <2>1, <3>1, DetailBelongs, PartsAre DEF BelongTo, Base
      <3> QED BY <1>4, <2>1, <3>1, <3>2, StrategyGraph, DetailNames
    <2> QED BY <2>2 DEF SaysRight, Pending
  <1> QED BY <1>5, <1>6, <1>7

\* Every step leaves the pages right.
LEMMA NextKeepsRight ==
  ASSUME PagesRight, [Next]_vars
  PROVE  PagesRight'
  <1> USE DEF PagesRight
  <1>0. Ordered' /\ FoldersType' BY NextKeepsOrder, NextKeepsFolders
  <1>1. "url" \in DOMAIN props BY DEF Ordered, PageKnown, OnPage, Base
  <1>2. ASSUME NEW names, About(names)
        PROVE  /\ OnPage(DOMAIN TradeLayout)' => OnPage(DOMAIN TradeLayout)
               /\ OnPage(DOMAIN BrowserLayout)' => OnPage(DOMAIN BrowserLayout)
               /\ OnPage(DOMAIN DetailLayout(None))' => OnPage(DOMAIN DetailLayout(None))
               /\ "url" \notin names => props'.url = props.url
    BY <1>1, <1>2 DEF OnPage, About, DetailLayout, BrowserLayout, TradeLayout
  <1>3. ASSUME NEW names, About(names), names \intersect DOMAIN TradeLayout = {}
        PROVE  TradeRight'
    <2>1. \A c \in DOMAIN TradeCallbacks : Outputs(c) \intersect names = {}
      BY <1>3, TradeBelong DEF BelongTo
    <2>2. \A c \in {"load_chart_data", "build_chart", "update_trade_info", "update_all_trades"} :
            Outputs(c) \intersect names = {}
      BY <2>1 DEF TradeCallbacks
    <2> QED BY <1>2, <1>3, <2>2, TradeStays DEF TradeRight
  <1>4. ASSUME NEW names, About(names),
               names \intersect (DOMAIN BrowserLayout \union DOMAIN DetailLayout(None)) = {}
        PROVE  BrowserRight' /\ DetailRight'
    <2>1. \A c \in {"set_folder_filter", "render_cards", "populate_detail"} :
            Outputs(c) \intersect names = {}
      BY <1>4, BrowserBelong, DetailBelongs DEF BelongTo
    <2> QED BY <1>2, <1>4, <2>1, StrategiesStay DEF BrowserRight, DetailRight
  <1> USE ChartsNames, ProfilesNames, BotsNames, BacktestNames, TradeNames, BrowserNames, DetailNames
  <1>5. CASE RenderPage
    <2>1. Mount("render_page", Layout(props.url), Base) BY <1>5 DEF RenderPage, Base
    <2>2. PICK layout : layout = Layout(props.url) OBVIOUS
    <2>3. Mounts(layout) /\ TradeRight' /\ BrowserRight' /\ DetailRight'
      BY <2>1, <2>2, MountKeepsOrder, MountIsRight
    <2>4. props'.url = props.url BY <2>3 DEF Mounts, Base
    <2>5. Typed' = Typed BY DEF Typed, Addresses
    <2> QED BY <1>0, <2>3, <2>4, <2>5
  <1>6. CASE About({"url"}) /\ \E url \in Addresses : props'.url = url
    <2>1. TradeRight' BY <1>3, <1>6
    <2>2. BrowserRight' /\ DetailRight' BY <1>4, <1>6
    <2>3. props'.url \in Typed BY <1>6 DEF Typed
    <2> QED BY <1>0, <2>1, <2>2, <2>3 DEF Typed, Addresses
  <1>7. CASE TradeViewer /\ About(DOMAIN TradeLayout)
    <2>1. TradeRight' BY <1>7, TradeViewerIsRight
    <2>2. BrowserRight' /\ DetailRight' BY <1>4, <1>7
    <2>3. props'.url = props.url BY <1>2, <1>7
    <2> QED BY <1>0, <2>1, <2>2, <2>3 DEF Typed, Addresses
  <1>8. CASE StrategyBrowser /\ About(DOMAIN BrowserLayout \union DOMAIN DetailLayout(None))
    <2>1. TradeRight' BY <1>3, <1>8
    <2>2. BrowserRight' /\ DetailRight' BY <1>8, StrategyBrowserIsRight
    <2>3. props'.url = props.url BY <1>2, <1>8
    <2> QED BY <1>0, <2>1, <2>2, <2>3 DEF Typed, Addresses
  <1>9. ASSUME NEW names \in {DOMAIN ChartsLayout, {"hover_profile_store"} \union DOMAIN ProfilesLayout,
                              DOMAIN BotsLayout, DOMAIN BacktestLayout},
               About(names)
        PROVE  PagesRight'
    <2>1. names \intersect DOMAIN TradeLayout = {} /\ "url" \notin names
          /\ names \intersect (DOMAIN BrowserLayout \union DOMAIN DetailLayout(None)) = {}
      OBVIOUS
    <2>2. TradeRight' BY <1>3, <1>9, <2>1
    <2>3. BrowserRight' /\ DetailRight' BY <1>4, <1>9, <2>1
    <2>4. props'.url = props.url BY <1>2, <1>9, <2>1
    <2> QED BY <1>0, <2>2, <2>3, <2>4 DEF Typed, Addresses
  <1> QED BY <1>5, <1>6, <1>7, <1>8, <1>9, NextIsAbout

\* No page shows at first.
LEMMA InitRight == Init => PagesRight
  <1> SUFFICES ASSUME Init PROVE PagesRight OBVIOUS
  <1>1. Ordered BY InitOrdered
  <1>2. FoldersType BY DEF Init, StrategyInit, FoldersType
  <1>3. PICK url \in Typed : \E stored : props = [url |-> url, hover_profile_store |-> stored]
    BY DEF Init
  <1>4. DOMAIN props = Base /\ props.url \in Typed BY <1>3 DEF Base
  <1>5. TradeRight /\ BrowserRight /\ DetailRight
    BY <1>4, TradeNames, BrowserNames, DetailNames DEF TradeRight, BrowserRight, DetailRight, OnPage, Base
  <1> QED BY <1>1, <1>2, <1>4, <1>5 DEF PagesRight

\* What is drawn of the trade the address names.
LEMMA ViewerShowsIt ==
  ASSUME NEW of, of = None \/ of \in TradeAddresses,
         props.chart_candle_store \in {None, of},
         props.chart_selected_idx = (IF of = None THEN 0 ELSE of.idx),
         \/ props.chart_trades_store = <<>>
         \/ of # None /\ props.chart_trades_store = TradesDone(of.run),
         ChartRight, InfoRight, RowsRight, Quiet
  PROVE  ViewerIsOf(of)
  <1> PICK done, idx : done = props.chart_trades_store /\ idx = props.chart_selected_idx OBVIOUS
  <1> DEFINE named == IF of # None /\ of.idx < Len(done)
                      THEN [run |-> of.run, nr |-> of.idx + 1] ELSE None
  <1>0. TradesOfRun \in Nat BY BacktestPageAssumption
  <1>1. idx \in 0..TradesOfRun /\ idx # None
    <2>1. idx \in 0..TradesOfRun BY <1>0 DEF TradeAddresses
    <2> QED BY <2>1, TradePageAssumption
  <1>2. /\ props.chart_candlestick = [bars |-> props.chart_candle_store, marked |-> done,
                                      golden |-> At(done, idx)]
        /\ props.chart_trade_info = At(done, idx)
        /\ props.chart_all_trades = [i \in DOMAIN done |-> [trade |-> done[i], selected |-> idx = i - 1]]
    BY DEF ChartRight, InfoRight, RowsRight, BuildChart, TradeInfo, AllTrades, Quiet, Pending
  <1>3. /\ At(done, idx) = named
        /\ {done[i] : i \in {j \in DOMAIN done : idx = j - 1}} = {named} \ {None}
    <2>1. CASE done = <<>>
      <3>1. Len(done) = 0 /\ DOMAIN done = {} BY <2>1
      <3>2. named = None BY <1>0, <3>1 DEF TradeAddresses
      <3> QED BY <1>1, <3>1, <3>2 DEF At
    <2>2. CASE of # None /\ done = TradesDone(of.run)
      <3>1. of.run \in DoneRuns /\ of.idx = idx BY <2>2 DEF TradeAddresses
      <3>2. /\ DOMAIN done = 1..TradesOfRun /\ Len(done) = TradesOfRun
            /\ \A i \in 1..TradesOfRun : done[i] = [run |-> of.run, nr |-> i]
        BY <1>0, <2>2 DEF TradesDone
      <3>3. CASE idx < TradesOfRun
        <4>1. idx + 1 \in 1..TradesOfRun BY <1>0, <1>1, <3>3
        <4>2. named = [run |-> of.run, nr |-> idx + 1] /\ named = done[idx + 1]
          BY <2>2, <3>1, <3>2, <3>3, <4>1
        <4>3. named # None
          <5>1. [run |-> of.run, nr |-> idx + 1] \in [run : DoneRuns, nr : 1..TradesOfRun]
            BY <3>1, <4>1
          <5> QED BY <4>2, <5>1, TradePageAssumption
        <4>4. At(done, idx) = done[idx + 1] BY <1>1, <3>2, <3>3 DEF At
        <4>5. {j \in DOMAIN done : idx = j - 1} = {idx + 1} BY <1>0, <1>1, <3>2, <4>1
        <4> HIDE DEF named
        <4> QED BY <4>2, <4>3, <4>4, <4>5
      <3>4. CASE ~(idx < TradesOfRun)
        <4>1. named = None BY <3>1, <3>2, <3>4
        <4>2. At(done, idx) = None BY <3>2, <3>4 DEF At
        <4>3. {j \in DOMAIN done : idx = j - 1} = {} BY <1>0, <1>1, <3>2, <3>4
        <4> HIDE DEF named
        <4> QED BY <4>1, <4>2, <4>3
      <3> QED BY <3>3, <3>4
    <2> QED BY <2>1, <2>2
  <1>4. {row.trade : row \in {props.chart_all_trades[i] : i \in
           {j \in DOMAIN done : props.chart_all_trades[j].selected}}}
        = {done[i] : i \in {j \in DOMAIN done : idx = j - 1}}
    <2>1. {j \in DOMAIN done : props.chart_all_trades[j].selected} = {j \in DOMAIN done : idx = j - 1}
      <3>1. \A j \in DOMAIN done : props.chart_all_trades[j] = [trade |-> done[j], selected |-> idx = j - 1]
        BY <1>2
      <3>2. ASSUME NEW j \in DOMAIN done PROVE props.chart_all_trades[j].selected <=> idx = j - 1
        <4>1. CASE idx = j - 1
          <5>1. (idx = j - 1) = TRUE BY <4>1
          <5>2. props.chart_all_trades[j] = [trade |-> done[j], selected |-> TRUE] BY <3>1, <5>1, Zenon
          <5> QED BY <4>1, <5>2
        <4>2. CASE idx # j - 1
          <5>1. (idx = j - 1) = FALSE BY <4>2
          <5>2. props.chart_all_trades[j] = [trade |-> done[j], selected |-> FALSE] BY <3>1, <5>1, Zenon
          <5> QED BY <4>2, <5>2
        <4> QED BY <4>1, <4>2
      <3> QED BY <3>2
    <2>2. \A i \in DOMAIN done : props.chart_all_trades[i].trade = done[i] BY <1>2
    <2> QED BY <2>1, <2>2
  <1>5. /\ props.chart_candlestick.bars \in {None, of} /\ props.chart_candlestick.marked = done
        /\ props.chart_candlestick.golden = named /\ props.chart_trade_info = named
    <2> HIDE DEF named
    <2> QED BY <1>2, <1>3
  <1>6. {row.trade : row \in {props.chart_all_trades[i] : i \in
           {j \in DOMAIN done : props.chart_all_trades[j].selected}}} = {named} \ {None}
    <2> HIDE DEF named
    <2> QED BY <1>3, <1>4
  <1> QED BY <1>5, <1>6, Zenon DEF ViewerIsOf

\* With nothing under way, what is right shows.
LEMMA QuietIsRight == PagesRight => PageIsOfAddress
  <1> SUFFICES ASSUME PagesRight, Quiet
               PROVE  /\ DOMAIN props = Base \union DOMAIN Layout(props.url)
                      /\ Shows(TradeLayout) => ViewerIsOf(props.url.of)
                      /\ Shows(BrowserLayout) => CardsAreFiltered
                      /\ props.url.page = "/strategies/" => DetailIsOf(props.url.of)
    BY Zenon DEF PageIsOfAddress, Base
  <1> USE DEF PagesRight, PageNames
  <1>1. /\ OnPage(DOMAIN Layout(props.url))
        /\ props.url.page = "/strategies/" => props.strat_detail_name = props.url.of
    BY DEF Ordered, Addressed, Quiet, Pending
  <1>2. DOMAIN props = Base \union DOMAIN Layout(props.url) BY <1>1 DEF OnPage
  <1>3. ASSUME Shows(TradeLayout) PROVE ViewerIsOf(props.url.of)
    <2>1. OnPage(DOMAIN TradeLayout) BY <1>3, ShownPage, TradeNames DEF Shows, Ordered
    <2>2. DOMAIN TradeLayout \subseteq DOMAIN Layout(props.url)
      BY <1>2, <2>1, PagesAreApart DEF OnPage
    <2>3. props.url.page = "/chart"
      <3>1. "chart_candlestick" \in DOMAIN Layout(props.url) BY <2>2, TradeNames
      <3> QED
        BY <3>1, ChartsNames, ProfilesNames, BotsNames, BacktestNames, BrowserNames, DetailNames
        DEF Layout
    <2>4. PICK of : of = props.url.of OBVIOUS
    <2>5. of = None \/ of \in TradeAddresses
      BY <2>3, <2>4 DEF Typed, Addresses, Address
    <2>6. /\ props.chart_candle_store \in {None, of}
          /\ props.chart_selected_idx = (IF of = None THEN 0 ELSE of.idx)
          /\ \/ props.chart_trades_store = <<>>
             \/ of # None /\ props.chart_trades_store = TradesDone(of.run)
      <3>1. [chart_candle_store |-> props.chart_candle_store,
             chart_trades_store |-> props.chart_trades_store,
             chart_selected_idx |-> props.chart_selected_idx] \in LoadChart(props)
        BY <2>1, <2>3 DEF TradeRight, LoadRight, Quiet, Pending
      <3>2. PICK answer : answer = [chart_candle_store |-> props.chart_candle_store,
                                    chart_trades_store |-> props.chart_trades_store,
                                    chart_selected_idx |-> props.chart_selected_idx]
        OBVIOUS
      <3> DEFINE dones == {<<>>} \union (IF of = None THEN {} ELSE {TradesDone(of.run)})
                 idx == IF of = None THEN 0 ELSE of.idx
      <3>3. PICK bars \in {None, of}, done \in dones :
              answer = [chart_candle_store |-> bars, chart_trades_store |-> done,
                        chart_selected_idx |-> idx]
        <4>1. answer \in LoadChart(props) BY <3>1, <3>2
        <4>2. LoadChart(props) =
                {[chart_candle_store |-> bars, chart_trades_store |-> done,
                  chart_selected_idx |-> idx] : bars \in {None, of}, done \in dones}
          BY <2>3, <2>4 DEF LoadChart
        <4> HIDE DEF dones, idx
        <4> QED BY <4>1, <4>2
      <3>4. /\ props.chart_candle_store = bars /\ props.chart_trades_store = done
            /\ props.chart_selected_idx = idx
        <4> HIDE DEF dones, idx
        <4> QED BY <3>2, <3>3
      <3>5. done = <<>> \/ (of # None /\ done = TradesDone(of.run)) OBVIOUS
      <3> QED BY <3>4, <3>5
    <2>7. ChartRight /\ InfoRight /\ RowsRight BY <2>1 DEF TradeRight
    <2>8. ViewerIsOf(of) BY <2>5, <2>6, <2>7, ViewerShowsIt
    <2> QED BY <2>4, <2>8
  <1>4. ASSUME Shows(BrowserLayout) PROVE CardsAreFiltered
    <2>1. OnPage(DOMAIN BrowserLayout) BY <1>4, ShownPage, BrowserNames DEF Shows, Ordered
    <2>2. CardsRight /\ ColorRight BY <2>1 DEF BrowserRight
    <2>3. props.strat_cards_grid =
            {s \in ToSet(props.strat_all_data) :
               Passes(s, props.strat_folder_filter, props.strat_group_filter, props.strat_tag_filter)}
      BY <2>2 DEF CardsRight, RenderCards, Quiet, Pending
    <2> QED BY <2>2, <2>3 DEF CardsAreFiltered, ColorRight, Passes
  <1>5. ASSUME props.url.page = "/strategies/" PROVE DetailIsOf(props.url.of)
    <2>1. OnPage(DOMAIN DetailLayout(None))
      BY <1>1, <1>5, DetailNames DEF OnPage, Layout
    <2>2. SaidOf(props.strat_detail, props.url.of)
      BY <1>1, <1>5, <2>1 DEF DetailRight, SaysRight, Quiet, Pending
    <2> QED BY <2>2 DEF DetailIsOf, SaidOf
  <1> QED BY <1>2, <1>3, <1>4, <1>5

\* However the user goes about and the answers come, a page that is quiet is
\* that of the address, and shows what the address and the filters say.
THEOREM PageHolds == Spec => []PageIsOfAddress
  <1>1. Spec => []PagesRight BY InitRight, NextKeepsRight, PTL DEF Spec
  <1> QED BY <1>1, QuietIsRight, PTL
------------------------------------------------------------------------------
(* The bots page.                                                           *)

\* The numbers of trades only grow, and no row counts more.
CountsRight == \A b \in DOMAIN trades : trades[b] \in Nat

RowsAre(board, stats) == \A i \in DOMAIN board : board[i].count \in 0..Count(stats, board[i].bot)

BoardRight ==
  LET refresh == calls["refresh_bot_overview"]
  IN /\ RowsAre(props.bot_leaderboard, trades)
     /\ Pending("refresh_bot_overview") /\ refresh.answer # None =>
          \E board : refresh.answer = [bot_leaderboard |-> board] /\ RowsAre(board, trades)

\* The bot of the row that was clicked, in its mode.
Sel == [bot |-> chosen.row.bot, mode |-> chosen.mode]

ChoiceRight ==
  chosen.mode = ModeOf(chosen.row.bot) /\ chosen.row.count \in 0..Count(trades, chosen.row.bot)

\* The click is being answered, and nothing clears the selection.
AboutToSelect ==
  /\ Pending("select_bot") /\ ~Pending("clear_leaderboard_selection")
  /\ calls["select_bot"].with # Nothing
  /\ SelectBot(calls["select_bot"].with) = [bot_selected |-> Sel]

DetailSays(d) ==
  d.bot = chosen.row.bot /\ d.mode = chosen.mode /\ (d.count = 0 \/ d.count >= chosen.row.count)

\* The detail is, or will be, that of the bot.
Detailed ==
  LET show == calls["show_bot_detail"]
  IN /\ Pending("show_bot_detail") =>
          /\ show.with # Nothing => show.with.bot_selected = Sel
          /\ show.answer # None => \E d : show.answer = [bot_detail |-> d] /\ DetailSays(d)
     /\ ~Pending("show_bot_detail") => DetailSays(props.bot_detail)

\* It is the bot selected, and the call under way, if any, is of a cleared selection.
Selected ==
  /\ props.bot_selected = Sel
  /\ Pending("select_bot") => /\ calls["select_bot"].with # Nothing
                              /\ calls["select_bot"].with.bot_selected_rows = <<>>
  /\ Detailed

BotsRight ==
  /\ CountsRight
  /\ OnPage(DOMAIN BotsLayout) => BoardRight
  /\ chosen # None => OnPage(DOMAIN BotsLayout) /\ ChoiceRight /\ (AboutToSelect \/ Selected)

\* The callbacks of the page of the bots.
LEMMA BotGraph ==
  /\ DOMAIN BotCallbacks = {"refresh_bot_overview", "clear_leaderboard_selection", "select_bot",
                            "show_bot_detail"}
  /\ DOMAIN BotCallbacks \subseteq Straight /\ "render_page" \notin DOMAIN BotCallbacks
  /\ Outputs("refresh_bot_overview") = {"bot_leaderboard"}
  /\ Outputs("clear_leaderboard_selection") = {"bot_selected_rows"}
  /\ Outputs("select_bot") = {"bot_selected"}
  /\ Outputs("show_bot_detail") = {"bot_detail"}
  /\ Graph["refresh_bot_overview"].ins = {"bot_mode_toggle", "bot_interval"}
  /\ Graph["refresh_bot_overview"].first
  /\ Graph["clear_leaderboard_selection"].ins = {"bot_mode_toggle"}
  /\ Graph["select_bot"].ins = {"bot_selected_rows"}
  /\ Graph["show_bot_detail"].ins = {"bot_selected"}
  BY GraphIs DEF Straight, BotCallbacks, ProfileCallbacks, Outputs, Callback

\* What they read.
LEMMA BotReads ==
  /\ Reads["select_bot"] = {"bot_selected_rows", "bot_leaderboard", "bot_mode_toggle"}
  /\ Reads["show_bot_detail"] = {"bot_selected"}
  BY GraphIs, PartsAre, BotGraph DEF Straight, BotCallbacks, Callback

\* They are all on that page.
LEMMA BotsOn ==
  ASSUME OnPage(DOMAIN BotsLayout), NEW c \in DOMAIN BotCallbacks
  PROVE  IsOn(c, props)
  BY BotsBelong, PartsAre DEF BelongTo, OnPage, IsOn, Base

\* Only the answer to clear_leaderboard_selection keeps select_bot waiting.
LEMMA SelectWaits == Feeders["select_bot"] = {"clear_leaderboard_selection"}
  <1>1. ASSUME NEW d \in DOMAIN Graph, d # "select_bot", Graph[d].outs \intersect {"bot_selected_rows"} # {}
        PROVE  d = "clear_leaderboard_selection"
    <2>1. "bot_selected_rows" \in Graph[d].outs BY <1>1
    <2> USE DEF Callback
    <2>2. CASE d = "render_page" BY <2>1, <2>2, GraphIs
    <2>3. CASE d \in DOMAIN ChartCallbacks
      BY <2>1, <2>3, GraphIs DEF ChartCallbacks, ChartStores
    <2>4. CASE d \in DOMAIN ProfileCallbacks BY <2>1, <2>4, GraphIs DEF ProfileCallbacks
    <2>5. CASE d \in DOMAIN BotCallbacks BY <1>1, <2>1, <2>5, GraphIs DEF BotCallbacks
    <2>6. CASE d \in DOMAIN BacktestCallbacks BY <2>1, <2>6, GraphIs DEF BacktestCallbacks
    <2>7. CASE d \in DOMAIN TradeCallbacks BY <2>1, <2>7, GraphIs DEF TradeCallbacks
    <2>8. CASE d \in DOMAIN StrategyCallbacks BY <2>1, <2>8, GraphIs DEF StrategyCallbacks
    <2> QED BY <2>2, <2>3, <2>4, <2>5, <2>6, <2>7, <2>8, GraphIs
  <1>2. Graph["clear_leaderboard_selection"].outs = {"bot_selected_rows"}
    BY GraphIs DEF BotCallbacks, Callback
  <1>3. "select_bot" \in DOMAIN Graph /\ "clear_leaderboard_selection" \in DOMAIN Graph
    BY BotGraph DEF Straight
  <1> QED BY <1>1, <1>2, <1>3, BotGraph DEF Feeders

\* The trades of a bot grow.
Grow == \A b : Count(trades, b) \in Nat /\ Count(trades', b) \in Nat
               /\ Count(trades, b) <= Count(trades', b)

\* A callback of the page that a step is not about is under way as before.
LEMMA BotCallStays ==
  ASSUME Ordered, OnPage(DOMAIN BotsLayout), NEW names, About(names), NEW c \in DOMAIN BotCallbacks,
         (Outputs(c) \union Graph[c].ins) \intersect names = {}
  PROVE  /\ c \in DOMAIN calls' <=> c \in DOMAIN calls
         /\ c \in DOMAIN calls' => Keeps(calls'[c], calls[c], c, props')
         /\ \A x \in Outputs(c) : props'[x] = props[x]
  <1>1. c \in Straight /\ c \in DOMAIN Graph /\ IsOn(c, props) BY BotGraph, BotsOn DEF Straight
  <1>2. Outputs(c) # {} BY BotGraph
  <1>3. GoesOn(c) BY <1>1, <1>2 DEF About
  <1>4. /\ \A x \in Outputs(c) : props'[x] = props[x]
        /\ c \notin DOMAIN calls' => c \notin DOMAIN calls
    BY <1>1, <1>2, AboutOthers
  <1> QED BY <1>3, <1>4 DEF GoesOn

\* The table stays as good in a step that does not write it.
LEMMA BoardStays ==
  ASSUME Ordered, OnPage(DOMAIN BotsLayout), BoardRight, Grow, NEW names, About(names),
         "bot_leaderboard" \notin names
  PROVE  BoardRight'
  <1>1. /\ Goes("refresh_bot_overview") /\ props'.bot_leaderboard = props.bot_leaderboard
    BY BotGraph, BotsOn, AboutOthers
  <1>2. ASSUME NEW board, RowsAre(board, trades) PROVE RowsAre(board, trades')
    <2> SUFFICES ASSUME NEW i \in DOMAIN board PROVE board[i].count \in 0..Count(trades', board[i].bot)
      BY DEF RowsAre
    <2>1. board[i].count \in 0..Count(trades, board[i].bot) BY <1>2 DEF RowsAre
    <2> QED BY <2>1 DEF Grow
  <1>3. RowsAre(props'.bot_leaderboard, trades')
    <2>1. RowsAre(props.bot_leaderboard, trades) BY DEF BoardRight
    <2> QED BY <1>1, <1>2, <2>1
  <1>4. ASSUME "refresh_bot_overview" \in DOMAIN calls', calls'["refresh_bot_overview"].answer # None
        PROVE  \E board : /\ calls'["refresh_bot_overview"].answer = [bot_leaderboard |-> board]
                          /\ RowsAre(board, trades')
    <2>1. PICK board : calls["refresh_bot_overview"].answer = [bot_leaderboard |-> board]
                       /\ RowsAre(board, trades)
      BY <1>1, <1>4 DEF Goes, BoardRight, Pending
    <2>2. RowsAre(board, trades') BY <1>2, <2>1
    <2> QED BY <1>1, <1>4, <2>1, <2>2 DEF Goes
  <1> QED BY <1>3, <1>4 DEF BoardRight, Pending

\* The detail stays, or will be, that of the bot selected while its call goes on.
LEMMA DetailStays ==
  ASSUME Detailed, chosen' = chosen, props'.bot_selected = Sel, props'.bot_detail = props.bot_detail,
         "show_bot_detail" \in DOMAIN calls' <=> "show_bot_detail" \in DOMAIN calls,
         "show_bot_detail" \in DOMAIN calls' =>
           Keeps(calls'["show_bot_detail"], calls["show_bot_detail"], "show_bot_detail", props')
  PROVE  Detailed'
  <1>1. \A d : DetailSays(d)' <=> DetailSays(d) BY DEF DetailSays
  <1>2. Sel' = Sel BY DEF Sel
  <1>3. ASSUME "show_bot_detail" \in DOMAIN calls'
        PROVE  /\ calls'["show_bot_detail"].with # Nothing => calls'["show_bot_detail"].with.bot_selected = Sel
               /\ calls'["show_bot_detail"].answer # None =>
                    \E d : calls'["show_bot_detail"].answer = [bot_detail |-> d] /\ DetailSays(d)
    <2>1. calls'["show_bot_detail"].with # Nothing => calls'["show_bot_detail"].with.bot_selected = Sel
      BY <1>3, BotReads DEF Keeps, Detailed, Pending
    <2>2. calls'["show_bot_detail"].answer = calls["show_bot_detail"].answer BY <1>3 DEF Keeps
    <2> QED BY <1>3, <2>1, <2>2 DEF Detailed, Pending
  <1>4. "show_bot_detail" \notin DOMAIN calls' => DetailSays(props'.bot_detail)
    BY DEF Detailed, Pending
  <1> QED BY <1>1, <1>2, <1>3, <1>4 DEF Detailed, Pending

\* What is said of the bot stays true while its trades grow.
LEMMA ChoiceStays ==
  ASSUME ChoiceRight, Grow, chosen' = chosen
  PROVE  ChoiceRight'
  <1>1. \A b : ModeOf(b)' = ModeOf(b) BY DEF ModeOf
  <1>2. chosen.row.count \in 0..Count(trades', chosen.row.bot) BY DEF ChoiceRight, Grow
  <1> QED BY <1>1, <1>2 DEF ChoiceRight

\* A click stays about to be answered in a step that is about something else ...
LEMMA AboutStays ==
  ASSUME Ordered, OnPage(DOMAIN BotsLayout), AboutToSelect, chosen' = chosen, NEW names, About(names),
         names \intersect {"bot_selected_rows", "bot_selected"} = {},
         ~Pending("clear_leaderboard_selection")'
  PROVE  AboutToSelect'
  <1>1. /\ "select_bot" \in DOMAIN calls'
        /\ Keeps(calls'["select_bot"], calls["select_bot"], "select_bot", props')
    BY BotGraph, BotCallStays DEF AboutToSelect, Pending
  <1>2. calls'["select_bot"].with = calls["select_bot"].with BY <1>1 DEF Keeps, AboutToSelect
  <1> QED BY <1>1, <1>2 DEF AboutToSelect, Pending, SelectBot, Sel

\* ... and so does what is, or will be, shown of the bot selected.
LEMMA SelectedStays ==
  ASSUME Ordered, OnPage(DOMAIN BotsLayout), Selected, chosen' = chosen, NEW names, About(names),
         names \intersect {"bot_selected_rows", "bot_selected", "bot_detail"} = {}
  PROVE  Selected'
  <1>1. /\ "select_bot" \in DOMAIN calls' <=> "select_bot" \in DOMAIN calls
        /\ "select_bot" \in DOMAIN calls' =>
             Keeps(calls'["select_bot"], calls["select_bot"], "select_bot", props')
        /\ props'.bot_selected = props.bot_selected
    BY BotGraph, BotCallStays
  <1>2. /\ "show_bot_detail" \in DOMAIN calls' <=> "show_bot_detail" \in DOMAIN calls
        /\ "show_bot_detail" \in DOMAIN calls' =>
             Keeps(calls'["show_bot_detail"], calls["show_bot_detail"], "show_bot_detail", props')
        /\ props'.bot_detail = props.bot_detail
    BY BotGraph, BotCallStays
  <1>3. ASSUME "select_bot" \in DOMAIN calls'
        PROVE  calls'["select_bot"].with # Nothing /\ calls'["select_bot"].with.bot_selected_rows = <<>>
    BY <1>1, <1>3 DEF Keeps, Selected, Pending
  <1>4. Detailed'
    BY <1>1, <1>2, DetailStays DEF Selected
  <1> QED BY <1>1, <1>3, <1>4 DEF Selected, Pending, Sel

\* Nothing clears the selection in a step that is about something else.
LEMMA NothingClears ==
  ASSUME Ordered, OnPage(DOMAIN BotsLayout), NEW names, About(names),
         names \intersect {"bot_selected_rows", "bot_mode_toggle"} = {}
  PROVE  ~Pending("clear_leaderboard_selection") => ~Pending("clear_leaderboard_selection")'
  <1>1. "clear_leaderboard_selection" \in DOMAIN calls' <=> "clear_leaderboard_selection" \in DOMAIN calls
    BY BotGraph, BotCallStays
  <1> QED BY <1>1 DEF Pending

\* What was chosen is shown, or will be, after a step that is about something else.
LEMMA ChosenStays ==
  ASSUME Ordered, OnPage(DOMAIN BotsLayout), AboutToSelect \/ Selected, chosen' = chosen,
         NEW names, About(names),
         names \intersect {"bot_selected_rows", "bot_mode_toggle", "bot_selected", "bot_detail"} = {}
  PROVE  AboutToSelect' \/ Selected'
  <1>1. ~Pending("clear_leaderboard_selection") => ~Pending("clear_leaderboard_selection")'
    BY NothingClears
  <1>2. CASE AboutToSelect BY <1>1, <1>2, AboutStays DEF AboutToSelect
  <1>3. CASE Selected BY <1>3, SelectedStays
  <1> QED BY <1>2, <1>3

\* The trades are as they were.
LEMMA TradesStay == ASSUME CountsRight, trades' = trades PROVE Grow /\ CountsRight'
  BY DEF CountsRight, Grow, Count

\* One more trade.
LEMMA TradeGrows ==
  ASSUME CountsRight, NEW i, Trade(i)
  PROVE  Grow /\ CountsRight'
  <1>1. PICK bot : bot = running[i] OBVIOUS
  <1> DEFINE one == [b \in {bot} |-> Count(trades, b) + 1]
  <1>2. trades' = one ++ trades BY <1>1 DEF Trade
  <1>3. DOMAIN one = {bot} /\ one[bot] = Count(trades, bot) + 1 OBVIOUS
  <1> HIDE DEF one
  <1>4. /\ DOMAIN trades' = {bot} \union DOMAIN trades /\ trades'[bot] = Count(trades, bot) + 1
        /\ \A b \in DOMAIN trades \ {bot} : trades'[b] = trades[b]
    BY <1>2, <1>3 DEF ++
  <1>5. \A b : Count(trades, b) \in Nat BY DEF CountsRight, Count
  <1>6. ASSUME NEW b PROVE Count(trades', b) \in Nat /\ Count(trades, b) <= Count(trades', b)
    <2>1. CASE b = bot
      <3>1. Count(trades', b) = Count(trades, b) + 1 BY <1>4, <2>1 DEF Count
      <3> QED BY <1>5, <3>1
    <2>2. CASE b # bot
      <3>1. Count(trades', b) = Count(trades, b) BY <1>4, <2>2 DEF Count
      <3> QED BY <1>5, <3>1
    <2> QED BY <2>1, <2>2
  <1>7. \A b \in DOMAIN trades' : trades'[b] \in Nat BY <1>6 DEF Count
  <1> QED BY <1>5, <1>6, <1>7 DEF Grow, CountsRight

\* The user and the answers of the page are on it.
LEMMA OverviewIsOn ==
  ASSUME Ordered, Overview
  PROVE  OnPage(DOMAIN BotsLayout) /\ OnPage(DOMAIN BotsLayout)'
  <1>1. OnPage(DOMAIN BotsLayout)
    <2>1. CASE Shows(BotsLayout)
      BY <2>1, ShownPage, BotsNames DEF Shows, Ordered, PageNames
    <2>2. ASSUME NEW c \in DOMAIN BotCallbacks, Pending(c) PROVE OnPage(DOMAIN BotsLayout)
      <3>1. IsOn(c, props) /\ Parts[c] \intersect DOMAIN BotsLayout # {}
        BY <2>2, BotsBelong DEF Pending, Ordered, Placed, BelongTo
      <3> QED BY <3>1, OnItsPage DEF Ordered, PageNames
    <2>3. Shows(BotsLayout) \/ \E c \in DOMAIN BotCallbacks : Pending(c)
      BY BotGraph DEF Overview, Toggle, Refresh, ClickRow, Serve, Apply, Reply, Served
    <2> QED BY <2>1, <2>2, <2>3
  <1>2. DOMAIN props' = DOMAIN props BY BotsKeepOrder DEF About
  <1> QED BY <1>1, <1>2 DEF OnPage, BotsLayout

\* What the page of the bots keeps, after a step on it.
BotsRightNext ==
  /\ CountsRight' /\ BoardRight'
  /\ chosen' # None => ChoiceRight' /\ (AboutToSelect' \/ Selected')

\* The bots' page, before a step on it.
BotsRightHere ==
  /\ Ordered /\ OnPage(DOMAIN BotsLayout) /\ CountsRight /\ BoardRight
  /\ chosen # None => ChoiceRight /\ (AboutToSelect \/ Selected)

\* The toggle: a click that is not answered is forgotten.
LEMMA ToggleIsRight ==
  ASSUME BotsRightHere, NEW mode, Toggle(mode)
  PROVE  BotsRightNext
  <1> USE DEF BotsRightHere
  <1>1. "bot_mode_toggle" \in DOMAIN props BY BotsNames DEF OnPage
  <1>2. Input([bot_mode_toggle |-> mode]) BY DEF Toggle, UserInput
  <1>3. About({"bot_mode_toggle"}) BY <1>1, <1>2, InputKeepsOrder
  <1>4. Grow /\ CountsRight' BY TradesStay DEF Toggle, bots
  <1>5. BoardRight' BY <1>3, <1>4, BoardStays
  <1>6. ASSUME chosen' # None PROVE ChoiceRight' /\ Selected'
    <2>1. chosen' = chosen /\ ~Pending("select_bot") BY <1>6 DEF Toggle
    <2>2. ChoiceRight /\ Selected BY <1>6, <2>1 DEF AboutToSelect
    <2> QED BY <1>3, <1>4, <2>1, <2>2, ChoiceStays, SelectedStays
  <1> QED BY <1>4, <1>5, <1>6 DEF BotsRightNext

\* A step about something else than what was chosen.
LEMMA ElseIsRight ==
  ASSUME BotsRightHere, chosen' = chosen, Grow, CountsRight', BoardRight', NEW names, About(names),
         names \intersect {"bot_selected_rows", "bot_mode_toggle", "bot_selected", "bot_detail"} = {}
  PROVE  BotsRightNext
  BY ChoiceStays, ChosenStays DEF BotsRightHere, BotsRightNext

\* The timer.
LEMMA RefreshIsRight ==
  ASSUME BotsRightHere, Refresh
  PROVE  BotsRightNext
  <1>1. "bot_interval" \in DOMAIN props BY BotsNames DEF OnPage, BotsRightHere
  <1>2. About({"bot_interval"}) BY <1>1, InputKeepsOrder DEF Refresh, BotsRightHere
  <1>3. Grow /\ CountsRight' /\ chosen' = chosen
    BY TradesStay DEF Refresh, botVars, bots, BotsRightHere
  <1>4. BoardRight' BY <1>2, <1>3, BoardStays DEF BotsRightHere
  <1> QED BY <1>2, <1>3, <1>4, ElseIsRight

\* A row of the table is clicked: its bot is about to be selected.
LEMMA ClickIsRight ==
  ASSUME BotsRightHere, ClickRow
  PROVE  BotsRightNext
  <1> USE DEF BotsRightHere
  <1> DEFINE Click(i) ==
        /\ UserInput([bot_selected_rows |-> <<i>>])
        /\ chosen' = IF /\ ModeOf(props.bot_leaderboard[i].bot) = props.bot_mode_toggle
                        /\ ~Pending("clear_leaderboard_selection")
                     THEN [row |-> props.bot_leaderboard[i],
                           mode |-> ModeOf(props.bot_leaderboard[i].bot)] ELSE None
  <1>1. PICK i \in DOMAIN props.bot_leaderboard : Click(i) BY DEF ClickRow
  <1>2. "bot_selected_rows" \in DOMAIN props BY BotsNames DEF OnPage
  <1>3. Input([bot_selected_rows |-> <<i>>]) BY <1>1 DEF UserInput
  <1>4. /\ About({"bot_selected_rows"}) /\ Writes([bot_selected_rows |-> <<i>>])
        /\ CallsBecome(calls, [bot_selected_rows |-> <<i>>], {})
    BY <1>2, <1>3, InputKeepsOrder
  <1>5. Grow /\ CountsRight' BY TradesStay DEF ClickRow, bots
  <1>6. BoardRight' BY <1>4, <1>5, BoardStays
  <1>7. ASSUME chosen' # None PROVE ChoiceRight' /\ AboutToSelect'
    <2> PICK row : row = props.bot_leaderboard[i] OBVIOUS
    <2>1. /\ ModeOf(row.bot) = props.bot_mode_toggle /\ ~Pending("clear_leaderboard_selection")
          /\ chosen' = [row |-> row, mode |-> ModeOf(row.bot)]
      BY <1>1, <1>7
    <2>2. ChoiceRight'
      <3>1. row.count \in 0..Count(trades, row.bot) BY <1>1 DEF BoardRight, RowsAre
      <3>2. trades' = trades BY DEF ClickRow, bots
      <3> QED BY <2>1, <3>1, <3>2 DEF ChoiceRight, ModeOf
    <2>3. Anew({"bot_selected_rows"}, {}, props) \subseteq {"select_bot"}
      BY PagesAreRead, BotGraph, BotsNames DEF Anew, ReadBy
    <2>4. "select_bot" \in Anew({"bot_selected_rows"}, {}, props)
      BY BotsOn, BotGraph DEF Anew, Straight
    <2> DEFINE new == [bot_selected_rows |-> <<i>>]
    <2>5. DOMAIN new = {"bot_selected_rows"} OBVIOUS
    <2>6. props'.bot_selected_rows = <<i>> BY <1>4 DEF Writes
    <2> HIDE DEF new
    <2>7. /\ "select_bot" \in DOMAIN calls' /\ "clear_leaderboard_selection" \notin DOMAIN calls'
          /\ Feeders["select_bot"] \intersect DOMAIN calls' = {} =>
               calls'["select_bot"].with = [x \in Reads["select_bot"] |-> props'[x]]
      BY <1>4, <2>1, <2>3, <2>4, <2>5 DEF CallsBecome, Pending, new
    <2>8. calls'["select_bot"].with = [x \in Reads["select_bot"] |-> props'[x]]
      BY <2>7, SelectWaits
    <2>9. /\ props'.bot_leaderboard = props.bot_leaderboard
          /\ props'.bot_mode_toggle = props.bot_mode_toggle
      BY <1>4, BotsNames DEF About, OnPage
    <2>10. PICK w : w = calls'["select_bot"].with OBVIOUS
    <2>11. /\ w.bot_selected_rows = <<i>> /\ w.bot_leaderboard = props.bot_leaderboard
           /\ w.bot_mode_toggle = props.bot_mode_toggle /\ w # Nothing
      BY <2>6, <2>8, <2>9, <2>10, BotReads DEF Nothing
    <2>12. SelectBot(w) = [bot_selected |-> [bot |-> row.bot, mode |-> ModeOf(row.bot)]]
      BY <1>1, <2>1, <2>11 DEF SelectBot
    <2>13. Sel' = [bot |-> row.bot, mode |-> ModeOf(row.bot)] BY <2>1 DEF Sel
    <2>14. SelectBot(calls["select_bot"].with)' = SelectBot(w) BY <2>10 DEF SelectBot
    <2> QED BY <2>2, <2>7, <2>10, <2>11, <2>12, <2>13, <2>14 DEF AboutToSelect, Pending
  <1> QED BY <1>5, <1>6, <1>7 DEF BotsRightNext

\* A row counts what the table had of its bot, or nothing.
LEMMA MergedRows ==
  ASSUME CountsRight, NEW loaded, NEW stats \in BotStats, NEW mode
  PROVE  RowsAre(MergeBots(loaded, stats, mode), trades)
  <1> PICK ofMode : ofMode = SelectSeq(loaded, LAMBDA b : ModeOf(b) = mode) OBVIOUS
  <1>1. MergeBots(loaded, stats, mode) =
          [i \in DOMAIN ofMode |-> [bot |-> ofMode[i], count |-> Count(stats, ofMode[i])]]
    BY DEF MergeBots
  <1>2. \A b : Count(stats, b) \in 0..Count(trades, b)
    <2>1. \A b : Count(trades, b) \in Nat BY DEF CountsRight, Count
    <2>2. CASE stats = trades BY <2>1, <2>2
    <2>3. CASE stats = NoStats
      <3>1. DOMAIN NoStats = {} BY DEF NoStats
      <3>2. \A b : Count(stats, b) = 0 BY <2>3, <3>1 DEF Count
      <3> QED BY <2>1, <3>2
    <2> QED BY <2>2, <2>3 DEF BotStats
  <1> QED BY <1>1, <1>2 DEF RowsAre

\* What refresh_bot_overview may answer.
LEMMA OverviewAnswers ==
  ASSUME CountsRight, NEW w, NEW answer \in RefreshOverview(w)
  PROVE  \E board : answer = [bot_leaderboard |-> board] /\ RowsAre(board, trades)
  <1>1. PICK loaded \in RunningBots, stats \in BotStats :
               answer = [bot_leaderboard |-> MergeBots(loaded, stats, w.bot_mode_toggle)]
    BY DEF RefreshOverview
  <1> QED BY <1>1, MergedRows

\* refresh_bot_overview asks for the table ...
LEMMA OverviewServed ==
  ASSUME BotsRightHere, Serve("refresh_bot_overview", RefreshOverview), UNCHANGED botVars
  PROVE  BotsRightNext
  <1> USE DEF BotsRightHere
  <1> DEFINE answers == RefreshOverview(calls["refresh_bot_overview"].with)
  <1>1. ASSUME NEW answer \in answers
        PROVE  \E board : answer = [bot_leaderboard |-> board] /\ RowsAre(board, trades)
    BY <1>1, OverviewAnswers
  <1>2. \A answer \in answers : DOMAIN answer \subseteq Outputs("refresh_bot_overview")
    <2> TAKE answer \in answers
    <2>1. PICK board : answer = [bot_leaderboard |-> board] BY <1>1
    <2> QED BY <2>1, BotGraph
  <1> HIDE DEF answers
  <1>3. /\ About(Outputs("refresh_bot_overview")) /\ DOMAIN calls' = DOMAIN calls
        /\ calls'["refresh_bot_overview"].answer \in answers
    BY <1>2, ServesKeepOrder DEF Serve, answers
  <1>4. props' = props BY DEF Serve
  <1>5. trades' = trades /\ chosen' = chosen BY DEF botVars, bots
  <1>6. Grow /\ CountsRight' BY <1>5, TradesStay
  <1>7. BoardRight' BY <1>1, <1>3, <1>4, <1>5 DEF BoardRight
  <1> QED BY <1>3, <1>5, <1>6, <1>7, BotGraph, ElseIsRight

\* ... and shows it.
LEMMA OverviewApplied ==
  ASSUME BotsRightHere, Apply("refresh_bot_overview"), UNCHANGED botVars
  PROVE  BotsRightNext
  <1> USE DEF BotsRightHere
  <1>1. PICK board : calls["refresh_bot_overview"].answer = [bot_leaderboard |-> board]
                     /\ RowsAre(board, trades)
    BY DEF Apply, BoardRight
  <1> DEFINE new == [bot_leaderboard |-> board]
             chain == calls["refresh_bot_overview"].chain \union {"refresh_bot_overview"}
  <1>2. /\ About(Outputs("refresh_bot_overview")) /\ Writes(new)
        /\ CallsBecome(Others("refresh_bot_overview"), new, chain)
    <2>1. "refresh_bot_overview" # "render_page" OBVIOUS
    <2> QED BY <1>1, <2>1, ApplyKeepsOrder
  <1>3. DOMAIN new = {"bot_leaderboard"} /\ new["bot_leaderboard"] = board OBVIOUS
  <1> HIDE DEF new, chain
  <1>4. props'.bot_leaderboard = board BY <1>2, <1>3 DEF Writes
  <1>5. "refresh_bot_overview" \notin DOMAIN calls'
    <2>1. "refresh_bot_overview" \notin Anew(DOMAIN new, chain, props) BY <1>3, BotGraph DEF Anew
    <2>2. "refresh_bot_overview" \notin DOMAIN Others("refresh_bot_overview") BY OthersAre DEF Ordered
    <2> QED BY <1>2, <2>1, <2>2 DEF CallsBecome
  <1>6. trades' = trades /\ chosen' = chosen BY DEF botVars, bots
  <1>7. Grow /\ CountsRight' BY <1>6, TradesStay
  <1>8. BoardRight' BY <1>1, <1>4, <1>5, <1>6 DEF BoardRight, Pending
  <1> QED BY <1>2, <1>6, <1>7, <1>8, BotGraph, ElseIsRight

\* The selection is cleared: what select_bot is called for then selects nothing.
LEMMA ClearedIsRight ==
  ASSUME BotsRightHere, Reply("clear_leaderboard_selection", ClearSelection), UNCHANGED botVars
  PROVE  BotsRightNext
  <1> USE DEF BotsRightHere
  <1> DEFINE clear == "clear_leaderboard_selection"
             new == [bot_selected_rows |-> <<>>]
             chain == calls[clear].chain \union {clear}
  <1>0. clear \in DOMAIN calls /\ clear # "render_page" BY DEF Reply, Served, Pending
  <1>1. DOMAIN new = {"bot_selected_rows"} /\ new["bot_selected_rows"] = <<>> OBVIOUS
  <1>2. Written(Others(clear), new, chain) BY DEF Reply, ClearSelection
  <1>3. Outputs(clear) = {"bot_selected_rows"} BY BotGraph
  <1>4. About({"bot_selected_rows"}) /\ Writes(new) /\ CallsBecome(Others(clear), new, chain)
    <2> HIDE DEF new
    <2> QED BY <1>0, <1>1, <1>2, <1>3, AnswerKeepsOrder DEF clear, chain
  <1> HIDE DEF new, chain
  <1>5. trades' = trades /\ chosen' = chosen BY DEF botVars, bots
  <1>6. Grow /\ CountsRight' BY <1>5, TradesStay
  <1>7. BoardRight' BY <1>4, <1>6, BoardStays
  <1>8. ASSUME chosen # None PROVE Selected'
    <2>1. Selected BY <1>0, <1>8 DEF AboutToSelect, Pending
    <2>2. /\ props'.bot_selected = Sel /\ props'.bot_detail = props.bot_detail
          /\ "show_bot_detail" \in DOMAIN calls' <=> "show_bot_detail" \in DOMAIN calls
          /\ "show_bot_detail" \in DOMAIN calls' =>
               Keeps(calls'["show_bot_detail"], calls["show_bot_detail"], "show_bot_detail", props')
      <3>1. props'.bot_selected = props.bot_selected BY <1>4, BotsNames DEF About, OnPage
      <3> QED BY <1>4, <2>1, <3>1, BotGraph, BotCallStays DEF Selected
    <2>3. Detailed' BY <1>5, <2>1, <2>2, DetailStays DEF Selected
    <2>4. props'.bot_selected_rows = <<>> BY <1>1, <1>4 DEF Writes
    <2>5. ASSUME "select_bot" \in DOMAIN calls'
          PROVE  calls'["select_bot"].with # Nothing /\ calls'["select_bot"].with.bot_selected_rows = <<>>
      <3>1. CASE "select_bot" \in Anew(DOMAIN new, chain, props)
        <4>1. clear \notin DOMAIN calls'
          <5>1. clear \notin Anew(DOMAIN new, chain, props) BY <1>1, BotGraph DEF Anew
          <5>2. clear \notin DOMAIN Others(clear) BY OthersAre DEF Ordered
          <5> QED BY <1>4, <5>1, <5>2 DEF CallsBecome
        <4>2. calls'["select_bot"].with = [x \in Reads["select_bot"] |-> props'[x]]
          BY <1>4, <3>1, <4>1, SelectWaits DEF CallsBecome
        <4> QED BY <2>4, <4>2, BotReads DEF Nothing
      <3>2. CASE "select_bot" \notin Anew(DOMAIN new, chain, props)
        <4>1. "select_bot" \in DOMAIN Others(clear)
          BY <1>4, <2>5, <3>2 DEF CallsBecome
        <4>2. Keeps(calls'["select_bot"], Others(clear)["select_bot"], "select_bot", props')
          BY <1>4, <3>2, <4>1 DEF CallsBecome
        <4>3. "select_bot" \in DOMAIN calls /\ Others(clear)["select_bot"] = calls["select_bot"]
          BY <4>1, OthersAre DEF Ordered, Some
        <4> QED BY <2>1, <4>2, <4>3 DEF Keeps, Selected, Pending
      <3> QED BY <3>1, <3>2
    <2> QED BY <1>5, <2>2, <2>3, <2>5 DEF Selected, Pending, Sel
  <1>9. chosen' # None => ChoiceRight' BY <1>5, <1>6, ChoiceStays
  <1> QED BY <1>5, <1>6, <1>7, <1>8, <1>9 DEF BotsRightNext

\* The click is answered: the bot is selected, and its detail asked for; or nothing
\* is selected of a cleared selection.
LEMMA AnsweredIsRight ==
  ASSUME BotsRightHere, Reply("select_bot", SelectBot), UNCHANGED botVars
  PROVE  BotsRightNext
  <1> USE DEF BotsRightHere
  <1> DEFINE chain == calls["select_bot"].chain \union {"select_bot"}
  <1>0. "select_bot" \in DOMAIN calls /\ "select_bot" # "render_page" BY DEF Reply, Served, Pending
  <1> PICK w : w = calls["select_bot"].with OBVIOUS
  <1>1. PICK new : new = SelectBot(w) OBVIOUS
  <1>2. DOMAIN new \subseteq Outputs("select_bot")
    <2>1. CASE w.bot_selected_rows = <<>> \/ w.bot_selected_rows[1] \notin DOMAIN w.bot_leaderboard
      <3>1. new = <<>> BY <1>1, <2>1, Zenon DEF SelectBot, NoUpdate
      <3>2. DOMAIN new = {} BY <3>1
      <3> QED BY <3>2
    <2>2. CASE ~(w.bot_selected_rows = <<>> \/ w.bot_selected_rows[1] \notin DOMAIN w.bot_leaderboard)
      <3>1. \E b : new = [bot_selected |-> b] BY <1>1, <2>2, Zenon DEF SelectBot
      <3>2. DOMAIN new = {"bot_selected"} BY <3>1
      <3> QED BY <3>2, BotGraph
    <2> QED BY <2>1, <2>2
  <1>3. Written(Others("select_bot"), new, chain) BY <1>1 DEF Reply
  <1>4. /\ About({"bot_selected"}) /\ Writes(new)
        /\ CallsBecome(Others("select_bot"), new, chain)
    BY <1>0, <1>2, <1>3, AnswerKeepsOrder, BotGraph
  <1> HIDE DEF chain
  <1>5. trades' = trades /\ chosen' = chosen BY DEF botVars, bots
  <1>6. Grow /\ CountsRight' BY <1>5, TradesStay
  <1>7. BoardRight' BY <1>4, <1>6, BoardStays
  <1>8. "select_bot" \notin DOMAIN calls'
    <2>1. "select_bot" \notin Anew(DOMAIN new, chain, props) BY <1>2, BotGraph DEF Anew
    <2>2. "select_bot" \notin DOMAIN Others("select_bot") BY OthersAre DEF Ordered
    <2> QED BY <1>4, <2>1, <2>2 DEF CallsBecome
  <1>9. props'.bot_detail = props.bot_detail BY <1>4, BotsNames DEF About, OnPage
  <1>10. ASSUME chosen # None PROVE Selected'
    <2>1. CASE AboutToSelect
      <3>1. new = [bot_selected |-> Sel] BY <1>1, <2>1 DEF AboutToSelect
      <3>2. DOMAIN new = {"bot_selected"} /\ new["bot_selected"] = Sel BY <3>1
      <3>3. props'.bot_selected = Sel BY <1>4, <3>2 DEF Writes
      <3>4. "show_bot_detail" \in Anew(DOMAIN new, chain, props)
        <4>1. "show_bot_detail" \notin chain
          <5>1. "select_bot" \in DOMAIN calls \intersect Straight BY <1>0, BotGraph
          <5>2. \A d \in calls["select_bot"].chain : Rank(d) < Rank("select_bot")
            BY <5>1 DEF Ordered, Chains
          <5>3. ~(Rank("show_bot_detail") < Rank("select_bot")) BY DEF Rank
          <5> QED BY <5>2, <5>3 DEF chain
        <4>2. IsOn("show_bot_detail", props) /\ "show_bot_detail" \in DOMAIN Graph
          BY BotsOn, BotGraph DEF Straight
        <4> QED BY <3>2, <4>1, <4>2, BotGraph DEF Anew
      <3>5. /\ "show_bot_detail" \in DOMAIN calls'
            /\ Keeps(calls'["show_bot_detail"], NewCall(chain), "show_bot_detail", props')
        BY <1>4, <3>4 DEF CallsBecome
      <3>6. /\ calls'["show_bot_detail"].answer = None
            /\ calls'["show_bot_detail"].with # Nothing =>
                 calls'["show_bot_detail"].with = [x \in Reads["show_bot_detail"] |-> props'[x]]
        BY <3>5, NewCallShape DEF Keeps
      <3>7. calls'["show_bot_detail"].with # Nothing => calls'["show_bot_detail"].with.bot_selected = Sel
        BY <3>3, <3>6, BotReads
      <3>8. Sel' = Sel BY <1>5 DEF Sel
      <3>9. Detailed' BY <3>5, <3>6, <3>7, <3>8 DEF Detailed, Pending
      <3> QED BY <1>8, <3>3, <3>8, <3>9 DEF Selected, Pending
    <2>2. CASE Selected
      <3>0. w.bot_selected_rows = <<>> BY <1>0, <2>2 DEF Selected, Pending
      <3>1. new = <<>> BY <1>1, <3>0, Zenon DEF SelectBot, NoUpdate
      <3>2. DOMAIN new = {} BY <3>1
      <3>3. Anew(DOMAIN new, chain, props) = {} BY <3>2 DEF Anew
      <3>4. props'.bot_selected = Sel
        BY <1>4, <2>2, <3>2, BotsNames DEF Writes, OnPage, Selected
      <3>5. /\ DOMAIN calls' = DOMAIN Others("select_bot")
            /\ \A c \in DOMAIN calls' : Keeps(calls'[c], Others("select_bot")[c], c, props')
        BY <1>4, <3>3 DEF CallsBecome
      <3>6. /\ "show_bot_detail" \in DOMAIN calls' <=> "show_bot_detail" \in DOMAIN calls
            /\ "show_bot_detail" \in DOMAIN calls' =>
                 Keeps(calls'["show_bot_detail"], calls["show_bot_detail"], "show_bot_detail", props')
        BY <3>5, OthersAre DEF Ordered, Some
      <3>7. Detailed' BY <1>5, <1>9, <2>2, <3>4, <3>6, DetailStays DEF Selected
      <3> QED BY <1>5, <1>8, <3>4, <3>7 DEF Selected, Pending, Sel
    <2> QED BY <1>10, <2>1, <2>2
  <1>11. chosen' # None => ChoiceRight' BY <1>5, <1>6, ChoiceStays
  <1> QED BY <1>5, <1>6, <1>7, <1>10, <1>11 DEF BotsRightNext

\* The parts of the detail.
LEMMA Joined ==
  ASSUME NEW b, NEW mode, NEW n
  PROVE  LET d == [bot |-> b, mode |-> mode] ++ [count |-> n]
         IN d.bot = b /\ d.mode = mode /\ d.count = n
  <1> DEFINE new == [bot |-> b, mode |-> mode]
             old == [count |-> n]
  <1>1. DOMAIN new = {"bot", "mode"} /\ DOMAIN old = {"count"} OBVIOUS
  <1>2. new["bot"] = b /\ new["mode"] = mode /\ old["count"] = n OBVIOUS
  <1> HIDE DEF new, old
  <1>3. (new ++ old)["bot"] = b /\ (new ++ old)["mode"] = mode /\ (new ++ old)["count"] = n
    BY <1>1, <1>2 DEF ++
  <1> QED BY <1>3 DEF new, old

\* What show_bot_detail may answer.
LEMMA DetailAnswers ==
  ASSUME NEW w, NEW answer \in ShowDetail(w)
  PROVE  \E n \in TradesIn(w.bot_selected.bot, w.bot_selected.mode) :
           answer = [bot_detail |-> w.bot_selected ++ [count |-> n]]
  BY DEF ShowDetail

\* show_bot_detail asks for the trades of the bot selected ...
LEMMA DetailServed ==
  ASSUME BotsRightHere, Serve("show_bot_detail", ShowDetail), UNCHANGED botVars
  PROVE  BotsRightNext
  <1> USE DEF BotsRightHere
  <1> DEFINE w == calls["show_bot_detail"].with
             answers == ShowDetail(w)
  <1>0. "show_bot_detail" \in DOMAIN calls /\ w # Nothing BY DEF Serve, Served, Pending
  <1>1. \A answer \in answers : DOMAIN answer \subseteq Outputs("show_bot_detail")
    <2> TAKE answer \in answers
    <2>1. PICK d : answer = [bot_detail |-> d] BY DetailAnswers
    <2> QED BY <2>1, BotGraph
  <1> HIDE DEF answers
  <1>2. /\ About({"bot_detail"}) /\ DOMAIN calls' = DOMAIN calls
        /\ calls'["show_bot_detail"].with = w
        /\ calls'["show_bot_detail"].answer \in answers
    BY <1>1, ServesKeepOrder, BotGraph DEF Serve, answers
  <1>3. props' = props BY DEF Serve
  <1>4. trades' = trades /\ chosen' = chosen BY DEF botVars, bots
  <1>5. Grow /\ CountsRight' BY <1>4, TradesStay
  <1>6. BoardRight' BY <1>2, <1>5, BoardStays
  <1>7. ASSUME chosen # None, AboutToSelect PROVE AboutToSelect'
    BY <1>2, <1>4, <1>7, AboutStays, NothingClears DEF AboutToSelect
  <1>8. ASSUME chosen # None, Selected PROVE Selected'
    <2>1. w.bot_selected = Sel BY <1>0, <1>8 DEF Selected, Detailed, Pending
    <2>2. PICK n \in TradesIn(Sel.bot, Sel.mode) :
            calls'["show_bot_detail"].answer = [bot_detail |-> Sel ++ [count |-> n]]
      <3> PICK answer : answer = calls'["show_bot_detail"].answer OBVIOUS
      <3>1. answer \in ShowDetail(w) BY <1>2 DEF answers
      <3> HIDE DEF w
      <3> QED BY <2>1, <3>1, DetailAnswers
    <2>3. PICK d : d = Sel ++ [count |-> n] OBVIOUS
    <2>4. d.bot = chosen.row.bot /\ d.mode = chosen.mode /\ d.count = n BY <2>3, Joined DEF Sel
    <2>5. n = 0 \/ n >= chosen.row.count
      <3>1. ChoiceRight BY <1>8
      <3>2. n = 0 \/ n = Count(trades, chosen.row.bot) BY <2>2 DEF TradesIn, Sel
      <3>3. Count(trades, chosen.row.bot) \in Nat BY DEF CountsRight, Count
      <3> QED BY <3>1, <3>2, <3>3 DEF ChoiceRight
    <2>6. DetailSays(d)' BY <1>4, <2>4, <2>5 DEF DetailSays
    <2>7. Sel' = Sel BY <1>4 DEF Sel
    <2>8. Detailed'
      BY <1>0, <1>2, <2>1, <2>2, <2>3, <2>6, <2>7 DEF Detailed, Pending
    <2>9. /\ "select_bot" \in DOMAIN calls' <=> "select_bot" \in DOMAIN calls
          /\ "select_bot" \in DOMAIN calls' =>
               Keeps(calls'["select_bot"], calls["select_bot"], "select_bot", props')
      BY <1>2, BotGraph, BotCallStays
    <2>10. ASSUME "select_bot" \in DOMAIN calls'
           PROVE  /\ calls'["select_bot"].with # Nothing
                  /\ calls'["select_bot"].with.bot_selected_rows = <<>>
      BY <1>8, <2>9, <2>10 DEF Selected, Keeps, Pending
    <2> QED BY <1>3, <1>8, <2>7, <2>8, <2>10 DEF Selected, Pending
  <1>9. chosen' # None => ChoiceRight' BY <1>4, <1>5, ChoiceStays
  <1> QED BY <1>4, <1>5, <1>6, <1>7, <1>8, <1>9 DEF BotsRightNext
\* ... and shows them.
LEMMA DetailApplied ==
  ASSUME BotsRightHere, Apply("show_bot_detail"), UNCHANGED botVars
  PROVE  BotsRightNext
  <1> USE DEF BotsRightHere
  <1> PICK answer, chain :
        answer = calls["show_bot_detail"].answer
        /\ chain = calls["show_bot_detail"].chain \union {"show_bot_detail"}
    OBVIOUS
  <1>0. "show_bot_detail" \in DOMAIN calls /\ answer # None BY DEF Apply, Pending
  <1>1. /\ About({"bot_detail"}) /\ Writes(answer)
        /\ CallsBecome(Others("show_bot_detail"), answer, chain)
    <2>1. "show_bot_detail" # "render_page" OBVIOUS
    <2> QED BY <2>1, ApplyKeepsOrder, BotGraph
  <1>2. DOMAIN answer \subseteq {"bot_detail"}
    BY <1>0, BotGraph DEF Ordered, Placed
  <1>3. "show_bot_detail" \notin DOMAIN calls'
    <2>1. "show_bot_detail" \notin Anew(DOMAIN answer, chain, props) BY <1>2, BotGraph DEF Anew
    <2>2. "show_bot_detail" \notin DOMAIN Others("show_bot_detail") BY OthersAre DEF Ordered
    <2> QED BY <1>1, <2>1, <2>2 DEF CallsBecome
  <1>4. trades' = trades /\ chosen' = chosen BY DEF botVars, bots
  <1>5. Grow /\ CountsRight' BY <1>4, TradesStay
  <1>6. BoardRight' BY <1>1, <1>5, BoardStays
  <1>7. ASSUME chosen # None, AboutToSelect PROVE AboutToSelect'
    BY <1>1, <1>4, <1>7, AboutStays, NothingClears DEF AboutToSelect
  <1>8. ASSUME chosen # None, Selected PROVE Selected'
    <2>1. PICK d : answer = [bot_detail |-> d] /\ DetailSays(d)
      BY <1>0, <1>8 DEF Selected, Detailed, Pending
    <2>2. DOMAIN answer = {"bot_detail"} /\ answer["bot_detail"] = d BY <2>1
    <2>3. props'.bot_detail = d BY <1>1, <2>2 DEF Writes
    <2>4. DetailSays(d)' BY <1>4, <2>1 DEF DetailSays
    <2>5. props'.bot_selected = props.bot_selected BY <1>1, BotsNames DEF About, OnPage
    <2>6. Detailed' BY <1>3, <2>3, <2>4 DEF Detailed, Pending
    <2>7. /\ "select_bot" \in DOMAIN calls' <=> "select_bot" \in DOMAIN calls
          /\ "select_bot" \in DOMAIN calls' =>
               Keeps(calls'["select_bot"], calls["select_bot"], "select_bot", props')
      BY <1>1, BotGraph, BotCallStays
    <2>8. ASSUME "select_bot" \in DOMAIN calls'
          PROVE  /\ calls'["select_bot"].with # Nothing
                 /\ calls'["select_bot"].with.bot_selected_rows = <<>>
      BY <1>8, <2>7, <2>8 DEF Selected, Keeps, Pending
    <2> QED BY <1>4, <1>8, <2>5, <2>6, <2>8 DEF Selected, Pending, Sel
  <1>9. chosen' # None => ChoiceRight' BY <1>4, <1>5, ChoiceStays
  <1> QED BY <1>4, <1>5, <1>6, <1>7, <1>8, <1>9 DEF BotsRightNext

\* Every step on the page of the bots leaves it right.
LEMMA OverviewIsRight ==
  ASSUME Ordered, BotsRight, Overview
  PROVE  BotsRight'
  <1>1. OnPage(DOMAIN BotsLayout) /\ OnPage(DOMAIN BotsLayout)' BY OverviewIsOn
  <1>2. BotsRightHere BY <1>1 DEF BotsRight, BotsRightHere
  <1>3. BotsRightNext
    BY <1>2, ToggleIsRight, RefreshIsRight, ClickIsRight, OverviewServed, OverviewApplied,
       ClearedIsRight, AnsweredIsRight, DetailServed, DetailApplied
    DEF Overview
  <1> QED BY <1>1, <1>3 DEF BotsRight, BotsRightNext

\* A step about another page leaves it right, while the trades only grow.
LEMMA ElsewhereIsRight ==
  ASSUME Ordered, BotsRight, NEW names, About(names), names \intersect DOMAIN BotsLayout = {},
         chosen' = chosen, Grow, CountsRight'
  PROVE  BotsRight'
  <1>1. OnPage(DOMAIN BotsLayout)' <=> OnPage(DOMAIN BotsLayout)
    BY DEF About, OnPage, BotsLayout
  <1>2. ASSUME OnPage(DOMAIN BotsLayout) PROVE BotsRightNext
    <2>1. BoardRight' BY <1>2, BoardStays, BotsNames DEF BotsRight
    <2>2. BotsRightHere BY <1>2 DEF BotsRight, BotsRightHere
    <2> QED BY <2>1, <2>2, ElseIsRight, BotsNames
  <1> QED BY <1>1, <1>2 DEF BotsRight, BotsRightNext

\* The page is right when it is shown.
LEMMA BotsMountIsRight ==
  ASSUME Ordered, RenderPage
  PROVE  BotsRight'
  <1>1. PICK layout : layout = Layout(props.url) OBVIOUS
  <1>2. Mounts(layout)
    <2>1. Mount("render_page", layout, Base) BY <1>1 DEF RenderPage, Base
    <2> QED BY <1>1, <2>1, MountKeepsOrder
  <1>3. trades' = NoStats /\ chosen' = None BY DEF RenderPage, BotsReset
  <1>4. CountsRight'
    <2>1. DOMAIN NoStats = {} BY DEF NoStats
    <2> QED BY <1>3, <2>1 DEF CountsRight
  <1>5. ASSUME OnPage(DOMAIN BotsLayout)' PROVE BoardRight'
    <2>1. DOMAIN layout = DOMAIN BotsLayout
      <3>1. DOMAIN layout \in PageNames BY <1>1, LayoutNames
      <3>2. PICK there : there = DOMAIN layout OBVIOUS
      <3>3. Base \union DOMAIN BotsLayout = Base \union there
        BY <1>2, <1>5, <3>2 DEF Mounts, OnPage, BotsLayout
      <3> QED BY <3>1, <3>2, <3>3, PagesAreApart DEF PageNames
    <2>2. layout = BotsLayout
      BY <1>1, <2>1, ChartsNames, ProfilesNames, BotsNames, BacktestNames, TradeNames, BrowserNames,
         DetailNames DEF Layout
    <2>3. props'.bot_leaderboard = <<>> BY <1>2, <2>2 DEF Mounts, BotsLayout
    <2>4. RowsAre(props'.bot_leaderboard, trades')
      <3>1. DOMAIN props'.bot_leaderboard = {} BY <2>3
      <3> QED BY <3>1 DEF RowsAre
    <2>5. "refresh_bot_overview" \in DOMAIN calls' => calls'["refresh_bot_overview"].answer = None
      <3>1. "refresh_bot_overview" \in DOMAIN Graph BY BotGraph DEF Straight
      <3>2. Parts["refresh_bot_overview"] \subseteq Base \union DOMAIN layout
        BY <2>1, <3>1, BotGraph, BotsBelong, PartsAre DEF BelongTo, Base
      <3> QED BY <1>2, <2>1, <3>1, <3>2, BotGraph, BotsNames, FirstCalls
    <2> QED BY <2>4, <2>5 DEF BoardRight, Pending
  <1> QED BY <1>3, <1>4, <1>5 DEF BotsRight

\* Every step leaves the page of the bots right.
LEMMA NextKeepsBotsRight ==
  ASSUME Ordered, BotsRight, [Next]_vars
  PROVE  BotsRight'
  <1>1. ASSUME NEW names, About(names), names \intersect DOMAIN BotsLayout = {}, UNCHANGED botVars
        PROVE  BotsRight'
    <2>1. trades' = trades /\ chosen' = chosen BY <1>1 DEF botVars, bots
    <2>2. Grow /\ CountsRight' BY <2>1, TradesStay DEF BotsRight
    <2> QED BY <1>1, <2>1, <2>2, ElsewhereIsRight
  <1> USE ChartsNames, ProfilesNames, BotsNames, BacktestNames, TradeNames, BrowserNames, DetailNames
  <1>2. CASE \E url \in Addresses : GoTo(url)
    <2>1. PICK url \in Addresses : GoTo(url) BY <1>2
    <2>2. "url" \in DOMAIN props BY DEF Ordered, PageKnown, OnPage, Base
    <2>3. Input([url |-> url]) BY <2>1 DEF GoTo, UserInput
    <2>4. DOMAIN [url |-> url] = {"url"} OBVIOUS
    <2>5. About({"url"}) BY <2>2, <2>3, <2>4, InputKeepsOrder
    <2>6. {"url"} \intersect DOMAIN BotsLayout = {} OBVIOUS
    <2> QED BY <1>1, <2>1, <2>5, <2>6 DEF GoTo
  <1>3. CASE RenderPage BY <1>3, BotsMountIsRight
  <1>4. CASE Charts /\ UNCHANGED botVars
    <2>1. PICK names : names = DOMAIN ChartsLayout OBVIOUS
    <2>2. names \intersect DOMAIN BotsLayout = {} BY <2>1
    <2> QED BY <1>1, <1>4, <2>1, <2>2, ChartsKeepOrder
  <1>5. CASE Profiles /\ UNCHANGED botVars
    <2>1. PICK names : names = {"hover_profile_store"} \union DOMAIN ProfilesLayout OBVIOUS
    <2>2. names \intersect DOMAIN BotsLayout = {} BY <2>1
    <2> QED BY <1>1, <1>5, <2>1, <2>2, ProfilesKeepOrder
  <1>6. CASE BacktestForm /\ UNCHANGED botVars
    <2>1. PICK names : names = DOMAIN BacktestLayout OBVIOUS
    <2>2. names \intersect DOMAIN BotsLayout = {} BY <2>1
    <2> QED BY <1>1, <1>6, <2>1, <2>2, BacktestKeepsOrder
  <1>7. CASE TradeViewer /\ UNCHANGED botVars
    <2>1. PICK names : names = DOMAIN TradeLayout OBVIOUS
    <2>2. names \intersect DOMAIN BotsLayout = {} BY <2>1
    <2> QED BY <1>1, <1>7, <2>1, <2>2, TradeKeepsOrder
  <1>8. CASE StrategyBrowser /\ UNCHANGED botVars
    <2>1. PICK names : names = DOMAIN BrowserLayout \union DOMAIN DetailLayout(None) OBVIOUS
    <2>2. names \intersect DOMAIN BotsLayout = {} BY <2>1
    <2> QED BY <1>1, <1>8, <2>1, <2>2, StrategiesKeepOrder
  <1>9. CASE (StrategiesOutside \/ UNCHANGED vars) /\ UNCHANGED botVars
    <2>1. UNCHANGED <<props, calls>>
      BY <1>9 DEF StrategiesOutside, PutFile, TakeFile, Changes, browser, vars
    <2>2. About({}) BY <2>1, UnchangedKeepsOrder
    <2> QED BY <1>1, <1>9, <2>2
  <1>10. CASE BotsOutside
    <2>1. UNCHANGED <<props, calls>> /\ chosen' = chosen
      BY <1>10 DEF BotsOutside, MoveBot, Trade, browser
    <2>2. About({}) BY <2>1, UnchangedKeepsOrder
    <2>3. Grow /\ CountsRight'
      <3>1. CASE trades' = trades BY <3>1, TradesStay DEF BotsRight
      <3>2. CASE \E i \in DOMAIN running : Trade(i) BY <3>2, TradeGrows DEF BotsRight
      <3> QED BY <1>10, <3>1, <3>2 DEF BotsOutside, MoveBot
    <2> QED BY <2>1, <2>2, <2>3, ElsewhereIsRight
  <1>11. CASE Overview BY <1>11, OverviewIsRight
  <1>12. UNCHANGED vars => UNCHANGED botVars BY DEF vars
  <1> QED
    BY <1>2, <1>3, <1>4, <1>5, <1>6, <1>7, <1>8, <1>9, <1>10, <1>11, <1>12 DEF Next

\* The page of the bots does not show at first.
LEMMA InitBotsRight == Init => BotsRight
  <1> SUFFICES ASSUME Init PROVE BotsRight OBVIOUS
  <1>1. DOMAIN props = Base BY DEF Init, Base
  <1>2. trades = NoStats /\ chosen = None BY DEF Init, BotsInit
  <1>3. DOMAIN NoStats = {} BY DEF NoStats
  <1>4. ~OnPage(DOMAIN BotsLayout) BY <1>1, BotsNames DEF OnPage, Base
  <1> QED BY <1>2, <1>3, <1>4 DEF BotsRight, CountsRight

\* Once the click is answered and the trades are shown, they are of the bot chosen.
LEMMA DetailIsRight == BotsRight => DetailIsOfChoice
  <1> SUFFICES ASSUME BotsRight, chosen # None, ~Pending("select_bot"), ~Pending("show_bot_detail")
               PROVE  DetailSays(props.bot_detail)
    BY DEF DetailIsOfChoice, DetailSays
  <1>1. Selected BY DEF BotsRight, AboutToSelect
  <1> QED BY <1>1 DEF Selected, Detailed

\* Whatever refreshes do to the table after a row is clicked, the trades shown are of its
\* bot, in the mode of the toggle (select_bot, show_bot_detail).
THEOREM DetailHolds == Spec => []DetailIsOfChoice
  <1>1. Init => Ordered /\ BotsRight BY InitOrdered, InitBotsRight
  <1>2. (Ordered /\ BotsRight) /\ [Next]_vars => (Ordered /\ BotsRight)'
    BY NextKeepsOrder, NextKeepsBotsRight
  <1> QED BY <1>1, <1>2, DetailIsRight, PTL DEF Spec
------------------------------------------------------------------------------
(* The page of the backtests.                                               *)

\* The callbacks of the page of the backtests, ...
LEMMA BacktestGraph ==
  /\ DOMAIN BacktestCallbacks = {"load_strategy_options", "load_symbol_options", "update_date_range",
                                 "on_strategy_select", "on_hash_filter", "on_run_click", "on_poll",
                                 "on_trade_chart_click", "build_inline_chart"}
  /\ DOMAIN BacktestCallbacks \subseteq Straight /\ "render_page" \notin DOMAIN BacktestCallbacks
  /\ \A c \in DOMAIN BacktestCallbacks : Graph[c] = BacktestCallbacks[c]
  BY GraphIs DEF Straight, BacktestCallbacks, ProfileCallbacks

\* ... what calls them, ...
LEMMA BacktestIns ==
  /\ Graph["load_strategy_options"].ins = {"strategies_refresh"}
  /\ Graph["load_symbol_options"].ins = {"exchange_dd"} /\ Graph["load_symbol_options"].first
  /\ Graph["update_date_range"].ins = {"symbol_dd"} /\ Graph["update_date_range"].first
  /\ Graph["on_strategy_select"].ins = {"strategy_dd"} /\ Graph["on_strategy_select"].first
  /\ Graph["on_hash_filter"].ins = {"hash_filter_dd"}
  /\ Graph["on_run_click"].ins = {"run_btn"}
  /\ Graph["on_poll"].ins = {"poll_interval"}
  /\ Graph["on_trade_chart_click"].ins = {"trade_chart_btn"}
  /\ Graph["build_inline_chart"].ins = {"chart_candles_store", "chart_trade_idx"}
  BY BacktestGraph DEF BacktestCallbacks, Callback

\* ... what they write, ...
LEMMA BacktestOuts ==
  /\ Outputs("load_strategy_options") = {"strategy_options"}
  /\ Outputs("load_symbol_options") = {"symbol_options", "symbol_dd", "symbol_data"}
  /\ Outputs("update_date_range") = {"date_range"}
  /\ Outputs("on_strategy_select") = {"code_view", "hash_options", "history_table"}
  /\ Outputs("on_hash_filter") = {"history_table"}
  /\ Outputs("on_run_click") = {"run_id_store", "poll_disabled"}
  /\ Outputs("on_poll") = {"trades_store", "trades_div", "poll_disabled", "history_table"}
  /\ Outputs("on_trade_chart_click") = {"chart_candles_store", "chart_trade_idx"}
  /\ Outputs("build_inline_chart") = {"inline_candlestick"}
  BY BacktestGraph DEF BacktestCallbacks, Callback, Outputs

\* ... and what they read.
LEMMA BacktestReads ==
  /\ Reads["update_date_range"] = {"symbol_dd", "symbol_data", "exchange_dd"}
  /\ Reads["on_strategy_select"] = {"strategy_dd"}
  /\ Reads["on_hash_filter"] = {"hash_filter_dd", "strategy_dd"}
  /\ Reads["on_run_click"] = {"run_btn", "strategy_dd", "exchange_dd", "symbol_dd", "date_range"}
  /\ Reads["on_poll"] = {"poll_interval", "run_id_store", "strategy_dd", "exchange_dd", "symbol_dd"}
  /\ Reads["on_trade_chart_click"] = {"trade_chart_btn", "exchange_dd", "symbol_dd", "trades_store"}
  /\ Reads["build_inline_chart"] = {"chart_candles_store", "chart_trade_idx", "trades_store"}
  BY PartsAre, BacktestGraph DEF Straight, BacktestCallbacks, Callback

\* They are all on that page.
LEMMA BacktestOn ==
  ASSUME OnPage(DOMAIN BacktestLayout), NEW c \in DOMAIN BacktestCallbacks
  PROVE  c \in DOMAIN Graph /\ c \in Straight /\ IsOn(c, props) /\ Outputs(c) \subseteq DOMAIN BacktestLayout
  <1>1. c \in DOMAIN Graph /\ c \in Straight BY BacktestGraph DEF Straight
  <1>2. Graph[c].ins \subseteq {"url"} \union DOMAIN BacktestLayout /\ Outputs(c) \subseteq DOMAIN BacktestLayout
    BY BacktestBelong DEF BelongTo
  <1> QED BY <1>1, <1>2, PartsAre DEF OnPage, IsOn, Base

\* No callback clicks a button, so the calls a click makes need not wait.
LEMMA ClicksDoNotWait ==
  Feeders["on_run_click"] = {} /\ Feeders["on_trade_chart_click"] = {}
  <1>1. ASSUME NEW d \in DOMAIN Graph
        PROVE  "run_btn" \notin Graph[d].outs /\ "trade_chart_btn" \notin Graph[d].outs
    <2> USE DEF Callback
    <2>2. CASE d = "render_page" BY <2>2, GraphIs
    <2>3. CASE d \in DOMAIN ChartCallbacks BY <2>3, GraphIs DEF ChartCallbacks, ChartStores
    <2>4. CASE d \in DOMAIN ProfileCallbacks BY <2>4, GraphIs DEF ProfileCallbacks
    <2>5. CASE d \in DOMAIN BotCallbacks BY <2>5, GraphIs DEF BotCallbacks
    <2>6. CASE d \in DOMAIN BacktestCallbacks BY <2>6, GraphIs DEF BacktestCallbacks
    <2>7. CASE d \in DOMAIN TradeCallbacks BY <2>7, GraphIs DEF TradeCallbacks
    <2>8. CASE d \in DOMAIN StrategyCallbacks BY <2>8, GraphIs DEF StrategyCallbacks
    <2> QED BY <2>2, <2>3, <2>4, <2>5, <2>6, <2>7, <2>8, GraphIs
  <1>2. "on_run_click" \in DOMAIN Graph /\ "on_trade_chart_click" \in DOMAIN Graph
    BY BacktestGraph DEF Straight
  <1> QED BY <1>1, <1>2, BacktestIns DEF Feeders

\* The call of c goes on, ...
Untouched(c) ==
  /\ c \in DOMAIN calls' <=> c \in DOMAIN calls
  /\ c \in DOMAIN calls' => Keeps(calls'[c], calls[c], c, props')

\* ... or c is called.
NewlyCalled(c) ==
  /\ c \in DOMAIN calls' /\ calls'[c].answer = None
  /\ calls'[c].with # Nothing => calls'[c].with = [x \in Reads[c] |-> props'[x]]
  /\ Feeders[c] = {} => calls'[c].with = [x \in Reads[c] |-> props'[x]]

\* A write calls what reads it, and lets the other calls go on.
LEMMA CallsTouched ==
  ASSUME NEW cs, NEW new, NEW chain, CallsBecome(cs, new, chain), Some(cs),
         NEW c \in DOMAIN Graph, IsOn(c, props), c \in DOMAIN calls => c \in DOMAIN cs
  PROVE  /\ Graph[c].ins \intersect DOMAIN new = {} => Untouched(c)
         /\ Graph[c].ins \intersect DOMAIN new # {} /\ c \notin chain => NewlyCalled(c)
  <1>1. ASSUME Graph[c].ins \intersect DOMAIN new = {} PROVE Untouched(c)
    <2>1. c \notin Anew(DOMAIN new, chain, props) BY <1>1 DEF Anew
    <2>2. c \in DOMAIN calls' <=> c \in DOMAIN cs BY <2>1 DEF CallsBecome
    <2>3. c \in DOMAIN cs => cs[c] = calls[c] /\ c \in DOMAIN calls BY DEF Some
    <2>4. c \in DOMAIN cs => Keeps(calls'[c], cs[c], c, props') BY <2>1 DEF CallsBecome
    <2> QED BY <2>2, <2>3, <2>4 DEF Untouched
  <1>2. ASSUME Graph[c].ins \intersect DOMAIN new # {}, c \notin chain PROVE NewlyCalled(c)
    <2>1. c \in Anew(DOMAIN new, chain, props) BY <1>2 DEF Anew
    <2>2. c \in DOMAIN calls' /\ Keeps(calls'[c], NewCall(chain), c, props')
      BY <2>1 DEF CallsBecome
    <2>3. Feeders[c] = {} => calls'[c].with = [x \in Reads[c] |-> props'[x]]
      BY <2>1 DEF CallsBecome
    <2> QED BY <2>2, <2>3, NewCallShape DEF Keeps, NewlyCalled
  <1> QED BY <1>1, <1>2

\* What a write of x by the user, or by a timer, does on the page.
LEMMA InputTouches ==
  ASSUME Ordered, OnPage(DOMAIN BacktestLayout), NEW x \in DOMAIN BacktestLayout, NEW new,
         DOMAIN new = {x}, Input(new)
  PROVE  /\ props'[x] = new[x] /\ \A y \in DOMAIN BacktestLayout \ {x} : props'[y] = props[y]
         /\ \A c \in DOMAIN BacktestCallbacks : IF x \in Graph[c].ins THEN NewlyCalled(c)
                                                ELSE Untouched(c)
  <1>1. x \in DOMAIN props /\ x # "strat_detail_name" BY BacktestNames DEF OnPage
  <1>2. Writes(new) /\ CallsBecome(calls, new, {}) BY <1>1, InputKeepsOrder
  <1>3. Some(calls) BY DEF Some
  <1>4. ASSUME NEW c \in DOMAIN BacktestCallbacks
        PROVE  IF x \in Graph[c].ins THEN NewlyCalled(c) ELSE Untouched(c)
    <2>1. c \in DOMAIN Graph /\ IsOn(c, props) BY BacktestOn
    <2> QED BY <1>2, <1>3, <2>1, CallsTouched
  <1>5. DOMAIN BacktestLayout \subseteq DOMAIN props BY DEF OnPage
  <1> QED BY <1>2, <1>4, <1>5 DEF Writes

\* What an answer does that is applied.
LEMMA AnswerTouches ==
  ASSUME Ordered, OnPage(DOMAIN BacktestLayout), NEW c \in DOMAIN BacktestCallbacks, c \in DOMAIN calls,
         NEW new, DOMAIN new \subseteq Outputs(c), Written(Others(c), new, calls[c].chain \union {c})
  PROVE  /\ \A y \in DOMAIN BacktestLayout : props'[y] = IF y \in DOMAIN new THEN new[y] ELSE props[y]
         /\ c \notin DOMAIN calls'
         /\ \A d \in DOMAIN BacktestCallbacks \ {c} :
              IF Graph[d].ins \intersect DOMAIN new = {} THEN Untouched(d) ELSE NewlyCalled(d)
  <1> PICK chain : chain = calls[c].chain \union {c} OBVIOUS
  <1>1. c # "render_page" /\ c \in Straight /\ c \in DOMAIN Graph BY BacktestGraph DEF Straight
  <1>2. Writes(new) /\ CallsBecome(Others(c), new, chain) BY <1>1, AnswerKeepsOrder
  <1>3. Some(Others(c)) /\ DOMAIN Others(c) = DOMAIN calls \ {c} BY OthersAre DEF Ordered
  <1>4. c \notin DOMAIN calls' BY <1>2, <1>3 DEF CallsBecome, Anew
  <1>5. ASSUME NEW d \in DOMAIN BacktestCallbacks \ {c}
        PROVE  IF Graph[d].ins \intersect DOMAIN new = {} THEN Untouched(d) ELSE NewlyCalled(d)
    <2>1. d \in DOMAIN Graph /\ d \in Straight /\ IsOn(d, props) BY BacktestOn
    <2>2. ASSUME Graph[d].ins \intersect DOMAIN new # {} PROVE d \notin chain
      <3>1. Rank(c) < Rank(d) BY <1>1, <2>1, <2>2, Downhill
      <3>2. \A e \in calls[c].chain : Rank(e) < Rank(c) BY <1>1 DEF Ordered, Chains
      <3> QED BY <3>1, <3>2, RankType
    <2> QED BY <1>2, <1>3, <2>1, <2>2, CallsTouched
  <1>6. DOMAIN BacktestLayout \subseteq DOMAIN props BY DEF OnPage
  <1>7. ASSUME NEW y \in DOMAIN BacktestLayout
        PROVE  props'[y] = IF y \in DOMAIN new THEN new[y] ELSE props[y]
    BY <1>2, <1>6 DEF Writes
  <1> QED BY <1>4, <1>5, <1>7

\* What an answer does that is given.
LEMMA ServeTouches ==
  ASSUME Ordered, NEW c \in DOMAIN calls, NEW answer, calls' = [calls EXCEPT ![c].answer = answer],
         calls[c].with # Nothing, answer # None => DOMAIN answer \subseteq Outputs(c), props' = props
  PROVE  /\ c \in DOMAIN calls' /\ calls'[c].with = calls[c].with /\ calls'[c].answer = answer
         /\ \A d : d # c => Untouched(d)
  <1>1. /\ DOMAIN calls' = DOMAIN calls
        /\ calls'[c].with = calls[c].with /\ calls'[c].answer = answer
    BY ServeKeepsOrder
  <1>2. \A d \in DOMAIN calls : d # c => calls'[d] = calls[d] BY DEF Ordered, Placed
  <1> QED BY <1>1, <1>2 DEF Untouched, Keeps

\* A step about other pages touches nothing of this one.
LEMMA AboutTouches ==
  ASSUME Ordered, OnPage(DOMAIN BacktestLayout), NEW names, About(names),
         names \intersect DOMAIN BacktestLayout = {}
  PROVE  /\ \A y \in DOMAIN BacktestLayout : props'[y] = props[y]
         /\ \A c \in DOMAIN BacktestCallbacks : Untouched(c)
  <1>1. \A y \in DOMAIN BacktestLayout : props'[y] = props[y] BY DEF About, OnPage
  <1>2. ASSUME NEW c \in DOMAIN BacktestCallbacks PROVE Untouched(c)
    <2>1. c \in DOMAIN Graph /\ c \in Straight /\ IsOn(c, props) /\ Outputs(c) \subseteq DOMAIN BacktestLayout
      BY BacktestOn
    <2>2. Outputs(c) # {} BY BacktestGraph, BacktestOuts
    <2>3. Graph[c].ins \subseteq DOMAIN BacktestLayout BY BacktestGraph, BacktestIns, BacktestNames
    <2>4. GoesOn(c) BY <2>1, <2>2, <2>3 DEF About
    <2>5. c \notin DOMAIN calls' => c \notin DOMAIN calls BY <2>1, <2>2, AboutOthers
    <2> QED BY <2>4, <2>5 DEF GoesOn, Untouched
  <1> QED BY <1>1, <1>2
------------------------------------------------------------------------------
\* The options are the symbols of the exchange, and the one chosen is among them.
OptionsAre(options, symbol, data, exchange) ==
  /\ \A i \in DOMAIN data : data[i] = Market(exchange, data[i].symbol)
  /\ options = {data[i].symbol : i \in DOMAIN data}
  /\ symbol = None \/ symbol \in options

\* The dates are those of the market.
DatesAre(dates, exchange, symbol) ==
  (symbol = None /\ dates = None) \/ dates = Market(exchange, symbol)

\* The form is, or will be, of the exchange and the symbol chosen.
FormRight ==
  LET load == calls["load_symbol_options"]
      fill == calls["update_date_range"]
  IN /\ props.exchange_dd \in DOMAIN Listed
     /\ Pending("load_symbol_options") /\ load.answer # None =>
          load.answer \in LoadSymbolOptions(load.with)
     /\ ~Pending("load_symbol_options") =>
          /\ OptionsAre(props.symbol_options, props.symbol_dd, props.symbol_data, props.exchange_dd)
          /\ Pending("update_date_range") /\ fill.with # Nothing =>
               fill.with.symbol_data = props.symbol_data /\ fill.with.exchange_dd = props.exchange_dd
          /\ ~Pending("update_date_range") =>
               DatesAre(props.date_range, props.exchange_dd, props.symbol_dd)

\* The runs asked for, and to be asked for, are of such a form.
RunsRight == ~hasty =>
  LET click == calls["on_run_click"]
  IN /\ \A i \in DOMAIN runs : runs[i].dates = runs[i].of
     /\ Pending("on_run_click") =>
          /\ click.with # Nothing
          /\ DatesAre(click.with.date_range, click.with.exchange_dd, click.with.symbol_dd)

\* What is known by the strategy it is of.
HistoryIs(history, strategy) == history = None \/ history.strategy = strategy

\* A call that reads, or will write, the history of the strategy chosen.
OfStrategy(c) ==
  Pending(c) => /\ calls[c].with # Nothing => calls[c].with.strategy_dd = props.strategy_dd
                /\ calls[c].answer # None /\ "history_table" \in DOMAIN calls[c].answer =>
                     HistoryIs(calls[c].answer.history_table, props.strategy_dd)

\* The history is, or will be, that of the strategy chosen.
HistoryRight == ~strayed =>
  /\ \A c \in {"on_strategy_select", "on_hash_filter", "on_poll"} : OfStrategy(c)
  /\ IF Pending("on_strategy_select")
     THEN calls["on_strategy_select"].answer # None =>
            "history_table" \in DOMAIN calls["on_strategy_select"].answer
     ELSE HistoryIs(props.history_table, props.strategy_dd)

\* The trades kept are those in the table, now and once the poll is answered.
TradesRight ==
  /\ props.trades_store = props.trades_div
  /\ Pending("on_poll") =>
       LET answer == calls["on_poll"].answer
       IN answer # None =>
            \/ "trades_store" \notin DOMAIN answer /\ "trades_div" \notin DOMAIN answer
            \/ /\ {"trades_store", "trades_div"} \subseteq DOMAIN answer
               /\ answer.trades_store = answer.trades_div

\* The trade of that number is the one pressed.
IsPressed(list, nr, trade) == nr \in DOMAIN list /\ list[nr] = trade

\* The trade the chart highlights is, or will be, the one pressed.
HighlightRight == ~strayed /\ pressed # None =>
  LET click == calls["on_trade_chart_click"]
      draw == calls["build_inline_chart"]
  IN /\ Pending("on_trade_chart_click") =>
          /\ click.with # Nothing /\ IsPressed(props.trades_store, click.with.trade_chart_btn, pressed)
          /\ click.with.trades_store = props.trades_store
          /\ click.answer # None =>
               \E place : click.answer = [chart_candles_store |-> place,
                                          chart_trade_idx |-> click.with.trade_chart_btn]
     /\ ~Pending("on_trade_chart_click") /\ Pending("build_inline_chart") =>
          /\ IsPressed(props.trades_store, props.chart_trade_idx, pressed)
          /\ draw.with # Nothing => /\ draw.with.chart_trade_idx = props.chart_trade_idx
                                    /\ draw.with.trades_store = props.trades_store
     /\ ~Charting => props.inline_candlestick = pressed

\* The runs are a sequence.
RunsListed == \E S : runs \in Seq(S)

BacktestRight ==
  OnPage(DOMAIN BacktestLayout) =>
    FormRight /\ RunsListed /\ RunsRight /\ HistoryRight /\ TradesRight /\ HighlightRight

\* The properties of ys are as they were.
Same(ys) == \A y \in ys : props'[y] = props[y]

\* What load_symbol_options may answer does not change with the state.
LEMMA SymbolsRemain ==
  LoadSymbolOptions(calls["load_symbol_options"].with)' =
    LoadSymbolOptions(calls'["load_symbol_options"].with)
  BY DEF LoadSymbolOptions

\* The answer of load_symbol_options stays one it may give.
LEMMA AnswerKept ==
  ASSUME Ordered, FormRight, Untouched("load_symbol_options"), "load_symbol_options" \in DOMAIN calls',
         calls'["load_symbol_options"].answer # None
  PROVE  calls'["load_symbol_options"].answer \in LoadSymbolOptions(calls'["load_symbol_options"].with)
  <1>1. /\ "load_symbol_options" \in DOMAIN calls
        /\ calls["load_symbol_options"].answer = calls'["load_symbol_options"].answer
    BY DEF Untouched, Keeps
  <1>2. calls["load_symbol_options"].with # Nothing BY <1>1 DEF Ordered, Placed
  <1>3. calls'["load_symbol_options"].with = calls["load_symbol_options"].with
    BY <1>2 DEF Untouched, Keeps
  <1>4. calls["load_symbol_options"].answer \in LoadSymbolOptions(calls["load_symbol_options"].with)
    BY <1>1 DEF FormRight, Pending
  <1> QED BY <1>1, <1>3, <1>4

\* A step that leaves the form alone.
LEMMA FormStays ==
  ASSUME Ordered, FormRight, Untouched("load_symbol_options"), Untouched("update_date_range"),
         Same({"exchange_dd", "symbol_dd", "symbol_options", "symbol_data", "date_range"})
  PROVE  FormRight'
  <1>1. /\ props'.exchange_dd = props.exchange_dd /\ props'.symbol_dd = props.symbol_dd
        /\ props'.symbol_options = props.symbol_options /\ props'.symbol_data = props.symbol_data
        /\ props'.date_range = props.date_range
    BY DEF Same
  <1>2. ASSUME "load_symbol_options" \in DOMAIN calls', calls'["load_symbol_options"].answer # None
        PROVE  calls'["load_symbol_options"].answer \in LoadSymbolOptions(calls'["load_symbol_options"].with)
    BY <1>2, AnswerKept
  <1>3. ASSUME "load_symbol_options" \notin DOMAIN calls', "update_date_range" \in DOMAIN calls',
               calls'["update_date_range"].with # Nothing
        PROVE  /\ calls'["update_date_range"].with.symbol_data = props'.symbol_data
               /\ calls'["update_date_range"].with.exchange_dd = props'.exchange_dd
    BY <1>1, <1>3, BacktestReads DEF FormRight, Untouched, Keeps, Pending
  <1> QED BY <1>1, <1>2, <1>3, SymbolsRemain DEF FormRight, Untouched, Pending

\* A step that leaves the runs alone.
LEMMA RunsStay ==
  ASSUME RunsRight, Untouched("on_run_click"), runs' = runs, hasty' = hasty
  PROVE  RunsRight'
  BY DEF RunsRight, Untouched, Keeps, Pending

\* A call of the strategy chosen goes on as one.
LEMMA OfStrategyStays ==
  ASSUME NEW c \in {"on_strategy_select", "on_hash_filter", "on_poll"}, OfStrategy(c), Untouched(c),
         props'.strategy_dd = props.strategy_dd
  PROVE  OfStrategy(c)'
  <1>1. "strategy_dd" \in Reads[c] BY BacktestReads
  <1> QED BY <1>1 DEF OfStrategy, Untouched, Keeps, Pending

\* A step that leaves the history alone.
LEMMA HistoryStays ==
  ASSUME HistoryRight, Untouched("on_strategy_select"), Untouched("on_hash_filter"),
         Untouched("on_poll"), Same({"strategy_dd", "history_table"}), strayed => strayed'
  PROVE  HistoryRight'
  <1> SUFFICES ASSUME ~strayed' PROVE HistoryRight' BY DEF HistoryRight
  <1>1. props'.strategy_dd = props.strategy_dd /\ props'.history_table = props.history_table
    BY DEF Same
  <1>2. OfStrategy("on_strategy_select")' BY <1>1, OfStrategyStays DEF HistoryRight
  <1>3. OfStrategy("on_hash_filter")' BY <1>1, OfStrategyStays DEF HistoryRight
  <1>4. OfStrategy("on_poll")' BY <1>1, OfStrategyStays DEF HistoryRight
  <1>5. IF Pending("on_strategy_select")'
        THEN calls'["on_strategy_select"].answer # None =>
               "history_table" \in DOMAIN calls'["on_strategy_select"].answer
        ELSE HistoryIs(props'.history_table, props'.strategy_dd)
    BY <1>1 DEF HistoryRight, Untouched, Keeps, Pending
  <1> QED BY <1>2, <1>3, <1>4, <1>5 DEF HistoryRight

\* A step that leaves the trades alone.
LEMMA BacktestTradesStay ==
  ASSUME TradesRight, Untouched("on_poll"), Same({"trades_store", "trades_div"})
  PROVE  TradesRight'
  <1>1. props'.trades_store = props.trades_store /\ props'.trades_div = props.trades_div BY DEF Same
  <1> QED BY <1>1 DEF TradesRight, Untouched, Keeps, Pending

\* A step that leaves the chart alone.
LEMMA HighlightStays ==
  ASSUME HighlightRight, Untouched("on_trade_chart_click"), Untouched("build_inline_chart"),
         Same({"trades_store", "chart_trade_idx", "inline_candlestick"}), strayed => strayed',
         pressed' = pressed
  PROVE  HighlightRight'
  <1> SUFFICES ASSUME ~strayed', pressed' # None PROVE HighlightRight' BY DEF HighlightRight
  <1>1. /\ props'.trades_store = props.trades_store /\ props'.chart_trade_idx = props.chart_trade_idx
        /\ props'.inline_candlestick = props.inline_candlestick
    BY DEF Same
  <1> DEFINE click == calls["on_trade_chart_click"]
  <1>3. ASSUME Pending("on_trade_chart_click")'
        PROVE  /\ click'.with # Nothing /\ click'.with = click.with /\ click'.answer = click.answer
               /\ Pending("on_trade_chart_click")
    BY <1>3 DEF HighlightRight, Untouched, Keeps, Pending
  <1>4. ASSUME ~Pending("on_trade_chart_click")', Pending("build_inline_chart")'
        PROVE  /\ IsPressed(props.trades_store, props.chart_trade_idx, pressed)
               /\ calls'["build_inline_chart"].with # Nothing =>
                    /\ calls'["build_inline_chart"].with.chart_trade_idx = props'.chart_trade_idx
                    /\ calls'["build_inline_chart"].with.trades_store = props'.trades_store
    BY <1>1, <1>4, BacktestReads DEF HighlightRight, Untouched, Keeps, Pending
  <1>5. Charting' <=> Charting BY DEF Charting, Untouched, Pending
  <1> QED BY <1>1, <1>3, <1>4, <1>5 DEF HighlightRight
------------------------------------------------------------------------------
\* The page, before a step on it, ...
BacktestHere ==
  /\ Ordered /\ OnPage(DOMAIN BacktestLayout)
  /\ FormRight /\ RunsListed /\ RunsRight /\ HistoryRight /\ TradesRight /\ HighlightRight

\* ... and after it.
BacktestNext ==
  FormRight' /\ RunsListed' /\ RunsRight' /\ HistoryRight' /\ TradesRight' /\ HighlightRight'

\* The step touches no other call than of cs and no other property than of xs.
Touches(cs, xs) ==
  Same(DOMAIN BacktestLayout \ xs) /\ \A c \in DOMAIN BacktestCallbacks \ cs : Untouched(c)

\* What the step touches nothing of stays right.
LEMMA KeptRight ==
  ASSUME BacktestHere, NEW cs, NEW xs, Touches(cs, xs), strayed => strayed'
  PROVE  /\ cs \intersect {"load_symbol_options", "update_date_range"} = {}
            /\ xs \intersect {"exchange_dd", "symbol_dd", "symbol_options", "symbol_data", "date_range"} = {}
              => FormRight'
         /\ runs' = runs => RunsListed'
         /\ "on_run_click" \notin cs /\ runs' = runs /\ hasty' = hasty => RunsRight'
         /\ cs \intersect {"on_strategy_select", "on_hash_filter", "on_poll"} = {}
            /\ xs \intersect {"strategy_dd", "history_table"} = {} => HistoryRight'
         /\ "on_poll" \notin cs /\ xs \intersect {"trades_store", "trades_div"} = {} => TradesRight'
         /\ cs \intersect {"on_trade_chart_click", "build_inline_chart"} = {} /\ pressed' = pressed
            /\ xs \intersect {"trades_store", "chart_trade_idx", "inline_candlestick"} = {}
              => HighlightRight'
  <1> USE DEF BacktestHere
  <1>1. ASSUME NEW ys, ys \subseteq DOMAIN BacktestLayout, xs \intersect ys = {} PROVE Same(ys)
    BY <1>1 DEF Touches, Same
  <1>2. \A c \in DOMAIN BacktestCallbacks : c \notin cs => Untouched(c) BY DEF Touches
  <1>3. ASSUME cs \intersect {"load_symbol_options", "update_date_range"} = {},
               xs \intersect {"exchange_dd", "symbol_dd", "symbol_options", "symbol_data", "date_range"} = {}
        PROVE  FormRight'
    <2>1. Same({"exchange_dd", "symbol_dd", "symbol_options", "symbol_data", "date_range"})
      BY <1>1, <1>3, BacktestNames
    <2>2. Untouched("load_symbol_options") /\ Untouched("update_date_range")
      BY <1>2, <1>3, BacktestGraph
    <2> QED BY <2>1, <2>2, FormStays
  <1>4. ASSUME "on_run_click" \notin cs, runs' = runs, hasty' = hasty PROVE RunsRight'
    BY <1>2, <1>4, BacktestGraph, RunsStay
  <1>5. ASSUME cs \intersect {"on_strategy_select", "on_hash_filter", "on_poll"} = {},
               xs \intersect {"strategy_dd", "history_table"} = {}
        PROVE  HistoryRight'
    <2>1. Same({"strategy_dd", "history_table"}) BY <1>1, <1>5, BacktestNames
    <2>2. Untouched("on_strategy_select") /\ Untouched("on_hash_filter") /\ Untouched("on_poll")
      BY <1>2, <1>5, BacktestGraph
    <2> QED BY <2>1, <2>2, HistoryStays
  <1>6. ASSUME "on_poll" \notin cs, xs \intersect {"trades_store", "trades_div"} = {} PROVE TradesRight'
    <2>1. Same({"trades_store", "trades_div"}) BY <1>1, <1>6, BacktestNames
    <2>2. Untouched("on_poll") BY <1>2, <1>6, BacktestGraph
    <2> QED BY <2>1, <2>2, BacktestTradesStay
  <1>7. ASSUME cs \intersect {"on_trade_chart_click", "build_inline_chart"} = {}, pressed' = pressed,
               xs \intersect {"trades_store", "chart_trade_idx", "inline_candlestick"} = {}
        PROVE  HighlightRight'
    <2>1. Same({"trades_store", "chart_trade_idx", "inline_candlestick"}) BY <1>1, <1>7, BacktestNames
    <2>2. Untouched("on_trade_chart_click") /\ Untouched("build_inline_chart")
      BY <1>2, <1>7, BacktestGraph
    <2> QED BY <1>7, <2>1, <2>2, HighlightStays
  <1>8. runs' = runs => RunsListed' BY DEF RunsListed
  <1> QED BY <1>3, <1>4, <1>5, <1>6, <1>7, <1>8

\* A choice touches what reads it.
LEMMA ChoiceTouches ==
  ASSUME BacktestHere, NEW x \in DOMAIN BacktestLayout, NEW new, DOMAIN new = {x}, Input(new),
         NEW c \in DOMAIN BacktestCallbacks, x \in Graph[c].ins,
         \A d \in DOMAIN BacktestCallbacks \ {c} : x \notin Graph[d].ins
  PROVE  props'[x] = new[x] /\ NewlyCalled(c) /\ Touches({c}, {x})
  BY InputTouches DEF BacktestHere, Touches, Same

\* The exchange: its symbols are asked for.
LEMMA ExchangeIsRight ==
  ASSUME BacktestHere, ChooseExchange
  PROVE  BacktestNext
  <1>1. PICK e \in DOMAIN Listed : Input([exchange_dd |-> e])
    BY DEF ChooseExchange, UserInput
  <1> DEFINE new == [exchange_dd |-> e]
  <1>0. DOMAIN new = {"exchange_dd"} /\ new["exchange_dd"] = e /\ Input(new) BY <1>1
  <1> HIDE DEF new
  <1>2. props'.exchange_dd = e /\ NewlyCalled("load_symbol_options")
        /\ Touches({"load_symbol_options"}, {"exchange_dd"})
    BY <1>0, ChoiceTouches, BacktestGraph, BacktestIns, BacktestNames
  <1>3. FormRight' BY <1>2 DEF FormRight, NewlyCalled, Pending
  <1>4. UNCHANGED <<runs, hasty, strayed, pressed>> BY DEF ChooseExchange, backtestVars
  <1> QED BY <1>2, <1>3, <1>4, KeptRight DEF BacktestNext

\* The symbol: its dates are asked for.
LEMMA SymbolIsRight ==
  ASSUME BacktestHere, ChooseSymbol
  PROVE  BacktestNext
  <1> USE DEF BacktestHere
  <1>1. PICK s \in props.symbol_options : Input([symbol_dd |-> s])
    BY DEF ChooseSymbol, UserInput
  <1> DEFINE new == [symbol_dd |-> s]
  <1>0. DOMAIN new = {"symbol_dd"} /\ new["symbol_dd"] = s /\ Input(new) BY <1>1
  <1> HIDE DEF new
  <1>2. props'.symbol_dd = s /\ NewlyCalled("update_date_range")
        /\ Touches({"update_date_range"}, {"symbol_dd"})
    BY <1>0, ChoiceTouches, BacktestGraph, BacktestIns, BacktestNames
  <1>3. /\ props'.exchange_dd = props.exchange_dd /\ props'.symbol_options = props.symbol_options
        /\ props'.symbol_data = props.symbol_data /\ Untouched("load_symbol_options")
    BY <1>2, BacktestGraph, BacktestNames DEF Touches, Same
  <1>4. FormRight'
    <2>1. ASSUME "load_symbol_options" \in DOMAIN calls', calls'["load_symbol_options"].answer # None
          PROVE  calls'["load_symbol_options"].answer \in LoadSymbolOptions(calls'["load_symbol_options"].with)
      BY <1>3, <2>1, AnswerKept
    <2>2. ASSUME "load_symbol_options" \notin DOMAIN calls'
          PROVE  /\ OptionsAre(props'.symbol_options, props'.symbol_dd, props'.symbol_data, props'.exchange_dd)
                 /\ calls'["update_date_range"].with # Nothing =>
                      /\ calls'["update_date_range"].with.symbol_data = props'.symbol_data
                      /\ calls'["update_date_range"].with.exchange_dd = props'.exchange_dd
      <3>1. OptionsAre(props.symbol_options, props.symbol_dd, props.symbol_data, props.exchange_dd)
        BY <1>3, <2>2 DEF FormRight, Untouched, Pending
      <3>2. OptionsAre(props'.symbol_options, props'.symbol_dd, props'.symbol_data, props'.exchange_dd)
        BY <1>2, <1>3, <3>1 DEF OptionsAre
      <3> QED BY <1>2, <3>2, BacktestReads DEF NewlyCalled
    <2>3. props'.exchange_dd \in DOMAIN Listed BY <1>3 DEF FormRight
    <2>4. "update_date_range" \in DOMAIN calls' BY <1>2 DEF NewlyCalled
    <2> QED BY <2>1, <2>2, <2>3, <2>4, SymbolsRemain DEF FormRight, Pending
  <1>5. UNCHANGED <<runs, hasty, strayed, pressed>> BY DEF ChooseSymbol, backtestVars
  <1> QED BY <1>2, <1>4, <1>5, KeptRight DEF BacktestNext

\* The strategies are listed again.
LEMMA StrategyListIsRight ==
  ASSUME BacktestHere, RefreshStrategies
  PROVE  BacktestNext
  <1> DEFINE new == [strategies_refresh |-> 1]
  <1>0. DOMAIN new = {"strategies_refresh"} /\ Input(new) BY DEF RefreshStrategies, UserInput
  <1> HIDE DEF new
  <1>2. Touches({"load_strategy_options"}, {"strategies_refresh"})
    BY <1>0, ChoiceTouches, BacktestGraph, BacktestIns, BacktestNames
  <1>3. UNCHANGED <<runs, hasty, strayed, pressed>> BY DEF RefreshStrategies, backtestVars
  <1> QED BY <1>2, <1>3, KeptRight DEF BacktestNext

\* The strategy: its history is asked for, and no other is under way.
LEMMA StrategyIsRight ==
  ASSUME BacktestHere, ChooseStrategy
  PROVE  BacktestNext
  <1>1. PICK s \in props.strategy_options : Input([strategy_dd |-> s])
    BY DEF ChooseStrategy, UserInput
  <1> DEFINE new == [strategy_dd |-> s]
  <1>0. DOMAIN new = {"strategy_dd"} /\ Input(new) BY <1>1
  <1> HIDE DEF new
  <1>2. NewlyCalled("on_strategy_select") /\ Touches({"on_strategy_select"}, {"strategy_dd"})
    BY <1>0, ChoiceTouches, BacktestGraph, BacktestIns, BacktestNames
  <1>3. HistoryRight'
    <2> SUFFICES ASSUME ~strayed' PROVE HistoryRight' BY DEF HistoryRight
    <2>1. "on_hash_filter" \notin DOMAIN calls /\ "on_poll" \notin DOMAIN calls
      <3>1. Writers("history_table") \ {"on_strategy_select"} = {} BY DEF ChooseStrategy
      <3>2. "history_table" \in Outputs("on_hash_filter") /\ "history_table" \in Outputs("on_poll")
        BY BacktestOuts
      <3> QED BY <3>1, <3>2 DEF Writers
    <2>2. "on_hash_filter" \notin DOMAIN calls' /\ "on_poll" \notin DOMAIN calls'
      BY <1>2, <2>1, BacktestGraph DEF Touches, Untouched
    <2>3. OfStrategy("on_strategy_select")'
      BY <1>2, BacktestReads DEF OfStrategy, NewlyCalled, Pending
    <2>4. OfStrategy("on_hash_filter")' /\ OfStrategy("on_poll")' BY <2>2 DEF OfStrategy, Pending
    <2> QED BY <1>2, <2>3, <2>4 DEF HistoryRight, NewlyCalled, Pending
  <1>4. UNCHANGED <<runs, hasty, pressed>> /\ (strayed => strayed') BY DEF ChooseStrategy
  <1> QED BY <1>2, <1>3, <1>4, KeptRight DEF BacktestNext

\* on_hash_filter and on_poll, when they are called, read the strategy chosen.
LEMMA CalledOfStrategy ==
  ASSUME BacktestHere, NEW c \in {"on_hash_filter", "on_poll"}, NEW xs, Touches({c}, xs),
         xs \intersect {"strategy_dd", "history_table"} = {}, NewlyCalled(c), strayed' = strayed
  PROVE  HistoryRight'
  <1> SUFFICES ASSUME ~strayed' PROVE HistoryRight' BY DEF HistoryRight
  <1> USE DEF BacktestHere
  <1>1. props'.strategy_dd = props.strategy_dd /\ props'.history_table = props.history_table
    BY BacktestNames DEF Touches, Same
  <1>2. ASSUME NEW d \in {"on_strategy_select", "on_hash_filter", "on_poll"} PROVE OfStrategy(d)'
    <2>1. CASE d = c
      <3>1. "strategy_dd" \in Reads[d] BY <2>1, BacktestReads
      <3> QED BY <2>1, <3>1 DEF OfStrategy, NewlyCalled, Pending
    <2>2. CASE d # c
      <3>1. Untouched(d) BY <2>2, BacktestGraph DEF Touches
      <3> QED BY <1>1, <3>1, OfStrategyStays DEF HistoryRight
    <2> QED BY <2>1, <2>2
  <1>3. Untouched("on_strategy_select") BY BacktestGraph DEF Touches
  <1>4. OfStrategy("on_strategy_select")' /\ OfStrategy("on_hash_filter")' /\ OfStrategy("on_poll")'
    BY <1>2
  <1> QED BY <1>1, <1>3, <1>4 DEF HistoryRight, Untouched, Keeps, Pending

\* The version: its history is asked for.
LEMMA HashIsRight ==
  ASSUME BacktestHere, ChooseHash
  PROVE  BacktestNext
  <1>1. PICK h : Input([hash_filter_dd |-> h]) BY DEF ChooseHash, UserInput
  <1> DEFINE new == [hash_filter_dd |-> h]
  <1>0. DOMAIN new = {"hash_filter_dd"} /\ Input(new) BY <1>1
  <1> HIDE DEF new
  <1>2. NewlyCalled("on_hash_filter") /\ Touches({"on_hash_filter"}, {"hash_filter_dd"})
    BY <1>0, ChoiceTouches, BacktestGraph, BacktestIns, BacktestNames
  <1>3. UNCHANGED <<runs, hasty, strayed, pressed>> BY DEF ChooseHash, backtestVars
  <1>4. HistoryRight' BY <1>2, <1>3, CalledOfStrategy
  <1> QED BY <1>2, <1>3, <1>4, KeptRight DEF BacktestNext

\* A run is asked for with the form as it is.
LEMMA RunIsRight ==
  ASSUME BacktestHere, ClickRun
  PROVE  BacktestNext
  <1> USE DEF BacktestHere
  <1> DEFINE new == [run_btn |-> 1]
  <1>0. DOMAIN new = {"run_btn"} /\ Input(new) BY DEF ClickRun, UserInput
  <1> HIDE DEF new
  <1>2. NewlyCalled("on_run_click") /\ Touches({"on_run_click"}, {"run_btn"})
    BY <1>0, ChoiceTouches, BacktestGraph, BacktestIns, BacktestNames
  <1>3. UNCHANGED <<runs, strayed, pressed>> /\ hasty' = (hasty \/ FillingIn) BY DEF ClickRun
  <1>4. RunsRight'
    <2> SUFFICES ASSUME ~hasty' PROVE RunsRight' BY DEF RunsRight
    <2>1. DatesAre(props.date_range, props.exchange_dd, props.symbol_dd)
      BY <1>3 DEF FormRight, FillingIn
    <2>2. /\ props'.date_range = props.date_range /\ props'.exchange_dd = props.exchange_dd
          /\ props'.symbol_dd = props.symbol_dd
      BY <1>2, BacktestNames DEF Touches, Same
    <2>3. /\ "on_run_click" \in DOMAIN calls'
          /\ calls'["on_run_click"].with = [x \in Reads["on_run_click"] |-> props'[x]]
      BY <1>2, ClicksDoNotWait DEF NewlyCalled
    <2>4. PICK w : w = calls'["on_run_click"].with OBVIOUS
    <2>5. w # Nothing /\ DatesAre(w.date_range, w.exchange_dd, w.symbol_dd)
      BY <2>1, <2>2, <2>3, <2>4, BacktestReads DEF Nothing
    <2>6. \A i \in DOMAIN runs' : runs'[i].dates = runs'[i].of BY <1>3 DEF RunsRight
    <2> QED BY <2>4, <2>5, <2>6 DEF RunsRight
  <1> QED BY <1>2, <1>3, <1>4, KeptRight DEF BacktestNext

\* The poll.
LEMMA PollIsRight ==
  ASSUME BacktestHere, PollTick
  PROVE  BacktestNext
  <1> DEFINE new == [poll_interval |-> 0]
  <1>0. DOMAIN new = {"poll_interval"} /\ Input(new) BY DEF PollTick
  <1> HIDE DEF new
  <1>2. NewlyCalled("on_poll") /\ Touches({"on_poll"}, {"poll_interval"})
    BY <1>0, ChoiceTouches, BacktestGraph, BacktestIns, BacktestNames
  <1>3. UNCHANGED <<runs, hasty, strayed, pressed>> BY DEF PollTick, backtestVars
  <1>4. HistoryRight' BY <1>2, <1>3, CalledOfStrategy
  <1>5. TradesRight'
    <2>1. props'.trades_store = props.trades_store /\ props'.trades_div = props.trades_div
      BY <1>2, BacktestNames DEF Touches, Same
    <2>2. calls'["on_poll"].answer = None BY <1>2 DEF NewlyCalled
    <2> QED BY <2>1, <2>2 DEF BacktestHere, TradesRight
  <1> QED BY <1>2, <1>3, <1>4, <1>5, KeptRight DEF BacktestNext

\* The button of a trade is read with the trades it is of.
LEMMA PressIsRight ==
  ASSUME BacktestHere, ClickTrade
  PROVE  BacktestNext
  <1> USE DEF BacktestHere
  <1>1. PICK i \in DOMAIN props.trades_div :
          Input([trade_chart_btn |-> i]) /\ pressed' = props.trades_div[i]
    BY DEF ClickTrade, UserInput
  <1> DEFINE new == [trade_chart_btn |-> i]
  <1>0. DOMAIN new = {"trade_chart_btn"} /\ new["trade_chart_btn"] = i /\ Input(new) BY <1>1
  <1> HIDE DEF new
  <1>2. props'.trade_chart_btn = i /\ NewlyCalled("on_trade_chart_click")
        /\ Touches({"on_trade_chart_click"}, {"trade_chart_btn"})
    BY <1>0, ChoiceTouches, BacktestGraph, BacktestIns, BacktestNames
  <1>3. UNCHANGED <<runs, hasty, strayed>> BY DEF ClickTrade
  <1>4. HighlightRight'
    <2>1. props'.trades_store = props.trades_store BY <1>2, BacktestNames DEF Touches, Same
    <2>2. IsPressed(props'.trades_store, i, pressed')
      BY <1>1, <2>1 DEF IsPressed, TradesRight
    <2>3. /\ "on_trade_chart_click" \in DOMAIN calls' /\ calls'["on_trade_chart_click"].answer = None
          /\ calls'["on_trade_chart_click"].with =
               [x \in Reads["on_trade_chart_click"] |-> props'[x]]
      BY <1>2, ClicksDoNotWait DEF NewlyCalled
    <2>4. PICK w : w = calls'["on_trade_chart_click"].with OBVIOUS
    <2>5. w # Nothing /\ w.trade_chart_btn = i /\ w.trades_store = props'.trades_store
      BY <1>2, <2>3, <2>4, BacktestReads DEF Nothing
    <2> QED BY <2>2, <2>3, <2>4, <2>5 DEF HighlightRight, Pending, Charting
  <1> QED BY <1>2, <1>3, <1>4, KeptRight DEF BacktestNext
------------------------------------------------------------------------------
\* An answer is given to the call of c.
AnsweredOf(c, answers) ==
  /\ c \in DOMAIN calls /\ c \in DOMAIN calls' /\ calls[c].with # Nothing
  /\ calls'[c].with = calls[c].with /\ calls'[c].answer \in answers
  /\ Touches({c}, {}) /\ props' = props

\* An answer of c writes new.
Applied(c, new) ==
  /\ \A y \in DOMAIN BacktestLayout : props'[y] = IF y \in DOMAIN new THEN new[y] ELSE props[y]
  /\ c \notin DOMAIN calls'
  /\ \A d \in DOMAIN BacktestCallbacks \ {c} :
       IF Graph[d].ins \intersect DOMAIN new = {} THEN Untouched(d) ELSE NewlyCalled(d)

\* A handler answers.
LEMMA ServedIs ==
  ASSUME BacktestHere, NEW c \in DOMAIN BacktestCallbacks, NEW answers,
         \A answer \in answers : DOMAIN answer \subseteq Outputs(c), Served(c), props' = props,
         \E answer \in answers : calls' = [calls EXCEPT ![c].answer = answer]
  PROVE  AnsweredOf(c, answers)
  <1>1. PICK answer \in answers : calls' = [calls EXCEPT ![c].answer = answer] OBVIOUS
  <1>2. c \in DOMAIN calls /\ calls[c].with # Nothing BY DEF Served, Pending
  <1>3. DOMAIN answer \subseteq Outputs(c) BY <1>1
  <1>4. /\ c \in DOMAIN calls' /\ calls'[c].with = calls[c].with /\ calls'[c].answer = answer
        /\ \A d : d # c => Untouched(d)
    BY <1>1, <1>2, <1>3, ServeTouches DEF BacktestHere
  <1>5. Touches({c}, {}) BY <1>4 DEF Touches, Same
  <1> QED BY <1>1, <1>2, <1>4, <1>5 DEF AnsweredOf

\* An answer is applied.
LEMMA AppliedIs ==
  ASSUME BacktestHere, NEW c \in DOMAIN BacktestCallbacks, Apply(c)
  PROVE  c \in DOMAIN calls /\ calls[c].answer # None /\ calls[c].with # Nothing
         /\ DOMAIN calls[c].answer \subseteq Outputs(c) /\ Applied(c, calls[c].answer)
  <1>1. c \in DOMAIN calls /\ calls[c].answer # None BY DEF Apply, Pending
  <1>2. calls[c].with # Nothing /\ DOMAIN calls[c].answer \subseteq Outputs(c)
    BY <1>1 DEF BacktestHere, Ordered, Placed
  <1>3. PICK new : new = calls[c].answer OBVIOUS
  <1>4. Written(Others(c), new, calls[c].chain \union {c}) BY <1>3 DEF Apply
  <1>5. DOMAIN new \subseteq Outputs(c) BY <1>2, <1>3
  <1>6. Applied(c, new)
    <2>1. /\ \A y \in DOMAIN BacktestLayout : props'[y] = IF y \in DOMAIN new THEN new[y] ELSE props[y]
          /\ c \notin DOMAIN calls'
          /\ \A d \in DOMAIN BacktestCallbacks \ {c} :
               IF Graph[d].ins \intersect DOMAIN new = {} THEN Untouched(d) ELSE NewlyCalled(d)
      BY <1>1, <1>4, <1>5, AnswerTouches DEF BacktestHere
    <2> QED BY <2>1 DEF Applied
  <1>7. Applied(c, calls[c].answer) BY <1>3, <1>6
  <1> QED BY <1>1, <1>2, <1>7

\* A handler answers and its answer is applied.
LEMMA RepliedIs ==
  ASSUME BacktestHere, NEW c \in DOMAIN BacktestCallbacks, Served(c), NEW new,
         DOMAIN new \subseteq Outputs(c), Written(Others(c), new, calls[c].chain \union {c})
  PROVE  c \in DOMAIN calls /\ calls[c].with # Nothing /\ Applied(c, new)
  <1>1. c \in DOMAIN calls /\ calls[c].with # Nothing BY DEF Served, Pending
  <1> QED BY <1>1, AnswerTouches DEF BacktestHere, Applied

\* What an answer touches.
LEMMA AppliedTouches ==
  ASSUME NEW c, NEW new, Applied(c, new), NEW xs, DOMAIN new \subseteq xs, NEW cs, c \in cs,
         \A d \in DOMAIN BacktestCallbacks \ cs : Graph[d].ins \intersect xs = {}
  PROVE  Touches(cs, xs)
  BY DEF Applied, Touches, Same

\* The list of strategies is of no part.
LEMMA StrategiesAnswered ==
  ASSUME BacktestHere, Asked("load_strategy_options", LoadStrategyOptions)
  PROVE  BacktestNext
  <1>1. UNCHANGED <<runs, hasty, strayed, pressed>> BY DEF Asked, backtestVars
  <1>2. CASE Serve("load_strategy_options", LoadStrategyOptions)
    <2> DEFINE answers == LoadStrategyOptions(calls["load_strategy_options"].with)
    <2>1. \A answer \in answers : DOMAIN answer \subseteq Outputs("load_strategy_options")
      <3> TAKE answer \in answers
      <3>1. \E found : answer = [strategy_options |-> found] BY Zenon DEF LoadStrategyOptions
      <3>2. DOMAIN answer = {"strategy_options"} BY <3>1
      <3> QED BY <3>2, BacktestOuts
    <2> HIDE DEF answers
    <2>2. AnsweredOf("load_strategy_options", answers)
      BY <1>2, <2>1, ServedIs, BacktestGraph DEF Serve, answers
    <2>3. Touches({"load_strategy_options"}, {}) BY <2>2 DEF AnsweredOf
    <2> QED BY <1>1, <2>3, KeptRight DEF BacktestNext
  <1>3. CASE Apply("load_strategy_options")
    <2>1. PICK new : new = calls["load_strategy_options"].answer OBVIOUS
    <2>2. DOMAIN new \subseteq {"strategy_options"} /\ Applied("load_strategy_options", new)
      BY <1>3, <2>1, AppliedIs, BacktestGraph, BacktestOuts
    <2>3. Touches({"load_strategy_options"}, {"strategy_options"})
      BY <2>2, AppliedTouches, BacktestGraph, BacktestIns
    <2> QED BY <1>1, <2>3, KeptRight DEF BacktestNext
  <1> QED BY <1>2, <1>3 DEF Asked

\* load_symbol_options asks for the symbols of the exchange ...
LEMMA SymbolsServed ==
  ASSUME BacktestHere, Serve("load_symbol_options", LoadSymbolOptions), UNCHANGED backtestVars
  PROVE  BacktestNext
  <1>1. UNCHANGED <<runs, hasty, strayed, pressed>> BY DEF backtestVars
  <1> PICK w : w = calls["load_symbol_options"].with OBVIOUS
  <1> DEFINE answers == LoadSymbolOptions(w)
  <1>2. \A answer \in answers : DOMAIN answer \subseteq Outputs("load_symbol_options")
    <2> SUFFICES ASSUME NEW answer \in LoadSymbolOptions(w)
                 PROVE  DOMAIN answer = {"symbol_options", "symbol_dd", "symbol_data"}
      BY BacktestOuts
    <2>1. \E a, b, d : answer = [symbol_options |-> a, symbol_dd |-> b, symbol_data |-> d]
      BY ZenonT(30) DEF LoadSymbolOptions
    <2> QED BY <2>1
  <1> HIDE DEF answers
  <1>3. AnsweredOf("load_symbol_options", answers)
    BY <1>2, ServedIs, BacktestGraph DEF Serve, answers
  <1>4. FormRight'
    <2>1. /\ "load_symbol_options" \in DOMAIN calls' /\ props' = props
          /\ calls'["load_symbol_options"].with = w /\ calls'["load_symbol_options"].answer \in answers
      BY <1>3 DEF AnsweredOf
    <2>2. calls'["load_symbol_options"].answer \in LoadSymbolOptions(calls'["load_symbol_options"].with)
      BY <2>1 DEF answers
    <2> QED BY <2>1, <2>2, SymbolsRemain DEF FormRight, Pending, BacktestHere
  <1>5. Touches({"load_symbol_options"}, {}) BY <1>3 DEF AnsweredOf
  <1> QED BY <1>1, <1>4, <1>5, KeptRight DEF BacktestNext

\* What it may answer.
LEMMA SymbolsAnswer ==
  ASSUME NEW e \in DOMAIN Listed, NEW w, w.exchange_dd = e, NEW answer \in LoadSymbolOptions(w)
  PROVE  OptionsAre(answer.symbol_options, answer.symbol_dd, answer.symbol_data, e)
         /\ DOMAIN answer = {"symbol_options", "symbol_dd", "symbol_data"}
  <1> DEFINE listed == [i \in DOMAIN Listed[e] |-> Market(e, Listed[e][i])]
  <1>1. PICK found \in {listed, <<>>} :
          answer = [symbol_options |-> {found[i].symbol : i \in DOMAIN found},
                    symbol_dd |-> IF found = <<>> THEN None ELSE found[1].symbol, symbol_data |-> found]
    BY DEF LoadSymbolOptions
  <1>2. \A i \in DOMAIN found : found[i] = Market(e, found[i].symbol)
    BY DEF Market
  <1>3. found # <<>> => 1 \in DOMAIN found
    <2> SUFFICES ASSUME found # <<>> PROVE 1 \in DOMAIN found OBVIOUS
    <2>1. found = listed /\ DOMAIN found = DOMAIN Listed[e] OBVIOUS
    <2>2. Listed[e] \in Seq({Listed[e][i] : i \in DOMAIN Listed[e]}) BY BacktestPageAssumption
    <2>3. PICK n \in Nat : DOMAIN Listed[e] = 1..n BY <2>2
    <2>4. n # 0
      <3> SUFFICES ASSUME n = 0 PROVE FALSE OBVIOUS
      <3>1. DOMAIN found = {} BY <2>1, <2>3
      <3>2. found = [i \in {} |-> Market(e, Listed[e][i])] BY <2>1, <2>3, <3>1
      <3> QED BY <3>2
    <2> QED BY <2>1, <2>3, <2>4
  <1>4. PICK options : options = {found[i].symbol : i \in DOMAIN found} OBVIOUS
  <1>5. PICK symbol : symbol = IF found = <<>> THEN None ELSE found[1].symbol OBVIOUS
  <1>6. symbol = None \/ symbol \in options BY <1>3, <1>4, <1>5
  <1>7. answer = [symbol_options |-> options, symbol_dd |-> symbol, symbol_data |-> found]
    BY <1>1, <1>4, <1>5
  <1>8. OptionsAre(options, symbol, found, e) BY <1>2, <1>4, <1>6 DEF OptionsAre
  <1> QED BY <1>7, <1>8

\* ... and fills them in.
LEMMA SymbolsApplied ==
  ASSUME BacktestHere, Apply("load_symbol_options"), UNCHANGED backtestVars
  PROVE  BacktestNext
  <1> USE DEF BacktestHere
  <1>1. UNCHANGED <<runs, hasty, strayed, pressed>> BY DEF backtestVars
  <1>2. PICK new, w : new = calls["load_symbol_options"].answer /\ w = calls["load_symbol_options"].with
    OBVIOUS
  <1>3. /\ "load_symbol_options" \in DOMAIN calls /\ new # None /\ w # Nothing
        /\ DOMAIN new \subseteq {"symbol_options", "symbol_dd", "symbol_data"}
        /\ Applied("load_symbol_options", new)
    BY <1>2, AppliedIs, BacktestGraph, BacktestOuts
  <1>4. w.exchange_dd = props.exchange_dd
    BY <1>2, <1>3, BacktestIns, BacktestGraph DEF Ordered, Fresh
  <1>5. props.exchange_dd \in DOMAIN Listed /\ new \in LoadSymbolOptions(w)
    BY <1>2, <1>3 DEF FormRight, Pending
  <1>6. /\ OptionsAre(new.symbol_options, new.symbol_dd, new.symbol_data, props.exchange_dd)
        /\ DOMAIN new = {"symbol_options", "symbol_dd", "symbol_data"}
    BY <1>4, <1>5, SymbolsAnswer
  <1>7. /\ props'.symbol_options = new.symbol_options /\ props'.symbol_dd = new.symbol_dd
        /\ props'.symbol_data = new.symbol_data /\ props'.exchange_dd = props.exchange_dd
    BY <1>3, <1>6, BacktestNames DEF Applied
  <1>8. NewlyCalled("update_date_range") BY <1>3, <1>6, BacktestGraph, BacktestIns DEF Applied
  <1>9. FormRight'
    BY <1>3, <1>5, <1>6, <1>7, <1>8, BacktestReads DEF FormRight, NewlyCalled, Pending, Applied
  <1>10. Touches({"load_symbol_options", "update_date_range"}, {"symbol_options", "symbol_dd", "symbol_data"})
    BY <1>3, AppliedTouches, BacktestGraph, BacktestIns
  <1> QED BY <1>1, <1>9, <1>10, KeptRight DEF BacktestNext

\* Of the rows with the symbol and the exchange chosen, any one is the market.
LEMMA DatesFound ==
  ASSUME NEW w, NEW options, OptionsAre(options, w.symbol_dd, w.symbol_data, w.exchange_dd)
  PROVE  /\ DOMAIN UpdateDateRange(w) = {"date_range"}
         /\ DatesAre(UpdateDateRange(w).date_range, w.exchange_dd, w.symbol_dd)
  <1> PICK data, e, s : data = w.symbol_data /\ e = w.exchange_dd /\ s = w.symbol_dd OBVIOUS
  <1>0. OptionsAre(options, s, data, e) OBVIOUS
  <1> DEFINE places == {j \in DOMAIN data : data[j].symbol = s /\ data[j].exchange = e}
  <1> DEFINE found == {data[i] : i \in places}
  <1>1. UpdateDateRange(w) = [date_range |-> IF found = {} THEN None ELSE CHOOSE m \in found : TRUE]
    BY DEF UpdateDateRange
  <1>2. \A m \in found : m = Market(e, s) BY <1>0 DEF OptionsAre
  <1>3. ASSUME found = {} PROVE s = None
    <2> SUFFICES ASSUME s \in options PROVE FALSE BY <1>0 DEF OptionsAre
    <2>1. PICK i \in DOMAIN data : s = data[i].symbol BY <1>0 DEF OptionsAre
    <2>2. data[i] = Market(e, s) BY <1>0, <2>1 DEF OptionsAre
    <2>3. data[i].exchange = e BY <2>2 DEF Market
    <2>4. i \in places BY <2>1, <2>3
    <2> QED BY <1>3, <2>4
  <1>4. PICK dates : dates = IF found = {} THEN None ELSE CHOOSE m \in found : TRUE OBVIOUS
  <1>5. found # {} => dates = Market(e, s) BY <1>2, <1>4
  <1> HIDE DEF found
  <1>6. DatesAre(dates, e, s) BY <1>3, <1>4, <1>5 DEF DatesAre
  <1> QED BY <1>1, <1>4, <1>6

\* The dates are looked up.
LEMMA DatesReplied ==
  ASSUME BacktestHere, Reply("update_date_range", UpdateDateRange), UNCHANGED backtestVars
  PROVE  BacktestNext
  <1> USE DEF BacktestHere
  <1>1. UNCHANGED <<runs, hasty, strayed, pressed>> BY DEF backtestVars
  <1> PICK w : w = calls["update_date_range"].with OBVIOUS
  <1> PICK new : new = UpdateDateRange(w) OBVIOUS
  <1>2. DOMAIN new = {"date_range"} BY DEF UpdateDateRange
  <1>3. /\ Served("update_date_range")
        /\ Written(Others("update_date_range"), new, calls["update_date_range"].chain \union {"update_date_range"})
    BY DEF Reply
  <1>4. /\ "update_date_range" \in DOMAIN calls /\ w # Nothing /\ Applied("update_date_range", new)
    BY <1>2, <1>3, RepliedIs, BacktestGraph, BacktestOuts
  <1>5. Touches({"update_date_range"}, {"date_range"})
    BY <1>2, <1>4, AppliedTouches, BacktestGraph, BacktestIns
  <1>6. FormRight'
    <2>1. /\ props'.exchange_dd = props.exchange_dd /\ props'.symbol_options = props.symbol_options
          /\ props'.symbol_data = props.symbol_data /\ props'.symbol_dd = props.symbol_dd
          /\ Untouched("load_symbol_options") /\ "update_date_range" \notin DOMAIN calls'
      BY <1>4, <1>5, BacktestGraph, BacktestNames DEF Touches, Same, Applied
    <2>2. props'.date_range = new.date_range BY <1>2, <1>4, BacktestNames DEF Applied
    <2>3. ASSUME "load_symbol_options" \in DOMAIN calls', calls'["load_symbol_options"].answer # None
          PROVE  calls'["load_symbol_options"].answer \in LoadSymbolOptions(calls'["load_symbol_options"].with)
      BY <2>1, <2>3, AnswerKept
    <2>4. ASSUME "load_symbol_options" \notin DOMAIN calls'
          PROVE  /\ OptionsAre(props'.symbol_options, props'.symbol_dd, props'.symbol_data, props'.exchange_dd)
                 /\ DatesAre(props'.date_range, props'.exchange_dd, props'.symbol_dd)
      <3>1. /\ OptionsAre(props.symbol_options, props.symbol_dd, props.symbol_data, props.exchange_dd)
            /\ w.symbol_data = props.symbol_data /\ w.exchange_dd = props.exchange_dd
        BY <1>4, <2>1, <2>4 DEF FormRight, Untouched, Pending
      <3>2. w.symbol_dd = props.symbol_dd
        BY <1>4, BacktestIns, BacktestGraph DEF Ordered, Fresh
      <3>3. OptionsAre(props.symbol_options, w.symbol_dd, w.symbol_data, w.exchange_dd)
        BY <3>1, <3>2
      <3>4. DatesAre(new.date_range, w.exchange_dd, w.symbol_dd) BY <3>3, DatesFound
      <3> QED BY <2>1, <2>2, <3>1, <3>2, <3>4
    <2>5. props'.exchange_dd \in DOMAIN Listed BY <2>1 DEF FormRight
    <2> QED BY <2>1, <2>3, <2>4, <2>5, SymbolsRemain DEF FormRight, Pending
  <1> QED BY <1>1, <1>5, <1>6, KeptRight DEF BacktestNext
------------------------------------------------------------------------------
\* What on_run_click may do: the run it asks for is of the market and the dates
\* it read, and it asks for none without dates.
LEMMA RunOutcomes ==
  ASSUME NEW w, NEW outcome \in RunClick(w)
  PROVE  /\ DOMAIN outcome[1] \subseteq {"run_id_store", "poll_disabled"}
         /\ \/ outcome[2] = runs
            \/ /\ w.date_range # None
               /\ outcome[2] = Append(runs, [of |-> Market(w.exchange_dd, w.symbol_dd), dates |-> w.date_range])
  <1> DEFINE asked == [of |-> Market(w.exchange_dd, w.symbol_dd), dates |-> w.date_range]
             fails == [run_id_store |-> None, poll_disabled |-> TRUE]
             starts == [run_id_store |-> Len(runs) + 1, poll_disabled |-> FALSE]
  <1>1. \/ outcome = <<[poll_disabled |-> TRUE], runs>>
        \/ w.date_range # None /\ outcome \in {<<starts, Append(runs, asked)>>, <<fails, runs>>,
                                              <<fails, Append(runs, asked)>>}
    BY Zenon DEF RunClick
  <1>2. CASE outcome = <<[poll_disabled |-> TRUE], runs>> BY <1>2
  <1>3. CASE w.date_range # None /\ outcome = <<starts, Append(runs, asked)>> BY <1>3
  <1>4. CASE outcome = <<fails, runs>> BY <1>4
  <1>5. CASE w.date_range # None /\ outcome = <<fails, Append(runs, asked)>> BY <1>5
  <1> QED BY <1>1, <1>2, <1>3, <1>4, <1>5

\* A run accepted is of the form it was asked for with.
LEMMA RunAskedIsRight ==
  ASSUME BacktestHere, RunAsked
  PROVE  BacktestNext
  <1> USE DEF BacktestHere
  <1> PICK w : w = calls["on_run_click"].with OBVIOUS
  <1>1. PICK outcome \in RunClick(w) :
          /\ Served("on_run_click") /\ calls' = [calls EXCEPT !["on_run_click"].answer = outcome[1]]
          /\ props' = props /\ runs' = outcome[2]
    BY DEF RunAsked, Serve
  <1>2. UNCHANGED <<hasty, strayed, pressed>> BY DEF RunAsked
  <1> PICK asked : asked = [of |-> Market(w.exchange_dd, w.symbol_dd), dates |-> w.date_range] OBVIOUS
  <1>3. /\ DOMAIN outcome[1] \subseteq Outputs("on_run_click")
        /\ runs' = runs \/ (w.date_range # None /\ runs' = Append(runs, asked))
    BY <1>1, RunOutcomes, BacktestOuts
  <1>4. AnsweredOf("on_run_click", {outcome[1]}) BY <1>1, <1>3, ServedIs, BacktestGraph
  <1>5. Touches({"on_run_click"}, {}) BY <1>4 DEF AnsweredOf
  <1>6. PICK S : runs \in Seq(S) BY DEF RunsListed
  <1>7. runs' \in Seq(S \union {asked}) BY <1>3, <1>6
  <1>8. RunsRight'
    <2> SUFFICES ASSUME ~hasty PROVE RunsRight' BY <1>2 DEF RunsRight
    <2>1. w # Nothing /\ calls'["on_run_click"].with = w /\ "on_run_click" \in DOMAIN calls
          /\ "on_run_click" \in DOMAIN calls'
      BY <1>4 DEF AnsweredOf
    <2>2. DatesAre(w.date_range, w.exchange_dd, w.symbol_dd)
          /\ \A i \in DOMAIN runs : runs[i].dates = runs[i].of
      BY <2>1 DEF RunsRight, Pending
    <2>3. ASSUME w.date_range # None PROVE asked.dates = asked.of BY <2>2, <2>3 DEF DatesAre
    <2>4. \A i \in DOMAIN runs' : runs'[i].dates = runs'[i].of BY <1>3, <1>6, <2>2, <2>3
    <2> QED BY <2>1, <2>2, <2>4 DEF RunsRight
  <1>9. RunsListed' BY <1>7 DEF RunsListed
  <1> QED BY <1>2, <1>5, <1>8, <1>9, KeptRight DEF BacktestNext

\* The answer of on_run_click is of no part.
LEMMA RunAnswered ==
  ASSUME BacktestHere, Apply("on_run_click"), UNCHANGED backtestVars
  PROVE  BacktestNext
  <1> USE DEF BacktestHere
  <1>1. UNCHANGED <<runs, hasty, strayed, pressed>> BY DEF backtestVars
  <1>2. PICK new : new = calls["on_run_click"].answer OBVIOUS
  <1>3. DOMAIN new \subseteq {"run_id_store", "poll_disabled"} /\ Applied("on_run_click", new)
    BY <1>2, AppliedIs, BacktestGraph, BacktestOuts
  <1>4. Touches({"on_run_click"}, {"run_id_store", "poll_disabled"})
    BY <1>3, AppliedTouches, BacktestGraph, BacktestIns
  <1>5. RunsRight' BY <1>1, <1>3 DEF RunsRight, Applied, Pending
  <1> QED BY <1>1, <1>4, <1>5, KeptRight DEF BacktestNext
------------------------------------------------------------------------------
\* An answer of the strategy the call read.
LEMMA AnsweredOfStrategy ==
  ASSUME BacktestHere, NEW c \in {"on_strategy_select", "on_hash_filter", "on_poll"}, NEW answers,
         AnsweredOf(c, answers), strayed' = strayed, NEW strategy, strategy = calls[c].with.strategy_dd,
         \A answer \in answers : "history_table" \in DOMAIN answer => HistoryIs(answer.history_table, strategy),
         c = "on_strategy_select" => \A answer \in answers : "history_table" \in DOMAIN answer
  PROVE  HistoryRight'
  <1> SUFFICES ASSUME ~strayed' PROVE HistoryRight' BY DEF HistoryRight
  <1> USE DEF BacktestHere
  <1>1. /\ Pending(c) /\ Pending(c)' /\ calls[c].with # Nothing /\ calls'[c].with = calls[c].with
        /\ calls'[c].answer \in answers /\ props' = props
    BY DEF AnsweredOf, Pending
  <1>2. strategy = props.strategy_dd BY <1>1 DEF HistoryRight, OfStrategy
  <1>3. ASSUME NEW d \in {"on_strategy_select", "on_hash_filter", "on_poll"} PROVE OfStrategy(d)'
    <2>1. CASE d = c BY <1>1, <1>2, <2>1 DEF OfStrategy
    <2>2. CASE d # c
      <3>1. Untouched(d) BY <2>2, BacktestGraph DEF AnsweredOf, Touches
      <3> QED BY <1>1, <3>1, OfStrategyStays DEF HistoryRight
    <2> QED BY <2>1, <2>2
  <1>4. OfStrategy("on_strategy_select")' /\ OfStrategy("on_hash_filter")' /\ OfStrategy("on_poll")'
    BY <1>3
  <1>5. CASE c = "on_strategy_select" BY <1>1, <1>4, <1>5 DEF HistoryRight
  <1>6. CASE c # "on_strategy_select"
    <2>1. Untouched("on_strategy_select") BY <1>6, BacktestGraph DEF AnsweredOf, Touches
    <2> QED BY <1>1, <1>4, <2>1 DEF HistoryRight, Untouched, Keeps, Pending
  <1> QED BY <1>5, <1>6

\* Applied, it is of the strategy chosen.
LEMMA AppliedOfStrategy ==
  ASSUME BacktestHere, NEW c \in {"on_strategy_select", "on_hash_filter", "on_poll"}, NEW new,
         new = calls[c].answer, c \in DOMAIN calls, new # None, DOMAIN new \subseteq Outputs(c),
         Applied(c, new), strayed => strayed'
  PROVE  HistoryRight'
  <1> SUFFICES ASSUME ~strayed' PROVE HistoryRight' BY DEF HistoryRight
  <1> USE DEF BacktestHere
  <1>1. "history_table" \in DOMAIN new => HistoryIs(new.history_table, props.strategy_dd)
    BY DEF HistoryRight, OfStrategy, Pending
  <1>2. props'.strategy_dd = props.strategy_dd
    BY BacktestOuts, BacktestNames DEF Applied
  <1>3. ASSUME NEW d \in {"on_strategy_select", "on_hash_filter", "on_poll"}
        PROVE  OfStrategy(d)' /\ (d # c => Untouched(d))
    <2>1. CASE d = c BY <2>1 DEF OfStrategy, Applied, Pending
    <2>2. CASE d # c
      <3>1. Graph[d].ins \intersect DOMAIN new = {} BY BacktestOuts, BacktestIns
      <3>2. Untouched(d) BY <2>2, <3>1, BacktestGraph DEF Applied
      <3> QED BY <1>2, <3>2, OfStrategyStays DEF HistoryRight
    <2> QED BY <2>1, <2>2
  <1>4. OfStrategy("on_strategy_select")' /\ OfStrategy("on_hash_filter")' /\ OfStrategy("on_poll")'
    BY <1>3
  <1>5. props'.history_table = IF "history_table" \in DOMAIN new THEN new.history_table ELSE props.history_table
    BY BacktestNames DEF Applied
  <1>6. CASE c = "on_strategy_select"
    <2>1. "history_table" \in DOMAIN new /\ "on_strategy_select" \notin DOMAIN calls'
      BY <1>6 DEF HistoryRight, Pending, Applied
    <2> QED BY <1>1, <1>2, <1>4, <1>5, <2>1 DEF HistoryRight, Pending
  <1>7. CASE c # "on_strategy_select"
    <2>1. Untouched("on_strategy_select") BY <1>3, <1>7
    <2> QED BY <1>1, <1>2, <1>4, <1>5, <2>1 DEF HistoryRight, Untouched, Keeps, Pending
  <1> QED BY <1>6, <1>7

\* What on_strategy_select, ...
LEMMA StrategyAnswers ==
  ASSUME NEW w, NEW answer \in StrategySelect(w)
  PROVE  /\ DOMAIN answer = {"code_view", "hash_options", "history_table"}
         /\ HistoryIs(answer.history_table, w.strategy_dd)
  <1>1. \E a, b, h : /\ answer = [code_view |-> a, hash_options |-> b, history_table |-> h]
                     /\ HistoryIs(h, w.strategy_dd)
    <2>1. CASE w.strategy_dd = None
      <3>1. answer = [code_view |-> None, hash_options |-> {}, history_table |-> None]
        BY <2>1 DEF StrategySelect
      <3> QED BY <3>1 DEF HistoryIs
    <2>2. CASE w.strategy_dd # None
      <3>1. PICK h \in HistoryOf(w.strategy_dd, None) :
              answer = [code_view |-> w.strategy_dd, hash_options |-> IF h = None THEN {} ELSE Hashes,
                        history_table |-> h]
        BY <2>2, Zenon DEF StrategySelect
      <3>2. HistoryIs(h, w.strategy_dd) BY DEF HistoryOf, HistoryIs
      <3> QED BY <3>1, <3>2
    <2> QED BY <2>1, <2>2
  <1> QED BY <1>1

\* ... on_hash_filter ...
LEMMA HashAnswers ==
  ASSUME NEW w, NEW answer \in HashFilter(w)
  PROVE  DOMAIN answer = {"history_table"} /\ HistoryIs(answer.history_table, w.strategy_dd)
  <1>1. PICK h \in HistoryOf(w.strategy_dd, w.hash_filter_dd) : answer = [history_table |-> h]
    BY Zenon DEF HashFilter
  <1>2. HistoryIs(h, w.strategy_dd) BY DEF HistoryOf, HistoryIs
  <1> QED BY <1>1, <1>2

\* ... and on_poll answer.
LEMMA PollAnswers ==
  ASSUME NEW w, NEW answer \in OnPoll(w)
  PROVE  /\ DOMAIN answer \subseteq {"trades_store", "trades_div", "poll_disabled", "history_table"}
         /\ "history_table" \in DOMAIN answer => HistoryIs(answer.history_table, w.strategy_dd)
         /\ \/ "trades_store" \notin DOMAIN answer /\ "trades_div" \notin DOMAIN answer
            \/ /\ {"trades_store", "trades_div"} \subseteq DOMAIN answer
               /\ answer.trades_store = answer.trades_div
  <1> DEFINE traded == [i \in 1..TradesOfRun |-> [run |-> w.run_id_store, nr |-> i]]
  <1>1. \/ answer = [poll_disabled |-> FALSE] \/ answer = [poll_disabled |-> TRUE]
        \/ \E h \in HistoryOf(w.strategy_dd, None) :
             answer = [poll_disabled |-> TRUE, trades_store |-> traded, trades_div |-> traded,
                       history_table |-> h]
    BY Zenon DEF OnPoll
  <1> HIDE DEF traded
  <1>2. CASE answer = [poll_disabled |-> FALSE] \/ answer = [poll_disabled |-> TRUE]
    <2>1. DOMAIN answer = {"poll_disabled"} BY <1>2
    <2> QED BY <2>1
  <1>3. ASSUME NEW h \in HistoryOf(w.strategy_dd, None),
               answer = [poll_disabled |-> TRUE, trades_store |-> traded, trades_div |-> traded,
                         history_table |-> h]
        PROVE  /\ DOMAIN answer = {"trades_store", "trades_div", "poll_disabled", "history_table"}
               /\ HistoryIs(answer.history_table, w.strategy_dd) /\ answer.trades_store = answer.trades_div
    BY <1>3 DEF HistoryOf, HistoryIs
  <1> QED BY <1>1, <1>2, <1>3

\* on_strategy_select.
LEMMA StrategyAnsweredIsRight ==
  ASSUME BacktestHere, Asked("on_strategy_select", StrategySelect)
  PROVE  BacktestNext
  <1>1. UNCHANGED <<runs, hasty, strayed, pressed>> BY DEF Asked, backtestVars
  <1>2. CASE Serve("on_strategy_select", StrategySelect)
    <2> PICK w, answers : w = calls["on_strategy_select"].with /\ answers = StrategySelect(w) OBVIOUS
    <2>1. \A answer \in answers : /\ DOMAIN answer = {"code_view", "hash_options", "history_table"}
                                  /\ HistoryIs(answer.history_table, w.strategy_dd)
      BY StrategyAnswers
    <2>2. /\ Served("on_strategy_select") /\ props' = props
          /\ \E answer \in answers : calls' = [calls EXCEPT !["on_strategy_select"].answer = answer]
      BY <1>2 DEF Serve
    <2>3. AnsweredOf("on_strategy_select", answers)
      <3>1. "on_strategy_select" \in DOMAIN BacktestCallbacks BY BacktestGraph
      <3>2. \A answer \in answers : DOMAIN answer \subseteq Outputs("on_strategy_select") BY <2>1, BacktestOuts
      <3> QED BY <3>1, <3>2, <2>2, ServedIs
    <2>4. HistoryRight' BY <1>1, <2>1, <2>3, AnsweredOfStrategy
    <2>5. Touches({"on_strategy_select"}, {}) BY <2>3 DEF AnsweredOf
    <2> QED BY <1>1, <2>4, <2>5, KeptRight DEF BacktestNext
  <1>3. CASE Apply("on_strategy_select")
    <2>1. PICK new : new = calls["on_strategy_select"].answer OBVIOUS
    <2>2. /\ DOMAIN new \subseteq Outputs("on_strategy_select") /\ Applied("on_strategy_select", new)
          /\ new # None /\ "on_strategy_select" \in DOMAIN calls
      BY <1>3, <2>1, AppliedIs, BacktestGraph
    <2>3. HistoryRight' BY <1>1, <2>1, <2>2, AppliedOfStrategy
    <2>4. Touches({"on_strategy_select"}, {"code_view", "hash_options", "history_table"})
      BY <2>2, AppliedTouches, BacktestGraph, BacktestIns, BacktestOuts
    <2> QED BY <1>1, <2>3, <2>4, KeptRight DEF BacktestNext
  <1> QED BY <1>2, <1>3 DEF Asked

\* on_hash_filter.
LEMMA HashAnsweredIsRight ==
  ASSUME BacktestHere, Asked("on_hash_filter", HashFilter)
  PROVE  BacktestNext
  <1>1. UNCHANGED <<runs, hasty, strayed, pressed>> BY DEF Asked, backtestVars
  <1>2. CASE Serve("on_hash_filter", HashFilter)
    <2> PICK w, answers : w = calls["on_hash_filter"].with /\ answers = HashFilter(w) OBVIOUS
    <2>1. \A answer \in answers : DOMAIN answer = {"history_table"}
                                  /\ HistoryIs(answer.history_table, w.strategy_dd)
      BY HashAnswers
    <2>2. /\ Served("on_hash_filter") /\ props' = props
          /\ \E answer \in answers : calls' = [calls EXCEPT !["on_hash_filter"].answer = answer]
      BY <1>2 DEF Serve
    <2>3. AnsweredOf("on_hash_filter", answers)
      <3>1. "on_hash_filter" \in DOMAIN BacktestCallbacks BY BacktestGraph
      <3>2. \A answer \in answers : DOMAIN answer \subseteq Outputs("on_hash_filter") BY <2>1, BacktestOuts
      <3> QED BY <3>1, <3>2, <2>2, ServedIs
    <2>4. HistoryRight' BY <1>1, <2>1, <2>3, AnsweredOfStrategy
    <2>5. Touches({"on_hash_filter"}, {}) BY <2>3 DEF AnsweredOf
    <2> QED BY <1>1, <2>4, <2>5, KeptRight DEF BacktestNext
  <1>3. CASE Apply("on_hash_filter")
    <2>1. PICK new : new = calls["on_hash_filter"].answer OBVIOUS
    <2>2. /\ DOMAIN new \subseteq Outputs("on_hash_filter") /\ Applied("on_hash_filter", new)
          /\ new # None /\ "on_hash_filter" \in DOMAIN calls
      BY <1>3, <2>1, AppliedIs, BacktestGraph
    <2>3. HistoryRight' BY <1>1, <2>1, <2>2, AppliedOfStrategy
    <2>4. Touches({"on_hash_filter"}, {"history_table"})
      BY <2>2, AppliedTouches, BacktestGraph, BacktestIns, BacktestOuts
    <2> QED BY <1>1, <2>3, <2>4, KeptRight DEF BacktestNext
  <1> QED BY <1>2, <1>3 DEF Asked

\* on_poll finds the run done, or not: ...
LEMMA PollServedIsRight ==
  ASSUME BacktestHere, Serve("on_poll", OnPoll), UNCHANGED backtestVars
  PROVE  BacktestNext
  <1>1. UNCHANGED <<runs, hasty, strayed, pressed>> BY DEF backtestVars
  <1> PICK w, answers : w = calls["on_poll"].with /\ answers = OnPoll(w) OBVIOUS
  <1>2. \A answer \in answers :
          /\ DOMAIN answer \subseteq {"trades_store", "trades_div", "poll_disabled", "history_table"}
          /\ "history_table" \in DOMAIN answer => HistoryIs(answer.history_table, w.strategy_dd)
          /\ \/ "trades_store" \notin DOMAIN answer /\ "trades_div" \notin DOMAIN answer
             \/ /\ {"trades_store", "trades_div"} \subseteq DOMAIN answer
                /\ answer.trades_store = answer.trades_div
    BY PollAnswers
  <1>3. /\ Served("on_poll") /\ props' = props
        /\ \E answer \in answers : calls' = [calls EXCEPT !["on_poll"].answer = answer]
    BY DEF Serve
  <1>4. AnsweredOf("on_poll", answers) BY <1>2, <1>3, ServedIs, BacktestGraph, BacktestOuts
  <1>5. HistoryRight' BY <1>1, <1>2, <1>4, AnsweredOfStrategy
  <1>6. TradesRight' BY <1>2, <1>4 DEF BacktestHere, TradesRight, AnsweredOf, Pending
  <1>7. Touches({"on_poll"}, {}) BY <1>4 DEF AnsweredOf
  <1> QED BY <1>1, <1>5, <1>6, <1>7, KeptRight DEF BacktestNext

\* ... its trades take the place of those shown, whose chart is then forgotten.
LEMMA PollAnsweredIsRight ==
  ASSUME BacktestHere, PollAnswered
  PROVE  BacktestNext
  <1> USE DEF BacktestHere
  <1>1. PICK new : new = calls["on_poll"].answer OBVIOUS
  <1>2. /\ UNCHANGED <<runs, hasty, pressed>>
        /\ strayed' = (strayed \/ ("trades_store" \in DOMAIN new /\ Charting))
    BY <1>1 DEF PollAnswered
  <1>3. /\ DOMAIN new \subseteq {"trades_store", "trades_div", "poll_disabled", "history_table"}
        /\ Applied("on_poll", new) /\ new # None /\ "on_poll" \in DOMAIN calls
    BY <1>1, AppliedIs, BacktestGraph, BacktestOuts DEF PollAnswered
  <1>4. HistoryRight' BY <1>1, <1>2, <1>3, AppliedOfStrategy, BacktestOuts
  <1>5. TradesRight'
    <2>1. /\ props'.trades_store = IF "trades_store" \in DOMAIN new THEN new.trades_store ELSE props.trades_store
          /\ props'.trades_div = IF "trades_div" \in DOMAIN new THEN new.trades_div ELSE props.trades_div
      BY <1>3, BacktestNames DEF Applied
    <2> QED BY <1>1, <1>3, <2>1 DEF TradesRight, Applied, Pending
  <1>6. Touches({"on_poll"}, {"trades_store", "trades_div", "poll_disabled", "history_table"})
    BY <1>3, AppliedTouches, BacktestGraph, BacktestIns
  <1>7. HighlightRight'
    <2>1. Untouched("on_trade_chart_click") /\ Untouched("build_inline_chart")
      BY <1>6, BacktestGraph DEF Touches
    <2>2. CASE "trades_store" \in DOMAIN new /\ Charting BY <1>2, <2>2 DEF HighlightRight
    <2>3. CASE "trades_store" \notin DOMAIN new
      <3>1. Same({"trades_store", "chart_trade_idx", "inline_candlestick"})
        BY <1>3, <2>3, BacktestNames DEF Applied, Same
      <3> QED BY <1>2, <2>1, <3>1, HighlightStays
    <2>4. CASE ~Charting
      <3>1. props'.inline_candlestick = props.inline_candlestick
        BY <1>6, BacktestNames DEF Touches, Same
      <3>2. ~Pending("on_trade_chart_click")' /\ ~Pending("build_inline_chart")'
        BY <2>1, <2>4 DEF Charting, Untouched, Pending
      <3> QED BY <1>2, <2>4, <3>1, <3>2 DEF HighlightRight
    <2> QED BY <2>2, <2>3, <2>4
  <1>8. runs' = runs /\ hasty' = hasty /\ (strayed => strayed') BY <1>2
  <1> QED BY <1>4, <1>5, <1>6, <1>7, <1>8, KeptRight DEF BacktestNext
------------------------------------------------------------------------------
\* on_trade_chart_click asks for the candles about the trade pressed, ...
LEMMA ClickServedIsRight ==
  ASSUME BacktestHere, Serve("on_trade_chart_click", TradeChartClick), UNCHANGED backtestVars
  PROVE  BacktestNext
  <1> USE DEF BacktestHere
  <1>1. UNCHANGED <<runs, hasty, strayed, pressed>> BY DEF backtestVars
  <1> PICK w, answers : w = calls["on_trade_chart_click"].with /\ answers = TradeChartClick(w) OBVIOUS
  <1> PICK place : place = Market(w.exchange_dd, w.symbol_dd) OBVIOUS
  <1>2. \A answer \in answers :
          answer = IF w.trade_chart_btn \notin DOMAIN w.trades_store THEN <<>>
                   ELSE [chart_candles_store |-> place, chart_trade_idx |-> w.trade_chart_btn]
    BY DEF TradeChartClick, NoUpdate
  <1>3. \A answer \in answers : DOMAIN answer \subseteq Outputs("on_trade_chart_click")
    <2> TAKE answer \in answers
    <2>1. CASE answer = <<>> BY <2>1
    <2>2. CASE answer = [chart_candles_store |-> place, chart_trade_idx |-> w.trade_chart_btn]
      BY <2>2, BacktestOuts
    <2> QED BY <1>2, <2>1, <2>2
  <1>4. /\ Served("on_trade_chart_click") /\ props' = props
        /\ \E answer \in answers : calls' = [calls EXCEPT !["on_trade_chart_click"].answer = answer]
    BY DEF Serve
  <1>5. AnsweredOf("on_trade_chart_click", answers) BY <1>3, <1>4, ServedIs, BacktestGraph
  <1>6. Touches({"on_trade_chart_click"}, {}) BY <1>5 DEF AnsweredOf
  <1>7. HighlightRight'
    <2> SUFFICES ASSUME ~strayed, pressed # None PROVE HighlightRight' BY <1>1 DEF HighlightRight
    <2>1. /\ "on_trade_chart_click" \in DOMAIN calls /\ "on_trade_chart_click" \in DOMAIN calls'
          /\ w # Nothing /\ calls'["on_trade_chart_click"].with = w /\ props' = props
          /\ calls'["on_trade_chart_click"].answer \in answers
      BY <1>5 DEF AnsweredOf
    <2>2. /\ IsPressed(props.trades_store, w.trade_chart_btn, pressed)
          /\ w.trades_store = props.trades_store
      BY <2>1 DEF HighlightRight, Pending
    <2>3. calls'["on_trade_chart_click"].answer =
            [chart_candles_store |-> place, chart_trade_idx |-> w.trade_chart_btn]
      BY <1>2, <2>1, <2>2 DEF IsPressed
    <2> QED BY <1>1, <2>1, <2>2, <2>3 DEF HighlightRight, Pending, Charting
  <1> QED BY <1>1, <1>6, <1>7, KeptRight DEF BacktestNext

\* ... has them kept with its number, for the chart to be drawn, ...
LEMMA ClickAppliedIsRight ==
  ASSUME BacktestHere, Apply("on_trade_chart_click"), UNCHANGED backtestVars
  PROVE  BacktestNext
  <1> USE DEF BacktestHere
  <1>1. UNCHANGED <<runs, hasty, strayed, pressed>> BY DEF backtestVars
  <1> PICK new, w : new = calls["on_trade_chart_click"].answer /\ w = calls["on_trade_chart_click"].with
    OBVIOUS
  <1>2. /\ DOMAIN new \subseteq {"chart_candles_store", "chart_trade_idx"}
        /\ Applied("on_trade_chart_click", new) /\ new # None /\ w # Nothing
        /\ "on_trade_chart_click" \in DOMAIN calls
    BY AppliedIs, BacktestGraph, BacktestOuts
  <1>3. Touches({"on_trade_chart_click", "build_inline_chart"}, {"chart_candles_store", "chart_trade_idx"})
    BY <1>2, AppliedTouches, BacktestGraph, BacktestIns
  <1>4. HighlightRight'
    <2> SUFFICES ASSUME ~strayed, pressed # None PROVE HighlightRight' BY <1>1 DEF HighlightRight
    <2>1. /\ IsPressed(props.trades_store, w.trade_chart_btn, pressed)
          /\ \E place : new = [chart_candles_store |-> place, chart_trade_idx |-> w.trade_chart_btn]
      BY <1>2 DEF HighlightRight, Pending
    <2>2. DOMAIN new = {"chart_candles_store", "chart_trade_idx"} /\ new.chart_trade_idx = w.trade_chart_btn
      BY <2>1
    <2>3. /\ props'.trades_store = props.trades_store /\ props'.chart_trade_idx = w.trade_chart_btn
          /\ "on_trade_chart_click" \notin DOMAIN calls'
      BY <1>2, <2>2, BacktestNames DEF Applied
    <2>4. NewlyCalled("build_inline_chart") BY <1>2, <2>2, BacktestGraph, BacktestIns DEF Applied
    <2> QED BY <1>1, <2>1, <2>3, <2>4, BacktestReads DEF HighlightRight, NewlyCalled, Pending, Charting
  <1> QED BY <1>1, <1>3, <1>4, KeptRight DEF BacktestNext

\* ... and the chart highlights the trade of that number.
LEMMA ChartReplied ==
  ASSUME BacktestHere, Reply("build_inline_chart", BuildInlineChart), UNCHANGED backtestVars
  PROVE  BacktestNext
  <1> USE DEF BacktestHere
  <1>1. UNCHANGED <<runs, hasty, strayed, pressed>> BY DEF backtestVars
  <1> PICK w : w = calls["build_inline_chart"].with OBVIOUS
  <1> PICK new : new = BuildInlineChart(w) OBVIOUS
  <1>2. /\ DOMAIN new = {"inline_candlestick"}
        /\ w.chart_trade_idx \in DOMAIN w.trades_store =>
             new.inline_candlestick = w.trades_store[w.chart_trade_idx]
    BY DEF BuildInlineChart
  <1>3. /\ Served("build_inline_chart")
        /\ Written(Others("build_inline_chart"), new, calls["build_inline_chart"].chain \union {"build_inline_chart"})
    BY DEF Reply
  <1>4. /\ "build_inline_chart" \in DOMAIN calls /\ w # Nothing /\ Applied("build_inline_chart", new)
    BY <1>2, <1>3, RepliedIs, BacktestGraph, BacktestOuts
  <1>5. Touches({"build_inline_chart"}, {"inline_candlestick"})
    BY <1>2, <1>4, AppliedTouches, BacktestGraph, BacktestIns
  <1>6. HighlightRight'
    <2> SUFFICES ASSUME ~strayed, pressed # None PROVE HighlightRight' BY <1>1 DEF HighlightRight
    <2>1. /\ props'.trades_store = props.trades_store /\ props'.inline_candlestick = new.inline_candlestick
          /\ Untouched("on_trade_chart_click") /\ "build_inline_chart" \notin DOMAIN calls'
      BY <1>2, <1>4, <1>5, BacktestGraph, BacktestNames DEF Touches, Same, Applied
    <2>2. CASE "on_trade_chart_click" \notin DOMAIN calls
      <3>1. /\ IsPressed(props.trades_store, props.chart_trade_idx, pressed)
            /\ w.chart_trade_idx = props.chart_trade_idx /\ w.trades_store = props.trades_store
        BY <1>4, <2>2 DEF HighlightRight, Pending
      <3>2. new.inline_candlestick = pressed BY <1>2, <3>1 DEF IsPressed
      <3> QED BY <1>1, <2>1, <2>2, <3>2 DEF HighlightRight, Untouched, Pending, Charting
    <2>3. CASE "on_trade_chart_click" \in DOMAIN calls
      <3>1. /\ "on_trade_chart_click" \in DOMAIN calls'
            /\ calls["on_trade_chart_click"].with # Nothing
        BY <2>1, <2>3 DEF HighlightRight, Untouched, Pending
      <3>2. /\ calls'["on_trade_chart_click"].with = calls["on_trade_chart_click"].with
            /\ calls'["on_trade_chart_click"].answer = calls["on_trade_chart_click"].answer
        BY <2>1, <2>3, <3>1 DEF Untouched, Keeps
      <3> QED BY <1>1, <2>1, <2>3, <3>1, <3>2 DEF HighlightRight, Pending, Charting
    <2> QED BY <2>2, <2>3
  <1> QED BY <1>1, <1>5, <1>6, KeptRight DEF BacktestNext
------------------------------------------------------------------------------
\* The steps of the page are taken on it.
LEMMA BacktestFormIsOn ==
  ASSUME Ordered, BacktestForm
  PROVE  OnPage(DOMAIN BacktestLayout) /\ OnPage(DOMAIN BacktestLayout)'
  <1>1. OnPage(DOMAIN BacktestLayout)
    <2>1. CASE Shows(BacktestLayout)
      BY <2>1, ShownPage, BacktestNames DEF Shows, Ordered, PageNames
    <2>2. ASSUME NEW c \in DOMAIN BacktestCallbacks, Pending(c) PROVE OnPage(DOMAIN BacktestLayout)
      <3>1. IsOn(c, props) /\ Parts[c] \intersect DOMAIN BacktestLayout # {}
        BY <2>2, BacktestBelong DEF Pending, Ordered, Placed, BelongTo
      <3> QED BY <3>1, OnItsPage DEF Ordered, PageNames
    <2>3. Shows(BacktestLayout) \/ \E c \in DOMAIN BacktestCallbacks : Pending(c)
      BY BacktestGraph
      DEF BacktestForm, ChooseExchange, ChooseSymbol, RefreshStrategies, ChooseStrategy, ChooseHash,
          ClickRun, PollTick, ClickTrade, RunAsked, PollAnswered, Asked, Serve, Apply, Reply, Served
    <2> QED BY <2>1, <2>2, <2>3
  <1>2. DOMAIN props' = DOMAIN props BY BacktestKeepsOrder DEF About
  <1> QED BY <1>1, <1>2 DEF OnPage, BacktestLayout

\* Every step on the page of the backtests leaves it right.
LEMMA BacktestFormIsRight ==
  ASSUME Ordered, BacktestRight, BacktestForm
  PROVE  BacktestRight'
  <1>1. OnPage(DOMAIN BacktestLayout) /\ OnPage(DOMAIN BacktestLayout)' BY BacktestFormIsOn
  <1>2. BacktestHere BY <1>1 DEF BacktestRight, BacktestHere
  <1>3. BacktestNext
    <2>1. CASE ChooseExchange \/ ChooseSymbol \/ RefreshStrategies \/ ChooseStrategy \/ ChooseHash
               \/ ClickRun \/ PollTick \/ ClickTrade \/ RunAsked
               \/ (Apply("on_run_click") /\ UNCHANGED backtestVars) \/ PollAnswered
      BY <1>2, <2>1, ExchangeIsRight, SymbolIsRight, StrategyListIsRight, StrategyIsRight, HashIsRight,
         RunIsRight, PollIsRight, PressIsRight, RunAskedIsRight, RunAnswered, PollAnsweredIsRight
    <2>2. CASE Asked("load_strategy_options", LoadStrategyOptions) BY <1>2, <2>2, StrategiesAnswered
    <2>3. CASE Asked("load_symbol_options", LoadSymbolOptions)
      BY <1>2, <2>3, SymbolsServed, SymbolsApplied DEF Asked
    <2>4. CASE Reply("update_date_range", UpdateDateRange) /\ UNCHANGED backtestVars
      BY <1>2, <2>4, DatesReplied
    <2>5. CASE Asked("on_strategy_select", StrategySelect) BY <1>2, <2>5, StrategyAnsweredIsRight
    <2>6. CASE Asked("on_hash_filter", HashFilter) BY <1>2, <2>6, HashAnsweredIsRight
    <2>7. CASE Serve("on_poll", OnPoll) /\ UNCHANGED backtestVars BY <1>2, <2>7, PollServedIsRight
    <2>8. CASE Asked("on_trade_chart_click", TradeChartClick)
      BY <1>2, <2>8, ClickServedIsRight, ClickAppliedIsRight DEF Asked
    <2>9. CASE Reply("build_inline_chart", BuildInlineChart) /\ UNCHANGED backtestVars
      BY <1>2, <2>9, ChartReplied
    <2> QED BY <2>1, <2>2, <2>3, <2>4, <2>5, <2>6, <2>7, <2>8, <2>9 DEF BacktestForm
  <1> QED BY <1>1, <1>3 DEF BacktestRight, BacktestNext

\* A step about another page leaves it right.
LEMMA BacktestElsewhere ==
  ASSUME Ordered, BacktestRight, NEW names, About(names), names \intersect DOMAIN BacktestLayout = {},
         UNCHANGED backtestVars
  PROVE  BacktestRight'
  <1>1. OnPage(DOMAIN BacktestLayout)' <=> OnPage(DOMAIN BacktestLayout)
    BY DEF About, OnPage, BacktestLayout
  <1>2. ASSUME OnPage(DOMAIN BacktestLayout) PROVE BacktestNext
    <2>1. BacktestHere BY <1>2 DEF BacktestRight, BacktestHere
    <2>2. Touches({}, {}) BY <1>2, AboutTouches DEF Touches, Same
    <2>3. UNCHANGED <<runs, hasty, strayed, pressed>> BY DEF backtestVars
    <2> QED BY <2>1, <2>2, <2>3, KeptRight DEF BacktestNext
  <1> QED BY <1>1, <1>2 DEF BacktestRight, BacktestNext

\* The page is right when it is shown, whatever is under way from before.
LEMMA BacktestMountIsRight ==
  ASSUME Ordered, BacktestRight, RenderPage
  PROVE  BacktestRight'
  <1>1. PICK layout : layout = Layout(props.url) OBVIOUS
  <1>2. Mounts(layout) /\ Ordered'
    <2>1. Mount("render_page", layout, Base) BY <1>1 DEF RenderPage, Base
    <2> QED BY <1>1, <2>1, MountKeepsOrder
  <1>3. /\ runs' = <<>> /\ pressed' = None /\ hasty' = ("on_run_click" \in DOMAIN calls')
        /\ strayed' = (DOMAIN calls' \intersect {"on_hash_filter", "on_poll", "on_trade_chart_click",
                                                 "build_inline_chart"} # {})
    BY DEF RenderPage, BacktestReset
  <1> SUFFICES ASSUME OnPage(DOMAIN BacktestLayout)' PROVE BacktestNext
    BY DEF BacktestRight, BacktestNext
  <1>4. DOMAIN layout = DOMAIN BacktestLayout
    <2>1. DOMAIN layout \in PageNames BY <1>1, LayoutNames
    <2>2. PICK there : there = DOMAIN layout OBVIOUS
    <2>3. Base \union DOMAIN BacktestLayout = Base \union there
      BY <1>2, <2>2 DEF Mounts, OnPage, BacktestLayout
    <2> QED BY <2>1, <2>2, <2>3, PagesAreApart DEF PageNames
  <1>5. layout = BacktestLayout
    BY <1>1, <1>4, ChartsNames, ProfilesNames, BotsNames, BacktestNames, TradeNames, BrowserNames,
       DetailNames DEF Layout
  <1>6. /\ props'.exchange_dd = Exchanges[1] /\ props'.history_table = None
        /\ props'.trades_store = <<>> /\ props'.trades_div = <<>>
    BY <1>2, <1>5 DEF Mounts, BacktestLayout
  <1>7. ASSUME NEW c \in {"load_symbol_options", "on_strategy_select"}
        PROVE  c \in DOMAIN calls' /\ calls'[c].answer = None
    <2>1. c \in DOMAIN Graph /\ c \in DOMAIN BacktestCallbacks BY BacktestGraph DEF Straight
    <2>2. Parts[c] \subseteq Base \union DOMAIN layout
      BY <1>4, <2>1, BacktestBelong, PartsAre DEF BelongTo, Base
    <2>3. Graph[c].first /\ Outputs(c) \intersect DOMAIN layout # {}
      BY <1>4, BacktestIns, BacktestOuts, BacktestNames
    <2> QED BY <1>2, <2>1, <2>2, <2>3, FirstCalls
  <1>8. FormRight'
    <2>1. Exchanges[1] \in DOMAIN Listed BY BacktestPageAssumption
    <2> QED BY <1>6, <1>7, <2>1 DEF FormRight, Pending
  <1>9. RunsRight'
    <2>1. DOMAIN runs' = {} BY <1>3
    <2>2. ~hasty' => "on_run_click" \notin DOMAIN calls' BY <1>3
    <2> QED BY <2>1, <2>2 DEF RunsRight, Pending
  <1>10. RunsListed'
    <2>1. runs' \in Seq({}) BY <1>3
    <2> QED BY <2>1 DEF RunsListed
  <1>11. HistoryRight'
    <2> SUFFICES ASSUME ~strayed' PROVE HistoryRight' BY DEF HistoryRight
    <2>1. OfStrategy("on_hash_filter")' /\ OfStrategy("on_poll")' BY <1>3 DEF OfStrategy, Pending
    <2>2. calls'["on_strategy_select"].with # Nothing =>
            calls'["on_strategy_select"].with.strategy_dd = props'.strategy_dd
      <3>1. Fresh' BY <1>2 DEF Ordered
      <3>2. "on_strategy_select" \in Straight BY BacktestGraph
      <3> QED BY <1>7, <3>1, <3>2, BacktestIns DEF Fresh
    <2>3. OfStrategy("on_strategy_select")' BY <1>7, <2>2 DEF OfStrategy
    <2> QED BY <1>7, <2>1, <2>3 DEF HistoryRight, Pending
  <1>12. TradesRight'
    <2> SUFFICES ASSUME "on_poll" \in DOMAIN calls', calls'["on_poll"].answer # None
                 PROVE  LET answer == calls'["on_poll"].answer
                        IN \/ "trades_store" \notin DOMAIN answer /\ "trades_div" \notin DOMAIN answer
                           \/ /\ {"trades_store", "trades_div"} \subseteq DOMAIN answer
                              /\ answer.trades_store = answer.trades_div
      BY <1>6 DEF TradesRight, Pending
    <2>1. ~Graph["on_poll"].first BY BacktestGraph DEF BacktestCallbacks, Callback
    <2>2. "on_poll" \in DOMAIN calls /\ Keeps(calls'["on_poll"], calls["on_poll"], "on_poll", props')
      BY <1>2, <2>1 DEF Mounts, FirstOn, GoOn
    <2>3. OnPage(DOMAIN BacktestLayout)
      <3>1. "on_poll" \in DOMAIN BacktestCallbacks BY BacktestGraph
      <3>2. IsOn("on_poll", props) /\ Parts["on_poll"] \intersect DOMAIN BacktestLayout # {}
        BY <2>2, <3>1, BacktestBelong DEF Ordered, Placed, BelongTo
      <3> QED BY <3>2, OnItsPage DEF Ordered, PageNames
    <2>4. TradesRight BY <2>3 DEF BacktestRight
    <2> QED BY <2>2, <2>4 DEF TradesRight, Keeps, Pending
  <1>13. HighlightRight' BY <1>3 DEF HighlightRight
  <1> QED BY <1>8, <1>9, <1>10, <1>11, <1>12, <1>13 DEF BacktestNext

\* Every step leaves the page of the backtests right.
LEMMA NextKeepsBacktestRight ==
  ASSUME Ordered, BacktestRight, [Next]_vars
  PROVE  BacktestRight'
  <1>1. ASSUME NEW names, About(names), names \intersect DOMAIN BacktestLayout = {}, UNCHANGED backtestVars
        PROVE  BacktestRight'
    BY <1>1, BacktestElsewhere
  <1> USE ChartsNames, ProfilesNames, BotsNames, BacktestNames, TradeNames, BrowserNames, DetailNames
  <1>2. CASE \E url \in Addresses : GoTo(url)
    <2>1. PICK url \in Addresses : GoTo(url) BY <1>2
    <2>2. "url" \in DOMAIN props BY DEF Ordered, PageKnown, OnPage, Base
    <2>3. Input([url |-> url]) BY <2>1 DEF GoTo, UserInput
    <2>4. DOMAIN [url |-> url] = {"url"} OBVIOUS
    <2>5. About({"url"}) BY <2>2, <2>3, <2>4, InputKeepsOrder
    <2>6. {"url"} \intersect DOMAIN BacktestLayout = {} OBVIOUS
    <2> QED BY <1>1, <2>1, <2>5, <2>6 DEF GoTo
  <1>3. CASE RenderPage BY <1>3, BacktestMountIsRight
  <1>4. CASE Charts /\ UNCHANGED backtestVars
    <2>1. PICK names : names = DOMAIN ChartsLayout OBVIOUS
    <2>2. names \intersect DOMAIN BacktestLayout = {} BY <2>1
    <2> QED BY <1>1, <1>4, <2>1, <2>2, ChartsKeepOrder
  <1>5. CASE Profiles /\ UNCHANGED backtestVars
    <2>1. PICK names : names = {"hover_profile_store"} \union DOMAIN ProfilesLayout OBVIOUS
    <2>2. names \intersect DOMAIN BacktestLayout = {} BY <2>1
    <2> QED BY <1>1, <1>5, <2>1, <2>2, ProfilesKeepOrder
  <1>6. CASE Overview /\ UNCHANGED backtestVars
    <2>1. PICK names : names = DOMAIN BotsLayout OBVIOUS
    <2>2. names \intersect DOMAIN BacktestLayout = {} BY <2>1
    <2> QED BY <1>1, <1>6, <2>1, <2>2, BotsKeepOrder
  <1>7. CASE TradeViewer /\ UNCHANGED backtestVars
    <2>1. PICK names : names = DOMAIN TradeLayout OBVIOUS
    <2>2. names \intersect DOMAIN BacktestLayout = {} BY <2>1
    <2> QED BY <1>1, <1>7, <2>1, <2>2, TradeKeepsOrder
  <1>8. CASE StrategyBrowser /\ UNCHANGED backtestVars
    <2>1. PICK names : names = DOMAIN BrowserLayout \union DOMAIN DetailLayout(None) OBVIOUS
    <2>2. names \intersect DOMAIN BacktestLayout = {} BY <2>1
    <2> QED BY <1>1, <1>8, <2>1, <2>2, StrategiesKeepOrder
  <1>9. CASE (BotsOutside \/ StrategiesOutside \/ UNCHANGED vars) /\ UNCHANGED backtestVars
    <2>1. UNCHANGED <<props, calls>>
      BY <1>9
      DEF BotsOutside, MoveBot, Trade, StrategiesOutside, PutFile, TakeFile, Changes, browser, vars
    <2>2. About({}) BY <2>1, UnchangedKeepsOrder
    <2> QED BY <1>1, <1>9, <2>2
  <1>10. CASE BacktestForm BY <1>10, BacktestFormIsRight
  <1>11. UNCHANGED vars => UNCHANGED backtestVars BY DEF vars
  <1> QED
    BY <1>2, <1>3, <1>4, <1>5, <1>6, <1>7, <1>8, <1>9, <1>10, <1>11 DEF Next

\* The page of the backtests does not show at first.
LEMMA InitBacktestRight == Init => BacktestRight
  <1> SUFFICES ASSUME Init PROVE BacktestRight OBVIOUS
  <1>1. DOMAIN props = Base BY DEF Init, Base
  <1>2. ~OnPage(DOMAIN BacktestLayout) BY <1>1, BacktestNames DEF OnPage, Base
  <1> QED BY <1>2 DEF BacktestRight

\* Once nothing that writes them is under way, the dates, the history and the chart are of
\* what was chosen.
LEMMA BacktestIsRight == Ordered /\ BacktestRight => BacktestPageFollows
  <1> SUFFICES ASSUME Ordered, BacktestRight, Shows(BacktestLayout)
               PROVE  FormIsCoherent /\ ViewsAreOfChoices
    BY DEF BacktestPageFollows, FormIsCoherent, ViewsAreOfChoices
  <1>1. OnPage(DOMAIN BacktestLayout)
    BY ShownPage, BacktestNames DEF Shows, Ordered, PageNames
  <1>2. FormIsCoherent
    BY <1>1 DEF FormIsCoherent, BacktestRight, FormRight, RunsRight, DatesAre, FillingIn
  <1>3. "history_table" \in Outputs("on_strategy_select") BY BacktestOuts
  <1>4. ViewsAreOfChoices
    BY <1>1, <1>3
    DEF ViewsAreOfChoices, BacktestRight, HistoryRight, HighlightRight, HistoryIs, Writers, Pending
  <1> QED BY <1>2, <1>4

\* The dates of the form are those of the market chosen, a run is of such a form unless its
\* button was clicked before, the history is that of the strategy chosen and the chart
\* highlights the trade pressed unless choices and older answers crossed (load_symbol_options,
\* update_date_range, on_run_click, on_strategy_select, on_hash_filter, on_poll,
\* on_trade_chart_click, build_inline_chart).
THEOREM BacktestPageHolds == Spec => []BacktestPageFollows
  <1>1. Init => Ordered /\ BacktestRight BY InitOrdered, InitBacktestRight
  <1>2. (Ordered /\ BacktestRight) /\ [Next]_vars => (Ordered /\ BacktestRight)'
    BY NextKeepsOrder, NextKeepsBacktestRight
  <1> QED BY <1>1, <1>2, BacktestIsRight, PTL DEF Spec
================================================================================
