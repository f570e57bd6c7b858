-------------------------------- MODULE Dashboard --------------------------------
(***************************************************************************)
(* The dashboard: its pages in one browser tab of one user.  A page begins  *)
(* anew each time it is shown, except the profiles, which the browser       *)
(* keeps; what a page looks at outside is told from when it is shown.       *)
(***************************************************************************)
EXTENDS ChartPage, ProfilesPage, BotsPage, TradePage, StrategyPages

CONSTANT Links  (* bound: the links from page to page that are followed *)

vars == <<browser, chartVars, profileVars, botVars, backtestVars, strategyVars>>
------------------------------------------------------------------------------
AllCallbacks ==
  [render_page |-> Callback({"url"}, {}, {}, {}, TRUE)]
    ++ ChartCallbacks ++ ProfileCallbacks ++ BotCallbacks
    ++ BacktestCallbacks ++ TradeCallbacks ++ StrategyCallbacks

ASSUME DashboardAssumption == Graph = AllCallbacks

\* An address: a page, and the name in the address of a strategy.
Address(page, of) == [page |-> page, of |-> of]

FileNames == {f.name : f \in Files}

Addresses ==
  {Address(p, None) : p \in {"/", "/profiles", "/bots", "/backtests", "/chart", "/strategies"}}
    \union {Address("/strategies/", n) : n \in FileNames}

\* No link leads to the page of a trade with a trade in its address.
Typed == Addresses \union {Address("/chart", t) : t \in TradeAddresses}

\* render_page; any other address shows the charts.
Layout(url) == CASE url.page = "/bots"        -> BotsLayout
                 [] url.page = "/backtests"   -> BacktestLayout
                 [] url.page = "/chart"       -> TradeLayout
                 [] url.page = "/strategies"  -> BrowserLayout
                 [] url.page = "/strategies/" -> DetailLayout(url.of)
                 [] url.page = "/profiles"    -> ProfilesLayout
                 [] OTHER                     -> ChartsLayout

\* The browser may keep profiles, and there may be a file of them, from before.
Init ==
  /\ \E url \in Typed, stored \in {None, DefaultProfiles}, saved \in {None} \union Saves :
       /\ url.page # "/profiles" => stored = None /\ saved = None
       /\ props = [url |-> url, hover_profile_store |-> stored]
       /\ file = saved
  /\ calls = Sent(Called(<<>>, props, {"url"}, {}), props)
  /\ inputs = 0 /\ raced = FALSE /\ expected = None
  /\ ChartInit /\ BotsInit /\ BacktestInit /\ StrategyInit

RenderPage ==
  /\ Mount("render_page", Layout(props.url), {"url", "hover_profile_store"})
  /\ ChartReset /\ BotsReset /\ BacktestReset /\ StrategyReset
  /\ UNCHANGED profileVars

GoTo(url) ==
  /\ <<props.url.page, url.page>> \in Links /\ UserInput([url |-> url])
  /\ raced' = (raced \/ EditUnderWay)
  /\ UNCHANGED <<chartVars, file, expected, botVars, backtestVars, strategyVars>>

Next ==
  \/ \E url \in Addresses : GoTo(url)
  \/ RenderPage
  \/ Charts /\ UNCHANGED <<profileVars, botVars, backtestVars, strategyVars>>
  \/ Profiles /\ UNCHANGED <<chartVars, botVars, backtestVars, strategyVars>>
  \/ Overview /\ UNCHANGED <<chartVars, profileVars, backtestVars, strategyVars>>
  \/ BotsOutside /\ UNCHANGED <<chartVars, profileVars, backtestVars, strategyVars>>
  \/ BacktestForm /\ UNCHANGED <<chartVars, profileVars, botVars, strategyVars>>
  \/ TradeViewer /\ UNCHANGED <<chartVars, profileVars, botVars, backtestVars, strategyVars>>
  \/ /\ StrategyBrowser \/ StrategiesOutside
     /\ UNCHANGED <<chartVars, profileVars, botVars, backtestVars>>

Spec == Init /\ [][Next]_vars
------------------------------------------------------------------------------
\* However fast the user goes from page to page, once nothing is under way the
\* page shown is that of the address, and shows the strategy or the trade it
\* names, or the strategies the filters leave (callbacks.render_page,
\* populate_detail, load_chart_data, render_cards).
PageIsOfAddress == Quiet =>
  /\ DOMAIN props = {"url", "hover_profile_store"} \union DOMAIN Layout(props.url)
  /\ Shows(TradeLayout) => ViewerIsOf(props.url.of)
  /\ Shows(BrowserLayout) => CardsAreFiltered
  /\ props.url.page = "/strategies/" => DetailIsOf(props.url.of)
==============================================================================
