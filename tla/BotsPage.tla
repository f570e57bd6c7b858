--------------------------------- MODULE BotsPage ---------------------------------
(***************************************************************************)
(* The bots page: the strategies loaded in the bot service with what they   *)
(* traded, and the trades of the one chosen (dashboard/callbacks_bots.py    *)
(* over bot_data.py).  The service and QuestDB are external: a query        *)
(* answers with what there is, or with nothing when it fails.  A bot is     *)
(* known by its strategy, exchange and symbol; of its trades the page keeps *)
(* the number.                                                              *)
(***************************************************************************)
EXTENDS Dash, Sequences

CONSTANTS
  Bots,      (* the strategies that can be loaded                           *)
  Papers,    (* those of them that trade on paper                           *)
  MaxMoves   (* bound: strategies loaded and unloaded, and trades           *)

ASSUME BotsPageAssumption == Papers \subseteq Bots /\ MaxMoves \in Nat

VARIABLES
  running,  \* the strategies loaded, in the order of the registry
  trades,   \* bot -> its trades in order_events, for the bots that have some
  moves,
  chosen    \* history: the row clicked, with the mode of the toggle, or None
            \* when the table was not of that mode

bots == <<running, trades, moves>>
botVars == <<bots, chosen>>
------------------------------------------------------------------------------
BotCallbacks ==
  [refresh_bot_overview |->
     Callback({"bot_mode_toggle", "bot_interval"}, {}, {"bot_leaderboard"}, {}, TRUE),
   clear_leaderboard_selection |->
     Callback({"bot_mode_toggle"}, {}, {"bot_selected_rows"}, {}, TRUE),
   select_bot |->
     Callback({"bot_selected_rows"}, {"bot_leaderboard", "bot_mode_toggle"},
              {"bot_selected"}, {}, FALSE),
   show_bot_detail |->
     Callback({"bot_selected"}, {}, {"bot_detail"}, {}, FALSE)]

NoDetail == [bot |-> None, mode |-> None, count |-> 0]

BotsLayout ==
  [bot_mode_toggle |-> "paper", bot_interval |-> 0, bot_leaderboard |-> <<>>,
   bot_selected_rows |-> <<>>, bot_selected |-> None, bot_detail |-> NoDetail]

ModeOf(bot) == IF bot \in Papers THEN "paper" ELSE "live"

Count(stats, bot) == IF bot \in DOMAIN stats THEN stats[bot] ELSE 0

\* merge_bots: a row for each bot loaded that is of the mode; the statistics
\* fill in the rows of the bots that have some.
MergeBots(loaded, stats, mode) ==
  LET ofMode == SelectSeq(loaded, LAMBDA b : ModeOf(b) = mode)
  IN [i \in DOMAIN ofMode |-> [bot |-> ofMode[i], count |-> Count(stats, ofMode[i])]]

NoStats == <<>>

\* fetch_running_bots and fetch_bot_overview: what there is, or nothing.
RunningBots == {running, <<>>}
BotStats == {trades, NoStats}

\* refresh_bot_overview
RefreshOverview(w) ==
  {[bot_leaderboard |-> MergeBots(loaded, stats, w.bot_mode_toggle)] :
     loaded \in RunningBots, stats \in BotStats}

ClearSelection(w) == [bot_selected_rows |-> <<>>]

\* A faulty select_bot that counts the rows from 1.
SelectBelow(w) ==
  IF w.bot_selected_rows = <<>> \/ w.bot_selected_rows[1] + 1 \notin DOMAIN w.bot_leaderboard
  THEN NoUpdate
  ELSE [bot_selected |-> [bot |-> w.bot_leaderboard[w.bot_selected_rows[1] + 1].bot,
                          mode |-> w.bot_mode_toggle]]

SelectBot(w) ==
  IF w.bot_selected_rows = <<>> \/ w.bot_selected_rows[1] \notin DOMAIN w.bot_leaderboard
  THEN NoUpdate
  ELSE [bot_selected |-> [bot |-> w.bot_leaderboard[w.bot_selected_rows[1]].bot,
                          mode |-> w.bot_mode_toggle]]

\* fetch_bot_trades: those of that bot in that mode, none of another.
TradesIn(bot, mode) == IF mode = ModeOf(bot) THEN {Count(trades, bot), 0} ELSE {0}

\* show_bot_detail
ShowDetail(w) == {[bot_detail |-> w.bot_selected ++ [count |-> n]] :
                    n \in TradesIn(w.bot_selected.bot, w.bot_selected.mode)}
------------------------------------------------------------------------------
BotsInit == running = <<>> /\ trades = NoStats /\ moves = 0 /\ chosen = None

BotsReset == running' = <<>> /\ trades' = NoStats /\ moves' = 0 /\ chosen' = None

Moves == Shows(BotsLayout) /\ moves < MaxMoves /\ moves' = moves + 1

\* A strategy is loaded, or unloaded.
MoveBot(b) ==
  /\ Moves
  /\ running' = IF \E i \in DOMAIN running : running[i] = b
                THEN SelectSeq(running, LAMBDA x : x # b) ELSE Append(running, b)
  /\ UNCHANGED <<browser, trades, chosen>>

Trade(i) ==
  /\ Moves
  /\ trades' = [b \in {running[i]} |-> Count(trades, b) + 1] ++ trades
  /\ UNCHANGED <<browser, running, chosen>>

Toggle(mode) ==
  /\ Shows(BotsLayout) /\ mode # props.bot_mode_toggle
  /\ UserInput([bot_mode_toggle |-> mode])
  /\ chosen' = IF Pending("select_bot") THEN None ELSE chosen
  /\ UNCHANGED bots

Refresh == Shows(BotsLayout) /\ Input([bot_interval |-> 0]) /\ UNCHANGED <<inputs, botVars>>

ClickRow ==
  /\ Shows(BotsLayout)
  /\ \E i \in DOMAIN props.bot_leaderboard :
       /\ UserInput([bot_selected_rows |-> <<i>>])
       /\ LET row == props.bot_leaderboard[i]
          IN chosen' = IF /\ ModeOf(row.bot) = props.bot_mode_toggle
                          /\ ~Pending("clear_leaderboard_selection")
                       THEN [row |-> row, mode |-> ModeOf(row.bot)] ELSE None
  /\ UNCHANGED bots

BotsOutside == \/ \E b \in Bots : MoveBot(b)
               \/ \E i \in DOMAIN running : Trade(i)

Overview ==
  \/ \E mode \in {"paper", "live"} : Toggle(mode)
  \/ Refresh \/ ClickRow
  \/ Serve("refresh_bot_overview", RefreshOverview) /\ UNCHANGED botVars
  \/ Apply("refresh_bot_overview") /\ UNCHANGED botVars
  \/ Reply("clear_leaderboard_selection", ClearSelection) /\ UNCHANGED botVars
  \/ Reply("select_bot", SelectBot) /\ UNCHANGED botVars
  \/ Serve("show_bot_detail", ShowDetail) /\ UNCHANGED botVars
  \/ Apply("show_bot_detail") /\ UNCHANGED botVars
------------------------------------------------------------------------------
\* The bot whose trades are shown is the one in the row that was clicked, in the
\* mode it trades in, whatever refreshes have done to the table since; unless
\* there was no answer, its trades are at least those the row counted
\* (callbacks_bots.select_bot, show_bot_detail, bot_data.py).
DetailIsOfChoice ==
  (chosen # None /\ ~Pending("select_bot") /\ ~Pending("show_bot_detail")) =>
    /\ props.bot_detail.bot = chosen.row.bot /\ props.bot_detail.mode = chosen.mode
    /\ props.bot_detail.count = 0 \/ props.bot_detail.count >= chosen.row.count
==================================================================================
