-------------------------------- MODULE Replay --------------------------------
(***************************************************************************)
(* What one backtest computes: the segments of the window's rows it reports *)
(* (backtest/feeds.py) and, for a strategy written against BaseStrategy,    *)
(* the orders, fills and listed trades of the replay                       *)
(* (backtest/runner.py).                                                    *)
(*                                                                         *)
(* A row is a bar, or it has gap_count > 0 or no close, which comes to the  *)
(* same.  An entry has size 1.  Backtrader, which is external, executes an  *)
(* order at the open of the next bar or rejects it; prices are left out.    *)
(***************************************************************************)
EXTENDS Integers, Sequences, FiniteSets, SequencesExt

CONSTANT MaxRows      (* rows in the window *)

ASSUME ReplayAssumption == MaxRows \in Nat \ {0}

Rows == {"bar", "gap"}
Windows == [1..MaxRows -> Rows]

\* _find_data_segments: one pass over the rows, of which scan[i] is the state
\* after row i: where the segment under way starts, 0 for none, and those found,
\* as <<first, last>>.
ScanRow(s, row, i) ==
  CASE row = "bar" -> [s EXCEPT !.start = IF @ = 0 THEN i ELSE @]
    [] row # "bar" /\ s.start = 0 -> s
    [] OTHER -> [start |-> 0, found |-> Append(s.found, <<s.start, i - 1>>)]

Scan(window) ==
  LET scan[i \in 0..Len(window)] ==
        IF i = 0 THEN [start |-> 0, found |-> <<>>] ELSE ScanRow(scan[i - 1], window[i], i)
  IN scan

\* A faulty end that forgets the segment still open at the last row.
SegmentsButLast(window) == Scan(window)[Len(window)].found

Segments(window) ==
  LET end == Scan(window)[Len(window)]
  IN IF end.start = 0 THEN end.found ELSE Append(end.found, <<end.start, Len(window)>>)

\* The rows left after _replace_gap_rows and the dropna of QuestDBFeed: the
\* bars the strategy is shown.
Bars(window) == Cardinality({i \in DOMAIN window : window[i] = "bar"})
------------------------------------------------------------------------------
Request(side, role) == [side |-> side, role |-> role]

\* What a handler posts on one bar: nothing, an entry, an exit, an entry too
\* many, or a flip.
Posts ==
  LET buy == Request("buy", "entry")  sell == Request("sell", "exit")
      short == Request("sell", "entry")  cover == Request("buy", "exit")
  IN {<<>>, <<buy>>, <<sell>>, <<buy, buy>>, <<sell, short>>, <<cover, buy>>}

\* _FakeOrderWorker.post: the size of the order a request becomes at position
\* pos, 0 for no order.
OrderSize(req, pos) ==
  CASE req.role # "exit" -> IF req.side = "buy" THEN 1 ELSE -1
    [] req.role = "exit" /\ req.side = "buy" /\ pos < 0 -> -pos
    [] req.role = "exit" /\ req.side = "sell" /\ pos > 0 -> -pos
    [] OTHER -> 0

\* The orders of the requests posted on a bar, all sized at the same position;
\* one of size 0 is none.
OrdersOf(posts, pos, bar) ==
  [k \in DOMAIN posts |-> [id |-> <<bar, k>>, size |-> OrderSize(posts[k], pos)]]

NoEntry == <<0, 0>>

\* A faulty _apply_fill that takes a rejected order for a completed one.
FillAnyStatus(s, order, completed) ==
  [pos |-> IF completed THEN s.pos + order.size ELSE s.pos,
   fills |-> IF completed THEN Append(s.fills, order) ELSE s.fills,
   pending |-> IF order.size > 0 THEN order.id ELSE NoEntry,
   trades |-> IF order.size < 0 /\ s.pending # NoEntry
              THEN Append(s.trades, <<s.pending, order.id>>) ELSE s.trades]

\* _apply_fill: a completed buy becomes the pending entry, a completed sell
\* closes it.
ApplyFill(s, order, completed) ==
  IF ~completed THEN s
  ELSE [pos |-> s.pos + order.size,
        fills |-> Append(s.fills, order),
        pending |-> IF order.size > 0 THEN order.id ELSE NoEntry,
        trades |-> IF order.size < 0 /\ s.pending # NoEntry
                   THEN Append(s.trades, <<s.pending, order.id>>) ELSE s.trades]

\* The orders of a bar, in the order they were posted.
Execute(s, orders, rejected) ==
  LET after[k \in 0..Len(orders)] ==
        IF k = 0 THEN s
        ELSE IF orders[k].size = 0 THEN after[k - 1]
        ELSE ApplyFill(after[k - 1], orders[k], orders[k].id \notin rejected)
  IN after[Len(orders)]

\* run_backtest over n bars, of which account[i] is the state before the handler
\* of bar i + 1: on each bar the orders posted on the bar before execute.
Account(n, posts, rejected) ==
  LET account[i \in 0..(n - 1)] ==
        IF i = 0 THEN [pos |-> 0, fills |-> <<>>, pending |-> NoEntry, trades |-> <<>>]
        ELSE Execute(account[i - 1], OrdersOf(posts[i], account[i - 1].pos, i), rejected)
  IN account

Play(n, posts, rejected) ==
  LET end == Account(n, posts, rejected)[n - 1]
  IN [fills |-> end.fills, trades |-> end.trades]

Plays == [n \in 1..MaxRows |-> {Play(n, posts, rejected) : posts \in [1..(n - 1) -> Posts],
                                                           rejected \in SUBSET ((1..(n - 1)) \X {1, 2})}]

\* What a run can return: a window without a bar ends in InsufficientHistoryError.
Replays ==
  UNION {{[window |-> w, segments |-> Segments(w), fills |-> p.fills, trades |-> p.trades] : p \in Plays[Bars(w)]} :
           w \in {v \in Windows : Bars(v) > 0}}
==============================================================================
