------------------------------- MODULE ChartData -------------------------------
(***************************************************************************)
(* The bars a chart is drawn from (dashboard/data.py).  Time is counted in  *)
(* base periods: a base row has the number of the period it sums up, and a  *)
(* timeframe is the number of base periods of its bar, 1 for the timeframes *)
(* read straight from a table.  A bar keeps the base rows it was made of,   *)
(* in the place of the columns that are summed, merged or taken from them.  *)
(***************************************************************************)
EXTENDS Integers, SequencesExt

CONSTANTS
  Limit,     (* bars kept and asked of the history (500)                    *)
  Slack,     (* base rows the history asks for beyond Limit bars (10)       *)
  MaxFetch,  (* rows the history never exceeds (50 000)                     *)
  Poll       (* rows a live fetch never exceeds (100, 2000 when aggregated) *)

ASSUME ChartDataAssumption ==
  {Limit, Slack, MaxFetch, Poll} \subseteq Nat \ {0}

\* The last n elements of s: s[-n:].
LastOf(s, n) == IF Len(s) <= n THEN s ELSE SubSeq(s, Len(s) - n + 1, Len(s))

\* The n newest, and the n oldest, of the rows.
Newest(rows, n) == {t \in rows : Cardinality({u \in rows : u > t}) < n}
Oldest(rows, n) == {t \in rows : Cardinality({u \in rows : u < t}) < n}

Opening(t, n) == t - (t % n)

Ascending(ts) == SetToSortSeq(ts, LAMBDA a, b : a < b)

\* A bar of the market m that opens at t, made of the base rows of.
Bar(m, t, of) == [market |-> m, ts |-> t, of |-> of]

\* _aggregate_rows: one bar for each window from the first row's to the last
\* row's, the empty ones between them included, without those the clock has
\* not closed.
Aggregate(m, rows, n, now) ==
  IF rows = {} THEN <<>>
  ELSE LET windows == {w \in Opening(Min(rows), n)..Max(rows) : (w % n = 0) /\ (w + n <= now)}
           opens == Ascending(windows)
       IN [i \in DOMAIN opens |->
             Bar(m, opens[i], {t \in rows : Opening(t, n) = opens[i]})]

Direct(m, rows) == [i \in DOMAIN Ascending(rows) |-> Bar(m, Ascending(rows)[i], {Ascending(rows)[i]})]

\* A faulty last_source_ts that gives the end of the bar.
EndOfBar(n, ts) == ts + n

\* last_source_ts: where the last base row of the bar that opens at ts would
\* be, there or not.
LastSource(n, ts) == ts + n - 1

\* fetch_history, of the base rows there are.
History(m, rows, n, now) ==
  IF n = 1 THEN Direct(m, Newest(rows, Limit))
  ELSE LET most == IF Limit * n + Slack < MaxFetch THEN Limit * n + Slack ELSE MaxFetch
       IN LastOf(Aggregate(m, Newest(rows, most), n, now), Limit)

\* fetch_new_candles, of the base rows there are.
NewBars(m, rows, last, n, now) ==
  LET new == Oldest({t \in rows : t > last}, Poll)
  IN IF n = 1 THEN Direct(m, new) ELSE Aggregate(m, new, n, now)
==================================================================================
