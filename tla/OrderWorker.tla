------------------------------ MODULE OrderWorker ------------------------------
(***************************************************************************)
(* The order queue worker of one strategy (bot_service/strategy/           *)
(* order_worker.py), the exchange client it places orders with, the        *)
(* order_events table it appends to, and the reconciliation that rebuilds  *)
(* the worker when its thread starts again.                                *)
(*                                                                         *)
(* Everything but the table's writes runs on one asyncio loop: an action   *)
(* is the code between two awaits.  Prices are left out; sizes are the     *)
(* portfolio fractions of the requests, so a notional is a sum of sizes.   *)
(* Order ids are handed out in order, and asked remembers the request      *)
(* behind each id, so that openOrders need only hold ids.                  *)
(***************************************************************************)
EXTENDS Naturals, Sequences, FiniteSets, Totals

CONSTANTS
  Mode,           (* "paper": PaperExchangeClient; "live": a REST client      *)
  Symbols,
  MaxSize,        (* bound: size of a request                                 *)
  MaxPosition,    (* max_position_pct, in the unit of sizes                   *)
  MaxOrderSize,   (* max_order_notional_usd, same unit; 0 disables it         *)
  SeenCap,        (* length of _seen_fill_ids_order                           *)
  WritesMayFail,  (* an ILP write may fail, which is only logged              *)
  Breaker,        (* a daily loss limit is configured                         *)
  MaxPosts,       (* bound: requests the strategy posts                       *)
  MaxRestarts     (* bound: ends of the strategy's thread                     *)

ASSUME ParametersAreSane ==
  /\ Mode \in {"paper", "live"}
  /\ MaxSize \in Nat \ {0} /\ MaxPosition \in Nat /\ MaxOrderSize \in Nat
  /\ SeenCap \in Nat \ {0}
  /\ WritesMayFail \in BOOLEAN /\ Breaker \in BOOLEAN
  /\ MaxPosts \in Nat /\ MaxRestarts \in Nat

(* Stop orders are treated as exit orders everywhere in the worker.         *)
Request == [symbol : Symbols, side : {"buy", "sell"}, role : {"entry", "exit"},
            size : 1..MaxSize]

VARIABLES
  up,             \* the strategy's thread runs
  stopSet,        \* its stop_event is set
  queue,          \* _queue
  pc,             \* where run() is: see TypeOK
  req,            \* the request being processed (a sequence of at most one)
  asked,          \* the request behind each order id, known to the exchange
  working,        \* orders the exchange may still fill
  fills,          \* filled orders whose event is on its way to handle_fill
  openOrders, restored,     \* open_orders; those that reconciliation restored
  notional, qty,  \* _position_notional, _position_qty
  seen,           \* _seen_fill_ids_order (its members are _seen_fill_ids)
  recording,      \* fills whose "filled" row is being written
  table,          \* order_events: the latest status of each order id
  alerts,         \* orphaned orders in order_alerts
  tripFired,      \* _trip_fired
  posts, restarts \* what the bounds count

workerVars == <<queue, pc, req>>
ledgerVars == <<openOrders, restored, notional, qty, seen>>
exchangeVars == <<asked, working, fills>>
tableVars == <<recording, table, alerts>>
controlVars == <<up, stopSet, tripFired>>
countVars == <<posts, restarts>>
vars == <<workerVars, ledgerVars, exchangeVars, tableVars, controlVars, countVars>>
------------------------------------------------------------------------------
OrderIds == DOMAIN asked

\* The order_role the worker knows an open order by.  Reconciliation reads
\* it from the column signal_type, which the worker never writes.
Role(id) == IF id \in restored THEN "" ELSE asked[id].role

\* Mutant: only the order placed last can be duplicated.
RepeatsLast(r) ==
  /\ r.role = "entry" /\ asked # <<>> /\ Len(asked) \in openOrders
  /\ asked[Len(asked)].symbol = r.symbol /\ asked[Len(asked)].side = r.side
  /\ Role(Len(asked)) = "entry"

IsEntryDedup(r) ==
  /\ r.role = "entry"
  /\ \E id \in openOrders :
       asked[id].symbol = r.symbol /\ asked[id].side = r.side /\ Role(id) = "entry"

ExceedsHardLimit(r) == r.role = "entry" /\ MaxOrderSize > 0 /\ r.size > MaxOrderSize

\* Mutant: the gate forgets what is open already.
ExceedsGateAlone(r) == r.role = "entry" /\ r.size > MaxPosition

ExceedsRiskGate(r) == r.role = "entry" /\ notional[r.symbol] + r.size > MaxPosition

Discarded(r) == IsEntryDedup(r) \/ ExceedsHardLimit(r) \/ ExceedsRiskGate(r)

Minus(a, b) == IF a >= b THEN a - b ELSE 0

\* Mutant: the oldest id is never evicted.
RememberAll(s, id) == Append(s, id)

\* The deque drops its oldest id when it is full, and with it the set.
Remember(s, id) == Append(IF Len(s) = SeenCap THEN Tail(s) ELSE s, id)

\* _update_position, without the prices: a paper order is filled in full.
UpdatedQty(r) ==
  [qty EXCEPT ![r.symbol] = IF r.side = "buy" THEN @ + r.size ELSE Minus(@, r.size)]

\* What a write leaves in the table.
Written(id, status) ==
  {[table EXCEPT ![id] = status]} \union (IF WritesMayFail THEN {table} ELSE {})

Init ==
  /\ up = TRUE /\ stopSet = FALSE /\ tripFired = FALSE
  /\ queue = <<>> /\ pc = "loop" /\ req = <<>>
  /\ asked = <<>> /\ working = {} /\ fills = {}
  /\ openOrders = {} /\ restored = {}
  /\ notional = [s \in Symbols |-> 0] /\ qty = [s \in Symbols |-> 0]
  /\ seen = <<>>
  /\ recording = {} /\ table = <<>> /\ alerts = {}
  /\ posts = 0 /\ restarts = 0
------------------------------------------------------------------------------
(* The worker's loop.                                                       *)

Post ==
  /\ up /\ posts < MaxPosts
  /\ posts' = posts + 1
  /\ \E r \in Request : queue' = Append(queue, r)
  /\ UNCHANGED <<pc, req, ledgerVars, exchangeVars, tableVars, controlVars, restarts>>

\* while not stop_event.is_set(): wait for a request for up to a second.
EnterGet ==
  /\ up /\ pc = "loop" /\ ~stopSet
  /\ pc' = "get"
  /\ UNCHANGED <<queue, req, ledgerVars, exchangeVars, tableVars, controlVars, countVars>>

GetTimesOut ==
  /\ up /\ pc = "get" /\ queue = <<>>
  /\ pc' = "loop"
  /\ UNCHANGED <<queue, req, ledgerVars, exchangeVars, tableVars, controlVars, countVars>>

\* The exchange takes an order on and gives it the next id.
Accept(r) ==
  /\ asked' = Append(asked, r)
  /\ table' = Append(table, "none")
  /\ working' = working \union {Len(asked) + 1}

\* Mutant: a discarded request ends run().
ProcessOrReturn ==
  /\ up /\ pc = "get" /\ queue # <<>>
  /\ queue' = Tail(queue)
  /\ LET r == Head(queue)
     IN \/ /\ Discarded(r)
           /\ pc' = "dead"
           /\ UNCHANGED <<req, asked, table, working>>
        \/ /\ ~Discarded(r) /\ Mode = "paper"
           /\ Accept(r)
           /\ pc' = "placed" /\ req' = <<r>>
        \/ /\ ~Discarded(r) /\ Mode = "live"
           /\ pc' = "placing" /\ req' = <<r>>
           /\ UNCHANGED <<asked, table, working>>
  /\ UNCHANGED <<fills, ledgerVars, recording, alerts, controlVars, countVars>>

\* _process: the three filters and the call of place_order.  The paper client
\* answers without suspending; a REST client is awaited.
Process ==
  /\ up /\ pc = "get" /\ queue # <<>>
  /\ queue' = Tail(queue)
  /\ LET r == Head(queue)
     IN \/ /\ Discarded(r)
           /\ pc' = "loop"
           /\ UNCHANGED <<req, asked, table, working>>
        \/ /\ ~Discarded(r) /\ Mode = "paper"
           /\ Accept(r)
           /\ pc' = "placed" /\ req' = <<r>>
        \/ /\ ~Discarded(r) /\ Mode = "live"
           /\ pc' = "placing" /\ req' = <<r>>
           /\ UNCHANGED <<asked, table, working>>
  /\ UNCHANGED <<fills, ledgerVars, recording, alerts, controlVars, countVars>>

\* A REST client's answer.  An error may hide an order that was taken on; an
\* exception other than ExchangeRESTError (an answer without an order id, or
\* one that is not JSON) is caught by nobody and ends the worker's task.
Answer ==
  /\ up /\ pc = "placing"
  /\ \/ Accept(req[1]) /\ pc' = "placed" /\ UNCHANGED req
     \/ pc' = "failed" /\ UNCHANGED <<req, asked, table, working>>
     \/ Accept(req[1]) /\ pc' = "failed" /\ UNCHANGED req
     \/ Accept(req[1]) /\ pc' = "dead" /\ req' = <<>>
  /\ UNCHANGED <<queue, fills, ledgerVars, recording, alerts, controlVars, countVars>>

\* Mutant: the row is written by a task nobody awaits.
RecordPlacedUnawaited ==
  /\ up /\ pc = "placed"
  /\ LET id == Len(asked)
     IN /\ table' \in {table, [table EXCEPT ![id] = "placed"]}
        /\ openOrders' = openOrders \union {id}
        /\ notional' = [notional EXCEPT ![req[1].symbol] = @ + req[1].size]
  /\ pc' = "loop" /\ req' = <<>>
  /\ UNCHANGED <<queue, restored, qty, seen, exchangeVars, recording, alerts, controlVars,
                 countVars>>

\* The "placed" row has been written, or has not: the order is open.
RecordPlaced ==
  /\ up /\ pc = "placed"
  /\ LET id == Len(asked)
     IN /\ table' \in Written(id, "placed")
        /\ openOrders' = openOrders \union {id}
        /\ notional' = [notional EXCEPT ![req[1].symbol] = @ + req[1].size]
  /\ pc' = "loop" /\ req' = <<>>
  /\ UNCHANGED <<queue, restored, qty, seen, exchangeVars, recording, alerts, controlVars,
                 countVars>>

\* The "failed" row has no order id, so it says nothing of any order.
RecordFailed ==
  /\ up /\ pc = "failed"
  /\ pc' = "loop" /\ req' = <<>>
  /\ UNCHANGED <<queue, ledgerVars, exchangeVars, tableVars, controlVars, countVars>>
------------------------------------------------------------------------------
(* Fills.                                                                   *)

\* The paper client's task fills an order and calls handle_fill, or fails when
\* Redis has no price for a market order to give.  A live exchange fills
\* orders too, but the registry gives handle_fill to no private feed: the
\* worker is not told.
Fill(id) ==
  /\ up \/ Mode = "live"
  /\ id \in working
  /\ working' = working \ {id}
  /\ \/ Mode = "paper" /\ fills' = fills \union {id}
     \/ UNCHANGED fills
  /\ UNCHANGED <<asked, workerVars, ledgerVars, tableVars, controlVars, countVars>>

\* Mutant: fills are told apart by the client order id, which is empty.
HandleFirstFill(id) ==
  /\ up /\ id \in fills
  /\ fills' = fills \ {id}
  /\ IF seen # <<>>
     THEN UNCHANGED <<ledgerVars, recording>>
     ELSE /\ seen' = Remember(seen, id)
          /\ IF id \notin openOrders
             THEN UNCHANGED <<openOrders, restored, notional, qty, recording>>
             ELSE LET r == asked[id]
                  IN /\ openOrders' = openOrders \ {id}
                     /\ restored' = restored \ {id}
                     /\ notional' = [notional EXCEPT ![r.symbol] = Minus(@, r.size)]
                     /\ qty' = UpdatedQty(r)
                     /\ recording' = recording \union {id}
  /\ UNCHANGED <<asked, working, workerVars, table, alerts, controlVars, countVars>>

\* handle_fill up to its await.
HandleFill(id) ==
  /\ up /\ id \in fills
  /\ fills' = fills \ {id}
  /\ IF \E i \in DOMAIN seen : seen[i] = id
     THEN UNCHANGED <<ledgerVars, recording>>
     ELSE /\ seen' = Remember(seen, id)
          /\ IF id \notin openOrders
             THEN UNCHANGED <<openOrders, restored, notional, qty, recording>>
             ELSE LET r == asked[id]
                  IN /\ openOrders' = openOrders \ {id}
                     /\ restored' = restored \ {id}
                     /\ notional' = [notional EXCEPT ![r.symbol] = Minus(@, r.size)]
                     /\ qty' = UpdatedQty(r)
                     /\ recording' = recording \union {id}
  /\ UNCHANGED <<asked, working, workerVars, table, alerts, controlVars, countVars>>

\* The rest of handle_fill, once its row is written.  The breaker's P&L is
\* shared with other strategies, so any fill may find it below the limit;
\* tripping sets this strategy's stop_event among others.
RecordFilled(id) ==
  /\ up /\ id \in recording
  /\ recording' = recording \ {id}
  /\ table' \in Written(id, "filled")
  /\ \/ UNCHANGED <<tripFired, stopSet>>
     \/ Breaker /\ ~tripFired /\ tripFired' = TRUE /\ stopSet' = TRUE
  /\ UNCHANGED <<alerts, up, workerVars, ledgerVars, exchangeVars, countVars>>
------------------------------------------------------------------------------
\* The registry sets the stop_event: an unload, a reload or stop_all.
Stop ==
  /\ up /\ ~stopSet /\ restarts < MaxRestarts
  /\ stopSet' = TRUE
  /\ UNCHANGED <<up, tripFired, workerVars, ledgerVars, exchangeVars, tableVars, countVars>>

(* The thread ends, by a crash or after a stop, at any await; rows being    *)
(* written may or may not be in the table.  The paper client's fill tasks   *)
(* end with the loop they run on.                                           *)
EndThread ==
  /\ up /\ restarts < MaxRestarts
  /\ restarts' = restarts + 1
  /\ up' = FALSE
  /\ \E done \in SUBSET recording, last \in BOOLEAN :
       /\ last => pc = "placed"
       /\ table' = [id \in DOMAIN table |->
                      CASE id \in done -> "filled"
                        [] last /\ id = Len(asked) -> "placed"
                        [] OTHER -> table[id]]
  /\ queue' = <<>> /\ pc' = "loop" /\ req' = <<>> /\ fills' = {}
  /\ recording' = {} /\ seen' = <<>>
  /\ openOrders' = {} /\ restored' = {}
  /\ notional' = [s \in Symbols |-> 0] /\ qty' = [s \in Symbols |-> 0]
  /\ working' = IF Mode = "paper" THEN {} ELSE working
  /\ stopSet' = FALSE /\ tripFired' = FALSE
  /\ UNCHANGED <<asked, alerts, posts>>

Nonterminal == {id \in OrderIds : table[id] = "placed"}

\* What the orders ids ask for, together.
SizesOf(ids) == Total([id \in ids |-> asked[id].size], ids)

\* Mutant: a restored order overwrites the notional of those before it.
RestoreLast(ids) ==
  /\ openOrders' = ids /\ restored' = ids
  /\ notional' = [s \in Symbols |->
       LET mine == {id \in ids : asked[id].symbol = s}
       IN IF mine = {} THEN 0
          ELSE asked[CHOOSE id \in mine : \A o \in mine : o <= id].size]

\* restore_open_order for each row; restore_position is never called.
Restore(ids) ==
  /\ openOrders' = ids /\ restored' = ids
  /\ notional' = [s \in Symbols |-> SizesOf({id \in ids : asked[id].symbol = s})]

\* run_startup_reconciliation and the start of a new thread: paper mode
\* trusts the table; live mode restores what both the table and the exchange
\* know and reports orphans, or, when one of them does not answer, trusts the
\* table or starts empty.
Start ==
  /\ ~up
  /\ up' = TRUE
  /\ \/ Mode = "paper" /\ Restore(Nonterminal) /\ UNCHANGED alerts
     \/ Mode = "live" /\ Restore(Nonterminal \intersect working)
          /\ alerts' = alerts \union (working \ Nonterminal)
     \/ Mode = "live" /\ Restore(Nonterminal) /\ UNCHANGED alerts
     \/ Restore({}) /\ UNCHANGED alerts
  /\ UNCHANGED <<stopSet, tripFired, workerVars, qty, seen, exchangeVars, recording, table,
                 countVars>>
------------------------------------------------------------------------------
WorkerNext == EnterGet \/ GetTimesOut \/ Process \/ Answer \/ RecordPlaced \/ RecordFailed

FillNext ==
  \/ \E id \in working : Fill(id)
  \/ \E id \in fills : HandleFill(id)
  \/ \E id \in recording : RecordFilled(id)

Next == Post \/ WorkerNext \/ FillNext \/ Stop \/ EndThread \/ Start

Spec == Init /\ [][Next]_vars

(* The strategy's loop runs what is ready: the worker's task, a fill's task   *)
(* and the return of a write, which QuestDB's answer, error or timeout always *)
(* brings, go on in the end.  The watchdog restarts a thread that ended.      *)
Fairness ==
  /\ WF_vars(WorkerNext)
  /\ \A id \in 1..MaxPosts :
       WF_vars(Fill(id)) /\ WF_vars(HandleFill(id)) /\ WF_vars(RecordFilled(id))
  /\ WF_vars(Start)

FairSpec == Spec /\ Fairness
------------------------------------------------------------------------------
(* Properties.                                                              *)

Status == {"none", "placed", "filled"}

\* Types: the worker is in one of its awaits with the request that goes with
\* it, and the deque of seen fills never outgrows its cap.
TypeOK ==
  /\ up \in BOOLEAN /\ stopSet \in BOOLEAN /\ tripFired \in BOOLEAN
  /\ queue \in Seq(Request)
  /\ pc \in {"loop", "get", "placing", "placed", "failed", "dead"}
  /\ req \in Seq(Request)
  /\ Len(req) = IF pc \in {"placing", "placed", "failed"} THEN 1 ELSE 0
  /\ asked \in Seq(Request) /\ table \in Seq(Status) /\ Len(table) = Len(asked)
  /\ working \subseteq OrderIds /\ fills \subseteq OrderIds
  /\ recording \subseteq OrderIds /\ alerts \subseteq OrderIds
  /\ openOrders \subseteq OrderIds /\ restored \subseteq openOrders
  /\ notional \in [Symbols -> Nat] /\ qty \in [Symbols -> Nat]
  /\ seen \in Seq(OrderIds) /\ Len(seen) <= SeenCap
  /\ pc = "placed" => asked # <<>> /\ asked[Len(asked)] = req[1]
  /\ posts \in 0..MaxPosts /\ restarts \in 0..MaxRestarts

\* The running notional, which grows when an order opens or is restored and
\* shrinks, clamped at zero, when one is filled, is what the open orders ask
\* for: nothing leaks out of the gate's account or into it.
NotionalIsOpenOrders ==
  \A s \in Symbols : notional[s] = SizesOf({id \in openOrders : asked[id].symbol = s})

\* The orders this thread opened itself as entries.
Entries(s) == {id \in openOrders : asked[id].symbol = s /\ Role(id) = "entry"}

\* Duplicate filter: between the check and the moment an order is open lie an
\* exchange call and a table write; even so two entries of one symbol and
\* side are never open at once.
EntriesAreUnique ==
  \A s \in Symbols : \A a, b \in Entries(s) : asked[a].side = asked[b].side => a = b

\* Risk gate: the entries a thread has open in a symbol stay within the
\* position limit, though the gate looks before the call and the account is
\* updated after it.
EntriesWithinGate == \A s \in Symbols : SizesOf(Entries(s)) <= MaxPosition

\* Crash safety: whenever the thread may end, reconciliation finds every open
\* order in the table as one that is not terminal.
OpenOrdersAreRecoverable == \A id \in openOrders : table[id] = "placed"

\* The gate as a whole: every variable has its type, the account is the open
\* orders, and the entries it let pass stay within the limit.
GateIsSound == TypeOK /\ NotionalIsOpenOrders /\ EntriesWithinGate

\* Every posted request is taken from the queue, unless the worker is told to
\* stop or its thread ends.
RequestsAreProcessed == (queue # <<>>) ~> (queue = <<>> \/ stopSet)

\* An open order whose fill is reported is closed in the end or goes with its
\* thread, however many fills came before.
OpenOrdersAreFilled ==
  \A id \in 1..MaxPosts : (id \in openOrders \intersect fills) ~> (id \notin openOrders)
=============================================================================
