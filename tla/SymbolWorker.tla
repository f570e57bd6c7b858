----------------------------- MODULE SymbolWorker -----------------------------
(***************************************************************************)
(* The path of one symbol through the aggregator: the exchange adapter     *)
(* that turns WebSocket frames into ticks, the coordinator's fanout with   *)
(* its bounded channels, the snapshot dispatcher, and the per-symbol       *)
(* worker goroutine that writes the Redis stream ticks:{exchange}:{symbol}.*)
(*                                                                         *)
(* One action is one channel operation or one handler of one goroutine.    *)
(* What an order book delta says is abstracted to its sequence numbers;    *)
(* the stream keeps the order book records, gap markers and snapshot       *)
(* signals (trade records, which have no sequence, are only counted).      *)
(***************************************************************************)
EXTENDS Reconnect, FiniteSets, Functions

CONSTANTS
  Exchange,     (* "kucoin": frames number their first and last change;      *)
                (* "bybit": one update id shared by all levels of a frame    *)
  MaxSeq,       (* bound: the last sequence number the exchange assigns      *)
  MaxSpan,      (* bound: sequence numbers one frame covers                  *)
  MaxDeltas,    (* bound: price levels one frame changes                     *)
  MaxTrades,    (* bound: trade frames                                       *)
  TickCap,      (* capacity of the adapter's ticks channel                   *)
  DeltaCap,     (* capacity of the symbol's delta channel                    *)
  StreamMax,    (* MAXLEN of the Redis stream                                *)
  Fetchers,     (* goroutines the snapshot dispatcher may have running       *)
  Faults,       (* record kinds whose XADD may be given up                   *)
  MaxDrops,     (* bound: connection losses                                  *)
  MaxPanics,    (* bound: panics of the worker                               *)
  MaxRestarts   (* bound: stops of the process                               *)

ASSUME ParametersAreSane ==
  /\ Exchange \in {"kucoin", "bybit"}
  /\ {MaxSeq, MaxSpan, MaxDeltas, TickCap, DeltaCap} \subseteq Nat \ {0}
  /\ {MaxTrades, MaxDrops, MaxPanics, MaxRestarts} \subseteq Nat
  /\ StreamMax \in Nat /\ StreamMax >= 3
  /\ Faults \subseteq {"tick", "gap", "snap"}
  /\ IsFiniteSet(Fetchers)

VARIABLES
  exchSeq,        \* last sequence number the exchange assigned
  restSeq,        \* sequence number of the book its REST endpoint serves
  linkUp,         \* the WebSocket connection is up
  sending,        \* ticks of the current frame handleMarketData has yet to send
  ticks,          \* the adapter's ticks channel
  deltas,         \* the worker's delta channel
  snapReqs,       \* requests waiting in the dispatcher's channel
  fetch,          \* the dispatcher's goroutines
  resultCh,       \* the worker's result channel, capacity 1
  up,             \* the aggregator process runs
  recon,          \* the worker's reconnect machine
  lastSeq, lastMsgSeqEnd, book,
  stream,         \* the L2, gap and snapshot records of the Redis stream
  trades, drops, panics, restarts    \* what the bounds count

exchangeVars == <<exchSeq, restSeq, linkUp>>
channelVars  == <<sending, ticks, deltas>>
snapVars     == <<snapReqs, fetch, resultCh>>
workerVars   == <<recon, lastSeq, lastMsgSeqEnd, book>>
countVars    == <<trades, drops, panics, restarts>>
vars == <<exchangeVars, channelVars, snapVars, up, workerVars, stream, countVars>>
------------------------------------------------------------------------------
(* Ticks.  from..to are the numbers the whole frame covers and k of n the   *)
(* place of the tick in it; the code sees of these only what MsgSeqStart    *)
(* and MsgSeqEnd give.                                                      *)
Tick == [type : {"update", "trade"}, seq : Nat, from : Nat, to : Nat, k : Nat, n : Nat]

MsgSeqStart(t) == IF Exchange = "kucoin" /\ t.k = 1 THEN t.from ELSE 0
MsgSeqEnd(t)   == IF Exchange = "kucoin" THEN t.to ELSE 0

TradeTick == [type |-> "trade", seq |-> 0, from |-> 0, to |-> 0, k |-> 1, n |-> 1]

\* The levels of a frame, bids first and then asks: on KuCoin each has its
\* own number, in no particular order; on Bybit all share the update id.
FrameSeqs(from, to) ==
  IF Exchange = "kucoin"
  THEN UNION {{s \in [1..n -> from..to] : IsInjective(s)} : n \in 1..MaxDeltas}
  ELSE UNION {[1..n -> {to}] : n \in 1..MaxDeltas}

FrameTicks(from, to, seqs) ==
  [k \in DOMAIN seqs |-> [type |-> "update", seq |-> seqs[k],
                          from |-> from, to |-> to, k |-> k, n |-> Len(seqs)]]

(* A non-blocking send: the value is dropped when the channel is full.      *)
TrySend(ch, cap, v) == IF Len(ch) < cap THEN Append(ch, v) ELSE ch
------------------------------------------------------------------------------
(* The order book: the changes up to base came with the snapshot, those in  *)
(* has were applied one by one.                                             *)
NewBook == [lastSeq |-> 0, base |-> 0, has |-> {}]

Apply(b, t) ==
  IF t.seq <= b.lastSeq
  THEN b
  ELSE [b EXCEPT !.lastSeq = t.seq, !.has = @ \union {<<t.seq, t.k>>}]

\* A faulty snapshot that takes its number for that of the next change.
ApplySnapshotAsNext(seq) == [lastSeq |-> seq + 1, base |-> seq, has |-> {}]

ApplySnapshot(seq) == [lastSeq |-> seq, base |-> seq, has |-> {}]
------------------------------------------------------------------------------
(* Writing the stream.  XADD is retried until a deadline and then given up. *)
(* The After... operators give the streams a write may leave behind.        *)
TickRecord(t) == [kind |-> "tick", seq |-> t.seq, from |-> t.from, to |-> t.to,
                  k |-> t.k, n |-> t.n]
GapRecord(cause, before, after) ==
  [kind |-> "gap", cause |-> cause, before |-> before, after |-> after]
SnapRecord(seq) == [kind |-> "snap", seq |-> seq]

XAdd(s, r) == IF Len(s) < StreamMax THEN Append(s, r) ELSE Append(Tail(s), r)

Attempt(s, r) == {XAdd(s, r)} \union (IF r.kind \in Faults THEN {s} ELSE {})

AfterGap(s, cause, before, after) == Attempt(s, GapRecord(cause, before, after))

AfterTick(s, t) ==
  {XAdd(s, TickRecord(t))}
    \union (IF "tick" \in Faults
            THEN AfterGap(s, "external_disconnect", t.seq, t.seq) ELSE {})

AfterSnapshot(s, seq) == Attempt(s, SnapRecord(seq))
------------------------------------------------------------------------------
IdleFetcher == [state |-> "idle", seq |-> 0]

\* Something is on its way to the worker's result channel, or already in it.
SnapshotOutstanding ==
  \/ snapReqs > 0
  \/ \E f \in Fetchers : fetch[f].state # "idle"
  \/ resultCh # <<>>

\* A faulty request that counts on a result the caller has just consumed.
RequestUnlessOutstanding ==
  snapReqs' = IF SnapshotOutstanding THEN snapReqs ELSE snapReqs + 1

\* requestSnapshot: the send on the dispatcher's channel, which the
\* dispatcher never leaves full.
RequestSnapshot == snapReqs' = snapReqs + 1

\* The process's memory when it starts.
FreshProcess ==
  /\ sending = <<>> /\ ticks = <<>> /\ deltas = <<>>
  /\ snapReqs = 0 /\ resultCh = <<>>
  /\ fetch = [f \in Fetchers |-> IdleFetcher]
  /\ recon = NewMachine
  /\ lastSeq = 0 /\ lastMsgSeqEnd = 0 /\ book = NewBook

Init ==
  /\ FreshProcess
  /\ up = TRUE
  /\ exchSeq = 1 /\ restSeq = 1 /\ linkUp = TRUE
  /\ stream = <<>>
  /\ trades = 0 /\ drops = 0 /\ panics = 0 /\ restarts = 0
------------------------------------------------------------------------------
(* The exchange and the adapter.                                            *)

\* The exchange changes its book.  The frame reaches handleMarketData only
\* over a live connection, one frame at a time; otherwise it is lost.
ExchangeUpdate ==
  /\ \E span \in 1..MaxSpan :
       /\ exchSeq + span <= MaxSeq
       /\ exchSeq' = exchSeq + span
       /\ IF linkUp /\ up
          THEN /\ sending = <<>>
               /\ \E seqs \in FrameSeqs(exchSeq + 1, exchSeq + span) :
                    sending' = FrameTicks(exchSeq + 1, exchSeq + span, seqs)
          ELSE UNCHANGED sending
  /\ UNCHANGED <<restSeq, linkUp, ticks, deltas, snapVars, up, workerVars, stream, countVars>>

ExchangeTrade ==
  /\ up /\ linkUp /\ sending = <<>>
  /\ trades < MaxTrades
  /\ trades' = trades + 1
  /\ sending' = <<TradeTick>>
  /\ UNCHANGED <<exchangeVars, ticks, deltas, snapVars, up, workerVars, stream,
                 drops, panics, restarts>>

\* The REST endpoint lags behind the feed and catches up.
RestCatchUp ==
  /\ restSeq < exchSeq
  /\ restSeq' = exchSeq
  /\ UNCHANGED <<exchSeq, linkUp, channelVars, snapVars, up, workerVars, stream, countVars>>

\* sendTick: one tick of the frame, dropped when the channel is full.
SendTick ==
  /\ up /\ sending # <<>>
  /\ ticks' = TrySend(ticks, TickCap, Head(sending))
  /\ sending' = Tail(sending)
  /\ UNCHANGED <<exchangeVars, deltas, snapVars, up, workerVars, stream, countVars>>

\* The connection drops.  readLoop finishes the frame at hand, runLoop waits
\* for it and emits NeedsSnapshot signals, which runSignalDrain only logs.
Disconnect ==
  /\ up /\ linkUp
  /\ sending = <<>>
  /\ drops < MaxDrops
  /\ drops' = drops + 1
  /\ linkUp' = FALSE
  /\ UNCHANGED <<exchSeq, restSeq, channelVars, snapVars, up, workerVars, stream,
                 trades, panics, restarts>>

Redial ==
  /\ up /\ ~linkUp
  /\ linkUp' = TRUE
  /\ UNCHANGED <<exchSeq, restSeq, channelVars, snapVars, up, workerVars, stream, countVars>>
------------------------------------------------------------------------------
(* The coordinator: fanout and snapshot dispatcher.                         *)

RunTickFanout ==
  /\ up /\ ticks # <<>>
  /\ deltas' = TrySend(deltas, DeltaCap, Head(ticks))
  /\ ticks' = Tail(ticks)
  /\ UNCHANGED <<exchangeVars, sending, snapVars, up, workerVars, stream, countVars>>

\* The dispatcher starts a goroutine for a request.
DispatchRequest(f) ==
  /\ up /\ snapReqs > 0
  /\ fetch[f].state = "idle"
  /\ snapReqs' = snapReqs - 1
  /\ fetch' = [fetch EXCEPT ![f].state = "running"]
  /\ UNCHANGED <<exchangeVars, channelVars, resultCh, up, workerVars, stream, countVars>>

\* fetchWithRetry returns: failed attempts before it change nothing.
FetchSnapshot(f) ==
  /\ up /\ fetch[f].state = "running"
  /\ fetch' = [fetch EXCEPT ![f] = [state |-> "holding", seq |-> restSeq]]
  /\ UNCHANGED <<exchangeVars, channelVars, snapReqs, resultCh, up, workerVars, stream, countVars>>

\* A faulty goroutine that fetches again after it has answered.
SendResultAndGoOn(f) ==
  /\ up /\ fetch[f].state = "holding"
  /\ resultCh = <<>>
  /\ resultCh' = <<fetch[f].seq>>
  /\ fetch' = [fetch EXCEPT ![f].state = "running"]
  /\ UNCHANGED <<exchangeVars, channelVars, snapReqs, up, workerVars, stream, countVars>>

\* The goroutine's blocking send on the worker's result channel.
SendResult(f) ==
  /\ up /\ fetch[f].state = "holding"
  /\ resultCh = <<>>
  /\ resultCh' = <<fetch[f].seq>>
  /\ fetch' = [fetch EXCEPT ![f] = IdleFetcher]
  /\ UNCHANGED <<exchangeVars, channelVars, snapReqs, up, workerVars, stream, countVars>>
------------------------------------------------------------------------------
(* The worker.                                                              *)

\* loop() asks for the first snapshot before it reads anything.
RequestInitial ==
  /\ up /\ recon.state = "Initial"
  /\ recon' = NeedsSnapshotNow(recon)
  /\ RequestSnapshot
  /\ UNCHANGED <<exchangeVars, channelVars, fetch, resultCh, up, lastSeq, lastMsgSeqEnd,
                 book, stream, countVars>>

ReadTick(type) ==
  /\ up /\ recon.state # "Initial"
  /\ deltas # <<>> /\ Head(deltas).type = type
  /\ deltas' = Tail(deltas)

\* handleTick, trades: written when Live, dropped while Buffering.
HandleTrade ==
  /\ ReadTick("trade")
  /\ UNCHANGED <<exchangeVars, sending, ticks, snapVars, up, workerVars, stream, countVars>>

\* handleTick while Buffering: only the sequence number is kept.
BufferTick ==
  /\ ReadTick("update")
  /\ recon.state = "Buffering"
  /\ recon' = Feed(recon, Head(deltas).seq)
  /\ UNCHANGED <<exchangeVars, sending, ticks, snapVars, up, lastSeq, lastMsgSeqEnd,
                 book, stream, countVars>>

DetectsGap(t) ==
  IF MsgSeqEnd(t) # 0
  THEN MsgSeqStart(t) > 0 /\ lastMsgSeqEnd > 0 /\ IsGap(lastMsgSeqEnd, MsgSeqStart(t))
  ELSE lastSeq > 0 /\ IsGap(lastSeq, t.seq)

SeqBefore(t) == IF MsgSeqEnd(t) # 0 THEN lastMsgSeqEnd ELSE lastSeq
SeqAfter(t)  == IF MsgSeqEnd(t) # 0 THEN MsgSeqStart(t) ELSE t.seq

\* What the gap test of handleTick leaves in the stream.
AfterGapTest(t) ==
  IF DetectsGap(t)
  THEN AfterGap(stream, "external_disconnect", SeqBefore(t), SeqAfter(t))
  ELSE {stream}

\* handleTick when Live: gap test, book, stream.
LiveTick ==
  /\ ReadTick("update")
  /\ recon.state = "Live"
  /\ LET t == Head(deltas)
     IN /\ \E s \in AfterGapTest(t) : stream' \in AfterTick(s, t)
        /\ lastMsgSeqEnd' = IF MsgSeqEnd(t) # 0 THEN MsgSeqEnd(t) ELSE lastMsgSeqEnd
        /\ lastSeq' = IF MsgSeqEnd(t) # 0 THEN lastSeq ELSE t.seq
        /\ book' = Apply(book, t)
  /\ UNCHANGED <<exchangeVars, sending, ticks, snapVars, up, recon, countVars>>

\* A faulty loop that leaves results alone unless it waits for one.
ReadResultIfBuffering ==
  /\ up /\ recon.state = "Buffering"
  /\ resultCh # <<>>
  /\ resultCh' = <<>>

ReadResult ==
  /\ up /\ recon.state # "Initial"
  /\ resultCh # <<>>
  /\ resultCh' = <<>>

\* handleSnapshot outside Buffering: a late result of a second request.
DiscardSnapshot ==
  /\ ReadResult
  /\ recon.state # "Buffering"
  /\ UNCHANGED <<exchangeVars, channelVars, snapReqs, fetch, up, workerVars, stream, countVars>>

\* handleSnapshot, merge error: the book already holds the stale snapshot.
StaleSnapshot ==
  /\ ReadResult
  /\ recon.state = "Buffering"
  /\ IsStale(recon, Head(resultCh))
  /\ book' = ApplySnapshot(Head(resultCh))
  /\ stream' \in AfterGap(stream, "internal_merge_error", lastSeq, lastSeq + 1)
  /\ RequestSnapshot
  /\ UNCHANGED <<exchangeVars, channelVars, fetch, up, recon, lastSeq, lastMsgSeqEnd, countVars>>

\* handleSnapshot, merged: trackers are anchored at the snapshot, the replay
\* list is thrown away, the candle service is told.
MergeSnapshot ==
  /\ ReadResult
  /\ recon.state = "Buffering"
  /\ ~IsStale(recon, Head(resultCh))
  /\ book' = ApplySnapshot(Head(resultCh))
  /\ recon' = GoLive(recon)
  /\ lastSeq' = Head(resultCh)
  /\ lastMsgSeqEnd' = Head(resultCh)
  /\ stream' \in AfterSnapshot(stream, Head(resultCh))
  /\ UNCHANGED <<exchangeVars, channelVars, snapReqs, fetch, up, countVars>>

\* Run's recover(): the tick or result being handled is gone, the result
\* channel is drained, and the machine buffers again.
Panic ==
  /\ up /\ recon.state # "Initial"
  /\ panics < MaxPanics
  /\ panics' = panics + 1
  /\ \/ deltas # <<>> /\ deltas' = Tail(deltas)
     \/ resultCh # <<>> /\ UNCHANGED deltas
  /\ resultCh' = <<>>
  /\ stream' \in AfterGap(stream, "internal_merge_error", lastSeq, lastSeq + 1)
  /\ lastSeq' = 0
  /\ lastMsgSeqEnd' = 0
  /\ recon' = NeedsSnapshotNow(recon)
  /\ RequestSnapshot
  /\ UNCHANGED <<exchangeVars, sending, ticks, fetch, up, book, trades, drops, restarts>>
------------------------------------------------------------------------------
(* The process stops and starts.                                            *)

StopProcess ==
  /\ up
  /\ restarts < MaxRestarts
  /\ up' = FALSE
  /\ restarts' = restarts + 1
  /\ UNCHANGED <<exchangeVars, channelVars, snapVars, workerVars, trades, drops, panics>>

\* Shutdown on a signal: only a worker that is still Buffering leaves a marker.
Shutdown ==
  /\ StopProcess
  /\ IF recon.state = "Buffering"
     THEN stream' \in AfterGap(stream, "external_disconnect", lastSeq, lastSeq + 1)
     ELSE UNCHANGED stream

Crash ==
  /\ StopProcess
  /\ UNCHANGED stream

Restart ==
  /\ ~up
  /\ up' = TRUE
  /\ linkUp' = TRUE
  /\ sending' = <<>> /\ ticks' = <<>> /\ deltas' = <<>>
  /\ snapReqs' = 0 /\ resultCh' = <<>>
  /\ fetch' = [f \in Fetchers |-> IdleFetcher]
  /\ recon' = NewMachine
  /\ lastSeq' = 0 /\ lastMsgSeqEnd' = 0 /\ book' = NewBook
  /\ UNCHANGED <<exchSeq, restSeq, stream, countVars>>
------------------------------------------------------------------------------
ExchangeNext == ExchangeUpdate \/ ExchangeTrade \/ RestCatchUp
AdapterNext  == SendTick \/ Disconnect \/ Redial
WorkerNext   == \/ RequestInitial \/ HandleTrade \/ BufferTick \/ LiveTick
                \/ DiscardSnapshot \/ StaleSnapshot \/ MergeSnapshot
DispatcherNext == \E f \in Fetchers : DispatchRequest(f) \/ FetchSnapshot(f) \/ SendResult(f)
ProcessNext  == Panic \/ Shutdown \/ Crash \/ Restart

Next == ExchangeNext \/ AdapterNext \/ RunTickFanout \/ DispatcherNext \/ WorkerNext \/ ProcessNext

Spec == Init /\ [][Next]_vars

(* Fairness: every goroutine that can take a step eventually does; a select *)
(* with several ready cases picks each of them at random, and a fetch is    *)
(* retried until it succeeds.  Nothing is assumed of the feed, of panics or *)
(* of the process being stopped.                                            *)
Fairness ==
  /\ WF_vars(SendTick) /\ WF_vars(Redial) /\ WF_vars(RunTickFanout) /\ WF_vars(RestCatchUp)
  /\ WF_vars(RequestInitial)
  /\ WF_vars(HandleTrade \/ BufferTick \/ LiveTick)
  /\ WF_vars(DiscardSnapshot \/ StaleSnapshot \/ MergeSnapshot)
  /\ \A f \in Fetchers : /\ WF_vars(DispatchRequest(f))
                          /\ WF_vars(FetchSnapshot(f))
                          /\ WF_vars(SendResult(f))

FairSpec == Spec /\ Fairness
------------------------------------------------------------------------------
(* Properties.                                                              *)

StreamRecord ==
  [kind : {"tick"}, seq : Nat, from : Nat, to : Nat, k : Nat, n : Nat]
    \union [kind : {"gap"}, cause : {"external_disconnect", "internal_merge_error"},
            before : Nat, after : Nat]
    \union [kind : {"snap"}, seq : Nat]

\* Every variable stays in its range, and no channel of coordinator.go and
\* symbol.go ever holds more than its capacity.
TypeOK ==
  /\ exchSeq \in Nat /\ restSeq \in Nat /\ linkUp \in BOOLEAN /\ up \in BOOLEAN
  /\ sending \in Seq(Tick) /\ ticks \in Seq(Tick) /\ deltas \in Seq(Tick)
  /\ Len(ticks) <= TickCap /\ Len(deltas) <= DeltaCap
  /\ snapReqs \in Nat
  /\ fetch \in [Fetchers -> [state : {"idle", "running", "holding"}, seq : Nat]]
  /\ resultCh \in Seq(Nat) /\ Len(resultCh) <= 1
  /\ recon \in Machines
  /\ lastSeq \in Nat /\ lastMsgSeqEnd \in Nat
  /\ book \in [lastSeq : Nat, base : Nat, has : SUBSET (Nat \X Nat)]
  /\ stream \in Seq(StreamRecord) /\ Len(stream) <= StreamMax
  /\ trades \in Nat /\ drops \in Nat /\ panics \in Nat /\ restarts \in Nat

\* r can follow p in the stream without anything missing between them.
Follows(p, r) ==
  \/ p.kind = "gap"
  \/ p.kind = "snap" /\ r.k = 1 /\ r.from = p.seq + 1
  \/ p.kind = "tick" /\ p.k = p.n /\ r.k = 1 /\ r.from = p.to + 1
  \/ p.kind = "tick" /\ p.to = r.to /\ r.k = p.k + 1

IsMarked(s) ==
  \A i \in 2..Len(s) : s[i].kind = "tick" => Follows(s[i-1], s[i])

\* What the stream promises (docs/data-contract.md 1.1): whoever reads it in
\* order meets a gap marker before the first tick that follows a loss, be it
\* a full channel, a lost connection, a panic, a discarded replay or a new
\* process; after a snapshot signal the first tick is the snapshot's successor.
LossIsMarked == IsMarked(stream)

\* A worker that waits for a snapshot is never forgotten: whatever panics,
\* stale merges and drained results there were, a request, a fetch or a
\* result is on its way (symbol.go Run and handleSnapshot).
SnapshotPending == up /\ recon.state = "Buffering" => SnapshotOutstanding

\* Snapshots in progress.
Outstanding ==
  snapReqs + Cardinality({f \in Fetchers : fetch[f].state # "idle"}) + Len(resultCh)

\* Only a panic starts a second fetch, and without one a live worker has
\* none left that could overwrite its book (snapshot.go: the goroutines of
\* the dispatcher are bounded).
FetchesAreBounded ==
  /\ Outstanding <= 1 + panics
  /\ up /\ recon.state = "Live" /\ panics = 0 => Outstanding = 0

Reflects(b, r) == r.seq <= b.base \/ <<r.seq, r.k>> \in b.has

\* The book of a live worker contains every change it wrote to the stream
\* since its snapshot (reconnect.go: "StateLive means the book is up-to-date").
BookReflectsStream ==
  up /\ recon.state = "Live" =>
    \A i \in 1..Len(stream) :
      \/ stream[i].kind # "tick"
      \/ \E j \in i..Len(stream) : stream[j].kind = "snap"
      \/ Reflects(book, stream[i])

\* The book of a live worker is its snapshot with the changes written since,
\* and no fetch is left that could put an older one in its place.
BookIsSound == FetchesAreBounded /\ BookReflectsStream

\* A worker gets its book live, however stale the snapshots it is served at
\* first and whatever panics interrupt it.
EventuallyLive == up /\ recon.state # "Live" ~> recon.state = "Live" \/ ~up

\* No goroutine of the dispatcher waits on a result channel forever
\* (symbol.go: "sending twice blocks the dispatcher goroutine permanently").
ResultsAreTaken ==
  \A f \in Fetchers : fetch[f].state = "holding" ~> fetch[f].state # "holding" \/ ~up
=============================================================================
