--------------------------- MODULE MarketDataProofs ---------------------------
(***************************************************************************)
(* Proofs about the way of the market data, from the exchange to the        *)
(* stream (SymbolWorker) and from the database to the archive (Flusher),    *)
(* for every value of their constants.                                      *)
(*                                                                          *)
(* SymbolWorker: the type invariant, that a waiting worker is never         *)
(* forgotten, that the stream marks every loss, and that the book of a live *)
(* worker is the one its stream tells of.                                   *)
(*                                                                          *)
(* Flusher: its types, that what it records is in the bucket, and that in   *)
(* an ordinary course no day is passed over.  The argument about days: a    *)
(* catch-up, a daily flush and a waiting slot each have a first day they    *)
(* still answer for, and no missed day is before it.  A catch-up reaches at *)
(* least to the day before the one that the next flush time exports, so the *)
(* slot may wait when it is over.                                           *)
(***************************************************************************)
EXTENDS SymbolWorker, Flusher, FiniteSetTheorems, TLAPS

------------------------------------------------------------------------------
(* Lemmas about the operators.                                              *)

\* A tick of any channel is a record of the right shape.
LEMMA TradeTickType == TradeTick \in Tick
  BY DEF TradeTick, Tick

\* The ticks of a frame are a sequence of order book ticks, numbered 1..n.
LEMMA FrameTicksType ==
  ASSUME NEW from \in Nat, NEW to \in Nat, NEW seqs \in FrameSeqs(from, to)
  PROVE  /\ FrameTicks(from, to, seqs) \in Seq(Tick)
         /\ Len(FrameTicks(from, to, seqs)) \in 1..MaxDeltas
  <1>1. PICK n \in 1..MaxDeltas : seqs \in [1..n -> Nat]
    <2>1. CASE Exchange = "kucoin"
      <3>1. from..to \subseteq Nat  OBVIOUS
      <3> QED BY <2>1, <3>1 DEF FrameSeqs
    <2>2. CASE Exchange # "kucoin"
      BY <2>2 DEF FrameSeqs
    <2> QED BY <2>1, <2>2
  <1>0. MaxDeltas \in Nat  BY ParametersAreSane
  <1>2. n \in Nat /\ seqs \in Seq(Nat) /\ Len(seqs) = n /\ DOMAIN seqs = 1..n
    BY <1>0, <1>1
  <1>3. FrameTicks(from, to, seqs) \in [1..n -> Tick]
    BY <1>1, <1>2 DEF FrameTicks, Tick
  <1> QED BY <1>0, <1>1, <1>2, <1>3

\* A non-blocking send never overfills a channel.
LEMMA TrySendType ==
  ASSUME NEW T, NEW ch \in Seq(T), NEW v \in T, NEW cap \in Nat, Len(ch) <= cap
  PROVE  TrySend(ch, cap, v) \in Seq(T) /\ Len(TrySend(ch, cap, v)) <= cap
  BY DEF TrySend

\* XADD with MAXLEN keeps the stream within its bound, and ends it with the
\* new record.
LEMMA XAddType ==
  ASSUME NEW s \in Seq(StreamRecord), Len(s) <= StreamMax, NEW r \in StreamRecord
  PROVE  /\ XAdd(s, r) \in Seq(StreamRecord)
         /\ Len(XAdd(s, r)) \in 1..StreamMax
         /\ XAdd(s, r)[Len(XAdd(s, r))] = r
  <1>0. StreamMax \in Nat /\ StreamMax >= 3  BY ParametersAreSane
  <1>1. CASE Len(s) < StreamMax  BY <1>0, <1>1 DEF XAdd
  <1>2. CASE ~(Len(s) < StreamMax)
    <2>1. Len(s) = StreamMax /\ s # <<>>  BY <1>0, <1>2
    <2>2. Tail(s) \in Seq(StreamRecord) /\ Len(Tail(s)) = StreamMax - 1  BY <1>0, <2>1
    <2> QED BY <1>0, <1>2, <2>2 DEF XAdd
  <1> QED BY <1>1, <1>2

\* What an XADD that may be given up leaves behind.
LEMMA AttemptType ==
  ASSUME NEW s \in Seq(StreamRecord), Len(s) <= StreamMax, NEW r \in StreamRecord,
         NEW t \in Attempt(s, r)
  PROVE  t \in Seq(StreamRecord) /\ Len(t) <= StreamMax
  <1>1. StreamMax \in Nat  BY ParametersAreSane
  <1>2. t = XAdd(s, r) \/ t = s  BY DEF Attempt
  <1>3. CASE t = XAdd(s, r)  BY <1>1, <1>3, XAddType
  <1>4. CASE t = s  BY <1>4
  <1> QED BY <1>2, <1>3, <1>4

LEMMA AfterGapType ==
  ASSUME NEW s \in Seq(StreamRecord), Len(s) <= StreamMax,
         NEW cause \in {"external_disconnect", "internal_merge_error"},
         NEW before \in Nat, NEW after \in Nat,
         NEW t \in AfterGap(s, cause, before, after)
  PROVE  t \in Seq(StreamRecord) /\ Len(t) <= StreamMax
  <1>1. GapRecord(cause, before, after) \in StreamRecord  BY DEF GapRecord, StreamRecord
  <1> QED BY <1>1, AttemptType DEF AfterGap

LEMMA AfterTickType ==
  ASSUME NEW s \in Seq(StreamRecord), Len(s) <= StreamMax, NEW t \in Tick,
         NEW u \in AfterTick(s, t)
  PROVE  u \in Seq(StreamRecord) /\ Len(u) <= StreamMax
  <1>1. TickRecord(t) \in StreamRecord /\ t.seq \in Nat
    BY DEF TickRecord, StreamRecord, Tick
  <1>2. StreamMax \in Nat  BY ParametersAreSane
  <1>3. CASE u = XAdd(s, TickRecord(t))
    BY <1>1, <1>2, <1>3, XAddType
  <1>4. CASE u \in AfterGap(s, "external_disconnect", t.seq, t.seq)
    BY <1>1, <1>4, AfterGapType
  <1> QED BY <1>3, <1>4 DEF AfterTick

LEMMA AfterSnapshotType ==
  ASSUME NEW s \in Seq(StreamRecord), Len(s) <= StreamMax, NEW seq \in Nat,
         NEW t \in AfterSnapshot(s, seq)
  PROVE  t \in Seq(StreamRecord) /\ Len(t) <= StreamMax
  <1>1. SnapRecord(seq) \in StreamRecord  BY DEF SnapRecord, StreamRecord
  <1> QED BY <1>1, AttemptType DEF AfterSnapshot
------------------------------------------------------------------------------
(* The type invariant.                                                      *)

\* An update a worker reads is a tick.
LEMMA HeadOfDeltas ==
  ASSUME TypeOK, NEW type, ReadTick(type)
  PROVE  /\ Head(deltas) \in Tick /\ Head(deltas).seq \in Nat
         /\ deltas' \in Seq(Tick) /\ Len(deltas') <= DeltaCap
  <1>1. deltas \in Seq(Tick) /\ deltas # <<>> /\ Len(deltas) <= DeltaCap
        /\ deltas' = Tail(deltas)
    BY DEF TypeOK, ReadTick
  <1>2. Head(deltas) \in Tick /\ Tail(deltas) \in Seq(Tick) /\ Len(Tail(deltas)) = Len(deltas) - 1
        /\ Len(deltas) \in Nat
    BY <1>1
  <1>3. Head(deltas).seq \in Nat  BY <1>2 DEF Tick
  <1>4. DeltaCap \in Nat  BY ParametersAreSane
  <1> QED BY <1>1, <1>2, <1>3, <1>4

\* A result a worker reads is a sequence number.
LEMMA HeadOfResultCh ==
  ASSUME TypeOK, ReadResult
  PROVE  Head(resultCh) \in Nat /\ resultCh' \in Seq(Nat) /\ Len(resultCh') <= 1
  BY DEF TypeOK, ReadResult

\* The machine of a worker stays one.
LEMMA MachineType ==
  ASSUME NEW m \in Machines, NEW seq \in Nat
  PROVE  /\ NewMachine \in Machines /\ NeedsSnapshotNow(m) \in Machines
         /\ Feed(m, seq) \in Machines /\ GoLive(m) \in Machines
         /\ NeedsSnapshotNow(m).state = "Buffering" /\ NewMachine.state = "Initial"
         /\ Feed(m, seq).state = m.state /\ GoLive(m).state = "Live"
  <1>1. NewMachine \in Machines /\ NewMachine.state = "Initial"
    BY DEF Machines, States, NewMachine
  <1>2. NeedsSnapshotNow(m) \in Machines /\ NeedsSnapshotNow(m).state = "Buffering"
    BY DEF Machines, States, NeedsSnapshotNow
  <1>3. Feed(m, seq) \in Machines /\ Feed(m, seq).state = m.state
    BY DEF Machines, States, Feed
  <1>4. GoLive(m) \in Machines /\ GoLive(m).state = "Live"
    BY DEF Machines, States, GoLive
  <1> QED BY <1>1, <1>2, <1>3, <1>4

LEMMA TypeInit == Init => TypeOK
  <1> SUFFICES ASSUME Init PROVE TypeOK  OBVIOUS
  <1>1. recon \in Machines  BY DEF Init, FreshProcess, Machines, States, NewMachine
  <1>2. StreamMax \in Nat /\ TickCap \in Nat /\ DeltaCap \in Nat  BY ParametersAreSane
  <1>3. StreamMax >= 0 /\ TickCap >= 0 /\ DeltaCap >= 0  BY <1>2
  <1>4. fetch \in [Fetchers -> [state : {"idle", "running", "holding"}, seq : Nat]]
    BY DEF Init, FreshProcess, IdleFetcher
  <1>5. book \in [lastSeq : Nat, base : Nat, has : SUBSET (Nat \X Nat)]
    BY DEF Init, FreshProcess, NewBook
  <1> QED BY <1>1, <1>2, <1>3, <1>4, <1>5 DEF Init, FreshProcess, TypeOK

\* Every action keeps every variable in its range.
LEMMA TypeStep == TypeOK /\ [Next]_vars => TypeOK'
  <1> SUFFICES ASSUME TypeOK, [Next]_vars PROVE TypeOK'  OBVIOUS
  <1>0. /\ MaxSpan \in Nat /\ TickCap \in Nat /\ DeltaCap \in Nat
        /\ StreamMax \in Nat /\ StreamMax >= 3
        /\ TickCap >= 0 /\ DeltaCap >= 0
    BY ParametersAreSane
  <1>1. CASE ExchangeUpdate
    <2>1. PICK span \in 1..MaxSpan :
             /\ exchSeq' = exchSeq + span
             /\ IF linkUp /\ up
                THEN \E seqs \in FrameSeqs(exchSeq + 1, exchSeq + span) :
                       sending' = FrameTicks(exchSeq + 1, exchSeq + span, seqs)
                ELSE UNCHANGED sending
      BY <1>1 DEF ExchangeUpdate
    <2>2. exchSeq + 1 \in Nat /\ exchSeq + span \in Nat  BY <1>0, <2>1 DEF TypeOK
    <2>3. sending' \in Seq(Tick)
      BY <2>1, <2>2, FrameTicksType DEF TypeOK
    <2> QED BY <1>1, <2>1, <2>2, <2>3
            DEF ExchangeUpdate, TypeOK, snapVars, workerVars, countVars
  <1>2. CASE ExchangeTrade
    <2>1. sending' \in Seq(Tick)  BY <1>2, TradeTickType DEF ExchangeTrade
    <2> QED BY <1>2, <2>1 DEF ExchangeTrade, TypeOK, exchangeVars, snapVars, workerVars
  <1>3. CASE RestCatchUp
    BY <1>3 DEF RestCatchUp, TypeOK, channelVars, snapVars, workerVars, countVars
  <1>4. CASE SendTick
    <2>1. sending \in Seq(Tick) /\ sending # <<>>  BY <1>4 DEF SendTick, TypeOK
    <2>2. Head(sending) \in Tick /\ Tail(sending) \in Seq(Tick)  BY <2>1
    <2>3. ticks' \in Seq(Tick) /\ Len(ticks') <= TickCap
      BY <1>0, <1>4, <2>2, TrySendType DEF SendTick, TypeOK
    <2> QED BY <1>4, <2>2, <2>3
            DEF SendTick, TypeOK, exchangeVars, snapVars, workerVars, countVars
  <1>5. CASE Disconnect
    <2>1. linkUp' \in BOOLEAN
      <3>1. linkUp' = FALSE  BY <1>5 DEF Disconnect
      <3> QED BY <3>1, Zenon
    <2>2. drops' \in Nat
      <3>1. drops' = drops + 1  BY <1>5 DEF Disconnect
      <3> QED BY <3>1 DEF TypeOK
    <2> QED BY <1>5, <2>1, <2>2 DEF Disconnect, TypeOK, channelVars, snapVars, workerVars
  <1>6. CASE Redial
    BY <1>6 DEF Redial, TypeOK, channelVars, snapVars, workerVars, countVars
  <1>7. CASE RunTickFanout
    <2>1. ticks \in Seq(Tick) /\ ticks # <<>>  BY <1>7 DEF RunTickFanout, TypeOK
    <2>2. Head(ticks) \in Tick /\ Tail(ticks) \in Seq(Tick) /\ Len(Tail(ticks)) = Len(ticks) - 1
          /\ Len(ticks) \in Nat
      BY <2>1
    <2>3. deltas' \in Seq(Tick) /\ Len(deltas') <= DeltaCap
      BY <1>0, <1>7, <2>2, TrySendType DEF RunTickFanout, TypeOK
    <2> QED BY <1>0, <1>7, <2>2, <2>3
            DEF RunTickFanout, TypeOK, exchangeVars, snapVars, workerVars, countVars
  <1>8. CASE DispatcherNext
    <2>1. PICK f \in Fetchers : DispatchRequest(f) \/ FetchSnapshot(f) \/ SendResult(f)
      BY <1>8 DEF DispatcherNext
    <2>2. fetch' \in [Fetchers -> [state : {"idle", "running", "holding"}, seq : Nat]]
      <3>1. CASE DispatchRequest(f)  BY <3>1 DEF DispatchRequest, TypeOK
      <3>2. CASE FetchSnapshot(f)  BY <3>2 DEF FetchSnapshot, TypeOK
      <3>3. CASE SendResult(f)  BY <3>3 DEF SendResult, TypeOK, IdleFetcher
      <3> QED BY <2>1, <3>1, <3>2, <3>3
    <2>3. snapReqs' \in Nat
      BY SMTT(30), <2>1 DEF DispatchRequest, FetchSnapshot, SendResult, TypeOK
    <2>4. resultCh' \in Seq(Nat) /\ Len(resultCh') <= 1
      <3>1. resultCh' = resultCh \/ \E x \in Nat : resultCh' = <<x>>
        BY <2>1 DEF DispatchRequest, FetchSnapshot, SendResult, TypeOK
      <3>3. CASE resultCh' = resultCh  BY <3>3 DEF TypeOK
      <3>4. CASE \E x \in Nat : resultCh' = <<x>>
        <4>1. PICK x \in Nat : resultCh' = <<x>>  BY <3>4
        <4> QED BY <4>1
      <3> QED BY <3>1, <3>3, <3>4
    <2>5. UNCHANGED <<exchangeVars, channelVars, up, workerVars, stream, countVars>>
      BY <2>1 DEF DispatchRequest, FetchSnapshot, SendResult
    <2> QED BY <2>2, <2>3, <2>4, <2>5
            DEF TypeOK, exchangeVars, channelVars, workerVars, countVars
  <1>9. CASE RequestInitial
    <2>1. recon' \in Machines /\ snapReqs' \in Nat
      BY <1>9, MachineType DEF RequestInitial, RequestSnapshot, TypeOK
    <2> QED BY <1>9, <2>1
            DEF RequestInitial, TypeOK, exchangeVars, channelVars, countVars
  <1>10. CASE HandleTrade
    <2>1. deltas' \in Seq(Tick) /\ Len(deltas') <= DeltaCap
      BY <1>10, HeadOfDeltas DEF HandleTrade
    <2> QED BY <1>10, <2>1
            DEF HandleTrade, TypeOK, exchangeVars, snapVars, workerVars, countVars
  <1>11. CASE BufferTick
    <2>1. /\ deltas' \in Seq(Tick) /\ Len(deltas') <= DeltaCap
          /\ Head(deltas).seq \in Nat
      BY <1>11, HeadOfDeltas DEF BufferTick
    <2>2. recon' \in Machines  BY <1>11, <2>1, MachineType DEF BufferTick, TypeOK
    <2> QED BY <1>11, <2>1, <2>2
            DEF BufferTick, TypeOK, exchangeVars, snapVars, countVars
  <1>12. CASE LiveTick
    <2> DEFINE t == Head(deltas)
    <2>1. deltas' \in Seq(Tick) /\ Len(deltas') <= DeltaCap /\ t \in Tick /\ t.seq \in Nat
      BY <1>12, HeadOfDeltas DEF LiveTick
    <2>2. MsgSeqEnd(t) \in Nat /\ MsgSeqStart(t) \in Nat
      BY <2>1 DEF MsgSeqEnd, MsgSeqStart, Tick
    <2>3. lastMsgSeqEnd' \in Nat /\ lastSeq' \in Nat
      BY <1>12, <2>1, <2>2 DEF LiveTick, TypeOK
    <2>4. book' \in [lastSeq : Nat, base : Nat, has : SUBSET (Nat \X Nat)]
      <3>1. <<t.seq, t.k>> \in Nat \X Nat  BY <2>1 DEF Tick
      <3>2. book' = Apply(book, t)  BY <1>12 DEF LiveTick
      <3>3. book.has \union {<<t.seq, t.k>>} \in SUBSET (Nat \X Nat)
        BY <3>1 DEF TypeOK
      <3> HIDE DEF t
      <3>4. CASE t.seq <= book.lastSeq  BY <3>2, <3>4 DEF Apply, TypeOK
      <3>5. CASE ~(t.seq <= book.lastSeq)
        <4>1. book' = [book EXCEPT !.lastSeq = t.seq, !.has = @ \union {<<t.seq, t.k>>}]
          BY <3>2, <3>5 DEF Apply
        <4> QED BY <2>1, <3>3, <4>1 DEF TypeOK
      <3> QED BY <3>4, <3>5
    <2>5. stream' \in Seq(StreamRecord) /\ Len(stream') <= StreamMax
      <3>1. PICK s \in AfterGapTest(t) : stream' \in AfterTick(s, t)
        BY <1>12 DEF LiveTick
      <3>2. SeqBefore(t) \in Nat /\ SeqAfter(t) \in Nat
        BY <2>1, <2>2 DEF SeqBefore, SeqAfter, TypeOK
      <3>3. s \in Seq(StreamRecord) /\ Len(s) <= StreamMax
        BY <3>1, <3>2, AfterGapType DEF AfterGapTest, TypeOK
      <3> QED BY <2>1, <3>1, <3>3, AfterTickType
    <2> QED BY <1>12, <2>1, <2>3, <2>4, <2>5
            DEF LiveTick, TypeOK, exchangeVars, snapVars, countVars
  <1>13. CASE DiscardSnapshot
    <2>1. resultCh' \in Seq(Nat) /\ Len(resultCh') <= 1
      BY <1>13, HeadOfResultCh DEF DiscardSnapshot
    <2> QED BY <1>13, <2>1
            DEF DiscardSnapshot, TypeOK, exchangeVars, channelVars, workerVars, countVars
  <1>14. CASE StaleSnapshot
    <2>1. Head(resultCh) \in Nat /\ resultCh' \in Seq(Nat) /\ Len(resultCh') <= 1
      BY <1>14, HeadOfResultCh DEF StaleSnapshot
    <2>2. stream' \in Seq(StreamRecord) /\ Len(stream') <= StreamMax
      BY <1>14, AfterGapType DEF StaleSnapshot, TypeOK
    <2>3. book' \in [lastSeq : Nat, base : Nat, has : SUBSET (Nat \X Nat)] /\ snapReqs' \in Nat
      BY <1>14, <2>1 DEF StaleSnapshot, ApplySnapshot, RequestSnapshot, TypeOK
    <2> QED BY <1>14, <2>1, <2>2, <2>3
            DEF StaleSnapshot, TypeOK, exchangeVars, channelVars, countVars
  <1>15. CASE MergeSnapshot
    <2>1. Head(resultCh) \in Nat /\ resultCh' \in Seq(Nat) /\ Len(resultCh') <= 1
      BY <1>15, HeadOfResultCh DEF MergeSnapshot
    <2>2. stream' \in Seq(StreamRecord) /\ Len(stream') <= StreamMax
      BY <1>15, <2>1, AfterSnapshotType DEF MergeSnapshot, TypeOK
    <2>3. /\ book' \in [lastSeq : Nat, base : Nat, has : SUBSET (Nat \X Nat)]
          /\ lastSeq' \in Nat /\ lastMsgSeqEnd' \in Nat
      BY <1>15, <2>1 DEF MergeSnapshot, ApplySnapshot
    <2>4. recon' \in Machines  BY <1>15, MachineType DEF MergeSnapshot, TypeOK
    <2> QED BY <1>15, <2>1, <2>2, <2>3, <2>4
            DEF MergeSnapshot, TypeOK, exchangeVars, channelVars, countVars
  <1>16. CASE Panic
    <2>1. deltas' \in Seq(Tick) /\ Len(deltas') <= DeltaCap
      <3>1. deltas \in Seq(Tick) /\ Len(deltas) <= DeltaCap /\ Len(deltas) \in Nat
        BY DEF TypeOK
      <3>2. CASE deltas # <<>> /\ deltas' = Tail(deltas)
        <4>1. Tail(deltas) \in Seq(Tick) /\ Len(Tail(deltas)) = Len(deltas) - 1
          BY <3>1, <3>2
        <4> QED BY <1>0, <3>1, <3>2, <4>1
      <3>3. CASE UNCHANGED deltas  BY <3>1, <3>3
      <3> QED BY <1>16, <3>2, <3>3 DEF Panic
    <2>2. stream' \in Seq(StreamRecord) /\ Len(stream') <= StreamMax
      BY <1>16, AfterGapType DEF Panic, TypeOK
    <2>3. recon' \in Machines /\ snapReqs' \in Nat /\ panics' \in Nat
      BY <1>16, MachineType DEF Panic, RequestSnapshot, TypeOK
    <2>4. lastSeq' = 0 /\ lastMsgSeqEnd' = 0 /\ resultCh' = <<>>
      BY <1>16 DEF Panic
    <2> QED BY <1>16, <2>1, <2>2, <2>3, <2>4
            DEF Panic, TypeOK, exchangeVars
  <1>17. CASE Shutdown \/ Crash
    <2>1. stream' \in Seq(StreamRecord) /\ Len(stream') <= StreamMax
      BY <1>17, AfterGapType DEF Shutdown, Crash, TypeOK
    <2>2. StopProcess  BY <1>17 DEF Shutdown, Crash
    <2>3. up' \in BOOLEAN
      <3>1. up' = FALSE  BY <2>2 DEF StopProcess
      <3> QED BY <3>1, Zenon
    <2>4. restarts' \in Nat
      <3>1. restarts' = restarts + 1  BY <2>2 DEF StopProcess
      <3> QED BY <3>1 DEF TypeOK
    <2> QED BY <2>3, <2>4, <2>1, <2>2
            DEF StopProcess, TypeOK, exchangeVars, channelVars, snapVars, workerVars
  <1>18. CASE Restart
    <2>1. recon' \in Machines
      BY <1>18 DEF Restart, NewMachine, Machines, States
    <2>2. fetch' \in [Fetchers -> [state : {"idle", "running", "holding"}, seq : Nat]]
      BY <1>18 DEF Restart, IdleFetcher
    <2>3. book' \in [lastSeq : Nat, base : Nat, has : SUBSET (Nat \X Nat)]
      BY <1>18 DEF Restart, NewBook
    <2>4. /\ sending' = <<>> /\ ticks' = <<>> /\ deltas' = <<>> /\ resultCh' = <<>>
          /\ snapReqs' = 0 /\ lastSeq' = 0 /\ lastMsgSeqEnd' = 0
          /\ up' = TRUE /\ linkUp' = TRUE
          /\ UNCHANGED <<exchSeq, restSeq, stream, countVars>>
      BY <1>18 DEF Restart
    <2> QED BY <1>0, <2>1, <2>2, <2>3, <2>4 DEF TypeOK, countVars
  <1>19. CASE UNCHANGED vars
    BY <1>19 DEF vars, TypeOK, exchangeVars, channelVars, snapVars, workerVars, countVars
  <1> QED
    BY <1>1, <1>2, <1>3, <1>4, <1>5, <1>6, <1>7, <1>8, <1>9, <1>10, <1>11, <1>12, <1>13,
       <1>14, <1>15, <1>16, <1>17, <1>18, <1>19
    DEF Next, ExchangeNext, AdapterNext, WorkerNext, ProcessNext

\* No channel of the pipeline overfills and no tracker leaves its range,
\* whatever is lost, retried, panics or restarts.
THEOREM TypeCorrect == Spec => []TypeOK
  BY TypeInit, TypeStep, PTL DEF Spec
------------------------------------------------------------------------------
(* A waiting worker is never forgotten.                                     *)

\* Every step that makes a worker wait, or takes what it waits for, leaves a
\* request, a fetch or a result on its way.
LEMMA PendingStep == TypeOK /\ SnapshotPending /\ [Next]_vars => SnapshotPending'
  <1> SUFFICES ASSUME TypeOK, SnapshotPending, [Next]_vars PROVE SnapshotPending'
    OBVIOUS
  <1>1. CASE UNCHANGED <<up, recon, snapVars>>
    BY <1>1 DEF SnapshotPending, SnapshotOutstanding, snapVars
  <1>2. CASE DispatcherNext
    <2>1. PICK f \in Fetchers : DispatchRequest(f) \/ FetchSnapshot(f) \/ SendResult(f)
      BY <1>2 DEF DispatcherNext
    <2>2. CASE DispatchRequest(f)
      <3>1. fetch'[f].state = "running"  BY <2>2 DEF DispatchRequest, TypeOK
      <3> QED BY <3>1 DEF SnapshotPending, SnapshotOutstanding
    <2>3. CASE FetchSnapshot(f)
      <3>1. fetch'[f].state = "holding"  BY <2>3 DEF FetchSnapshot, TypeOK
      <3> QED BY <3>1 DEF SnapshotPending, SnapshotOutstanding
    <2>4. CASE SendResult(f)
      <3>1. resultCh' # <<>>  BY <2>4 DEF SendResult, TypeOK
      <3> QED BY <3>1 DEF SnapshotPending, SnapshotOutstanding
    <2> QED BY <2>1, <2>2, <2>3, <2>4
  <1>3. CASE RequestInitial \/ StaleSnapshot \/ Panic
    <2>1. snapReqs' > 0
      BY <1>3 DEF RequestInitial, StaleSnapshot, Panic, RequestSnapshot, TypeOK
    <2> QED BY <2>1 DEF SnapshotPending, SnapshotOutstanding
  <1>4. CASE BufferTick
    <2>1. Head(deltas).seq \in Nat  BY <1>4, HeadOfDeltas DEF BufferTick
    <2>2. recon'.state = recon.state /\ up' = up /\ UNCHANGED snapVars
      BY <1>4, <2>1, MachineType DEF BufferTick, TypeOK
    <2> QED BY <2>2 DEF SnapshotPending, SnapshotOutstanding, snapVars
  <1>5. CASE DiscardSnapshot
    BY <1>5 DEF DiscardSnapshot, workerVars, SnapshotPending
  <1>6. CASE MergeSnapshot
    <2>1. recon'.state = "Live"
      BY <1>6, MachineType DEF MergeSnapshot, TypeOK
    <2> QED BY <2>1 DEF SnapshotPending
  <1>7. CASE Shutdown \/ Crash
    <2>1. up' = FALSE  BY <1>7 DEF Shutdown, Crash, StopProcess
    <2> QED BY <2>1 DEF SnapshotPending
  <1>8. CASE Restart
    <2>1. recon'.state = "Initial"  BY <1>8 DEF Restart, NewMachine
    <2> QED BY <2>1 DEF SnapshotPending
  <1>9. CASE ExchangeNext \/ AdapterNext \/ RunTickFanout \/ HandleTrade \/ LiveTick
             \/ UNCHANGED vars
    <2>1. UNCHANGED <<up, recon, snapVars>>
      BY <1>9 DEF ExchangeNext, ExchangeUpdate, ExchangeTrade, RestCatchUp, AdapterNext,
                  SendTick, Disconnect, Redial, RunTickFanout, HandleTrade, LiveTick,
                  vars, workerVars
    <2> QED BY <1>1, <2>1
  <1> QED
    BY <1>2, <1>3, <1>4, <1>5, <1>6, <1>7, <1>8, <1>9
    DEF Next, WorkerNext, ProcessNext

\* A worker in StateBuffering always has a snapshot request, a running fetch
\* or an unread result (symbol.go: every path that keeps it Buffering ends in
\* requestSnapshot).
THEOREM WaitingWorkerIsServed == Spec => []SnapshotPending
  <1>1. Init => SnapshotPending
    BY DEF Init, FreshProcess, NewMachine, SnapshotPending
  <1> QED BY <1>1, TypeInit, TypeStep, PendingStep, PTL DEF Spec
------------------------------------------------------------------------------
(* The stream marks every loss.  LossIsMarked relates records that are      *)
(* already written; to see that the next one fits, the invariant below      *)
(* relates the end of the stream to the tracker the worker compares the     *)
(* next frame with, and the frames in the channels to what the test of      *)
(* handleTick can see of them.                                              *)

Kucoin == Exchange = "kucoin"

Tracker == IF Kucoin THEN lastMsgSeqEnd ELSE lastSeq

\* A tick that is a whole frame.
WholeFrame(t) ==
  t.type = "update" =>
    /\ t.k = 1 /\ t.n = 1
    /\ 0 < t.from /\ t.from <= t.to
    /\ ~Kucoin => t.seq = t.to /\ t.from = t.to

WholeFrames(ch) == \A i \in 1..Len(ch) : WholeFrame(ch[i])

\* No snapshot is numbered 0, the worker's "nothing yet".
SnapshotsAreNumbered ==
  /\ exchSeq > 0 /\ restSeq > 0
  /\ \A f \in Fetchers : fetch[f].state = "holding" => fetch[f].seq > 0
  /\ resultCh # <<>> => Head(resultCh) > 0

\* A stream that a frame starting at seq + 1 may extend.
EndsAt(s, seq) ==
  /\ s # <<>>
  /\ LET r == s[Len(s)]
     IN \/ r.kind = "gap"
        \/ r.kind = "tick" /\ r.k = r.n /\ r.to = seq
        \/ r.kind = "snap" /\ r.seq = seq

Anchored ==
  up /\ recon.state = "Live" => Tracker > 0 /\ EndsAt(stream, Tracker)

StreamInv ==
  /\ TypeOK
  /\ WholeFrames(sending) /\ WholeFrames(ticks) /\ WholeFrames(deltas)
  /\ SnapshotsAreNumbered
  /\ Anchored
  /\ LossIsMarked

\* What the theorem asks of the feed and of Redis: a frame changes one price
\* level (on Bybit, whose frames have one number, it covers that one), and
\* only tick writes are ever given up.
OneLevelFrames ==
  /\ MaxDeltas = 1
  /\ Kucoin \/ MaxSpan = 1
  /\ Faults \subseteq {"tick"}

LEMMA FrameTicksAreWhole ==
  ASSUME OneLevelFrames, NEW from \in Nat \ {0}, NEW span \in 1..MaxSpan,
         NEW seqs \in FrameSeqs(from, from + span - 1)
  PROVE  WholeFrames(FrameTicks(from, from + span - 1, seqs))
  <1> DEFINE to == from + span - 1
  <1>1. span \in Nat /\ span >= 1 /\ to \in Nat /\ from <= to /\ (~Kucoin => from = to)
    BY ParametersAreSane DEF OneLevelFrames
  <1>2. PICK n \in 1..MaxDeltas : /\ seqs \in [1..n -> from..to]
                                  /\ ~Kucoin => seqs \in [1..n -> {to}]
    <2> HIDE DEF to
    <2>1. seqs \in FrameSeqs(from, to)  BY DEF to
    <2>2. CASE Kucoin
      <3>1. PICK n \in 1..MaxDeltas : seqs \in {s \in [1..n -> from..to] : IsInjective(s)}
        BY <2>1, <2>2 DEF FrameSeqs, Kucoin
      <3> QED BY <2>2, <3>1
    <2>3. CASE ~Kucoin
      <3>1. PICK n \in 1..MaxDeltas : seqs \in [1..n -> {to}]
        BY <2>1, <2>3 DEF FrameSeqs, Kucoin
      <3>2. to \in from..to  BY <1>1
      <3> QED BY <3>1, <3>2
    <2> QED BY <2>2, <2>3
  <1>3. n = 1  BY <1>2 DEF OneLevelFrames
  <1>4. DOMAIN seqs = 1..1 /\ Len(seqs) = 1 /\ (~Kucoin => seqs[1] = to)
    BY <1>2, <1>3
  <1> HIDE DEF to
  <1>5. /\ FrameTicks(from, to, seqs)[1] =
             [type |-> "update", seq |-> seqs[1], from |-> from, to |-> to, k |-> 1, n |-> 1]
        /\ Len(FrameTicks(from, to, seqs)) = 1
    BY <1>4 DEF FrameTicks
  <1>6. WholeFrame(FrameTicks(from, to, seqs)[1])
    BY <1>1, <1>4, <1>5 DEF WholeFrame
  <1>7. WholeFrames(FrameTicks(from, to, seqs))
    BY <1>5, <1>6 DEF WholeFrames
  <1> QED BY <1>7 DEF to

LEMMA TrySendWhole ==
  ASSUME NEW ch \in Seq(Tick), WholeFrames(ch), NEW v \in Tick, WholeFrame(v),
         NEW cap \in Nat
  PROVE  WholeFrames(TrySend(ch, cap, v))
  <1>1. \A i \in 1..Len(Append(ch, v)) :
          Append(ch, v)[i] = v \/ (i \in 1..Len(ch) /\ Append(ch, v)[i] = ch[i])
    OBVIOUS
  <1>2. WholeFrames(Append(ch, v))  BY <1>1 DEF WholeFrames
  <1> QED BY <1>2 DEF TrySend

LEMMA TailWhole ==
  ASSUME NEW ch \in Seq(Tick), ch # <<>>, WholeFrames(ch)
  PROVE  WholeFrames(Tail(ch)) /\ WholeFrame(Head(ch))
  <1>1. \A i \in 1..Len(Tail(ch)) : i + 1 \in 1..Len(ch) /\ Tail(ch)[i] = ch[i + 1]
    OBVIOUS
  <1>2. WholeFrames(Tail(ch))  BY <1>1 DEF WholeFrames
  <1>3. 1 \in 1..Len(ch) /\ Head(ch) = ch[1]  OBVIOUS
  <1> QED BY <1>2, <1>3 DEF WholeFrames

\* Appending to a marked stream, with or without trimming its oldest record.
LEMMA XAddMarked ==
  ASSUME NEW s \in Seq(StreamRecord), Len(s) <= StreamMax, NEW r \in StreamRecord,
         IsMarked(s),
         r.kind = "tick" /\ s # <<>> => Follows(s[Len(s)], r)
  PROVE  IsMarked(XAdd(s, r))
  <1>0. StreamMax \in Nat /\ StreamMax >= 3  BY ParametersAreSane
  <1>1. CASE Len(s) < StreamMax
    <2>1. XAdd(s, r) = Append(s, r)  BY <1>1 DEF XAdd
    <2> SUFFICES ASSUME NEW i \in 2..Len(Append(s, r)), Append(s, r)[i].kind = "tick"
                 PROVE  Follows(Append(s, r)[i-1], Append(s, r)[i])
      BY <2>1 DEF IsMarked
    <2>2. CASE i = Len(s) + 1
      <3>1. Append(s, r)[i] = r /\ Append(s, r)[i-1] = s[Len(s)] /\ s # <<>>
        BY <2>2
      <3> QED BY <3>1
    <2>3. CASE i # Len(s) + 1
      <3>1. i \in 2..Len(s) /\ Append(s, r)[i] = s[i] /\ Append(s, r)[i-1] = s[i-1]
        BY <2>3
      <3> QED BY <3>1 DEF IsMarked
    <2> QED BY <2>2, <2>3
  <1>2. CASE ~(Len(s) < StreamMax)
    <2> DEFINE x == Tail(s)
    <2>1. XAdd(s, r) = Append(x, r)  BY <1>2 DEF XAdd
    <2>2. Len(s) = StreamMax /\ s # <<>>  BY <1>0, <1>2
    <2>3. /\ x \in Seq(StreamRecord) /\ Len(x) = Len(s) - 1
          /\ \A i \in 1..Len(x) : x[i] = s[i + 1]
      BY <2>2
    <2> HIDE DEF x
    <2> SUFFICES ASSUME NEW i \in 2..Len(Append(x, r)), Append(x, r)[i].kind = "tick"
                 PROVE  Follows(Append(x, r)[i-1], Append(x, r)[i])
      BY <2>1 DEF IsMarked
    <2>4. CASE i = Len(x) + 1
      <3>1. Append(x, r)[i] = r /\ Append(x, r)[i-1] = s[Len(s)]
        BY <1>0, <2>2, <2>3, <2>4
      <3> QED BY <2>2, <3>1
    <2>5. CASE i # Len(x) + 1
      <3>1. /\ i \in 2..Len(x) /\ i + 1 \in 2..Len(s)
            /\ Append(x, r)[i] = s[i + 1] /\ Append(x, r)[i-1] = s[i]
        BY <2>3, <2>5
      <3>2. (i + 1) - 1 = i  OBVIOUS
      <3> QED BY <3>1, <3>2 DEF IsMarked
    <2> QED BY <2>4, <2>5
  <1> QED BY <1>1, <1>2

\* A gap marker may be written anywhere.
LEMMA AfterGapMarked ==
  ASSUME NEW s \in Seq(StreamRecord), Len(s) <= StreamMax, IsMarked(s), OneLevelFrames,
         NEW cause \in {"external_disconnect", "internal_merge_error"},
         NEW before \in Nat, NEW after \in Nat, NEW seq,
         NEW t \in AfterGap(s, cause, before, after)
  PROVE  IsMarked(t) /\ EndsAt(t, seq) /\ t[Len(t)].kind = "gap"
  <1> DEFINE r == GapRecord(cause, before, after)
  <1>1. r \in StreamRecord /\ r.kind = "gap"  BY DEF GapRecord, StreamRecord
  <1>2. t = XAdd(s, r)
    BY <1>1 DEF AfterGap, Attempt, OneLevelFrames
  <1> HIDE DEF r
  <1>3. IsMarked(t)  BY <1>1, <1>2, XAddMarked
  <1>4. t[Len(t)] = r /\ Len(t) \in 1..StreamMax  BY <1>1, <1>2, XAddType
  <1>5. t # <<>>  BY <1>4, ParametersAreSane
  <1> QED BY <1>1, <1>3, <1>4, <1>5 DEF EndsAt

\* handleTick on a whole frame: if the frame does not continue what was
\* written, the gap test says so first; either way the tracker ends up where
\* the stream does.
LEMMA LiveTickMarked ==
  ASSUME StreamInv, OneLevelFrames, LiveTick, up
  PROVE  LossIsMarked' /\ Tracker' > 0 /\ EndsAt(stream', Tracker')
  <1> DEFINE t == Head(deltas)
             r == TickRecord(t)
  <1>1. /\ t \in Tick /\ WholeFrame(t) /\ t.type = "update"
        /\ stream \in Seq(StreamRecord) /\ Len(stream) <= StreamMax /\ IsMarked(stream)
        /\ lastSeq \in Nat /\ lastMsgSeqEnd \in Nat
    <2>1. deltas \in Seq(Tick) /\ deltas # <<>> /\ t.type = "update"
      BY DEF LiveTick, ReadTick, StreamInv, TypeOK
    <2>2. t \in Tick /\ WholeFrame(t)  BY <2>1, HeadOfDeltas, TailWhole DEF LiveTick, StreamInv
    <2> QED BY <2>1, <2>2 DEF StreamInv, TypeOK, LossIsMarked
  <1>2. Tracker > 0 /\ EndsAt(stream, Tracker)  BY DEF StreamInv, Anchored, LiveTick
  <1>3. PICK s \in AfterGapTest(t) : stream' \in AfterTick(s, t)  BY DEF LiveTick
  <1>4. /\ t.seq \in Nat /\ t.from \in Nat /\ t.to \in Nat /\ t.from > 0 /\ t.to > 0
        /\ t.k = 1 /\ t.n = 1 /\ (~Kucoin => t.seq = t.to /\ t.from = t.to)
    BY <1>1 DEF Tick, WholeFrame
  <1>5. Tracker' = t.to
    <2>1. CASE Kucoin  BY <1>4, <2>1 DEF LiveTick, Tracker, MsgSeqEnd, Kucoin
    <2>2. CASE ~Kucoin  BY <1>4, <2>2 DEF LiveTick, Tracker, MsgSeqEnd, Kucoin
    <2> QED BY <2>1, <2>2
  <1>6. ~DetectsGap(t) => t.from = Tracker + 1
    BY <1>1, <1>2, <1>4 DEF DetectsGap, IsGap, MsgSeqStart, MsgSeqEnd, Tracker, Kucoin
  <1>7. /\ r \in StreamRecord /\ r.kind = "tick" /\ r.k = 1 /\ r.n = 1
        /\ r.from = t.from /\ r.to = t.to
    BY <1>1, <1>4 DEF TickRecord, StreamRecord, Tick
  <1>8. SeqBefore(t) \in Nat /\ SeqAfter(t) \in Nat
    BY <1>1, <1>4 DEF SeqBefore, SeqAfter, MsgSeqStart, MsgSeqEnd
  <1> HIDE DEF t, r
  <1>9. /\ s \in Seq(StreamRecord) /\ Len(s) <= StreamMax /\ IsMarked(s)
        /\ Follows(s[Len(s)], r)
    <2>1. CASE DetectsGap(t)
      <3>1. s \in AfterGap(stream, "external_disconnect", SeqBefore(t), SeqAfter(t))
        BY <1>3, <2>1 DEF AfterGapTest
      <3>2. s \in Seq(StreamRecord) /\ Len(s) <= StreamMax
        BY <1>1, <1>8, <3>1, AfterGapType
      <3>3. IsMarked(s) /\ s[Len(s)].kind = "gap"
        BY <1>1, <1>8, <3>1, AfterGapMarked
      <3> QED BY <3>2, <3>3 DEF Follows
    <2>2. CASE ~DetectsGap(t)
      <3>1. s = stream  BY <1>3, <2>2 DEF AfterGapTest
      <3>2. r.from = Tracker + 1  BY <1>6, <1>7, <2>2
      <3>3. Follows(stream[Len(stream)], r)
        BY <1>2, <1>7, <3>2 DEF EndsAt, Follows
      <3> QED BY <1>1, <3>1, <3>3
    <2> QED BY <2>1, <2>2
  <1>10. CASE stream' = XAdd(s, r)
    <2>1. IsMarked(stream')  BY <1>7, <1>9, <1>10, XAddMarked
    <2>2. Len(stream') \in 1..StreamMax /\ stream'[Len(stream')] = r
      BY <1>7, <1>9, <1>10, XAddType
    <2>3. stream' # <<>>  BY <2>2, ParametersAreSane
    <2>4. EndsAt(stream', t.to)  BY <1>7, <2>2, <2>3 DEF EndsAt
    <2> QED BY <1>4, <1>5, <2>1, <2>4 DEF LossIsMarked
  <1>11. CASE stream' \in AfterGap(s, "external_disconnect", t.seq, t.seq)
    <2>1. IsMarked(stream') /\ EndsAt(stream', t.to)
      BY <1>4, <1>9, <1>11, AfterGapMarked
    <2> QED BY <1>4, <1>5, <2>1 DEF LossIsMarked
  <1> QED BY <1>3, <1>10, <1>11 DEF AfterTick, r

\* The channels keep whole frames.
LEMMA ChannelsStep ==
  ASSUME StreamInv, OneLevelFrames, [Next]_vars
  PROVE  WholeFrames(sending)' /\ WholeFrames(ticks)' /\ WholeFrames(deltas)'
  <1> USE DEF StreamInv
  <1>0. /\ sending \in Seq(Tick) /\ ticks \in Seq(Tick) /\ deltas \in Seq(Tick)
        /\ TickCap \in Nat /\ DeltaCap \in Nat /\ exchSeq \in Nat
    BY ParametersAreSane DEF TypeOK
  <1>1. CASE ExchangeUpdate
    <2>1. CASE UNCHANGED sending
      BY <1>1, <2>1 DEF ExchangeUpdate, WholeFrames
    <2>2. CASE ~UNCHANGED sending
      <3>1. PICK span \in 1..MaxSpan : \E seqs \in FrameSeqs(exchSeq + 1, exchSeq + span) :
              sending' = FrameTicks(exchSeq + 1, exchSeq + span, seqs)
        BY <1>1, <2>2 DEF ExchangeUpdate
      <3>2. exchSeq + 1 \in Nat \ {0} /\ (exchSeq + 1) + span - 1 = exchSeq + span
        BY <1>0, ParametersAreSane
      <3>3. WholeFrames(sending')
        BY <3>1, <3>2, FrameTicksAreWhole
      <3> QED BY <1>1, <3>3 DEF ExchangeUpdate, WholeFrames
    <2> QED BY <2>1, <2>2
  <1>2. CASE ExchangeTrade
    BY <1>2 DEF ExchangeTrade, TradeTick, WholeFrames, WholeFrame
  <1>3. CASE SendTick
    <2>1. Head(sending) \in Tick /\ sending # <<>>  BY <1>0, <1>3 DEF SendTick
    <2>2. WholeFrames(Tail(sending)) /\ WholeFrame(Head(sending))
      BY <1>0, <2>1, TailWhole
    <2>3. WholeFrames(TrySend(ticks, TickCap, Head(sending)))
      BY <1>0, <2>1, <2>2, TrySendWhole
    <2> QED BY <1>3, <2>2, <2>3 DEF SendTick, WholeFrames
  <1>4. CASE RunTickFanout
    <2>1. Head(ticks) \in Tick /\ ticks # <<>>  BY <1>0, <1>4 DEF RunTickFanout
    <2>2. WholeFrames(Tail(ticks)) /\ WholeFrame(Head(ticks))
      BY <1>0, <2>1, TailWhole
    <2>3. WholeFrames(TrySend(deltas, DeltaCap, Head(ticks)))
      BY <1>0, <2>1, <2>2, TrySendWhole
    <2> QED BY <1>4, <2>2, <2>3 DEF RunTickFanout, WholeFrames
  <1>5. CASE HandleTrade \/ BufferTick \/ LiveTick \/ Panic
    <2>1. CASE UNCHANGED deltas
      BY <1>5, <2>1 DEF HandleTrade, BufferTick, LiveTick, Panic, ReadTick, WholeFrames
    <2>2. CASE ~UNCHANGED deltas
      <3>1. deltas # <<>> /\ deltas' = Tail(deltas) /\ UNCHANGED <<sending, ticks>>
        BY <1>5, <2>2 DEF HandleTrade, BufferTick, LiveTick, Panic, ReadTick
      <3>2. WholeFrames(Tail(deltas))  BY <1>0, <3>1, TailWhole
      <3> QED BY <3>1, <3>2 DEF WholeFrames
    <2> QED BY <2>1, <2>2
  <1>6. CASE Restart
    BY <1>6 DEF Restart, WholeFrames
  <1>7. CASE RestCatchUp \/ Disconnect \/ Redial \/ DispatcherNext \/ RequestInitial
             \/ DiscardSnapshot \/ StaleSnapshot \/ MergeSnapshot \/ Shutdown \/ Crash
             \/ UNCHANGED vars
    <2>1. UNCHANGED channelVars
      BY <1>7 DEF RestCatchUp, Disconnect, Redial, DispatcherNext, DispatchRequest,
                  FetchSnapshot, SendResult, RequestInitial, DiscardSnapshot,
                  StaleSnapshot, MergeSnapshot, Shutdown, Crash, StopProcess, vars
    <2> QED BY <2>1 DEF channelVars, WholeFrames
  <1> QED
    BY <1>1, <1>2, <1>3, <1>4, <1>5, <1>6, <1>7
    DEF Next, ExchangeNext, AdapterNext, WorkerNext, ProcessNext

\* Snapshots keep being numbered from 1.
LEMMA SnapshotsStep ==
  ASSUME TypeOK, SnapshotsAreNumbered, [Next]_vars
  PROVE  SnapshotsAreNumbered'
  <1> USE DEF SnapshotsAreNumbered
  <1>1. CASE ExchangeUpdate
    <2>1. exchSeq' > 0
      <3>1. MaxSpan \in Nat  BY ParametersAreSane
      <3>2. PICK span \in 1..MaxSpan : exchSeq' = exchSeq + span  BY <1>1 DEF ExchangeUpdate
      <3> QED BY <3>1, <3>2 DEF TypeOK
    <2> QED BY <1>1, <2>1 DEF ExchangeUpdate, snapVars
  <1>2. CASE RestCatchUp
    BY <1>2 DEF RestCatchUp, snapVars
  <1>3. CASE DispatcherNext
    <2>1. PICK f \in Fetchers : DispatchRequest(f) \/ FetchSnapshot(f) \/ SendResult(f)
      BY <1>3 DEF DispatcherNext
    <2>2. CASE DispatchRequest(f)  BY <2>2 DEF DispatchRequest, TypeOK, exchangeVars
    <2>3. CASE FetchSnapshot(f)  BY <2>3 DEF FetchSnapshot, TypeOK, exchangeVars
    <2>4. CASE SendResult(f)
      BY <2>4 DEF SendResult, IdleFetcher, TypeOK, exchangeVars
    <2> QED BY <2>1, <2>2, <2>3, <2>4
  <1>4. CASE DiscardSnapshot \/ StaleSnapshot \/ MergeSnapshot \/ Panic
    <2>1. resultCh' = <<>> /\ UNCHANGED <<exchSeq, restSeq, fetch>>
      BY <1>4 DEF DiscardSnapshot, StaleSnapshot, MergeSnapshot, Panic, ReadResult, exchangeVars
    <2> QED BY <2>1
  <1>5. CASE Restart
    BY <1>5 DEF Restart, IdleFetcher
  <1>6. CASE ExchangeTrade \/ AdapterNext \/ RunTickFanout \/ RequestInitial \/ HandleTrade
             \/ BufferTick \/ LiveTick \/ Shutdown \/ Crash \/ UNCHANGED vars
    <2>1. UNCHANGED <<exchSeq, restSeq, fetch, resultCh>>
      BY <1>6 DEF ExchangeTrade, AdapterNext, SendTick, Disconnect, Redial, RunTickFanout,
                  RequestInitial, HandleTrade, BufferTick, LiveTick, Shutdown, Crash,
                  StopProcess, vars, exchangeVars, snapVars
    <2> QED BY <2>1
  <1> QED
    BY <1>1, <1>2, <1>3, <1>4, <1>5, <1>6
    DEF Next, ExchangeNext, WorkerNext, ProcessNext

\* The stream stays marked, and a live worker's tracker stays where it ends.
LEMMA MarkedStep ==
  ASSUME StreamInv, OneLevelFrames, [Next]_vars
  PROVE  LossIsMarked' /\ Anchored'
  <1>0. /\ stream \in Seq(StreamRecord) /\ Len(stream) <= StreamMax /\ IsMarked(stream)
        /\ lastSeq \in Nat /\ lastSeq + 1 \in Nat /\ recon \in Machines
    BY DEF StreamInv, TypeOK, LossIsMarked
  <1>1. CASE UNCHANGED <<up, recon, lastSeq, lastMsgSeqEnd, stream>>
    BY <1>1 DEF StreamInv, LossIsMarked, IsMarked, Anchored, Tracker
  <1>2. CASE LiveTick
    BY <1>2, LiveTickMarked DEF LiveTick, ReadTick, Anchored
  <1>3. CASE MergeSnapshot
    <2> DEFINE n == Head(resultCh)
               r == SnapRecord(n)
    <2>1. n \in Nat /\ n > 0
      BY <1>3 DEF MergeSnapshot, ReadResult, StreamInv, TypeOK, SnapshotsAreNumbered
    <2>2. r \in StreamRecord /\ r.kind = "snap" /\ r.seq = n
      BY <2>1 DEF SnapRecord, StreamRecord
    <2>3. stream' = XAdd(stream, r)
      BY <1>3 DEF MergeSnapshot, AfterSnapshot, Attempt, SnapRecord, OneLevelFrames
    <2>4. Tracker' = n  BY <1>3 DEF MergeSnapshot, Tracker
    <2> HIDE DEF r, n
    <2>5. IsMarked(stream')  BY <1>0, <2>2, <2>3, XAddMarked
    <2>6. Len(stream') \in 1..StreamMax /\ stream'[Len(stream')] = r
      BY <1>0, <2>2, <2>3, XAddType
    <2>7. EndsAt(stream', n)
      <3>1. stream' # <<>>  BY <2>6, ParametersAreSane
      <3> QED BY <2>2, <2>6, <3>1 DEF EndsAt
    <2> QED BY <2>1, <2>4, <2>5, <2>7 DEF LossIsMarked, Anchored
  <1>4. CASE StaleSnapshot \/ Panic
    <2>1. stream' \in AfterGap(stream, "internal_merge_error", lastSeq, lastSeq + 1)
      BY <1>4 DEF StaleSnapshot, Panic
    <2>2. IsMarked(stream')  BY <1>0, <2>1, AfterGapMarked
    <2>3. recon'.state = "Buffering"
      BY <1>0, <1>4 DEF StaleSnapshot, Panic, NeedsSnapshotNow, Machines
    <2> QED BY <2>2, <2>3 DEF LossIsMarked, Anchored
  <1>5. CASE Shutdown \/ Crash
    <2>1. UNCHANGED stream
            \/ stream' \in AfterGap(stream, "external_disconnect", lastSeq, lastSeq + 1)
      BY <1>5 DEF Shutdown, Crash
    <2>2. IsMarked(stream')  BY <1>0, <2>1, AfterGapMarked
    <2>3. up' = FALSE  BY <1>5 DEF Shutdown, Crash, StopProcess
    <2> QED BY <2>2, <2>3 DEF LossIsMarked, Anchored
  <1>6. CASE RequestInitial \/ BufferTick \/ Restart
    <2>1. stream' = stream
      BY <1>6 DEF RequestInitial, BufferTick, Restart
    <2>2. recon'.state # "Live"
      <3>1. CASE RequestInitial
        BY <1>0, <3>1 DEF RequestInitial, NeedsSnapshotNow, Machines
      <3>2. CASE BufferTick
        BY <1>0, <3>2 DEF BufferTick, Feed, Machines
      <3>3. CASE Restart  BY <3>3 DEF Restart, NewMachine
      <3> QED BY <1>6, <3>1, <3>2, <3>3
    <2> QED BY <1>0, <2>1, <2>2 DEF LossIsMarked, Anchored
  <1>7. CASE ExchangeNext \/ AdapterNext \/ RunTickFanout \/ DispatcherNext \/ HandleTrade
             \/ DiscardSnapshot \/ UNCHANGED vars
    <2>1. UNCHANGED <<up, recon, lastSeq, lastMsgSeqEnd, stream>>
      BY <1>7 DEF ExchangeNext, ExchangeUpdate, ExchangeTrade, RestCatchUp, AdapterNext,
                  SendTick, Disconnect, Redial, RunTickFanout, DispatcherNext,
                  DispatchRequest, FetchSnapshot, SendResult, HandleTrade,
                  DiscardSnapshot, vars, workerVars
    <2> QED BY <1>1, <2>1
  <1> QED
    BY <1>2, <1>3, <1>4, <1>5, <1>6, <1>7 DEF Next, WorkerNext, ProcessNext

\* The stream of a feed whose frames change one level marks every loss: full
\* channels, lost connections, panics, stale and late snapshots, stops and
\* crashes of the process, and ticks whose write was given up
\* (docs/data-contract.md, section 1.1).
THEOREM EveryLossIsMarked ==
  ASSUME OneLevelFrames
  PROVE  Spec => []LossIsMarked
  <1>1. Init => StreamInv
    <2> SUFFICES ASSUME Init PROVE StreamInv  OBVIOUS
    <2>1. TypeOK  BY TypeInit
    <2>2. WholeFrames(sending) /\ WholeFrames(ticks) /\ WholeFrames(deltas)
      BY DEF Init, FreshProcess, WholeFrames
    <2>3. SnapshotsAreNumbered
      BY DEF Init, FreshProcess, IdleFetcher, SnapshotsAreNumbered
    <2>4. Anchored  BY DEF Init, FreshProcess, NewMachine, Anchored
    <2>5. LossIsMarked  BY DEF Init, LossIsMarked, IsMarked
    <2> QED BY <2>1, <2>2, <2>3, <2>4, <2>5 DEF StreamInv
  <1>2. StreamInv /\ [Next]_vars => StreamInv'
    <2> SUFFICES ASSUME StreamInv, [Next]_vars PROVE StreamInv'  OBVIOUS
    <2>1. TypeOK'  BY TypeStep DEF StreamInv
    <2>2. WholeFrames(sending)' /\ WholeFrames(ticks)' /\ WholeFrames(deltas)'
      BY ChannelsStep
    <2>3. SnapshotsAreNumbered'  BY SnapshotsStep DEF StreamInv
    <2>4. LossIsMarked' /\ Anchored'  BY MarkedStep
    <2> QED BY <2>1, <2>2, <2>3, <2>4 DEF StreamInv
  <1>3. StreamInv => LossIsMarked  BY DEF StreamInv
  <1> QED BY <1>1, <1>2, <1>3, PTL DEF Spec
------------------------------------------------------------------------------
(* Snapshots in progress.  A worker has one request out from its start to   *)
(* its first result; only a panic adds one.                                 *)

Busy == {f \in Fetchers : fetch[f].state # "idle"}

FetchInv ==
  /\ Outstanding <= 1 + panics
  /\ recon.state = "Initial" => Outstanding = 0
  /\ recon.state = "Live" /\ panics = 0 => Outstanding = 0

\* The parts of Outstanding are numbers.
LEMMA OutstandingType ==
  ASSUME TypeOK
  PROVE  /\ snapReqs \in Nat /\ Len(resultCh) \in 0..1 /\ panics \in Nat
         /\ IsFiniteSet(Busy) /\ Cardinality(Busy) \in Nat
         /\ Outstanding = snapReqs + Cardinality(Busy) + Len(resultCh)
  <1>1. IsFiniteSet(Busy)
    <2>1. IsFiniteSet(Fetchers) /\ Busy \subseteq Fetchers  BY ParametersAreSane DEF Busy
    <2> QED BY <2>1, FS_Subset
  <1>2. Cardinality(Busy) \in Nat  BY <1>1, FS_CardinalityType
  <1>3. Len(resultCh) \in 0..1
    <2>1. resultCh \in Seq(Nat) /\ Len(resultCh) <= 1  BY DEF TypeOK
    <2>2. Len(resultCh) \in Nat  BY <2>1
    <2>3. PICK n \in Nat : n = Len(resultCh)  BY <2>2
    <2>4. n <= 1  BY <2>1, <2>3
    <2>5. n \in 0..1  BY <2>4
    <2> QED BY <2>3, <2>5
  <1> QED BY <1>1, <1>2, <1>3 DEF TypeOK, Outstanding, Busy

LEMMA FetchStarts == Init => FetchInv
  <1> SUFFICES ASSUME Init PROVE FetchInv  OBVIOUS
  <1>1. Busy = {}  BY DEF Init, FreshProcess, IdleFetcher, Busy
  <1>2. Cardinality(Busy) = 0  BY <1>1, FS_EmptySet
  <1>3. Outstanding = 0
    BY <1>2 DEF Init, FreshProcess, Outstanding, Busy
  <1> QED BY <1>3 DEF Init, FreshProcess, FetchInv

\* What a goroutine of the dispatcher takes over it hands on: requests,
\* fetches and results together stay as many as they are.
LEMMA DispatcherKeeps ==
  ASSUME TypeOK, TypeOK', DispatcherNext
  PROVE  Outstanding' = Outstanding /\ UNCHANGED <<recon, panics>>
  <1>0. /\ snapReqs \in Nat /\ Len(resultCh) \in 0..1 /\ IsFiniteSet(Busy)
        /\ Cardinality(Busy) \in Nat
        /\ Outstanding = snapReqs + Cardinality(Busy) + Len(resultCh)
        /\ fetch \in [Fetchers -> [state : {"idle", "running", "holding"}, seq : Nat]]
    BY OutstandingType DEF TypeOK
  <1>1. Outstanding' = snapReqs' + Cardinality(Busy)' + Len(resultCh')
    BY DEF Outstanding, Busy
  <1>2. UNCHANGED <<recon, panics>>
    BY DEF DispatcherNext, DispatchRequest, FetchSnapshot, SendResult, workerVars, countVars
  <1>3. PICK f \in Fetchers : DispatchRequest(f) \/ FetchSnapshot(f) \/ SendResult(f)
    BY DEF DispatcherNext
  <1>4. CASE DispatchRequest(f)
    <2>1. /\ snapReqs > 0 /\ fetch[f].state = "idle" /\ snapReqs' = snapReqs - 1
          /\ fetch' = [fetch EXCEPT ![f].state = "running"] /\ resultCh' = resultCh
      BY <1>4 DEF DispatchRequest
    <2>2. \A g \in Fetchers : fetch'[g].state = IF g = f THEN "running" ELSE fetch[g].state
      BY <1>0, <2>1
    <2>3. Busy' = Busy \union {f} /\ f \notin Busy
      BY <2>1, <2>2 DEF Busy
    <2>4. Cardinality(Busy \union {f}) = Cardinality(Busy) + 1
      BY <1>0, <2>3, FS_AddElement
    <2>5. Cardinality(Busy)' = Cardinality(Busy) + 1  BY <2>3, <2>4
    <2> QED BY <1>0, <1>1, <1>2, <2>1, <2>5
  <1>5. CASE FetchSnapshot(f)
    <2>1. /\ fetch[f].state = "running"
          /\ fetch' = [fetch EXCEPT ![f] = [state |-> "holding", seq |-> restSeq]]
          /\ snapReqs' = snapReqs /\ resultCh' = resultCh
      BY <1>5 DEF FetchSnapshot
    <2>2. \A g \in Fetchers : fetch'[g].state = IF g = f THEN "holding" ELSE fetch[g].state
      BY <1>0, <2>1
    <2>3. Busy' = Busy  BY <2>1, <2>2 DEF Busy
    <2> QED BY <1>0, <1>1, <1>2, <2>1, <2>3
  <1>6. CASE SendResult(f)
    <2>1. /\ fetch[f].state = "holding" /\ resultCh = <<>> /\ resultCh' = <<fetch[f].seq>>
          /\ fetch' = [fetch EXCEPT ![f] = IdleFetcher] /\ snapReqs' = snapReqs
      BY <1>6 DEF SendResult
    <2>2. \A g \in Fetchers : fetch'[g].state = IF g = f THEN "idle" ELSE fetch[g].state
      BY <1>0, <2>1 DEF IdleFetcher
    <2>3. Busy' = Busy \ {f} /\ f \in Busy
      BY <2>1, <2>2 DEF Busy
    <2>4. Cardinality(Busy \ {f}) = Cardinality(Busy) - 1
      BY <1>0, <2>3, FS_RemoveElement
    <2>5. Cardinality(Busy)' = Cardinality(Busy) - 1  BY <2>3, <2>4
    <2>6. Len(resultCh) = 0 /\ Len(resultCh') = 1  BY <2>1
    <2> QED BY <1>0, <1>1, <1>2, <2>1, <2>5, <2>6
  <1> QED BY <1>3, <1>4, <1>5, <1>6

LEMMA FetchStep == TypeOK /\ TypeOK' /\ FetchInv /\ [Next]_vars => FetchInv'
  <1> SUFFICES ASSUME TypeOK, TypeOK', FetchInv, [Next]_vars PROVE FetchInv'  OBVIOUS
  <1>0. /\ snapReqs \in Nat /\ Len(resultCh) \in 0..1 /\ Cardinality(Busy) \in Nat /\ panics \in Nat
        /\ Outstanding = snapReqs + Cardinality(Busy) + Len(resultCh)
        /\ recon \in Machines
    BY OutstandingType DEF TypeOK
  <1>1. Outstanding' = snapReqs' + Cardinality(Busy)' + Len(resultCh')
    BY DEF Outstanding, Busy
  <1>2. ASSUME fetch' = fetch PROVE Cardinality(Busy)' = Cardinality(Busy)
    BY <1>2 DEF Busy
  <1>3. CASE UNCHANGED <<snapVars, panics>> /\ recon'.state = recon.state
    <2>1. Outstanding' = Outstanding  BY <1>0, <1>1, <1>2, <1>3 DEF snapVars
    <2> QED BY <1>3, <2>1 DEF FetchInv
  <1>4. CASE DispatcherNext
    <2>1. Outstanding' = Outstanding /\ UNCHANGED <<recon, panics>>  BY <1>4, DispatcherKeeps
    <2> QED BY <2>1 DEF FetchInv
  <1>5. CASE RequestInitial
    <2>1. Outstanding = 0  BY <1>5 DEF FetchInv, RequestInitial
    <2>2. Outstanding' = Outstanding + 1 /\ panics' = panics
      BY <1>0, <1>1, <1>2, <1>5 DEF RequestInitial, RequestSnapshot, countVars
    <2>3. recon'.state = "Buffering"
      BY <1>0, <1>5, MachineType DEF RequestInitial
    <2> QED BY <1>0, <2>1, <2>2, <2>3 DEF FetchInv
  <1>6. CASE StaleSnapshot
    <2>1. Len(resultCh) = 1 /\ Len(resultCh') = 0
      BY <1>0, <1>6 DEF StaleSnapshot, ReadResult, TypeOK
    <2>2. Outstanding' = Outstanding /\ panics' = panics /\ recon' = recon
      BY <1>0, <1>1, <1>2, <1>6, <2>1 DEF StaleSnapshot, RequestSnapshot, countVars
    <2> QED BY <2>2 DEF FetchInv
  <1>7. CASE MergeSnapshot \/ DiscardSnapshot
    <2>1. Len(resultCh) = 1 /\ Len(resultCh') = 0
      BY <1>0, <1>7 DEF MergeSnapshot, DiscardSnapshot, ReadResult, TypeOK
    <2>2. Outstanding' = Outstanding - 1 /\ panics' = panics
      BY <1>0, <1>1, <1>2, <1>7, <2>1 DEF MergeSnapshot, DiscardSnapshot, countVars
    <2>3. recon'.state # "Initial"
      BY <1>0, <1>7, MachineType DEF MergeSnapshot, DiscardSnapshot, ReadResult, workerVars
    <2>4. Outstanding \in Nat /\ Outstanding >= 1
      <3>1. Outstanding = snapReqs + Cardinality(Busy) + 1  BY <1>0, <2>1
      <3> QED BY <1>0, <3>1
    <2>5. 0 <= Outstanding'  BY <2>2, <2>4
    <2> QED BY <1>0, <2>2, <2>3, <2>4, <2>5 DEF FetchInv
  <1>8. CASE Panic
    <2>1. Len(resultCh') = 0 /\ snapReqs' = snapReqs + 1 /\ panics' = panics + 1
      BY <1>8 DEF Panic, RequestSnapshot
    <2>2. Outstanding' <= Outstanding + 1
      BY <1>0, <1>1, <1>2, <1>8, <2>1 DEF Panic
    <2>3. recon'.state = "Buffering"  BY <1>0, <1>8, MachineType DEF Panic
    <2>4. Outstanding \in Nat /\ Outstanding' \in Int  BY <1>0, <1>1, <1>2, <1>8, <2>1 DEF Panic
    <2> QED BY <1>0, <2>1, <2>2, <2>3, <2>4 DEF FetchInv
  <1>9. CASE Restart
    <2>1. Busy' = {}  BY <1>9 DEF Restart, IdleFetcher, Busy
    <2>2. Cardinality(Busy)' = 0  BY <2>1, FS_EmptySet
    <2>3. Outstanding' = 0 /\ panics' = panics  BY <1>1, <1>9, <2>2 DEF Restart, countVars
    <2> QED BY <1>0, <2>3 DEF FetchInv
  <1>10. CASE BufferTick
    <2>1. Head(deltas).seq \in Nat  BY <1>10, HeadOfDeltas DEF BufferTick
    <2>2. recon'.state = recon.state  BY <1>0, <1>10, <2>1, MachineType DEF BufferTick
    <2> QED BY <1>3, <1>10, <2>2 DEF BufferTick, countVars
  <1>11. ASSUME \/ ExchangeNext \/ AdapterNext \/ RunTickFanout \/ HandleTrade \/ LiveTick
                \/ Shutdown \/ Crash \/ UNCHANGED vars
         PROVE  UNCHANGED <<snapVars, panics>> /\ recon'.state = recon.state
    BY <1>11 DEF ExchangeNext, ExchangeUpdate, ExchangeTrade, RestCatchUp, AdapterNext,
                 SendTick, Disconnect, Redial, RunTickFanout, HandleTrade, LiveTick,
                 Shutdown, Crash, StopProcess, vars, workerVars, countVars
  <1> QED
    BY <1>3, <1>4, <1>5, <1>6, <1>7, <1>8, <1>9, <1>10, <1>11
    DEF Next, WorkerNext, ProcessNext
\* Only a panic starts a second fetch (snapshot.go), whatever the constants.
THEOREM FetchesHold == Spec => []FetchesAreBounded
  <1>1. Init => TypeOK /\ FetchInv  BY TypeInit, FetchStarts
  <1>2. TypeOK /\ FetchInv /\ [Next]_vars => (TypeOK /\ FetchInv)'
    BY TypeStep, FetchStep
  <1>3. FetchInv => FetchesAreBounded  BY DEF FetchInv, FetchesAreBounded
  <1> QED BY <1>1, <1>2, <1>3, PTL DEF Spec
------------------------------------------------------------------------------
(* The book.  The changes of the feed go through the channels in their      *)
(* order, and the book's last number is behind all of them, unless it is    *)
(* still that of the snapshot: so the one change handleTick does not apply  *)
(* is one the snapshot already has.                                         *)

InOrder(ch) ==
  \A i, j \in 1..Len(ch) :
    i < j /\ ch[i].type = "update" /\ ch[j].type = "update" => ch[i].seq < ch[j].seq

Precedes(c, d) ==
  \A i \in 1..Len(c), j \in 1..Len(d) :
    c[i].type = "update" /\ d[j].type = "update" => c[i].seq < d[j].seq

Above(ch, n) == \A i \in 1..Len(ch) : ch[i].type = "update" => n < ch[i].seq

UpTo(ch, n) == \A i \in 1..Len(ch) : ch[i].type = "update" => ch[i].seq <= n

FramesInOrder ==
  /\ InOrder(deltas) /\ InOrder(ticks) /\ InOrder(sending)
  /\ Precedes(deltas, ticks) /\ Precedes(deltas, sending) /\ Precedes(ticks, sending)
  /\ UpTo(deltas, exchSeq) /\ UpTo(ticks, exchSeq) /\ UpTo(sending, exchSeq)

BookIsBehind ==
  \/ book.lastSeq = book.base
  \/ /\ book.lastSeq <= exchSeq
     /\ Above(deltas, book.lastSeq) /\ Above(ticks, book.lastSeq) /\ Above(sending, book.lastSeq)

\* The book has every change of the stream that no snapshot follows.
Holds(b, s) ==
  \A i \in 1..Len(s) :
    \/ s[i].kind # "tick"
    \/ \E j \in i..Len(s) : s[j].kind = "snap"
    \/ Reflects(b, s[i])

BookInv ==
  /\ TypeOK
  /\ FramesInOrder
  /\ BookIsBehind
  /\ up /\ recon.state = "Live" => Holds(book, stream)

\* What is left of a channel, and what a send may add to one.
LEMMA TailElements ==
  ASSUME NEW ch \in Seq(Tick), ch # <<>>
  PROVE  /\ 1 \in 1..Len(ch) /\ Head(ch) = ch[1] /\ Len(ch) \in Nat
         /\ \A i \in 1..Len(Tail(ch)) :
              i \in Nat /\ i >= 1 /\ i + 1 \in 1..Len(ch) /\ Tail(ch)[i] = ch[i + 1]
  OBVIOUS

LEMMA TrySendElements ==
  ASSUME NEW ch \in Seq(Tick), NEW v \in Tick, NEW cap \in Nat
  PROVE  /\ Len(ch) \in Nat
         /\ \A i \in 1..Len(TrySend(ch, cap, v)) :
              /\ i \in Nat /\ i >= 1
              /\ \/ i \in 1..Len(ch) /\ TrySend(ch, cap, v)[i] = ch[i]
                 \/ i = Len(ch) + 1 /\ TrySend(ch, cap, v)[i] = v
  <1>1. Len(ch) \in Nat  OBVIOUS
  <1>2. CASE Len(ch) < cap
    <2>1. TrySend(ch, cap, v) = Append(ch, v)  BY <1>2 DEF TrySend
    <2>2. Len(Append(ch, v)) = Len(ch) + 1  OBVIOUS
    <2>3. \A i \in 1..Len(Append(ch, v)) :
            \/ i \in 1..Len(ch) /\ Append(ch, v)[i] = ch[i]
            \/ i = Len(ch) + 1 /\ Append(ch, v)[i] = v
      OBVIOUS
    <2> QED BY <1>1, <2>1, <2>2, <2>3
  <1>3. CASE ~(Len(ch) < cap)
    <2>1. TrySend(ch, cap, v) = ch  BY <1>3 DEF TrySend
    <2> QED BY <1>1, <2>1
  <1> QED BY <1>2, <1>3

LEMMA TailInOrder ==
  ASSUME NEW ch \in Seq(Tick), ch # <<>>, InOrder(ch)
  PROVE  /\ InOrder(Tail(ch))
         /\ Head(ch).type = "update" => Above(Tail(ch), Head(ch).seq)
  <1>0. /\ 1 \in 1..Len(ch) /\ Head(ch) = ch[1] /\ Len(ch) \in Nat
        /\ \A i \in 1..Len(Tail(ch)) :
             i \in Nat /\ i >= 1 /\ i + 1 \in 1..Len(ch) /\ Tail(ch)[i] = ch[i + 1]
    BY TailElements
  <1> DEFINE t == Tail(ch)
  <1>1. \A i \in 1..Len(t) : i \in Nat /\ i >= 1 /\ i + 1 \in 1..Len(ch) /\ t[i] = ch[i + 1]
    BY <1>0
  <1> HIDE DEF t
  <1>2. InOrder(t)
    <2> SUFFICES ASSUME NEW i \in 1..Len(t), NEW j \in 1..Len(t), i < j,
                        t[i].type = "update", t[j].type = "update"
                 PROVE  t[i].seq < t[j].seq
      BY DEF InOrder
    <2>1. i + 1 < j + 1 /\ i + 1 \in 1..Len(ch) /\ j + 1 \in 1..Len(ch)
          /\ t[i] = ch[i + 1] /\ t[j] = ch[j + 1]
      BY <1>1
    <2> QED BY <2>1 DEF InOrder
  <1>3. ASSUME Head(ch).type = "update" PROVE Above(t, Head(ch).seq)
    <2> SUFFICES ASSUME NEW i \in 1..Len(t), t[i].type = "update" PROVE ch[1].seq < t[i].seq
      BY <1>0 DEF Above
    <2>1. 1 < i + 1 /\ i + 1 \in 1..Len(ch) /\ t[i] = ch[i + 1]  BY <1>1
    <2> QED BY <1>0, <1>3, <2>1 DEF InOrder
  <1> QED BY <1>2, <1>3 DEF t

\* A tick that passes from channel c to channel d, or is dropped on its way.
LEMMA HandOver ==
  ASSUME NEW c \in Seq(Tick), c # <<>>, NEW d \in Seq(Tick), NEW cap \in Nat,
         InOrder(c), InOrder(d), Precedes(d, c)
  PROVE  /\ InOrder(Tail(c)) /\ InOrder(TrySend(d, cap, Head(c)))
         /\ Precedes(TrySend(d, cap, Head(c)), Tail(c))
  <1> DEFINE t == Tail(c)
             u == TrySend(d, cap, Head(c))
  <1>0. Head(c) \in Tick  OBVIOUS
  <1>1. /\ 1 \in 1..Len(c) /\ Head(c) = c[1] /\ Len(c) \in Nat
        /\ \A i \in 1..Len(t) : i \in Nat /\ i >= 1 /\ i + 1 \in 1..Len(c) /\ t[i] = c[i + 1]
    BY TailElements
  <1>2. /\ Len(d) \in Nat
        /\ \A i \in 1..Len(u) : /\ i \in Nat /\ i >= 1
                                /\ \/ i \in 1..Len(d) /\ u[i] = d[i]
                                   \/ i = Len(d) + 1 /\ u[i] = c[1]
    BY <1>0, <1>1, TrySendElements
  <1>3. InOrder(t)  BY TailInOrder
  <1> HIDE DEF t, u
  <1>4. InOrder(u)
    <2> SUFFICES ASSUME NEW i \in 1..Len(u), NEW j \in 1..Len(u), i < j,
                        u[i].type = "update", u[j].type = "update"
                 PROVE  u[i].seq < u[j].seq
      BY DEF InOrder
    <2>1. i \in 1..Len(d) /\ u[i] = d[i]  BY <1>2
    <2>2. CASE j \in 1..Len(d) /\ u[j] = d[j]  BY <2>1, <2>2 DEF InOrder
    <2>3. CASE u[j] = c[1]  BY <1>1, <2>1, <2>3 DEF Precedes
    <2> QED BY <1>2, <2>2, <2>3
  <1>5. Precedes(u, t)
    <2> SUFFICES ASSUME NEW i \in 1..Len(u), NEW j \in 1..Len(t),
                        u[i].type = "update", t[j].type = "update"
                 PROVE  u[i].seq < t[j].seq
      BY DEF Precedes
    <2>1. j + 1 \in 1..Len(c) /\ t[j] = c[j + 1] /\ 1 < j + 1  BY <1>1
    <2>2. CASE i \in 1..Len(d) /\ u[i] = d[i]  BY <2>1, <2>2 DEF Precedes
    <2>3. CASE u[i] = c[1]  BY <1>1, <2>1, <2>3 DEF InOrder
    <2> QED BY <1>2, <2>2, <2>3
  <1> QED BY <1>3, <1>4, <1>5 DEF t, u

\* What held of both channels holds of both after the tick has passed.
LEMMA HandOverOthers ==
  ASSUME NEW c \in Seq(Tick), c # <<>>, NEW d \in Seq(Tick), NEW cap \in Nat,
         NEW x, NEW n
  PROVE  /\ Precedes(c, x) => Precedes(Tail(c), x)
         /\ Precedes(x, c) => Precedes(x, Tail(c))
         /\ Above(c, n) => Above(Tail(c), n)
         /\ UpTo(c, n) => UpTo(Tail(c), n)
         /\ Precedes(c, x) /\ Precedes(d, x) => Precedes(TrySend(d, cap, Head(c)), x)
         /\ Precedes(x, c) /\ Precedes(x, d) => Precedes(x, TrySend(d, cap, Head(c)))
         /\ Above(c, n) /\ Above(d, n) => Above(TrySend(d, cap, Head(c)), n)
         /\ UpTo(c, n) /\ UpTo(d, n) => UpTo(TrySend(d, cap, Head(c)), n)
  <1> DEFINE t == Tail(c)
             u == TrySend(d, cap, Head(c))
  <1>0. Head(c) \in Tick  OBVIOUS
  <1>1. /\ 1 \in 1..Len(c) /\ Head(c) = c[1]
        /\ \A i \in 1..Len(t) : i + 1 \in 1..Len(c) /\ t[i] = c[i + 1]
    BY TailElements
  <1>2. \A i \in 1..Len(u) : \/ i \in 1..Len(d) /\ u[i] = d[i]
                             \/ u[i] = c[1]
    BY <1>0, <1>1, TrySendElements
  <1> HIDE DEF t, u
  <1>3. Precedes(c, x) => Precedes(t, x)  BY <1>1 DEF Precedes
  <1>4. Precedes(x, c) => Precedes(x, t)  BY <1>1 DEF Precedes
  <1>5. Above(c, n) => Above(t, n)  BY <1>1 DEF Above
  <1>6. UpTo(c, n) => UpTo(t, n)  BY <1>1 DEF UpTo
  <1>7. Precedes(c, x) /\ Precedes(d, x) => Precedes(u, x)  BY <1>1, <1>2 DEF Precedes
  <1>8. Precedes(x, c) /\ Precedes(x, d) => Precedes(x, u)  BY <1>1, <1>2 DEF Precedes
  <1>9. Above(c, n) /\ Above(d, n) => Above(u, n)  BY <1>1, <1>2 DEF Above
  <1>10. UpTo(c, n) /\ UpTo(d, n) => UpTo(u, n)  BY <1>1, <1>2 DEF UpTo
  <1> QED BY <1>3, <1>4, <1>5, <1>6, <1>7, <1>8, <1>9, <1>10 DEF t, u

\* The head of a channel counts for what holds of the whole channel.
LEMMA HeadCounts ==
  ASSUME NEW c \in Seq(Tick), c # <<>>, Head(c).type = "update", NEW x, NEW n
  PROVE  /\ Precedes(c, x) => Above(x, Head(c).seq)
         /\ Above(c, n) => n < Head(c).seq
         /\ UpTo(c, n) => Head(c).seq <= n
  <1>1. 1 \in 1..Len(c) /\ Head(c) = c[1]  BY TailElements
  <1>2. Precedes(c, x) => Above(x, Head(c).seq)  BY <1>1 DEF Precedes, Above
  <1> QED BY <1>1, <1>2 DEF Above, UpTo

\* A frame of one level is the next in the feed's order.
LEMMA FrameIsNext ==
  ASSUME OneLevelFrames, NEW n \in Nat, NEW span \in 1..MaxSpan,
         NEW seqs \in FrameSeqs(n + 1, n + span)
  PROVE  /\ InOrder(FrameTicks(n + 1, n + span, seqs))
         /\ Above(FrameTicks(n + 1, n + span, seqs), n)
         /\ UpTo(FrameTicks(n + 1, n + span, seqs), n + span)
  <1> DEFINE to == n + span
             ch == FrameTicks(n + 1, to, seqs)
  <1>1. span \in Nat /\ span >= 1 /\ to \in Nat /\ n + 1 \in Nat /\ n + 1 <= to
    BY ParametersAreSane
  <1>2. PICK m \in 1..MaxDeltas : seqs \in [1..m -> (n + 1)..to]
    BY <1>1 DEF FrameSeqs
  <1>3. m = 1  BY <1>2 DEF OneLevelFrames
  <1>4. DOMAIN seqs = 1..1 /\ Len(seqs) = 1 /\ seqs[1] \in (n + 1)..to
    BY <1>2, <1>3
  <1>5. Len(ch) = 1 /\ ch[1].seq \in (n + 1)..to
    BY <1>4 DEF FrameTicks
  <1> HIDE DEF ch, to
  <1>6. \A i \in 1..Len(ch) : i = 1  BY <1>5
  <1>7. ch[1].seq \in Nat /\ n < ch[1].seq /\ ch[1].seq <= to  BY <1>1, <1>5
  <1>8. InOrder(ch)  BY <1>6 DEF InOrder
  <1>9. Above(ch, n) /\ UpTo(ch, to)  BY <1>6, <1>7 DEF Above, UpTo
  <1> QED BY <1>8, <1>9 DEF ch, to

\* Everything in the channels has been assigned already, and what is about
\* to be sent has not.
LEMMA NewFrameIsLast ==
  ASSUME NEW c \in Seq(Tick), NEW d \in Seq(Tick), NEW n \in Nat, NEW m \in Nat
  PROVE  /\ UpTo(c, n) /\ Above(d, n) => Precedes(c, d)
         /\ UpTo(c, n) /\ n <= m => UpTo(c, m)
         /\ Above(c, n) /\ m <= n => Above(c, m)
  <1>1. \A i \in 1..Len(c) : c[i].seq \in Nat
    <2> TAKE i \in 1..Len(c)
    <2>1. c[i] \in Tick  OBVIOUS
    <2> QED BY <2>1 DEF Tick
  <1>2. \A i \in 1..Len(d) : d[i].seq \in Nat
    <2> TAKE i \in 1..Len(d)
    <2>1. d[i] \in Tick  OBVIOUS
    <2> QED BY <2>1 DEF Tick
  <1>3. UpTo(c, n) /\ Above(d, n) => Precedes(c, d)
    <2> SUFFICES ASSUME UpTo(c, n), Above(d, n), NEW i \in 1..Len(c), NEW j \in 1..Len(d),
                        c[i].type = "update", d[j].type = "update"
                 PROVE  c[i].seq < d[j].seq
      BY DEF Precedes
    <2>1. c[i].seq <= n  BY DEF UpTo
    <2>2. n < d[j].seq  BY DEF Above
    <2> QED BY <1>1, <1>2, <2>1, <2>2
  <1>4. UpTo(c, n) /\ n <= m => UpTo(c, m)  BY <1>1 DEF UpTo
  <1>5. Above(c, n) /\ m <= n => Above(c, m)  BY <1>1 DEF Above
  <1> QED BY <1>3, <1>4, <1>5

\* The channels when the feed changes: a trade and a frame that is lost or
\* sent keep the order, and stay above what the book was above.
LEMMA FeedStep ==
  ASSUME TypeOK, FramesInOrder, OneLevelFrames, ExchangeUpdate \/ ExchangeTrade,
         NEW b \in Nat
  PROVE  /\ FramesInOrder'
         /\ UNCHANGED <<deltas, ticks>> /\ exchSeq <= exchSeq' /\ exchSeq' \in Nat
         /\ b <= exchSeq /\ Above(sending, b) => Above(sending', b)
  <1>0. /\ sending \in Seq(Tick) /\ ticks \in Seq(Tick) /\ deltas \in Seq(Tick)
        /\ exchSeq \in Nat
    BY DEF TypeOK
  <1>1. CASE ExchangeTrade
    <2>1. /\ UNCHANGED <<exchSeq, ticks, deltas>> /\ sending' = <<TradeTick>>
      BY <1>1 DEF ExchangeTrade, exchangeVars
    <2>2. Len(sending') = 1 /\ sending'[1] = TradeTick  BY <2>1
    <2>3. \A i \in 1..Len(sending') : sending'[i].type # "update"
      BY <2>2 DEF TradeTick
    <2>4. /\ InOrder(sending') /\ Precedes(deltas, sending') /\ Precedes(ticks, sending')
          /\ UpTo(sending', exchSeq) /\ Above(sending', b)
      BY <2>3 DEF InOrder, Precedes, UpTo, Above
    <2> QED BY <1>0, <2>1, <2>4 DEF FramesInOrder
  <1>2. CASE ExchangeUpdate
    <2>1. PICK span \in 1..MaxSpan :
            /\ exchSeq' = exchSeq + span
            /\ \/ \E seqs \in FrameSeqs(exchSeq + 1, exchSeq + span) :
                    sending' = FrameTicks(exchSeq + 1, exchSeq + span, seqs)
               \/ sending' = sending
      BY <1>2 DEF ExchangeUpdate
    <2>2. UNCHANGED <<ticks, deltas>>  BY <1>2 DEF ExchangeUpdate
    <2>3. span \in Nat /\ exchSeq' \in Nat /\ exchSeq <= exchSeq'
      BY <1>0, <2>1, ParametersAreSane
    <2>4. UpTo(deltas, exchSeq') /\ UpTo(ticks, exchSeq')
      BY <1>0, <2>3, NewFrameIsLast DEF FramesInOrder
    <2>5. CASE sending' = sending
      <3>1. UpTo(sending, exchSeq')  BY <1>0, <2>3, NewFrameIsLast DEF FramesInOrder
      <3> QED BY <2>2, <2>3, <2>4, <2>5, <3>1 DEF FramesInOrder
    <2>6. CASE \E seqs \in FrameSeqs(exchSeq + 1, exchSeq + span) :
                 sending' = FrameTicks(exchSeq + 1, exchSeq + span, seqs)
      <3>1. PICK seqs \in FrameSeqs(exchSeq + 1, exchSeq + span) :
              sending' = FrameTicks(exchSeq + 1, exchSeq + span, seqs)
        BY <2>6
      <3>2. InOrder(sending') /\ Above(sending', exchSeq) /\ UpTo(sending', exchSeq')
        BY <1>0, <2>1, <3>1, FrameIsNext
      <3>3. sending' \in Seq(Tick)
        <4>1. exchSeq + 1 \in Nat /\ exchSeq + span \in Nat  BY <1>0, <2>3
        <4> QED BY <3>1, <4>1, FrameTicksType
      <3>4. Precedes(deltas, sending') /\ Precedes(ticks, sending')
        BY <1>0, <3>2, <3>3, NewFrameIsLast DEF FramesInOrder
      <3>5. b <= exchSeq => Above(sending', b)
        BY <1>0, <3>2, <3>3, NewFrameIsLast
      <3> QED BY <2>2, <2>3, <2>4, <3>2, <3>4, <3>5 DEF FramesInOrder
    <2> QED BY <2>1, <2>5, <2>6
  <1> QED BY <1>1, <1>2

\* The channels when a tick moves on.
LEMMA PassingStep ==
  ASSUME TypeOK, FramesInOrder, SendTick \/ RunTickFanout, NEW b \in Nat
  PROVE  /\ FramesInOrder' /\ exchSeq' = exchSeq
         /\ Above(deltas, b) /\ Above(ticks, b) /\ Above(sending, b) =>
              Above(deltas', b) /\ Above(ticks', b) /\ Above(sending', b)
  <1>0. /\ sending \in Seq(Tick) /\ ticks \in Seq(Tick) /\ deltas \in Seq(Tick)
        /\ TickCap \in Nat /\ DeltaCap \in Nat
    BY ParametersAreSane DEF TypeOK
  <1>1. CASE SendTick
    <2>1. /\ sending # <<>> /\ sending' = Tail(sending) /\ UNCHANGED <<exchSeq, deltas>>
          /\ ticks' = TrySend(ticks, TickCap, Head(sending))
      BY <1>1 DEF SendTick, exchangeVars
    <2>2. InOrder(sending') /\ InOrder(ticks') /\ Precedes(ticks', sending')
      BY <1>0, <2>1, HandOver DEF FramesInOrder
    <2>3. /\ Precedes(deltas, sending') /\ Precedes(deltas, ticks')
          /\ UpTo(sending', exchSeq) /\ UpTo(ticks', exchSeq)
      BY <1>0, <2>1, HandOverOthers DEF FramesInOrder
    <2>4. Above(ticks, b) /\ Above(sending, b) => Above(ticks', b) /\ Above(sending', b)
      BY <1>0, <2>1, HandOverOthers
    <2> QED BY <2>1, <2>2, <2>3, <2>4 DEF FramesInOrder
  <1>2. CASE RunTickFanout
    <2>1. /\ ticks # <<>> /\ ticks' = Tail(ticks) /\ UNCHANGED <<exchSeq, sending>>
          /\ deltas' = TrySend(deltas, DeltaCap, Head(ticks))
      BY <1>2 DEF RunTickFanout, exchangeVars
    <2>2. InOrder(ticks') /\ InOrder(deltas') /\ Precedes(deltas', ticks')
      BY <1>0, <2>1, HandOver DEF FramesInOrder
    <2>3. /\ Precedes(ticks', sending) /\ Precedes(deltas', sending)
          /\ UpTo(ticks', exchSeq) /\ UpTo(deltas', exchSeq)
      BY <1>0, <2>1, HandOverOthers DEF FramesInOrder
    <2>4. Above(deltas, b) /\ Above(ticks, b) => Above(deltas', b) /\ Above(ticks', b)
      BY <1>0, <2>1, HandOverOthers
    <2> QED BY <2>1, <2>2, <2>3, <2>4 DEF FramesInOrder
  <1> QED BY <1>1, <1>2

\* The channels when the worker takes a tick, or loses one to a panic.
LEMMA TakingStep ==
  ASSUME TypeOK, FramesInOrder, deltas # <<>>, deltas' = Tail(deltas),
         UNCHANGED <<exchSeq, ticks, sending>>, NEW b
  PROVE  /\ FramesInOrder'
         /\ Above(deltas, b) /\ Above(ticks, b) /\ Above(sending, b) =>
              Above(deltas', b) /\ Above(ticks', b) /\ Above(sending', b)
         /\ Head(deltas).type = "update" =>
              /\ Head(deltas).seq <= exchSeq
              /\ Above(deltas', Head(deltas).seq) /\ Above(ticks', Head(deltas).seq)
              /\ Above(sending', Head(deltas).seq)
              /\ Above(deltas, b) => b < Head(deltas).seq
  <1>0. sending \in Seq(Tick) /\ ticks \in Seq(Tick) /\ deltas \in Seq(Tick)
    BY DEF TypeOK
  <1>1. InOrder(deltas') /\ (Head(deltas).type = "update" => Above(deltas', Head(deltas).seq))
    BY <1>0, TailInOrder DEF FramesInOrder
  <1>2. /\ Precedes(deltas', ticks) /\ Precedes(deltas', sending) /\ UpTo(deltas', exchSeq)
        /\ Above(deltas, b) => Above(deltas', b)
    BY <1>0, HandOverOthers DEF FramesInOrder
  <1>3. Head(deltas).type = "update" =>
          /\ Head(deltas).seq <= exchSeq
          /\ Above(ticks, Head(deltas).seq) /\ Above(sending, Head(deltas).seq)
          /\ Above(deltas, b) => b < Head(deltas).seq
    BY <1>0, HeadCounts DEF FramesInOrder
  <1> QED BY <1>1, <1>2, <1>3 DEF FramesInOrder

\* XADD keeps the book the one of the stream when the book has the record.
LEMMA XAddHolds ==
  ASSUME NEW b, NEW s \in Seq(StreamRecord), Len(s) <= StreamMax, NEW r \in StreamRecord,
         Holds(b, s), r.kind # "tick" \/ Reflects(b, r)
  PROVE  Holds(b, XAdd(s, r))
  <1> DEFINE x == XAdd(s, r)
  <1>0. Len(s) \in Nat /\ StreamMax \in Nat /\ StreamMax >= 3  BY ParametersAreSane
  <1>1. PICK o \in {0, 1} :
          /\ Len(x) = Len(s) - o + 1 /\ o <= Len(s)
          /\ x[Len(x)] = r
          /\ \A i \in 1..(Len(s) - o) : x[i] = s[i + o]
    <2>1. CASE Len(s) < StreamMax
      <3>1. x = Append(s, r)  BY <2>1 DEF XAdd
      <3>2. /\ Len(Append(s, r)) = Len(s) + 1 /\ Append(s, r)[Len(s) + 1] = r
            /\ \A i \in 1..Len(s) : Append(s, r)[i] = s[i]
        OBVIOUS
      <3>3. /\ Len(x) = Len(s) - 0 + 1 /\ 0 <= Len(s)
            /\ x[Len(x)] = r
            /\ \A i \in 1..(Len(s) - 0) : x[i] = s[i + 0]
        <4> HIDE DEF x
        <4>1. Len(x) = Len(s) + 1  BY <3>1, <3>2
        <4>2. Len(s) - 0 = Len(s) /\ \A i \in 1..Len(s) : i + 0 = i  BY <1>0
        <4> QED BY <1>0, <3>1, <3>2, <4>1, <4>2
      <3> QED BY <3>3
    <2>2. CASE ~(Len(s) < StreamMax)
      <3> DEFINE t == Tail(s)
      <3>0. Len(s) = StreamMax /\ s # <<>>  BY <1>0, <2>2
      <3>1. /\ t \in Seq(StreamRecord) /\ Len(t) = Len(s) - 1
            /\ \A i \in 1..Len(t) : t[i] = s[i + 1]
        BY <3>0
      <3>2. x = Append(t, r)  BY <2>2 DEF XAdd
      <3> HIDE DEF t
      <3>3. /\ Len(Append(t, r)) = Len(t) + 1 /\ Append(t, r)[Len(t) + 1] = r
            /\ \A i \in 1..Len(t) : Append(t, r)[i] = t[i]
        BY <3>1
      <3> HIDE DEF x
      <3>4. Len(x) = Len(s) - 1 + 1 /\ 1 <= Len(s) /\ x[Len(x)] = r
        BY <1>0, <3>0, <3>1, <3>2, <3>3
      <3>5. \A i \in 1..(Len(s) - 1) : x[i] = s[i + 1]  BY <3>1, <3>2, <3>3
      <3> QED BY <3>4, <3>5
    <2> QED BY <2>1, <2>2
  <1> HIDE DEF x
  <1>2. SUFFICES ASSUME NEW i \in 1..Len(x)
                 PROVE  \/ x[i].kind # "tick"
                        \/ \E j \in i..Len(x) : x[j].kind = "snap"
                        \/ Reflects(b, x[i])
    BY DEF Holds, x
  <1>3. CASE i = Len(x)  BY <1>1, <1>3
  <1>4. CASE i # Len(x)
    <2>1. i \in 1..(Len(s) - o) /\ x[i] = s[i + o] /\ i + o \in 1..Len(s)
      BY <1>0, <1>1, <1>4
    <2>2. CASE \E j \in (i + o)..Len(s) : s[j].kind = "snap"
      <3>1. PICK j \in (i + o)..Len(s) : s[j].kind = "snap"  BY <2>2
      <3>2. j - o \in 1..(Len(s) - o) /\ j - o \in i..Len(x) /\ (j - o) + o = j
        BY <1>0, <1>1, <2>1
      <3>3. x[j - o] = s[j]  BY <1>1, <3>2
      <3> QED BY <3>1, <3>2, <3>3
    <2>3. CASE s[i + o].kind # "tick" \/ Reflects(b, s[i + o])  BY <2>1, <2>3
    <2> QED BY <2>1, <2>2, <2>3 DEF Holds
  <1> QED BY <1>3, <1>4

\* A snapshot signal settles all that came before it.
LEMMA SnapHolds ==
  ASSUME NEW b, NEW s \in Seq(StreamRecord), Len(s) <= StreamMax, NEW seq \in Nat
  PROVE  Holds(b, XAdd(s, SnapRecord(seq)))
  <1> DEFINE x == XAdd(s, SnapRecord(seq))
  <1>1. SnapRecord(seq) \in StreamRecord /\ SnapRecord(seq).kind = "snap"
    BY DEF SnapRecord, StreamRecord
  <1>2. Len(x) \in 1..StreamMax /\ x[Len(x)].kind = "snap"  BY <1>1, XAddType
  <1> HIDE DEF x
  <1>3. Len(x) \in Nat  BY <1>2, ParametersAreSane
  <1>4. \A i \in 1..Len(x) : \E j \in i..Len(x) : x[j].kind = "snap"
    <2> TAKE i \in 1..Len(x)
    <2>1. Len(x) \in i..Len(x)  BY <1>3
    <2> QED BY <1>2, <2>1
  <1>5. Holds(b, x)  BY <1>4 DEF Holds
  <1> QED BY <1>5 DEF x

LEMMA GapHolds ==
  ASSUME Faults \subseteq {"tick"}, NEW b, NEW s \in Seq(StreamRecord), Len(s) <= StreamMax,
         NEW before \in Nat, NEW after \in Nat, Holds(b, s),
         NEW x \in AfterGap(s, "external_disconnect", before, after)
  PROVE  Holds(b, x)
  <1> DEFINE r == GapRecord("external_disconnect", before, after)
  <1>1. r \in StreamRecord /\ r.kind = "gap"  BY DEF GapRecord, StreamRecord
  <1>2. x = XAdd(s, r)  BY <1>1 DEF AfterGap, Attempt
  <1> HIDE DEF r
  <1> QED BY <1>1, <1>2, XAddHolds

\* A change that is new to the book is applied, and one that is not came
\* with the snapshot.
LEMMA ApplyReflects ==
  ASSUME NEW b \in [lastSeq : Nat, base : Nat, has : SUBSET (Nat \X Nat)], NEW t \in Tick,
         b.lastSeq = b.base \/ b.lastSeq < t.seq
  PROVE  /\ Reflects(Apply(b, t), t)
         /\ Apply(b, t).base = b.base /\ b.has \subseteq Apply(b, t).has
         /\ Apply(b, t) = b \/ Apply(b, t).lastSeq = t.seq
  <1>1. b.lastSeq \in Nat /\ t.seq \in Nat  BY DEF Tick
  <1>2. CASE t.seq <= b.lastSeq
    <2>1. Apply(b, t) = b  BY <1>2 DEF Apply
    <2>2. t.seq <= b.base  BY <1>1, <1>2
    <2> QED BY <2>1, <2>2 DEF Reflects
  <1>3. CASE ~(t.seq <= b.lastSeq)
    <2>1. /\ Apply(b, t).lastSeq = t.seq /\ Apply(b, t).base = b.base
          /\ Apply(b, t).has = b.has \union {<<t.seq, t.k>>}
      BY <1>3 DEF Apply
    <2> QED BY <2>1 DEF Reflects
  <1> QED BY <1>2, <1>3

\* handleTick when Live: the gap marker, the change and its application.
LEMMA LiveTickHolds ==
  ASSUME BookInv, OneLevelFrames, LiveTick
  PROVE  FramesInOrder' /\ BookIsBehind' /\ Holds(book', stream')
  <1> DEFINE t == Head(deltas)
             r == TickRecord(t)
  <1>1. /\ deltas # <<>> /\ deltas' = Tail(deltas) /\ t.type = "update"
        /\ up /\ recon.state = "Live" /\ book' = Apply(book, t)
        /\ UNCHANGED <<exchSeq, sending, ticks>>
    BY DEF LiveTick, ReadTick, exchangeVars
  <1>2. t \in Tick /\ t.seq \in Nat  BY HeadOfDeltas DEF LiveTick, BookInv
  <1>3. /\ book \in [lastSeq : Nat, base : Nat, has : SUBSET (Nat \X Nat)]
        /\ stream \in Seq(StreamRecord) /\ Len(stream) <= StreamMax
        /\ lastSeq \in Nat /\ lastMsgSeqEnd \in Nat
        /\ Faults \subseteq {"tick"}
    BY DEF BookInv, TypeOK, OneLevelFrames
  <1>4. PICK s \in AfterGapTest(t) : stream' \in AfterTick(s, t)  BY DEF LiveTick
  <1>5. /\ FramesInOrder'
        /\ Above(deltas, book.lastSeq) /\ Above(ticks, book.lastSeq) /\ Above(sending, book.lastSeq) =>
             Above(deltas', book.lastSeq) /\ Above(ticks', book.lastSeq)
               /\ Above(sending', book.lastSeq)
        /\ t.seq <= exchSeq
        /\ Above(deltas', t.seq) /\ Above(ticks', t.seq) /\ Above(sending', t.seq)
        /\ Above(deltas, book.lastSeq) => book.lastSeq < t.seq
    BY <1>1, TakingStep DEF BookInv
  <1>6. book.lastSeq = book.base \/ book.lastSeq < t.seq
    BY <1>5 DEF BookInv, BookIsBehind
  <1>7. /\ Reflects(book', t)
        /\ book'.base = book.base /\ book.has \subseteq book'.has
        /\ book' = book \/ book'.lastSeq = t.seq
    BY <1>1, <1>2, <1>3, <1>6, ApplyReflects
  <1>8. BookIsBehind'
    <2>1. CASE book' = book
      BY <1>1, <1>5, <2>1 DEF BookInv, BookIsBehind
    <2>2. CASE book'.lastSeq = t.seq
      BY <1>1, <1>5, <2>2 DEF BookIsBehind
    <2> QED BY <1>7, <2>1, <2>2
  <1>9. Holds(book', stream)
    <2>1. \A x : Reflects(book, x) => Reflects(book', x)  BY <1>7 DEF Reflects
    <2>2. Holds(book, stream)  BY <1>1 DEF BookInv
    <2> QED BY <2>1, <2>2 DEF Holds
  <1>10. /\ r \in StreamRecord /\ Reflects(book', r)
    <2>1. r.seq = t.seq /\ r.k = t.k  BY DEF TickRecord
    <2>2. r \in StreamRecord  BY <1>2 DEF TickRecord, StreamRecord, Tick
    <2> QED BY <1>7, <2>1, <2>2 DEF Reflects
  <1>11. SeqBefore(t) \in Nat /\ SeqAfter(t) \in Nat
    BY <1>2, <1>3 DEF SeqBefore, SeqAfter, MsgSeqStart, MsgSeqEnd, Tick
  <1> HIDE DEF t, r
  <1>12. s \in Seq(StreamRecord) /\ Len(s) <= StreamMax /\ Holds(book', s)
    <2>1. CASE DetectsGap(t)
      <3>1. s \in AfterGap(stream, "external_disconnect", SeqBefore(t), SeqAfter(t))
        BY <1>4, <2>1 DEF AfterGapTest
      <3>2. s \in Seq(StreamRecord) /\ Len(s) <= StreamMax
        BY <1>3, <1>11, <3>1, AfterGapType
      <3> QED BY <1>3, <1>9, <1>11, <3>1, <3>2, GapHolds
    <2>2. CASE ~DetectsGap(t)
      BY <1>3, <1>4, <1>9, <2>2 DEF AfterGapTest
    <2> QED BY <2>1, <2>2
  <1>13. CASE stream' = XAdd(s, r)
    BY <1>5, <1>8, <1>10, <1>12, <1>13, XAddHolds
  <1>14. CASE stream' \in AfterGap(s, "external_disconnect", t.seq, t.seq)
    BY <1>2, <1>3, <1>5, <1>8, <1>12, <1>14, GapHolds
  <1> QED BY <1>4, <1>13, <1>14 DEF AfterTick, r

LEMMA BookStep ==
  ASSUME BookInv, OneLevelFrames, [Next]_vars
  PROVE  BookInv'
  <1>0. TypeOK /\ TypeOK'  BY TypeStep DEF BookInv
  <1>1. book.lastSeq \in Nat /\ exchSeq \in Nat /\ recon \in Machines  BY <1>0 DEF TypeOK
  <1>2. SUFFICES FramesInOrder' /\ BookIsBehind'
                   /\ (up' /\ recon'.state = "Live" => Holds(book', stream'))
    BY <1>0 DEF BookInv, Holds, Reflects
  <1>3. CASE ExchangeUpdate \/ ExchangeTrade
    <2>1. UNCHANGED <<up, recon, book, stream>>
      BY <1>3 DEF ExchangeUpdate, ExchangeTrade, workerVars
    <2>2. /\ FramesInOrder' /\ UNCHANGED <<deltas, ticks>> /\ exchSeq <= exchSeq' /\ exchSeq' \in Nat
          /\ book.lastSeq <= exchSeq /\ Above(sending, book.lastSeq) =>
               Above(sending', book.lastSeq)
      BY <1>0, <1>1, <1>3, FeedStep DEF BookInv
    <2>3. BookIsBehind'  BY <1>1, <2>1, <2>2 DEF BookInv, BookIsBehind
    <2> QED BY <2>1, <2>2, <2>3 DEF BookInv
  <1>4. CASE SendTick \/ RunTickFanout
    <2>1. UNCHANGED <<up, recon, book, stream>>
      BY <1>4 DEF SendTick, RunTickFanout, workerVars
    <2>2. /\ FramesInOrder' /\ exchSeq' = exchSeq
          /\ Above(deltas, book.lastSeq) /\ Above(ticks, book.lastSeq) /\ Above(sending, book.lastSeq) =>
               Above(deltas', book.lastSeq) /\ Above(ticks', book.lastSeq)
                 /\ Above(sending', book.lastSeq)
      BY <1>0, <1>1, <1>4, PassingStep DEF BookInv
    <2>3. BookIsBehind'  BY <2>1, <2>2 DEF BookInv, BookIsBehind
    <2> QED BY <2>1, <2>2, <2>3 DEF BookInv
  <1>5. CASE LiveTick  BY <1>5, LiveTickHolds
  <1>6. CASE UNCHANGED channelVars /\ exchSeq' = exchSeq
    <2>1. FramesInOrder'  BY <1>6 DEF BookInv, FramesInOrder, channelVars
    <2>2. book' = book => BookIsBehind'
      BY <1>6 DEF BookInv, BookIsBehind, channelVars
    <2>3. book'.lastSeq = book'.base => BookIsBehind'  BY DEF BookIsBehind
    <2>4. CASE /\ UNCHANGED <<book, stream>>
               /\ up' = up \/ ~up'
               /\ recon'.state = recon.state \/ recon'.state # "Live"
      BY <2>1, <2>2, <2>4 DEF BookInv
    <2>5. CASE UNCHANGED book /\ ~up'  BY <2>1, <2>2, <2>5
    <2>6. CASE StaleSnapshot
      <3>1. book'.lastSeq = book'.base  BY <2>6 DEF StaleSnapshot, ApplySnapshot
      <3>2. recon'.state # "Live"  BY <2>6 DEF StaleSnapshot
      <3> QED BY <2>1, <2>3, <3>1, <3>2
    <2>7. CASE MergeSnapshot
      <3>1. book'.lastSeq = book'.base  BY <2>7 DEF MergeSnapshot, ApplySnapshot
      <3>2. Head(resultCh) \in Nat  BY <1>0, <2>7, HeadOfResultCh DEF MergeSnapshot
      <3>3. stream' = XAdd(stream, SnapRecord(Head(resultCh)))
        BY <2>7 DEF MergeSnapshot, AfterSnapshot, Attempt, SnapRecord, OneLevelFrames
      <3>4. stream \in Seq(StreamRecord) /\ Len(stream) <= StreamMax  BY <1>0 DEF TypeOK
      <3>5. Holds(book', stream')  BY <3>2, <3>3, <3>4, SnapHolds
      <3> QED BY <2>1, <2>3, <3>1, <3>5
    <2>8. ASSUME RestCatchUp \/ Disconnect \/ Redial \/ DispatcherNext \/ RequestInitial
                   \/ DiscardSnapshot \/ Crash \/ UNCHANGED vars
          PROVE  /\ UNCHANGED <<book, stream>>
                 /\ up' = up \/ ~up'
                 /\ recon'.state = recon.state \/ recon'.state # "Live"
      <3>1. CASE RequestInitial
        BY <1>1, <3>1, MachineType DEF RequestInitial
      <3>2. CASE Crash  BY <3>2 DEF Crash, StopProcess, workerVars
      <3>3. CASE RestCatchUp \/ Disconnect \/ Redial \/ DispatcherNext \/ DiscardSnapshot
                   \/ UNCHANGED vars
        BY <3>3 DEF RestCatchUp, Disconnect, Redial, DispatcherNext, DispatchRequest,
                    FetchSnapshot, SendResult, DiscardSnapshot, vars, workerVars
      <3> QED BY <2>8, <3>1, <3>2, <3>3
    <2>9. ASSUME Shutdown PROVE UNCHANGED book /\ ~up'
      BY <2>9 DEF Shutdown, StopProcess, workerVars
    <2>10. CASE \/ RestCatchUp \/ Disconnect \/ Redial \/ DispatcherNext \/ WorkerNext
                \/ ProcessNext \/ UNCHANGED vars
      <3>1. CASE HandleTrade \/ BufferTick \/ LiveTick \/ Restart \/ Panic
        <4>1. CASE HandleTrade
          BY <2>1, <2>4, <4>1 DEF HandleTrade, workerVars
        <4>2. CASE BufferTick
          BY <1>0, <1>1, <2>1, <2>4, <4>2, HeadOfDeltas, MachineType DEF BufferTick
        <4>3. CASE LiveTick  BY <4>3, LiveTickHolds
        <4>4. CASE Restart
          <5>1. book'.lastSeq = book'.base /\ recon'.state # "Live"
            BY <4>4 DEF Restart, NewBook, NewMachine
          <5> QED BY <2>1, <2>3, <5>1
        <4>5. CASE Panic
          <5>1. book' = book /\ recon'.state # "Live"
            BY <1>1, <4>5, MachineType DEF Panic
          <5> QED BY <2>1, <2>2, <5>1
        <4> QED BY <3>1, <4>1, <4>2, <4>3, <4>4, <4>5
      <3> QED BY <2>4, <2>5, <2>6, <2>7, <2>8, <2>9, <2>10, <3>1 DEF WorkerNext, ProcessNext
    <2> QED BY <1>3, <1>4, <2>10 DEF Next, ExchangeNext, AdapterNext
  <1>7. CASE ~(UNCHANGED channelVars /\ exchSeq' = exchSeq) /\ (HandleTrade \/ BufferTick \/ Panic)
    <2>1. deltas # <<>> /\ deltas' = Tail(deltas) /\ UNCHANGED <<exchSeq, ticks, sending>>
      BY <1>7 DEF HandleTrade, BufferTick, Panic, ReadTick, exchangeVars, channelVars
    <2>2. /\ FramesInOrder'
          /\ Above(deltas, book.lastSeq) /\ Above(ticks, book.lastSeq) /\ Above(sending, book.lastSeq) =>
               Above(deltas', book.lastSeq) /\ Above(ticks', book.lastSeq)
                 /\ Above(sending', book.lastSeq)
      BY <1>0, <2>1, TakingStep DEF BookInv
    <2>3. book' = book  BY <1>7 DEF HandleTrade, BufferTick, Panic, workerVars
    <2>4. BookIsBehind'  BY <2>1, <2>2, <2>3 DEF BookInv, BookIsBehind
    <2>5. up' /\ recon'.state = "Live" => Holds(book', stream')
      <3>1. CASE HandleTrade  BY <2>3, <3>1 DEF HandleTrade, workerVars, BookInv
      <3>2. CASE BufferTick
        BY <1>0, <1>1, <3>2, HeadOfDeltas, MachineType DEF BufferTick
      <3>3. CASE Panic  BY <1>1, <3>3, MachineType DEF Panic
      <3> QED BY <1>7, <3>1, <3>2, <3>3
    <2> QED BY <2>2, <2>4, <2>5
  <1>8. CASE Restart
    <2>1. /\ sending' = <<>> /\ ticks' = <<>> /\ deltas' = <<>> /\ exchSeq' = exchSeq
          /\ book'.lastSeq = book'.base /\ recon'.state # "Live"
      BY <1>8 DEF Restart, NewBook, NewMachine
    <2>2. FramesInOrder'  BY <2>1 DEF FramesInOrder, InOrder, Precedes, UpTo
    <2> QED BY <2>1, <2>2 DEF BookIsBehind
  <1>9. ASSUME RestCatchUp \/ Disconnect \/ Redial \/ DispatcherNext \/ RequestInitial
               \/ DiscardSnapshot \/ StaleSnapshot \/ MergeSnapshot \/ Shutdown \/ Crash
               \/ UNCHANGED vars
        PROVE  UNCHANGED channelVars /\ exchSeq' = exchSeq
    BY <1>9 DEF RestCatchUp, Disconnect, Redial, DispatcherNext, DispatchRequest,
                FetchSnapshot, SendResult, RequestInitial, DiscardSnapshot, StaleSnapshot,
                MergeSnapshot, Shutdown, Crash, StopProcess, vars, exchangeVars
  <1> QED
    BY <1>3, <1>4, <1>5, <1>6, <1>7, <1>8, <1>9
    DEF Next, ExchangeNext, AdapterNext, WorkerNext, ProcessNext

\* A live worker's book has every change it wrote to the stream since its
\* snapshot (reconnect.go: "StateLive means the book is up-to-date"), whatever
\* ticks were dropped and whatever it missed while it waited, and without a
\* panic no fetch is left that could put an older one in its place.
THEOREM BookHolds ==
  ASSUME OneLevelFrames
  PROVE  Spec => []BookIsSound
  <1>1. Init => BookInv
    <2> SUFFICES ASSUME Init PROVE BookInv  OBVIOUS
    <2>1. TypeOK  BY TypeInit
    <2>2. FramesInOrder
      BY DEF Init, FreshProcess, FramesInOrder, InOrder, Precedes, UpTo
    <2>3. BookIsBehind  BY DEF Init, FreshProcess, NewBook, BookIsBehind
    <2>4. recon.state # "Live"  BY DEF Init, FreshProcess, NewMachine
    <2> QED BY <2>1, <2>2, <2>3, <2>4 DEF BookInv
  <1>2. BookInv /\ [Next]_vars => BookInv'  BY BookStep
  <1>3. BookInv => BookReflectsStream
    BY DEF BookInv, Holds, BookReflectsStream
  <1>4. FetchesAreBounded /\ BookReflectsStream => BookIsSound  BY DEF BookIsSound
  <1>5. Spec => []FetchesAreBounded  BY FetchesHold
  <1> QED BY <1>1, <1>2, <1>3, <1>4, <1>5, PTL DEF Spec
------------------------------------------------------------------------------
(* The flusher.                                                             *)

Exporting == {"query", "upload", "record", "key"}

\* What the fields of a slot's goroutine mean, on day t with the objects a.
Shape(f, t, a) ==
  /\ f \in FlusherStates
  /\ f.pc \in {"down", "start", "done", "wait"} => f.mode = "none"
  /\ f.pc = "pick" => f.mode = "catchup" /\ f.date \in 1..t
  /\ f.pc \in Exporting => f.mode # "none" /\ f.date \in 1..(t - 1)
  /\ f.pc \in Exporting /\ f.mode = "catchup" => f.date <= f.until
  /\ f.pc \in {"record", "key"} => f.date \in a
  /\ f.mode = "catchup" => f.until < t

\* No day of ds is before day n.
NoneBefore(n, ds) == \A d \in ds : n <= d

\* The first day a goroutine answers for, when nd is the next flush time's day.
Current(f, t, nd, missed) ==
  /\ f.pc = "wait" => t <= f.due /\ NoneBefore(f.due - 1, missed)
  /\ f.mode \in {"catchup", "daily"} => NoneBefore(f.date, missed)
  /\ f.mode = "catchup" => nd <= f.until + 2
  /\ f.mode = "daily" => nd <= f.date + 2
  /\ f.mode # "override"

Missed == captured \ Attempted

\* The types, with what the records and the goroutines' fields say.
Recorded ==
  /\ FlusherTypeOK
  /\ manifest \cup ({key} \ {0}) \subseteq archive
  /\ manifest \cup ({key} \ {0}) \subseteq 1..(today - 1)
  /\ \A s \in Slots : Shape(flusher[s], today, archive)

\* No missed day is behind a restart, nor behind a goroutine.
OnCourse ==
  Ordinary => /\ 1 \in manifest
              /\ \A k \in manifest \cup {key} : NoneBefore(k + 1, Missed)
              /\ \A s \in Slots : Current(flusher[s], today, NextDue, Missed)

------------------------------------------------------------------------------
\* Where a finished day leads: the day itself is no longer among the missed.
LEMMA AfterType ==
  ASSUME FlusherTypeOK, NEW f, NEW a, Shape(f, today, a), f.pc \in Exporting
  PROVE  Shape(After(f), today, a)
  <1>0. /\ LastDay \in Nat /\ today \in 2..LastDay /\ fired \in BOOLEAN
        /\ f \in FlusherStates /\ f.mode \in {"catchup", "daily", "override"}
        /\ f.date \in 1..(today - 1)
    BY CalendarIsLongEnough DEF FlusherTypeOK, Shape, FlusherStates
  <1>1. CASE f.mode = "catchup"
    <2>1. After(f) = [f EXCEPT !.pc = "pick", !.date = f.date + 1]
      BY <1>1 DEF After
    <2>2. f.until < today  BY <1>1 DEF Shape
    <2>3. f.date + 1 \in 1..today /\ f.date + 1 \in 0..LastDay  BY <1>0
    <2>4. After(f) \in FlusherStates
      BY <1>0, <2>1, <2>3 DEF FlusherStates
    <2>5. After(f).date = f.date + 1 /\ After(f).pc = "pick"
      BY <1>0, <2>1 DEF FlusherStates
    <2>6. After(f).mode = "catchup" /\ After(f).until = f.until
      BY <1>0, <1>1, <2>1 DEF FlusherStates
    <2> QED BY <2>2, <2>3, <2>4, <2>5, <2>6 DEF Shape, Exporting
  <1>2. CASE f.mode = "daily"
    <2>1. After(f) = Waiting  BY <1>2 DEF After
    <2>2. NextDue \in 0..(LastDay + 1)  BY <1>0 DEF NextDue
    <2>3. Waiting = [pc |-> "wait", mode |-> "none", date |-> 0, until |-> 0, due |-> NextDue]
      BY DEF Waiting, Idle
    <2>4. Waiting \in FlusherStates  BY <1>0, <2>2, <2>3 DEF FlusherStates
    <2> QED BY <2>1, <2>3, <2>4 DEF Shape, Exporting
  <1>3. CASE f.mode = "override"
    BY <1>0, <1>3 DEF After, Idle, Shape, Exporting, FlusherStates
  <1> QED BY <1>0, <1>1, <1>2, <1>3

LEMMA AfterCurrent ==
  ASSUME FlusherTypeOK, NEW f, NEW a, NEW missed \in SUBSET Days,
         Shape(f, today, a), f.pc \in Exporting,
         Current(f, today, NextDue, missed), f.date \notin missed
  PROVE  Current(After(f), today, NextDue, missed)
  BY CalendarIsLongEnough
  DEF FlusherTypeOK, Shape, FlusherStates, Exporting, After, Waiting, Idle, NextDue, Days,
      Current, NoneBefore

------------------------------------------------------------------------------
(* The types and the records.                                               *)

Spends == Calm \/ \E kind \in Kinds : Upset(kind)

LEMMA SpendsType ==
  ASSUME FlusherTypeOK, Spends
  PROVE  upsets' \in 0..MaxUpsets /\ seen' \in SUBSET Kinds /\ seen \subseteq seen'
  BY CalendarIsLongEnough DEF FlusherTypeOK, Spends, Calm, budget, Upset

\* A step of slot s that takes it to f and may add to the bucket and the
\* records what belongs there.
LEMMA SlotRecorded ==
  ASSUME Recorded, NEW s \in Slots, NEW f,
         Move(s, f), UNCHANGED <<clock, fixed>>, Spends,
         Shape(f, today, archive'),
         archive \subseteq archive', archive' \in SUBSET Days, reported' \in SUBSET Days,
         manifest' \cup ({key'} \ {0}) \subseteq archive' \cap 1..(today - 1)
  PROVE  Recorded'
  <1>0. FlusherTypeOK /\ LastDay \in Nat /\ today \in 2..LastDay /\ flusher \in [Slots -> FlusherStates]
    BY CalendarIsLongEnough DEF Recorded, FlusherTypeOK
  <1>1. today' = today /\ fired' = fired /\ captured' = captured /\ prior' = prior
    BY DEF clock, fixed
  <1>2. flusher' \in [Slots -> FlusherStates]
    BY <1>0 DEF Move, Shape
  <1>3. \A t \in Slots : Shape(flusher'[t], today, archive')
    BY <1>0 DEF Recorded, Move, Shape
  <1>4. manifest' \in SUBSET Days /\ key' \in 0..LastDay
    BY <1>0 DEF Days
  <1>5. FlusherTypeOK'
    BY <1>0, <1>1, <1>2, <1>4, SpendsType DEF FlusherTypeOK, FlusherStates, Days
  <1> QED BY <1>1, <1>3, <1>5 DEF Recorded

\* A step that leaves the bucket and the records alone.
LEMMA QuietRecorded ==
  ASSUME Recorded, NEW s \in Slots, NEW f,
         Move(s, f), UNCHANGED <<clock, fixed, stores>>, Spends,
         Shape(f, today, archive), reported' \in SUBSET Days
  PROVE  Recorded'
  <1>1. archive' = archive /\ manifest' = manifest /\ key' = key  BY DEF stores
  <1>2. archive \in SUBSET Days  BY DEF Recorded, FlusherTypeOK
  <1>3. manifest' \cup ({key'} \ {0}) \subseteq archive' \cap 1..(today - 1)
    BY <1>1 DEF Recorded
  <1> QED BY <1>1, <1>2, <1>3, SlotRecorded

THEOREM RecordedIsInductive == Recorded /\ [FlusherNext]_flusherVars => Recorded'
  <1> SUFFICES ASSUME Recorded, [FlusherNext]_flusherVars PROVE Recorded'  OBVIOUS
  <1>0. /\ FlusherTypeOK /\ LastDay \in Nat /\ today \in 2..LastDay /\ reported \in SUBSET Days
        /\ archive \in SUBSET Days
        /\ \A s \in Slots : Shape(flusher[s], today, archive) /\ flusher[s] \in FlusherStates
    BY CalendarIsLongEnough DEF Recorded, FlusherTypeOK, Shape
  <1>r. manifest \cup ({key} \ {0}) \subseteq archive \cap 1..(today - 1)
    BY DEF Recorded
  <1>1. ASSUME NEW s \in Slots, Start(s) PROVE Recorded'
    <2>1. Shape([flusher[s] EXCEPT !.pc = "start"], today, archive)
      BY <1>0, <1>1 DEF Start, At, Shape, FlusherStates, Exporting
    <2>2. Spends /\ reported' = reported  BY <1>1 DEF Start, Spends
    <2> QED BY <1>0, <1>1, <2>1, <2>2, QuietRecorded DEF Start, Goto
  <1>2. ASSUME NEW s \in Slots, StartOverride(s) PROVE Recorded'
    <2>1. PICK d \in 1..(today - 1) : Move(s, Flush("override", d))  BY <1>2 DEF StartOverride
    <2>2. Shape(Flush("override", d), today, archive)
      BY <1>0 DEF Flush, Shape, FlusherStates, Exporting
    <2>3. Spends /\ reported' = reported  BY <1>2 DEF StartOverride, Spends, Kinds
    <2> QED BY <1>0, <1>2, <2>1, <2>2, <2>3, QuietRecorded DEF StartOverride
  <1>3. ASSUME NEW last \in 1..(today - 1) PROVE Shape(Catchup(last), today, archive)
    BY <1>0 DEF Catchup, LastMissing, Shape, FlusherStates, Exporting
  <1>4. ASSUME NEW s \in Slots, ReadKey(s) PROVE Recorded'
    <2>1. key \in 1..(today - 1)  BY <1>r, <1>4 DEF ReadKey
    <2>2. Spends /\ reported' = reported  BY <1>4 DEF ReadKey, Spends
    <2> QED BY <1>0, <1>3, <1>4, <2>1, <2>2, QuietRecorded DEF ReadKey
  <1>5. ASSUME NEW s \in Slots, ReadManifest(s) PROVE Recorded'
    <2>1. PICK last \in manifest : Move(s, Catchup(last))  BY <1>5 DEF ReadManifest
    <2>2. last \in 1..(today - 1)  BY <1>r
    <2>3. Spends /\ reported' = reported  BY <1>5 DEF ReadManifest, Spends, Kinds
    <2> QED BY <1>0, <1>3, <1>5, <2>1, <2>2, <2>3, QuietRecorded DEF ReadManifest
  <1>6. Shape(Waiting, today, archive) /\ Shape(Down, today, archive)
    <2>1. NextDue \in 0..(LastDay + 1)  BY <1>0 DEF NextDue
    <2> QED BY <1>0, <2>1 DEF Waiting, Down, Idle, Shape, FlusherStates, Exporting
  <1>7. ASSUME NEW s \in Slots, FirstRun(s) \/ ReadFails(s) \/ CatchupOver(s) PROVE Recorded'
    <2>1. /\ Spends /\ reported' = reported /\ Move(s, Waiting)
          /\ UNCHANGED <<clock, fixed, stores>>
      BY <1>7 DEF FirstRun, ReadFails, CatchupOver, Spends, Kinds
    <2> QED BY <1>0, <1>6, <2>1, QuietRecorded
  <1>8. ASSUME NEW s \in Slots, Stop(s) PROVE Recorded'
    <2>1. Spends /\ reported' = reported  BY <1>8 DEF Stop, Spends, Kinds
    <2> QED BY <1>0, <1>6, <1>8, <2>1, QuietRecorded DEF Stop
  <1>9. ASSUME NEW s \in Slots, SkipDay(s) PROVE Recorded'
    <2>1. /\ flusher[s].mode = "catchup" /\ flusher[s].date + 1 \in 1..today
          /\ flusher[s].until < today
      BY <1>0, <1>9 DEF SkipDay, At, InRange, Shape, FlusherStates
    <2>2. After(flusher[s]) = [flusher[s] EXCEPT !.pc = "pick", !.date = flusher[s].date + 1]
      BY <2>1 DEF After
    <2>0. flusher[s].date + 1 \in 0..LastDay  BY <1>0, <2>1
    <2>3. After(flusher[s]) \in FlusherStates
      BY <1>0, <2>0, <2>2 DEF FlusherStates
    <2>4. Shape(After(flusher[s]), today, archive)
      BY <1>0, <2>1, <2>2, <2>3 DEF Shape, Exporting, FlusherStates
    <2>5. Spends /\ reported' = reported  BY <1>9 DEF SkipDay, Spends
    <2> QED BY <1>0, <1>9, <2>4, <2>5, QuietRecorded DEF SkipDay
  <1>10. ASSUME NEW s \in Slots, FlushDay(s) PROVE Recorded'
    <2>1. Shape([flusher[s] EXCEPT !.pc = "query"], today, archive)
      BY <1>0, <1>10 DEF FlushDay, At, InRange, Shape, FlusherStates, Exporting
    <2>2. Spends /\ reported' = reported  BY <1>10 DEF FlushDay, Spends, Kinds
    <2> QED BY <1>0, <1>10, <2>1, <2>2, QuietRecorded DEF FlushDay, Goto
  <1>11. ASSUME NEW s \in Slots, Wake(s) PROVE Recorded'
    <2>1. Shape(Flush("daily", today - 1), today, archive)
      BY <1>0 DEF Flush, Shape, FlusherStates, Exporting
    <2>2. Spends /\ reported' = reported  BY <1>11 DEF Wake, Spends
    <2> QED BY <1>0, <1>11, <2>1, <2>2, QuietRecorded DEF Wake
  <1>12. ASSUME NEW s \in Slots, flusher[s].pc \in Exporting, NEW pc \in {"upload", "record", "key"},
                NEW a, archive \subseteq a, pc \in {"record", "key"} => flusher[s].date \in a
         PROVE  /\ Shape([flusher[s] EXCEPT !.pc = pc], today, a)
                /\ flusher[s].date \in Days \cap 1..(today - 1)
    BY <1>0, <1>12 DEF Shape, FlusherStates, Exporting, Days
  <1>13. ASSUME NEW s \in Slots, Query(s) PROVE Recorded'
    <2>1. flusher[s].pc \in Exporting  BY <1>13 DEF Query, At, Exporting
    <2>2. Spends /\ reported' = reported  BY <1>13 DEF Query, Spends
    <2>3. Shape(After(flusher[s]), today, archive)  BY <1>0, <2>1, AfterType
    <2>4. Shape([flusher[s] EXCEPT !.pc = "upload"], today, archive)  BY <1>12, <2>1
    <2> QED BY <1>0, <1>13, <2>2, <2>3, <2>4, QuietRecorded DEF Query, Goto
  <1>14. ASSUME NEW s \in Slots, QueryFails(s) PROVE Recorded'
    <2>1. flusher[s].pc \in Exporting  BY <1>14 DEF QueryFails, At, Exporting
    <2>2. Spends  BY <1>14 DEF QueryFails, Spends, Kinds
    <2>3. Shape(After(flusher[s]), today, archive)  BY <1>0, <2>1, AfterType
    <2>4. flusher[s].date \in Days  BY <1>12, <2>1
    <2> QED BY <1>0, <1>14, <2>2, <2>3, <2>4, QuietRecorded DEF QueryFails
  <1>15. ASSUME NEW s \in Slots, Upload(s) PROVE Recorded'
    <2>1. flusher[s].pc \in Exporting  BY <1>15 DEF Upload, At, Exporting
    <2>2. Spends /\ reported' = reported /\ manifest' = manifest /\ key' = key
      BY <1>15 DEF Upload, Spends
    <2>3. archive' = archive \cup {flusher[s].date}  BY <1>15 DEF Upload
    <2>4. Shape([flusher[s] EXCEPT !.pc = "record"], today, archive') /\ flusher[s].date \in Days
      BY <1>12, <2>1, <2>3
    <2> QED BY <1>0, <1>r, <1>15, <2>2, <2>3, <2>4, SlotRecorded DEF Upload, Goto
  <1>16. ASSUME NEW s \in Slots, UploadFails(s) PROVE Recorded'
    <2>1. flusher[s].pc \in Exporting  BY <1>16 DEF UploadFails, At, Exporting
    <2>2. Spends /\ manifest' = manifest /\ key' = key  BY <1>16 DEF UploadFails, Spends, Kinds
    <2>3. PICK stored \in SUBSET {flusher[s].date} : archive' = archive \cup stored
      BY <1>16 DEF UploadFails
    <2>4. flusher[s].date \in Days  BY <1>12, <2>1
    <2>5. archive \subseteq archive' /\ archive' \in SUBSET Days  BY <1>0, <2>3, <2>4
    <2>6. Shape(flusher[s], today, archive')  BY <1>0, <2>5 DEF Shape
    <2>7. Shape(After(flusher[s]), today, archive')  BY <1>0, <2>1, <2>6, AfterType
    <2>8. reported' \in SUBSET Days  BY <1>0, <1>16, <2>4 DEF UploadFails
    <2> QED BY <1>r, <1>16, <2>2, <2>5, <2>7, <2>8, SlotRecorded DEF UploadFails
  <1>17. ASSUME NEW s \in Slots, Record(s) PROVE Recorded'
    <2>1. flusher[s].pc \in Exporting /\ flusher[s].date \in archive
      BY <1>0, <1>17 DEF Record, At, Exporting, Shape
    <2>2. Spends /\ reported' = reported /\ archive' = archive /\ key' = key
      BY <1>17 DEF Record, Spends, Kinds
    <2>3. Shape([flusher[s] EXCEPT !.pc = "key"], today, archive') /\ flusher[s].date \in 1..(today - 1)
      BY <1>12, <2>1, <2>2
    <2>4. manifest' \cup ({key'} \ {0}) \subseteq archive' \cap 1..(today - 1)
      BY <1>r, <1>17, <2>1, <2>2, <2>3 DEF Record
    <2> QED BY <1>0, <1>17, <2>2, <2>3, <2>4, SlotRecorded DEF Record, Goto
  <1>18. ASSUME NEW s \in Slots, SetKey(s) PROVE Recorded'
    <2>1. flusher[s].pc \in Exporting /\ flusher[s].date \in archive
      BY <1>0, <1>18 DEF SetKey, At, Exporting, Shape
    <2>2. Spends /\ reported' = reported /\ archive' = archive /\ manifest' = manifest
      BY <1>18 DEF SetKey, Spends, Kinds
    <2>3. Shape(After(flusher[s]), today, archive') /\ flusher[s].date \in 1..(today - 1)
      BY <1>0, <1>12, <2>1, <2>2, AfterType
    <2>4. manifest' \cup ({key'} \ {0}) \subseteq archive' \cap 1..(today - 1)
      BY <1>r, <1>18, <2>1, <2>2, <2>3 DEF SetKey
    <2> QED BY <1>0, <1>18, <2>2, <2>3, <2>4, SlotRecorded DEF SetKey
  <1>19. CASE LoseKey
    <2>1. Spends  BY <1>19 DEF LoseKey, Spends, Kinds
    <2> QED BY <1>0, <1>19, <2>1, SpendsType DEF LoseKey, Recorded, FlusherTypeOK, clock, fixed, Shape
  <1>20. CASE FlushTime
    <2>1. Spends  BY <1>20 DEF FlushTime, Spends, Kinds
    <2> QED BY <1>0, <1>20, <2>1, SpendsType DEF FlushTime, Recorded, FlusherTypeOK, fixed, stores, Shape
  <1>21. CASE Midnight
    <2>0. today < LastDay /\ today' = today + 1 /\ fired' = FALSE
      BY <1>21 DEF Midnight
    <2>a. flusher' = flusher /\ archive' = archive /\ manifest' = manifest /\ key' = key
      BY <1>21 DEF Midnight, stores
    <2>b. today' \in 2..LastDay  BY <1>0, <2>0
    <2>c. fired' \in BOOLEAN  BY <2>0, Zenon
    <2>1. /\ today' \in 2..LastDay /\ today' = today + 1 /\ fired' \in BOOLEAN
          /\ flusher' = flusher /\ archive' = archive /\ manifest' = manifest /\ key' = key
      BY <2>0, <2>a, <2>b, <2>c, Zenon
    <2>2. FlusherTypeOK'
      BY <1>0, <1>21, <2>1 DEF Midnight, FlusherTypeOK, Calm, budget, fixed, stores, Days, FlusherStates
    <2>3. ASSUME NEW s \in Slots PROVE Shape(flusher[s], today + 1, archive)
      BY <1>0 DEF Shape, FlusherStates
    <2> QED BY <1>0, <1>r, <2>1, <2>2, <2>3 DEF Recorded
  <1>22. CASE UNCHANGED flusherVars
    BY <1>22 DEF flusherVars, clock, fixed, stores, budget, Recorded, FlusherTypeOK
  <1> QED BY <1>1, <1>2, <1>4, <1>5, <1>7, <1>8, <1>9, <1>10, <1>11, <1>13, <1>14, <1>15, <1>16,
             <1>17, <1>18, <1>19, <1>20, <1>21, <1>22
          DEF FlusherNext, Step, Fault, CatchupStep, FlushStep

LEMMA RecordedInit == FlusherInit => Recorded
  <1> SUFFICES ASSUME FlusherInit PROVE Recorded  OBVIOUS
  <1>0. LastDay \in Nat /\ LastDay >= 2 /\ MaxUpsets \in Nat  BY CalendarIsLongEnough
  <1>1. captured \in SUBSET Days
    <2>1. PICK ds \in SUBSET (2..(LastDay - 1)) : captured = {1} \cup ds  BY DEF FlusherInit
    <2> QED BY <1>0, <2>1 DEF Days
  <1>2. Down \in FlusherStates  BY <1>0 DEF Down, Idle, FlusherStates
  <1>3. ASSUME NEW t, NEW a PROVE Shape(Down, t, a)
    BY <1>2 DEF Shape, Down, Idle, Exporting
  <1>4. archive \in SUBSET Days /\ manifest = archive /\ archive \subseteq {1} /\ key \in {0, 1}
    BY <1>0 DEF FlusherInit, Days
  <1>5. key \in 0..LastDay /\ today \in 2..LastDay  BY <1>0, <1>4 DEF FlusherInit
  <1>a. flusher \in [Slots -> FlusherStates]  BY <1>2 DEF FlusherInit
  <1>b. fired \in BOOLEAN /\ prior \in {0, 1}  BY Zenon DEF FlusherInit
  <1>c. reported \in SUBSET Days /\ upsets \in 0..MaxUpsets /\ seen \in SUBSET Kinds
    BY <1>0 DEF FlusherInit
  <1>6. FlusherTypeOK  BY <1>1, <1>4, <1>5, <1>a, <1>b, <1>c DEF FlusherTypeOK
  <1>7. {key} \ {0} \subseteq archive  BY DEF FlusherInit
  <1> QED BY <1>3, <1>4, <1>6, <1>7 DEF FlusherInit, Recorded

\* What the manifest and candle:last_flush_date name was uploaded, for any
\* number of slots that flush the same days and stop at any point.
THEOREM RecordsHold == FlusherSpec => [](FlusherTypeOK /\ RecordsAreTrue)
  <1>1. Recorded => FlusherTypeOK /\ RecordsAreTrue  BY DEF Recorded, RecordsAreTrue
  <1> QED BY <1>1, RecordedInit, RecordedIsInductive, PTL DEF FlusherSpec

------------------------------------------------------------------------------
(* The days.                                                                *)

LEMMA OrdinaryBefore ==
  ASSUME FlusherTypeOK, Spends, UNCHANGED fixed, Ordinary'
  PROVE  Ordinary
  BY SpendsType DEF Ordinary, fixed

\* A step of slot s that takes it to f and leaves fewer days missed.
LEMMA SlotOnCourse ==
  ASSUME Recorded, OnCourse, NEW s \in Slots, NEW f,
         Move(s, f), UNCHANGED <<clock, fixed>>, Spends, Missed' \subseteq Missed,
         Ordinary => \A k \in manifest' \cup {key'} : NoneBefore(k + 1, Missed'),
         manifest \subseteq manifest',
         Ordinary' => Current(f, today, NextDue, Missed')
  PROVE  OnCourse'
  <1> SUFFICES ASSUME Ordinary'
               PROVE  /\ 1 \in manifest'
                      /\ \A k \in manifest' \cup {key'} : NoneBefore(k + 1, Missed')
                      /\ \A t \in Slots : Current(flusher'[t], today', NextDue', Missed')
    BY DEF OnCourse
  <1>1. FlusherTypeOK /\ Ordinary  BY OrdinaryBefore DEF Recorded
  <1>2. today' = today /\ NextDue' = NextDue  BY DEF clock, NextDue
  <1>3. flusher \in [Slots -> FlusherStates]  BY <1>1 DEF FlusherTypeOK
  <1>4. ASSUME NEW t \in Slots PROVE Current(flusher'[t], today, NextDue, Missed')
    <2>1. CASE t = s  BY <1>3, <2>1 DEF Move
    <2>2. CASE t # s
      <3>1. flusher'[t] = flusher[t]  BY <1>3, <2>2 DEF Move
      <3>2. Current(flusher[t], today, NextDue, Missed)  BY <1>1 DEF OnCourse
      <3> QED BY <3>1, <3>2 DEF Current, NoneBefore
    <2> QED BY <2>1, <2>2
  <1> QED BY <1>1, <1>2, <1>4 DEF OnCourse

\* A step that leaves the stores and the reports alone.
LEMMA QuietOnCourse ==
  ASSUME Recorded, OnCourse, NEW s \in Slots, NEW f,
         Move(s, f), UNCHANGED <<clock, fixed, stores, reported>>, Spends,
         Ordinary' => Current(f, today, NextDue, Missed)
  PROVE  OnCourse'
  <1>1. Missed' = Missed /\ manifest' = manifest /\ key' = key
    BY DEF stores, fixed, Missed, Attempted
  <1>2. Ordinary => \A k \in manifest' \cup {key'} : NoneBefore(k + 1, Missed')
    BY <1>1 DEF OnCourse
  <1> QED BY <1>1, <1>2, SlotOnCourse

\* A slot that goes on with the same day stays on course.
LEMMA GotoCurrent ==
  ASSUME NEW f \in FlusherStates, NEW pc, pc # "wait", NEW t, NEW nd, NEW ds, NEW es, es \subseteq ds,
         Current(f, t, nd, ds)
  PROVE  Current([f EXCEPT !.pc = pc], t, nd, es)
  BY DEF Current, NoneBefore, FlusherStates

\* A slot without a flush has nothing to answer for but what it waits for.
LEMMA IdleCurrent ==
  ASSUME NEW t, NEW nd, NEW ds, NEW pc, pc # "wait", NEW due
  PROVE  Current(Idle(pc, due), t, nd, ds)
  BY DEF Current, Idle

\* The end of a flush whose day is exported or reported by now, or has no rows.
LEMMA AfterOnCourse ==
  ASSUME Recorded, OnCourse, NEW s \in Slots, flusher[s].pc \in Exporting,
         Move(s, After(flusher[s])), UNCHANGED <<clock, fixed>>, Spends,
         Missed' \subseteq Missed, flusher[s].date \notin Missed',
         manifest' = manifest, key' \in {key, flusher[s].date}
  PROVE  OnCourse'
  <1>1. FlusherTypeOK /\ Shape(flusher[s], today, archive) /\ Missed' \in SUBSET Days
    BY DEF Recorded, FlusherTypeOK, Missed
  <1>2. ASSUME Ordinary PROVE Current(flusher[s], today, NextDue, Missed')
    BY <1>2 DEF OnCourse, Current, NoneBefore
  <1>3. Ordinary => Current(After(flusher[s]), today, NextDue, Missed')
    BY <1>1, <1>2, AfterCurrent
  <1>4. ASSUME Ordinary PROVE \A k \in manifest' \cup {key'} : NoneBefore(k + 1, Missed')
    <2>1. NoneBefore(flusher[s].date, Missed') /\ flusher[s].date \in Nat
      BY <1>1, <1>2, <1>4 DEF Current, Shape, FlusherStates, Exporting
    <2>2. NoneBefore(flusher[s].date + 1, Missed')
      BY <1>1, <2>1 DEF NoneBefore, Days
    <2>3. \A k \in manifest \cup {key} : NoneBefore(k + 1, Missed')
      BY <1>4 DEF OnCourse, NoneBefore
    <2> QED BY <2>2, <2>3
  <1>5. Ordinary' => Current(After(flusher[s]), today, NextDue, Missed')
    BY <1>1, <1>3, OrdinaryBefore DEF fixed
  <1>6. Ordinary => \A k \in manifest' \cup {key'} : NoneBefore(k + 1, Missed')  BY <1>4
  <1> QED BY <1>5, <1>6, SlotOnCourse

THEOREM OnCourseIsInductive == Recorded /\ OnCourse /\ [FlusherNext]_flusherVars => OnCourse'
  <1> SUFFICES ASSUME Recorded, OnCourse, [FlusherNext]_flusherVars PROVE OnCourse'  OBVIOUS
  <1>0. /\ FlusherTypeOK /\ LastDay \in Nat /\ today \in 2..LastDay /\ Missed \in SUBSET Days
        /\ \A s \in Slots : Shape(flusher[s], today, archive) /\ flusher[s] \in FlusherStates
        /\ manifest \subseteq archive
    BY CalendarIsLongEnough DEF Recorded, FlusherTypeOK, Shape, Missed
  <1>o. ASSUME Spends, UNCHANGED fixed, Ordinary' PROVE Ordinary
    BY <1>0, <1>o, OrdinaryBefore
  <1>c. ASSUME NEW s \in Slots, Ordinary PROVE Current(flusher[s], today, NextDue, Missed)
    BY <1>c DEF OnCourse
  <1>k. ASSUME Ordinary, NEW k \in manifest \cup {key} PROVE NoneBefore(k + 1, Missed)
    BY <1>k DEF OnCourse
  <1>n. NextDue \in {today, today + 1}  BY DEF NextDue
  <1>1. ASSUME NEW s \in Slots, Start(s) PROVE OnCourse'
    <2>1. Spends /\ UNCHANGED fixed  BY <1>1 DEF Start, Spends
    <2>2. Ordinary' => Current([flusher[s] EXCEPT !.pc = "start"], today, NextDue, Missed)
      BY <1>0, <1>c, <1>o, <2>1, GotoCurrent
    <2> QED BY <1>1, <2>1, <2>2, QuietOnCourse DEF Start, Goto
  <1>2. ASSUME NEW s \in Slots, StartOverride(s) \/ ReadFails(s) PROVE OnCourse'
    <2>1. ~Ordinary'  BY <1>2 DEF StartOverride, ReadFails, Upset, Ordinary
    <2> QED BY <2>1 DEF OnCourse
  <1>3. ASSUME Ordinary, NEW last \in manifest \cup {key} PROVE Current(Catchup(last), today, NextDue, Missed)
    BY <1>0, <1>3, <1>k, <1>n DEF Catchup, LastMissing, Current
  <1>4. ASSUME NEW s \in Slots, ReadKey(s) PROVE OnCourse'
    <2>1. Spends /\ UNCHANGED fixed  BY <1>4 DEF ReadKey, Spends
    <2>2. Ordinary' => Current(Catchup(key), today, NextDue, Missed)  BY <1>3, <1>o, <2>1
    <2> QED BY <1>4, <2>1, <2>2, QuietOnCourse DEF ReadKey
  <1>5. ASSUME NEW s \in Slots, ReadManifest(s) PROVE OnCourse'
    <2>1. PICK last \in manifest : Move(s, Catchup(last))  BY <1>5 DEF ReadManifest
    <2>2. Spends /\ UNCHANGED fixed  BY <1>5 DEF ReadManifest, Spends, Kinds
    <2>3. Ordinary' => Current(Catchup(last), today, NextDue, Missed)  BY <1>3, <1>o, <2>2
    <2> QED BY <1>5, <2>1, <2>2, <2>3, QuietOnCourse DEF ReadManifest
  <1>6. ASSUME NEW s \in Slots, FirstRun(s) PROVE OnCourse'
    <2>1. Spends /\ UNCHANGED fixed  BY <1>6 DEF FirstRun, Spends
    <2>2. ~Ordinary'  BY <1>6, <1>o, <2>1 DEF FirstRun, OnCourse
    <2> QED BY <2>2 DEF OnCourse
  <1>7. ASSUME NEW s \in Slots, CatchupOver(s) PROVE OnCourse'
    <2>1. Spends /\ UNCHANGED fixed  BY <1>7 DEF CatchupOver, Spends
    <2>2. flusher[s].mode = "catchup" /\ flusher[s].until < flusher[s].date
      BY <1>0, <1>7 DEF CatchupOver, At, InRange, Shape, FlusherStates
    <2>3. ASSUME Ordinary PROVE NoneBefore(NextDue - 1, Missed)
      <3>1. NextDue <= flusher[s].until + 2 /\ NoneBefore(flusher[s].date, Missed)
        BY <1>c, <2>2, <2>3 DEF Current
      <3>2. flusher[s].until \in Nat /\ flusher[s].date \in Nat /\ NextDue \in Nat
        BY <1>0, <1>n DEF FlusherStates
      <3>3. NextDue - 1 <= flusher[s].date  BY <2>2, <3>1, <3>2
      <3>4. \A d \in Missed : d \in Nat  BY <1>0 DEF Days
      <3>5. \A d \in Missed : flusher[s].date <= d  BY <3>1 DEF NoneBefore
      <3>6. \A d \in Missed : NextDue - 1 <= d  BY <3>2, <3>3, <3>4, <3>5
      <3> QED BY <3>6 DEF NoneBefore
    <2>4. ASSUME Ordinary PROVE Current(Waiting, today, NextDue, Missed)
      BY <1>0, <1>n, <2>3, <2>4 DEF Current, Waiting, Idle
    <2>5. Ordinary' => Current(Waiting, today, NextDue, Missed)  BY <1>o, <2>1, <2>4
    <2> QED BY <1>7, <2>1, <2>5, QuietOnCourse DEF CatchupOver
  <1>8. ASSUME NEW s \in Slots, Stop(s) PROVE OnCourse'
    <2>1. Spends  BY <1>8 DEF Stop, Spends, Kinds
    <2>2. Current(Down, today, NextDue, Missed)  BY IdleCurrent DEF Down
    <2> QED BY <1>8, <2>1, <2>2, QuietOnCourse DEF Stop
  <1>9. ASSUME NEW s \in Slots, SkipDay(s) PROVE OnCourse'
    <2>1. Spends /\ UNCHANGED fixed  BY <1>9 DEF SkipDay, Spends
    <2>2. flusher[s].mode = "catchup" /\ flusher[s].date \notin Missed
      BY <1>0, <1>9 DEF SkipDay, At, Shape, Missed, Attempted
    <2>3. After(flusher[s]) = [flusher[s] EXCEPT !.pc = "pick", !.date = flusher[s].date + 1]
      BY <2>2 DEF After
    <2>4. ASSUME Ordinary PROVE Current(After(flusher[s]), today, NextDue, Missed)
      BY <1>0, <1>c, <2>2, <2>3, <2>4 DEF Current, NoneBefore, FlusherStates, Days
    <2>5. Ordinary' => Current(After(flusher[s]), today, NextDue, Missed)  BY <1>o, <2>1, <2>4
    <2> QED BY <1>9, <2>1, <2>5, QuietOnCourse DEF SkipDay
  <1>10. ASSUME NEW s \in Slots, FlushDay(s) PROVE OnCourse'
    <2>1. Spends /\ UNCHANGED fixed  BY <1>10 DEF FlushDay, Spends, Kinds
    <2>2. Ordinary' => Current([flusher[s] EXCEPT !.pc = "query"], today, NextDue, Missed)
      BY <1>0, <1>c, <1>o, <2>1, GotoCurrent
    <2> QED BY <1>10, <2>1, <2>2, QuietOnCourse DEF FlushDay, Goto
  <1>11. ASSUME NEW s \in Slots, Wake(s) PROVE OnCourse'
    <2>1. Spends /\ UNCHANGED fixed  BY <1>11 DEF Wake, Spends
    <2>2. flusher[s].pc = "wait" /\ flusher[s].due <= today  BY <1>11 DEF Wake, IsDue, At
    <2>3. ASSUME Ordinary PROVE NoneBefore(today - 1, Missed)
      BY <1>0, <1>c, <2>2, <2>3 DEF Current, NoneBefore, FlusherStates, Days
    <2>4. ASSUME Ordinary PROVE Current(Flush("daily", today - 1), today, NextDue, Missed)
      BY <1>0, <1>n, <2>3, <2>4 DEF Current, Flush
    <2>5. Ordinary' => Current(Flush("daily", today - 1), today, NextDue, Missed)  BY <1>o, <2>1, <2>4
    <2> QED BY <1>11, <2>1, <2>5, QuietOnCourse DEF Wake
  <1>12. ASSUME NEW s \in Slots, Query(s) PROVE OnCourse'
    <2>1. /\ flusher[s].pc \in Exporting /\ Spends
          /\ UNCHANGED <<clock, fixed, stores, reported>>
      BY <1>12 DEF Query, At, Exporting, Spends
    <2>2. Missed' = Missed  BY <2>1 DEF Missed, Attempted, stores, fixed
    <2>3. CASE flusher[s].date \in captured
      <3>1. Ordinary' => Current([flusher[s] EXCEPT !.pc = "upload"], today, NextDue, Missed)
        BY <1>0, <1>c, <1>o, <2>1, GotoCurrent
      <3> QED BY <1>12, <2>1, <2>3, <3>1, QuietOnCourse DEF Query, Goto
    <2>4. CASE flusher[s].date \notin captured
      <3>1. flusher[s].date \notin Missed'  BY <2>2, <2>4 DEF Missed
      <3>2. manifest' = manifest /\ key' = key  BY <2>1 DEF stores
      <3> QED BY <1>12, <2>1, <2>2, <2>4, <3>1, <3>2, AfterOnCourse DEF Query
    <2> QED BY <2>3, <2>4
  <1>13. ASSUME NEW s \in Slots, QueryFails(s) \/ UploadFails(s) PROVE OnCourse'
    <2>1. /\ flusher[s].pc \in Exporting /\ Spends /\ UNCHANGED <<clock, fixed>>
          /\ manifest' = manifest /\ key' = key /\ archive \subseteq archive'
          /\ reported' = reported \cup {flusher[s].date}
          /\ Move(s, After(flusher[s]))
      BY <1>13 DEF QueryFails, UploadFails, At, Exporting, Spends, Kinds, stores
    <2>2. Missed' \subseteq Missed /\ flusher[s].date \notin Missed'
      BY <2>1 DEF Missed, Attempted, fixed
    <2> QED BY <2>1, <2>2, AfterOnCourse
  <1>14. ASSUME NEW s \in Slots, Upload(s) PROVE OnCourse'
    <2>1. /\ Spends /\ UNCHANGED <<clock, fixed>> /\ manifest' = manifest /\ key' = key
          /\ archive \subseteq archive' /\ reported' = reported
      BY <1>14 DEF Upload, Spends
    <2>2. Missed' \subseteq Missed  BY <2>1 DEF Missed, Attempted, fixed
    <2>3. Ordinary' => Current([flusher[s] EXCEPT !.pc = "record"], today, NextDue, Missed')
      BY <1>0, <1>c, <1>o, <2>1, <2>2, GotoCurrent
    <2>4. Ordinary => \A k \in manifest' \cup {key'} : NoneBefore(k + 1, Missed')
      BY <1>k, <2>1, <2>2 DEF NoneBefore
    <2> QED BY <1>14, <2>1, <2>2, <2>3, <2>4, SlotOnCourse DEF Upload, Goto
  <1>15. ASSUME NEW s \in Slots, Record(s) PROVE OnCourse'
    <2>1. /\ Spends /\ UNCHANGED <<clock, fixed>> /\ key' = key /\ archive' = archive
          /\ reported' = reported /\ manifest \subseteq manifest'
          /\ manifest' \subseteq manifest \cup {flusher[s].date}
          /\ flusher[s].pc = "record"
      BY <1>15 DEF Record, Spends, Kinds, At
    <2>2. Missed' = Missed  BY <2>1 DEF Missed, Attempted, fixed
    <2>3. flusher[s].date \notin Missed /\ flusher[s].date \in Nat
      BY <1>0, <2>1 DEF Shape, Missed, Attempted, FlusherStates, Exporting
    <2>4. ASSUME Ordinary PROVE NoneBefore(flusher[s].date + 1, Missed)
      <3>1. flusher[s].mode \in {"catchup", "daily"}
        BY <1>0, <1>c, <2>1, <2>4 DEF Shape, Current, FlusherStates, Exporting
      <3>2. NoneBefore(flusher[s].date, Missed)  BY <1>c, <2>4, <3>1 DEF Current
      <3> QED BY <1>0, <2>3, <3>2 DEF NoneBefore, Days
    <2>5. Ordinary => \A k \in manifest' \cup {key'} : NoneBefore(k + 1, Missed')
      BY <1>k, <2>1, <2>2, <2>4
    <2>6. Ordinary' => Current([flusher[s] EXCEPT !.pc = "key"], today, NextDue, Missed')
      BY <1>0, <1>c, <1>o, <2>1, <2>2, GotoCurrent
    <2> QED BY <1>15, <2>1, <2>2, <2>5, <2>6, SlotOnCourse DEF Record, Goto
  <1>16. ASSUME NEW s \in Slots, SetKey(s) PROVE OnCourse'
    <2>1. /\ Spends /\ UNCHANGED <<clock, fixed>> /\ key' \in {key, flusher[s].date}
          /\ archive' = archive /\ reported' = reported /\ manifest' = manifest
          /\ flusher[s].pc = "key" /\ Move(s, After(flusher[s]))
      BY <1>16 DEF SetKey, Spends, Kinds, At
    <2>2. Missed' = Missed  BY <2>1 DEF Missed, Attempted, fixed
    <2>3. flusher[s].date \notin Missed  BY <1>0, <2>1 DEF Shape, Missed, Attempted
    <2> QED BY <2>1, <2>2, <2>3, AfterOnCourse DEF Exporting
  <1>17. CASE LoseKey
    <2>1. /\ Spends /\ UNCHANGED <<clock, fixed, archive, manifest, flusher, reported>> /\ key' = 0
      BY <1>17 DEF LoseKey, Spends, Kinds
    <2>2. Missed' = Missed /\ NextDue' = NextDue /\ today' = today
      BY <2>1 DEF Missed, Attempted, fixed, clock, NextDue
    <2>3. NoneBefore(1, Missed)  BY <1>0 DEF NoneBefore, Days
    <2> QED BY <1>c, <1>k, <1>o, <2>1, <2>2, <2>3 DEF OnCourse
  <1>18. CASE FlushTime
    <2>1. /\ Spends /\ UNCHANGED <<today, fixed, stores, flusher, reported>>
          /\ NextDue = today /\ NextDue' = today + 1
      BY <1>18 DEF FlushTime, Spends, Kinds, NextDue
    <2>2. Missed' = Missed /\ key' = key /\ manifest' = manifest
      BY <2>1 DEF Missed, Attempted, fixed, stores
    <2>3. ASSUME Ordinary', NEW s \in Slots PROVE flusher[s].mode \notin {"daily", "catchup"}
      BY <1>18, <2>3 DEF FlushTime, Upset, Ordinary
    <2>4. ASSUME Ordinary', NEW s \in Slots PROVE Current(flusher[s], today, today + 1, Missed)
      BY <1>c, <1>o, <2>1, <2>3, <2>4 DEF Current
    <2> QED BY <1>k, <1>o, <2>1, <2>2, <2>4 DEF OnCourse
  <1>19. CASE Midnight
    <2>1. /\ Spends /\ UNCHANGED <<fixed, stores, flusher, reported>>
          /\ fired /\ today' = today + 1 /\ NextDue' = today + 1 /\ NextDue = today + 1
      BY <1>19 DEF Midnight, Spends, NextDue
    <2>2. Missed' = Missed /\ key' = key /\ manifest' = manifest
      BY <2>1 DEF Missed, Attempted, fixed, stores
    <2>3. ASSUME NEW s \in Slots, flusher[s].pc = "wait" PROVE today + 1 <= flusher[s].due
      BY <1>0, <1>19, <2>1, <2>3 DEF Midnight, IsDue, At, FlusherStates
    <2>4. ASSUME Ordinary', NEW s \in Slots PROVE Current(flusher[s], today + 1, today + 1, Missed)
      BY <1>c, <1>o, <2>1, <2>3, <2>4 DEF Current
    <2> QED BY <1>k, <1>o, <2>1, <2>2, <2>4 DEF OnCourse
  <1>20. CASE UNCHANGED flusherVars
    BY <1>20 DEF flusherVars, clock, fixed, stores, budget, OnCourse, Ordinary, Missed, Attempted, NextDue
  <1> QED BY <1>1, <1>2, <1>4, <1>5, <1>6, <1>7, <1>8, <1>9, <1>10, <1>11, <1>12, <1>13, <1>14,
             <1>15, <1>16, <1>17, <1>18, <1>19, <1>20
          DEF FlusherNext, Step, Fault, CatchupStep, FlushStep

LEMMA OnCourseInit == FlusherInit => OnCourse
  <1> SUFFICES ASSUME FlusherInit, Ordinary PROVE OnCourse  BY DEF OnCourse
  <1>1. manifest = {1} /\ key = 1 /\ archive = {1}  BY DEF FlusherInit, Ordinary
  <1>2. \A d \in Missed : d \in Nat /\ 2 <= d
    BY <1>1, RecordedInit, CalendarIsLongEnough DEF Recorded, FlusherTypeOK, Missed, Attempted, Days
  <1>3. \A s \in Slots : flusher[s] = Idle("down", 0)  BY DEF FlusherInit, Down
  <1> QED BY <1>1, <1>2, <1>3, IdleCurrent DEF OnCourse, NoneBefore

\* Every day with rows behind the key, the manifest or a waiting slot was
\* exported or reported, unless a catch-up could not read its start, overran
\* the flush time, or an override moved the key.
THEOREM NoDayIsLeftBehind == FlusherSpec => []NoDayIsLeftOut
  <1>1. ASSUME Recorded, OnCourse PROVE NoDayIsLeftOut
    <2>0. /\ captured \in SUBSET Days /\ manifest \in SUBSET Days /\ key \in Nat
          /\ flusher \in [Slots -> FlusherStates] /\ Days \subseteq Nat
      BY <1>1, CalendarIsLongEnough DEF Recorded, FlusherTypeOK, Days
    <2>1. ASSUME Ordinary, NEW d \in captured, NEW k \in manifest \cup {key}, d <= k
          PROVE  d \in Attempted
      BY <1>1, <2>0, <2>1 DEF OnCourse, NoneBefore, Missed
    <2>2. ASSUME Ordinary, NEW s \in Slots, NEW d \in captured, At(s, "wait"), d + 1 < flusher[s].due
          PROVE  d \in Attempted
      BY <1>1, <2>0, <2>2 DEF OnCourse, Current, NoneBefore, Missed, At, FlusherStates
    <2> QED BY <2>1, <2>2 DEF NoDayIsLeftOut, NoDayIsPassedOver, WaitersAreCurrent
  <1> QED BY <1>1, RecordedInit, OnCourseInit, RecordedIsInductive, OnCourseIsInductive, PTL DEF FlusherSpec
=============================================================================
