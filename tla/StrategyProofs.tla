---------------------------- MODULE StrategyProofs ----------------------------
(***************************************************************************)
(* Proofs about strategies: live (Strategy), for any timeframes, lookback  *)
(* and numbers of bars, gaps, silences and failures, and replayed          *)
(* (Backtests, Replay), for any runs, windows, versions and failures.      *)
(*                                                                         *)
(* The count of clean bars is the number of bars since the symbol's last   *)
(* gap while the signal is invalid, and zero while it is valid; a thread   *)
(* that closes the position holds the in-flight mark from before it starts *)
(* until it ends; the side a strategy believes itself on always has a leg. *)
(*                                                                         *)
(* What a replay reports is a recursion over rows, orders and bars, of     *)
(* which each step keeps an invariant; that a step of a recursion can be   *)
(* reasoned about follows from the least element of a set of naturals.  A  *)
(* job of a backtest has written, at each stage, what the table of the     *)
(* next stage refers to.                                                   *)
(***************************************************************************)
EXTENDS Strategy, Backtests, FiniteSetTheorems, WellFoundedInduction, TLAPS

\* What the clean-bar count of the traded symbol counts.
CountsCleanBars == cleanBars[Sym] = IF invalid[Sym] THEN sinceGap ELSE 0

\* The mark that keeps a second thread from starting.
MarkedWhileClosing == \A c \in Closers : closers[c] # "none" => inFlight

Signals == TypeOK /\ CountsCleanBars /\ SuspendedExactly
Closings == TypeOK /\ MarkedWhileClosing /\ OneCloser
Legs == TypeOK /\ ExitsHaveALeg
------------------------------------------------------------------------------
\* A number cut off at MinLookback stays within it.
LEMMA AtMostType ==
  ASSUME NEW n \in Nat
  PROVE  AtMost(n) \in 0..MinLookback
  BY StrategyAssumption DEF AtMost

\* What the queue is given is an event, and keeps it a queue of events.
LEMMA EnqueueType ==
  ASSUME TypeOK, NEW e \in Events, Enqueue(e)
  PROVE  queue' \in Seq(Events)
  BY DEF TypeOK, Enqueue

LEMMA HeadType ==
  ASSUME TypeOK, queue # <<>>
  PROVE  Head(queue) \in Events /\ Tail(queue) \in Seq(Events)
  BY DEF TypeOK

\* The fields of an event are those of its type.
LEMMA EventFields ==
  ASSUME NEW e \in Events
  PROVE  /\ e.type = "bar" => e.tf \in Tfs
         /\ e.type = "gap" => e.symbol \in {Sym, NoSym}
  BY DEF Events, Funding

LEMMA LoadsType ==
  ASSUME TypeOK, NEW tf \in Tfs, Loads(tf)
  PROVE  rows' \in [Tfs -> 0..MinLookback]
  <1>1. PICK n \in 0..closed[tf] : rows' = [rows EXCEPT ![tf] = AtMost(n)]
    BY DEF Loads
  <1>2. n \in Nat
    BY <1>1, StrategyAssumption DEF TypeOK
  <1> QED
    BY <1>1, <1>2, AtMostType DEF TypeOK

LEMMA CleanBarType ==
  ASSUME TypeOK, CleanBar(Sym)
  PROVE  /\ invalid' \in [{Sym, NoSym} -> BOOLEAN]
         /\ cleanBars' \in [{Sym, NoSym} -> 0..(MinLookback - 1)]
  <1>1. CASE UNCHANGED <<invalid, cleanBars>>
    BY <1>1 DEF TypeOK
  <1>2. CASE /\ invalid' = [invalid EXCEPT ![Sym] = FALSE]
             /\ cleanBars' = [cleanBars EXCEPT ![Sym] = 0]
    <2>1. invalid' \in [{Sym, NoSym} -> BOOLEAN]
      BY <1>2, Zenon DEF TypeOK
    <2> QED
      BY <1>2, <2>1, StrategyAssumption DEF TypeOK
  <1>3. CASE /\ cleanBars[Sym] + 1 < MinLookback
             /\ cleanBars' = [cleanBars EXCEPT ![Sym] = cleanBars[Sym] + 1]
             /\ UNCHANGED invalid
    <2>1. cleanBars[Sym] \in 0..(MinLookback - 1)
      BY Zenon DEF TypeOK
    <2>2. cleanBars[Sym] + 1 \in 0..(MinLookback - 1)
      BY <1>3, <2>1, StrategyAssumption
    <2> QED
      BY <1>3, <2>2 DEF TypeOK
  <1> QED
    BY <1>1, <1>2, <1>3 DEF CleanBar

LEMMA TradeType ==
  ASSUME TypeOK, NEW target \in Sides, Trade(target)
  PROVE  side' \in Sides \union {"none"} /\ legs' \in [Sides -> Int]
  BY SMTT(30) DEF TypeOK, Trade, trading, Flip, Enter, Opposite, Sides
------------------------------------------------------------------------------
LEMMA TypeInit ==
  ASSUME Init
  PROVE  TypeOK
  <1>1. closed \in [Tfs -> 0..MaxBars]
    BY StrategyAssumption DEF Init
  <1>2. /\ rows \in [Tfs -> 0..MinLookback] /\ sinceGap \in 0..MinLookback
        /\ cleanBars \in [{Sym, NoSym} -> 0..(MinLookback - 1)]
        /\ gaps \in 0..MaxGaps /\ silences \in 0..MaxSilences /\ failures \in 0..MaxFailures
    BY StrategyAssumption DEF Init
  <1>3. invalid \in [{Sym, NoSym} -> BOOLEAN] /\ legs \in [Sides -> Int]
    BY DEF Init
  <1>4. {silent, live, positions, inFlight} \subseteq BOOLEAN
    BY Zenon DEF Init
  <1>5. queue \in Seq(Events) /\ retries \subseteq Tfs
    BY DEF Init
  <1> QED
    BY <1>1, <1>2, <1>3, <1>4, <1>5 DEF Init, TypeOK

LEMMA TypeArrivals ==
  ASSUME TypeOK,
         (\E tf \in Tfs : BarCloses(tf)) \/ GapArrives \/ FundingArrives \/ BusFallsSilent
  PROVE  TypeOK'
  <1>1. ASSUME NEW tf \in Tfs, BarCloses(tf) PROVE TypeOK'
    <2>1. Bar(tf) \in Events
      BY DEF Bar, Events
    <2>2. queue' \in Seq(Events)
      BY <1>1, <2>1, EnqueueType DEF BarCloses
    <2>3. closed' \in [Tfs -> 0..MaxBars]
      <3>1. closed \in [Tfs -> 0..MaxBars] /\ closed[tf] < MaxBars /\ MaxBars \in Nat
        BY <1>1, StrategyAssumption DEF BarCloses, TypeOK
      <3> QED
        BY <1>1, <3>1 DEF BarCloses
    <2> QED
      BY <1>1, <2>2, <2>3 DEF BarCloses, TypeOK, data, trading, timeout, counts
  <1>2. ASSUME GapArrives PROVE TypeOK'
    <2>1. PICK s \in {Sym, NoSym} : Enqueue(Gap(s))
      BY <1>2 DEF GapArrives
    <2>2. Gap(s) \in Events
      BY DEF Gap, Events
    <2>3. queue' \in Seq(Events)
      BY <2>1, <2>2, EnqueueType
    <2>4. gaps' \in 0..MaxGaps
      BY <1>2, StrategyAssumption DEF GapArrives, TypeOK
    <2> QED
      BY <1>2, <2>3, <2>4 DEF GapArrives, TypeOK, data, trading, timeout
  <1>3. ASSUME FundingArrives PROVE TypeOK'
    <2>1. queue' \in Seq(Events)
      BY <1>3, EnqueueType DEF FundingArrives, Events
    <2> QED
      BY <1>3, <2>1 DEF FundingArrives, TypeOK, data, trading, timeout, counts
  <1>4. ASSUME BusFallsSilent PROVE TypeOK'
    <2>1. silences' \in 0..MaxSilences
      BY SMTT(30), <1>4, StrategyAssumption DEF BusFallsSilent, TypeOK
    <2> QED
      BY <1>4, <2>1 DEF BusFallsSilent, TypeOK, data, trading, timeout
  <1> QED
    BY <1>1, <1>2, <1>3, <1>4

LEMMA TypeHistory ==
  ASSUME TypeOK, Subscribe \/ \E tf \in Tfs : RetryHistory(tf)
  PROVE  TypeOK'
  <1>1. ASSUME Subscribe PROVE TypeOK'
    <2>1. rows' \in [Tfs -> 0..MinLookback] /\ retries' \subseteq Tfs
      BY <1>1, LoadsType, StrategyAssumption DEF Subscribe, TypeOK
    <2> QED
      BY <1>1, <2>1 DEF Subscribe, TypeOK, trading, timeout, counts
  <1>2. ASSUME NEW tf \in Tfs, RetryHistory(tf) PROVE TypeOK'
    <2>1. rows' \in [Tfs -> 0..MinLookback] /\ retries' \subseteq Tfs
      BY <1>2, LoadsType DEF RetryHistory, TypeOK
    <2> QED
      BY <1>2, <2>1 DEF RetryHistory, TypeOK, trading, timeout, counts
  <1> QED
    BY <1>1, <1>2

LEMMA TypeBar ==
  ASSUME TypeOK, NEW tf \in Tfs, OnBar(tf)
  PROVE  /\ rows' \in [Tfs -> 0..MinLookback] /\ retries' \subseteq Tfs
         /\ invalid' \in [{Sym, NoSym} -> BOOLEAN]
         /\ cleanBars' \in [{Sym, NoSym} -> 0..(MinLookback - 1)]
         /\ side' \in Sides \union {"none"} /\ legs' \in [Sides -> Int]
         /\ silent' = FALSE /\ sinceGap' \in 0..MinLookback
  <1>1. /\ rows[tf] + 1 \in Nat /\ sinceGap + 1 \in Nat
    BY SMTT(30), StrategyAssumption DEF TypeOK
  <1>2. AtMost(rows[tf] + 1) \in 0..MinLookback /\ sinceGap' \in 0..MinLookback
    BY <1>1, AtMostType DEF OnBar
  <1>3. rows' \in [Tfs -> 0..MinLookback]
    BY <1>2 DEF OnBar, TypeOK
  <1>4. side' \in Sides \union {"none"} /\ legs' \in [Sides -> Int]
    <2>1. CASE UNCHANGED trading
      BY <2>1 DEF trading, TypeOK
    <2>2. CASE \E target \in Sides : Trade(target)
      BY <2>2, TradeType
    <2> QED
      BY <2>1, <2>2 DEF OnBar
  <1> QED
    BY <1>2, <1>3, <1>4, CleanBarType DEF OnBar, TypeOK

LEMMA TypeGap ==
  ASSUME TypeOK, NEW s \in {Sym, NoSym}, HandleGap(s)
  PROVE  /\ invalid' \in [{Sym, NoSym} -> BOOLEAN]
         /\ cleanBars' \in [{Sym, NoSym} -> 0..(MinLookback - 1)]
         /\ side' = "none" /\ sinceGap' \in 0..MinLookback
  BY SMTT(30), StrategyAssumption DEF HandleGap, Invalidate, TypeOK

LEMMA TypeEvent ==
  ASSUME TypeOK, HandleEvent
  PROVE  TypeOK'
  <1> DEFINE e == Head(queue)
  <1>1. e \in Events /\ queue' \in Seq(Events)
    BY HeadType DEF HandleEvent
  <1>2. CASE e.type = "bar" /\ OnBar(e.tf)
    <2>1. e.tf \in Tfs
      BY <1>1, <1>2, EventFields
    <2> QED
      BY <1>1, <1>2, <2>1, TypeBar DEF HandleEvent, TypeOK, timeout, counts
  <1>3. CASE e.type = "gap" /\ HandleGap(e.symbol)
    <2>1. e.symbol \in {Sym, NoSym}
      BY <1>1, <1>3, EventFields
    <2> QED
      BY <1>1, <1>3, <2>1, TypeGap DEF HandleEvent, HandleGap, TypeOK, timeout, counts
  <1>4. CASE silent' = FALSE /\ UNCHANGED <<data, trading>>
    BY <1>1, <1>4 DEF HandleEvent, TypeOK, data, trading, timeout, counts
  <1> QED
    BY <1>2, <1>3, <1>4 DEF HandleEvent

LEMMA TypeTimeout ==
  ASSUME TypeOK,
         TimeoutFires \/ SpawnCloser \/ \E c \in Closers : CloserStep(c) \/ PlaceFails(c)
  PROVE  TypeOK'
  <1>1. ASSUME TimeoutFires PROVE TypeOK'
    BY <1>1 DEF TimeoutFires, TypeOK, data, trading, counts
  <1>2. ASSUME SpawnCloser PROVE TypeOK'
    <2>1. closers' \in [Closers -> {"none", "place", "placed", "end"}] /\ inFlight' \in BOOLEAN
      BY <1>2 DEF SpawnCloser, Spawn, TypeOK
    <2> QED
      BY <1>2, <2>1 DEF SpawnCloser, TypeOK, data, trading, counts
  <1>3. ASSUME NEW c \in Closers, CloserStep(c) PROVE TypeOK'
    <2>1. /\ closers' \in [Closers -> {"none", "place", "placed", "end"}]
          /\ {inFlight', positions'} \subseteq BOOLEAN
      BY <1>3 DEF CloserStep, CloseSkipped, PlaceSucceeds, Forget, Leave, TypeOK
    <2> QED
      BY <1>3, <2>1 DEF CloserStep, CloseSkipped, PlaceSucceeds, Forget, Leave, TypeOK, data, trading, counts
  <1>4. ASSUME NEW c \in Closers, PlaceFails(c) PROVE TypeOK'
    <2>1. failures' \in 0..MaxFailures
      BY <1>4, StrategyAssumption DEF PlaceFails, TypeOK
    <2> QED
      BY <1>4, <2>1 DEF PlaceFails, TypeOK, data, trading
  <1> QED
    BY <1>1, <1>2, <1>3, <1>4

LEMMA TypeStep ==
  ASSUME TypeOK, [Next]_vars
  PROVE  TypeOK'
  <1>1. CASE UNCHANGED vars
    BY <1>1 DEF vars, TypeOK, data, trading, timeout, counts
  <1> QED
    BY <1>1, TypeArrivals, TypeHistory, TypeEvent, TypeTimeout DEF Next

\* Types (the lengths of the frames, the counts of bars and gaps stay in range).
THEOREM TypesHold == Spec => []TypeOK
  <1> QED
    BY TypeInit, TypeStep, PTL DEF Spec
------------------------------------------------------------------------------
\* Bars and gaps are the only steps that a symbol's signal depends on.
LEMMA SignalsBar ==
  ASSUME Signals, NEW tf \in Tfs, OnBar(tf)
  PROVE  CountsCleanBars' /\ SuspendedExactly'
  <1>1. /\ MinLookback \in Nat \ {0} /\ sinceGap \in 0..MinLookback
        /\ sinceGap' = IF sinceGap + 1 < MinLookback THEN sinceGap + 1 ELSE MinLookback
    BY StrategyAssumption DEF Signals, TypeOK, OnBar, AtMost
  <1>2. /\ Sym \in DOMAIN invalid /\ Sym \in DOMAIN cleanBars
    BY DEF Signals, TypeOK
  <1>3. CASE ~invalid[Sym] /\ UNCHANGED <<invalid, cleanBars>>
    BY <1>1, <1>3 DEF Signals, CountsCleanBars, SuspendedExactly
  <1>4. CASE /\ invalid[Sym] /\ cleanBars[Sym] + 1 >= MinLookback
             /\ invalid' = [invalid EXCEPT ![Sym] = FALSE]
             /\ cleanBars' = [cleanBars EXCEPT ![Sym] = 0]
    BY <1>1, <1>2, <1>4 DEF Signals, CountsCleanBars, SuspendedExactly
  <1>5. CASE /\ invalid[Sym] /\ cleanBars[Sym] + 1 < MinLookback
             /\ cleanBars' = [cleanBars EXCEPT ![Sym] = cleanBars[Sym] + 1]
             /\ UNCHANGED invalid
    BY <1>1, <1>2, <1>5 DEF Signals, CountsCleanBars, SuspendedExactly
  <1> QED
    BY <1>3, <1>4, <1>5 DEF OnBar, CleanBar

LEMMA SignalsGap ==
  ASSUME Signals, NEW s \in {Sym, NoSym}, HandleGap(s)
  PROVE  CountsCleanBars' /\ SuspendedExactly'
  <1>1. MinLookback \in Nat \ {0} /\ Sym # NoSym
    BY StrategyAssumption DEF Sym, NoSym
  <1>2. /\ Sym \in DOMAIN invalid /\ Sym \in DOMAIN cleanBars
    BY DEF Signals, TypeOK
  <1>3. CASE s = Sym
    BY <1>1, <1>2, <1>3 DEF HandleGap, Invalidate, CountsCleanBars, SuspendedExactly
  <1>4. CASE s = NoSym
    BY <1>1, <1>2, <1>4 DEF Signals, HandleGap, Invalidate, CountsCleanBars, SuspendedExactly
  <1> QED
    BY <1>3, <1>4

LEMMA SignalsStep ==
  ASSUME Signals, [Next]_vars
  PROVE  Signals'
  <1>0. TypeOK'
    BY TypeStep DEF Signals
  <1>1. CASE UNCHANGED <<invalid, cleanBars, sinceGap>>
    BY <1>0, <1>1 DEF Signals, CountsCleanBars, SuspendedExactly
  <1>2. CASE HandleEvent
    <2> DEFINE e == Head(queue)
    <2>1. e \in Events
      BY <1>2, HeadType DEF HandleEvent, Signals
    <2>2. CASE e.type = "bar" /\ OnBar(e.tf)
      BY <1>0, <2>1, <2>2, EventFields, SignalsBar DEF Signals
    <2>3. CASE e.type = "gap" /\ HandleGap(e.symbol)
      BY <1>0, <2>1, <2>3, EventFields, SignalsGap DEF Signals
    <2>4. CASE UNCHANGED data
      BY <1>1, <2>4 DEF data
    <2> QED
      BY <1>2, <2>2, <2>3, <2>4 DEF HandleEvent
  <1>3. CASE \/ \E tf \in Tfs : BarCloses(tf) \/ RetryHistory(tf)
             \/ GapArrives \/ FundingArrives \/ BusFallsSilent \/ Subscribe
    BY <1>1, <1>3 DEF BarCloses, RetryHistory, GapArrives, FundingArrives, BusFallsSilent, Subscribe, data
  <1>4. CASE TimeoutFires \/ SpawnCloser \/ \E c \in Closers : CloserStep(c) \/ PlaceFails(c)
    BY <1>1, <1>4 DEF TimeoutFires, SpawnCloser, CloserStep, CloseSkipped, PlaceSucceeds, PlaceFails, Forget, Leave, data
  <1>5. CASE UNCHANGED vars
    BY <1>1, <1>5 DEF vars, data
  <1> QED
    BY <1>2, <1>3, <1>4, <1>5 DEF Next

\* The signal is suspended for exactly MinLookback bars after the last gap,
\* whatever the mix of timeframes, gaps and overflow markers (handle_gap,
\* _on_clean_bar).
THEOREM SignalsHold == Spec => []SuspendedExactly
  <1>1. Init => Signals
    <2>1. ASSUME Init PROVE Signals
      <3>1. TypeOK
        BY <2>1, TypeInit
      <3>2. ~invalid[Sym] /\ cleanBars[Sym] = 0 /\ sinceGap = MinLookback
        BY <2>1 DEF Init
      <3> QED
        BY <3>1, <3>2, StrategyAssumption DEF Signals, CountsCleanBars, SuspendedExactly
    <2> QED
      BY <2>1
  <1>2. Signals => SuspendedExactly
    BY DEF Signals
  <1> QED
    BY <1>1, <1>2, SignalsStep, PTL DEF Spec
------------------------------------------------------------------------------
LEMMA LegsTrade ==
  ASSUME Legs, NEW target \in Sides, Trade(target)
  PROVE  ExitsHaveALeg'
  <1>1. legs \in [Sides -> Int] /\ side \in Sides \union {"none"}
    BY DEF Legs, TypeOK
  <1>2. CASE side = target /\ UNCHANGED trading
    BY <1>2 DEF Legs, ExitsHaveALeg, trading
  <1>3. CASE side = Opposite(target) /\ legs' = Flip(target) /\ side' = target
    BY <1>1, <1>3 DEF Legs, ExitsHaveALeg, Flip, Opposite, Sides
  <1>4. CASE side = "none" /\ legs' = Enter(target) /\ side' = target
    BY <1>1, <1>4 DEF Legs, ExitsHaveALeg, Enter, Sides
  <1> QED
    BY <1>2, <1>3, <1>4 DEF Trade

LEMMA LegsStep ==
  ASSUME Legs, [Next]_vars
  PROVE  Legs'
  <1>0. TypeOK'
    BY TypeStep DEF Legs
  <1>1. CASE UNCHANGED trading
    BY <1>0, <1>1 DEF Legs, ExitsHaveALeg, trading
  <1>2. CASE HandleEvent
    <2>1. CASE \E target \in Sides : Trade(target)
      BY <1>0, <2>1, LegsTrade DEF Legs
    <2>2. CASE side' = "none" /\ UNCHANGED legs
      <3>1. legs \in [Sides -> Int]
        BY DEF Legs, TypeOK
      <3> QED
        BY <1>0, <2>2, <3>1 DEF Legs, ExitsHaveALeg, Sides
    <2> QED
      BY <1>1, <1>2, <2>1, <2>2 DEF HandleEvent, OnBar, HandleGap
  <1>3. CASE \/ \E tf \in Tfs : BarCloses(tf) \/ RetryHistory(tf)
             \/ GapArrives \/ FundingArrives \/ BusFallsSilent \/ Subscribe
    BY <1>1, <1>3 DEF BarCloses, RetryHistory, GapArrives, FundingArrives, BusFallsSilent, Subscribe
  <1>4. CASE TimeoutFires \/ SpawnCloser \/ \E c \in Closers : CloserStep(c) \/ PlaceFails(c)
    BY <1>1, <1>4 DEF TimeoutFires, SpawnCloser, CloserStep, CloseSkipped, PlaceSucceeds, PlaceFails, Forget, Leave
  <1>5. CASE UNCHANGED vars
    BY <1>1, <1>5 DEF vars
  <1> QED
    BY <1>2, <1>3, <1>4, <1>5 DEF Next

\* No exit is posted for a leg that is not open, however gaps make the
\* strategy forget its side (_on_bar, handle_gap).
THEOREM LegsHold == Spec => []ExitsHaveALeg
  <1>1. Init => Legs
    <2>1. ASSUME Init PROVE Legs
      <3>1. \A s \in Sides : side # s /\ legs[s] = 0
        BY <2>1 DEF Init, Sides
      <3> QED
        BY <2>1, <3>1, TypeInit DEF Legs, ExitsHaveALeg
    <2> QED
      BY <2>1
  <1>2. Legs => ExitsHaveALeg
    BY DEF Legs
  <1> QED
    BY <1>1, <1>2, LegsStep, PTL DEF Spec
------------------------------------------------------------------------------
LEMMA ClosingsStep ==
  ASSUME Closings, [Next]_vars
  PROVE  Closings'
  <1>0. TypeOK' /\ closers \in [Closers -> {"none", "place", "placed", "end"}]
    BY TypeStep DEF Closings, TypeOK
  <1>1. CASE UNCHANGED <<closers, inFlight>>
    BY <1>0, <1>1 DEF Closings, MarkedWhileClosing, OneCloser
  <1>2. CASE SpawnCloser
    <2>1. CASE ~inFlight /\ Spawn /\ inFlight' = TRUE
      <3>1. \A c \in Closers : closers[c] = "none"
        BY <2>1 DEF Closings, MarkedWhileClosing
      <3>2. PICK c \in Closers : closers' = [closers EXCEPT ![c] = "place"]
        BY <2>1 DEF Spawn
      <3> QED
        BY <1>0, <2>1, <3>1, <3>2 DEF Closings, MarkedWhileClosing, OneCloser
    <2> QED
      BY <1>1, <1>2, <2>1 DEF SpawnCloser
  <1>3. ASSUME NEW c \in Closers, CloserStep(c) PROVE Closings'
    <2>1. CASE /\ closers[c] # "none" /\ UNCHANGED inFlight
               /\ closers' = [closers EXCEPT ![c] = "end"]
                  \/ closers' = [closers EXCEPT ![c] = "placed"]
      BY <1>0, <2>1 DEF Closings, MarkedWhileClosing, OneCloser
    <2>2. CASE Leave(c)
      <3>1. \A d \in Closers : closers'[d] = "none"
        BY <1>0, <2>2 DEF Leave, Closings, OneCloser
      <3> QED
        BY <1>0, <3>1 DEF Closings, MarkedWhileClosing, OneCloser
    <2> QED
      BY <1>3, <2>1, <2>2 DEF CloserStep, CloseSkipped, PlaceSucceeds, Forget
  <1>4. CASE TimeoutFires \/ \E c \in Closers : PlaceFails(c)
    BY <1>1, <1>4 DEF TimeoutFires, PlaceFails
  <1>5. CASE \/ \E tf \in Tfs : BarCloses(tf) \/ RetryHistory(tf)
             \/ GapArrives \/ FundingArrives \/ BusFallsSilent \/ Subscribe \/ HandleEvent
    BY <1>1, <1>5 DEF BarCloses, RetryHistory, GapArrives, FundingArrives, BusFallsSilent, Subscribe, HandleEvent, timeout
  <1>6. CASE UNCHANGED vars
    BY <1>1, <1>6 DEF vars, timeout
  <1> QED
    BY <1>2, <1>3, <1>4, <1>5, <1>6 DEF Next

\* One thread at most closes the position, however often the check of the bus
\* fires while a sale is retried (_emergency_close_in_flight).
THEOREM ClosingsHold == Spec => []OneCloser
  <1>1. Init => Closings
    BY TypeInit DEF Init, Closings, MarkedWhileClosing, OneCloser
  <1>2. Closings => OneCloser
    BY DEF Closings
  <1> QED
    BY <1>1, <1>2, ClosingsStep, PTL DEF Spec

\* Exits and emergency sales are posted only for what is there.
THEOREM OrdersHold == Spec => []OrdersAreSound
  <1>1. ExitsHaveALeg /\ OneCloser => OrdersAreSound
    BY DEF OrdersAreSound
  <1> QED
    BY <1>1, LegsHold, ClosingsHold, PTL
------------------------------------------------------------------------------
\* A function over 0..n that goes on from base by step.
Follows(f, n, S, base, step) ==
  /\ f = [i \in 0..n |-> f[i]] /\ f[0] = base
  /\ \A i \in 1..n : f[i - 1] \in S => f[i] = step[<<f[i - 1], i>>]

\* A set of naturals has a least one.
LEMMA Least ==
  ASSUME NEW T, T \subseteq Nat, T # {}
  PROVE  \E x \in T : \A y \in T : x <= y
  <1> DEFINE R == OpToRel(<, Nat)
  <1>1. IsWellFoundedOn(R, Nat)
    BY NatLessThanWellFounded
  <1>2. PICK x \in T : \A y \in T : <<y, x>> \notin R
    <2> HIDE DEF R
    <2> QED BY <1>1, WFMin
  <1>3. ASSUME NEW y \in T, ~(x <= y) PROVE FALSE
    <2>1. y < x /\ <<y, x>> \in Nat \X Nat BY <1>3
    <2>2. <<y, x>> \in R BY <2>1 DEF OpToRel
    <2> QED BY <2>2, <1>2
  <1> QED BY <1>3

\* What goes on from 0 holds up to n.
LEMMA Induction ==
  ASSUME NEW n \in Nat, NEW P, 0 \in P,
         \A i \in 1..n : i - 1 \in P => i \in P
  PROVE  0..n \subseteq P
  <1> DEFINE T == (0..n) \ P
  <1> SUFFICES ASSUME T # {} PROVE FALSE OBVIOUS
  <1>1. PICK x \in T : \A y \in T : x <= y BY Least, T \subseteq Nat
  <1>2. x # 0 OBVIOUS
  <1>3. x - 1 \in 0..n /\ x - 1 \notin T BY <1>1, <1>2
  <1> QED BY <1>3

\* There is such a function, of values in S.
LEMMA FollowsExists ==
  ASSUME NEW n \in Nat, NEW S, NEW base \in S, NEW step \in [S \X (1..n) -> S]
  PROVE  \E f \in [0..n -> S] : Follows(f, n, S, base, step)
  <1> DEFINE P == {m \in 0..n : \E f \in [0..m -> S] : Follows(f, m, S, base, step)}
  <1>1. 0 \in P
    <2> DEFINE f == [i \in 0..0 |-> base]
    <2>1. f \in [0..0 -> S] /\ Follows(f, 0, S, base, step) BY DEF Follows
    <2> HIDE DEF f
    <2> QED BY <2>1
  <1>2. ASSUME NEW m \in 1..n, m - 1 \in P PROVE m \in P
    <2>1. PICK f \in [0..m - 1 -> S] : Follows(f, m - 1, S, base, step) BY <1>2
    <2> DEFINE g == [i \in 0..m |-> IF i = m THEN step[<<f[m - 1], m>>] ELSE f[i]]
    <2>2. f[m - 1] \in S BY <2>1
    <2>3. g \in [0..m -> S] BY <2>1, <2>2
    <2>4. g[0] = base BY <2>1 DEF Follows
    <2>5. ASSUME NEW i \in 1..m PROVE g[i] = step[<<g[i - 1], i>>]
      <3>0. i \in 0..m /\ i - 1 \in 0..m /\ i - 1 # m /\ i - 1 \in 0..(m - 1) OBVIOUS
      <3>1. g[i - 1] = f[i - 1] BY <3>0
      <3>2. g[i] = step[<<f[i - 1], i>>]
        <4>1. CASE i = m BY <4>1, <3>0
        <4>2. CASE i # m
          <5>1. i \in 1..m - 1 BY <4>2
          <5>2. g[i] = f[i] BY <4>2, <3>0
          <5>3. f[i] = step[<<f[i - 1], i>>] BY <5>1, <2>1, <3>0 DEF Follows
          <5> QED BY <5>2, <5>3
        <4> QED BY <4>1, <4>2
      <3> QED BY <3>1, <3>2
    <2>6. g = [i \in 0..m |-> g[i]] OBVIOUS
    <2> HIDE DEF g
    <2>7. Follows(g, m, S, base, step) BY <2>4, <2>5, <2>6 DEF Follows
    <2> QED BY <2>3, <2>7
  <1> HIDE DEF P
  <1>3. n \in P BY <1>1, <1>2, Induction
  <1> QED BY <1>3 DEF P

\* A recursive definition over 0..n has one function.
LEMMA Recursion ==
  ASSUME NEW n \in Nat, NEW S, NEW base \in S, NEW step \in [S \X (1..n) -> S]
  PROVE  \E f \in [0..n -> S] : /\ Follows(f, n, S, base, step)
                                /\ \A g : Follows(g, n, S, base, step) => g = f
  <1>1. PICK f \in [0..n -> S] : Follows(f, n, S, base, step) BY FollowsExists
  <1>2. ASSUME NEW g, Follows(g, n, S, base, step) PROVE g = f
    <2> DEFINE P == {i \in 0..n : g[i] = f[i]}
    <2>1. 0 \in P BY <1>1, <1>2 DEF Follows
    <2>2. ASSUME NEW i \in 1..n, i - 1 \in P PROVE i \in P
      <3>1. g[i - 1] = f[i - 1] /\ g[i - 1] \in S BY <2>2
      <3>2. g[i] = step[<<g[i - 1], i>>] BY <3>1, <1>2 DEF Follows
      <3>3. f[i] = step[<<f[i - 1], i>>] BY <3>1, <1>1 DEF Follows
      <3> QED BY <3>1, <3>2, <3>3
    <2>3. 0..n \subseteq P
      <3> HIDE DEF P
      <3> QED BY <2>1, <2>2, Induction
    <2> QED BY <2>3, <1>2 DEF Follows
  <1> QED BY <1>1, <1>2

------------------------------------------------------------------------------
\* The states of the scan of a window's rows.
ScanStates == [start : Nat, found : Seq(Nat \X Nat)]

\* A row keeps the scan in its states.
LEMMA ScanRowType ==
  ASSUME NEW s \in ScanStates, NEW row, NEW i \in Nat \ {0}
  PROVE  ScanRow(s, row, i) \in ScanStates
  <1>1. CASE row = "bar"
    <2>1. ScanRow(s, row, i) = [s EXCEPT !.start = IF @ = 0 THEN i ELSE @]
      BY <1>1 DEF ScanRow
    <2> QED BY <2>1 DEF ScanStates
  <1>2. CASE row # "bar" /\ s.start = 0
    BY <1>2 DEF ScanRow
  <1>3. CASE row # "bar" /\ s.start # 0
    <2>1. ScanRow(s, row, i) = [start |-> 0, found |-> Append(s.found, <<s.start, i - 1>>)]
      BY <1>3 DEF ScanRow
    <2>2. <<s.start, i - 1>> \in Nat \X Nat BY DEF ScanStates
    <2>3. Append(s.found, <<s.start, i - 1>>) \in Seq(Nat \X Nat)
      BY <2>2 DEF ScanStates
    <2> QED BY <2>1, <2>3 DEF ScanStates
  <1> QED BY <1>1, <1>2, <1>3

\* _find_data_segments goes through the rows one by one.
LEMMA ScanRecursion ==
  ASSUME NEW w \in Windows
  PROVE  /\ Scan(w) \in [0..MaxRows -> ScanStates]
         /\ Scan(w)[0] = [start |-> 0, found |-> <<>>]
         /\ \A i \in 1..MaxRows : Scan(w)[i] = ScanRow(Scan(w)[i - 1], w[i], i)
  <1>1. MaxRows \in Nat /\ Len(w) = MaxRows BY ReplayAssumption DEF Windows
  <1> DEFINE base == [start |-> 0, found |-> <<>>]
             step == [p \in ScanStates \X (1..MaxRows) |-> ScanRow(p[1], w[p[2]], p[2])]
             Passes(f) == f = [i \in 0..MaxRows |-> IF i = 0 THEN base ELSE ScanRow(f[i - 1], w[i], i)]
  <1>2. base \in ScanStates BY DEF ScanStates
  <1>3. step \in [ScanStates \X (1..MaxRows) -> ScanStates] BY <1>1, ScanRowType
  <1>4. PICK f \in [0..MaxRows -> ScanStates] :
          /\ Follows(f, MaxRows, ScanStates, base, step)
          /\ \A g : Follows(g, MaxRows, ScanStates, base, step) => g = f
    <2> HIDE DEF base, step
    <2> QED BY <1>1, <1>2, <1>3, Recursion
  <1>5. \A i \in 1..MaxRows : step[<<f[i - 1], i>>] = ScanRow(f[i - 1], w[i], i)
    BY <1>1
  <1>6. Passes(f) /\ f[0] = base /\ \A i \in 1..MaxRows : f[i] = ScanRow(f[i - 1], w[i], i)
    <2> HIDE DEF step, base
    <2>1. f[0] = base /\ \A i \in 1..MaxRows : f[i] = ScanRow(f[i - 1], w[i], i)
      <3>1. f[0] = base BY <1>1, <1>4 DEF Follows
      <3>2. ASSUME NEW i \in 1..MaxRows PROVE f[i] = ScanRow(f[i - 1], w[i], i)
        <4>1. f[i - 1] \in ScanStates BY <1>1
        <4>2. f[i] = step[<<f[i - 1], i>>] BY <4>1, <1>4 DEF Follows
        <4> QED BY <4>2, <1>5
      <3> QED BY <3>1, <3>2
    <2>2. \A i \in 0..MaxRows : f[i] = IF i = 0 THEN base ELSE ScanRow(f[i - 1], w[i], i)
      BY <1>1, <2>1
    <2> QED BY <2>1, <2>2
  <1>7. ASSUME NEW g, Passes(g) PROVE g = f
    <2>1. g = [i \in 0..MaxRows |-> g[i]] /\ g[0] = base BY <1>1, <1>7
    <2>2. \A i \in 1..MaxRows : g[i - 1] \in ScanStates => g[i] = step[<<g[i - 1], i>>]
      BY <1>1, <1>7
    <2> HIDE DEF Passes, step, base
    <2>3. Follows(g, MaxRows, ScanStates, base, step) BY <2>1, <2>2 DEF Follows
    <2> QED BY <1>4, <2>3
  <1>8. Scan(w) = f
    <2>1. Scan(w) = CHOOSE g : Passes(g) BY <1>1 DEF Scan
    <2> HIDE DEF Passes
    <2> QED BY <2>1, <1>6, <1>7
  <1> QED
    BY <1>1, <1>6, <1>8

IsBar(w, i) == i \in DOMAIN w /\ w[i] = "bar"

\* A maximal stretch of bars.
Stretches(w) ==
  {s \in (DOMAIN w) \X (DOMAIN w) :
     /\ s[1] <= s[2] /\ \A i \in s[1]..s[2] : IsBar(w, i)
     /\ ~IsBar(w, s[1] - 1) /\ ~IsBar(w, s[2] + 1)}

\* The stretches that end before row i, in their order.
FoundTo(w, i, found) ==
  /\ \A p \in DOMAIN found : found[p] \in Stretches(w) /\ found[p][2] < i
  /\ \A t \in Stretches(w) : t[2] < i => \E p \in DOMAIN found : found[p] = t
  /\ \A p, q \in DOMAIN found : p < q => found[p][2] < found[q][1]

\* What the scan has found when it has passed i rows.
ScannedTo(w, i, s) ==
  /\ s \in ScanStates /\ s.start \in 0..i
  /\ s.start = 0 => ~IsBar(w, i)
  /\ s.start # 0 => ~IsBar(w, s.start - 1) /\ \A k \in s.start..i : IsBar(w, k)
  /\ FoundTo(w, i, s.found)

\* Every stretch found before the one under way ends before it starts.
LEMMA FoundBefore ==
  ASSUME NEW w \in Windows, NEW i \in 0..MaxRows, NEW s, ScannedTo(w, i, s), s.start # 0,
         NEW p \in DOMAIN s.found
  PROVE  s.found[p][2] < s.start
  <1>1. MaxRows \in Nat /\ DOMAIN w = 1..MaxRows BY ReplayAssumption DEF Windows
  <1>2. s.found[p] \in Stretches(w) /\ s.found[p][2] < i BY DEF ScannedTo, FoundTo
  <1>3. s.found[p][2] \in 1..MaxRows /\ ~IsBar(w, s.found[p][2] + 1)
    BY <1>1, <1>2 DEF Stretches
  <1>4. s.start \in 0..i /\ \A k \in s.start..i : IsBar(w, k) BY DEF ScannedTo
  <1> QED BY <1>1, <1>2, <1>3, <1>4

\* Appending a stretch that starts after the others end keeps them in order.
LEMMA AppendStretch ==
  ASSUME NEW w \in Windows, NEW i \in 1..(MaxRows + 1), NEW s, ScannedTo(w, i - 1, s),
         s.start # 0, ~IsBar(w, i)
  PROVE  FoundTo(w, i, Append(s.found, <<s.start, i - 1>>))

  <1> DEFINE new == <<s.start, i - 1>>  n == Len(s.found)  found == Append(s.found, new)
  <1>1. MaxRows \in Nat /\ DOMAIN w = 1..MaxRows BY ReplayAssumption DEF Windows
  <1>2. /\ s.start \in 1..(i - 1) /\ s.found \in Seq(Nat \X Nat)
        /\ ~IsBar(w, s.start - 1) /\ \A k \in s.start..(i - 1) : IsBar(w, k)
    BY DEF ScannedTo, ScanStates
  <1>3. new \in Stretches(w)
    <2>1. new \in (DOMAIN w) \X (DOMAIN w) BY <1>1, <1>2
    <2>2. (i - 1) + 1 = i OBVIOUS
    <2> QED BY <1>2, <2>1, <2>2 DEF Stretches
  <1>4. /\ n \in Nat /\ DOMAIN s.found = 1..n /\ DOMAIN found = 1..(n + 1)
        /\ found[n + 1] = new /\ \A p \in 1..n : found[p] = s.found[p]
    BY <1>2
  <1>5. \A p \in DOMAIN s.found : s.found[p][2] < s.start
    BY <1>1, FoundBefore, i - 1 \in 0..MaxRows
  <1>6. \A p \in DOMAIN found : found[p] \in Stretches(w) /\ found[p][2] < i
    <2>1. \A p \in 1..n : s.found[p] \in Stretches(w) /\ s.found[p][2] < i - 1
      BY <1>4 DEF ScannedTo, FoundTo
    <2>2. \A t \in Stretches(w) : t[2] \in Nat BY <1>1 DEF Stretches
    <2>3. ASSUME NEW p \in 1..n PROVE found[p] \in Stretches(w) /\ found[p][2] < i
      BY <2>1, <2>2, <1>4
    <2>4. found[n + 1] \in Stretches(w) /\ found[n + 1][2] < i
      BY <1>3, <1>4
    <2> QED BY <2>3, <2>4, <1>4
  <1>7. ASSUME NEW t \in Stretches(w), t[2] < i PROVE \E p \in DOMAIN found : found[p] = t
    <2>1. CASE t[2] < i - 1
      <3>1. PICK p \in DOMAIN s.found : s.found[p] = t
        BY <2>1 DEF ScannedTo, FoundTo
      <3> QED BY <3>1, <1>4
    <2>2. CASE t[2] = i - 1
      <3>1. t = new
        <4>1. /\ t \in (DOMAIN w) \X (DOMAIN w) /\ t[1] <= t[2] /\ ~IsBar(w, t[1] - 1)
              /\ \A k \in t[1]..t[2] : IsBar(w, k)
          BY DEF Stretches
        <4>2. t[1] = s.start
          <5>1. ~(t[1] < s.start)
            <6>1. SUFFICES ASSUME t[1] < s.start PROVE FALSE OBVIOUS
            <6>2. s.start - 1 \in t[1]..t[2] BY <1>1, <1>2, <2>2, <4>1, <6>1
            <6> QED BY <6>2, <4>1, <1>2
          <5>2. ~(s.start < t[1])
            <6>1. SUFFICES ASSUME s.start < t[1] PROVE FALSE OBVIOUS
            <6>2. t[1] - 1 \in s.start..(i - 1) BY <1>1, <1>2, <2>2, <4>1, <6>1
            <6> QED BY <6>2, <4>1, <1>2
          <5> QED BY <5>1, <5>2, <4>1, <1>1, <1>2
        <4> QED BY <4>1, <4>2, <2>2
      <3> QED BY <3>1, <1>4
    <2>3. t[2] \in Nat BY <1>1 DEF Stretches
    <2> QED BY <2>1, <2>2, <2>3, <1>7
  <1>8. ASSUME NEW p \in DOMAIN found, NEW q \in DOMAIN found, p < q
        PROVE  found[p][2] < found[q][1]
    <2>1. CASE q \in 1..n
      <3>1. p \in 1..n BY <1>4, <1>8, <2>1
      <3> QED BY <3>1, <2>1, <1>4, <1>8 DEF ScannedTo, FoundTo
    <2>2. CASE q = n + 1
      <3>1. p \in 1..n BY <1>4, <1>8, <2>2
      <3> QED BY <3>1, <2>2, <1>4, <1>5
    <2> QED BY <2>1, <2>2, <1>4
  <1> QED BY <1>6, <1>7, <1>8 DEF FoundTo

\* After i rows the scan has found the stretches that end before row i.
LEMMA ScanInvariant ==
  ASSUME NEW w \in Windows
  PROVE  \A i \in 0..MaxRows : ScannedTo(w, i, Scan(w)[i])
  <1> DEFINE P == {i \in 0..MaxRows : ScannedTo(w, i, Scan(w)[i])}
  <1>1. MaxRows \in Nat /\ DOMAIN w = 1..MaxRows BY ReplayAssumption DEF Windows
  <1>2. 0 \in P
    <2>1. ~IsBar(w, 0) BY <1>1 DEF IsBar
    <2>2. \A t \in Stretches(w) : ~(t[2] < 0) BY <1>1 DEF Stretches
    <2>3. Scan(w)[0] \in ScanStates /\ Scan(w)[0] = [start |-> 0, found |-> <<>>]
      BY <1>1, ScanRecursion
    <2> QED BY <1>1, <2>1, <2>2, <2>3 DEF ScannedTo, FoundTo
  <1>3. ASSUME NEW i \in 1..MaxRows, i - 1 \in P PROVE i \in P
    <2> DEFINE s == Scan(w)[i - 1]  t == Scan(w)[i]
    <2>1. ScannedTo(w, i - 1, s) BY <1>3
    <2>2. t = ScanRow(s, w[i], i) /\ t \in ScanStates BY <1>1, ScanRecursion
    <2> HIDE DEF s, t
    <2>3. s \in ScanStates /\ s.start \in 0..(i - 1) BY <2>1 DEF ScannedTo
    <2>4. \A u \in Stretches(w) : u[2] \in 1..MaxRows BY <1>1 DEF Stretches
    <2>5. CASE w[i] = "bar"
      <3>1. t = [s EXCEPT !.start = IF @ = 0 THEN i ELSE @]
        BY <2>2, <2>5 DEF ScanRow
      <3>2. t.found = s.found /\ t.start = (IF s.start = 0 THEN i ELSE s.start)
        BY <2>3, <3>1 DEF ScanStates
      <3>3. IsBar(w, i) BY <1>1, <2>5 DEF IsBar
      <3>4. \A u \in Stretches(w) : u[2] < i <=> u[2] < i - 1
        <4>1. ASSUME NEW u \in Stretches(w) PROVE u[2] # i - 1
          BY <3>3, <2>4, (i - 1) + 1 = i DEF Stretches
        <4> QED BY <4>1, <2>4
      <3>5. ~IsBar(w, t.start - 1) /\ \A k \in t.start..i : IsBar(w, k)
        <4>1. CASE s.start = 0 BY <4>1, <3>2, <3>3, <2>1 DEF ScannedTo
        <4>2. CASE s.start # 0 BY <4>2, <3>2, <3>3, <2>1, <2>3 DEF ScannedTo
        <4> QED BY <4>1, <4>2
      <3>6. t.start \in 1..i BY <3>2, <2>3
      <3>7. ScannedTo(w, i, t)
        BY <2>1, <2>2, <3>2, <3>4, <3>5, <3>6 DEF ScannedTo, FoundTo
      <3> QED BY <3>7, <1>1 DEF t
    <2>6. CASE w[i] # "bar" /\ s.start = 0
      <3>1. t = s BY <2>2, <2>6 DEF ScanRow
      <3>2. ~IsBar(w, i) /\ ~IsBar(w, i - 1) BY <2>1, <2>6 DEF IsBar, ScannedTo
      <3>3. \A u \in Stretches(w) : u[2] < i <=> u[2] < i - 1
        <4>1. ASSUME NEW u \in Stretches(w) PROVE u[2] # i - 1
          BY <3>2, <2>4 DEF Stretches
        <4> QED BY <4>1, <2>4
      <3>4. ScannedTo(w, i, t)
        BY <2>1, <2>6, <3>1, <3>2, <3>3 DEF ScannedTo, FoundTo
      <3> QED BY <3>4, <1>1 DEF t
    <2>7. CASE w[i] # "bar" /\ s.start # 0
      <3>1. t = [start |-> 0, found |-> Append(s.found, <<s.start, i - 1>>)]
        BY <2>2, <2>7 DEF ScanRow
      <3>2. ~IsBar(w, i) BY <2>7 DEF IsBar
      <3>3. FoundTo(w, i, t.found)
        <4>1. FoundTo(w, i, Append(s.found, <<s.start, i - 1>>))
          BY <1>1, <2>1, <2>7, <3>2, AppendStretch, i \in 1..(MaxRows + 1)
        <4> QED BY <4>1, <3>1
      <3>4. ScannedTo(w, i, t)
        <4>1. t.start = 0 BY <3>1
        <4> QED BY <1>1, <2>2, <3>2, <3>3, <4>1 DEF ScannedTo
      <3> QED BY <3>4, <1>1 DEF t
    <2> QED BY <2>5, <2>6, <2>7
  <1> HIDE DEF P
  <1>4. 0..MaxRows \subseteq P BY <1>1, <1>2, <1>3, Induction
  <1> QED BY <1>4 DEF P

\* The segments reported are the stretches of bars, in their order.
LEMMA SegmentsAreStretches ==
  ASSUME NEW w \in Windows
  PROVE  /\ ToSet(Segments(w)) = Stretches(w)
         /\ \A p, q \in DOMAIN Segments(w) : p < q => Segments(w)[p][2] < Segments(w)[q][1]
  <1> DEFINE end == Scan(w)[MaxRows]
  <1>1. MaxRows \in Nat /\ DOMAIN w = 1..MaxRows /\ Len(w) = MaxRows
    BY ReplayAssumption DEF Windows
  <1>2. ScannedTo(w, MaxRows, end) BY <1>1, ScanInvariant
  <1>3. Segments(w) = IF end.start = 0 THEN end.found ELSE Append(end.found, <<end.start, MaxRows>>)
    BY <1>1 DEF Segments
  <1> HIDE DEF end
  <1>4. \A t \in Stretches(w) : t[2] \in 1..MaxRows BY <1>1 DEF Stretches
  <1>5. CASE end.start = 0
    <2>1. \A t \in Stretches(w) : t[2] < MaxRows
      <3>1. ASSUME NEW t \in Stretches(w) PROVE t[2] # MaxRows
        BY <1>1, <1>2, <1>5 DEF Stretches, ScannedTo
      <3> QED BY <3>1, <1>1, <1>4
    <2> QED BY <1>2, <1>3, <1>5, <2>1 DEF ScannedTo, FoundTo, ToSet
  <1>6. CASE end.start # 0
    <2>1. ~IsBar(w, MaxRows + 1) BY <1>1 DEF IsBar
    <2>2. ScannedTo(w, (MaxRows + 1) - 1, end) /\ Segments(w) = Append(end.found, <<end.start, (MaxRows + 1) - 1>>)
      BY <1>1, <1>2, <1>3, <1>6
    <2>3. FoundTo(w, MaxRows + 1, Segments(w))
      BY <1>1, <1>6, <2>1, <2>2, AppendStretch, MaxRows + 1 \in 1..(MaxRows + 1)
    <2>4. \A u \in Stretches(w) : u[2] < MaxRows + 1 BY <1>1, <1>4
    <2> QED BY <2>3, <2>4 DEF FoundTo, ToSet
  <1> QED BY <1>5, <1>6

------------------------------------------------------------------------------
\* What a replay keeps: orders by their bar and place, the fills and the trades.
Ids == Nat \X Nat
Orders == [id : Ids, size : Int]
Accounts == [pos : Int, fills : Seq(Orders), pending : Ids, trades : Seq(Ids \X Ids)]

\* The position after a fill is that before it and the fill's size.
LEMMA PositionRecursion ==
  ASSUME NEW fills \in Seq(Orders)
  PROVE  /\ \A k \in 0..Len(fills) : Position(fills, k) \in Int
         /\ Position(fills, 0) = 0
         /\ \A k \in 1..Len(fills) : Position(fills, k) = Position(fills, k - 1) + fills[k].size
  <1> DEFINE n == Len(fills)
             base == 0
             step == [p \in Int \X (1..n) |-> p[1] + fills[p[2]].size]
             Passes(f) == f = [j \in 0..n |-> IF j = 0 THEN 0 ELSE f[j - 1] + fills[j].size]
  <1>1. n \in Nat /\ base \in Int /\ base = 0 OBVIOUS
  <1>2. ASSUME NEW k PROVE Position(fills, k) = (CHOOSE g : Passes(g))[k]
    BY DEF Position
  <1>3. ASSUME NEW k \in 1..n PROVE fills[k].size \in Int
    <2>1. fills[k] \in Orders OBVIOUS
    <2> QED BY <2>1 DEF Orders
  <1> HIDE DEF n
  <1>4. step \in [Int \X (1..n) -> Int] BY <1>3
  <1>5. PICK f \in [0..n -> Int] : /\ Follows(f, n, Int, base, step)
                                       /\ \A g : Follows(g, n, Int, base, step) => g = f
    <2> HIDE DEF base, step
    <2> QED BY <1>1, <1>4, Recursion
  <1>6. \A i \in 1..n : step[<<f[i - 1], i>>] = f[i - 1] + fills[i].size
    BY <1>1
  <1>7. Passes(f) /\ f[0] = 0 /\ \A i \in 1..n : f[i] = f[i - 1] + fills[i].size
    <2> HIDE DEF step
    <2>1. f[0] = 0 /\ \A i \in 1..n : f[i] = f[i - 1] + fills[i].size
      <3>1. f[0] = 0 BY <1>1, <1>5 DEF Follows
      <3>2. ASSUME NEW i \in 1..n PROVE f[i] = f[i - 1] + fills[i].size
        <4>1. f[i - 1] \in Int BY <1>1
        <4>2. f[i] = step[<<f[i - 1], i>>] BY <4>1, <1>5 DEF Follows
        <4> QED BY <4>2, <1>6
      <3> QED BY <3>1, <3>2
    <2>2. \A i \in 0..n : f[i] = IF i = 0 THEN 0 ELSE f[i - 1] + fills[i].size
      BY <1>1, <2>1
    <2> QED BY <2>1, <2>2
  <1>8. ASSUME NEW g, Passes(g) PROVE g = f
    <2>1. g = [i \in 0..n |-> g[i]] /\ g[0] = base BY <1>1, <1>8
    <2>2. ASSUME NEW i \in 1..n, g[i - 1] \in Int PROVE g[i] = step[<<g[i - 1], i>>]
      <3>1. i \in 0..n /\ i # 0 BY <1>1
      <3>2. g[i] = (IF i = 0 THEN 0 ELSE g[i - 1] + fills[i].size) BY <3>1, <1>8
      <3>3. step[<<g[i - 1], i>>] = g[i - 1] + fills[i].size BY <2>2
      <3> QED BY <3>1, <3>2, <3>3
    <2> HIDE DEF Passes, step, base
    <2>3. Follows(g, n, Int, base, step) BY <2>1, <2>2 DEF Follows
    <2> QED BY <1>5, <2>3
  <1>9. ASSUME NEW k PROVE Position(fills, k) = f[k]
    <2> HIDE DEF Passes
    <2> QED BY <1>2, <1>7, <1>8
  <1> HIDE DEF Passes
  <1> QED
    BY <1>1, <1>7, <1>9 DEF n

\* A fill changes no position before it.
LEMMA PositionAppend ==
  ASSUME NEW fills \in Seq(Orders), NEW order \in Orders
  PROVE  \A k \in 0..Len(fills) : Position(Append(fills, order), k) = Position(fills, k)
  <1> DEFINE n == Len(fills)  more == Append(fills, order)
             P == {k \in 0..n : Position(more, k) = Position(fills, k)}
  <1>1. n \in Nat /\ more \in Seq(Orders) /\ Len(more) = n + 1 /\ \A k \in 1..n : more[k] = fills[k]
    OBVIOUS
  <1>2. 0 \in P
    <2> HIDE DEF more
    <2>1. Position(more, 0) = 0 /\ Position(fills, 0) = 0
      BY <1>1, PositionRecursion
    <2> QED BY <1>1, <2>1
  <1>3. ASSUME NEW k \in 1..n, k - 1 \in P PROVE k \in P
    <2>1. Position(more, k) = Position(more, k - 1) + more[k].size
      <3> HIDE DEF more, n
      <3> QED BY <1>1, PositionRecursion, k \in 1..(n + 1)
    <2>2. Position(fills, k) = Position(fills, k - 1) + fills[k].size
      BY PositionRecursion
    <2> QED BY <1>1, <1>3, <2>1, <2>2
  <1> HIDE DEF P
  <1>4. 0..n \subseteq P BY <1>1, <1>2, <1>3, Induction
  <1> QED BY <1>4 DEF P

\* Flat or long, and no more.
NeverShort(fills) == \A k \in DOMAIN fills : Position(fills, k) \in {0, 1}

\* The first h pairs of fills.
RoundTrips(fills, h) == [k \in 1..h |-> <<fills[2 * k - 1].id, fills[2 * k].id>>]

\* While the position is never short, the fills are h round trips and perhaps one
\* entry more, which is the pending one.
InRoundTrips(s) ==
  /\ s \in Accounts
  /\ \A k \in DOMAIN s.fills : s.fills[k].size # 0 /\ s.fills[k].id # NoEntry
  /\ NeverShort(s.fills) =>
       \E h \in Nat :
         /\ s.trades = RoundTrips(s.fills, h)
         /\ \/ Len(s.fills) = 2 * h /\ Position(s.fills, 2 * h) = 0 /\ s.pending = NoEntry
            \/ /\ Len(s.fills) = 2 * h + 1 /\ Position(s.fills, 2 * h + 1) = 1
               /\ s.pending = s.fills[2 * h + 1].id

\* A fill, or a rejection, of an order keeps the trades the round trips of the fills.
LEMMA FillInRoundTrips ==
  ASSUME NEW s, InRoundTrips(s), NEW order \in Orders, order.size # 0, order.id # NoEntry,
         NEW completed \in BOOLEAN
  PROVE  InRoundTrips(ApplyFill(s, order, completed))
  <1> DEFINE t == ApplyFill(s, order, completed)
  <1>1. CASE ~completed BY <1>1 DEF ApplyFill
  <1>2. CASE completed
    <2> DEFINE n == Len(s.fills)
    <2>1. /\ t.pos = s.pos + order.size /\ t.fills = Append(s.fills, order)
          /\ t.pending = (IF order.size > 0 THEN order.id ELSE NoEntry)
          /\ t.trades = (IF order.size < 0 /\ s.pending # NoEntry
                         THEN Append(s.trades, <<s.pending, order.id>>) ELSE s.trades)
          /\ t = [pos |-> t.pos, fills |-> t.fills, pending |-> t.pending, trades |-> t.trades]
      BY <1>2 DEF ApplyFill
    <2> HIDE DEF t
    <2>2. /\ s.pos \in Int /\ s.fills \in Seq(Orders) /\ s.pending \in Ids /\ s.trades \in Seq(Ids \X Ids)
          /\ order.id \in Ids /\ order.size \in Int /\ NoEntry \in Ids
      BY DEF InRoundTrips, Accounts, Orders, Ids, NoEntry
    <2>3. t.pos \in Int /\ t.fills \in Seq(Orders) /\ t.pending \in Ids /\ t.trades \in Seq(Ids \X Ids)
      <3>1. t.trades \in Seq(Ids \X Ids)
        <4>1. <<s.pending, order.id>> \in Ids \X Ids BY <2>2
        <4>2. Append(s.trades, <<s.pending, order.id>>) \in Seq(Ids \X Ids)
          BY <2>2, <4>1
        <4> QED BY <2>1, <2>2, <4>2
      <3> QED BY <2>1, <2>2, <3>1
    <2>4. t \in Accounts BY <2>1, <2>3 DEF Accounts
    <2>5. /\ n \in Nat /\ DOMAIN s.fills = 1..n /\ Len(t.fills) = n + 1 /\ DOMAIN t.fills = 1..(n + 1)
          /\ t.fills[n + 1] = order /\ \A k \in 1..n : t.fills[k] = s.fills[k]
      BY <2>1, <2>2
    <2>6. \A k \in DOMAIN t.fills : t.fills[k].size # 0 /\ t.fills[k].id # NoEntry
      BY <2>5 DEF InRoundTrips
    <2>7. /\ \A k \in 0..n : Position(t.fills, k) = Position(s.fills, k)
          /\ Position(t.fills, n + 1) = Position(s.fills, n) + order.size
      <3>1. \A k \in 0..n : Position(t.fills, k) = Position(s.fills, k)
        BY <2>1, <2>2, PositionAppend
      <3>2. Position(t.fills, n + 1) = Position(t.fills, n) + t.fills[n + 1].size
        BY <2>3, <2>5, PositionRecursion, n + 1 \in 1..Len(t.fills), (n + 1) - 1 = n
      <3> QED BY <3>1, <3>2, <2>5
    <2>8. ASSUME NeverShort(t.fills)
          PROVE  \E h \in Nat :
                   /\ t.trades = RoundTrips(t.fills, h)
                   /\ \/ Len(t.fills) = 2 * h /\ Position(t.fills, 2 * h) = 0 /\ t.pending = NoEntry
                      \/ /\ Len(t.fills) = 2 * h + 1 /\ Position(t.fills, 2 * h + 1) = 1
                         /\ t.pending = t.fills[2 * h + 1].id
      <3>1. NeverShort(s.fills) /\ Position(t.fills, n + 1) \in {0, 1}
        BY <2>5, <2>7, <2>8 DEF NeverShort
      <3>2. PICK h \in Nat :
              /\ s.trades = RoundTrips(s.fills, h)
              /\ \/ n = 2 * h /\ Position(s.fills, 2 * h) = 0 /\ s.pending = NoEntry
                 \/ n = 2 * h + 1 /\ Position(s.fills, 2 * h + 1) = 1 /\ s.pending = s.fills[2 * h + 1].id
        BY <3>1 DEF InRoundTrips
      <3>3. RoundTrips(t.fills, h) = RoundTrips(s.fills, h)
        <4>1. \A k \in 1..h : 2 * k - 1 \in 1..n /\ 2 * k \in 1..n BY <3>2, <2>5
        <4> QED BY <4>1, <2>5 DEF RoundTrips
      <3>4. CASE n = 2 * h /\ Position(s.fills, 2 * h) = 0 /\ s.pending = NoEntry
        <4>1. order.size = 1 BY <3>1, <3>4, <2>2, <2>7
        <4>2. t.pending = order.id /\ t.trades = s.trades BY <4>1, <2>1
        <4> QED BY <4>1, <4>2, <3>2, <3>3, <3>4, <2>5, <2>7
      <3>5. CASE n = 2 * h + 1 /\ Position(s.fills, 2 * h + 1) = 1 /\ s.pending = s.fills[2 * h + 1].id
        <4>1. order.size = -1 BY <3>1, <3>5, <2>2, <2>7
        <4>2. s.pending # NoEntry BY <3>5, <2>5 DEF InRoundTrips
        <4>3. t.pending = NoEntry /\ t.trades = Append(s.trades, <<s.pending, order.id>>)
          BY <4>1, <4>2, <2>1
        <4>4. t.trades = RoundTrips(t.fills, h + 1)
          <5>1. s.trades = [k \in 1..h |-> <<t.fills[2 * k - 1].id, t.fills[2 * k].id>>]
            BY <3>2, <3>3 DEF RoundTrips
          <5>2. <<s.pending, order.id>> = <<t.fills[2 * (h + 1) - 1].id, t.fills[2 * (h + 1)].id>>
            <6>1. 2 * (h + 1) - 1 = n /\ 2 * (h + 1) = n + 1 /\ n = 2 * h + 1
              BY <3>5
            <6>2. n \in 1..n BY <6>1
            <6>3. t.fills[n] = s.fills[n] /\ t.fills[n + 1] = order BY <2>5, <6>2
            <6> QED BY <3>5, <6>1, <6>3
          <5>3. Len(s.trades) = h BY <5>1, <2>2
          <5>4. DOMAIN t.trades = 1..(h + 1) /\ t.trades[h + 1] = <<s.pending, order.id>>
                /\ \A k \in 1..h : t.trades[k] = s.trades[k]
            BY <4>3, <5>3, <2>2
          <5>5. \A k \in 1..(h + 1) : t.trades[k] = <<t.fills[2 * k - 1].id, t.fills[2 * k].id>>
            <6>1. ASSUME NEW k \in 1..h PROVE t.trades[k] = <<t.fills[2 * k - 1].id, t.fills[2 * k].id>>
              BY <5>1, <5>4
            <6>2. t.trades[h + 1] = <<t.fills[2 * (h + 1) - 1].id, t.fills[2 * (h + 1)].id>>
              BY <5>2, <5>4
            <6>3. \A k \in 1..(h + 1) : k \in 1..h \/ k = h + 1 OBVIOUS
            <6> HIDE DEF n
            <6> QED BY <6>1, <6>2, <6>3
          <5>6. t.trades = [k \in 1..(h + 1) |-> t.trades[k]] BY <5>4, <2>3
          <5> QED BY <5>5, <5>6 DEF RoundTrips
        <4>5. Len(t.fills) = 2 * (h + 1) /\ Position(t.fills, 2 * (h + 1)) = 0
          BY <4>1, <3>5, <2>5, <2>7
        <4>6. h + 1 \in Nat OBVIOUS
        <4> QED BY <4>3, <4>4, <4>5, <4>6
      <3> QED BY <3>2, <3>4, <3>5
    <2>9. InRoundTrips(t) BY <2>4, <2>6, <2>8 DEF InRoundTrips
    <2> QED BY <2>9 DEF t
  <1> QED BY <1>1, <1>2

\* Orders that are posted on some bar, and accounts whose trades are round trips.
GoodOrders == {o \in Orders : o.id # NoEntry}
GoodAccounts == {s \in Accounts : InRoundTrips(s)}

\* So do the orders of a bar one after the other.
LEMMA ExecuteInRoundTrips ==
  ASSUME NEW s \in GoodAccounts, NEW orders \in Seq(GoodOrders), NEW rejected
  PROVE  Execute(s, orders, rejected) \in GoodAccounts
  <1> DEFINE n == Len(orders)
             Then(a, k) == IF orders[k].size = 0 THEN a
                            ELSE ApplyFill(a, orders[k], orders[k].id \notin rejected)
             step == [p \in GoodAccounts \X (1..n) |-> Then(p[1], p[2])]
             Passes(f) == f = [k \in 0..n |-> IF k = 0 THEN s ELSE Then(f[k - 1], k)]
  <1>1. n \in Nat OBVIOUS
  <1>2. Execute(s, orders, rejected) = (CHOOSE g : Passes(g))[n] BY DEF Execute
  <1>3. ASSUME NEW k \in 1..n, NEW a \in GoodAccounts PROVE Then(a, k) \in GoodAccounts
    <2>1. orders[k] \in Orders /\ orders[k].id # NoEntry
      <3>1. orders[k] \in GoodOrders OBVIOUS
      <3> QED BY <3>1 DEF GoodOrders
    <2>2. CASE orders[k].size = 0 BY <2>2
    <2>3. CASE orders[k].size # 0
      <3>1. InRoundTrips(Then(a, k))
        BY <2>1, <2>3, FillInRoundTrips DEF GoodAccounts
      <3> QED BY <3>1 DEF GoodAccounts, InRoundTrips
    <2> QED BY <2>2, <2>3
  <1> HIDE DEF n, Then
  <1>4. step \in [GoodAccounts \X (1..n) -> GoodAccounts] BY <1>3
  <1>5. PICK f \in [0..n -> GoodAccounts] : /\ Follows(f, n, GoodAccounts, s, step)
                                       /\ \A g : Follows(g, n, GoodAccounts, s, step) => g = f
    <2> HIDE DEF step
    <2> QED BY <1>1, <1>4, Recursion
  <1>6. \A i \in 1..n : step[<<f[i - 1], i>>] = Then(f[i - 1], i)
    BY <1>1
  <1>7. Passes(f)
    <2> HIDE DEF step
    <2>1. f[0] = s /\ \A i \in 1..n : f[i] = Then(f[i - 1], i)
      <3>1. f[0] = s BY <1>1, <1>5 DEF Follows
      <3>2. ASSUME NEW i \in 1..n PROVE f[i] = Then(f[i - 1], i)
        <4>1. f[i - 1] \in GoodAccounts BY <1>1
        <4>2. f[i] = step[<<f[i - 1], i>>] BY <4>1, <1>5 DEF Follows
        <4> QED BY <4>2, <1>6
      <3> QED BY <3>1, <3>2
    <2>2. \A i \in 0..n : f[i] = IF i = 0 THEN s ELSE Then(f[i - 1], i)
      BY <1>1, <2>1
    <2> QED BY <2>2
  <1>8. ASSUME NEW g, Passes(g) PROVE g = f
    <2>1. g = [i \in 0..n |-> g[i]] /\ g[0] = s BY <1>1, <1>8
    <2>2. ASSUME NEW i \in 1..n, g[i - 1] \in GoodAccounts PROVE g[i] = step[<<g[i - 1], i>>]
      <3>1. i \in 0..n /\ i # 0 BY <1>1
      <3>2. g[i] = (IF i = 0 THEN s ELSE Then(g[i - 1], i)) BY <3>1, <1>8
      <3>3. step[<<g[i - 1], i>>] = Then(g[i - 1], i) BY <2>2
      <3> QED BY <3>1, <3>2, <3>3
    <2> HIDE DEF Passes, step
    <2>3. Follows(g, n, GoodAccounts, s, step) BY <2>1, <2>2 DEF Follows
    <2> QED BY <1>5, <2>3
  <1> HIDE DEF Passes
  <1>9. Execute(s, orders, rejected) = f[n] BY <1>2, <1>7, <1>8
  <1> QED BY <1>1, <1>9

\* What a handler posts.
Requests == [side : {"buy", "sell"}, role : {"entry", "exit"}]

\* A handler's requests become orders.
LEMMA OrdersOfType ==
  ASSUME NEW posts \in Posts, NEW pos \in Int, NEW bar \in Nat \ {0}
  PROVE  OrdersOf(posts, pos, bar) \in Seq(GoodOrders)
  <1> DEFINE r == [buy |-> Request("buy", "entry"), sell |-> Request("sell", "exit"),
                   short |-> Request("sell", "entry"), cover |-> Request("buy", "exit")]
  <1>1. posts \in Seq(Requests)
    <2>1. r.buy \in Requests /\ r.sell \in Requests /\ r.short \in Requests /\ r.cover \in Requests
      BY DEF Request, Requests
    <2>2. posts \in {<<>>, <<r.buy>>, <<r.sell>>, <<r.buy, r.buy>>, <<r.sell, r.short>>, <<r.cover, r.buy>>}
      BY DEF Posts
    <2>3. /\ <<>> \in Seq(Requests) /\ \A a \in Requests : <<a>> \in Seq(Requests)
          /\ \A a, b \in Requests : <<a, b>> \in Seq(Requests)
      OBVIOUS
    <2> HIDE DEF r
    <2> QED BY <2>1, <2>2, <2>3, Zenon
  <1>2. ASSUME NEW k \in DOMAIN posts
        PROVE  [id |-> <<bar, k>>, size |-> OrderSize(posts[k], pos)] \in GoodOrders
    <2>1. k \in Nat /\ posts[k] \in Requests BY <1>1
    <2>2. OrderSize(posts[k], pos) \in Int BY <2>1 DEF OrderSize, Requests
    <2>3. <<bar, k>> \in Ids /\ <<bar, k>> # NoEntry BY <2>1 DEF Ids, NoEntry
    <2> QED BY <2>2, <2>3 DEF GoodOrders, Orders
  <1> QED BY <1>1, <1>2 DEF OrdersOf

\* And so do all bars of a replay.
LEMMA AccountsInRoundTrips ==
  ASSUME NEW n \in Nat \ {0}, NEW posts \in [1..(n - 1) -> Posts], NEW rejected
  PROVE  Account(n, posts, rejected)[n - 1] \in GoodAccounts
  <1> DEFINE m == n - 1
             base == [pos |-> 0, fills |-> <<>>, pending |-> NoEntry, trades |-> <<>>]
             Then(a, i) == Execute(a, OrdersOf(posts[i], a.pos, i), rejected)
             step == [p \in GoodAccounts \X (1..m) |-> Then(p[1], p[2])]
             Passes(f) == f = [i \in 0..m |-> IF i = 0 THEN base ELSE Then(f[i - 1], i)]
  <1>1. m \in Nat OBVIOUS
  <1>2. base \in GoodAccounts
    <2>1. NoEntry \in Ids BY DEF NoEntry, Ids
    <2>2. base \in Accounts BY <2>1 DEF Accounts
    <2>3. base.trades = RoundTrips(base.fills, 0) BY DEF RoundTrips
    <2>4. Position(base.fills, 2 * 0) = 0
      <3>1. Position(<<>>, 0) = 0 BY PositionRecursion, <<>> \in Seq(Orders)
      <3> QED BY <3>1
    <2> QED BY <2>2, <2>3, <2>4 DEF GoodAccounts, InRoundTrips
  <1>3. Account(n, posts, rejected) = (CHOOSE g : Passes(g)) BY DEF Account
  <1>4. ASSUME NEW i \in 1..m, NEW a \in GoodAccounts PROVE Then(a, i) \in GoodAccounts
    <2>1. a.pos \in Int BY DEF GoodAccounts, Accounts
    <2>2. OrdersOf(posts[i], a.pos, i) \in Seq(GoodOrders) BY <2>1, OrdersOfType
    <2> QED BY <2>2, ExecuteInRoundTrips
  <1> HIDE DEF m, Then, base
  <1>5. step \in [GoodAccounts \X (1..m) -> GoodAccounts] BY <1>4
  <1>6. PICK f \in [0..m -> GoodAccounts] : /\ Follows(f, m, GoodAccounts, base, step)
                                       /\ \A g : Follows(g, m, GoodAccounts, base, step) => g = f
    <2> HIDE DEF step
    <2> QED BY <1>1, <1>2, <1>5, Recursion
  <1>7. \A i \in 1..m : step[<<f[i - 1], i>>] = Then(f[i - 1], i)
    BY <1>1
  <1>8. Passes(f)
    <2> HIDE DEF step
    <2>1. f[0] = base /\ \A i \in 1..m : f[i] = Then(f[i - 1], i)
      <3>1. f[0] = base BY <1>1, <1>6 DEF Follows
      <3>2. ASSUME NEW i \in 1..m PROVE f[i] = Then(f[i - 1], i)
        <4>1. f[i - 1] \in GoodAccounts BY <1>1
        <4>2. f[i] = step[<<f[i - 1], i>>] BY <4>1, <1>6 DEF Follows
        <4> QED BY <4>2, <1>7
      <3> QED BY <3>1, <3>2
    <2>2. \A i \in 0..m : f[i] = IF i = 0 THEN base ELSE Then(f[i - 1], i)
      BY <1>1, <2>1
    <2> QED BY <2>2
  <1>9. ASSUME NEW g, Passes(g) PROVE g = f
    <2>1. g = [i \in 0..m |-> g[i]] /\ g[0] = base BY <1>1, <1>9
    <2>2. ASSUME NEW i \in 1..m, g[i - 1] \in GoodAccounts PROVE g[i] = step[<<g[i - 1], i>>]
      <3>1. i \in 0..m /\ i # 0 BY <1>1
      <3>2. g[i] = (IF i = 0 THEN base ELSE Then(g[i - 1], i)) BY <3>1, <1>9
      <3>3. step[<<g[i - 1], i>>] = Then(g[i - 1], i) BY <2>2
      <3> QED BY <3>1, <3>2, <3>3
    <2> HIDE DEF Passes, step
    <2>3. Follows(g, m, GoodAccounts, base, step) BY <2>1, <2>2 DEF Follows
    <2> QED BY <1>6, <2>3
  <1> HIDE DEF Passes
  <1>10. Account(n, posts, rejected) = f BY <1>3, <1>8, <1>9
  <1> QED BY <1>1, <1>10 DEF m

\* The trades of a replay are the round trips of its fills.
LEMMA PlaysInRoundTrips ==
  ASSUME NEW n \in 1..MaxRows, NEW p \in Plays[n], NeverShort(p.fills)
  PROVE  p.trades = [k \in 1..(Len(p.fills) \div 2) |-> <<p.fills[2 * k - 1].id, p.fills[2 * k].id>>]
  <1>1. MaxRows \in Nat BY ReplayAssumption
  <1>2. PICK posts \in [1..(n - 1) -> Posts], rejected \in SUBSET ((1..(n - 1)) \X {1, 2}) :
          p = Play(n, posts, rejected)
    BY DEF Plays
  <1> DEFINE end == Account(n, posts, rejected)[n - 1]
  <1>3. end \in GoodAccounts BY <1>1, AccountsInRoundTrips, n \in Nat \ {0}
  <1>4. p.fills = end.fills /\ p.trades = end.trades BY <1>2 DEF Play
  <1> HIDE DEF end
  <1>5. PICK h \in Nat : /\ end.trades = RoundTrips(end.fills, h)
                         /\ Len(end.fills) = 2 * h \/ Len(end.fills) = 2 * h + 1
    BY <1>3, <1>4 DEF GoodAccounts, InRoundTrips
  <1>6. Len(end.fills) \div 2 = h
    <2>1. (2 * h) \div 2 = h /\ (2 * h + 1) \div 2 = h OBVIOUS
    <2> QED BY <1>5, <2>1
  <1> QED BY <1>4, <1>5, <1>6 DEF RoundTrips

\* A window has no more bars than rows.
LEMMA BarsInWindow ==
  ASSUME NEW w \in Windows
  PROVE  Bars(w) \in 0..MaxRows
  <1> DEFINE S == {i \in DOMAIN w : w[i] = "bar"}
  <1>1. MaxRows \in Nat /\ S \in SUBSET (1..MaxRows)
    BY ReplayAssumption DEF Windows
  <1>2. IsFiniteSet(1..MaxRows) /\ Cardinality(1..MaxRows) = MaxRows
    BY <1>1, FS_Interval
  <1> HIDE DEF S
  <1>3. IsFiniteSet(S) /\ Cardinality(S) <= MaxRows BY <1>1, <1>2, FS_Subset
  <1>4. Cardinality(S) \in Nat BY <1>3, FS_CardinalityType
  <1> QED BY <1>1, <1>3, <1>4 DEF Bars, S

------------------------------------------------------------------------------
\* What a run has computed is a replay of some window.
Computed == replay \in Replays \union {<<>>}

\* Segments and trades of such a replay are the bars' and the fills'.
LEMMA ComputedIsReported ==
  ASSUME Computed
  PROVE  ReplayIsReported
  <1> SUFFICES ASSUME replay # <<>> PROVE ReplayIsReported
    BY DEF ReplayIsReported, SegmentsAreTheBars, TradesAreRoundTrips
  <1>1. PICK w \in Windows :
          /\ Bars(w) > 0
          /\ \E p \in Plays[Bars(w)] :
               replay = [window |-> w, segments |-> Segments(w), fills |-> p.fills, trades |-> p.trades]
    BY DEF Computed, Replays
  <1> PICK p \in Plays[Bars(w)] :
        replay = [window |-> w, segments |-> Segments(w), fills |-> p.fills, trades |-> p.trades]
    BY <1>1
  <1>2. SegmentsAreTheBars
    <2>1. ToSet(Segments(w)) = Stretches(w)
          /\ \A p1, q1 \in DOMAIN Segments(w) : p1 < q1 => Segments(w)[p1][2] < Segments(w)[q1][1]
      BY <1>1, SegmentsAreStretches
    <2> QED BY <1>1, <2>1 DEF SegmentsAreTheBars, Stretches, IsBar
  <1>3. TradesAreRoundTrips
    <2>1. Bars(w) \in 1..MaxRows BY <1>1, BarsInWindow
    <2>2. NeverShort(p.fills) =>
            p.trades = [k \in 1..(Len(p.fills) \div 2) |-> <<p.fills[2 * k - 1].id, p.fills[2 * k].id>>]
      BY <1>1, <2>1, PlaysInRoundTrips
    <2> QED BY <1>1, <2>2 DEF TradesAreRoundTrips, NeverShort
  <1> QED BY <1>2, <1>3 DEF ReplayIsReported

\* runner.py:318-356, feeds.py:98-143: whatever is computed of a window of any
\* length, the segments of the result are the maximal stretches of its bars, in
\* their order, and the trades of a strategy that is never short and never adds to
\* its position are its round trips.
THEOREM ReplaysAreReported == BacktestsSpec => []ReplayIsReported
  <1>1. BacktestsInit => Computed BY DEF BacktestsInit, Computed
  <1>2. Computed /\ [BacktestsNext]_backtestsVars => Computed'
    <2> SUFFICES ASSUME Computed, [BacktestsNext]_backtestsVars PROVE Computed' OBVIOUS
    <2>1. ASSUME NEW r \in Runs, Job(r) PROVE Computed'
      BY <2>1 DEF Job, Run, Computed
    <2>2. CASE Poll BY <2>2 DEF Poll, Computed
    <2>3. CASE Other BY <2>3 DEF Other, Computed
    <2>4. CASE UNCHANGED backtestsVars BY <2>4 DEF backtestsVars, Computed
    <2> QED BY <2>1, <2>2, <2>3, <2>4 DEF BacktestsNext
  <1>3. Computed => ReplayIsReported BY ComputedIsReported
  <1> QED BY <1>1, <1>2, <1>3, PTL DEF BacktestsSpec
------------------------------------------------------------------------------
\* The jobs and the entries of the results.
Jobs == [at : {"idle", "posted"} \union Alive \union Over, hash : 0..MaxVersions, curve : BOOLEAN]
Entries == [run : Runs, status : {"running", "done", "failed"}]

\* The types, those of the jobs and the tables in full.
Typed ==
  /\ file \in 0..MaxVersions
  /\ jobs \in [Runs -> Jobs]
  /\ results \in Seq(Entries) /\ Len(results) <= MaxResults
  /\ \A i, j \in DOMAIN results : results[i].run = results[j].run => i = j
  /\ snapshots \subseteq 1..MaxVersions /\ equityRows \subseteq Runs
  /\ runRows \subseteq [run : Runs, hash : 1..MaxVersions]
  /\ asked \in {0} \union Runs /\ store \in {0} \union Runs /\ shown \in {0} \union Runs
  /\ poll \in [run : {0} \union Runs, answer : {"none", "running", "done", "failed", "error"}]

\* The run has a row in backtest_runs.
HasRow(r) == \E row \in runRows : row.run = r

\* What a job has written when it is at a stage.
Written ==
  \A r \in Runs :
    /\ jobs[r].at \in Alive \ {"started"} => jobs[r].hash # 0
    /\ jobs[r].at \in {"row", "equity", "report"} => jobs[r].hash \in snapshots
    /\ jobs[r].at \in {"equity", "report"} => HasRow(r)
    /\ jobs[r].at = "report" /\ jobs[r].curve => r \in equityRows

\* A run that is over for good with its rows in the tables.
Finished(r) == jobs[r].at = "ended" /\ Stored(r)

\* A run called running has its task; one called over has none left.
Entered ==
  \A i \in DOMAIN results :
    LET r == results[i].run  status == results[i].status
    IN /\ status = "running" => jobs[r].at \in Alive
       /\ status = "failed" => jobs[r].at = "ended"
       /\ status = "done" => Finished(r)

\* What the page draws, or is about to.
Drawn ==
  /\ shown # 0 => Finished(shown)
  /\ poll.answer = "done" => poll.run # 0 /\ Finished(poll.run)

\* The inductive invariant: what the properties say, with what was written at
\* each stage and what the page is about to draw.
Recorded == Typed /\ RunsHaveASource /\ Written /\ Entered /\ Drawn

\* No task ends without its entry, and what ended stays as it is.
Progress ==
  \A r \in Runs : /\ jobs[r].at \in Alive => jobs'[r].at \in Alive
                  /\ jobs[r].at = "ended" => jobs'[r] = jobs[r]

\* No row is taken out of a table.
RowsKept == runRows \subseteq runRows' /\ equityRows \subseteq equityRows'

\* What is assumed of the constants.
LEMMA Consts == {MaxResults, SampleEvery} \subseteq Nat \ {0} /\ MaxVersions \in Nat \ {0}
  BY BacktestsAssumption

\* A run that ended keeps its rows.
LEMMA FinishedKept ==
  ASSUME NEW r, Finished(r), jobs'[r] = jobs[r], RowsKept
  PROVE  Finished(r)'
  BY DEF Finished, Stored, RowsKept

\* The entries fit the jobs while no task ends.
LEMMA EnteredKept ==
  ASSUME Typed, Entered, Progress, RowsKept, UNCHANGED results
  PROVE  Entered'
  <1> SUFFICES ASSUME NEW i \in DOMAIN results
               PROVE  /\ results[i].status = "running" => jobs'[results[i].run].at \in Alive
                      /\ results[i].status = "failed" => jobs'[results[i].run].at = "ended"
                      /\ results[i].status = "done" => Finished(results[i].run)'
    <2>1. results' = results OBVIOUS
    <2> QED BY <2>1 DEF Entered, Finished, Stored
  <1> DEFINE r == results[i].run
  <1>1. r \in Runs
    <2>1. results[i] \in Entries BY DEF Typed
    <2> QED BY <2>1 DEF Entries
  <1>2. /\ results[i].status = "running" => jobs[r].at \in Alive
        /\ results[i].status = "failed" => jobs[r].at = "ended"
        /\ results[i].status = "done" => Finished(r)
    BY DEF Entered
  <1>3. Finished(r) => jobs[r].at = "ended" BY DEF Finished
  <1>4. /\ jobs[r].at \in Alive => jobs'[r].at \in Alive
        /\ jobs[r].at = "ended" => jobs'[r] = jobs[r]
    BY <1>1 DEF Progress
  <1>5. Finished(r) => Finished(r)' BY <1>3, <1>4, FinishedKept
  <1> QED BY <1>2, <1>4, <1>5

\* What is drawn stays recorded while nothing new is answered.
LEMMA DrawnKept ==
  ASSUME Typed, Drawn, \A r \in Runs : jobs[r].at = "ended" => jobs'[r] = jobs[r],
         RowsKept, UNCHANGED <<shown, poll>>
  PROVE  Drawn'
  <1>1. \A r \in Runs : Finished(r) => Finished(r)'
    <2>1. \A r : Finished(r) => jobs[r].at = "ended" BY DEF Finished
    <2> QED BY <2>1, FinishedKept
  <1>2. shown \in {0} \union Runs /\ poll.run \in {0} \union Runs BY DEF Typed
  <1>3. Finished(shown) /\ shown # 0 => Finished(shown)' BY <1>1, <1>2
  <1>4. Finished(poll.run) /\ poll.run # 0 => Finished(poll.run)' BY <1>1, <1>2
  <1>5. shown' = shown /\ poll' = poll OBVIOUS
  <1>6. shown' # 0 => Finished(shown)'
    BY <1>3, <1>5 DEF Drawn
  <1>7. poll'.answer = "done" => poll'.run # 0 /\ Finished(poll.run)'
    BY <1>4, <1>5 DEF Drawn
  <1> QED BY <1>6, <1>7 DEF Drawn

\* _put_result leaves one entry of the run, with its status, and of the other
\* runs what they had or nothing.
LEMMA PutResult ==
  ASSUME Typed, NEW r \in Runs, NEW status \in {"running", "done", "failed"}, Put(r, status)
  PROVE  /\ results' \in Seq(Entries) /\ Len(results') <= MaxResults
         /\ \A i, j \in DOMAIN results' : results'[i].run = results'[j].run => i = j
         /\ \A i \in DOMAIN results' :
              \/ results'[i] = [run |-> r, status |-> status]
              \/ results'[i].run # r /\ \E j \in DOMAIN results : results'[i] = results[j]
  <1> DEFINE entry == [run |-> r, status |-> status]
             put == IF Entry(r) = {} THEN Append(results, entry)
                    ELSE [i \in DOMAIN results |-> IF i \in Entry(r) THEN entry ELSE results[i]]
             n == Len(results)
  <1>1. /\ entry \in Entries /\ results \in Seq(Entries) /\ n \in Nat /\ n <= MaxResults
        /\ DOMAIN results = 1..n
        /\ \A i, j \in DOMAIN results : results[i].run = results[j].run => i = j
    BY DEF Typed, Entries
  <1>2. \A i \in 1..n : results[i].run = r <=> i \in Entry(r) BY <1>1 DEF Entry
  <1>3. results' = IF Len(put) > MaxResults THEN Tail(put) ELSE put BY DEF Put
  <1>4. /\ put \in Seq(Entries) /\ Len(put) <= n + 1 /\ DOMAIN put = 1..Len(put) /\ Len(put) >= 1
        /\ \A i, j \in DOMAIN put : put[i].run = put[j].run => i = j
        /\ \A i \in DOMAIN put :
              \/ put[i] = entry
              \/ put[i].run # r /\ \E j \in DOMAIN results : put[i] = results[j]
    <2>1. CASE Entry(r) = {}
      <3>1. /\ put = Append(results, entry) /\ put \in Seq(Entries) /\ Len(put) = n + 1
            /\ put[n + 1] = entry /\ \A i \in 1..n : put[i] = results[i]
        BY <1>1, <2>1
      <3> HIDE DEF put, n
      <3>2. DOMAIN put = 1..(n + 1) BY <3>1
      <3>3. \A i \in 1..(n + 1) : i \in 1..n \/ i = n + 1 BY <1>1
      <3>4. entry.run = r OBVIOUS
      <3> HIDE DEF entry
      <3> QED BY <1>1, <1>2, <2>1, <3>1, <3>2, <3>3, <3>4
    <2>2. CASE Entry(r) # {}
      <3>1. /\ DOMAIN put = 1..n
            /\ \A i \in 1..n : put[i] = IF i \in Entry(r) THEN entry ELSE results[i]
        BY <1>1, <2>2
      <3>2. put = [i \in 1..n |-> put[i]] BY <1>1, <2>2
      <3>3. n >= 1 BY <2>2, <1>1 DEF Entry
      <3>4. entry.run = r OBVIOUS
      <3> HIDE DEF put, entry, n
      <3>5. \A i \in 1..n : put[i] \in Entries /\ put[i].run = results[i].run
        BY <1>1, <1>2, <3>1, <3>4
      <3>6. put \in Seq(Entries) /\ Len(put) = n BY <1>1, <3>2, <3>5
      <3>7. \A i \in 1..n : put[i] = entry \/ (put[i].run # r /\ put[i] = results[i])
        BY <1>2, <3>1
      <3> QED BY <1>1, <3>1, <3>3, <3>5, <3>6, <3>7
    <2> QED BY <2>1, <2>2
  <1> HIDE DEF put, entry
  <1>5. CASE ~(Len(put) > MaxResults) BY <1>1, <1>3, <1>4, <1>5, Consts DEF entry
  <1>6. CASE Len(put) > MaxResults
    <2> DEFINE m == Len(put)
    <2>1. /\ results' = Tail(put) /\ m \in Nat /\ m = n + 1 /\ Len(results') = m - 1
          /\ results' \in Seq(Entries) /\ \A i \in 1..(m - 1) : results'[i] = put[i + 1]
      <3>1. results' = Tail(put) /\ put \in Seq(Entries) /\ put # <<>>
        BY <1>3, <1>4, <1>6
      <3>2. m \in Nat /\ m = n + 1
        <4>1. m \in Nat BY <3>1
        <4>2. n \in Nat /\ n <= MaxResults /\ MaxResults \in Nat BY <1>1, Consts
        <4>3. m <= n + 1 /\ m > MaxResults BY <1>4, <1>6
        <4> HIDE DEF m, n
        <4> QED BY <4>1, <4>2, <4>3
      <3>3. results' \in Seq(Entries) /\ Len(results') = m - 1 BY <3>1
      <3>4. \A i \in 1..(m - 1) : results'[i] = put[i + 1] BY <3>1
      <3> QED BY <3>1, <3>2, <3>3, <3>4
    <2>2. DOMAIN results' = 1..(m - 1) BY <2>1
    <2>3. \A i \in 1..(m - 1) : i + 1 \in DOMAIN put BY <1>4, <2>1
    <2> HIDE DEF m, n
    <2>4. \A i, j \in 1..(m - 1) : results'[i].run = results'[j].run => i = j
      BY <1>4, <2>1, <2>3
    <2>5. \A i \in 1..(m - 1) :
              \/ results'[i] = entry
              \/ results'[i].run # r /\ \E j \in DOMAIN results : results'[i] = results[j]
      BY <1>4, <2>1, <2>3
    <2>6. Len(results') <= MaxResults BY <1>1, <2>1, Consts
    <2> QED BY <2>1, <2>2, <2>4, <2>5, <2>6 DEF entry
  <1> QED BY <1>5, <1>6

\* The entries after one is put: that of the run fits its job, the others did.
LEMMA EnteredAfterPut ==
  ASSUME Typed, Entered, NEW r \in Runs, NEW status \in {"running", "done", "failed"}, Put(r, status),
         \A q \in Runs \ {r} : jobs'[q] = jobs[q], RowsKept,
         status = "running" => jobs'[r].at \in Alive,
         status = "failed" => jobs'[r].at = "ended",
         status = "done" => Finished(r)'
  PROVE  Entered'
  <1> SUFFICES ASSUME NEW i \in DOMAIN results'
               PROVE  /\ results'[i].status = "running" => jobs'[results'[i].run].at \in Alive
                      /\ results'[i].status = "failed" => jobs'[results'[i].run].at = "ended"
                      /\ results'[i].status = "done" => Finished(results[i].run)'
    BY DEF Entered
  <1>1. CASE results'[i] = [run |-> r, status |-> status]
    <2>1. results'[i].run = r /\ results'[i].status = status BY <1>1
    <2>2. Finished(results[i].run)' <=> Finished(r)' BY <2>1 DEF Finished, Stored
    <2> QED BY <2>1, <2>2
  <1>2. CASE results'[i].run # r /\ \E j \in DOMAIN results : results'[i] = results[j]
    <2>1. PICK j \in DOMAIN results : results'[i] = results[j] BY <1>2
    <2>2. PICK q \in Runs : q # r /\ results[j].run = q /\ results'[i].run = q
      <3>1. results[j] \in Entries BY DEF Typed
      <3> QED BY <1>2, <2>1, <3>1 DEF Entries
    <2>3. /\ results[j].status = "running" => jobs[q].at \in Alive
          /\ results[j].status = "failed" => jobs[q].at = "ended"
          /\ results[j].status = "done" => Finished(q)
      BY <2>2 DEF Entered, Finished, Stored
    <2>4. jobs'[q] = jobs[q] BY <2>2
    <2>5. Finished(q) => Finished(q)' BY <2>4, FinishedKept
    <2>6. Finished(results[i].run)' <=> Finished(q)'
      BY <2>2, <2>4 DEF Finished, Stored
    <2> QED BY <2>1, <2>2, <2>3, <2>4, <2>5, <2>6
  <1> QED BY <1>1, <1>2, PutResult

\* A job with a new stage and all else the same.
LEMMA JobMoves ==
  ASSUME jobs \in [Runs -> Jobs], NEW r \in Runs, NEW to, jobs' = [jobs EXCEPT ![r].at = to]
  PROVE  jobs' = [jobs EXCEPT ![r] = [at |-> to, hash |-> jobs[r].hash, curve |-> jobs[r].curve]]
  <1>1. jobs[r] = [at |-> jobs[r].at, hash |-> jobs[r].hash, curve |-> jobs[r].curve]
    <2>1. jobs[r] \in Jobs OBVIOUS
    <2> QED BY <2>1 DEF Jobs
  <1>2. [jobs[r] EXCEPT !.at = to] = [at |-> to, hash |-> jobs[r].hash, curve |-> jobs[r].curve]
    BY <1>1
  <1>3. jobs' = [jobs EXCEPT ![r] = [jobs[r] EXCEPT !.at = to]] OBVIOUS
  <1> QED BY <1>2, <1>3

\* A job at a stage has written what it should, whatever the others do to the
\* tables.
WrittenBy(r) ==
  /\ jobs[r].at \in Alive \ {"started"} => jobs[r].hash # 0
  /\ jobs[r].at \in {"row", "equity", "report"} => jobs[r].hash \in snapshots
  /\ jobs[r].at \in {"equity", "report"} => HasRow(r)
  /\ jobs[r].at = "report" /\ jobs[r].curve => r \in equityRows

\* What the jobs have written stays written.
LEMMA WrittenKept ==
  ASSUME Written, NEW r \in Runs, \A q \in Runs \ {r} : jobs'[q] = jobs[q],
         RowsKept, snapshots \subseteq snapshots', WrittenBy(r)'
  PROVE  Written'
  <1> SUFFICES ASSUME NEW q \in Runs PROVE WrittenBy(q)'
    BY DEF Written, WrittenBy, HasRow
  <1>1. CASE q = r BY <1>1
  <1>2. CASE q # r
    <2>1. WrittenBy(q) /\ jobs'[q] = jobs[q] BY <1>2 DEF Written, WrittenBy
    <2> QED BY <2>1 DEF WrittenBy, HasRow, RowsKept
  <1> QED BY <1>1, <1>2

\* What the other steps of a job leave alone.
LEMMA JobSteps ==
  ASSUME Recorded, NEW r \in Runs, NEW j \in Jobs, jobs' = [jobs EXCEPT ![r] = j],
         jobs[r].at # "ended",
         RowsKept, snapshots \subseteq snapshots', WrittenBy(r)',
         UNCHANGED <<shown, poll>>
  PROVE  /\ jobs' \in [Runs -> Jobs] /\ Written' /\ Drawn' /\ jobs'[r] = j
         /\ \A q \in Runs \ {r} : jobs'[q] = jobs[q]
  <1>1. jobs \in [Runs -> Jobs] BY DEF Recorded, Typed
  <1>2. jobs' \in [Runs -> Jobs] /\ jobs'[r] = j /\ \A q \in Runs \ {r} : jobs'[q] = jobs[q]
    BY <1>1
  <1>3. Written' BY <1>2, WrittenKept DEF Recorded
  <1>4. \A q \in Runs : jobs[q].at = "ended" => jobs'[q] = jobs[q] BY <1>2
  <1>5. Drawn' BY <1>4, DrawnKept DEF Recorded
  <1> QED BY <1>2, <1>3, <1>5

\* A step of a run that leaves the entries alone.
LEMMA RunSteps ==
  ASSUME Recorded, NEW r \in Runs, NEW j \in Jobs, jobs' = [jobs EXCEPT ![r] = j],
         jobs[r].at \in {"idle", "posted"} \/ (jobs[r].at \in Alive /\ j.at \in Alive),
         snapshots \subseteq snapshots' /\ snapshots' \subseteq 1..MaxVersions,
         RowsKept, equityRows' \subseteq Runs, runRows' \subseteq [run : Runs, hash : snapshots'],
         WrittenBy(r)', UNCHANGED <<file, results, store, polling, poll, shown>>, asked' \in {0, asked, r}
  PROVE  Recorded'
  <1>1. jobs[r].at # "ended" BY DEF Alive
  <1>2. /\ jobs' \in [Runs -> Jobs] /\ Written' /\ Drawn' /\ jobs'[r] = j
        /\ \A q \in Runs \ {r} : jobs'[q] = jobs[q]
    BY <1>1, JobSteps
  <1>3. Progress BY <1>1, <1>2 DEF Progress, Alive
  <1>4. Entered' BY <1>3, EnteredKept DEF Recorded
  <1>5. RunsHaveASource' /\ runRows' \subseteq [run : Runs, hash : 1..MaxVersions]
    BY DEF RunsHaveASource
  <1>6. Typed' BY <1>2, <1>5 DEF Recorded, Typed
  <1> QED BY <1>2, <1>4, <1>5, <1>6 DEF Recorded

\* A step that puts an outcome of the run.
LEMMA RunPuts ==
  ASSUME Recorded, NEW r \in Runs, NEW j \in Jobs, jobs' = [jobs EXCEPT ![r] = j],
         NEW status \in {"running", "done", "failed"}, Put(r, status),
         jobs[r].at # "ended",
         status = "running" => j.at \in Alive,
         status # "running" => j.at = "ended",
         status = "done" => Finished(r)',
         snapshots \subseteq snapshots' /\ snapshots' \subseteq 1..MaxVersions,
         RowsKept, equityRows' = equityRows, runRows' \subseteq [run : Runs, hash : snapshots'],
         WrittenBy(r)', UNCHANGED <<file, asked, store, polling, poll, shown>>
  PROVE  Recorded'
  <1>2. /\ jobs' \in [Runs -> Jobs] /\ Written' /\ Drawn' /\ jobs'[r] = j
        /\ \A q \in Runs \ {r} : jobs'[q] = jobs[q]
    BY JobSteps
  <1>3. Typed /\ Entered BY DEF Recorded
  <1>4. Entered' BY <1>2, <1>3, EnteredAfterPut
  <1>5. RunsHaveASource' /\ runRows' \subseteq [run : Runs, hash : 1..MaxVersions]
    BY DEF RunsHaveASource
  <1>6. /\ results' \in Seq(Entries) /\ Len(results') <= MaxResults
        /\ \A i, k \in DOMAIN results' : results'[i].run = results'[k].run => i = k
    BY <1>3, PutResult
  <1>7. Typed' BY <1>2, <1>3, <1>5, <1>6 DEF Typed
  <1> QED BY <1>2, <1>4, <1>5, <1>7 DEF Recorded

\* The rows there are name hashes that were written.
LEMMA RowsTyped ==
  ASSUME Recorded
  PROVE  runRows \subseteq [run : Runs, hash : snapshots]
  <1> SUFFICES ASSUME NEW row \in runRows PROVE row \in [run : Runs, hash : snapshots] OBVIOUS
  <1>1. row \in [run : Runs, hash : 1..MaxVersions] /\ row.hash \in snapshots
    BY DEF Recorded, Typed, RunsHaveASource
  <1> QED BY <1>1

\* A step of the page that leaves the service alone.
LEMMA PageSteps ==
  ASSUME Recorded, UNCHANGED service, file' \in 0..MaxVersions,
         asked' \in {0} \union Runs, store' \in {0} \union Runs,
         poll' \in [run : {0} \union Runs, answer : {"none", "running", "done", "failed", "error"}],
         shown' \in {0} \union Runs,
         shown' # 0 => Finished(shown'),
         poll'.answer = "done" => poll'.run # 0 /\ Finished(poll'.run)
  PROVE  Recorded'
  <1>1. UNCHANGED <<jobs, results, snapshots, runRows, equityRows>>
    BY DEF service, tables
  <1>2. Typed' BY <1>1 DEF Recorded, Typed
  <1>3. \A r : Finished(r) => Finished(r)' BY <1>1 DEF Finished, Stored
  <1>4. RunsHaveASource' /\ Written'
    BY <1>1 DEF Recorded, RunsHaveASource, Written, HasRow
  <1>5. Progress /\ RowsKept BY <1>1 DEF Progress, RowsKept
  <1>6. Entered' BY <1>1, <1>5, EnteredKept DEF Recorded
  <1>7. Drawn' BY <1>1 DEF Drawn, Finished, Stored
  <1> QED BY <1>2, <1>4, <1>6, <1>7 DEF Recorded

\* A job of the run whose entry is put when it ends.
LEMMA ConcludeSteps ==
  ASSUME Recorded, NEW r \in Runs, NEW status \in {"done", "failed"}, Conclude(r, status),
         jobs[r].at \in Alive, status = "done" => Stored(r),
         snapshots \subseteq snapshots' /\ snapshots' \subseteq 1..MaxVersions,
         RowsKept, equityRows' = equityRows, runRows' \subseteq [run : Runs, hash : snapshots'],
         UNCHANGED <<file, page>>
  PROVE  Recorded'
  <1> DEFINE j == [at |-> "ended", hash |-> 0, curve |-> jobs[r].curve]
  <1>1. jobs' = [jobs EXCEPT ![r] = j] /\ Put(r, status) BY DEF Conclude
  <1>2. jobs \in [Runs -> Jobs] /\ MaxVersions \in Nat
    BY Consts DEF Recorded, Typed
  <1>3. j \in Jobs BY <1>2 DEF Jobs, Over
  <1>4. jobs'[r] = j BY <1>1, <1>2
  <1>5. WrittenBy(r)' BY <1>4 DEF WrittenBy, Alive
  <1>6. Stored(r) => Finished(r)' BY <1>4 DEF Finished, Stored, RowsKept
  <1>7. jobs[r].at # "ended" /\ j.at = "ended" BY DEF Alive
  <1>8. UNCHANGED <<file, asked, store, polling, poll, shown>> BY DEF page
  <1> HIDE DEF j
  <1> QED BY <1>1, <1>3, <1>5, <1>6, <1>7, <1>8, RunPuts

\* Every step of a job.
LEMMA JobKeepsRecorded ==
  ASSUME Recorded, NEW r \in Runs, Job(r)
  PROVE  Recorded'
  <1>1. /\ jobs \in [Runs -> Jobs] /\ jobs[r] \in Jobs /\ MaxVersions \in Nat \ {0} /\ file \in 0..MaxVersions
        /\ snapshots \subseteq 1..MaxVersions /\ equityRows \subseteq Runs
        /\ WrittenBy(r) /\ runRows \subseteq [run : Runs, hash : snapshots]
    BY Consts, RowsTyped DEF Recorded, Typed, Written, WrittenBy
  <1>2. jobs[r].hash \in 0..MaxVersions /\ jobs[r].curve \in BOOLEAN
    BY <1>1 DEF Jobs
  <1>3. CASE Run(r)
    <2> DEFINE w == Bars(replay'.window) >= SampleEvery
    <2>0. w \in BOOLEAN
      <3>1. replay'.window \in Windows BY <1>3 DEF Run, Replays
      <3>2. Bars(replay'.window) \in 0..MaxRows BY <3>1, BarsInWindow
      <3> QED BY <3>2, Consts, ReplayAssumption
    <2> DEFINE j == [at |-> "replayed", hash |-> file, curve |-> w]
    <2>6. jobs' = [jobs EXCEPT ![r] = j] BY <1>3 DEF Run
    <2> HIDE DEF w
    <2>1. j \in Jobs BY <1>1, <2>0 DEF Jobs, Alive
    <2>2. jobs'[r] = j BY <1>1, <2>6
    <2>3. WrittenBy(r)' BY <2>2, <1>3 DEF WrittenBy, Run
    <2>4. UNCHANGED <<file, results, asked, store, polling, poll, shown, snapshots, runRows, equityRows>>
      BY <1>3 DEF Run, page, tables
    <2>5. jobs[r].at \in Alive /\ j.at \in Alive BY <1>3 DEF Run, Alive
    <2> HIDE DEF j
    <2> QED BY <1>1, <2>1, <2>3, <2>4, <2>5, <2>6, RunSteps DEF RowsKept
  <1>4. CASE Accept(r)
    <2> DEFINE j == [at |-> "started", hash |-> jobs[r].hash, curve |-> jobs[r].curve]
    <2>1. j \in Jobs BY <1>1 DEF Jobs, Alive
    <2>2. jobs' = [jobs EXCEPT ![r] = j] BY <1>1, JobMoves, <1>4 DEF Accept
    <2>3. jobs'[r] = j BY <1>1, <2>2
    <2>4. WrittenBy(r)' BY <2>3 DEF WrittenBy
    <2>5. UNCHANGED <<file, asked, store, polling, poll, shown, snapshots, runRows, equityRows>>
      BY <1>4 DEF Accept, page, tables
    <2>6. jobs[r].at # "ended" /\ j.at \in Alive /\ Put(r, "running")
      BY <1>4 DEF Accept, Alive
    <2> HIDE DEF j
    <2> QED BY <1>1, <2>1, <2>2, <2>4, <2>5, <2>6, RunPuts DEF RowsKept
  <1>5. CASE Refuse(r)
    <2> DEFINE j == [at |-> "refused", hash |-> jobs[r].hash, curve |-> jobs[r].curve]
    <2>1. j \in Jobs BY <1>1 DEF Jobs, Over
    <2>2. jobs' = [jobs EXCEPT ![r] = j] BY <1>1, JobMoves, <1>5 DEF Refuse, Moves
    <2>3. jobs'[r] = j BY <1>1, <2>2
    <2>4. WrittenBy(r)' BY <2>3 DEF WrittenBy, Alive
    <2>5. UNCHANGED <<file, results, asked, store, polling, poll, shown, snapshots, runRows, equityRows>>
      BY <1>5 DEF Refuse, page, tables
    <2>6. jobs[r].at \in {"idle", "posted"} BY <1>5 DEF Refuse, Moves
    <2> HIDE DEF j
    <2> QED BY <1>1, <2>1, <2>2, <2>4, <2>5, <2>6, RunSteps DEF RowsKept
  <1>6. CASE FileGone(r)
    <2>1. UNCHANGED <<file, page, snapshots, runRows, equityRows>>
      BY <1>6 DEF FileGone, tables
    <2>2. Conclude(r, "failed") /\ jobs[r].at \in Alive
      BY <1>6 DEF FileGone, Alive
    <2> QED BY <1>1, <2>1, <2>2, ConcludeSteps DEF RowsKept
  <1>7. CASE Report(r)
    <2>1. UNCHANGED <<file, page, snapshots, runRows, equityRows>>
      BY <1>7 DEF Report, tables
    <2>2. Conclude(r, "done") /\ jobs[r].at \in Alive /\ jobs[r].at = "report"
      BY <1>7 DEF Report, Alive
    <2>3. Stored(r) BY <1>1, <2>2 DEF Stored, WrittenBy, HasRow
    <2> QED BY <1>1, <2>1, <2>2, <2>3, ConcludeSteps DEF RowsKept
  <1>8. CASE LookForSnapshot(r)
    <2> PICK to \in {"snapshot", "row"} : /\ to = "row" => jobs[r].hash \in snapshots
                                          /\ jobs' = [jobs EXCEPT ![r].at = to]
      BY <1>8 DEF LookForSnapshot
    <2> DEFINE j == [at |-> to, hash |-> jobs[r].hash, curve |-> jobs[r].curve]
    <2>1. j \in Jobs BY <1>1 DEF Jobs, Alive
    <2>2. jobs' = [jobs EXCEPT ![r] = j] BY <1>1, JobMoves
    <2>3. jobs'[r] = j BY <1>1, <2>2
    <2>4. UNCHANGED <<file, results, asked, store, polling, poll, shown, snapshots, runRows, equityRows>>
      BY <1>8 DEF LookForSnapshot, page, tables
    <2>5. jobs[r].at = "replayed" BY <1>8 DEF LookForSnapshot
    <2>6. WrittenBy(r)' BY <1>1, <2>3, <2>4, <2>5 DEF WrittenBy, Alive
    <2>7. jobs[r].at \in Alive /\ j.at \in Alive BY <2>5 DEF Alive
    <2> HIDE DEF j
    <2> QED BY <1>1, <2>1, <2>2, <2>4, <2>6, <2>7, RunSteps DEF RowsKept
  <1>9. CASE WriteSnapshot(r)
    <2> DEFINE j == [at |-> "row", hash |-> jobs[r].hash, curve |-> jobs[r].curve]
    <2>1. j \in Jobs BY <1>1 DEF Jobs, Alive
    <2>2. jobs' = [jobs EXCEPT ![r] = j]
      BY <1>1, JobMoves, <1>9 DEF WriteSnapshot, Moves
    <2>3. jobs'[r] = j BY <1>1, <2>2
    <2>4. /\ UNCHANGED <<file, results, asked, store, polling, poll, shown, runRows, equityRows>>
          /\ snapshots' = snapshots \union {jobs[r].hash} /\ jobs[r].at = "snapshot"
      BY <1>9 DEF WriteSnapshot, Moves, page
    <2>5. jobs[r].hash \in 1..MaxVersions BY <1>1, <1>2, <2>4 DEF WrittenBy, Alive
    <2>6. WrittenBy(r)' BY <1>1, <2>3, <2>4, <2>5 DEF WrittenBy, Alive
    <2>7. jobs[r].at \in Alive /\ j.at \in Alive BY <2>4 DEF Alive
    <2>8. snapshots \subseteq snapshots' /\ snapshots' \subseteq 1..MaxVersions
      BY <1>1, <2>4, <2>5
    <2>9. runRows' \subseteq [run : Runs, hash : snapshots'] BY <1>1, <2>4, <2>8
    <2> HIDE DEF j
    <2> QED
      BY <1>1, <2>1, <2>2, <2>4, <2>6, <2>7, <2>8, <2>9, RunSteps DEF RowsKept
  <1>10. CASE WriteRun(r)
    <2> DEFINE to == IF jobs[r].curve THEN "equity" ELSE "report"
               j == [at |-> to, hash |-> jobs[r].hash, curve |-> jobs[r].curve]
    <2>1. j \in Jobs BY <1>1 DEF Jobs, Alive
    <2>2. jobs' = [jobs EXCEPT ![r] = j]
      BY <1>1, JobMoves, <1>10 DEF WriteRun, Moves
    <2>3. jobs'[r] = j BY <1>1, <2>2
    <2>4. /\ UNCHANGED <<file, results, asked, store, polling, poll, shown, snapshots, equityRows>>
          /\ runRows' = runRows \union {[run |-> r, hash |-> jobs[r].hash]} /\ jobs[r].at = "row"
      BY <1>10 DEF WriteRun, Moves, page
    <2>5. jobs[r].hash \in snapshots BY <1>1, <2>4 DEF WrittenBy
    <2>6. WrittenBy(r)'
      <3>1. HasRow(r)'
        <4>1. [run |-> r, hash |-> jobs[r].hash] \in runRows' BY <2>4
        <4>2. [run |-> r, hash |-> jobs[r].hash].run = r OBVIOUS
        <4> QED BY <4>1, <4>2 DEF HasRow
      <3>2. jobs[r].hash # 0 BY <1>1, <2>4 DEF WrittenBy, Alive
      <3> QED BY <2>3, <2>4, <2>5, <3>1, <3>2 DEF WrittenBy, Alive
    <2>7. jobs[r].at \in Alive /\ j.at \in Alive BY <2>4 DEF Alive
    <2>8. runRows' \subseteq [run : Runs, hash : snapshots'] /\ runRows \subseteq runRows'
      BY <1>1, <2>4, <2>5
    <2> HIDE DEF j
    <2> QED BY <1>1, <2>1, <2>2, <2>4, <2>6, <2>7, <2>8, RunSteps DEF RowsKept
  <1>11. CASE WriteEquity(r)
    <2> DEFINE j == [at |-> "report", hash |-> jobs[r].hash, curve |-> jobs[r].curve]
    <2>1. j \in Jobs BY <1>1 DEF Jobs, Alive
    <2>2. jobs' = [jobs EXCEPT ![r] = j]
      BY <1>1, JobMoves, <1>11 DEF WriteEquity, Moves
    <2>3. jobs'[r] = j BY <1>1, <2>2
    <2>4. /\ UNCHANGED <<file, results, asked, store, polling, poll, shown, snapshots, runRows>>
          /\ equityRows' = equityRows \union {r} /\ jobs[r].at = "equity"
      BY <1>11 DEF WriteEquity, Moves, page
    <2>5. WrittenBy(r)' BY <1>1, <2>3, <2>4 DEF WrittenBy, Alive, HasRow
    <2>6. jobs[r].at \in Alive /\ j.at \in Alive BY <2>4 DEF Alive
    <2> HIDE DEF j
    <2> QED BY <1>1, <2>1, <2>2, <2>4, <2>5, <2>6, RunSteps DEF RowsKept
  <1> QED BY <1>3, <1>4, <1>5, <1>6, <1>7, <1>8, <1>9, <1>10, <1>11 DEF Job

\* Every step of the poll.
LEMMA PollKeepsRecorded ==
  ASSUME Recorded, Poll
  PROVE  Recorded'
  <1>1. Typed /\ Drawn /\ Entered BY DEF Recorded
  <1>2. CASE Tick
    <2>1. /\ UNCHANGED <<file, service, asked, store, shown>>
          /\ poll' = poll \/ poll' = [run |-> store, answer |-> "none"]
      BY <1>2 DEF Tick
    <2>2. /\ poll' \in [run : {0} \union Runs, answer : {"none", "running", "done", "failed", "error"}]
          /\ poll'.answer = "done" => poll'.run # 0 /\ Finished(poll'.run)
      BY <1>1, <2>1 DEF Typed, Drawn
    <2> QED BY <1>1, <2>1, <2>2, PageSteps DEF Typed, Drawn
  <1>3. CASE Answer
    <2>1. UNCHANGED <<file, service, asked, store, shown>> /\ poll.run # 0
      BY <1>3 DEF Answer
    <2>2. PICK a \in {StatusOf(poll.run), "error"} : poll' = [poll EXCEPT !.answer = a]
      BY <1>3 DEF Answer
    <2>3. poll' = [run |-> poll.run, answer |-> a]
      BY <1>1, <2>2 DEF Typed
    <2>4. poll.run \in Runs BY <1>1, <2>1 DEF Typed
    <2>5. a = "error" \/ \E i \in DOMAIN results : results[i].run = poll.run /\ a = results[i].status
      <3>1. CASE Entry(poll.run) = {} BY <3>1, <2>2 DEF StatusOf
      <3>2. CASE Entry(poll.run) # {}
        <4>1. (CHOOSE i \in Entry(poll.run) : TRUE) \in Entry(poll.run) BY <3>2
        <4> QED BY <4>1, <3>2, <2>2 DEF StatusOf, Entry
      <3> QED BY <3>1, <3>2
    <2>6. a \in {"running", "done", "failed", "error"}
      <3>1. \A i \in DOMAIN results : results[i] \in Entries BY <1>1 DEF Typed
      <3> QED BY <3>1, <2>5 DEF Entries
    <2>7. a = "done" => Finished(poll.run)
      BY <1>1, <2>5 DEF Entered
    <2>8. poll' \in [run : {0} \union Runs, answer : {"none", "running", "done", "failed", "error"}]
      BY <2>3, <2>4, <2>6
    <2>9. poll'.answer = "done" => poll'.run # 0 /\ Finished(poll'.run)
      BY <2>1, <2>3, <2>7
    <2> QED BY <1>1, <2>1, <2>8, <2>9, PageSteps DEF Typed, Drawn
  <1>4. CASE PollReturns
    <2>1. UNCHANGED <<file, service, asked, store>> /\ poll' = NoPoll
          /\ shown' = IF poll.answer = "done" THEN poll.run ELSE shown
      BY <1>4 DEF PollReturns
    <2>2. poll' \in [run : {0} \union Runs, answer : {"none", "running", "done", "failed", "error"}]
          /\ poll'.answer # "done"
      BY <2>1 DEF NoPoll
    <2>3. shown' \in {0} \union Runs /\ (shown' # 0 => Finished(shown'))
      BY <1>1, <2>1 DEF Typed, Drawn
    <2> QED BY <1>1, <2>1, <2>2, <2>3, PageSteps DEF Typed
  <1> QED BY <1>2, <1>3, <1>4 DEF Poll

\* A restart forgets the results and the tasks together.
LEMMA RestartKeepsRecorded ==
  ASSUME Recorded, Restart
  PROVE  Recorded'
  <1>1. Typed /\ Drawn /\ RunsHaveASource BY DEF Recorded
  <1>2. /\ results' = <<>> /\ UNCHANGED <<file, snapshots, runRows, equityRows, asked, store, polling, poll, shown>>
        /\ jobs' = [r \in Runs |-> IF jobs[r].at \in {"posted"} \union Alive
                                   THEN [NewJob EXCEPT !.at = "lost"] ELSE jobs[r]]
    BY DEF Restart, tables, page
  <1>3. [NewJob EXCEPT !.at = "lost"] \in Jobs /\ [NewJob EXCEPT !.at = "lost"].at = "lost"
    <2>1. NewJob \in Jobs BY Consts DEF NewJob, Jobs
    <2>2. \A j \in Jobs : [j EXCEPT !.at = "lost"] \in Jobs /\ [j EXCEPT !.at = "lost"].at = "lost"
      BY DEF Jobs, Over
    <2> QED BY <2>1, <2>2
  <1>4. jobs' \in [Runs -> Jobs] BY <1>1, <1>2, <1>3 DEF Typed
  <1>5. \A r \in Runs : jobs'[r].at \notin Alive BY <1>2, <1>3 DEF Alive
  <1>6. \A r \in Runs : jobs[r].at = "ended" => jobs'[r] = jobs[r]
    BY <1>2 DEF Alive
  <1>7. Drawn' BY <1>1, <1>2, <1>6, DrawnKept DEF RowsKept
  <1>8. Written' BY <1>5 DEF Written, Alive
  <1>9. Typed' BY <1>1, <1>2, <1>4, Consts DEF Typed
  <1> QED BY <1>1, <1>2, <1>7, <1>8, <1>9 DEF Recorded, Entered, RunsHaveASource

\* A failure, whatever the write it interrupts left behind.
LEMMA BreakKeepsRecorded ==
  ASSUME Recorded, NEW r \in Runs, Break(r)
  PROVE  Recorded'
  <1>1. /\ jobs \in [Runs -> Jobs] /\ jobs[r] \in Jobs /\ MaxVersions \in Nat \ {0}
        /\ snapshots \subseteq 1..MaxVersions
        /\ WrittenBy(r) /\ runRows \subseteq [run : Runs, hash : snapshots]
    BY Consts, RowsTyped DEF Recorded, Typed, Written, WrittenBy
  <1>2. jobs[r].hash \in 0..MaxVersions BY <1>1 DEF Jobs
  <1>3. /\ jobs[r].at \in Alive /\ Conclude(r, "failed") /\ equityRows' = equityRows /\ UNCHANGED <<file, page>>
        /\ snapshots' = snapshots \/ (jobs[r].at = "snapshot" /\ snapshots' = snapshots \union {jobs[r].hash})
        /\ runRows' = runRows \/ (jobs[r].at = "row" /\ runRows' = runRows \union {[run |-> r, hash |-> jobs[r].hash]})
    BY DEF Break
  <1>4. jobs[r].at = "snapshot" => jobs[r].hash \in 1..MaxVersions
    BY <1>1, <1>2 DEF WrittenBy, Alive
  <1>5. jobs[r].at = "row" => jobs[r].hash \in snapshots BY <1>1 DEF WrittenBy
  <1>6. snapshots \subseteq snapshots' /\ snapshots' \subseteq 1..MaxVersions
    BY <1>1, <1>3, <1>4
  <1>7. runRows \subseteq runRows' /\ runRows' \subseteq [run : Runs, hash : snapshots']
    BY <1>1, <1>3, <1>5, <1>6
  <1> QED BY <1>3, <1>6, <1>7, ConcludeSteps DEF RowsKept

\* The user's steps, the file's and those of failures.
LEMMA OtherKeepsRecorded ==
  ASSUME Recorded, Other
  PROVE  Recorded'
  <1>1. /\ Typed /\ Drawn /\ jobs \in [Runs -> Jobs]
        /\ runRows \subseteq [run : Runs, hash : snapshots]
    BY RowsTyped DEF Recorded, Typed
  <1>2. CASE FileChanges
    <2>1. UNCHANGED <<service, asked, store, poll, shown>> /\ file' \in 0..MaxVersions
      BY <1>1, <1>2, Consts DEF FileChanges, page, Typed
    <2> QED BY <1>1, <2>1, PageSteps DEF Typed, Drawn
  <1>3. CASE Restart BY <1>3, RestartKeepsRecorded
  <1>4. CASE ClickIncomplete
    <2>1. UNCHANGED <<file, service, store, poll, shown>> /\ asked' = 0
      BY <1>4 DEF ClickIncomplete
    <2> QED BY <1>1, <2>1, PageSteps DEF Typed, Drawn
  <1>5. CASE ClickAnswered
    <2>1. UNCHANGED <<file, service, poll>> /\ asked' = 0 /\ store' = asked /\ shown' = 0
      BY <1>5 DEF ClickAnswered
    <2> QED BY <1>1, <2>1, PageSteps DEF Typed, Drawn
  <1>6. CASE ClickFails
    <2>1. UNCHANGED <<file, service, poll, shown>> /\ asked' = 0 /\ store' = 0
      BY <1>6 DEF ClickFails
    <2> QED BY <1>1, <2>1, PageSteps DEF Typed, Drawn
  <1>7. ASSUME NEW r \in Runs, Click(r) PROVE Recorded'
    <2> DEFINE j == [at |-> "posted", hash |-> jobs[r].hash, curve |-> jobs[r].curve]
    <2>1. j \in Jobs
      <3>1. jobs[r] \in Jobs BY <1>1
      <3> QED BY <3>1 DEF Jobs
    <2>2. jobs' = [jobs EXCEPT ![r] = j] BY <1>1, <1>7, JobMoves DEF Click
    <2>3. jobs'[r] = j BY <1>1, <2>2
    <2>4. WrittenBy(r)' BY <2>3 DEF WrittenBy, Alive
    <2>5. UNCHANGED <<file, results, store, polling, poll, shown, snapshots, runRows, equityRows>> /\ asked' = r
      BY <1>7 DEF Click, tables
    <2>6. jobs[r].at \in {"idle", "posted"} BY <1>7 DEF Click
    <2>7. snapshots \subseteq 1..MaxVersions /\ equityRows \subseteq Runs
      BY <1>1 DEF Typed
    <2> HIDE DEF j
    <2> QED BY <1>1, <2>1, <2>2, <2>4, <2>5, <2>6, <2>7, RunSteps DEF RowsKept
  <1>8. ASSUME NEW r \in Runs, Break(r) PROVE Recorded'
    BY <1>8, BreakKeepsRecorded
  <1> QED BY <1>2, <1>3, <1>4, <1>5, <1>6, <1>7, <1>8 DEF Other

\* main.py:356-395, 474-479: the inductive invariant of the jobs, the results, the
\* tables and the page, for any number of runs, versions, failures and restarts.
THEOREM RecordedAlways == BacktestsSpec => []Recorded
  <1>1. BacktestsInit => Recorded
    <2> SUFFICES ASSUME BacktestsInit PROVE Recorded OBVIOUS
    <2>1. Typed
      <3>1. NewJob \in Jobs BY Consts DEF NewJob, Jobs
      <3> QED BY <3>1, Consts DEF BacktestsInit, Typed, NoPoll
    <2>2. Written BY DEF BacktestsInit, Written, NewJob, Alive
    <2>3. Entered /\ RunsHaveASource
      BY DEF BacktestsInit, Entered, RunsHaveASource
    <2>4. Drawn BY DEF BacktestsInit, Drawn, NoPoll
    <2> QED BY <2>1, <2>2, <2>3, <2>4 DEF Recorded
  <1>2. Recorded /\ [BacktestsNext]_backtestsVars => Recorded'
    <2> SUFFICES ASSUME Recorded, [BacktestsNext]_backtestsVars PROVE Recorded' OBVIOUS
    <2>1. ASSUME NEW r \in Runs, Job(r) PROVE Recorded' BY <2>1, JobKeepsRecorded
    <2>2. CASE Poll BY <2>2, PollKeepsRecorded
    <2>3. CASE Other BY <2>3, OtherKeepsRecorded
    <2>4. CASE UNCHANGED backtestsVars
      <3>1. UNCHANGED <<service, file, asked, store, poll, shown>>
        BY <2>4 DEF backtestsVars, page
      <3> QED BY <3>1, PageSteps DEF Recorded, Typed, Drawn
    <2> QED BY <2>1, <2>2, <2>3, <2>4 DEF BacktestsNext
  <1> QED BY <1>1, <1>2, PTL DEF BacktestsSpec

\* main.py:356-395, callbacks_backtest.py:226-252: what the tables, the service and
\* the page say of a run is true, whatever restarts, fails or runs beside it.
THEOREM RunsRecorded == BacktestsSpec => []RunsAreRecorded
  <1>1. Recorded => RunsAreRecorded
    <2> SUFFICES ASSUME Recorded PROVE RunsAreRecorded OBVIOUS
    <2>1. BacktestsTypeOK
      <3>1. \A r \in Runs : jobs[r] \in Jobs BY DEF Recorded, Typed
      <3>2. \A i \in DOMAIN results : results[i] \in Entries
        BY DEF Recorded, Typed
      <3> QED BY <3>1, <3>2 DEF Recorded, Typed, Jobs, Entries, BacktestsTypeOK
    <2>2. DoneIsStored BY DEF Recorded, Entered, Drawn, Finished, DoneIsStored
    <2>3. RunningHasATask BY DEF Recorded, Entered, RunningHasATask
    <2> QED BY <2>1, <2>2, <2>3 DEF RunsAreRecorded, Recorded
  <1> QED BY <1>1, RecordedAlways, PTL
==============================================================================
