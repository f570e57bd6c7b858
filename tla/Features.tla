------------------------------- MODULE Features -------------------------------
(***************************************************************************)
(* The feature store of one market in the model service: extraction         *)
(* (features/extractor.py), labels (labels/generator.py), clusters          *)
(* (clustering/pipeline.py) and what a training makes of them               *)
(* (training/trainer.py), through the handlers of main.py.                  *)
(*                                                                         *)
(* There is one Parquet file for a day.  A handler does not await, so calls *)
(* follow one another; but a call works day by day, and an error of QuestDB *)
(* or the end of the process cuts it between two days.  Rows are counted    *)
(* for each regime; a clustering finds, in a regime, one cluster that takes *)
(* all of its rows or none.  What a column was computed by is the number of *)
(* the call; the values of features, labels and models are left out.        *)
(* QuestDB is external: an extraction finds any rows.  DuckDB replaces a    *)
(* file as a whole.                                                         *)
(***************************************************************************)
EXTENDS Integers, FiniteSets, Totals

CONSTANTS
  LastDay,       (* the days are 1..LastDay                               *)
  Regimes,
  Trending,      (* SKIP_REGIMES                                          *)
  MinCluster,    (* min_cluster_size of /cluster, 50                      *)
  MinSamples,    (* MIN_SAMPLES, 200                                      *)
  Splits,        (* n_splits, 5                                           *)
  PurgeGap,      (* PURGE_GAP, 5                                          *)
  Horizon,       (* bars a label looks ahead                              *)
  MaxRows,       (* bound: rows of a day and regime                       *)
  MaxCalls       (* bound: calls                                          *)

ASSUME FeaturesAssumption ==
  /\ {LastDay, MinCluster, MinSamples, Splits, PurgeGap, Horizon, MaxRows, MaxCalls} \subseteq Nat
  /\ IsFiniteSet(Regimes) /\ Trending \subseteq Regimes

\* The defaults: a regime too small to cluster is too small to train on.
ASSUME ThresholdAssumption == MinCluster <= MinSamples

\* The defaults: the first fold of the smallest training fits.
ASSUME SplitAssumption ==
  /\ Splits >= 2 /\ Splits + 1 <= MinSamples
  /\ (Splits + 1) * PurgeGap <= (Splits - 1) * MinSamples

VARIABLES
  store,         \* the file of each day
  call,          \* the call under way
  calls,         \* calls begun, the number of the call under way
  last           \* what the last training used

vars == <<store, call, calls, last>>
------------------------------------------------------------------------------
Days == 1..LastDay
Counts == [Regimes -> 0..MaxRows]

\* Column cluster of a file, in a regime: NaN, noise, or the number of the
\* clustering whose id is there.
NaN == -2
Noise == -1
Absent == [r \in Regimes |-> NaN]
IdsOf(f) == IF f.clustered THEN f.ids ELSE Absent

\* A file: its rows, the extraction that wrote it, the extraction whose rows its
\* labels were computed from (0: no column), its clusters and the clustering
\* that wrote it last (0: none).
NoFile == [rows |-> [r \in Regimes |-> 0], made |-> 0, labelled |-> 0,
           clustered |-> FALSE, ids |-> Absent, by |-> 0]
HasFile(d) == store[d] # NoFile

Idle == [kind |-> "idle", day |-> 0, end |-> 0, frame |-> <<>>]
Nothing == [models |-> {}, writers |-> {}]

Init == store = [d \in Days |-> NoFile] /\ call = Idle /\ calls = 0 /\ last = Nothing

Call(kind, first, end, frame) ==
  call' = [kind |-> kind, day |-> first, end |-> end, frame |-> frame]

\* The loop over days goes on or the call is answered.
Continue == call' = IF call.day = call.end THEN Idle ELSE [call EXCEPT !.day = @ + 1]
------------------------------------------------------------------------------
(* /features/extract.                                                       *)

Extract(first, end) ==
  /\ call = Idle /\ calls < MaxCalls /\ calls' = calls + 1
  /\ Call("extract", first, end, <<>>)
  /\ UNCHANGED <<store, last>>

\* A faulty extraction that keeps the columns other calls have added.
AddRollingKeepingColumns(d, rows) ==
  [store[d] EXCEPT !.rows = rows, !.made = calls]

\* The file of a day: the rows of QuestDB and features computed from them.
AddRolling(d, rows) == [NoFile EXCEPT !.rows = rows, !.made = calls]

\* A day without rows is passed over: a file it has stays as it is.
ExtractDay ==
  /\ call.kind = "extract"
  /\ \E rows \in Counts :
       store' = IF \A r \in Regimes : rows[r] = 0 THEN store
                ELSE [store EXCEPT ![call.day] = AddRolling(call.day, rows)]
  /\ Continue /\ UNCHANGED <<calls, last>>
------------------------------------------------------------------------------
(* /labels/generate.                                                        *)

Label(first, end) ==
  /\ call = Idle /\ calls < MaxCalls /\ calls' = calls + 1
  /\ Call("label", first, end, <<>>)
  /\ UNCHANGED <<store, last>>

\* A file in the range is read, its rows are labelled and it is written again.
LabelDay ==
  /\ call.kind = "label"
  /\ store' = IF HasFile(call.day)
              THEN [store EXCEPT ![call.day].labelled = store[call.day].made] ELSE store
  /\ Continue /\ UNCHANGED <<calls, last>>
------------------------------------------------------------------------------
(* /cluster.                                                                *)

Loaded(first, end) == {d \in first..end : HasFile(d)}
RowsOf(days, r) == Total([d \in days |-> store[d].rows[r]], days)

\* Rows that have no value of the column yet are noise if no file has it.
Before(days, d, r) ==
  IF \E e \in days : store[e].clustered THEN IdsOf(store[d])[r] ELSE Noise

\* A faulty clustering that assigns ids only where it finds a cluster.
RegroupedIfFound(days, found, d, r) ==
  IF RowsOf(days, r) < MinCluster \/ r \notin found THEN Before(days, d, r) ELSE calls + 1

\* The column after the loop over regimes: a regime with too few rows keeps
\* what it has, any other one is fitted, and its rows are a cluster or noise.
Regrouped(days, found, d, r) ==
  IF RowsOf(days, r) < MinCluster THEN Before(days, d, r)
  ELSE IF r \in found THEN calls + 1 ELSE Noise

\* The files of the range are read and clustered as one; without a file the
\* answer is an error.
Cluster(first, end) ==
  /\ call = Idle /\ calls < MaxCalls /\ calls' = calls + 1
  /\ LET days == Loaded(first, end)
     IN IF days = {} THEN call' = Idle
        ELSE \E found \in SUBSET Regimes :
               Call("cluster", first, end,
                    [d \in days |-> [store[d] EXCEPT !.clustered = TRUE, !.by = calls + 1,
                       !.ids = [r \in Regimes |-> Regrouped(days, found, d, r)]]])
  /\ UNCHANGED <<store, last>>

\* The files are written back one by one.
WriteBack ==
  /\ call.kind = "cluster"
  /\ store' = IF call.day \in DOMAIN call.frame
              THEN [store EXCEPT ![call.day] = call.frame[call.day]] ELSE store
  /\ Continue /\ UNCHANGED <<calls, last>>
------------------------------------------------------------------------------
(* /train.                                                                  *)

\* Faulty folds that test right behind the training rows.
FoldsUnpurged(n) ==
  LET size == n \div (Splits + 1)
      Fold(i) == [train |-> size * i, test |-> size * i, stop |-> size * i + size]
  IN {f \in {Fold(i) : i \in 1..Splits} : f.stop <= n}

\* The purged walk-forward folds of n samples: train on 0..(train - 1), test
\* on test..(stop - 1).
Folds(n) ==
  LET size == n \div (Splits + 1)
      Fold(i) == [train |-> size * i, test |-> size * i + PurgeGap,
                  stop |-> size * i + PurgeGap + size]
  IN {f \in {Fold(i) : i \in 1..Splits} : f.stop <= n}

\* The cluster a file's rows of a regime belong to: with no column in any file
\* that was read they are all of cluster 0.
TrainedAs(days, d, r) ==
  IF \E e \in days : store[e].clustered THEN IdsOf(store[d])[r] ELSE 0

\* The days whose rows of a regime are trained on: they have a label and a
\* cluster.
Usable(days, r) ==
  {d \in days : store[d].labelled # 0 /\ TrainedAs(days, d, r) \notin {Noise, NaN}}

\* Rows with one cluster id are trained as one, whichever clustering gave it.
Model(days, r) ==
  [regime |-> r, n |-> RowsOf(Usable(days, r), r),
   runs |-> {TrainedAs(days, d, r) : d \in {d \in Usable(days, r) : store[d].rows[r] > 0}}]

\* A faulty threshold that counts a model's rows before those without a label
\* are left out.
ModelsOfAnyRows(days) ==
  {m \in {Model(days, r) : r \in Regimes \ Trending} : m.n > 0 /\ RowsOf(days, m.regime) >= MinSamples}

Models(days) == {m \in {Model(days, r) : r \in Regimes \ Trending} : m.n >= MinSamples}

Train(first, end) ==
  /\ call = Idle /\ calls < MaxCalls /\ calls' = calls + 1
  /\ LET days == Loaded(first, end)
     IN IF \A d \in days : store[d].labelled = 0 THEN last' = Nothing
        ELSE last' = [models |-> Models(days), writers |-> {store[d].by : d \in days}]
  /\ UNCHANGED <<store, call>>
------------------------------------------------------------------------------
\* QuestDB, the disk or the process fails between two files.
Cut == call # Idle /\ call' = Idle /\ UNCHANGED <<store, calls, last>>

Next ==
  \/ \E first \in Days : \E end \in first..LastDay :
       Extract(first, end) \/ Label(first, end) \/ Cluster(first, end) \/ Train(first, end)
  \/ ExtractDay \/ LabelDay \/ WriteBack \/ Cut

Spec == Init /\ [][Next]_vars
------------------------------------------------------------------------------
Ids == {NaN, Noise} \union 1..MaxCalls
Files == [rows : Counts, made : 0..MaxCalls, labelled : 0..MaxCalls, clustered : BOOLEAN,
          ids : [Regimes -> Ids], by : 0..MaxCalls]

TypeOK ==
  /\ store \in [Days -> Files] /\ calls \in 0..MaxCalls
  /\ call.kind \in {"idle", "extract", "label", "cluster"}
  /\ call.kind # "idle" => call.day \in Days /\ call.end \in call.day..LastDay /\ calls > 0
  /\ call.kind = "cluster" =>
       DOMAIN call.frame \subseteq Days /\ \A d \in DOMAIN call.frame : call.frame[d] \in Files

\* What a file says of its rows was computed from the rows it has: labels from
\* the same extraction, clusters after it, whatever calls were cut in between
\* (extractor.py writes whole files, generator.py and pipeline.py write back
\* what they read).
StoreIsFresh ==
  TypeOK /\ \A d \in Days :
    /\ store[d].labelled \in {0, store[d].made}
    /\ \A r \in Regimes : store[d].ids[r] \in {NaN, Noise} \/ store[d].ids[r] > store[d].made
    /\ store[d].by # 0 => store[d].by > store[d].made /\ store[d].clustered

\* If one clustering was the last to write every file a training reads, each
\* model is fitted to clusters of that clustering alone, though a clustering
\* leaves the ids of regimes it finds too small as they are
\* (pipeline.py:86, trainer.py:296).
TrainingIsCoherent ==
  \A k \in 1..MaxCalls : last.writers = {k} => \A m \in last.models : m.runs = {k}

\* Every model was scored on a fold at least, and if labels look no further
\* ahead than the purge gap no label of a fold's training rows was made from
\* one of its test rows (_purged_wf_splits).
FoldsAreSound ==
  \A m \in last.models :
    /\ Folds(m.n) # {}
    /\ Horizon <= PurgeGap => \A f \in Folds(m.n) : (f.train - 1) + Horizon < f.test /\ f.test < f.stop
===============================================================================
