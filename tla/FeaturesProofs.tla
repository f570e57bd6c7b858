---------------------------- MODULE FeaturesProofs ----------------------------
(***************************************************************************)
(* Proofs about Features, for any days, regimes, rows and calls: every      *)
(* column of a file was computed from the rows beside it (StoreIsFresh), a  *)
(* training of files that one clustering was the last to write is of that   *)
(* clustering (TrainingIsCoherent), and the purged folds of every training  *)
(* are sound (FoldsAreSound).  FilesInv adds that the files a clustering    *)
(* still has to write back are as fresh as those of the store; TrainingInv  *)
(* that the files of one clustering, in the store or still to write, have   *)
(* its ids in every regime unless it found too few rows there.              *)
(***************************************************************************)
EXTENDS Features, FiniteSetTheorems, TLAPS

\* Labels and clusters of a file are none or computed from its rows, of which
\* no call later than number now is a part.
FreshAt(f, now) ==
  /\ f.made <= now
  /\ f.labelled \in {0, f.made}
  /\ \A r \in Regimes : f.ids[r] \in {NaN, Noise} \/ f.ids[r] > f.made
  /\ f.by # 0 => f.by > f.made /\ f.clustered

FileIsFresh(f) == FreshAt(f, calls)

FilesInv ==
  /\ TypeOK
  /\ \A d \in Days : FileIsFresh(store[d])
  /\ call.kind = "cluster" => \A d \in DOMAIN call.frame : FileIsFresh(call.frame[d])

\* A day without a file has nothing that could be stale.
LEMMA NoFileType ==
  ASSUME calls \in Nat PROVE NoFile \in Files /\ FileIsFresh(NoFile)
<1>1. [r \in Regimes |-> 0] \in Counts /\ Absent \in [Regimes -> Ids]
  BY FeaturesAssumption DEF Absent, NaN, Ids, Counts
<1>2. NoFile \in Files
  BY <1>1, FeaturesAssumption DEF NoFile, Files
<1>3. FileIsFresh(NoFile)
  BY DEF NoFile, FileIsFresh, FreshAt, Absent
<1> QED
  BY <1>2, <1>3

\* Init: every day is without a file.
LEMMA InitFresh == Init => FilesInv
<1> SUFFICES ASSUME Init PROVE FilesInv
  OBVIOUS
<1>1. calls = 0 /\ call = Idle /\ store = [d \in Days |-> NoFile]
  BY DEF Init
<1>2. \A d \in Days : store[d] \in Files /\ FileIsFresh(store[d])
  BY <1>1, NoFileType
<1>3. TypeOK
  BY <1>1, <1>2, FeaturesAssumption DEF TypeOK, Idle
<1> QED
  BY <1>1, <1>2, <1>3 DEF FilesInv, Idle

\* Extraction, labels and write-back each replace one file by a fresh one.
LEMMA OneFile ==
  ASSUME FilesInv, NEW d \in Days, NEW f \in Files, FileIsFresh(f),
         store' = [store EXCEPT ![d] = f] \/ store' = store, calls' = calls
  PROVE  store' \in [Days -> Files] /\ \A e \in Days : FileIsFresh(store[e])'
<1>1. store \in [Days -> Files] /\ \A e \in Days : FileIsFresh(store[e])
  BY DEF FilesInv, TypeOK
<1>2. store' \in [Days -> Files]
  BY <1>1
<1>3. \A e \in Days : store'[e] = store[e] \/ store'[e] = f
  BY <1>1
<1>4. ASSUME NEW e \in Days PROVE FileIsFresh(store[e])'
  BY <1>1, <1>3, <1>4 DEF FileIsFresh, FreshAt
<1> QED
  BY <1>2, <1>4

\* The call goes on with the next day or ends; what is left to write stays.
LEMMA Goes ==
  ASSUME FilesInv, call.kind # "idle", call' = Idle \/ Continue, calls' = calls,
         store' \in [Days -> Files], \A e \in Days : FileIsFresh(store[e])'
  PROVE  FilesInv'
<1>1. CASE call' = Idle
  BY <1>1 DEF FilesInv, TypeOK, Idle
<1>2. CASE call' = [call EXCEPT !.day = @ + 1] /\ call.day # call.end
  <2>1. call'.kind = call.kind /\ call'.frame = call.frame /\ call'.end = call.end
        /\ call'.day = call.day + 1
    BY <1>2
  <2>2. call'.day \in Days /\ call'.end \in call'.day..LastDay
    BY <1>2, <2>1, FeaturesAssumption DEF FilesInv, TypeOK, Days
  <2> QED
    BY <2>1, <2>2 DEF FilesInv, TypeOK, FileIsFresh, FreshAt
<1> QED
  BY <1>1, <1>2 DEF Continue
------------------------------------------------------------------------------
\* Begin of a call that has nothing to write back yet.
LEMMA Begins ==
  ASSUME FilesInv, NEW kind \in {"extract", "label"}, NEW first \in Days, NEW end \in first..LastDay,
         calls < MaxCalls, calls' = calls + 1, Call(kind, first, end, <<>>), store' = store
  PROVE  FilesInv'
<1>1. call'.kind = kind /\ call'.day = first /\ call'.end = end
  BY DEF Call
<1>2. calls' \in 1..MaxCalls
  BY FeaturesAssumption DEF FilesInv, TypeOK
<1>3. \A d \in Days : FileIsFresh(store[d])'
  BY FeaturesAssumption DEF FilesInv, TypeOK, FileIsFresh, FreshAt, Files
<1> QED
  BY <1>1, <1>2, <1>3, FeaturesAssumption DEF FilesInv, TypeOK

\* The files a clustering will write are those it read with ids of its own,
\* which are later than the rows.
LEMMA ClusterFresh ==
  ASSUME FilesInv, NEW first \in Days, NEW end \in first..LastDay, Cluster(first, end)
  PROVE  FilesInv'
<1> DEFINE days == Loaded(first, end)
<1>1. calls \in Nat /\ calls' = calls + 1 /\ calls' \in 1..MaxCalls /\ store' = store
  <2>1. calls \in 0..MaxCalls
    BY DEF FilesInv, TypeOK
  <2>2. calls < MaxCalls /\ calls' = calls + 1 /\ store' = store
    BY DEF Cluster
  <2> QED
    BY <2>1, <2>2, FeaturesAssumption
<1>2. \A d \in Days : store[d] \in Files /\ FileIsFresh(store[d])
  BY DEF FilesInv, TypeOK
<1>3. \A d \in Days : FileIsFresh(store[d])'
  BY <1>1, <1>2, FeaturesAssumption DEF FileIsFresh, FreshAt, Files
<1>4. days \subseteq Days
  BY FeaturesAssumption DEF Loaded, Days
<1>5. CASE days = {}
  <2>1. call' = Idle
    BY <1>5 DEF Cluster
  <2> QED
    BY <2>1, <1>1, <1>3, FeaturesAssumption DEF FilesInv, TypeOK, Idle
<1>6. CASE days # {}
  <2>1. PICK found \in SUBSET Regimes :
          Call("cluster", first, end,
               [d \in days |-> [store[d] EXCEPT !.clustered = TRUE, !.by = calls + 1,
                  !.ids = [r \in Regimes |-> Regrouped(days, found, d, r)]]])
    BY <1>6 DEF Cluster
  <2> DEFINE File(d) == [store[d] EXCEPT !.clustered = TRUE, !.by = calls + 1,
                           !.ids = [r \in Regimes |-> Regrouped(days, found, d, r)]]
  <2>2. call'.kind = "cluster" /\ call'.day = first /\ call'.end = end
        /\ call'.frame = [d \in days |-> File(d)]
    BY <2>1 DEF Call
  <2>3. ASSUME NEW d \in days PROVE File(d) \in Files /\ FreshAt(File(d), calls')
    <3>1. d \in Days
      BY <1>4
    <3>2. ASSUME NEW r \in Regimes
          PROVE  Regrouped(days, found, d, r) \in Ids
                 /\ (Regrouped(days, found, d, r) \in {NaN, Noise} \/ Regrouped(days, found, d, r) > store[d].made)
      <4>1. store[d].ids[r] \in Ids /\ store[d].made \in Nat
            /\ (store[d].ids[r] \in {NaN, Noise} \/ store[d].ids[r] > store[d].made)
        BY <3>1, <1>2, FeaturesAssumption DEF Files, FileIsFresh, FreshAt
      <4>2. Before(days, d, r) \in {store[d].ids[r], NaN, Noise}
        BY DEF Before, IdsOf, Absent
      <4>3. calls + 1 \in Ids /\ calls + 1 > store[d].made
        BY <1>1, <1>2, <3>1, FeaturesAssumption DEF Ids, FileIsFresh, FreshAt, Files
      <4>4. NaN \in Ids /\ Noise \in Ids
        BY DEF Ids
      <4>5. Regrouped(days, found, d, r) \in {Before(days, d, r), calls + 1, Noise}
        BY DEF Regrouped
      <4> QED
        BY <4>1, <4>2, <4>3, <4>4, <4>5
    <3> DEFINE ids == [r \in Regimes |-> Regrouped(days, found, d, r)]
    <3>3. ids \in [Regimes -> Ids]
      BY <3>2
    <3>4. store[d].made \in Nat /\ store[d].made <= calls /\ store[d].labelled \in {0, store[d].made}
      BY <3>1, <1>2, FeaturesAssumption DEF Files, FileIsFresh, FreshAt
    <3>5. calls + 1 \in 0..MaxCalls /\ calls + 1 > store[d].made
      BY <1>1, <3>4
    <3>6. \A r \in Regimes : ids[r] \in {NaN, Noise} \/ ids[r] > store[d].made
      BY <3>2
    <3> HIDE DEF ids, days
    <3>7. File(d) = [store[d] EXCEPT !.clustered = TRUE, !.by = calls + 1, !.ids = ids]
      BY DEF ids
    <3>8. store[d] \in Files
      BY <3>1, <1>2
    <3> HIDE DEF File
    <3>9. File(d) \in Files /\ File(d).made = store[d].made /\ File(d).labelled = store[d].labelled
          /\ File(d).clustered = TRUE /\ File(d).ids = ids /\ File(d).by = calls + 1
      <4>1. calls + 1 \in 0..MaxCalls
        BY <3>5
      <4>2. PICK g : g = File(d)
        OBVIOUS
      <4>3. PICK f \in Files : f = store[d]
        BY <3>8
      <4>4. g = [f EXCEPT !.clustered = TRUE, !.by = calls + 1, !.ids = ids]
        BY <3>7, <4>2, <4>3
      <4>5. g \in Files /\ g.made = f.made /\ g.labelled = f.labelled /\ g.clustered = TRUE
            /\ g.ids = ids /\ g.by = calls + 1
        BY <3>3, <4>1, <4>4 DEF Files
      <4> QED
        BY <4>2, <4>3, <4>5
    <3> QED
      BY <3>4, <3>5, <3>6, <3>9, <1>1 DEF FreshAt
  <2> HIDE DEF File, days
  <2>4. DOMAIN call'.frame = days /\ \A d \in days : call'.frame[d] = File(d)
    BY <2>2
  <2>5. \A d \in DOMAIN call'.frame : call'.frame[d] \in Files /\ FreshAt(call'.frame[d], calls')
    BY <2>3, <2>4
  <2> QED
    BY <2>2, <2>4, <2>5, <1>1, <1>3, <1>4, FeaturesAssumption DEF FilesInv, TypeOK, FileIsFresh
<1> QED
  BY <1>5, <1>6
------------------------------------------------------------------------------
\* Every action leaves the files, and those a clustering has still to write,
\* fresh.
LEMMA FilesStep == FilesInv /\ [Next]_vars => FilesInv'
<1> SUFFICES ASSUME FilesInv, [Next]_vars PROVE FilesInv'
  OBVIOUS
<1> USE FeaturesAssumption
<1>1. \A d \in Days : store[d] \in Files /\ FileIsFresh(store[d])
  BY DEF FilesInv, TypeOK
<1>2. ASSUME NEW first \in Days, NEW end \in first..LastDay, Extract(first, end) \/ Label(first, end)
      PROVE  FilesInv'
  <2>1. calls < MaxCalls /\ calls' = calls + 1 /\ store' = store
    BY <1>2 DEF Extract, Label
  <2>2. Call("extract", first, end, <<>>) \/ Call("label", first, end, <<>>)
    BY <1>2 DEF Extract, Label
  <2> QED
    BY <2>1, <2>2, Begins
<1>3. ASSUME NEW first \in Days, NEW end \in first..LastDay, Cluster(first, end)
      PROVE  FilesInv'
  BY <1>3, ClusterFresh
<1>4. ASSUME NEW first \in Days, NEW end \in first..LastDay, Train(first, end)
      PROVE  FilesInv'
  <2>1. call = Idle /\ calls < MaxCalls /\ calls' = calls + 1 /\ store' = store /\ call' = call
    BY <1>4 DEF Train
  <2>2. calls \in 0..MaxCalls /\ calls' \in 0..MaxCalls
    BY <2>1 DEF FilesInv, TypeOK
  <2>3. \A d \in Days : FileIsFresh(store[d])'
    BY <1>1, <2>1, <2>2 DEF FileIsFresh, FreshAt, Files
  <2> QED
    BY <2>1, <2>2, <2>3 DEF FilesInv, TypeOK, Idle
<1>5. CASE ExtractDay
  <2>1. call.kind = "extract" /\ call.day \in Days /\ calls \in 1..MaxCalls
    BY <1>5 DEF ExtractDay, FilesInv, TypeOK
  <2>2. PICK rows \in Counts :
          store' = IF \A r \in Regimes : rows[r] = 0 THEN store
                   ELSE [store EXCEPT ![call.day] = AddRolling(call.day, rows)]
    BY <1>5 DEF ExtractDay
  <2>3. AddRolling(call.day, rows) \in Files /\ FileIsFresh(AddRolling(call.day, rows))
    <3>1. NoFile \in Files
      BY <2>1, NoFileType
    <3> DEFINE f == [NoFile EXCEPT !.rows = rows, !.made = calls]
    <3>2. NoFile.labelled = 0 /\ NoFile.by = 0 /\ NoFile.ids = Absent
      BY DEF NoFile
    <3>3. \A r \in Regimes : Absent[r] = NaN
      BY DEF Absent
    <3> HIDE DEF NoFile, AddRolling
    <3>4. f \in Files /\ f.made = calls /\ f.labelled = 0 /\ f.by = 0 /\ f.ids = Absent
      <4>1. PICK e \in Files : e = NoFile
        BY <3>1
      <4>2. calls \in 0..MaxCalls
        BY <2>1
      <4>3. f = [e EXCEPT !.rows = rows, !.made = calls]
        BY <4>1
      <4> HIDE DEF f
      <4> QED
        BY <3>2, <4>1, <4>2, <4>3 DEF Files
    <3> HIDE DEF f
    <3>5. FileIsFresh(f)
      BY <2>1, <3>3, <3>4 DEF FileIsFresh, FreshAt
    <3>6. f = AddRolling(call.day, rows)
      BY DEF f, AddRolling
    <3> QED
      BY <3>4, <3>5, <3>6
  <2> HIDE DEF AddRolling
  <2>4. calls' = calls /\ Continue
    BY <1>5 DEF ExtractDay
  <2>5. store' \in [Days -> Files] /\ \A e \in Days : FileIsFresh(store[e])'
    BY <2>1, <2>2, <2>3, <2>4, OneFile
  <2> QED
    BY <2>1, <2>4, <2>5, Goes
<1>6. CASE LabelDay
  <2>1. call.kind = "label" /\ call.day \in Days
    BY <1>6 DEF LabelDay, FilesInv, TypeOK
  <2> DEFINE f == [store[call.day] EXCEPT !.labelled = store[call.day].made]
  <2>2. f \in Files /\ FileIsFresh(f)
    BY <1>1, <2>1 DEF Files, FileIsFresh, FreshAt
  <2>3. store' = [store EXCEPT ![call.day] = f] \/ store' = store
    BY <1>6 DEF LabelDay
  <2>4. calls' = calls /\ Continue
    BY <1>6 DEF LabelDay
  <2> HIDE DEF f
  <2>5. store' \in [Days -> Files] /\ \A e \in Days : FileIsFresh(store[e])'
    BY <2>1, <2>2, <2>3, <2>4, OneFile
  <2> QED
    BY <2>1, <2>4, <2>5, Goes
<1>7. CASE WriteBack
  <2>1. call.kind = "cluster" /\ call.day \in Days
    BY <1>7 DEF WriteBack, FilesInv, TypeOK
  <2>2. calls' = calls /\ Continue
    BY <1>7 DEF WriteBack
  <2>3. store' \in [Days -> Files] /\ \A e \in Days : FileIsFresh(store[e])'
    <3>1. CASE call.day \in DOMAIN call.frame
      <4>1. call.frame[call.day] \in Files /\ FileIsFresh(call.frame[call.day])
        BY <2>1, <3>1 DEF FilesInv, TypeOK
      <4>2. store' = [store EXCEPT ![call.day] = call.frame[call.day]]
        BY <1>7, <3>1 DEF WriteBack
      <4> QED
        BY <2>1, <2>2, <4>1, <4>2, OneFile
    <3>2. CASE call.day \notin DOMAIN call.frame
      <4>1. store' = store
        BY <1>7, <3>2 DEF WriteBack
      <4> QED
        BY <1>1, <2>2, <4>1 DEF FileIsFresh, FilesInv, TypeOK
    <3> QED
      BY <3>1, <3>2
  <2> QED
    BY <2>1, <2>2, <2>3, Goes
<1>8. CASE Cut
  <2>1. call' = Idle /\ store' = store /\ calls' = calls
    BY <1>8 DEF Cut
  <2> QED
    BY <2>1 DEF FilesInv, TypeOK, Idle, FileIsFresh
<1>9. CASE UNCHANGED vars
  BY <1>9 DEF vars, FilesInv, TypeOK, FileIsFresh
<1> QED
  BY <1>2, <1>3, <1>4, <1>5, <1>6, <1>7, <1>8, <1>9 DEF Next

\* Whatever calls are made, over whatever ranges, and wherever they are cut:
\* labels and clusters in a file belong to the rows beside them.
THEOREM ColumnsAreFresh == Spec => []StoreIsFresh
<1>1. FilesInv => StoreIsFresh
  BY FeaturesAssumption DEF FilesInv, StoreIsFresh, FileIsFresh, FreshAt
<1> QED
  BY <1>1, InitFresh, FilesStep, PTL DEF Spec
------------------------------------------------------------------------------
\* Multiplication keeps an order of natural numbers, both ways.
LEMMA TimesMonotone ==
  ASSUME NEW a \in Nat, NEW b \in Nat, NEW k \in Nat, a <= b PROVE k * a <= k * b
  OBVIOUS

LEMMA TimesCancel ==
  ASSUME NEW a \in Nat, NEW b \in Nat, NEW k \in Nat, k > 0, k * a <= k * b PROVE a <= b
  OBVIOUS

\* Two folds and the gap fit into every training: the two sides of the
\* comparison times Splits + 1.
LEMMA FirstFoldFits ==
  ASSUME NEW n \in Nat, n >= MinSamples
  PROVE  LET size == n \div (Splits + 1)
         IN  size \in Nat /\ size > 0 /\ 2 * size + PurgeGap <= n
<1> DEFINE k == Splits + 1
<1> DEFINE size == n \div k
<1> USE FeaturesAssumption, SplitAssumption
<1>1. k \in Nat /\ k >= 3 /\ k <= n
  OBVIOUS
<1>2. size \in Nat /\ k * size <= n /\ n < k * size + k
  BY <1>1
<1>3. size > 0
  BY <1>1, <1>2
<1>4. k * PurgeGap <= (Splits - 1) * n
  <2>1. Splits - 1 \in Nat
    OBVIOUS
  <2>2. (Splits - 1) * MinSamples <= (Splits - 1) * n
    BY <2>1, TimesMonotone
  <2> QED
    BY <2>1, <2>2
<1>5. k * (2 * size + PurgeGap) <= k * n
  <2>1. k * (2 * size + PurgeGap) = 2 * (k * size) + k * PurgeGap
    BY <1>1, <1>2
  <2>2. k * n = 2 * n + (Splits - 1) * n
    OBVIOUS
  <2> QED
    BY <1>1, <1>2, <1>4, <2>1, <2>2
<1> HIDE DEF k, size
<1>6. 2 * size + PurgeGap <= n
  BY <1>1, <1>2, <1>5, TimesCancel
<1> QED
  BY <1>2, <1>3, <1>6 DEF size, k

\* Any number of samples that is trained on has a fold; no fold is empty or
\* reaches past the samples; and labels that look no further ahead than the
\* gap never show a fold's training rows one of its test rows.
THEOREM FoldsOfEveryTraining ==
  ASSUME NEW n \in Nat, n >= MinSamples
  PROVE  /\ Folds(n) # {}
         /\ \A f \in Folds(n) :
              /\ f.stop <= n /\ f.test < f.stop
              /\ Horizon <= PurgeGap => (f.train - 1) + Horizon < f.test
<1> DEFINE size == n \div (Splits + 1)
<1> DEFINE Fold(i) == [train |-> size * i, test |-> size * i + PurgeGap,
                       stop |-> size * i + PurgeGap + size]
<1> USE FeaturesAssumption, SplitAssumption
<1>1. size \in Nat /\ size > 0 /\ 2 * size + PurgeGap <= n
  BY FirstFoldFits
<1>2. Folds(n) = {f \in {Fold(i) : i \in 1..Splits} : f.stop <= n}
  BY DEF Folds
<1> HIDE DEF size
<1>3. Fold(1) \in Folds(n)
  <2>1. Fold(1).stop <= n /\ 1 \in 1..Splits
    BY <1>1
  <2> QED
    BY <1>2, <2>1
<1>4. ASSUME NEW f \in Folds(n)
      PROVE  /\ f.stop <= n /\ f.test < f.stop
             /\ Horizon <= PurgeGap => (f.train - 1) + Horizon < f.test
  <2>1. PICK i \in 1..Splits : f = Fold(i)
    BY <1>2, <1>4
  <2>2. f.stop <= n
    BY <1>2, <1>4
  <2>3. size * i \in Nat
    BY <1>1
  <2>4. f.train = size * i /\ f.test = size * i + PurgeGap /\ f.stop = size * i + PurgeGap + size
    BY <2>1
  <2> QED
    BY <1>1, <2>2, <2>3, <2>4
<1> QED
  BY <1>3, <1>4
------------------------------------------------------------------------------
(* Which clustering the clusters of a training are of.                       *)

\* The files the clustering k was the last to write.
Of(k) == {d \in Days : store[d].by = k}

\* The clustering k gave a regime's rows in the files ids of its own, or found
\* too few of them in all the files it read.
Grouped(days, ids, rows, k) ==
  (\A d \in days : ids[d] \in {k, Noise}) \/ Total(rows, days) < MinCluster

IdsIn(files, days, r) == [d \in days |-> files[d].ids[r]]
RowsIn(files, days, r) == [d \in days |-> files[d].rows[r]]

StoreGrouped ==
  \A k \in 1..MaxCalls, r \in Regimes :
    Grouped(Of(k), IdsIn(store, Of(k), r), RowsIn(store, Of(k), r), k)

\* What a clustering has still to write is grouped, and what it has written is
\* what it had to write.
FrameGrouped ==
  call.kind = "cluster" =>
    LET frame == call.frame
    IN /\ \A d \in DOMAIN frame : frame[d].by = calls /\ frame[d].rows = store[d].rows
       /\ \A r \in Regimes : Grouped(DOMAIN frame, IdsIn(frame, DOMAIN frame, r),
                                     RowsIn(frame, DOMAIN frame, r), calls)
       /\ \A d \in Days : store[d].by = calls => d \in DOMAIN frame /\ store[d].ids = frame[d].ids

TrainingInv ==
  /\ FilesInv
  /\ \A d \in Days : store[d].by <= calls
  /\ StoreGrouped /\ FrameGrouped
  /\ TrainingIsCoherent
  /\ \A m \in last.models : m.n \in Nat /\ m.n >= MinSamples

\* A total of bounded numbers is a number.
LEMMA TotalType ==
  ASSUME NEW S, IsFiniteSet(S), NEW N \in Nat, NEW f, \A x \in S : f[x] \in 0..N
  PROVE  IsFiniteSet(Copies(f, S)) /\ Total(f, S) \in Nat
<1>1. Copies(f, S) \subseteq S \X (1..N)
  BY DEF Copies
<1>2. IsFiniteSet(S \X (1..N))
  <2>1. IsFiniteSet(1..N)
    BY FS_Interval
  <2> QED
    BY <2>1, FS_Product
<1>3. IsFiniteSet(Copies(f, S))
  BY <1>1, <1>2, FS_Subset
<1> QED
  BY <1>3, FS_CardinalityType DEF Total

\* A part of the members has a part of the total.
LEMMA TotalOfPart ==
  ASSUME NEW S, IsFiniteSet(S), NEW N \in Nat, NEW f, \A x \in S : f[x] \in 0..N,
         NEW T \in SUBSET S, NEW g, \A x \in T : g[x] = f[x]
  PROVE  Total(g, T) \in Nat /\ Total(g, T) <= Total(f, S)
<1>1. IsFiniteSet(T) /\ \A x \in T : g[x] \in 0..N
  BY FS_Subset
<1>2. Copies(g, T) \subseteq Copies(f, S)
  BY DEF Copies
<1>3. IsFiniteSet(Copies(f, S))
  BY TotalType
<1> QED
  BY <1>1, <1>2, <1>3, TotalType, FS_Subset DEF Total

\* A total that is not zero has a member that counts.
LEMMA TotalNotZero ==
  ASSUME NEW S, NEW f, Total(f, S) # 0, \A x \in S : f[x] \in Nat
  PROVE  \E x \in S : f[x] > 0
<1> SUFFICES ASSUME \A x \in S : f[x] = 0 PROVE FALSE
  OBVIOUS
<1>1. Copies(f, S) = {}
  BY DEF Copies
<1> QED
  BY <1>1, FS_EmptySet DEF Total

\* What is grouped stays grouped when files leave.
LEMMA FewerFiles ==
  ASSUME NEW days, IsFiniteSet(days), NEW part \in SUBSET days, NEW k,
         NEW ids, NEW rows, NEW ids2, NEW rows2,
         \A d \in days : rows[d] \in 0..MaxRows,
         \A d \in part : ids2[d] = ids[d] /\ rows2[d] = rows[d],
         Grouped(days, ids, rows, k)
  PROVE  Grouped(part, ids2, rows2, k)
<1>1. MaxRows \in Nat /\ MinCluster \in Nat
  BY FeaturesAssumption
<1>2. CASE \A d \in days : ids[d] \in {k, Noise}
  BY <1>2 DEF Grouped
<1>3. CASE Total(rows, days) < MinCluster
  <2>1. Total(rows2, part) \in Nat /\ Total(rows2, part) <= Total(rows, days)
    BY <1>1, TotalOfPart
  <2>2. Total(rows, days) \in Nat
    BY <1>1, TotalType
  <2> QED
    BY <1>1, <1>3, <2>1, <2>2 DEF Grouped
<1> QED
  BY <1>2, <1>3 DEF Grouped

\* Sets of days are finite, rows of a day bounded.
LEMMA DaysAreFinite == ASSUME NEW days \in SUBSET Days PROVE IsFiniteSet(days)
<1>1. IsFiniteSet(Days)
  BY FeaturesAssumption, FS_Interval DEF Days
<1> QED
  BY <1>1, FS_Subset

LEMMA RowsAreBounded ==
  ASSUME FilesInv, NEW d \in Days, NEW r \in Regimes PROVE store[d].rows[r] \in 0..MaxRows
BY DEF FilesInv, TypeOK, Files, Counts

\* The files of every clustering stay grouped while none gets a file.
LEMMA NoMoreFiles ==
  ASSUME FilesInv, StoreGrouped,
         \A d \in Days : \/ store'[d].by = 0
                         \/ /\ store'[d].by = store[d].by /\ store'[d].ids = store[d].ids
                            /\ store'[d].rows = store[d].rows
  PROVE  StoreGrouped'
<1> SUFFICES ASSUME NEW k \in 1..MaxCalls, NEW r \in Regimes
             PROVE  Grouped(Of(k)', IdsIn(store', Of(k)', r), RowsIn(store', Of(k)', r), k)
  BY DEF StoreGrouped, Grouped, Total, Copies, IdsIn, RowsIn
<1>1. Of(k)' \in SUBSET Of(k)
  BY FeaturesAssumption DEF Of
<1>2. IsFiniteSet(Of(k))
  BY DaysAreFinite DEF Of
<1>3. Of(k) \subseteq Days
  BY DEF Of
<1>4. \A d \in Of(k) : RowsIn(store, Of(k), r)[d] \in 0..MaxRows
  BY <1>3, RowsAreBounded DEF RowsIn
<1>5. \A d \in Of(k)' : store'[d].ids = store[d].ids /\ store'[d].rows = store[d].rows
  BY FeaturesAssumption DEF Of
<1>6. \A d \in Of(k)' : /\ IdsIn(store', Of(k)', r)[d] = IdsIn(store, Of(k), r)[d]
                        /\ RowsIn(store', Of(k)', r)[d] = RowsIn(store, Of(k), r)[d]
  BY <1>1, <1>5 DEF IdsIn, RowsIn
<1>7. Grouped(Of(k), IdsIn(store, Of(k), r), RowsIn(store, Of(k), r), k)
  BY DEF StoreGrouped
<1> QED
  BY <1>1, <1>2, <1>4, <1>6, <1>7, FewerFiles

\* A training of files that one clustering wrote last is of that clustering.
LEMMA TrainingOfOne ==
  ASSUME TrainingInv, NEW first \in Days, NEW end \in first..LastDay,
         NEW k \in 1..MaxCalls, {store[d].by : d \in Loaded(first, end)} = {k},
         NEW m \in Models(Loaded(first, end))
  PROVE  m.runs = {k}
<1> DEFINE days == Loaded(first, end)
<1>1. days \subseteq Days /\ days \subseteq Of(k) /\ days # {}
  BY FeaturesAssumption DEF Loaded, Days, Of
<1>2. PICK r \in Regimes : m = Model(days, r) /\ m.n >= MinSamples
  BY DEF Models
<1> DEFINE used == Usable(days, r)
<1>3. used \subseteq days /\ \A d \in used : TrainedAs(days, d, r) \notin {Noise, NaN}
  BY DEF Usable
<1>4. m.n = RowsOf(used, r)
      /\ m.runs = {TrainedAs(days, d, r) : d \in {e \in used : store[e].rows[r] > 0}}
  BY <1>2 DEF Model
<1>5. \A d \in days : store[d].clustered /\ TrainedAs(days, d, r) = store[d].ids[r]
  BY <1>1 DEF TrainingInv, FilesInv, FileIsFresh, FreshAt, TrainedAs, IdsOf, Of
<1>6. IsFiniteSet(Of(k)) /\ Of(k) \subseteq Days
  BY DaysAreFinite DEF Of
<1>7. \A d \in Of(k) : RowsIn(store, Of(k), r)[d] \in 0..MaxRows
  BY <1>6, RowsAreBounded DEF RowsIn, TrainingInv
<1> HIDE DEF days, used
<1>8. RowsOf(used, r) \in Nat /\ RowsOf(used, r) <= Total(RowsIn(store, Of(k), r), Of(k))
  <2>1. used \in SUBSET Of(k)
    BY <1>1, <1>3
  <2>2. \A d \in used : [e \in used |-> store[e].rows[r]][d] = RowsIn(store, Of(k), r)[d]
    BY <2>1 DEF RowsIn
  <2>3. MaxRows \in Nat
    BY FeaturesAssumption
  <2> QED
    BY <1>6, <1>7, <2>1, <2>2, <2>3, TotalOfPart DEF RowsOf
<1>9. Total(RowsIn(store, Of(k), r), Of(k)) \in Nat
  BY <1>6, <1>7, FeaturesAssumption, TotalType
<1>10. \A d \in Of(k) : store[d].ids[r] \in {k, Noise}
  <2>1. Grouped(Of(k), IdsIn(store, Of(k), r), RowsIn(store, Of(k), r), k)
    BY DEF TrainingInv, StoreGrouped
  <2>2. ~(Total(RowsIn(store, Of(k), r), Of(k)) < MinCluster)
    BY <1>2, <1>4, <1>8, <1>9, FeaturesAssumption, ThresholdAssumption
  <2> QED
    BY <2>1, <2>2 DEF Grouped, IdsIn
<1>11. \A d \in used : TrainedAs(days, d, r) = k
  BY <1>1, <1>3, <1>5, <1>10
<1>12. \E d \in used : store[d].rows[r] > 0
  <2>1. \A d \in used : [e \in used |-> store[e].rows[r]][d] \in Nat
    BY <1>1, <1>3, RowsAreBounded, FeaturesAssumption DEF TrainingInv
  <2>2. Total([e \in used |-> store[e].rows[r]], used) # 0
    BY <1>2, <1>4, <1>8, FeaturesAssumption, SplitAssumption DEF RowsOf
  <2> HIDE DEF RowsOf
  <2>3. \E d \in used : [e \in used |-> store[e].rows[r]][d] > 0
    BY <2>1, <2>2, TotalNotZero
  <2> QED
    BY <2>3
<1> QED
  BY <1>4, <1>11, <1>12

\* A number of samples is a number.
LEMMA SamplesAreCounted ==
  ASSUME FilesInv, NEW first \in Days, NEW end \in first..LastDay,
         NEW m \in Models(Loaded(first, end))
  PROVE  m.n \in Nat /\ m.n >= MinSamples
<1> DEFINE days == Loaded(first, end)
<1>1. PICK r \in Regimes : m = Model(days, r) /\ m.n >= MinSamples
  BY DEF Models
<1> DEFINE used == Usable(days, r)
<1>2. used \subseteq Days
  BY FeaturesAssumption DEF Usable, Loaded, Days
<1> HIDE DEF used, days
<1>3. \A d \in used : [e \in used |-> store[e].rows[r]][d] \in 0..MaxRows
  BY <1>2, RowsAreBounded
<1>4. RowsOf(used, r) \in Nat
  BY <1>2, <1>3, DaysAreFinite, TotalType, FeaturesAssumption DEF RowsOf
<1>5. m.n = RowsOf(used, r)
  BY <1>1 DEF Model, used
<1> QED
  BY <1>1, <1>4, <1>5
------------------------------------------------------------------------------
\* A training, and only a training, says anew what was trained.
Trained == TrainingIsCoherent /\ \A m \in last.models : m.n \in Nat /\ m.n >= MinSamples

LEMMA NothingTrained == last' = last /\ Trained => Trained'
BY DEF Trained, TrainingIsCoherent

\* Init: no clustering has written a file and nothing is trained.
LEMMA InitTraining == Init => TrainingInv
<1> SUFFICES ASSUME Init PROVE TrainingInv
  OBVIOUS
<1>1. FilesInv
  BY InitFresh
<1>2. store = [d \in Days |-> NoFile] /\ call = Idle /\ calls = 0 /\ last = Nothing
  BY DEF Init
<1>3. \A d \in Days : store[d].by = 0
  BY <1>2 DEF NoFile
<1>4. StoreGrouped
  <2>1. \A k \in 1..MaxCalls : Of(k) = {}
    BY <1>3, FeaturesAssumption DEF Of
  <2> QED
    BY <2>1 DEF StoreGrouped, Grouped
<1>5. FrameGrouped
  BY <1>2 DEF FrameGrouped, Idle
<1>6. TrainingIsCoherent /\ last.models = {}
  BY <1>2 DEF TrainingIsCoherent, Nothing
<1> QED
  BY <1>1, <1>2, <1>3, <1>4, <1>5, <1>6 DEF TrainingInv

\* The columns a clustering of some days has to write are grouped: a regime
\* keeps old ids only if its rows are too few.
LEMMA RegroupedIsGrouped ==
  ASSUME NEW days, NEW found, NEW r \in Regimes, NEW ids, NEW rows,
         \A d \in days : ids[d] = Regrouped(days, found, d, r),
         rows = [d \in days |-> store[d].rows[r]]
  PROVE  Grouped(days, ids, rows, calls + 1)
<1>1. CASE RowsOf(days, r) < MinCluster
  BY <1>1 DEF RowsOf, Grouped
<1>2. CASE ~(RowsOf(days, r) < MinCluster)
  BY <1>2 DEF Grouped, Regrouped
<1> QED
  BY <1>1, <1>2

\* Begin of a clustering: no file is of it yet.
LEMMA ClusterGroups ==
  ASSUME TrainingInv, NEW first \in Days, NEW end \in first..LastDay, Cluster(first, end)
  PROVE  StoreGrouped' /\ FrameGrouped' /\ \A d \in Days : store'[d].by <= calls'
<1> DEFINE days == Loaded(first, end)
<1> USE FeaturesAssumption
<1>1. calls \in Nat /\ calls' = calls + 1 /\ store' = store
  <2>1. calls \in 0..MaxCalls
    BY DEF TrainingInv, FilesInv, TypeOK
  <2>2. calls' = calls + 1 /\ store' = store
    BY DEF Cluster
  <2> QED
    BY <2>1, <2>2
<1>2. \A d \in Days : store[d].by \in Nat /\ store[d].by <= calls
  BY DEF TrainingInv, FilesInv, TypeOK, Files
<1>3. StoreGrouped'
  <2>1. FilesInv /\ StoreGrouped
    BY DEF TrainingInv
  <2> QED
    BY <1>1, <2>1, NoMoreFiles
<1>4. \A d \in Days : store'[d].by < calls' /\ store'[d].by # calls'
  BY <1>1, <1>2
<1>5. days \subseteq Days
  BY DEF Loaded, Days
<1>6. FrameGrouped'
  <2>1. CASE days = {}
    <3>1. call'.kind = "idle"
      BY <2>1 DEF Cluster, Idle
    <3> QED
      BY <3>1 DEF FrameGrouped
  <2>2. CASE days # {}
    <3>1. PICK found \in SUBSET Regimes :
            Call("cluster", first, end,
                 [d \in days |-> [store[d] EXCEPT !.clustered = TRUE, !.by = calls + 1,
                    !.ids = [r \in Regimes |-> Regrouped(days, found, d, r)]]])
      BY <2>2 DEF Cluster
    <3> DEFINE ids(d) == [r \in Regimes |-> Regrouped(days, found, d, r)]
               File(d) == [store[d] EXCEPT !.clustered = TRUE, !.by = calls + 1, !.ids = ids(d)]
    <3>2. call'.frame = [d \in days |-> File(d)]
      BY <3>1 DEF Call
    <3>3. ASSUME NEW d \in days PROVE File(d).by = calls + 1 /\ File(d).rows = store[d].rows /\ File(d).ids = ids(d)
      <4>1. store[d] \in Files
        BY <1>5 DEF TrainingInv, FilesInv, TypeOK
      <4> HIDE DEF ids
      <4> QED
        BY <4>1 DEF Files
    <3> HIDE DEF File, days
    <3>4. DOMAIN call'.frame = days /\ \A d \in days : call'.frame[d] = File(d)
      BY <3>2
    <3>5. \A d \in DOMAIN call'.frame : call'.frame[d].by = calls' /\ call'.frame[d].rows = store'[d].rows
      BY <1>1, <3>3, <3>4
    <3>6. ASSUME NEW r \in Regimes
          PROVE  Grouped(days, IdsIn(call'.frame, days, r), RowsIn(call'.frame, days, r), calls')
      <4>1. \A d \in days : IdsIn(call'.frame, days, r)[d] = Regrouped(days, found, d, r)
        <5>1. \A d \in days : ids(d)[r] = Regrouped(days, found, d, r)
          OBVIOUS
        <5> HIDE DEF ids
        <5>2. \A d \in days : call'.frame[d].ids[r] = ids(d)[r]
          BY <3>3, <3>4
        <5> QED
          BY <5>1, <5>2 DEF IdsIn
      <4>2. RowsIn(call'.frame, days, r) = [d \in days |-> store[d].rows[r]]
        BY <3>3, <3>4 DEF RowsIn
      <4> QED
        BY <1>1, <4>1, <4>2, RegroupedIsGrouped
    <3>7. DOMAIN call'.frame = days /\ \A d \in Days : store'[d].by # calls'
      BY <1>4, <3>4
    <3> HIDE DEF ids
    <3> QED
      BY <3>5, <3>6, <3>7 DEF FrameGrouped
  <2> QED
    BY <2>1, <2>2
<1> QED
  BY <1>1, <1>2, <1>3, <1>4, <1>6

\* The files a clustering has written are a part of the files it had to write;
\* those of others only become fewer.
LEMMA WriteBackGroups ==
  ASSUME TrainingInv, WriteBack, call.day \in DOMAIN call.frame
  PROVE  /\ StoreGrouped' /\ FrameGrouped' /\ \A d \in Days : store'[d].by <= calls'
<1> DEFINE frame == call.frame
           day == call.day
<1> USE FeaturesAssumption
<1>1. /\ call.kind = "cluster" /\ day \in Days /\ calls \in 1..MaxCalls
      /\ store \in [Days -> Files] /\ DOMAIN frame \subseteq Days
      /\ \A d \in DOMAIN frame : frame[d] \in Files
  BY DEF WriteBack, TrainingInv, FilesInv, TypeOK
<1>2. store' = [store EXCEPT ![day] = frame[day]] /\ calls' = calls
  BY DEF WriteBack
<1>3. /\ \A d \in DOMAIN frame : frame[d].by = calls /\ frame[d].rows = store[d].rows
      /\ \A r \in Regimes : Grouped(DOMAIN frame, IdsIn(frame, DOMAIN frame, r),
                                    RowsIn(frame, DOMAIN frame, r), calls)
      /\ \A d \in Days : store[d].by = calls => d \in DOMAIN frame /\ store[d].ids = frame[d].ids
  BY <1>1 DEF TrainingInv, FrameGrouped
<1> HIDE DEF frame, day
<1>4. day \in DOMAIN frame
  BY DEF frame, day
<1>5. store'[day] = frame[day] /\ \A d \in Days : d # day => store'[d] = store[d]
  BY <1>1, <1>2
<1>6. \A d \in Days : store'[d].rows = store[d].rows
  BY <1>3, <1>4, <1>5
<1>7. \A d \in Days : store'[d].by = calls => d \in DOMAIN frame /\ store'[d].ids = frame[d].ids
  BY <1>3, <1>4, <1>5
<1>8. \A d \in Days : store'[d].by <= calls'
  BY <1>1, <1>2, <1>3, <1>4, <1>5 DEF TrainingInv
<1>9. ASSUME NEW k \in 1..MaxCalls, NEW r \in Regimes
      PROVE  Grouped(Of(k)', IdsIn(store', Of(k)', r), RowsIn(store', Of(k)', r), k)
  <2>1. Of(k)' \subseteq Days
    BY DEF Of
  <2>2. CASE k = calls
    <3>1. Of(k)' \in SUBSET DOMAIN frame
      BY <1>7, <2>2 DEF Of
    <3>2. IsFiniteSet(DOMAIN frame)
      BY <1>1, DaysAreFinite
    <3>3. \A d \in DOMAIN frame : RowsIn(frame, DOMAIN frame, r)[d] \in 0..MaxRows
      BY <1>1 DEF RowsIn, Files, Counts
    <3>4. \A d \in Of(k)' : /\ IdsIn(store', Of(k)', r)[d] = IdsIn(frame, DOMAIN frame, r)[d]
                            /\ RowsIn(store', Of(k)', r)[d] = RowsIn(frame, DOMAIN frame, r)[d]
      <4>1. \A d \in Of(k)' : store'[d].ids = frame[d].ids /\ store'[d].rows = frame[d].rows
        BY <1>3, <1>6, <1>7, <2>1, <2>2, <3>1 DEF Of
      <4> QED
        BY <3>1, <4>1 DEF IdsIn, RowsIn
    <3>5. Grouped(DOMAIN frame, IdsIn(frame, DOMAIN frame, r), RowsIn(frame, DOMAIN frame, r), k)
      BY <1>3, <2>2
    <3> QED
      BY <3>1, <3>2, <3>3, <3>4, <3>5, FewerFiles
  <2>3. CASE k # calls
    <3>1. Of(k)' \in SUBSET Of(k) /\ day \notin Of(k)'
      BY <1>3, <1>4, <1>5, <2>3 DEF Of
    <3>2. IsFiniteSet(Of(k)) /\ Of(k) \subseteq Days
      BY DaysAreFinite DEF Of
    <3>3. \A d \in Of(k) : RowsIn(store, Of(k), r)[d] \in 0..MaxRows
      BY <3>2, RowsAreBounded DEF RowsIn, TrainingInv
    <3>4. \A d \in Of(k)' : /\ IdsIn(store', Of(k)', r)[d] = IdsIn(store, Of(k), r)[d]
                            /\ RowsIn(store', Of(k)', r)[d] = RowsIn(store, Of(k), r)[d]
      <4>1. \A d \in Of(k)' : store'[d] = store[d]
        BY <1>5, <3>1, <2>1
      <4> QED
        BY <3>1, <4>1 DEF IdsIn, RowsIn
    <3>5. Grouped(Of(k), IdsIn(store, Of(k), r), RowsIn(store, Of(k), r), k)
      BY DEF TrainingInv, StoreGrouped
    <3> QED
      BY <3>1, <3>2, <3>3, <3>4, <3>5, FewerFiles
  <2> QED
    BY <2>2, <2>3
<1>10. StoreGrouped'
  BY <1>9 DEF StoreGrouped, Grouped, Total, Copies, IdsIn, RowsIn
<1>11. FrameGrouped'
  <2>1. CASE call'.kind # "cluster"
    BY <2>1 DEF FrameGrouped
  <2>2. CASE call'.kind = "cluster"
    <3>1. call'.frame = frame
      BY <2>2 DEF WriteBack, Continue, Idle, frame
    <3>2. \A d \in DOMAIN frame : frame[d].by = calls /\ frame[d].rows = store'[d].rows
      BY <1>1, <1>3, <1>6
    <3> QED
      BY <1>2, <1>3, <1>7, <2>2, <3>1, <3>2 DEF FrameGrouped
  <2> QED
    BY <2>1, <2>2
<1> QED
  BY <1>8, <1>10, <1>11

\* Every action keeps files grouped, and a training reads grouped files.
LEMMA TrainingStep == TrainingInv /\ [Next]_vars => TrainingInv'
<1> SUFFICES ASSUME TrainingInv, [Next]_vars PROVE TrainingInv'
  OBVIOUS
<1> USE FeaturesAssumption
<1>1. FilesInv /\ FilesInv'
  BY FilesStep DEF TrainingInv
<1>2. StoreGrouped /\ Trained /\ calls \in Nat /\ \A d \in Days : store[d].by \in Nat /\ store[d].by <= calls
  BY DEF TrainingInv, Trained, FilesInv, TypeOK, Files
<1>3. SUFFICES StoreGrouped' /\ FrameGrouped' /\ Trained' /\ \A d \in Days : store'[d].by <= calls'
  BY <1>1 DEF TrainingInv, Trained
<1>4. ASSUME NEW first \in Days, NEW end \in first..LastDay, Extract(first, end) \/ Label(first, end)
      PROVE  StoreGrouped' /\ FrameGrouped' /\ Trained' /\ \A d \in Days : store'[d].by <= calls'
  <2>1. store' = store /\ calls' = calls + 1 /\ last' = last /\ call'.kind # "cluster"
    BY <1>4 DEF Extract, Label, Call
  <2> QED
    BY <1>1, <1>2, <2>1, NoMoreFiles, NothingTrained DEF FrameGrouped
<1>5. ASSUME NEW first \in Days, NEW end \in first..LastDay, Cluster(first, end)
      PROVE  StoreGrouped' /\ FrameGrouped' /\ Trained' /\ \A d \in Days : store'[d].by <= calls'
  <2>1. last' = last
    BY <1>5 DEF Cluster
  <2> QED
    BY <1>2, <1>5, <2>1, ClusterGroups, NothingTrained
<1>6. ASSUME NEW first \in Days, NEW end \in first..LastDay, Train(first, end)
      PROVE  StoreGrouped' /\ FrameGrouped' /\ Trained' /\ \A d \in Days : store'[d].by <= calls'
  <2>1. store' = store /\ calls' = calls + 1 /\ call' = Idle
    BY <1>6 DEF Train
  <2>2. StoreGrouped' /\ FrameGrouped'
    BY <1>1, <1>2, <2>1, NoMoreFiles DEF FrameGrouped, Idle
  <2>3. CASE last' = Nothing
    BY <1>2, <2>1, <2>2, <2>3 DEF Trained, TrainingIsCoherent, Nothing
  <2>4. CASE last' = [models |-> Models(Loaded(first, end)), writers |-> {store[d].by : d \in Loaded(first, end)}]
    <3>1. \A m \in last'.models : m.n \in Nat /\ m.n >= MinSamples
      BY <1>1, <2>4, SamplesAreCounted
    <3>2. \A k \in 1..MaxCalls : last'.writers = {k} => \A m \in last'.models : m.runs = {k}
      BY <2>4, TrainingOfOne
    <3> QED
      BY <1>2, <2>1, <2>2, <3>1, <3>2 DEF Trained, TrainingIsCoherent
  <2> QED
    BY <1>6, <2>3, <2>4 DEF Train
<1>7. CASE ExtractDay
  <2>1. call.kind = "extract" /\ call.day \in Days /\ calls' = calls /\ last' = last /\ Continue
    BY <1>1, <1>7 DEF ExtractDay, FilesInv, TypeOK
  <2>2. call'.kind # "cluster"
    BY <2>1 DEF Continue, Idle
  <2>3. PICK rows \in Counts :
          store' = IF \A r \in Regimes : rows[r] = 0 THEN store
                   ELSE [store EXCEPT ![call.day] = AddRolling(call.day, rows)]
    BY <1>7 DEF ExtractDay
  <2>4. AddRolling(call.day, rows).by = 0
    BY DEF AddRolling, NoFile
  <2>5. store \in [Days -> Files]
    BY <1>1 DEF FilesInv, TypeOK
  <2> HIDE DEF AddRolling
  <2>6. \A d \in Days : store'[d] = store[d] \/ store'[d].by = 0
    BY <2>1, <2>3, <2>4, <2>5
  <2> QED
    BY <1>1, <1>2, <2>1, <2>2, <2>6, NoMoreFiles, NothingTrained DEF FrameGrouped
<1>8. CASE LabelDay
  <2>1. call.kind = "label" /\ call.day \in Days /\ calls' = calls /\ last' = last /\ Continue
    BY <1>1, <1>8 DEF LabelDay, FilesInv, TypeOK
  <2>2. call'.kind # "cluster"
    BY <2>1 DEF Continue, Idle
  <2>3. store \in [Days -> Files]
    BY <1>1 DEF FilesInv, TypeOK
  <2>4. \A d \in Days : /\ store'[d].by = store[d].by /\ store'[d].ids = store[d].ids
                        /\ store'[d].rows = store[d].rows
    <3>1. store' = store \/ store' = [store EXCEPT ![call.day].labelled = store[call.day].made]
      BY <1>8 DEF LabelDay
    <3> DEFINE f == [store[call.day] EXCEPT !.labelled = store[call.day].made]
    <3>2. f.by = store[call.day].by /\ f.ids = store[call.day].ids /\ f.rows = store[call.day].rows
      BY <2>1, <2>3 DEF Files
    <3>3. store' = store \/ store' = [store EXCEPT ![call.day] = f]
      BY <3>1
    <3> HIDE DEF f
    <3> QED
      BY <2>1, <2>3, <3>2, <3>3
  <2> QED
    BY <1>1, <1>2, <2>1, <2>2, <2>4, NoMoreFiles, NothingTrained DEF FrameGrouped
<1>9. CASE WriteBack
  <2>1. last' = last /\ calls' = calls /\ call.kind = "cluster"
    BY <1>9 DEF WriteBack
  <2>2. CASE call.day \in DOMAIN call.frame
    BY <1>2, <1>9, <2>1, <2>2, WriteBackGroups, NothingTrained
  <2>3. CASE call.day \notin DOMAIN call.frame
    <3>1. store' = store
      BY <1>9, <2>3 DEF WriteBack
    <3>2. call'.kind = "cluster" => call'.frame = call.frame
      BY <1>9 DEF WriteBack, Continue, Idle
    <3>3. FrameGrouped'
      BY <2>1, <3>1, <3>2 DEF TrainingInv, FrameGrouped
    <3> QED
      BY <1>1, <1>2, <2>1, <3>1, <3>3, NoMoreFiles, NothingTrained
  <2> QED
    BY <2>2, <2>3
<1>10. CASE Cut
  <2>1. last' = last /\ calls' = calls /\ store' = store /\ call'.kind = "idle"
    BY <1>10 DEF Cut, Idle
  <2> QED
    BY <1>1, <1>2, <2>1, NoMoreFiles, NothingTrained DEF FrameGrouped
<1>11. CASE UNCHANGED vars
  <2>1. last' = last /\ calls' = calls /\ store' = store /\ call' = call
    BY <1>11 DEF vars
  <2>2. FrameGrouped'
    BY <2>1 DEF TrainingInv, FrameGrouped
  <2> QED
    BY <1>1, <1>2, <2>1, <2>2, NoMoreFiles, NothingTrained
<1> QED
  BY <1>4, <1>5, <1>6, <1>7, <1>8, <1>9, <1>10, <1>11 DEF Next

\* Whatever is extracted, labelled and clustered in between: a training of
\* files that one clustering was the last to write fits every model to that
\* clustering alone (pipeline.py:86, trainer.py:296).  It rests on a regime too
\* small to cluster being too small to train (ThresholdAssumption).
THEOREM TrainingsHold == Spec => []TrainingIsCoherent
<1>1. TrainingInv => TrainingIsCoherent
  BY DEF TrainingInv
<1> QED
  BY <1>1, InitTraining, TrainingStep, PTL DEF Spec

\* Every model of every training is scored on purged folds that are sound
\* (_purged_wf_splits).
THEOREM FoldsHold == Spec => []FoldsAreSound
<1>1. TrainingInv => FoldsAreSound
  BY FoldsOfEveryTraining DEF TrainingInv, FoldsAreSound
<1> QED
  BY <1>1, InitTraining, TrainingStep, PTL DEF Spec
===============================================================================
