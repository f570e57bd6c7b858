--------------------------- MODULE OrderWorkerProofs ---------------------------
(* What holds of OrderWorker for every set of symbols, every bound and both   *)
(* modes.  A step that only moves the worker, the queue or the exchange leaves *)
(* the book of open orders alone; the five that touch it are taken one by one. *)
EXTENDS OrderWorker, FiniteSetTheorems, TLAPS

\* The part of TypeOK that the book rests on.
BookTypes ==
  /\ queue \in Seq(Request)
  /\ pc \in {"loop", "get", "placing", "placed", "failed", "dead"}
  /\ req \in Seq(Request)
  /\ pc \in {"placing", "placed"} => Len(req) = 1
  /\ asked \in Seq(Request)
  /\ table \in Seq(Status) /\ Len(table) = Len(asked)
  /\ openOrders \subseteq OrderIds /\ restored \subseteq openOrders
  /\ recording \subseteq OrderIds

\* The order the worker is recording is the newest one and not open yet.
NewestIsNotOpen ==
  pc = "placed" =>
    /\ Len(asked) > 0
    /\ asked[Len(asked)] = req[1]
    /\ Len(asked) \notin openOrders /\ Len(asked) \notin recording

\* The answer of the duplicate filter is still right when it is acted upon.
NoEntryAwaited ==
  pc \in {"placing", "placed"} => ~IsEntryDedup(req[1])

\* An order whose fill is being recorded is not open.
RecordingIsClosed == recording \intersect openOrders = {}

\* The inductive invariant behind the duplicate filter.
BookInv ==
  /\ BookTypes
  /\ NewestIsNotOpen
  /\ NoEntryAwaited
  /\ RecordingIsClosed
  /\ EntriesAreUnique

bookVars == <<queue, pc, req, asked, table, openOrders, restored, recording>>

LEMMA BookInit == Init => BookInv
  BY DEF Init, BookInv, BookTypes, NewestIsNotOpen, NoEntryAwaited, RecordingIsClosed,
         EntriesAreUnique, Entries, OrderIds

\* What the invariant says depends on the book alone.
LEMMA BookUnchanged == ASSUME BookInv, UNCHANGED bookVars PROVE BookInv'
  BY DEF bookVars, BookInv, BookTypes, NewestIsNotOpen, NoEntryAwaited, RecordingIsClosed,
         EntriesAreUnique, Entries, OrderIds, Role, IsEntryDedup

\* A request joins the queue.
LEMMA BookPost == ASSUME BookInv, Post PROVE BookInv'
<1> USE DEF BookInv
<1>1. queue' \in Seq(Request)
  BY DEF Post, BookTypes
<1>2. UNCHANGED <<pc, req, asked, table, openOrders, restored, recording>>
  BY DEF Post, ledgerVars, exchangeVars, tableVars
<1> QED
  BY <1>1, <1>2 DEF BookTypes, NewestIsNotOpen, NoEntryAwaited, RecordingIsClosed,
         EntriesAreUnique, Entries, OrderIds, Role, IsEntryDedup

\* The exchange takes an order on: the ids of the others, and what is known
\* of them, stay.
LEMMA Accepted ==
  ASSUME BookInv, NEW r \in Request, Accept(r)
  PROVE  /\ asked' \in Seq(Request) /\ table' \in Seq(Status) /\ Len(table') = Len(asked')
         /\ Len(asked') = Len(asked) + 1 /\ asked'[Len(asked')] = r
         /\ \A id \in OrderIds : id \in DOMAIN asked' /\ asked'[id] = asked[id]
         /\ Len(asked') \notin OrderIds
  BY DEF BookInv, BookTypes, Accept, Status, OrderIds

\* After it, the book is right if only the worker's place and request change.
LEMMA BookAccept ==
  ASSUME BookInv, NEW r \in Request, Accept(r),
         UNCHANGED <<openOrders, restored, recording>>
  PROVE  /\ openOrders' \subseteq OrderIds' /\ recording' \subseteq OrderIds'
         /\ restored' \subseteq openOrders'
         /\ Len(asked') \notin openOrders' /\ Len(asked') \notin recording'
         /\ \A q : IsEntryDedup(q)' <=> IsEntryDedup(q)
         /\ RecordingIsClosed' /\ EntriesAreUnique'
<1>1. openOrders \subseteq OrderIds /\ recording \subseteq OrderIds /\ restored \subseteq openOrders
  BY DEF BookInv, BookTypes
<1>2. \A id \in OrderIds : id \in OrderIds' /\ asked'[id] = asked[id]
  BY Accepted DEF OrderIds
<1>3. Len(asked') \notin OrderIds
  BY Accepted
<1>4. \A id \in openOrders : Role(id)' = Role(id) /\ asked'[id] = asked[id]
  BY <1>1, <1>2 DEF Role
<1>5. \A q : IsEntryDedup(q)' <=> IsEntryDedup(q)
  BY <1>4 DEF IsEntryDedup
<1>6. \A s \in Symbols : Entries(s)' = Entries(s)
  BY <1>4 DEF Entries
<1>7. EntriesAreUnique'
  BY <1>1, <1>2, <1>6 DEF BookInv, EntriesAreUnique, Entries
<1> QED
  BY <1>1, <1>2, <1>3, <1>5, <1>7 DEF BookInv, RecordingIsClosed

LEMMA BookProcess == ASSUME BookInv, Process PROVE BookInv'
<1>0. PICK r : r = Head(queue)
  OBVIOUS
<1>1. r \in Request /\ queue' \in Seq(Request)
  BY <1>0 DEF Process, BookInv, BookTypes
<1>2. UNCHANGED <<openOrders, restored, recording>> /\ pc = "get"
  BY DEF Process, ledgerVars
<1>3. CASE Discarded(r) /\ pc' = "loop" /\ UNCHANGED <<req, asked, table>>
  BY <1>1, <1>2, <1>3 DEF BookInv, BookTypes, NewestIsNotOpen, NoEntryAwaited, RecordingIsClosed,
         EntriesAreUnique, Entries, OrderIds, Role, IsEntryDedup
<1>4. CASE ~Discarded(r) /\ Accept(r) /\ pc' = "placed" /\ req' = <<r>>
  <2>1. ~IsEntryDedup(r)'
    BY <1>1, <1>2, <1>4, BookAccept DEF Discarded
  <2>3. req' \in Seq(Request) /\ Len(req') = 1 /\ req'[1] = r
    BY <1>1, <1>4
  <2>2. NoEntryAwaited'
    BY <2>1, <2>3 DEF NoEntryAwaited, IsEntryDedup, Role
  <2>4. BookTypes'
    BY <1>1, <1>2, <1>4, <2>3, Accepted, BookAccept DEF BookTypes
  <2>5. NewestIsNotOpen'
    <3>1. asked \in Seq(Request)  BY DEF BookInv, BookTypes
    <3> QED BY <1>1, <1>2, <1>4, <2>3, <3>1, Accepted, BookAccept DEF NewestIsNotOpen
  <2> QED BY <1>1, <1>2, <1>4, <2>2, <2>4, <2>5, BookAccept DEF BookInv
<1>5. CASE ~Discarded(r) /\ pc' = "placing" /\ req' = <<r>> /\ UNCHANGED <<asked, table>>
  <2>1. req' \in Seq(Request) /\ Len(req') = 1 /\ req'[1] = r
    BY <1>1, <1>5
  <2>2. NoEntryAwaited'
    BY <1>2, <1>5, <2>1 DEF NoEntryAwaited, Discarded, IsEntryDedup, Role
  <2> QED
    BY <1>1, <1>2, <1>5, <2>1, <2>2 DEF BookInv, BookTypes, NewestIsNotOpen, RecordingIsClosed,
         EntriesAreUnique, Entries, OrderIds, Role
<1> QED BY <1>0, <1>3, <1>4, <1>5 DEF Process

LEMMA BookAnswer == ASSUME BookInv, Answer PROVE BookInv'
<1>1. pc = "placing" /\ req \in Seq(Request) /\ Len(req) = 1
  BY DEF Answer, BookInv, BookTypes
<1>2. PICK r \in Request : r = req[1]
  BY <1>1
<1>3. UNCHANGED <<openOrders, restored, recording, queue>>
  BY DEF Answer, ledgerVars
<1>4. asked \in Seq(Request)  BY DEF BookInv, BookTypes
<1>5. CASE Accept(r) /\ pc' \in {"placed", "failed", "dead"}
           /\ (pc' # "dead" => req' = req) /\ (pc' = "dead" => req' = <<>>)
  <2>1. ~IsEntryDedup(r)'
    <3>1. ~IsEntryDedup(r)  BY <1>1, <1>2 DEF BookInv, NoEntryAwaited
    <3> QED BY <1>3, <1>5, <3>1, BookAccept
  <2>2. NoEntryAwaited'
    BY <1>2, <1>5, <2>1 DEF NoEntryAwaited, IsEntryDedup, Role
  <2>3. BookTypes'
    <3>0. queue' \in Seq(Request)
      BY <1>3 DEF BookInv, BookTypes
    <3>1. req' \in Seq(Request)
      <4>1. CASE pc' = "dead"
        <5>1. <<>> \in Seq(Request)  OBVIOUS
        <5> QED BY <1>5, <4>1, <5>1
      <4> QED BY <1>1, <1>5, <4>1
    <3> QED BY <1>1, <1>3, <1>5, <3>0, <3>1, Accepted, BookAccept DEF BookTypes
  <2>4. NewestIsNotOpen'
    BY <1>2, <1>3, <1>4, <1>5, Accepted, BookAccept DEF NewestIsNotOpen
  <2> QED BY <1>3, <1>5, <2>2, <2>3, <2>4, BookAccept DEF BookInv
<1>6. CASE pc' = "failed" /\ UNCHANGED <<req, asked, table>>
  BY <1>1, <1>3, <1>6 DEF BookInv, BookTypes, NewestIsNotOpen, NoEntryAwaited, RecordingIsClosed,
         EntriesAreUnique, Entries, OrderIds, Role, IsEntryDedup
<1> QED BY <1>2, <1>5, <1>6 DEF Answer

\* The one step that opens an order of the thread's own.
LEMMA BookRecordPlaced == ASSUME BookInv, RecordPlaced PROVE BookInv'
<1> DEFINE new == Len(asked)
<1>1. /\ pc = "placed" /\ pc' = "loop" /\ req' = <<>>
      /\ openOrders' = openOrders \union {new}
      /\ UNCHANGED <<queue, asked, restored, recording>>
      /\ \/ table' = table
         \/ table' = [table EXCEPT ![new] = "placed"]
  BY DEF RecordPlaced, Written, exchangeVars
<1>2. /\ asked \in Seq(Request) /\ new > 0 /\ new \notin openOrders /\ new \notin recording
      /\ asked[new] = req[1] /\ new \in OrderIds
  BY <1>1 DEF BookInv, BookTypes, NewestIsNotOpen, OrderIds
<1>3. table' \in Seq(Status) /\ Len(table') = Len(asked')
  BY <1>1, <1>2 DEF BookInv, BookTypes, Status
<1>4. BookTypes'
  BY <1>1, <1>2, <1>3 DEF BookInv, BookTypes, OrderIds
<1>5. EntriesAreUnique'
  <2>1. ~IsEntryDedup(asked[new])
    BY <1>1, <1>2 DEF BookInv, NoEntryAwaited
  <2>2. SUFFICES ASSUME NEW s \in Symbols, NEW a \in Entries(s)', NEW b \in Entries(s)',
                        asked[a].side = asked[b].side
                 PROVE  a = b
    BY <1>1 DEF EntriesAreUnique
  <2>3. \A id : Role(id)' = Role(id)
    BY <1>1 DEF Role
  <2>4. \A id \in Entries(s)' : id \in Entries(s) \/ id = new
    BY <1>1, <2>3 DEF Entries
  <2>5. new \notin restored
    BY <1>2 DEF BookInv, BookTypes
  <2>6. \A id \in Entries(s) : new \in Entries(s)' => asked[id].side # asked[new].side
    BY <1>1, <2>1, <2>3, <2>5 DEF Entries, IsEntryDedup, Role
  <2> QED BY <2>2, <2>4, <2>6 DEF BookInv, EntriesAreUnique
<1> QED
  BY <1>1, <1>2, <1>4, <1>5 DEF BookInv, NewestIsNotOpen, NoEntryAwaited, RecordingIsClosed

\* A fill closes its order: fewer orders are open, the others are as before.
LEMMA BookHandleFill == ASSUME BookInv, NEW id, HandleFill(id) PROVE BookInv'
<1>1. UNCHANGED <<queue, pc, req, asked, table>>
  BY DEF HandleFill, workerVars
<1>2. CASE UNCHANGED <<openOrders, restored, recording>>
  BY <1>1, <1>2, BookUnchanged DEF bookVars
<1>3. CASE /\ id \in openOrders
           /\ openOrders' = openOrders \ {id} /\ restored' = restored \ {id}
           /\ recording' = recording \union {id}
  <2>1. \A o \in openOrders' : Role(o)' = Role(o)
    BY <1>1, <1>3 DEF Role
  <2>2. BookTypes'
    BY <1>1, <1>3 DEF BookInv, BookTypes, OrderIds
  <2>3. NewestIsNotOpen'
    BY <1>1, <1>3 DEF BookInv, NewestIsNotOpen
  <2>4. PICK r : r = req[1]  OBVIOUS
  <2>5. NoEntryAwaited'
    <3>1. IsEntryDedup(r)' => IsEntryDedup(r)
      BY <1>1, <1>3, <2>1 DEF IsEntryDedup
    <3>2. req'[1] = r  BY <1>1, <2>4
    <3>3. IsEntryDedup(req[1])' => IsEntryDedup(r)'
      BY <3>2 DEF IsEntryDedup, Role
    <3> QED BY <1>1, <2>4, <3>1, <3>3 DEF BookInv, NoEntryAwaited
  <2>6. \A s \in Symbols : Entries(s)' \subseteq Entries(s)
    BY <1>1, <1>3, <2>1 DEF Entries
  <2>7. EntriesAreUnique'
    BY <1>1, <2>6 DEF BookInv, EntriesAreUnique
  <2> QED BY <1>3, <2>2, <2>3, <2>5, <2>7 DEF BookInv, RecordingIsClosed
<1> QED BY <1>2, <1>3 DEF HandleFill, ledgerVars

\* A row is written: the book is as before, only the table is not.
LEMMA BookTable ==
  ASSUME BookInv, UNCHANGED <<queue, pc, req, asked, openOrders, restored>>,
         recording' \subseteq recording,
         table' \in Seq(Status), Len(table') = Len(asked)
  PROVE  BookInv'
  BY DEF BookInv, BookTypes, NewestIsNotOpen, NoEntryAwaited, RecordingIsClosed,
         EntriesAreUnique, Entries, OrderIds, Role, IsEntryDedup

LEMMA BookRecordFilled == ASSUME BookInv, NEW id, RecordFilled(id) PROVE BookInv'
<1>1. /\ UNCHANGED <<queue, pc, req, asked, openOrders, restored>>
      /\ recording' = recording \ {id}
      /\ table' = table \/ table' = [table EXCEPT ![id] = "filled"]
  BY DEF RecordFilled, Written, workerVars, ledgerVars, exchangeVars
<1>2. table' \in Seq(Status) /\ Len(table') = Len(asked)
  BY SMTT(30), <1>1 DEF BookInv, BookTypes, Status
<1> QED BY <1>1, <1>2, BookTable

\* The end of a thread leaves no book behind.
LEMMA BookEndThread == ASSUME BookInv, EndThread PROVE BookInv'
<1>1. /\ queue' = <<>> /\ pc' = "loop" /\ req' = <<>> /\ asked' = asked
      /\ openOrders' = {} /\ restored' = {} /\ recording' = {}
  BY DEF EndThread
<1>2. table' \in Seq(Status) /\ Len(table') = Len(asked)
  <2>1. PICK done \in SUBSET recording, last \in BOOLEAN :
          table' = [id \in DOMAIN table |->
                      CASE id \in done -> "filled"
                        [] last /\ id = Len(asked) -> "placed"
                        [] OTHER -> table[id]]
    BY DEF EndThread
  <2>2. \A id \in DOMAIN table : table[id] \in Status
    BY DEF BookInv, BookTypes
  <2>3. table' \in [1..Len(table) -> Status]
    <3>1. DOMAIN table = 1..Len(table)  BY DEF BookInv, BookTypes
    <3>2. \A id \in DOMAIN table : table'[id] \in Status
      BY <2>1, <2>2 DEF Status
    <3> QED BY <2>1, <3>1, <3>2
  <2> QED BY <2>3 DEF BookInv, BookTypes
<1> QED
  BY <1>1, <1>2 DEF BookInv, BookTypes, NewestIsNotOpen, NoEntryAwaited, RecordingIsClosed,
         EntriesAreUnique, Entries, OrderIds

\* What is restored is known by no role, so no entry of the new thread is open.
LEMMA BookRestore ==
  ASSUME BookInv, NEW ids \in SUBSET OrderIds, Restore(ids), ids \intersect recording = {},
         pc # "placed", pc # "placing",
         UNCHANGED <<queue, pc, req, asked, table, recording>>
  PROVE  BookInv'
<1>1. openOrders' = ids /\ restored' = ids
  BY DEF Restore
<1>2. \A s \in Symbols : Entries(s)' = {}
  BY <1>1 DEF Entries, Role
<1> QED
  BY <1>1, <1>2 DEF BookInv, BookTypes, NewestIsNotOpen, NoEntryAwaited, RecordingIsClosed,
         EntriesAreUnique, OrderIds

\* While the thread is down its worker waits for nothing.
DownIsIdle == ~up => pc = "loop" /\ recording = {}

LEMMA BookStart == ASSUME BookInv, DownIsIdle, Start PROVE BookInv'
<1>1. /\ pc = "loop" /\ recording = {}
      /\ UNCHANGED <<queue, pc, req, asked, table, recording>>
  BY DEF Start, DownIsIdle, workerVars, exchangeVars
<1>2. Nonterminal \subseteq OrderIds  BY DEF Nonterminal
<1>3. PICK ids \in SUBSET OrderIds : Restore(ids)
  <2>1. CASE Restore(Nonterminal)  BY <1>2, <2>1
  <2>2. CASE Restore(Nonterminal \intersect working)  BY <1>2, <2>2
  <2>3. CASE Restore({})  BY <2>3
  <2> QED BY <2>1, <2>2, <2>3 DEF Start
<1> QED BY <1>1, <1>3, BookRestore

LEMMA DownStep == ASSUME DownIsIdle, [Next]_vars PROVE DownIsIdle'
<1>1. CASE UNCHANGED vars
  BY <1>1 DEF DownIsIdle, vars, workerVars, tableVars, controlVars
<1>2. CASE Post
  BY <1>2 DEF DownIsIdle, Post, controlVars
<1>3. CASE WorkerNext
  BY <1>3 DEF DownIsIdle, WorkerNext, EnterGet, GetTimesOut, Process, Answer, RecordPlaced,
              RecordFailed, controlVars
<1>4. CASE FillNext
  BY <1>4 DEF DownIsIdle, FillNext, Fill, HandleFill, RecordFilled, workerVars, tableVars,
              controlVars
<1>5. CASE Stop \/ EndThread \/ Start
  BY <1>5 DEF DownIsIdle, Stop, EndThread, Start, workerVars, tableVars
<1> QED BY <1>1, <1>2, <1>3, <1>4, <1>5 DEF Next

LEMMA BookStep == ASSUME BookInv, DownIsIdle, [Next]_vars PROVE BookInv'
<1>1. CASE UNCHANGED vars
  BY <1>1, BookUnchanged DEF vars, workerVars, ledgerVars, exchangeVars, tableVars, bookVars
<1>2. CASE Post  BY <1>2, BookPost
<1>3. CASE WorkerNext
  <2>1. CASE EnterGet \/ GetTimesOut
    BY <2>1 DEF EnterGet, GetTimesOut, ledgerVars, exchangeVars, tableVars, BookInv, BookTypes,
         NewestIsNotOpen, NoEntryAwaited, RecordingIsClosed, EntriesAreUnique, Entries, OrderIds,
         Role
  <2>2. CASE Process  BY <2>2, BookProcess
  <2>3. CASE Answer  BY <2>3, BookAnswer
  <2>4. CASE RecordPlaced  BY <2>4, BookRecordPlaced
  <2>5. CASE RecordFailed
    <3>1. req' \in Seq(Request)
      <4>1. <<>> \in Seq(Request)  OBVIOUS
      <4> QED BY <2>5, <4>1 DEF RecordFailed
    <3> QED
      BY <2>5, <3>1 DEF RecordFailed, ledgerVars, exchangeVars, tableVars, BookInv, BookTypes,
         NewestIsNotOpen, NoEntryAwaited, RecordingIsClosed, EntriesAreUnique, Entries, OrderIds,
         Role
  <2> QED BY <1>3, <2>1, <2>2, <2>3, <2>4, <2>5 DEF WorkerNext
<1>4. CASE FillNext
  <2>1. ASSUME NEW id, Fill(id) PROVE BookInv'
    BY <2>1, BookUnchanged DEF Fill, workerVars, ledgerVars, tableVars, bookVars
  <2> QED BY <1>4, <2>1, BookHandleFill, BookRecordFilled DEF FillNext
<1>5. CASE Stop
  BY <1>5, BookUnchanged DEF Stop, workerVars, ledgerVars, exchangeVars, tableVars, bookVars
<1>6. CASE EndThread  BY <1>6, BookEndThread
<1>7. CASE Start  BY <1>7, BookStart
<1> QED BY <1>1, <1>2, <1>3, <1>4, <1>5, <1>6, <1>7 DEF Next

\* The invariant holds throughout.
LEMMA BookAlways == Spec => [](BookInv /\ DownIsIdle)
<1>1. Init => DownIsIdle  BY DEF Init, DownIsIdle
<1> QED BY <1>1, BookInit, BookStep, DownStep, PTL DEF Spec

\* Two entries of one symbol and side that the same thread placed are never
\* open at once: the check of _is_entry_dedup outlives both awaits.
THEOREM DuplicateFilterIsSound == Spec => []EntriesAreUnique
<1>1. BookInv => EntriesAreUnique  BY DEF BookInv
<1> QED BY <1>1, BookAlways, PTL

(* Crash safety, when the table takes every row.                              *)

LEMMA RecoverableStep ==
  ASSUME ~WritesMayFail, BookInv, OpenOrdersAreRecoverable, [Next]_vars
  PROVE  OpenOrdersAreRecoverable'
<1>0. /\ table \in Seq(Status) /\ openOrders \subseteq DOMAIN table
  BY DEF BookInv, BookTypes, OrderIds
<1>1. CASE UNCHANGED <<openOrders, table>>
  BY <1>1 DEF OpenOrdersAreRecoverable
<1>2. CASE RecordPlaced
  <2>1. Len(asked) \in DOMAIN table
    BY <1>2 DEF RecordPlaced, BookInv, BookTypes, NewestIsNotOpen
  <2> QED BY <1>0, <1>2, <2>1 DEF RecordPlaced, Written, OpenOrdersAreRecoverable
<1>3. ASSUME NEW id, HandleFill(id) PROVE OpenOrdersAreRecoverable'
  BY <1>3 DEF HandleFill, ledgerVars, OpenOrdersAreRecoverable
<1>4. ASSUME NEW id \in recording, RecordFilled(id) PROVE OpenOrdersAreRecoverable'
  <2>1. id \notin openOrders  BY DEF BookInv, RecordingIsClosed
  <2> QED
    BY <1>0, <1>4, <2>1 DEF RecordFilled, Written, ledgerVars, OpenOrdersAreRecoverable
<1>5. CASE EndThread
  BY <1>5 DEF EndThread, OpenOrdersAreRecoverable
<1>6. CASE Start
  BY <1>6 DEF Start, Restore, Nonterminal, OpenOrdersAreRecoverable
<1>7. ASSUME NEW r, Accept(r), openOrders' = openOrders PROVE OpenOrdersAreRecoverable'
  <2>1. \A id \in DOMAIN table : table'[id] = table[id]
    BY <1>0, <1>7 DEF Accept
  <2> QED BY <1>0, <1>7, <2>1 DEF OpenOrdersAreRecoverable
<1>8. CASE Process \/ Answer
  BY <1>1, <1>7, <1>8 DEF Process, Answer, ledgerVars
<1>9. CASE UNCHANGED vars \/ Post \/ EnterGet \/ GetTimesOut \/ RecordFailed \/ Stop
           \/ \E id \in working : Fill(id)
  <2>1. UNCHANGED <<openOrders, table>>
    BY <1>9 DEF vars, Post, EnterGet, GetTimesOut, RecordFailed, Stop, Fill, ledgerVars, tableVars
  <2> QED BY <1>1, <2>1
<1> QED
  BY <1>2, <1>3, <1>4, <1>5, <1>6, <1>8, <1>9 DEF Next, WorkerNext, FillNext

\* If no row is lost, every open order is non-terminal in the table at every
\* await, so that whenever the thread ends reconciliation can find it.
THEOREM CrashSafety ==
  ASSUME ~WritesMayFail PROVE Spec => []OpenOrdersAreRecoverable
<1>1. Init => OpenOrdersAreRecoverable  BY DEF Init, OpenOrdersAreRecoverable
<1>2. BookInv /\ OpenOrdersAreRecoverable /\ [Next]_vars => OpenOrdersAreRecoverable'
  BY RecoverableStep
<1> QED BY <1>1, <1>2, BookAlways, PTL DEF Spec
------------------------------------------------------------------------------
(* Totals.                                                                   *)

\* A total of bounded numbers is a number.
LEMMA TotalType ==
  ASSUME NEW S, IsFiniteSet(S), NEW N \in Nat, NEW f, \A x \in S : f[x] \in 0..N
  PROVE  IsFiniteSet(Copies(f, S)) /\ Total(f, S) \in Nat
<1>1. Copies(f, S) \subseteq S \X (1..N)
  BY DEF Copies
<1>2. IsFiniteSet(S \X (1..N))
  <2>1. IsFiniteSet(1..N)
    BY FS_Interval
  <2> QED
    BY <2>1, FS_Product
<1>3. IsFiniteSet(Copies(f, S))
  BY <1>1, <1>2, FS_Subset
<1> QED
  BY <1>3, FS_CardinalityType DEF Total

\* A part of the members has a part of the total.
LEMMA TotalOfPart ==
  ASSUME NEW S, IsFiniteSet(S), NEW N \in Nat, NEW f, \A x \in S : f[x] \in 0..N,
         NEW T \in SUBSET S, NEW g, \A x \in T : g[x] = f[x]
  PROVE  Total(g, T) \in Nat /\ Total(g, T) <= Total(f, S)
<1>1. IsFiniteSet(T) /\ \A x \in T : g[x] \in 0..N
  BY FS_Subset
<1>2. Copies(g, T) \subseteq Copies(f, S)
  BY DEF Copies
<1>3. IsFiniteSet(Copies(f, S))
  BY TotalType
<1> QED
  BY <1>1, <1>2, <1>3, TotalType, FS_Subset DEF Total

\* A member more adds its number.
LEMMA TotalWithOneMore ==
  ASSUME NEW S, IsFiniteSet(S), NEW N \in Nat, NEW f, \A x \in S : f[x] \in 0..N,
         NEW z, z \notin S, NEW g, \A x \in S : g[x] = f[x], g[z] \in 0..N
  PROVE  Total(g, S \union {z}) = Total(f, S) + g[z]
<1> DEFINE own == {z} \X (1..g[z])
<1>1. Copies(g, S \union {z}) = Copies(f, S) \union own
  BY DEF Copies
<1>2. Copies(f, S) \intersect own = {}
  BY DEF Copies
<1>3. IsFiniteSet(own) /\ Cardinality(own) = g[z]
  <2>1. IsFiniteSet(1..g[z]) /\ Cardinality(1..g[z]) = g[z]
    <3>1. PICK n \in 0..N : n = g[z]
      OBVIOUS
    <3>2. n \in Int /\ 1 \in Int
      OBVIOUS
    <3>3. IsFiniteSet(1..n) /\ Cardinality(1..n) = IF 1 > n THEN 0 ELSE n - 1 + 1
      BY <3>2, FS_Interval
    <3> QED
      BY <3>1, <3>3
  <2>2. IsFiniteSet({z}) /\ Cardinality({z}) = 1
    BY FS_Singleton
  <2>3. IsFiniteSet(own) /\ Cardinality(own) = Cardinality({z}) * Cardinality(1..g[z])
    BY <2>1, <2>2, FS_Product
  <2> QED
    BY <2>1, <2>2, <2>3
<1>4. IsFiniteSet(Copies(f, S)) /\ Total(f, S) \in Nat
  BY TotalType
<1> HIDE DEF own
<1>5. Cardinality(Copies(f, S) \union own)
        = Cardinality(Copies(f, S)) + Cardinality(own) - Cardinality(Copies(f, S) \intersect own)
  BY <1>3, <1>4, FS_Union
<1>6. Cardinality(Copies(f, S) \intersect own) = 0
  BY <1>2, FS_EmptySet
<1>7. Cardinality(Copies(f, S) \union own) = Total(f, S) + g[z]
  <2>1. g[z] \in Nat
    OBVIOUS
  <2> QED
    BY <1>3, <1>4, <1>5, <1>6, <2>1 DEF Total
<1> QED
  BY <1>1, <1>7 DEF Total
------------------------------------------------------------------------------
(* The account of the gate.                                                  *)

OpenIn(s) == {id \in openOrders : asked[id].symbol = s}

\* What the gate found when it let an entry pass still holds when the entry is
\* opened: fills only make room.
AwaitedFits ==
  pc \in {"placing", "placed"} /\ req[1].role = "entry" =>
    notional[req[1].symbol] + req[1].size <= MaxPosition

GateInv == BookInv /\ DownIsIdle /\ GateIsSound /\ AwaitedFits

\* Sizes of orders the exchange knows are bounded, sets of them finite.
LEMMA SizesAreBounded ==
  ASSUME TypeOK, NEW ids \in SUBSET OrderIds
  PROVE  /\ IsFiniteSet(ids) /\ MaxSize \in Nat /\ SizesOf(ids) \in Nat
         /\ \A id \in ids : asked[id].size \in 0..MaxSize /\ [o \in ids |-> asked[o].size][id] = asked[id].size
<1>1. asked \in Seq(Request) /\ OrderIds = 1..Len(asked)
  BY DEF TypeOK, OrderIds
<1>2. IsFiniteSet(OrderIds)
  BY <1>1, FS_Interval
<1>3. IsFiniteSet(ids)
  BY <1>2, FS_Subset
<1>4. \A id \in ids : asked[id] \in Request
  BY <1>1
<1>5. MaxSize \in Nat
  BY ParametersAreSane
<1>6. \A id \in ids : asked[id].size \in 0..MaxSize
  BY <1>4, <1>5 DEF Request
<1>7. \A id \in ids : [o \in ids |-> asked[o].size][id] = asked[id].size
  OBVIOUS
<1> HIDE DEF OrderIds
<1>8. SizesOf(ids) \in Nat
  BY <1>3, <1>5, <1>6, <1>7, TotalType DEF SizesOf
<1> QED
  BY <1>3, <1>5, <1>6, <1>7, <1>8

\* The sizes of some of the orders, when asked has only grown.
LEMMA SizesOfPart ==
  ASSUME TypeOK, NEW ids \in SUBSET OrderIds, NEW part \in SUBSET ids,
         \A id \in part : asked'[id] = asked[id]
  PROVE  SizesOf(part)' \in Nat /\ SizesOf(part)' <= SizesOf(ids)
<1> DEFINE f == [id \in ids |-> asked[id].size]
           g == [id \in part |-> asked'[id].size]
<1>1. \A id \in part : g[id] = f[id]
  OBVIOUS
<1>2. \A id \in ids : f[id] \in 0..MaxSize
  BY SizesAreBounded
<1>3. IsFiniteSet(ids) /\ MaxSize \in Nat
  BY SizesAreBounded
<1> HIDE DEF f, g
<1>4. Total(g, part) \in Nat /\ Total(g, part) <= Total(f, ids)
  BY <1>1, <1>2, <1>3, TotalOfPart
<1> QED
  BY <1>4 DEF f, g, SizesOf

LEMMA SizesUnchanged ==
  ASSUME NEW ids, \A id \in ids : asked'[id] = asked[id]
  PROVE  SizesOf(ids)' = SizesOf(ids)
BY DEF SizesOf

\* An order more adds its size.
LEMMA SizesWithOneMore ==
  ASSUME TypeOK, NEW ids \in SUBSET OrderIds, NEW new \in OrderIds, new \notin ids
  PROVE  SizesOf(ids \union {new}) = SizesOf(ids) + asked[new].size
<1> DEFINE all == ids \union {new}
           f == [id \in ids |-> asked[id].size]
           g == [id \in all |-> asked[id].size]
<1>1. \A id \in ids : g[id] = f[id]
  OBVIOUS
<1>2. \A id \in ids : f[id] \in 0..MaxSize
  BY SizesAreBounded
<1>3. IsFiniteSet(ids) /\ MaxSize \in Nat
  BY SizesAreBounded
<1>4. g[new] = asked[new].size
  OBVIOUS
<1>5. asked[new].size \in 0..MaxSize
  <2>1. {new} \in SUBSET OrderIds
    OBVIOUS
  <2> QED
    BY <2>1, SizesAreBounded
<1> HIDE DEF f, g
<1>6. Total(g, ids \union {new}) = Total(f, ids) + g[new]
  BY <1>1, <1>2, <1>3, <1>4, <1>5, TotalWithOneMore
<1> QED
  BY <1>4, <1>6 DEF f, g, SizesOf

LEMMA NoSizes == SizesOf({}) = 0
<1>1. \A f : Copies(f, {}) = {}
  BY DEF Copies
<1> QED
  BY <1>1, FS_EmptySet DEF SizesOf, Total
------------------------------------------------------------------------------
(* Types.                                                                    *)

\* The part of TypeOK that the book says nothing about.
RestTypes ==
  /\ up \in BOOLEAN /\ stopSet \in BOOLEAN /\ tripFired \in BOOLEAN
  /\ Len(req) = IF pc \in {"placing", "placed", "failed"} THEN 1 ELSE 0
  /\ working \subseteq OrderIds /\ fills \subseteq OrderIds /\ alerts \subseteq OrderIds
  /\ notional \in [Symbols -> Nat] /\ qty \in [Symbols -> Nat]
  /\ seen \in Seq(OrderIds) /\ Len(seen) <= SeenCap
  /\ posts \in 0..MaxPosts /\ restarts \in 0..MaxRestarts

LEMMA TypeParts == BookInv => (TypeOK <=> RestTypes)
BY DEF BookInv, BookTypes, NewestIsNotOpen, RestTypes, TypeOK

\* A request has a symbol and a size.
LEMMA RequestType ==
  ASSUME NEW r \in Request PROVE r.symbol \in Symbols /\ r.size \in Nat /\ r.size \in 0..MaxSize
BY ParametersAreSane DEF Request

\* Every step leaves types as they are.
LEMMA TypeStep == ASSUME BookInv, TypeOK, BookInv', [Next]_vars PROVE TypeOK'
<1> SUFFICES RestTypes'
  BY SMTT(30) DEF BookInv, BookTypes, NewestIsNotOpen, RestTypes, TypeOK
<1>0. RestTypes /\ asked \in Seq(Request) /\ openOrders \subseteq OrderIds /\ recording \subseteq OrderIds
      /\ req \in Seq(Request) /\ queue \in Seq(Request)
  BY TypeParts DEF BookInv, BookTypes
<1> USE ParametersAreSane
<1>1. CASE UNCHANGED vars
  BY <1>0, <1>1 DEF RestTypes, OrderIds, vars, workerVars, ledgerVars, exchangeVars, tableVars,
                    controlVars, countVars
<1>2. CASE Post
  BY <1>0, <1>2 DEF RestTypes, OrderIds, Post, ledgerVars, exchangeVars, tableVars, controlVars
<1>3. CASE EnterGet \/ GetTimesOut \/ RecordFailed \/ Stop
  BY <1>0, <1>3 DEF RestTypes, OrderIds, EnterGet, GetTimesOut, RecordFailed, Stop, workerVars,
                    ledgerVars, exchangeVars, tableVars, controlVars, countVars
<1>4. ASSUME NEW r \in Request, Accept(r)
      PROVE  /\ OrderIds \subseteq OrderIds' /\ working' \subseteq OrderIds'
             /\ seen \in Seq(OrderIds')
  <2>1. OrderIds \subseteq OrderIds' /\ Len(asked) + 1 \in OrderIds'
    BY <1>0, <1>4 DEF Accept, OrderIds
  <2>2. working' \subseteq OrderIds'
    BY <1>0, <1>4, <2>1 DEF Accept, RestTypes
  <2>3. seen \in Seq(OrderIds')
    <3>1. seen \in Seq(OrderIds)
      BY <1>0 DEF RestTypes
    <3> HIDE DEF OrderIds
    <3>2. \A i \in 1..Len(seen) : seen[i] \in OrderIds'
      BY <2>1, <3>1
    <3> QED
      BY <3>1, <3>2
  <2> QED
    BY <2>1, <2>2, <2>3
<1>5. CASE Process
  <2>1. PICK r \in Request : r = Head(queue)
    BY <1>0, <1>5 DEF Process
  <2>2. /\ UNCHANGED <<fills, ledgerVars, recording, alerts, controlVars, countVars>>
        /\ pc = "get"
    BY <1>5 DEF Process
  <2>3. CASE pc' = "loop" /\ UNCHANGED <<req, asked, table, working>>
    BY <1>0, <2>2, <2>3 DEF RestTypes, OrderIds, ledgerVars, controlVars, countVars
  <2>4. CASE Accept(r) /\ pc' = "placed" /\ req' = <<r>>
    BY <1>0, <1>4, <2>2, <2>4 DEF RestTypes, ledgerVars, controlVars, countVars
  <2>5. CASE pc' = "placing" /\ req' = <<r>> /\ UNCHANGED <<asked, table, working>>
    BY <1>0, <2>2, <2>5 DEF RestTypes, OrderIds, ledgerVars, controlVars, countVars
  <2> QED
    BY <1>5, <2>1, <2>3, <2>4, <2>5 DEF Process
<1>6. CASE Answer
  <2>1. /\ UNCHANGED <<queue, fills, ledgerVars, recording, alerts, controlVars, countVars>>
        /\ pc = "placing" /\ Len(req) = 1
    BY <1>0, <1>6 DEF Answer, RestTypes
  <2>2. PICK r \in Request : r = req[1]
    <3>1. req \in Seq(Request) /\ Len(req) = 1
      BY <1>0, <2>1
    <3> QED
      BY <3>1
  <2>3. CASE Accept(r) /\ \/ pc' \in {"placed", "failed"} /\ req' = req
                          \/ pc' = "dead" /\ req' = <<>>
    BY <1>0, <1>4, <2>1, <2>3 DEF RestTypes, ledgerVars, controlVars, countVars
  <2>4. CASE pc' = "failed" /\ UNCHANGED <<req, asked, table, working>>
    BY <1>0, <2>1, <2>4 DEF RestTypes, OrderIds, ledgerVars, controlVars, countVars
  <2> QED
    BY <1>6, <2>2, <2>3, <2>4 DEF Answer
<1>7. CASE RecordPlaced
  <2>1. /\ pc = "placed" /\ pc' = "loop" /\ req' = <<>>
        /\ notional' = [notional EXCEPT ![req[1].symbol] = @ + req[1].size]
        /\ UNCHANGED <<queue, restored, qty, seen, exchangeVars, recording, alerts, controlVars,
                       countVars>>
    BY <1>7 DEF RecordPlaced
  <2>2. PICK r \in Request : r = req[1]
    <3>1. req \in Seq(Request) /\ Len(req) = 1
      BY <1>0, <2>1 DEF RestTypes
    <3> QED
      BY <3>1
  <2>3. notional' \in [Symbols -> Nat]
    BY <1>0, <2>1, <2>2, RequestType DEF RestTypes
  <2> QED
    BY <1>0, <2>1, <2>3 DEF RestTypes, OrderIds, exchangeVars, controlVars, countVars
<1>8. ASSUME NEW id \in working, Fill(id) PROVE RestTypes'
  BY <1>0, <1>8 DEF RestTypes, OrderIds, Fill, workerVars, ledgerVars, tableVars, controlVars, countVars
<1>9. ASSUME NEW id \in fills, HandleFill(id) PROVE RestTypes'
  <2>1. /\ fills' = fills \ {id} /\ id \in OrderIds
        /\ UNCHANGED <<asked, working, workerVars, table, alerts, controlVars, countVars>>
    BY <1>0, <1>9 DEF HandleFill, RestTypes
  <2>2. seen' \in Seq(OrderIds) /\ Len(seen') <= SeenCap
    <3>1. CASE seen' = seen
      BY <1>0, <3>1 DEF RestTypes
    <3>2. CASE seen' = Remember(seen, id)
      <4>1. PICK S : S = OrderIds
        OBVIOUS
      <4>2. seen \in Seq(S) /\ id \in S /\ Len(seen) <= SeenCap
        BY <1>0, <2>1, <4>1 DEF RestTypes
      <4>3. CASE Len(seen) = SeenCap
        <5>1. seen # <<>> /\ Tail(seen) \in Seq(S) /\ Len(Tail(seen)) = SeenCap - 1
          BY <4>2, <4>3
        <5> QED
          BY <3>2, <4>1, <4>2, <4>3, <5>1 DEF Remember
      <4>4. CASE Len(seen) # SeenCap
        BY <3>2, <4>1, <4>2, <4>4 DEF Remember
      <4> QED
        BY <4>3, <4>4
    <3> QED
      BY <1>9, <3>1, <3>2 DEF HandleFill, ledgerVars
  <2>3. PICK r \in Request : r = asked[id]
    BY <1>0, <2>1 DEF OrderIds
  <2>4. notional' \in [Symbols -> Nat] /\ qty' \in [Symbols -> Nat]
    <3>1. CASE UNCHANGED <<notional, qty>>
      BY <1>0, <3>1 DEF RestTypes
    <3>2. CASE notional' = [notional EXCEPT ![r.symbol] = Minus(@, r.size)] /\ qty' = UpdatedQty(r)
      BY <1>0, <3>2, RequestType DEF RestTypes, UpdatedQty, Minus
    <3> QED
      BY <1>9, <2>3, <3>1, <3>2 DEF HandleFill, ledgerVars
  <2> QED
    BY <1>0, <2>1, <2>2, <2>4 DEF RestTypes, OrderIds, workerVars, controlVars, countVars
<1>10. ASSUME NEW id \in recording, RecordFilled(id) PROVE RestTypes'
  BY <1>0, <1>10 DEF RestTypes, OrderIds, RecordFilled, workerVars, ledgerVars, exchangeVars, countVars
<1>11. CASE EndThread
  <2>1. /\ pc' = "loop" /\ req' = <<>> /\ fills' = {} /\ seen' = <<>>
        /\ notional' = [s \in Symbols |-> 0] /\ qty' = [s \in Symbols |-> 0]
        /\ working' \subseteq working /\ stopSet' = FALSE /\ tripFired' = FALSE /\ up' = FALSE
        /\ asked' = asked /\ alerts' = alerts /\ posts' = posts
        /\ restarts < MaxRestarts /\ restarts' = restarts + 1
    BY <1>11 DEF EndThread
  <2>2. seen' \in Seq(OrderIds') /\ Len(seen') <= SeenCap /\ Len(req') = 0
    BY <2>1
  <2>3. working' \subseteq OrderIds' /\ alerts' \subseteq OrderIds' /\ fills' \subseteq OrderIds'
    BY <1>0, <2>1 DEF RestTypes, OrderIds
  <2>4. notional' \in [Symbols -> Nat] /\ qty' \in [Symbols -> Nat]
    BY <2>1
  <2>5. restarts' \in 0..MaxRestarts /\ posts' \in 0..MaxPosts
    BY <1>0, <2>1 DEF RestTypes
  <2>6. up' \in BOOLEAN /\ stopSet' \in BOOLEAN /\ tripFired' \in BOOLEAN
    BY <2>1
  <2>7. Len(req') = IF pc' \in {"placing", "placed", "failed"} THEN 1 ELSE 0
    BY <2>1, <2>2
  <2> HIDE DEF OrderIds
  <2> QED
    BY <2>2, <2>3, <2>4, <2>5, <2>6, <2>7 DEF RestTypes
<1>12. CASE Start
  <2>1. /\ UNCHANGED <<stopSet, tripFired, workerVars, qty, seen, exchangeVars, recording, table, countVars>>
        /\ up' = TRUE /\ alerts' \subseteq alerts \union working
    BY <1>12 DEF Start
  <2>2. Nonterminal \in SUBSET OrderIds
    BY DEF Nonterminal
  <2>3. PICK ids \in SUBSET OrderIds : Restore(ids)
    <3>1. CASE Restore(Nonterminal)
      BY <2>2, <3>1
    <3>2. CASE Restore(Nonterminal \intersect working)
      BY <2>2, <3>2
    <3>3. CASE Restore({})
      BY <3>3
    <3> QED
      BY <1>12, <3>1, <3>2, <3>3 DEF Start
  <2>4. notional' \in [Symbols -> Nat]
    <3>1. ASSUME NEW s \in Symbols PROVE SizesOf({id \in ids : asked[id].symbol = s}) \in Nat
      <4>1. {id \in ids : asked[id].symbol = s} \in SUBSET OrderIds
        OBVIOUS
      <4> QED
        BY <4>1, SizesAreBounded
    <3> QED
      BY <2>3, <3>1 DEF Restore
  <2> QED
    BY <1>0, <2>1, <2>4 DEF RestTypes, OrderIds, workerVars, exchangeVars, countVars
<1> QED
  BY <1>1, <1>2, <1>3, <1>5, <1>6, <1>7, <1>8, <1>9, <1>10, <1>11, <1>12 DEF Next, WorkerNext, FillNext
------------------------------------------------------------------------------
(* The account, the gate and the request that waits for its order.           *)

Account == NotionalIsOpenOrders /\ EntriesWithinGate /\ AwaitedFits

\* There is a request while one is placed.
LEMMA RequestAwaited ==
  ASSUME TypeOK, pc \in {"placing", "placed"} PROVE req[1] \in Request
<1>1. req \in Seq(Request) /\ Len(req) = 1
  BY DEF TypeOK
<1> QED
  BY <1>1

LEMMA OpenIsKnown ==
  ASSUME TypeOK, NEW s
  PROVE  OpenIn(s) \in SUBSET OrderIds /\ Entries(s) \in SUBSET OpenIn(s)
BY DEF TypeOK, OpenIn, Entries

\* A step that opens and closes no order.
LEMMA AccountUnchanged ==
  ASSUME GateInv, UNCHANGED <<openOrders, restored, notional>>,
         \A id \in OrderIds : asked'[id] = asked[id]
  PROVE  NotionalIsOpenOrders' /\ EntriesWithinGate'
<1>1. openOrders \subseteq OrderIds
  BY DEF GateInv, BookInv, BookTypes
<1>2. \A s \in Symbols : OpenIn(s)' = OpenIn(s) /\ Entries(s)' = Entries(s)
  BY <1>1 DEF OpenIn, Entries, Role
<1>3. ASSUME NEW s \in Symbols
      PROVE  SizesOf(OpenIn(s))' = SizesOf(OpenIn(s)) /\ SizesOf(Entries(s))' = SizesOf(Entries(s))
  <2>1. \A id \in OpenIn(s) : asked'[id] = asked[id]
    BY <1>1 DEF OpenIn
  <2>2. \A id \in Entries(s) : asked'[id] = asked[id]
    BY <1>1 DEF Entries
  <2>3. \A ids : (\A id \in ids : asked'[id] = asked[id]) => SizesOf(ids)' = SizesOf(ids)
    BY SizesUnchanged
  <2> QED
    BY <1>2, <2>1, <2>2, <2>3
<1> QED
  BY <1>3 DEF GateInv, GateIsSound, NotionalIsOpenOrders, EntriesWithinGate, OpenIn

\* The filters have let a request pass.
LEMMA AccountProcess == ASSUME GateInv, Process PROVE Account'
<1>0. TypeOK /\ BookInv
  BY DEF GateInv, GateIsSound
<1>1. PICK r \in Request : r = Head(queue)
  BY <1>0 DEF Process, TypeOK
<1>2. UNCHANGED <<openOrders, restored, notional>>
  BY DEF Process, ledgerVars
<1>3. \A id \in OrderIds : asked'[id] = asked[id]
  <2>1. Accept(r) \/ asked' = asked
    BY <1>1 DEF Process
  <2> QED
    BY <1>0, <1>1, <2>1, Accepted
<1>4. NotionalIsOpenOrders' /\ EntriesWithinGate'
  BY <1>2, <1>3, AccountUnchanged
<1>5. AwaitedFits'
  <2>1. CASE pc' = "loop"
    BY <2>1 DEF AwaitedFits
  <2>2. CASE ~Discarded(r) /\ req' = <<r>>
    <3>1. req'[1] = r
      BY <2>2
    <3>2. r.role = "entry" => notional'[r.symbol] + r.size <= MaxPosition
      <4>1. notional \in [Symbols -> Nat] /\ r.symbol \in Symbols /\ r.size \in Nat /\ MaxPosition \in Nat
        BY <1>0, RequestType, ParametersAreSane DEF TypeOK
      <4> QED
        BY <1>2, <2>2, <4>1 DEF Discarded, ExceedsRiskGate
    <3> QED
      BY <3>1, <3>2 DEF AwaitedFits
  <2> QED
    BY <1>1, <2>1, <2>2 DEF Process
<1> QED
  BY <1>4, <1>5 DEF Account

\* The answer of the exchange leaves the request what it was.
LEMMA AccountAnswer == ASSUME GateInv, Answer PROVE Account'
<1>0. TypeOK /\ BookInv
  BY DEF GateInv, GateIsSound
<1>1. pc = "placing" /\ req \in Seq(Request) /\ Len(req) = 1
  BY <1>0 DEF Answer, TypeOK
<1>2. PICK r \in Request : r = req[1]
  BY <1>1
<1>3. UNCHANGED <<openOrders, restored, notional>>
  BY DEF Answer, ledgerVars
<1>4. \A id \in OrderIds : asked'[id] = asked[id]
  <2>1. Accept(r) \/ asked' = asked
    BY <1>2 DEF Answer
  <2> QED
    BY <1>0, <1>2, <2>1, Accepted
<1>5. NotionalIsOpenOrders' /\ EntriesWithinGate'
  BY <1>3, <1>4, AccountUnchanged
<1>6. pc' \in {"placing", "placed"} => req' = req
  BY DEF Answer
<1>7. AwaitedFits'
  BY <1>1, <1>3, <1>6 DEF GateInv, AwaitedFits
<1> QED
  BY <1>5, <1>7 DEF Account

\* The order is opened: its size joins the account, which the limit had room for.
LEMMA AccountRecordPlaced == ASSUME GateInv, RecordPlaced PROVE Account'
<1> DEFINE new == Len(asked)
<1>0. TypeOK /\ BookInv /\ NotionalIsOpenOrders /\ EntriesWithinGate /\ AwaitedFits
  BY DEF GateInv, GateIsSound
<1>1. /\ pc = "placed" /\ pc' = "loop"
      /\ openOrders' = openOrders \union {new} /\ restored' = restored /\ asked' = asked
      /\ notional' = [notional EXCEPT ![req[1].symbol] = @ + req[1].size]
  BY DEF RecordPlaced, exchangeVars
<1>2. /\ asked \in Seq(Request) /\ new > 0 /\ new \notin openOrders /\ asked[new] = req[1]
  BY <1>0, <1>1 DEF BookInv, BookTypes, NewestIsNotOpen
<1>3. new \in OrderIds
  BY <1>2 DEF OrderIds
<1>4. PICK r \in Request : r = asked[new] /\ r = req[1]
  BY <1>2
<1>5. r.symbol \in Symbols /\ r.size \in Nat /\ notional \in [Symbols -> Nat] /\ MaxPosition \in Nat
  BY <1>0, RequestType, ParametersAreSane DEF TypeOK
<1> HIDE DEF new
<1>6. ASSUME NEW s \in Symbols
      PROVE  /\ SizesOf(OpenIn(s))' = notional'[s]
             /\ SizesOf(Entries(s))' \in Nat /\ SizesOf(Entries(s))' <= MaxPosition
  <2>1. OpenIn(s) \in SUBSET OrderIds /\ Entries(s) \in SUBSET OpenIn(s) /\ SizesOf(OpenIn(s)) = notional[s]
    BY <1>0, OpenIsKnown DEF NotionalIsOpenOrders, OpenIn
  <2>2. \A ids : SizesOf(ids)' = SizesOf(ids)
    BY <1>1 DEF SizesOf
  <2>3. CASE s = r.symbol
    <3>1. OpenIn(s)' = OpenIn(s) \union {new}
      BY <1>1, <1>4, <2>3 DEF OpenIn
    <3>2. SizesOf(OpenIn(s) \union {new}) = notional[s] + r.size
      <4>1. new \notin OpenIn(s)
        BY <1>2 DEF OpenIn
      <4> QED
        BY <1>0, <1>3, <1>4, <2>1, <4>1, SizesWithOneMore
    <3>3. notional'[s] = notional[s] + r.size
      BY <1>1, <1>4, <1>5, <2>3
    <3>4. SizesOf(OpenIn(s))' = notional'[s]
      BY <2>2, <3>1, <3>2, <3>3
    <3>5. CASE r.role = "entry"
      <4>1. notional[s] + r.size <= MaxPosition
        BY <1>0, <1>1, <1>4, <2>3, <3>5 DEF AwaitedFits
      <4>2. Entries(s)' \in SUBSET (OpenIn(s) \union {new})
        BY <3>1 DEF Entries, OpenIn
      <4>3. OpenIn(s) \union {new} \in SUBSET OrderIds
        BY <1>3, <2>1
      <4>4. \A id \in Entries(s)' : asked'[id] = asked[id]
        BY <1>1
      <4>5. PICK part \in SUBSET (OpenIn(s) \union {new}) : part = Entries(s)'
        BY <4>2
      <4>6. SizesOf(part)' \in Nat /\ SizesOf(part)' <= SizesOf(OpenIn(s) \union {new})
        BY <1>0, <4>3, <4>4, <4>5, SizesOfPart
      <4>7. SizesOf(Entries(s))' = SizesOf(part)'
        BY <4>5 DEF SizesOf
      <4> QED
        BY <1>5, <3>2, <3>4, <4>1, <4>6, <4>7
    <3>6. CASE r.role # "entry"
      <4>1. Entries(s)' = Entries(s)
        BY <1>1, <1>2, <1>4, <3>6 DEF Entries, Role
      <4>2. SizesOf(Entries(s))' = SizesOf(Entries(s))
        BY <2>2, <4>1
      <4>3. SizesOf(Entries(s)) \in Nat
        BY <1>0, <2>1, SizesAreBounded
      <4> QED
        BY <1>0, <3>4, <4>2, <4>3 DEF EntriesWithinGate
    <3> QED
      BY <3>5, <3>6
  <2>4. CASE s # r.symbol
    <3>1. OpenIn(s)' = OpenIn(s) /\ Entries(s)' = Entries(s)
      BY <1>1, <1>4, <2>4 DEF OpenIn, Entries, Role
    <3>2. notional'[s] = notional[s]
      BY <1>1, <1>4, <1>5, <2>4
    <3>3. SizesOf(OpenIn(s))' = SizesOf(OpenIn(s)) /\ SizesOf(Entries(s))' = SizesOf(Entries(s))
      BY <2>2, <3>1
    <3>4. SizesOf(Entries(s)) \in Nat
      BY <1>0, <2>1, SizesAreBounded
    <3> QED
      BY <1>0, <2>1, <3>2, <3>3, <3>4 DEF EntriesWithinGate
  <2> QED
    BY <2>3, <2>4
<1> QED
  BY <1>1, <1>6 DEF Account, NotionalIsOpenOrders, EntriesWithinGate, AwaitedFits, OpenIn

\* A fill takes from the account what its order put there, so the clamp at
\* zero never cuts anything off.
LEMMA AccountHandleFill == ASSUME GateInv, NEW id \in fills, HandleFill(id) PROVE Account'
<1>0. TypeOK /\ BookInv /\ NotionalIsOpenOrders /\ EntriesWithinGate /\ AwaitedFits
  BY DEF GateInv, GateIsSound
<1>1. UNCHANGED <<asked, pc, req>>
  BY DEF HandleFill, workerVars
<1>2. CASE UNCHANGED <<openOrders, restored, notional>>
  <2>1. AwaitedFits'
    BY <1>0, <1>1, <1>2 DEF AwaitedFits
  <2> QED
    BY <1>1, <1>2, <2>1, AccountUnchanged DEF Account
<1>3. CASE /\ id \in openOrders
           /\ openOrders' = openOrders \ {id} /\ restored' = restored \ {id}
           /\ notional' = [notional EXCEPT ![asked[id].symbol] = Minus(@, asked[id].size)]
  <2>1. id \in OrderIds /\ asked \in Seq(Request) /\ OrderIds = 1..Len(asked)
    BY <1>0, <1>3 DEF TypeOK, OrderIds
  <2>2. PICK r \in Request : r = asked[id]
    BY <2>1
  <2>3. r.symbol \in Symbols /\ r.size \in Nat /\ notional \in [Symbols -> Nat] /\ MaxPosition \in Nat
    BY <1>0, RequestType, ParametersAreSane DEF TypeOK
  <2>4. \A ids : SizesOf(ids)' = SizesOf(ids)
    BY <1>1 DEF SizesOf
  <2> HIDE DEF OrderIds
  <2>5. ASSUME NEW s \in Symbols
        PROVE  /\ SizesOf(OpenIn(s))' = notional'[s] /\ notional'[s] <= notional[s]
               /\ SizesOf(Entries(s))' <= MaxPosition
    <3>1. OpenIn(s) \in SUBSET OrderIds /\ Entries(s) \in SUBSET OpenIn(s) /\ SizesOf(OpenIn(s)) = notional[s]
      BY <1>0, OpenIsKnown DEF NotionalIsOpenOrders, OpenIn
    <3>2. Entries(s)' \in SUBSET Entries(s)
      BY <1>1, <1>3 DEF Entries, Role
    <3>3. SizesOf(Entries(s))' <= MaxPosition
      <4>1. PICK part \in SUBSET Entries(s) : part = Entries(s)'
        BY <3>2
      <4>2. Entries(s) \in SUBSET OrderIds /\ \A o \in part : asked'[o] = asked[o]
        BY <1>1, <3>1
      <4>3. SizesOf(part)' \in Nat /\ SizesOf(part)' <= SizesOf(Entries(s))
        BY <1>0, <4>2, SizesOfPart
      <4>4. SizesOf(Entries(s)) \in Nat /\ SizesOf(Entries(s)) <= MaxPosition
        BY <1>0, <4>2, SizesAreBounded DEF EntriesWithinGate
      <4>5. SizesOf(Entries(s))' = SizesOf(part)'
        BY <4>1 DEF SizesOf
      <4> QED
        BY <2>3, <4>3, <4>4, <4>5
    <3>4. CASE s = r.symbol
      <4>1. id \in OpenIn(s) /\ OpenIn(s)' = OpenIn(s) \ {id}
        BY <1>1, <1>3, <2>2, <3>4 DEF OpenIn
      <4>2. PICK rest \in SUBSET OrderIds : rest = OpenIn(s) \ {id}
        BY <3>1
      <4>3. rest \union {id} = OpenIn(s) /\ id \notin rest
        BY <4>1, <4>2
      <4>4. SizesOf(OpenIn(s)) = SizesOf(rest) + r.size
        BY <1>0, <2>1, <2>2, <4>3, SizesWithOneMore
      <4>5. SizesOf(rest) \in Nat
        BY <1>0, SizesAreBounded
      <4>6. notional'[s] = Minus(notional[s], r.size)
        BY <1>3, <2>2, <2>3, <3>4
      <4>7. notional'[s] = SizesOf(rest) /\ notional'[s] <= notional[s]
        <5>1. PICK n \in Nat : n = SizesOf(rest)
          BY <4>5
        <5>2. notional[s] = n + r.size
          BY <3>1, <4>4, <5>1
        <5>3. Minus(n + r.size, r.size) = n /\ n <= n + r.size
          BY <2>3 DEF Minus
        <5> QED
          BY <4>6, <5>1, <5>2, <5>3
      <4>8. SizesOf(OpenIn(s))' = SizesOf(rest)
        BY <2>4, <4>1, <4>2
      <4> QED
        BY <3>3, <4>7, <4>8
    <3>5. CASE s # r.symbol
      <4>1. OpenIn(s)' = OpenIn(s)
        BY <1>1, <1>3, <2>2, <3>5 DEF OpenIn
      <4>2. notional'[s] = notional[s]
        BY <1>3, <2>2, <2>3, <3>5
      <4>3. SizesOf(OpenIn(s))' = SizesOf(OpenIn(s))
        BY <2>4, <4>1
      <4> QED
        BY <2>3, <3>1, <3>3, <4>2, <4>3
    <3> QED
      BY <3>4, <3>5
  <2>6. AwaitedFits'
    <3>1. SUFFICES ASSUME pc \in {"placing", "placed"}, req[1].role = "entry"
                   PROVE  notional'[req[1].symbol] + req[1].size <= MaxPosition
      BY <1>1 DEF AwaitedFits
    <3>2. req[1] \in Request
      BY <1>0, <3>1, RequestAwaited
    <3>3. PICK q \in Request : q = req[1]
      BY <3>2
    <3>4. q.symbol \in Symbols /\ q.size \in Nat
      BY RequestType
    <3>5. notional[q.symbol] + q.size <= MaxPosition
      BY <1>0, <3>1, <3>3 DEF AwaitedFits
    <3>6. notional'[q.symbol] <= notional[q.symbol] /\ notional'[q.symbol] \in Nat
      <4>1. notional'[q.symbol] \in Nat
        BY <1>3, <2>2, <2>3, <3>4 DEF Minus
      <4> QED
        BY <2>5, <3>4, <4>1
    <3> QED
      BY <2>3, <3>3, <3>4, <3>5, <3>6
  <2> QED
    BY <2>5, <2>6 DEF Account, NotionalIsOpenOrders, EntriesWithinGate, OpenIn
<1> QED
  BY <1>2, <1>3 DEF HandleFill, ledgerVars

\* A new thread starts with the orders it restores, none of them an entry.
LEMMA AccountRestore ==
  ASSUME GateInv, NEW ids \in SUBSET OrderIds, Restore(ids), asked' = asked,
         pc' \notin {"placing", "placed"}
  PROVE  Account'
<1>1. openOrders' = ids /\ restored' = ids
      /\ notional' = [s \in Symbols |-> SizesOf({id \in ids : asked[id].symbol = s})]
  BY DEF Restore
<1>2. \A some : SizesOf(some)' = SizesOf(some)
  BY DEF SizesOf
<1>3. ASSUME NEW s \in Symbols
      PROVE  SizesOf(OpenIn(s))' = notional'[s] /\ SizesOf(Entries(s))' <= MaxPosition
  <2>1. OpenIn(s)' = {id \in ids : asked[id].symbol = s}
    BY <1>1 DEF OpenIn
  <2>2. notional'[s] = SizesOf({id \in ids : asked[id].symbol = s})
    BY <1>1
  <2>3. Entries(s)' = {}
    BY <1>1 DEF Entries, Role
  <2>4. SizesOf(Entries(s))' = 0
    BY <1>2, <2>3, NoSizes
  <2>5. 0 <= MaxPosition
    BY ParametersAreSane
  <2>6. SizesOf(OpenIn(s))' = SizesOf({id \in ids : asked[id].symbol = s})
    BY <1>2, <2>1
  <2> QED
    BY <2>2, <2>4, <2>5, <2>6
<1>4. AwaitedFits'
  BY DEF AwaitedFits
<1> QED
  BY <1>3, <1>4 DEF Account, NotionalIsOpenOrders, EntriesWithinGate, OpenIn

\* The end of a thread closes the account.
LEMMA AccountEndThread == ASSUME GateInv, EndThread PROVE Account'
<1>1. /\ asked' = asked /\ openOrders' = {} /\ restored' = {} /\ pc' = "loop"
      /\ notional' = [s \in Symbols |-> 0]
  BY DEF EndThread
<1>2. \A some : SizesOf(some)' = SizesOf(some)
  BY <1>1 DEF SizesOf
<1>3. \A s \in Symbols : OpenIn(s)' = {} /\ Entries(s)' = {}
  BY <1>1 DEF OpenIn, Entries
<1>4. \A s \in Symbols : SizesOf(OpenIn(s))' = 0 /\ SizesOf(Entries(s))' = 0
  BY <1>2, <1>3, NoSizes
<1>5. 0 <= MaxPosition
  BY ParametersAreSane
<1> QED
  BY <1>1, <1>4, <1>5 DEF Account, NotionalIsOpenOrders, EntriesWithinGate, AwaitedFits, OpenIn

LEMMA AccountStep == ASSUME GateInv, [Next]_vars PROVE Account'
<1>1. ASSUME UNCHANGED <<asked, openOrders, restored, notional>>,
             pc' \in {"placing", "placed"} => pc' = pc /\ req' = req
      PROVE  Account'
  <2>1. NotionalIsOpenOrders' /\ EntriesWithinGate'
    BY <1>1, AccountUnchanged
  <2>2. AwaitedFits'
    BY <1>1 DEF GateInv, AwaitedFits
  <2> QED
    BY <2>1, <2>2 DEF Account
<1>2. CASE UNCHANGED vars \/ Post \/ EnterGet \/ GetTimesOut \/ RecordFailed \/ Stop
  <2>1. UNCHANGED <<asked, openOrders, restored, notional>>
    BY <1>2 DEF vars, Post, EnterGet, GetTimesOut, RecordFailed, Stop, ledgerVars, exchangeVars
  <2>2. pc' \in {"placing", "placed"} => pc' = pc /\ req' = req
    BY <1>2 DEF vars, Post, EnterGet, GetTimesOut, RecordFailed, Stop, workerVars
  <2> QED
    BY <1>1, <2>1, <2>2
<1>3. CASE Process
  BY <1>3, AccountProcess
<1>4. CASE Answer
  BY <1>4, AccountAnswer
<1>5. CASE RecordPlaced
  BY <1>5, AccountRecordPlaced
<1>6. ASSUME NEW id, Fill(id) \/ RecordFilled(id) PROVE Account'
  BY <1>1, <1>6 DEF Fill, RecordFilled, workerVars, ledgerVars, exchangeVars
<1>7. ASSUME NEW id \in fills, HandleFill(id) PROVE Account'
  BY <1>7, AccountHandleFill
<1>8. CASE EndThread
  BY <1>8, AccountEndThread
<1>9. CASE Start
  <2>1. Nonterminal \in SUBSET OrderIds
    BY DEF Nonterminal
  <2>2. PICK ids \in SUBSET OrderIds : Restore(ids)
    <3>1. CASE Restore(Nonterminal)
      BY <2>1, <3>1
    <3>2. CASE Restore(Nonterminal \intersect working)
      BY <2>1, <3>2
    <3>3. CASE Restore({})
      BY <3>3
    <3> QED
      BY <1>9, <3>1, <3>2, <3>3 DEF Start
  <2>3. asked' = asked /\ pc' \notin {"placing", "placed"}
    BY <1>9 DEF Start, GateInv, DownIsIdle, workerVars, exchangeVars
  <2> QED
    BY <2>2, <2>3, AccountRestore
<1> QED
  BY <1>2, <1>3, <1>4, <1>5, <1>6, <1>7, <1>8, <1>9 DEF Next, WorkerNext, FillNext

LEMMA GateInit == Init => GateInv
<1> SUFFICES ASSUME Init PROVE GateInv
  OBVIOUS
<1>1. BookInv /\ DownIsIdle
  BY BookInit DEF Init, DownIsIdle
<1>2. /\ asked = <<>> /\ openOrders = {} /\ pc = "loop"
      /\ notional = [s \in Symbols |-> 0]
  BY DEF Init
<1>3. RestTypes
  <2>1. seen = <<>> /\ req = <<>> /\ seen \in Seq(OrderIds) /\ Len(seen) = 0 /\ Len(req) = 0
    BY DEF Init
  <2>2. /\ up = TRUE /\ stopSet = FALSE /\ tripFired = FALSE /\ pc = "loop"
        /\ working = {} /\ fills = {} /\ alerts = {} /\ posts = 0 /\ restarts = 0
        /\ qty = [s \in Symbols |-> 0]
    BY DEF Init
  <2>3. 0 <= SeenCap /\ 0 \in 0..MaxPosts /\ 0 \in 0..MaxRestarts
    BY ParametersAreSane
  <2>4. notional \in [Symbols -> Nat] /\ qty \in [Symbols -> Nat]
    BY <1>2, <2>2
  <2> HIDE DEF OrderIds
  <2> QED
    BY <2>1, <2>2, <2>3, <2>4 DEF RestTypes
<1>4. \A s \in Symbols : OpenIn(s) = {} /\ Entries(s) = {}
  BY <1>2 DEF OpenIn, Entries
<1>5. 0 <= MaxPosition
  BY ParametersAreSane
<1>6. Account
  BY <1>2, <1>4, <1>5, NoSizes DEF Account, NotionalIsOpenOrders, EntriesWithinGate, AwaitedFits, OpenIn
<1> QED
  BY <1>1, <1>3, <1>6, TypeParts DEF GateInv, GateIsSound, Account

LEMMA GateStep == GateInv /\ [Next]_vars => GateInv'
<1> SUFFICES ASSUME GateInv, [Next]_vars PROVE GateInv'
  OBVIOUS
<1>1. BookInv' /\ DownIsIdle'
  BY BookStep, DownStep DEF GateInv
<1>2. TypeOK'
  BY <1>1, TypeStep DEF GateInv, GateIsSound
<1>3. Account'
  BY AccountStep
<1> QED
  BY <1>1, <1>2, <1>3 DEF GateInv, GateIsSound, Account

\* In both modes, whatever writes fail and however often the thread ends: the
\* running notional is what the open orders ask for, and the entries a thread
\* has open in a symbol stay within the position limit, though the gate looks
\* before the exchange is called and the account is updated after the row is
\* written (_exceeds_risk_gate, _process, handle_fill, restore_open_order).
THEOREM GateHolds == Spec => []GateIsSound
<1>1. GateInv => GateIsSound
  BY DEF GateInv
<1> QED
  BY <1>1, GateInit, GateStep, PTL DEF Spec
===============================================================================
