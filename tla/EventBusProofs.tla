---------------------------- MODULE EventBusProofs ----------------------------
(***************************************************************************)
(* Proofs about EventBus, for any handles, messages, queue depth and        *)
(* faults: the queues keep their types, what is dropped is announced, order *)
(* is kept while there is room (QueuesAreHonest); only routed entries are   *)
(* acknowledged (OnlyRoutedAreAcked); and the bus implements MarkedFeed.    *)
(*                                                                         *)
(* The inductive invariant has a part for the bus (BusInv), a part for the  *)
(* inbox of each strategy (InboxInv: its queue, the puts that wait, its     *)
(* ready list and its history), and one that relates the two: what a        *)
(* strategy knows is older than what the bus has still to deliver to it     *)
(* (KnownAreOld).                                                           *)
(***************************************************************************)
EXTENDS EventBus, TLAPS

Busy == {"deliver", "drop", "drop again", "mark"}
Dropping == {"drop", "drop again", "mark"}
PCs == {"down", "idle", "read", "batch", "wait", "exit"} \union Busy

Tasks == [task : {"call", "put", "consumer"}, item : QueueEntries]

(* The inbox of one strategy: its queue q, putters p, ready list r, history t  *)
(* of what was taken, l of what was lost and b of what was blocked.            *)

\* One event is in one place.
Apart(q, p, r) ==
  /\ \A i, j \in DOMAIN q : i # j /\ q[i].event # 0 => q[i].event # q[j].event
  /\ \A i, j \in DOMAIN p : i # j /\ p[i].event # 0 => p[i].event # p[j].event
  /\ \A i, j \in DOMAIN r : i # j /\ r[i].item.event # 0 => r[i].item.event # r[j].item.event
  /\ \A i \in DOMAIN q, j \in DOMAIN p : q[i].event # 0 => q[i].event # p[j].event
  /\ \A i \in DOMAIN q, j \in DOMAIN r : q[i].event # 0 => q[i].event # r[j].item.event
  /\ \A i \in DOMAIN p, j \in DOMAIN r : p[i].event # 0 => p[i].event # r[j].item.event

\* An entry is an event or a marker, and a marker speaks of what is lost.
Plain(x, l) == (x.event = 0 \/ x.drops = {}) /\ x.drops \subseteq l

AllPlain(q, p, r, t, l) ==
  /\ \A i \in DOMAIN q : Plain(q[i], l)
  /\ \A i \in DOMAIN p : Plain(p[i], l)
  /\ \A i \in DOMAIN r : Plain(r[i].item, l)
  /\ \A i \in DOMAIN t : Plain(t[i], l)
  /\ \A i \in DOMAIN r : r[i].task = "consumer" => r[i].item = Marker({})

\* What passed the ready list for the first time.
Passed(q, p, t, l, b) ==
  {q[i].event : i \in DOMAIN q} \union {p[i].event : i \in DOMAIN p}
    \union {t[i].event : i \in DOMAIN t} \union l \union b

\* An event in the ready list that never found the queue full.
Fresh(x, b) ==
  x.item.event # 0 /\ (x.task = "call" \/ (x.task = "put" /\ x.item.event \notin b))

\* Fresh events are in order, and behind everything that passed.
FreshInOrder(q, p, r, t, l, b) ==
  /\ \A i \in DOMAIN r : Fresh(r[i], b) => \A e \in Passed(q, p, t, l, b) : e < r[i].item.event
  /\ \A i, j \in DOMAIN r :
       /\ Fresh(r[i], b) /\ Fresh(r[j], b)
       /\ \/ r[i].task = r[j].task /\ i < j
          \/ r[i].task = "put" /\ r[j].task = "call"
       => r[i].item.event < r[j].item.event

\* In what was taken and then what is in the queue, only blocked events fall
\* behind later ones.
Keeps(x, b) == x.event # 0 /\ x.event \notin b

QueueInOrder(q, p, t, b) ==
  /\ \A i, j \in DOMAIN t : i < j /\ Keeps(t[j], b) => t[i].event < t[j].event
  /\ \A i, j \in DOMAIN q : i < j /\ Keeps(q[j], b) => q[i].event < q[j].event
  /\ \A i \in DOMAIN t, j \in DOMAIN q : Keeps(q[j], b) => t[i].event < q[j].event
  /\ \A i \in DOMAIN p : p[i].event \in b

InboxTypes(q, p, r, t, l, b) ==
  /\ q \in Seq(QueueEntries) /\ Len(q) <= MaxDepth
  /\ p \in Seq(QueueEntries) /\ r \in Seq(Tasks) /\ t \in Seq(QueueEntries)
  /\ l \subseteq Messages /\ b \subseteq Messages \union {0}

InboxInv(q, p, r, t, l, b) ==
  /\ InboxTypes(q, p, r, t, l, b)
  /\ Apart(q, p, r) /\ AllPlain(q, p, r, t, l)
  /\ FreshInOrder(q, p, r, t, l, b) /\ QueueInOrder(q, p, t, b)

\* All a strategy has been given.
Known(q, p, r, t, l, b) == Passed(q, p, t, l, b) \union {r[i].item.event : i \in DOMAIN r}

\* Entries on their way.
Entry(q, p, r) ==
  {q[i] : i \in DOMAIN q} \union {p[i] : i \in DOMAIN p} \union {r[i].item : i \in DOMAIN r}
------------------------------------------------------------------------------
StreamTypes ==
  /\ published \in 0..MaxMsgs /\ group \in BOOLEAN /\ delivered \in 0..published
  /\ pel \subseteq 1..delivered

BusRecord ==
  bus \in [pc : PCs, batch : Seq(Messages), todo : SUBSET Handles, for : Handles \union {0},
           drops : SUBSET Messages]

OtherTypes ==
  /\ backoff \in 1..BackoffCap /\ capHits \in 0..CapLimit /\ keys \in BOOLEAN
  /\ handles \subseteq Handles
  /\ life \in [Handles -> {"unborn", "subscribing", "running", "ended", "over"}]
  /\ getter \in [Handles -> BOOLEAN]
  /\ routed \subseteq Messages

BusTypes == StreamTypes /\ BusRecord /\ OtherTypes

\* Where the bus is says what it holds.
PlaceInv ==
  /\ bus.pc \notin Busy \union {"batch"} => bus.batch = <<>>
  /\ bus.pc \in Busy => bus.batch # <<>> /\ bus.batch[1] \in routed
  /\ bus.pc \notin Busy => bus.todo = {}
  /\ bus.pc \in Dropping <=> bus.for # 0
  /\ bus.pc \notin Dropping => bus.drops = {}
  /\ bus.pc # "exit" => capHits < CapLimit
  /\ bus.for \notin bus.todo

\* What is left of a batch is the end of what was handed out.
BatchIsNext ==
  /\ Len(bus.batch) <= delivered
  /\ \A i \in 1..Len(bus.batch) : bus.batch[i] = delivered - Len(bus.batch) + i

BusInv == PlaceInv /\ BatchIsNext

\* Strategies the bus may look at have begun.
HandlesAreBorn ==
  /\ \A h \in handles \union bus.todo : life[h] # "unborn"
  /\ bus.for # 0 => life[bus.for] # "unborn"

LivesAreKept ==
  /\ \A h \in Handles : life[h] \in {"unborn", "over"} =>
       queue[h] = <<>> /\ putters[h] = <<>> /\ ready[h] = <<>>
  /\ \A h \in Handles : life[h] = "unborn" => lost[h] = {}

Inbox(h) == InboxInv(queue[h], putters[h], ready[h], taken[h], lost[h], blocked[h])
KnownTo(h) == Known(queue[h], putters[h], ready[h], taken[h], lost[h], blocked[h])

\* The newest message a strategy may have been given.
Base == delivered - Len(bus.batch)
Extra(h) == IF bus.pc \in Busy /\ h \notin bus.todo /\ bus.for # h THEN 1 ELSE 0
Limit(h) == Base + Extra(h)

KnownAreOld == \A h \in Handles : \A e \in KnownTo(h) : e <= Limit(h)

DropsAreLost == bus.for # 0 => bus.drops \subseteq lost[bus.for]

InboxFunctions ==
  /\ {queue, putters, taken} \subseteq [Handles -> Seq(QueueEntries)]
  /\ ready \in [Handles -> Seq(Tasks)]
  /\ lost \in [Handles -> SUBSET Messages] /\ blocked \in [Handles -> SUBSET (Messages \union {0})]

BusPart == BusTypes /\ BusInv /\ HandlesAreBorn
InboxPart ==
  /\ InboxFunctions /\ LivesAreKept
  /\ (\A h \in Handles : Inbox(h)) /\ KnownAreOld /\ DropsAreLost

\* What is on its way to h; the wake-up of the consumer carries nothing.
Held(h) == Entry(queue[h], putters[h], ready[h]) \ {Marker({})}

\* LossIsAnnounced, by the places where a marker can be.
LossIsKnown ==
  \A h \in Handles : InProcess(h) =>
    \A e \in lost[h] :
      \/ e \in Owed(h)
      \/ \E x \in Held(h) : e \in x.drops
      \/ \E i \in DOMAIN taken[h] : e \in taken[h][i].drops

FeedInv == BusPart /\ InboxPart /\ LossIsKnown
------------------------------------------------------------------------------
(* What can happen to an inbox.  (Equalities of sets are named, for the        *)
(* provers to match them as they stand.)                                       *)
Alike(A, B) == A = B
Joined(A, B, x) == A = B \union {x}
Room(q) == Len(q) < MaxDepth
Lost(l2, l, x) == l2 = l \union ({x.event} \ {0})

\* A put that waits for room is woken: it has been blocked, so it is not fresh.
LEMMA Woken ==
  ASSUME NEW q, NEW p, NEW r, NEW t, NEW l, NEW b, InboxInv(q, p, r, t, l, b),
         p # <<>>, NEW p2, p2 = Tail(p), NEW r2, r2 = Append(r, Put(Head(p)))
  PROVE  /\ InboxInv(q, p2, r2, t, l, b)
         /\ Known(q, p2, r2, t, l, b) \subseteq Known(q, p, r, t, l, b)
         /\ Alike(Entry(q, p2, r2), Entry(q, p, r))
<1>1. InboxTypes(q, p, r, t, l, b)
  BY DEF InboxInv
<1>2. /\ p \in Seq(QueueEntries) /\ r \in Seq(Tasks) /\ Len(p) > 0 /\ p[1] \in QueueEntries
      /\ Put(p[1]) \in Tasks /\ Head(p) = p[1]
  BY <1>1 DEF InboxTypes, Put, Tasks
<1>3. /\ p2 \in Seq(QueueEntries) /\ DOMAIN p2 = 1..(Len(p) - 1) /\ DOMAIN p = 1..Len(p)
      /\ \A i \in DOMAIN p2 : p2[i] = p[i + 1] /\ i + 1 \in DOMAIN p /\ i + 1 # 1
  BY <1>2
<1>4. /\ r2 \in Seq(Tasks) /\ DOMAIN r2 = 1..(Len(r) + 1) /\ DOMAIN r = 1..Len(r)
      /\ \A i \in DOMAIN r : r2[i] = r[i] /\ i \in DOMAIN r2
      /\ r2[Len(r) + 1].task = "put" /\ r2[Len(r) + 1].item = p[1]
      /\ \A i \in DOMAIN r2 : i \in DOMAIN r \/ i = Len(r) + 1
  BY <1>2 DEF Put
<1>5. InboxTypes(q, p2, r2, t, l, b)
  BY <1>1, <1>3, <1>4 DEF InboxTypes
<1>6. Apart(q, p2, r2)
  <2>1. Apart(q, p, r) /\ 1 \in DOMAIN p
    BY <1>2, <1>3 DEF InboxInv
  <2>2. \A i, j \in DOMAIN p2 : i # j /\ p2[i].event # 0 => p2[i].event # p2[j].event
    BY <1>3, <2>1 DEF Apart
  <2>3. \A i, j \in DOMAIN r2 : i # j /\ r2[i].item.event # 0 => r2[i].item.event # r2[j].item.event
    <3>1. \A i \in DOMAIN r : p[1].event # 0 => p[1].event # r[i].item.event
      BY <2>1 DEF Apart
    <3>2. \A i, j \in DOMAIN r : i # j /\ r[i].item.event # 0 => r[i].item.event # r[j].item.event
      BY <2>1 DEF Apart
    <3> QED
      BY <1>4, <3>1, <3>2
  <2>4. \A i \in DOMAIN q, j \in DOMAIN p2 : q[i].event # 0 => q[i].event # p2[j].event
    BY <1>3, <2>1 DEF Apart
  <2>5. \A i \in DOMAIN q, j \in DOMAIN r2 : q[i].event # 0 => q[i].event # r2[j].item.event
    BY <1>4, <2>1 DEF Apart
  <2>6. \A i \in DOMAIN p2, j \in DOMAIN r2 : p2[i].event # 0 => p2[i].event # r2[j].item.event
    BY <1>3, <1>4, <2>1 DEF Apart
  <2>7. \A i, j \in DOMAIN q : i # j /\ q[i].event # 0 => q[i].event # q[j].event
    BY <2>1 DEF Apart
  <2> QED
    BY <2>2, <2>3, <2>4, <2>5, <2>6, <2>7 DEF Apart
<1>7. AllPlain(q, p2, r2, t, l)
  BY <1>2, <1>3, <1>4 DEF InboxInv, AllPlain
<1>8. p[1].event \in b
  BY <1>2, <1>3 DEF InboxInv, QueueInOrder
<1>9. Passed(q, p2, t, l, b) \subseteq Passed(q, p, t, l, b)
  BY <1>3 DEF Passed
<1>10. \A i \in DOMAIN r2 : Fresh(r2[i], b) => i \in DOMAIN r /\ Fresh(r[i], b) /\ r2[i] = r[i]
  BY <1>4, <1>8 DEF Fresh
<1>11. FreshInOrder(q, p2, r2, t, l, b)
  BY <1>9, <1>10 DEF InboxInv, FreshInOrder
<1>12. QueueInOrder(q, p2, t, b)
  BY <1>3 DEF InboxInv, QueueInOrder
<1>13. Known(q, p2, r2, t, l, b) \subseteq Known(q, p, r, t, l, b)
  BY <1>3, <1>4, <1>8, <1>9 DEF Known, Passed
<1>14. Entry(q, p2, r2) = Entry(q, p, r)
  <2>1. \A i \in DOMAIN p : i = 1 \/ (i - 1 \in DOMAIN p2 /\ p2[i - 1] = p[i])
    BY <1>2, <1>3
  <2>2. Entry(q, p2, r2) \subseteq Entry(q, p, r)
    BY <1>2, <1>3, <1>4 DEF Entry
  <2>3. ASSUME NEW i \in DOMAIN p PROVE p[i] \in Entry(q, p2, r2)
    <3>1. CASE i = 1
      <4>1. Len(r) + 1 \in DOMAIN r2 /\ r2[Len(r) + 1].item = p[i]
        BY <1>2, <1>4, <3>1
      <4> QED
        BY <4>1 DEF Entry
    <3>2. CASE i # 1
      BY <2>1, <3>2 DEF Entry
    <3> QED
      BY <3>1, <3>2
  <2>4. ASSUME NEW i \in DOMAIN r PROVE r[i].item \in Entry(q, p2, r2)
    BY <1>4 DEF Entry
  <2>5. Entry(q, p, r) \subseteq Entry(q, p2, r2)
    BY <2>3, <2>4 DEF Entry
  <2> QED
    BY <2>2, <2>5
<1> QED
  BY <1>5, <1>6, <1>7, <1>11, <1>12, <1>13, <1>14 DEF InboxInv, Alike

\* The entry x leaves the head of the queue q for good: nothing else holds its
\* event.
Leaves(q, q2, p, r, l, x) ==
  /\ x \in QueueEntries /\ Plain(x, l)
  /\ Entry(q, p, r) = Entry(q2, p, r) \union {x}
  /\ \A y \in Entry(q2, p, r) : x.event # 0 => x.event # y.event

LEMMA HeadLeaves ==
  ASSUME NEW q, NEW p, NEW r, NEW t, NEW l, NEW b, InboxInv(q, p, r, t, l, b),
         q # <<>>, NEW q2, q2 = Tail(q)
  PROVE  Leaves(q, q2, p, r, l, Head(q))
<1>1. /\ q \in Seq(QueueEntries) /\ Len(q) > 0 /\ q[1] \in QueueEntries
      /\ Head(q) = q[1] /\ DOMAIN q = 1..Len(q) /\ 1 \in DOMAIN q
  BY DEF InboxInv, InboxTypes
<1>2. \A i \in DOMAIN q2 : q2[i] = q[i + 1] /\ i + 1 \in DOMAIN q /\ i + 1 # 1
  BY <1>1
<1>3. \A i \in DOMAIN q : i = 1 \/ (i - 1 \in DOMAIN q2 /\ q2[i - 1] = q[i])
  BY <1>1
<1>4. Plain(q[1], l)
  BY <1>1 DEF InboxInv, AllPlain
<1>5. Entry(q2, p, r) \union {q[1]} \subseteq Entry(q, p, r)
  BY <1>1, <1>2 DEF Entry
<1>6. Entry(q, p, r) \subseteq Entry(q2, p, r) \union {q[1]}
  <2>1. ASSUME NEW i \in DOMAIN q PROVE q[i] \in Entry(q2, p, r) \union {q[1]}
    BY <1>3 DEF Entry
  <2> QED
    BY <2>1 DEF Entry
<1>7. \A y \in Entry(q2, p, r) : q[1].event # 0 => q[1].event # y.event
  BY <1>1, <1>2 DEF InboxInv, Apart, Entry
<1> QED
  BY <1>1, <1>4, <1>5, <1>6, <1>7 DEF Leaves

\* The oldest entry of the queue is taken.
LEMMA HeadTaken ==
  ASSUME NEW q, NEW p, NEW r, NEW t, NEW l, NEW b, InboxInv(q, p, r, t, l, b),
         q # <<>>, NEW q2, q2 = Tail(q), NEW t2, t2 = Append(t, Head(q))
  PROVE  /\ InboxInv(q2, p, r, t2, l, b)
         /\ Known(q2, p, r, t2, l, b) \subseteq Known(q, p, r, t, l, b)
<1>1. InboxTypes(q, p, r, t, l, b)
  BY DEF InboxInv
<1>2. /\ q \in Seq(QueueEntries) /\ t \in Seq(QueueEntries) /\ Len(q) > 0 /\ q[1] \in QueueEntries
      /\ Head(q) = q[1] /\ DOMAIN q = 1..Len(q)
  BY <1>1 DEF InboxTypes
<1>3. /\ q2 \in Seq(QueueEntries) /\ DOMAIN q2 = 1..(Len(q) - 1) /\ Len(q2) = Len(q) - 1
      /\ \A i \in DOMAIN q2 : q2[i] = q[i + 1] /\ i + 1 \in DOMAIN q /\ i + 1 # 1 /\ 1 < i + 1
  BY <1>2
<1>4. /\ t2 \in Seq(QueueEntries) /\ DOMAIN t2 = 1..(Len(t) + 1) /\ DOMAIN t = 1..Len(t)
      /\ \A i \in DOMAIN t : t2[i] = t[i]
      /\ t2[Len(t) + 1] = q[1]
      /\ \A i \in DOMAIN t2 : i \in DOMAIN t \/ i = Len(t) + 1
      /\ DOMAIN t \subseteq DOMAIN t2 /\ Len(t) + 1 \in DOMAIN t2
  BY <1>2
<1>5. InboxTypes(q2, p, r, t2, l, b)
  <2>1. Len(q) \in Nat /\ Len(q) <= MaxDepth /\ MaxDepth \in Nat
    BY <1>1, ConstantsAreSizes DEF InboxTypes
  <2> QED
    BY <1>1, <1>3, <1>4, <2>1 DEF InboxTypes
<1>6. Apart(q2, p, r)
  BY <1>2, <1>3 DEF InboxInv, Apart
<1>7. AllPlain(q2, p, r, t2, l)
  BY <1>2, <1>3, <1>4 DEF InboxInv, AllPlain
<1>8. Passed(q2, p, t2, l, b) \subseteq Passed(q, p, t, l, b)
  BY <1>2, <1>3, <1>4 DEF Passed
<1>9. FreshInOrder(q2, p, r, t2, l, b)
  BY <1>8 DEF InboxInv, FreshInOrder
<1>10. QueueInOrder(q2, p, t2, b)
  <2>1. \A i, j \in DOMAIN t2 : i < j /\ Keeps(t2[j], b) => t2[i].event < t2[j].event
    <3> SUFFICES ASSUME NEW i \in DOMAIN t2, NEW j \in DOMAIN t2, i < j, Keeps(t2[j], b)
                 PROVE  t2[i].event < t2[j].event
      OBVIOUS
    <3>1. i \in DOMAIN t
      BY <1>4
    <3>2. CASE j \in DOMAIN t
      BY <1>4, <3>1, <3>2 DEF InboxInv, QueueInOrder
    <3>3. CASE j = Len(t) + 1
      BY <1>2, <1>4, <3>1, <3>3 DEF InboxInv, QueueInOrder
    <3> QED
      BY <1>4, <3>2, <3>3
  <2>2. \A i, j \in DOMAIN q2 : i < j /\ Keeps(q2[j], b) => q2[i].event < q2[j].event
    BY <1>2, <1>3 DEF InboxInv, QueueInOrder
  <2>3. \A i \in DOMAIN t2, j \in DOMAIN q2 : Keeps(q2[j], b) => t2[i].event < q2[j].event
    BY SMTT(30), <1>2, <1>3, <1>4 DEF InboxInv, QueueInOrder
  <2> QED
    BY <2>1, <2>2, <2>3 DEF InboxInv, QueueInOrder
<1>11. Known(q2, p, r, t2, l, b) \subseteq Known(q, p, r, t, l, b)
  BY <1>8 DEF Known
<1> QED
  BY <1>5, <1>6, <1>7, <1>9, <1>10, <1>11 DEF InboxInv

\* The oldest entry of the queue is dropped: its event is lost, and what it
\* said of lost events is to be said again.
LEMMA HeadDropped ==
  ASSUME NEW q, NEW p, NEW r, NEW t, NEW l, NEW b, InboxInv(q, p, r, t, l, b),
         q # <<>>, NEW q2, q2 = Tail(q), NEW l2, Lost(l2, l, Head(q))
  PROVE  /\ InboxInv(q2, p, r, t, l2, b)
         /\ Known(q2, p, r, t, l2, b) \subseteq Known(q, p, r, t, l, b)
<1>1. InboxTypes(q, p, r, t, l, b)
  BY DEF InboxInv
<1>2. /\ q \in Seq(QueueEntries) /\ t \in Seq(QueueEntries) /\ Len(q) > 0 /\ q[1] \in QueueEntries
      /\ Head(q) = q[1] /\ DOMAIN q = 1..Len(q)
  BY <1>1 DEF InboxTypes
<1>3. /\ q2 \in Seq(QueueEntries) /\ DOMAIN q2 = 1..(Len(q) - 1) /\ Len(q2) = Len(q) - 1
      /\ \A i \in DOMAIN q2 : q2[i] = q[i + 1] /\ i + 1 \in DOMAIN q /\ i + 1 # 1 /\ 1 < i + 1
      /\ 1 \in DOMAIN q
  BY <1>2
<1>4. l \subseteq l2 /\ l2 \subseteq Messages /\ \A e \in l2 : e \in l \/ e = q[1].event
  BY <1>1, <1>2 DEF InboxTypes, QueueEntries, Lost
<1>5. InboxTypes(q2, p, r, t, l2, b)
  <2>1. Len(q) \in Nat /\ Len(q) <= MaxDepth /\ MaxDepth \in Nat
    BY <1>1, ConstantsAreSizes DEF InboxTypes
  <2> QED
    BY <1>1, <1>3, <1>4, <2>1 DEF InboxTypes
<1>6. Apart(q2, p, r)
  BY <1>2, <1>3 DEF InboxInv, Apart
<1>7. AllPlain(q2, p, r, t, l2)
  BY <1>2, <1>3, <1>4 DEF InboxInv, AllPlain, Plain
<1>8. Passed(q2, p, t, l2, b) \subseteq Passed(q, p, t, l, b)
  BY <1>2, <1>3, <1>4 DEF Passed
<1>9. FreshInOrder(q2, p, r, t, l2, b)
  BY <1>8 DEF InboxInv, FreshInOrder
<1>10. QueueInOrder(q2, p, t, b)
  <2>1. QueueInOrder(q, p, t, b)
    BY DEF InboxInv
  <2>2. \A i, j \in DOMAIN q2 : i < j /\ Keeps(q2[j], b) => q2[i].event < q2[j].event
    BY <1>2, <1>3, <2>1 DEF QueueInOrder
  <2>3. \A i \in DOMAIN t, j \in DOMAIN q2 : Keeps(q2[j], b) => t[i].event < q2[j].event
    BY <1>3, <2>1 DEF QueueInOrder
  <2> QED
    BY <2>1, <2>2, <2>3 DEF QueueInOrder
<1>11. Known(q2, p, r, t, l2, b) \subseteq Known(q, p, r, t, l, b)
  BY <1>8 DEF Known
<1> QED
  BY <1>5, <1>6, <1>7, <1>9, <1>10, <1>11 DEF InboxInv

\* What is left of a ready list without its first entry.
LEMMA ReadyTail ==
  ASSUME NEW r \in Seq(Tasks), r # <<>>, NEW s, s = Tail(r)
  PROVE  /\ s \in Seq(Tasks) /\ DOMAIN s = 1..(Len(r) - 1) /\ Len(s) = Len(r) - 1
         /\ Head(r) = r[1] /\ r[1] \in Tasks /\ DOMAIN r = 1..Len(r) /\ 1 \in DOMAIN r /\ Len(r) \in Nat
         /\ \A i \in DOMAIN s : /\ s[i] = r[i + 1] /\ i + 1 \in DOMAIN r /\ i + 1 # 1 /\ 1 < i + 1
         /\ \A i \in DOMAIN r : i = 1 \/ (i - 1 \in DOMAIN s /\ s[i - 1] = r[i])
  OBVIOUS

\* What an inbox holds with the entry x more in its ready list than with s.
Differ(q, p, r, s, t, l, b, x) ==
  /\ Entry(q, p, r) = Entry(q, p, s) \union {x}
  /\ Known(q, p, r, t, l, b) = Known(q, p, s, t, l, b) \union {x.event}

\* The inbox while the loop has the first entry of the ready list in hand.
LEMMA Shorter ==
  ASSUME NEW q, NEW p, NEW r, NEW t, NEW l, NEW b, InboxInv(q, p, r, t, l, b),
         r # <<>>, NEW s, s = Tail(r)
  PROVE  InboxInv(q, p, s, t, l, b) /\ Differ(q, p, r, s, t, l, b, Head(r).item)
<1>1. r \in Seq(Tasks)
  BY DEF InboxInv, InboxTypes
<1>2. /\ s \in Seq(Tasks) /\ DOMAIN s = 1..(Len(r) - 1) /\ Len(s) = Len(r) - 1
      /\ Head(r) = r[1] /\ r[1] \in Tasks /\ DOMAIN r = 1..Len(r) /\ 1 \in DOMAIN r /\ Len(r) \in Nat
      /\ \A i \in DOMAIN s : /\ s[i] = r[i + 1] /\ i + 1 \in DOMAIN r /\ i + 1 # 1 /\ 1 < i + 1
      /\ \A i \in DOMAIN r : i = 1 \/ (i - 1 \in DOMAIN s /\ s[i - 1] = r[i])
  BY <1>1, ReadyTail
<1>3. InboxTypes(q, p, s, t, l, b)
  BY <1>2 DEF InboxInv, InboxTypes
<1>4. Apart(q, p, s)
  <2>1. Apart(q, p, r)
    BY DEF InboxInv
  <2>2. \A i, j \in DOMAIN s : i # j /\ s[i].item.event # 0 => s[i].item.event # s[j].item.event
    BY <1>2, <2>1 DEF Apart
  <2>3. /\ \A i \in DOMAIN q, j \in DOMAIN s : q[i].event # 0 => q[i].event # s[j].item.event
        /\ \A i \in DOMAIN p, j \in DOMAIN s : p[i].event # 0 => p[i].event # s[j].item.event
    BY <1>2, <2>1 DEF Apart
  <2> QED
    BY <2>1, <2>2, <2>3 DEF Apart
<1>5. AllPlain(q, p, s, t, l)
  BY <1>2 DEF InboxInv, AllPlain
<1>6. FreshInOrder(q, p, s, t, l, b)
  <2>1. FreshInOrder(q, p, r, t, l, b)
    BY DEF InboxInv
  <2>2. \A i \in DOMAIN s : Fresh(s[i], b) => \A e \in Passed(q, p, t, l, b) : e < s[i].item.event
    BY <1>2, <2>1 DEF FreshInOrder
  <2>3. ASSUME NEW i \in DOMAIN s, NEW j \in DOMAIN s, Fresh(s[i], b), Fresh(s[j], b),
               \/ s[i].task = s[j].task /\ i < j
               \/ s[i].task = "put" /\ s[j].task = "call"
        PROVE  s[i].item.event < s[j].item.event
    <3>1. PICK m \in DOMAIN r : m = i + 1 /\ r[m] = s[i]
      BY <1>2
    <3>2. PICK n \in DOMAIN r : n = j + 1 /\ r[n] = s[j]
      BY <1>2
    <3>3. i < j => m < n
      BY <1>2, <3>1, <3>2
    <3> QED
      BY <2>1, <2>3, <3>1, <3>2, <3>3 DEF FreshInOrder
  <2> QED
    BY <2>2, <2>3 DEF FreshInOrder
<1>7. QueueInOrder(q, p, t, b)
  BY DEF InboxInv
<1>8. Entry(q, p, r) = Entry(q, p, s) \union {r[1].item}
  <2>1. Entry(q, p, s) \union {r[1].item} \subseteq Entry(q, p, r)
    BY <1>2 DEF Entry
  <2>2. ASSUME NEW i \in DOMAIN r PROVE r[i].item \in Entry(q, p, s) \union {r[1].item}
    BY <1>2 DEF Entry
  <2>3. Entry(q, p, r) \subseteq Entry(q, p, s) \union {r[1].item}
    BY <2>2 DEF Entry
  <2> QED
    BY <2>1, <2>3
<1>9. Known(q, p, r, t, l, b) = Known(q, p, s, t, l, b) \union {r[1].item.event}
  <2>1. Known(q, p, s, t, l, b) \union {r[1].item.event} \subseteq Known(q, p, r, t, l, b)
    BY <1>2 DEF Known
  <2>2. ASSUME NEW i \in DOMAIN r
        PROVE  r[i].item.event \in Known(q, p, s, t, l, b) \union {r[1].item.event}
    BY <1>2 DEF Known
  <2>3. Known(q, p, r, t, l, b) \subseteq Known(q, p, s, t, l, b) \union {r[1].item.event}
    BY <2>2 DEF Known
  <2> QED
    BY <2>1, <2>3
<1> QED
  BY <1>2, <1>3, <1>4, <1>5, <1>6, <1>7, <1>8, <1>9 DEF InboxInv, Differ

\* The first entry of the ready list, and its place among the others.
First(q, p, r, s, t, l, b) ==
  LET x == Head(r).item
  IN /\ Head(r) \in Tasks /\ Plain(x, l)
     /\ x.event # 0 => /\ \A i \in DOMAIN q : q[i].event # x.event
                       /\ \A i \in DOMAIN p : p[i].event # x.event
                       /\ \A i \in DOMAIN s : s[i].item.event # x.event
     /\ Fresh(Head(r), b) =>
          /\ \A e \in Passed(q, p, t, l, b) : e < x.event
          /\ \A i \in DOMAIN s : Fresh(s[i], b) /\ s[i].task \in {Head(r).task, "call"} =>
               x.event < s[i].item.event
          /\ \A i \in DOMAIN s : Fresh(s[i], b) /\ s[i].task = "put" /\ Head(r).task = "call" =>
               s[i].item.event < x.event

LEMMA FirstOfReady ==
  ASSUME NEW q, NEW p, NEW r, NEW t, NEW l, NEW b, InboxInv(q, p, r, t, l, b),
         r # <<>>, NEW s, s = Tail(r)
  PROVE  First(q, p, r, s, t, l, b)
<1>1. r \in Seq(Tasks)
  BY DEF InboxInv, InboxTypes
<1>2. /\ Head(r) = r[1] /\ r[1] \in Tasks /\ 1 \in DOMAIN r
      /\ \A i \in DOMAIN s : s[i] = r[i + 1] /\ i + 1 \in DOMAIN r /\ i + 1 # 1 /\ 1 < i + 1
  BY <1>1, ReadyTail
<1>3. PICK y \in Tasks : y = r[1]
  BY <1>2
<1>4. Plain(y.item, l)
  BY <1>2, <1>3 DEF InboxInv, AllPlain
<1>5. y.item.event # 0 => /\ \A i \in DOMAIN q : q[i].event # y.item.event
                          /\ \A i \in DOMAIN p : p[i].event # y.item.event
                          /\ \A i \in DOMAIN s : s[i].item.event # y.item.event
  BY <1>2, <1>3 DEF InboxInv, Apart
<1>6. FreshInOrder(q, p, r, t, l, b)
  BY DEF InboxInv
<1>7. ASSUME Fresh(y, b)
      PROVE  \A e \in Passed(q, p, t, l, b) : e < y.item.event
  BY <1>2, <1>3, <1>6, <1>7 DEF FreshInOrder
<1>8. ASSUME Fresh(y, b), NEW i \in DOMAIN s, Fresh(s[i], b)
      PROVE  /\ s[i].task \in {y.task, "call"} => y.item.event < s[i].item.event
             /\ s[i].task = "put" /\ y.task = "call" => s[i].item.event < y.item.event
  <2>1. PICK m \in DOMAIN r : m = i + 1 /\ 1 < m /\ r[m] = s[i]
    BY <1>2
  <2>2. y.task \in {"put", "call"} /\ s[i].task \in {"put", "call"}
    BY <1>8 DEF Fresh
  <2> QED
    BY <1>2, <1>3, <1>6, <1>8, <2>1, <2>2 DEF FreshInOrder
<1> QED
  BY <1>2, <1>3, <1>4, <1>5, <1>7, <1>8 DEF First

\* An entry joins the ready list.
LEMMA ReadyMore ==
  ASSUME NEW q, NEW p, NEW s, NEW t, NEW l, NEW b, InboxInv(q, p, s, t, l, b),
         NEW y \in Tasks, NEW r, r = Append(s, y),
         Plain(y.item, l), y.task = "consumer" => y.item = Marker({}),
         y.item.event # 0 => /\ \A i \in DOMAIN q : q[i].event # y.item.event
                             /\ \A i \in DOMAIN p : p[i].event # y.item.event
                             /\ \A i \in DOMAIN s : s[i].item.event # y.item.event,
         Fresh(y, b) => /\ \A e \in Passed(q, p, t, l, b) : e < y.item.event
                        /\ \A i \in DOMAIN s : Fresh(s[i], b) =>
                             IF s[i].task = "call" /\ y.task = "put"
                             THEN y.item.event < s[i].item.event ELSE s[i].item.event < y.item.event
  PROVE  InboxInv(q, p, r, t, l, b) /\ Differ(q, p, r, s, t, l, b, y.item)
<1>1. s \in Seq(Tasks)
  BY DEF InboxInv, InboxTypes
<1>2. /\ r \in Seq(Tasks) /\ DOMAIN r = 1..(Len(s) + 1) /\ DOMAIN s = 1..Len(s) /\ Len(s) \in Nat
      /\ \A i \in DOMAIN s : r[i] = s[i] /\ i \in DOMAIN r
      /\ Len(s) + 1 \in DOMAIN r /\ r[Len(s) + 1] = y
      /\ \A i \in DOMAIN r : i \in DOMAIN s \/ i = Len(s) + 1
  BY <1>1
<1>3. InboxTypes(q, p, r, t, l, b)
  BY <1>2 DEF InboxInv, InboxTypes
<1>4. Apart(q, p, r)
  <2>1. Apart(q, p, s)
    BY DEF InboxInv
  <2>2. \A i, j \in DOMAIN r : i # j /\ r[i].item.event # 0 => r[i].item.event # r[j].item.event
    BY <1>2, <2>1 DEF Apart
  <2>3. /\ \A i \in DOMAIN q, j \in DOMAIN r : q[i].event # 0 => q[i].event # r[j].item.event
        /\ \A i \in DOMAIN p, j \in DOMAIN r : p[i].event # 0 => p[i].event # r[j].item.event
    BY <1>2, <2>1 DEF Apart
  <2> QED
    BY <2>1, <2>2, <2>3 DEF Apart
<1>5. AllPlain(q, p, r, t, l)
  BY <1>2 DEF InboxInv, AllPlain
<1>6. FreshInOrder(q, p, r, t, l, b)
  <2>1. FreshInOrder(q, p, s, t, l, b)
    BY DEF InboxInv
  <2>2. \A i \in DOMAIN r : Fresh(r[i], b) => \A e \in Passed(q, p, t, l, b) : e < r[i].item.event
    BY <1>2, <2>1 DEF FreshInOrder
  <2>3. ASSUME NEW i \in DOMAIN r, NEW j \in DOMAIN r, Fresh(r[i], b), Fresh(r[j], b),
               \/ r[i].task = r[j].task /\ i < j
               \/ r[i].task = "put" /\ r[j].task = "call"
        PROVE  r[i].item.event < r[j].item.event
    <3>1. CASE i \in DOMAIN s /\ j \in DOMAIN s
      BY <1>2, <2>1, <2>3, <3>1 DEF FreshInOrder
    <3>2. CASE i \in DOMAIN s /\ j = Len(s) + 1
      BY <1>2, <2>3, <3>2
    <3>3. CASE i = Len(s) + 1 /\ j \in DOMAIN s
      <4>1. ~(i < j) /\ r[i] = y /\ r[j] = s[j]
        BY <1>2, <3>3
      <4> QED
        BY <2>3, <3>3, <4>1
    <3>4. CASE i = Len(s) + 1 /\ j = Len(s) + 1
      <4>1. ~(i < j)
        BY <1>2, <3>4
      <4> QED
        BY <2>3, <3>4, <4>1
    <3> QED
      BY <1>2, <3>1, <3>2, <3>3, <3>4
  <2> QED
    BY <2>2, <2>3 DEF FreshInOrder
<1>7. QueueInOrder(q, p, t, b)
  BY DEF InboxInv
<1>8. Entry(q, p, r) = Entry(q, p, s) \union {y.item}
  <2>1. Entry(q, p, r) \subseteq Entry(q, p, s) \union {y.item}
    BY <1>2 DEF Entry
  <2>2. Entry(q, p, s) \union {y.item} \subseteq Entry(q, p, r)
    BY <1>2 DEF Entry
  <2> QED
    BY <2>1, <2>2
<1>9. Known(q, p, r, t, l, b) = Known(q, p, s, t, l, b) \union {y.item.event}
  <2>1. Known(q, p, r, t, l, b) \subseteq Known(q, p, s, t, l, b) \union {y.item.event}
    BY <1>2 DEF Known
  <2>2. Known(q, p, s, t, l, b) \union {y.item.event} \subseteq Known(q, p, r, t, l, b)
    BY <1>2 DEF Known
  <2> QED
    BY <2>1, <2>2
<1> QED
  BY <1>3, <1>4, <1>5, <1>6, <1>7, <1>8, <1>9 DEF InboxInv, Differ

\* A scheduled call creates the task of its put.
LEMMA Called ==
  ASSUME NEW q, NEW p, NEW r, NEW t, NEW l, NEW b, InboxInv(q, p, r, t, l, b),
         r # <<>>, Head(r).task = "call", NEW r2, r2 = Append(Tail(r), Put(Head(r).item))
  PROVE  /\ InboxInv(q, p, r2, t, l, b)
         /\ Alike(Entry(q, p, r2), Entry(q, p, r))
         /\ Alike(Known(q, p, r2, t, l, b), Known(q, p, r, t, l, b))
<1>1. PICK s : s = Tail(r)
  OBVIOUS
<1>2. InboxInv(q, p, s, t, l, b) /\ Differ(q, p, r, s, t, l, b, Head(r).item)
  BY <1>1, Shorter
<1>3. First(q, p, r, s, t, l, b)
  BY <1>1, FirstOfReady
<1>4. PICK x \in QueueEntries : x = Head(r).item
  BY <1>3 DEF First, Tasks
<1>5. PICK y \in Tasks : y = Put(x)
  BY DEF Tasks, Put
<1>6. y.item = x /\ y.task = "put"
  BY <1>5 DEF Put
<1>7. Fresh(y, b) => Fresh(Head(r), b)
  BY <1>4, <1>6 DEF Fresh
<1>8. \A i \in DOMAIN s : Fresh(s[i], b) => s[i].task \in {"put", "call"}
  BY DEF Fresh
<1>9. Fresh(y, b) => /\ \A e \in Passed(q, p, t, l, b) : e < y.item.event
                     /\ \A i \in DOMAIN s : Fresh(s[i], b) =>
                          IF s[i].task = "call" /\ y.task = "put"
                          THEN y.item.event < s[i].item.event ELSE s[i].item.event < y.item.event
  BY <1>3, <1>4, <1>6, <1>7, <1>8 DEF First
<1>10. r2 = Append(s, y) /\ Plain(y.item, l)
  BY <1>1, <1>3, <1>4, <1>5, <1>6 DEF First
<1>11. y.item.event # 0 => /\ \A i \in DOMAIN q : q[i].event # y.item.event
                           /\ \A i \in DOMAIN p : p[i].event # y.item.event
                           /\ \A i \in DOMAIN s : s[i].item.event # y.item.event
  BY <1>3, <1>4, <1>6 DEF First
<1>12. y.task = "consumer" => y.item = Marker({})
  BY <1>6
<1>13. InboxInv(q, p, r2, t, l, b) /\ Differ(q, p, r2, s, t, l, b, x)
  BY <1>2, <1>6, <1>9, <1>10, <1>11, <1>12, ReadyMore
<1> QED
  BY <1>2, <1>4, <1>13 DEF Differ, Alike

\* A put in hand, fresh or not, is older than every fresh event that is left.
LEMMA PutIsOlder ==
  ASSUME NEW q, NEW p, NEW r, NEW t, NEW l, NEW b, InboxInv(q, p, r, t, l, b),
         r # <<>>, Head(r).task = "put", NEW s, s = Tail(r), NEW x, x = Head(r).item
  PROVE  /\ \A i \in DOMAIN s : Fresh(s[i], b) => x.event < s[i].item.event
         /\ Keeps(x, b) => \A e \in Passed(q, p, t, l, b) : e < x.event
         /\ x \in QueueEntries /\ Plain(x, l)
<1>1. First(q, p, r, s, t, l, b)
  BY FirstOfReady
<1>2. InboxInv(q, p, s, t, l, b)
  BY Shorter
<1>3. x \in QueueEntries /\ Plain(x, l)
  BY <1>1 DEF First, Tasks
<1>4. Keeps(x, b) <=> Fresh(Head(r), b)
  BY DEF Keeps, Fresh
<1>5. ASSUME NEW i \in DOMAIN s, Fresh(s[i], b) PROVE x.event < s[i].item.event
  <2>1. CASE Fresh(Head(r), b)
    BY <1>1, <1>5, <2>1 DEF First, Fresh
  <2>2. CASE x.event = 0
    <3>1. s \in Seq(Tasks)
      BY <1>2 DEF InboxInv, InboxTypes
    <3>2. s[i] \in Tasks
      BY <3>1
    <3>3. PICK e \in Messages \union {0} : e = s[i].item.event
      BY <3>2 DEF Tasks, QueueEntries
    <3>4. e # 0
      BY <1>5, <3>3 DEF Fresh
    <3> QED
      BY <2>2, <3>3, <3>4, ConstantsAreSizes DEF Messages
  <2>3. CASE x.event \in b
    <3>1. x.event \in Passed(q, p, t, l, b)
      BY <2>3 DEF Passed
    <3> QED
      BY <1>2, <1>5, <3>1 DEF InboxInv, FreshInOrder
  <2> QED
    BY <1>4, <2>1, <2>2, <2>3 DEF Keeps
<1>6. Keeps(x, b) => \A e \in Passed(q, p, t, l, b) : e < x.event
  BY <1>1, <1>4 DEF First
<1> QED
  BY <1>3, <1>5, <1>6

\* The put finds the queue full and waits.
LEMMA Waits ==
  ASSUME NEW q, NEW p, NEW r, NEW t, NEW l, NEW b, InboxInv(q, p, r, t, l, b),
         r # <<>>, Head(r).task = "put", NEW s, s = Tail(r),
         NEW p2, p2 = Append(p, Head(r).item), NEW b2, Joined(b2, b, Head(r).item.event)
  PROVE  /\ InboxInv(q, p2, s, t, l, b2)
         /\ Known(q, p2, s, t, l, b2) \subseteq Known(q, p, r, t, l, b)
         /\ Alike(Entry(q, p2, s), Entry(q, p, r))
<1>1. InboxInv(q, p, s, t, l, b) /\ Differ(q, p, r, s, t, l, b, Head(r).item)
  BY Shorter
<1>2. PICK x : x = Head(r).item
  OBVIOUS
<1>3. /\ \A i \in DOMAIN s : Fresh(s[i], b) => x.event < s[i].item.event
      /\ x \in QueueEntries /\ Plain(x, l)
  BY <1>2, PutIsOlder
<1>4. x.event # 0 => /\ \A i \in DOMAIN q : q[i].event # x.event
                     /\ \A i \in DOMAIN p : p[i].event # x.event
                     /\ \A i \in DOMAIN s : s[i].item.event # x.event
  <2>1. First(q, p, r, s, t, l, b)
    BY FirstOfReady
  <2> QED
    BY <1>2, <2>1 DEF First
<1>5. InboxTypes(q, p, s, t, l, b)
  BY <1>1 DEF InboxInv
<1>6. p \in Seq(QueueEntries) /\ p2 = Append(p, x)
  BY <1>2, <1>5 DEF InboxTypes
<1>7. /\ p2 \in Seq(QueueEntries) /\ DOMAIN p2 = 1..(Len(p) + 1) /\ DOMAIN p = 1..Len(p)
      /\ \A i \in DOMAIN p : p2[i] = p[i] /\ i \in DOMAIN p2
      /\ Len(p) + 1 \in DOMAIN p2 /\ p2[Len(p) + 1] = x
      /\ \A i \in DOMAIN p2 : i \in DOMAIN p \/ i = Len(p) + 1
  BY <1>3, <1>6
<1>8. b2 = b \union {x.event} /\ x.event \in Messages \union {0}
  BY <1>2, <1>3 DEF QueueEntries, Joined
<1>9. InboxTypes(q, p2, s, t, l, b2)
  BY <1>5, <1>7, <1>8 DEF InboxTypes
<1>10. Apart(q, p2, s)
  <2>1. Apart(q, p, s)
    BY <1>1 DEF InboxInv
  <2>2. \A i, j \in DOMAIN p2 : i # j /\ p2[i].event # 0 => p2[i].event # p2[j].event
    BY <1>4, <1>7, <2>1 DEF Apart
  <2>3. /\ \A i \in DOMAIN q, j \in DOMAIN p2 : q[i].event # 0 => q[i].event # p2[j].event
        /\ \A i \in DOMAIN p2, j \in DOMAIN s : p2[i].event # 0 => p2[i].event # s[j].item.event
    BY <1>4, <1>7, <2>1 DEF Apart
  <2> QED
    BY <2>1, <2>2, <2>3 DEF Apart
<1>11. AllPlain(q, p2, s, t, l)
  BY <1>1, <1>3, <1>7 DEF InboxInv, AllPlain
<1>12. Passed(q, p2, t, l, b2) = Passed(q, p, t, l, b) \union {x.event}
  <2>1. Passed(q, p2, t, l, b2) \subseteq Passed(q, p, t, l, b) \union {x.event}
    BY <1>7, <1>8 DEF Passed
  <2>2. Passed(q, p, t, l, b) \union {x.event} \subseteq Passed(q, p2, t, l, b2)
    BY <1>7, <1>8 DEF Passed
  <2> QED
    BY <2>1, <2>2
<1>13. \A y : Fresh(y, b2) => Fresh(y, b)
  BY <1>8 DEF Fresh
<1>14. FreshInOrder(q, p2, s, t, l, b2)
  BY <1>1, <1>3, <1>12, <1>13 DEF InboxInv, FreshInOrder
<1>15. QueueInOrder(q, p2, t, b2)
  BY <1>1, <1>7, <1>8 DEF InboxInv, QueueInOrder, Keeps
<1>16. Known(q, p2, s, t, l, b2) \subseteq Known(q, p, r, t, l, b)
  BY <1>1, <1>2, <1>12 DEF Known, Differ
<1>17. Entry(q, p2, s) = Entry(q, p, s) \union {x}
  <2>1. Entry(q, p2, s) \subseteq Entry(q, p, s) \union {x}
    BY <1>7 DEF Entry
  <2>2. Entry(q, p, s) \union {x} \subseteq Entry(q, p2, s)
    BY <1>7 DEF Entry
  <2> QED
    BY <2>1, <2>2
<1> QED
  BY <1>1, <1>2, <1>9, <1>10, <1>11, <1>14, <1>15, <1>16, <1>17 DEF InboxInv, Differ, Alike

\* The put finds room.
LEMMA Puts ==
  ASSUME NEW q, NEW p, NEW r, NEW t, NEW l, NEW b, InboxInv(q, p, r, t, l, b),
         r # <<>>, Head(r).task = "put", NEW s, s = Tail(r),
         Room(q), NEW q2, q2 = Append(q, Head(r).item)
  PROVE  /\ InboxInv(q2, p, s, t, l, b)
         /\ Known(q2, p, s, t, l, b) \subseteq Known(q, p, r, t, l, b)
         /\ Alike(Entry(q2, p, s), Entry(q, p, r))
<1>1. InboxInv(q, p, s, t, l, b) /\ Differ(q, p, r, s, t, l, b, Head(r).item)
  BY Shorter
<1>2. PICK x : x = Head(r).item
  OBVIOUS
<1>3. /\ \A i \in DOMAIN s : Fresh(s[i], b) => x.event < s[i].item.event
      /\ Keeps(x, b) => \A e \in Passed(q, p, t, l, b) : e < x.event
      /\ x \in QueueEntries /\ Plain(x, l)
  BY <1>2, PutIsOlder
<1>4. x.event # 0 => /\ \A i \in DOMAIN q : q[i].event # x.event
                     /\ \A i \in DOMAIN p : p[i].event # x.event
                     /\ \A i \in DOMAIN s : s[i].item.event # x.event
  <2>1. First(q, p, r, s, t, l, b)
    BY FirstOfReady
  <2> QED
    BY <1>2, <2>1 DEF First
<1>5. InboxTypes(q, p, s, t, l, b)
  BY <1>1 DEF InboxInv
<1>6. q \in Seq(QueueEntries) /\ q2 = Append(q, x)
  BY <1>2, <1>5 DEF InboxTypes
<1>7. /\ q2 \in Seq(QueueEntries) /\ DOMAIN q2 = 1..(Len(q) + 1) /\ DOMAIN q = 1..Len(q)
      /\ \A i \in DOMAIN q : q2[i] = q[i] /\ i \in DOMAIN q2
      /\ Len(q) + 1 \in DOMAIN q2 /\ q2[Len(q) + 1] = x
      /\ \A i \in DOMAIN q2 : i \in DOMAIN q \/ i = Len(q) + 1
      /\ Len(q2) = Len(q) + 1 /\ Len(q) \in Nat
  BY <1>3, <1>6
<1>8. InboxTypes(q2, p, s, t, l, b)
  <2>1. Len(q2) <= MaxDepth
    BY <1>7, ConstantsAreSizes DEF Room
  <2> QED
    BY <1>5, <1>7, <2>1 DEF InboxTypes
<1>9. Apart(q2, p, s)
  <2>1. Apart(q, p, s)
    BY <1>1 DEF InboxInv
  <2>2. \A i, j \in DOMAIN q2 : i # j /\ q2[i].event # 0 => q2[i].event # q2[j].event
    BY <1>4, <1>7, <2>1 DEF Apart
  <2>3. /\ \A i \in DOMAIN q2, j \in DOMAIN p : q2[i].event # 0 => q2[i].event # p[j].event
        /\ \A i \in DOMAIN q2, j \in DOMAIN s : q2[i].event # 0 => q2[i].event # s[j].item.event
    BY <1>4, <1>7, <2>1 DEF Apart
  <2> QED
    BY <2>1, <2>2, <2>3 DEF Apart
<1>10. AllPlain(q2, p, s, t, l)
  BY <1>1, <1>3, <1>7 DEF InboxInv, AllPlain
<1>11. Passed(q2, p, t, l, b) = Passed(q, p, t, l, b) \union {x.event}
  <2>1. Passed(q2, p, t, l, b) \subseteq Passed(q, p, t, l, b) \union {x.event}
    BY <1>7 DEF Passed
  <2>2. Passed(q, p, t, l, b) \union {x.event} \subseteq Passed(q2, p, t, l, b)
    BY <1>7 DEF Passed
  <2> QED
    BY <2>1, <2>2
<1>12. FreshInOrder(q2, p, s, t, l, b)
  BY <1>1, <1>3, <1>11 DEF InboxInv, FreshInOrder
<1>13. QueueInOrder(q2, p, t, b)
  <2>1. QueueInOrder(q, p, t, b)
    BY <1>1 DEF InboxInv
  <2>2. /\ \A i \in DOMAIN q : q[i].event \in Passed(q, p, t, l, b)
        /\ \A i \in DOMAIN t : t[i].event \in Passed(q, p, t, l, b)
    BY DEF Passed
  <2>3. \A i, j \in DOMAIN q2 : i < j /\ Keeps(q2[j], b) => q2[i].event < q2[j].event
    <3> SUFFICES ASSUME NEW i \in DOMAIN q2, NEW j \in DOMAIN q2, i < j, Keeps(q2[j], b)
                 PROVE  q2[i].event < q2[j].event
      OBVIOUS
    <3>1. i \in DOMAIN q
      BY <1>7
    <3>2. CASE j \in DOMAIN q
      BY <1>7, <2>1, <3>1, <3>2 DEF QueueInOrder
    <3>3. CASE j = Len(q) + 1
      BY <1>3, <1>7, <2>2, <3>1, <3>3
    <3> QED
      BY <1>7, <3>2, <3>3
  <2>4. \A i \in DOMAIN t, j \in DOMAIN q2 : Keeps(q2[j], b) => t[i].event < q2[j].event
    BY <1>3, <1>7, <2>1, <2>2 DEF QueueInOrder
  <2> QED
    BY <2>1, <2>3, <2>4 DEF QueueInOrder
<1>14. Known(q2, p, s, t, l, b) \subseteq Known(q, p, r, t, l, b)
  BY <1>1, <1>2, <1>11 DEF Known, Differ
<1>15. Entry(q2, p, s) = Entry(q, p, s) \union {x}
  <2>1. Entry(q2, p, s) \subseteq Entry(q, p, s) \union {x}
    BY <1>7 DEF Entry
  <2>2. Entry(q, p, s) \union {x} \subseteq Entry(q2, p, s)
    BY <1>7 DEF Entry
  <2> QED
    BY <2>1, <2>2
<1> QED
  BY <1>1, <1>2, <1>8, <1>9, <1>10, <1>12, <1>13, <1>14, <1>15 DEF InboxInv, Differ, Alike

\* The same of the entries as they then are.
LEMMA PutsNext ==
  ASSUME NEW q, NEW p, NEW r, NEW t, NEW l, NEW b, InboxInv(q, p, r, t, l, b),
         r # <<>>, Head(r).task = "put", Room(q)
  PROVE  /\ InboxInv(Append(q, Head(r).item), p, Tail(r), t, l, b)
         /\ Known(Append(q, Head(r).item), p, Tail(r), t, l, b) \subseteq Known(q, p, r, t, l, b)
         /\ Alike(Entry(Append(q, Head(r).item), p, Tail(r)), Entry(q, p, r))
  BY Puts

\* The consumer is woken.
LEMMA Wakes ==
  ASSUME NEW q, NEW p, NEW s, NEW t, NEW l, NEW b, InboxInv(q, p, s, t, l, b),
         NEW r, r = Append(s, Wake)
  PROVE  InboxInv(q, p, r, t, l, b) /\ Differ(q, p, r, s, t, l, b, Marker({}))
<1>1. Marker({}) \in QueueEntries /\ Plain(Marker({}), l) /\ Marker({}).event = 0
  BY DEF Marker, QueueEntries, Plain
<1>2. PICK y \in Tasks : y = Wake
  BY <1>1 DEF Wake, Tasks
<1>3. y.item = Marker({}) /\ y.item.event = 0 /\ ~Fresh(y, b)
  BY <1>1, <1>2 DEF Wake, Fresh
<1>4. Plain(y.item, l) /\ r = Append(s, y)
  BY <1>1, <1>2, <1>3
<1>5. InboxInv(q, p, r, t, l, b) /\ Differ(q, p, r, s, t, l, b, y.item)
  BY <1>3, <1>4, ReadyMore
<1> QED
  BY <1>3, <1>5

\* A message newer than all the strategy knows is scheduled.
LEMMA Delivered ==
  ASSUME NEW q, NEW p, NEW s, NEW t, NEW l, NEW b, InboxInv(q, p, s, t, l, b),
         NEW e \in Messages, \A k \in Known(q, p, s, t, l, b) : k < e,
         NEW r, r = Append(s, Call(Event(e)))
  PROVE  InboxInv(q, p, r, t, l, b) /\ Differ(q, p, r, s, t, l, b, Event(e))
<1>1. Event(e) \in QueueEntries /\ Plain(Event(e), l) /\ Event(e).event = e
  BY DEF Event, QueueEntries, Plain
<1>2. PICK y \in Tasks : y = Call(Event(e))
  BY <1>1 DEF Call, Tasks
<1>3. y.item = Event(e) /\ y.item.event = e /\ y.task = "call"
  BY <1>1, <1>2 DEF Call
<1>4. /\ \A i \in DOMAIN q : q[i].event \in Known(q, p, s, t, l, b)
      /\ \A i \in DOMAIN p : p[i].event \in Known(q, p, s, t, l, b)
      /\ \A i \in DOMAIN s : s[i].item.event \in Known(q, p, s, t, l, b)
      /\ \A k \in Passed(q, p, t, l, b) : k \in Known(q, p, s, t, l, b)
  BY DEF Known, Passed
<1>5. \A k \in Known(q, p, s, t, l, b) : k < e /\ k # e
  <2>1. e \in Int
    BY ConstantsAreSizes DEF Messages
  <2>2. ~(e < e)
    BY <2>1
  <2> QED
    BY <2>2
<1>6. Plain(y.item, l) /\ r = Append(s, y)
  BY <1>1, <1>2, <1>3
<1>7. y.item.event # 0 => /\ \A i \in DOMAIN q : q[i].event # y.item.event
                          /\ \A i \in DOMAIN p : p[i].event # y.item.event
                          /\ \A i \in DOMAIN s : s[i].item.event # y.item.event
  BY <1>3, <1>4, <1>5
<1>8. Fresh(y, b) => /\ \A k \in Passed(q, p, t, l, b) : k < y.item.event
                     /\ \A i \in DOMAIN s : Fresh(s[i], b) =>
                          IF s[i].task = "call" /\ y.task = "put"
                          THEN y.item.event < s[i].item.event ELSE s[i].item.event < y.item.event
  BY <1>3, <1>4, <1>5
<1>9. y.task = "consumer" => y.item = Marker({})
  BY <1>3
<1>10. InboxInv(q, p, r, t, l, b) /\ Differ(q, p, r, s, t, l, b, y.item)
  BY <1>6, <1>7, <1>8, <1>9, ReadyMore
<1> QED
  BY <1>3, <1>10

\* A marker for lost messages is scheduled.
LEMMA Announced ==
  ASSUME NEW q, NEW p, NEW s, NEW t, NEW l, NEW b, InboxInv(q, p, s, t, l, b),
         NEW ds \in SUBSET Messages, ds \subseteq l,
         NEW r, r = Append(s, Call(Marker(ds)))
  PROVE  InboxInv(q, p, r, t, l, b) /\ Differ(q, p, r, s, t, l, b, Marker(ds))
<1>1. Marker(ds) \in QueueEntries /\ Plain(Marker(ds), l) /\ Marker(ds).event = 0
  BY DEF Marker, QueueEntries, Plain
<1>2. PICK y \in Tasks : y = Call(Marker(ds))
  BY <1>1 DEF Call, Tasks
<1>3. y.item = Marker(ds) /\ y.item.event = 0 /\ ~Fresh(y, b) /\ y.task = "call"
  BY <1>1, <1>2 DEF Call, Fresh
<1>4. Plain(y.item, l) /\ r = Append(s, y)
  BY <1>1, <1>2, <1>3
<1>5. InboxInv(q, p, r, t, l, b) /\ Differ(q, p, r, s, t, l, b, y.item)
  BY <1>3, <1>4, ReadyMore
<1> QED
  BY <1>3, <1>5

\* A life ends, and what waits goes with it.
LEMMA Cleared ==
  ASSUME NEW q, NEW p, NEW r, NEW t, NEW l, NEW b, InboxInv(q, p, r, t, l, b)
  PROVE  /\ InboxInv(<<>>, <<>>, <<>>, t, l, b)
         /\ Known(<<>>, <<>>, <<>>, t, l, b) \subseteq Known(q, p, r, t, l, b)
         /\ Alike(Entry(<<>>, <<>>, <<>>), {})
<1>1. InboxTypes(<<>>, <<>>, <<>>, t, l, b)
  <2>1. <<>> \in Seq(QueueEntries) /\ <<>> \in Seq(Tasks) /\ Len(<<>>) = 0 /\ MaxDepth \in Nat
    BY ConstantsAreSizes
  <2> QED
    BY <2>1 DEF InboxInv, InboxTypes
<1>2. Apart(<<>>, <<>>, <<>>) /\ AllPlain(<<>>, <<>>, <<>>, t, l)
  BY DEF InboxInv, Apart, AllPlain
<1>3. FreshInOrder(<<>>, <<>>, <<>>, t, l, b) /\ QueueInOrder(<<>>, <<>>, t, b)
  BY DEF InboxInv, FreshInOrder, QueueInOrder
<1>4. Known(<<>>, <<>>, <<>>, t, l, b) \subseteq Known(q, p, r, t, l, b)
  BY DEF Known, Passed
<1>5. Entry(<<>>, <<>>, <<>>) = {}
  BY DEF Entry
<1> QED
  BY <1>1, <1>2, <1>3, <1>4, <1>5 DEF InboxInv, Alike
------------------------------------------------------------------------------
(* The bus.                                                                  *)

LEMMA Sizes ==
  /\ MaxMsgs \in Nat /\ BatchMax \in Nat \ {0} /\ MaxDepth \in Nat \ {0}
  /\ BackoffCap \in Nat \ {0} /\ CapLimit \in Nat \ {0}
  /\ Handles \subseteq Nat \ {0} /\ 0 \notin Handles
  BY ConstantsAreSizes

LEMMA BusStarts == Init => BusPart
<1> SUFFICES ASSUME Init PROVE BusPart
  OBVIOUS
<1> USE Sizes DEF Init, Idle
<1>1. StreamTypes /\ BusRecord
  BY DEF StreamTypes, BusRecord, PCs
<1>2. OtherTypes
  <2>1. backoff \in 1..BackoffCap /\ capHits \in 0..CapLimit /\ keys \in BOOLEAN
    <3>1. backoff = 1 /\ capHits = 0 /\ keys = FALSE
      OBVIOUS
    <3>2. 1 \in 1..BackoffCap /\ 0 \in 0..CapLimit
      OBVIOUS
    <3> QED
      BY <3>1, <3>2, Zenon
  <2>2. handles \subseteq Handles /\ routed \subseteq Messages
    OBVIOUS
  <2>3. /\ life \in [Handles -> {"unborn", "subscribing", "running", "ended", "over"}]
        /\ getter \in [Handles -> BOOLEAN]
    OBVIOUS
  <2> QED
    BY <2>1, <2>2, <2>3 DEF OtherTypes
<1>3. BusInv /\ HandlesAreBorn
  BY DEF BusInv, PlaceInv, BatchIsNext, HandlesAreBorn, Busy, Dropping
<1> QED
  BY <1>1, <1>2, <1>3 DEF BusPart, BusTypes

\* What the failure of a step leaves of the bus.
LEMMA Failing ==
  ASSUME BusRecord, OtherTypes, BusInv, bus.pc \in {"read", "batch", "deliver"}, bus.todo = {}, Fail(bus),
         delivered' \in Nat
  PROVE  BusRecord' /\ BusInv' /\ capHits' \in 0..CapLimit /\ bus'.todo = {} /\ bus'.for = 0
<1> USE Sizes
<1>1. PlaceInv /\ capHits < CapLimit /\ bus.for = 0 /\ bus.drops = {}
  BY DEF BusInv, PlaceInv, Dropping
<1>2. PICK hits \in 0..CapLimit : /\ capHits' = hits
                                  /\ bus' = [bus EXCEPT !.pc = IF hits >= CapLimit THEN "exit" ELSE "wait", !.batch = <<>>]
  <2>1. capHits \in 0..CapLimit /\ capHits + 1 \in 0..CapLimit /\ 0 \in 0..CapLimit
    BY <1>1 DEF OtherTypes
  <2> QED
    BY <2>1 DEF Fail
<1>3. PICK pc \in {"exit", "wait"} : bus' = [bus EXCEPT !.pc = pc, !.batch = <<>>] /\ (pc # "exit" => hits < CapLimit)
  <2>1. CASE hits >= CapLimit
    BY <1>2, <2>1
  <2>2. CASE hits < CapLimit
    <3>1. ~(hits >= CapLimit)
      BY <2>2
    <3> QED
      BY <1>2, <2>2, <3>1
  <2> QED
    BY <2>1, <2>2
<1>4. bus'.pc = pc /\ bus'.batch = <<>> /\ bus'.todo = {} /\ bus'.for = 0 /\ bus'.drops = {}
  BY <1>1, <1>3 DEF BusRecord
<1>5. BusRecord'
  <2>1. <<>> \in Seq(Messages)
    OBVIOUS
  <2> QED
    BY <1>3, <2>1 DEF BusRecord, PCs
<1>6. PlaceInv'
  <2>1. pc \notin Busy /\ pc \notin Dropping /\ (pc # "exit" => capHits' < CapLimit)
    BY <1>2, <1>3 DEF Busy, Dropping
  <2> QED
    BY <1>4, <2>1 DEF PlaceInv
<1>7. BatchIsNext'
  BY <1>4 DEF BatchIsNext
<1> QED
  BY <1>2, <1>4, <1>5, <1>6, <1>7 DEF BusInv

LEMMA BusStepKeeps ==
  ASSUME BusPart, InboxFunctions, [Next]_vars PROVE BusPart'
<1> USE Sizes DEF redis, attempts, strategy, inbox, counts
<1>0. StreamTypes /\ BusRecord /\ OtherTypes /\ PlaceInv /\ BatchIsNext /\ HandlesAreBorn
  BY DEF BusPart, BusTypes, BusInv
<1>a. bus.batch # <<>> => Head(bus.batch) = bus.batch[1]
  BY <1>0 DEF BusRecord
<1>1. CASE Publish
  <2>1. StreamTypes' /\ OtherTypes'
    BY <1>0, <1>1 DEF StreamTypes, OtherTypes, BusRecord, Publish
  <2>2. BusRecord' /\ BatchIsNext'
    BY <1>0, <1>1 DEF BusRecord, BatchIsNext, OtherTypes, PCs, Busy, Publish
  <2>3. PlaceInv' /\ HandlesAreBorn'
    BY <1>0, <1>1 DEF BusRecord, OtherTypes, PlaceInv, HandlesAreBorn, PCs, Busy, Dropping, Publish
  <2> QED
    BY <2>1, <2>2, <2>3 DEF BusPart, BusTypes, BusInv
<1>2. CASE RouteMalformed
  <2>1. StreamTypes' /\ OtherTypes'
    BY <1>0, <1>2 DEF StreamTypes, OtherTypes, BusRecord, RouteMalformed
  <2>2. BusRecord' /\ BatchIsNext'
    BY <1>0, <1>2 DEF BusRecord, BatchIsNext, OtherTypes, PCs, Busy, RouteMalformed
  <2>3. bus'.pc = "deliver" /\ bus'.batch = bus.batch /\ bus'.for = 0 /\ bus'.drops = {}
        /\ UNCHANGED <<capHits, life, handles>> /\ capHits < CapLimit
        /\ bus.batch # <<>> /\ bus.batch[1] \in routed' /\ (bus'.todo = {} \/ bus'.todo = handles)
    BY <1>0, <1>a, <1>2 DEF BusRecord, PlaceInv, Busy, Dropping, RouteMalformed
  <2>4. PlaceInv' /\ HandlesAreBorn'
    BY <1>0, <2>3 DEF PlaceInv, HandlesAreBorn, OtherTypes, Busy, Dropping
  <2> QED
    BY <2>1, <2>2, <2>4 DEF BusPart, BusTypes, BusInv
<1>3. CASE Retry
  <2>1. StreamTypes' /\ OtherTypes'
    BY <1>0, <1>3 DEF StreamTypes, OtherTypes, BusRecord, Retry
  <2>2. BusRecord' /\ BatchIsNext'
    BY <1>0, <1>3 DEF BusRecord, BatchIsNext, OtherTypes, PCs, Busy, Retry
  <2>3. PlaceInv' /\ HandlesAreBorn'
    BY <1>0, <1>3 DEF BusRecord, OtherTypes, PlaceInv, HandlesAreBorn, PCs, Busy, Dropping, Retry
  <2> QED
    BY <2>1, <2>2, <2>3 DEF BusPart, BusTypes, BusInv
<1>4. CASE Route
  <2>1. StreamTypes' /\ OtherTypes'
    BY <1>0, <1>4 DEF StreamTypes, OtherTypes, BusRecord, Route
  <2>2. BusRecord' /\ BatchIsNext'
    BY <1>0, <1>4 DEF BusRecord, BatchIsNext, OtherTypes, PCs, Busy, Route
  <2>3. bus'.pc = "deliver" /\ bus'.batch = bus.batch /\ bus'.for = 0 /\ bus'.drops = {}
        /\ UNCHANGED <<capHits, life, handles>> /\ capHits < CapLimit
        /\ bus.batch # <<>> /\ bus.batch[1] \in routed' /\ (bus'.todo = {} \/ bus'.todo = handles)
    BY <1>0, <1>a, <1>4 DEF BusRecord, PlaceInv, Busy, Dropping, Route
  <2>4. PlaceInv' /\ HandlesAreBorn'
    BY <1>0, <2>3 DEF PlaceInv, HandlesAreBorn, OtherTypes, Busy, Dropping
  <2> QED
    BY <2>1, <2>2, <2>4 DEF BusPart, BusTypes, BusInv
<1>5. CASE BatchDone
  <2>1. StreamTypes' /\ OtherTypes'
    BY <1>0, <1>5 DEF StreamTypes, OtherTypes, BusRecord, BatchDone
  <2>2. BusRecord' /\ BatchIsNext'
    BY <1>0, <1>5 DEF BusRecord, BatchIsNext, OtherTypes, PCs, Busy, BatchDone
  <2>3. PlaceInv' /\ HandlesAreBorn'
    BY <1>0, <1>5 DEF BusRecord, OtherTypes, PlaceInv, HandlesAreBorn, PCs, Busy, Dropping, BatchDone
  <2> QED
    BY <2>1, <2>2, <2>3 DEF BusPart, BusTypes, BusInv
<1>6. CASE Mark
  <2>1. StreamTypes' /\ OtherTypes'
    BY <1>0, <1>6 DEF StreamTypes, OtherTypes, BusRecord, Mark
  <2>2. BusRecord' /\ BatchIsNext'
    BY <1>0, <1>6 DEF BusRecord, BatchIsNext, OtherTypes, PCs, Busy, Mark
  <2>3. PlaceInv' /\ HandlesAreBorn'
    BY <1>0, <1>6 DEF BusRecord, OtherTypes, PlaceInv, HandlesAreBorn, PCs, Busy, Dropping, Mark
  <2> QED
    BY <2>1, <2>2, <2>3 DEF BusPart, BusTypes, BusInv
<1>7. CASE ReadFails
  <2>1. StreamTypes'
    BY <1>0, <1>7 DEF StreamTypes, ReadFails, HandOut
  <2>2. /\ Fail(bus) /\ bus.pc \in {"read", "batch", "deliver"} /\ bus.todo = {} /\ delivered' \in Nat
        /\ UNCHANGED <<backoff, keys, handles, life, getter, routed>>
    BY <1>0, <1>7, <2>1 DEF StreamTypes, PlaceInv, Busy, ReadFails, HandOut
  <2>3. BusRecord' /\ BusInv' /\ capHits' \in 0..CapLimit /\ bus'.todo = {} /\ bus'.for = 0
    <3>1. BusInv
      BY <1>0 DEF BusInv
    <3> QED
      BY <1>0, <2>2, <3>1, Failing
  <2>4. OtherTypes' /\ HandlesAreBorn'
    BY <1>0, <2>2, <2>3 DEF OtherTypes, HandlesAreBorn
  <2> QED
    BY <2>1, <2>3, <2>4 DEF BusPart, BusTypes
<1>8. CASE Undecodable
  <2>1. StreamTypes'
    BY <1>0, <1>8 DEF StreamTypes, Undecodable
  <2>2. /\ Fail(bus) /\ bus.pc \in {"read", "batch", "deliver"} /\ bus.todo = {} /\ delivered' \in Nat
        /\ UNCHANGED <<backoff, keys, handles, life, getter, routed>>
    BY <1>0, <1>8, <2>1 DEF StreamTypes, PlaceInv, Busy, Undecodable
  <2>3. BusRecord' /\ BusInv' /\ capHits' \in 0..CapLimit /\ bus'.todo = {} /\ bus'.for = 0
    <3>1. BusInv
      BY <1>0 DEF BusInv
    <3> QED
      BY <1>0, <2>2, <3>1, Failing
  <2>4. OtherTypes' /\ HandlesAreBorn'
    BY <1>0, <2>2, <2>3 DEF OtherTypes, HandlesAreBorn
  <2> QED
    BY <2>1, <2>3, <2>4 DEF BusPart, BusTypes
<1>9. CASE AckFails
  <2>1. StreamTypes'
    BY <1>0, <1>9 DEF StreamTypes, AckFails
  <2>2. /\ Fail(bus) /\ bus.pc \in {"read", "batch", "deliver"} /\ bus.todo = {} /\ delivered' \in Nat
        /\ UNCHANGED <<backoff, keys, handles, life, getter, routed>>
    BY <1>0, <1>9, <2>1 DEF StreamTypes, PlaceInv, Busy, AckFails
  <2>3. BusRecord' /\ BusInv' /\ capHits' \in 0..CapLimit /\ bus'.todo = {} /\ bus'.for = 0
    <3>1. BusInv
      BY <1>0 DEF BusInv
    <3> QED
      BY <1>0, <2>2, <3>1, Failing
  <2>4. OtherTypes' /\ HandlesAreBorn'
    BY <1>0, <2>2, <2>3 DEF OtherTypes, HandlesAreBorn
  <2> QED
    BY <2>1, <2>3, <2>4 DEF BusPart, BusTypes
<1>10. CASE EndOfProcess
  <2>1. /\ bus' = Idle /\ backoff' = 1 /\ capHits' = 0 /\ keys' = FALSE /\ handles' = {}
        /\ UNCHANGED <<published, group, delivered, pel, routed>>
    BY <1>10 DEF EndOfProcess
  <2>2. StreamTypes'
    BY <1>0, <2>1 DEF StreamTypes
  <2>3. BusRecord' /\ BatchIsNext' /\ PlaceInv' /\ HandlesAreBorn'
    <3>1. /\ bus'.pc = "down" /\ bus'.batch = <<>> /\ bus'.todo = {} /\ bus'.for = 0 /\ bus'.drops = {}
          /\ handles' = {} /\ capHits' < CapLimit /\ delivered' \in Nat
      BY <1>0, <2>1 DEF Idle, StreamTypes
    <3>2. BusRecord'
      BY <2>1 DEF Idle, BusRecord, PCs
    <3>3. BatchIsNext'
      BY <3>1 DEF BatchIsNext
    <3> QED
      BY <3>1, <3>2, <3>3 DEF PlaceInv, HandlesAreBorn, Busy, Dropping
  <2>4. /\ life' \in [Handles -> {"unborn", "subscribing", "running", "ended", "over"}]
        /\ getter' \in [Handles -> BOOLEAN]
    BY <1>0, <1>10 DEF EndOfProcess, Over, OtherTypes
  <2>5. backoff' \in 1..BackoffCap /\ capHits' \in 0..CapLimit
    BY <2>1
  <2>6. OtherTypes'
    BY <1>0, <2>1, <2>4, <2>5 DEF OtherTypes
  <2> QED
    BY <2>2, <2>3, <2>6 DEF BusPart, BusTypes, BusInv
<1>11. CASE Start
  <2>1. StreamTypes' /\ OtherTypes'
    BY <1>0, <1>11 DEF StreamTypes, OtherTypes, Start
  <2>2. /\ bus'.pc \in {"read", "idle"} /\ bus'.batch = <<>> /\ bus'.todo = {} /\ bus'.for = 0 /\ bus'.drops = {}
        /\ capHits' = capHits /\ capHits < CapLimit /\ UNCHANGED <<handles, life>>
    BY <1>0, <1>11 DEF Start, BusRecord, PlaceInv, Busy, Dropping
  <2>3. BusRecord'
    BY <1>0, <1>11 DEF BusRecord, PCs, Start
  <2>4. PlaceInv' /\ HandlesAreBorn'
    BY <1>0, <2>2 DEF PlaceInv, HandlesAreBorn, Busy, Dropping
  <2>5. BatchIsNext'
    <3>1. delivered' \in Nat
      BY <2>1 DEF StreamTypes
    <3> QED
      BY <2>2, <3>1 DEF BatchIsNext
  <2> QED
    BY <2>1, <2>3, <2>4, <2>5 DEF BusPart, BusTypes, BusInv
<1>12. CASE Read
  <2>1. PICK n \in 0..BatchMax :
          /\ delivered + n <= published /\ HandOut(n)
          /\ bus' = [bus EXCEPT !.pc = IF n = 0 THEN "read" ELSE "batch", !.batch = Entries(n)]
    BY <1>12 DEF Read
  <2>2. StreamTypes'
    BY <1>0, <2>1 DEF StreamTypes, HandOut
  <2>3. Entries(n) \in Seq(Messages) /\ Len(Entries(n)) = n /\ \A i \in 1..n : Entries(n)[i] = delivered + i
    <3>1. \A i \in 1..n : delivered + i \in Messages
      BY <1>0, <2>1 DEF StreamTypes, Messages
    <3> QED
      BY <1>0, <3>1 DEF Entries
  <2>4. /\ bus'.pc \in {"read", "batch"} /\ bus'.batch = Entries(n) /\ bus'.todo = {} /\ bus'.for = 0 /\ bus'.drops = {}
        /\ bus'.pc = "read" => n = 0
    BY <1>0, <1>12, <2>1 DEF Read, BusRecord, PlaceInv, Busy, Dropping
  <2>5. BusRecord'
    BY <1>0, <2>1, <2>3 DEF BusRecord, PCs
  <2>6. BatchIsNext'
    <3>1. delivered' = delivered + n /\ delivered \in Nat
      BY <1>0, <2>1 DEF HandOut, StreamTypes
    <3> QED
      BY <2>3, <2>4, <3>1 DEF BatchIsNext
  <2>7. n = 0 => bus'.batch = <<>>
    BY <2>3, <2>4
  <2>8. PlaceInv' /\ OtherTypes' /\ HandlesAreBorn'
    BY <1>0, <1>12, <2>4, <2>7 DEF Read, PlaceInv, OtherTypes, HandlesAreBorn, Busy, Dropping
  <2> QED
    BY <2>2, <2>5, <2>6, <2>8 DEF BusPart, BusTypes, BusInv
<1>13. CASE Drop
  <2>1. bus.for \in Handles /\ bus.pc \in Dropping /\ bus.batch # <<>> /\ bus.batch[1] \in routed
    BY <1>0, <1>13 DEF Drop, PlaceInv, BusRecord, Dropping, Busy
  <2>2. queue[bus.for] # <<>> => Head(queue[bus.for]) \in QueueEntries
    <3>1. queue[bus.for] \in Seq(QueueEntries)
      BY <2>1 DEF InboxFunctions
    <3> QED
      BY <3>1
  <2>3. PICK pc \in {"drop again", "mark"}, ds \in SUBSET Messages : bus' = [bus EXCEPT !.pc = pc, !.drops = ds]
    <3>1. CASE queue[bus.for] # <<>>
      <4>1. PICK x \in QueueEntries : x = Head(queue[bus.for])
        BY <2>2, <3>1
      <4>2. bus.drops \union x.drops \union ({x.event} \ {0}) \in SUBSET Messages
        BY <1>0 DEF QueueEntries, BusRecord
      <4> QED
        BY <1>13, <3>1, <4>1, <4>2 DEF Drop
    <3>2. CASE queue[bus.for] = <<>>
      <4>1. bus.drops \in SUBSET Messages /\ \A pc : [bus EXCEPT !.pc = pc] = [bus EXCEPT !.pc = pc, !.drops = bus.drops]
        BY <1>0 DEF BusRecord
      <4> QED
        BY <1>13, <3>2, <4>1 DEF Drop
    <3> QED
      BY <3>1, <3>2
  <2>4. /\ bus'.pc \in Dropping /\ bus'.batch = bus.batch /\ bus'.todo = bus.todo /\ bus'.for = bus.for
        /\ UNCHANGED <<redis, backoff, capHits, keys, handles, life, getter, routed>>
    BY <1>0, <1>13, <2>3 DEF Drop, BusRecord, Dropping
  <2>5. BusRecord'
    BY <1>0, <2>3 DEF BusRecord, PCs, Busy
  <2>6. StreamTypes' /\ OtherTypes' /\ HandlesAreBorn' /\ BatchIsNext'
    BY <1>0, <2>4 DEF StreamTypes, OtherTypes, HandlesAreBorn, BatchIsNext
  <2>7. PlaceInv'
    BY <1>0, <2>1, <2>4 DEF PlaceInv, Busy, Dropping
  <2> QED
    BY <2>5, <2>6, <2>7 DEF BusPart, BusTypes, BusInv
<1>14. CASE Ack
  <2>1. StreamTypes' /\ OtherTypes'
    BY <1>0, <1>14 DEF StreamTypes, OtherTypes, Ack
  <2>2. bus.batch # <<>> /\ bus.batch \in Seq(Messages) /\ bus.for = 0 /\ bus.drops = {}
    BY <1>0, <1>14 DEF PlaceInv, BusRecord, Ack, Busy, Dropping
  <2>3. /\ Tail(bus.batch) \in Seq(Messages) /\ Len(Tail(bus.batch)) = Len(bus.batch) - 1 /\ Len(bus.batch) \in Nat
        /\ \A i \in 1..Len(Tail(bus.batch)) : Tail(bus.batch)[i] = bus.batch[i + 1] /\ i + 1 \in 1..Len(bus.batch)
    BY <2>2
  <2>4. /\ bus'.pc = "batch" /\ bus'.batch = Tail(bus.batch) /\ bus'.todo = {} /\ bus'.for = 0 /\ bus'.drops = {}
        /\ delivered' = delivered /\ capHits' = capHits
    BY <1>0, <1>14, <2>2 DEF Ack, BusRecord
  <2>5. BusRecord'
    BY <1>0, <1>14, <2>3 DEF BusRecord, PCs, Ack
  <2>6. BatchIsNext'
    <3>1. delivered \in Nat
      BY <1>0 DEF StreamTypes
    <3>2. PICK k \in Nat : k = Len(bus.batch)
      BY <2>3
    <3>3. Len(bus'.batch) = k - 1 /\ k <= delivered
      BY <1>0, <2>3, <2>4, <3>2 DEF BatchIsNext
    <3>4. ASSUME NEW i \in 1..(k - 1) PROVE bus'.batch[i] = delivered - (k - 1) + i
      <4>1. bus'.batch[i] = bus.batch[i + 1] /\ i + 1 \in 1..k
        BY <2>3, <2>4, <3>2
      <4>2. bus.batch[i + 1] = delivered - k + (i + 1)
        BY <1>0, <3>2, <4>1 DEF BatchIsNext
      <4> QED
        BY <3>1, <4>1, <4>2
    <3>5. Len(bus'.batch) <= delivered'
      BY <2>4, <3>1, <3>3
    <3>6. ASSUME NEW i \in 1..Len(bus'.batch)
          PROVE  bus'.batch[i] = delivered' - Len(bus'.batch) + i
      BY <2>4, <3>3, <3>4
    <3> QED
      BY <3>5, <3>6 DEF BatchIsNext
  <2>7. PlaceInv' /\ HandlesAreBorn'
    BY <1>0, <1>14, <2>4 DEF Ack, PlaceInv, HandlesAreBorn, Busy, Dropping
  <2> QED
    BY <2>1, <2>5, <2>6, <2>7 DEF BusPart, BusTypes, BusInv
<1>15. ASSUME NEW h \in Handles, Deliver(h) PROVE BusPart'
  BY <1>15 DEF BusPart, BusTypes, BusInv, StreamTypes, BusRecord, OtherTypes, PlaceInv, BatchIsNext, HandlesAreBorn, PCs, Busy, Dropping, Deliver
<1>16. ASSUME NEW h \in Handles, Overflow(h) PROVE BusPart'
  BY <1>16 DEF BusPart, BusTypes, BusInv, StreamTypes, BusRecord, OtherTypes, PlaceInv, BatchIsNext, HandlesAreBorn, PCs, Busy, Dropping, Overflow
<1>17. ASSUME NEW h \in Handles, Create(h) PROVE BusPart'
  BY <1>17 DEF BusPart, BusTypes, BusInv, StreamTypes, BusRecord, OtherTypes, PlaceInv, BatchIsNext, HandlesAreBorn, PCs, Busy, Dropping, Create
<1>18. ASSUME NEW h \in Handles, Subscribed(h) PROVE BusPart'
  BY <1>18 DEF BusPart, BusTypes, BusInv, StreamTypes, BusRecord, OtherTypes, PlaceInv, BatchIsNext, HandlesAreBorn, PCs, Busy, Dropping, Subscribed
<1>19. ASSUME NEW h \in Handles, SubscribeFails(h) PROVE BusPart'
  BY <1>19 DEF BusPart, BusTypes, BusInv, StreamTypes, BusRecord, OtherTypes, PlaceInv, BatchIsNext, HandlesAreBorn, PCs, Busy, Dropping, SubscribeFails
<1>20. ASSUME NEW h \in Handles, Register(h) PROVE BusPart'
  BY <1>20 DEF BusPart, BusTypes, BusInv, StreamTypes, BusRecord, OtherTypes, PlaceInv, BatchIsNext, HandlesAreBorn, PCs, Busy, Dropping, Register, InProcess
<1>21. ASSUME NEW h \in Handles, Stop(h) PROVE BusPart'
  BY <1>21 DEF BusPart, BusTypes, BusInv, StreamTypes, BusRecord, OtherTypes, PlaceInv, BatchIsNext, HandlesAreBorn, PCs, Busy, Dropping, Stop
<1>22. ASSUME NEW h \in Handles, Deregister(h) PROVE BusPart'
  BY <1>22 DEF BusPart, BusTypes, BusInv, StreamTypes, BusRecord, OtherTypes, PlaceInv, BatchIsNext, HandlesAreBorn, PCs, Busy, Dropping, Deregister, Over
<1>23. ASSUME NEW h \in Handles, LoopStep(h) PROVE BusPart'
  <2>1. UNCHANGED <<redis, bus, attempts, keys, handles, life, routed>>
    BY <1>23 DEF LoopStep, Take, Await, RunCall, RunPut, RunConsumer
  <2>2. getter' = getter \/ \E b \in BOOLEAN : getter' = [getter EXCEPT ![h] = b]
    BY <1>23 DEF LoopStep, Take, Await, RunCall, RunPut, RunConsumer
  <2>3. StreamTypes' /\ BusRecord' /\ PlaceInv' /\ BatchIsNext' /\ HandlesAreBorn'
    BY <1>0, <2>1 DEF StreamTypes, BusRecord, PlaceInv, BatchIsNext, HandlesAreBorn
  <2>4. OtherTypes'
    BY <1>0, <2>1, <2>2 DEF OtherTypes
  <2> QED
    BY <2>3, <2>4 DEF BusPart, BusTypes, BusInv
<1>24. CASE UNCHANGED vars
  BY <1>24 DEF BusPart, BusTypes, BusInv, StreamTypes, BusRecord, OtherTypes, PlaceInv, BatchIsNext, HandlesAreBorn, PCs, Busy, Dropping, vars
<1> QED
  BY <1>1, <1>2, <1>3, <1>4, <1>5, <1>6, <1>7, <1>8, <1>9, <1>10, <1>11, <1>12, <1>13, <1>14, <1>15, <1>16, <1>17, <1>18, <1>19, <1>20, <1>21, <1>22, <1>23, <1>24 DEF Next, BusStep

\* What the bus hands out next, and what it has handed out.
LEMMA BatchFacts ==
  ASSUME BusPart
  PROVE  /\ bus.batch \in Seq(Messages) /\ Len(bus.batch) \in Nat /\ delivered \in Nat /\ Base \in Nat
         /\ bus.batch = <<>> => Base = delivered
         /\ bus.batch # <<>> => Head(bus.batch) = Base + 1 /\ Head(bus.batch) \in Messages /\ Base < delivered
<1>1. /\ bus.batch \in Seq(Messages) /\ Len(bus.batch) \in Nat /\ delivered \in Nat
      /\ Len(bus.batch) <= delivered
      /\ \A i \in 1..Len(bus.batch) : bus.batch[i] = delivered - Len(bus.batch) + i
  BY Sizes DEF BusPart, BusTypes, BusRecord, StreamTypes, BusInv, BatchIsNext
<1>2. Base \in Nat /\ (bus.batch = <<>> => Base = delivered)
  BY <1>1 DEF Base
<1>3. ASSUME bus.batch # <<>>
      PROVE  Head(bus.batch) = Base + 1 /\ Head(bus.batch) \in Messages /\ Base < delivered
  <2>1. Head(bus.batch) = bus.batch[1] /\ bus.batch[1] \in Messages /\ 1 \in 1..Len(bus.batch) /\ Len(bus.batch) >= 1
    BY <1>1, <1>3
  <2>2. bus.batch[1] = delivered - Len(bus.batch) + 1
    BY <1>1, <2>1
  <2>3. Base = delivered - Len(bus.batch)
    BY DEF Base
  <2>4. delivered - Len(bus.batch) < delivered
    BY <1>1, <2>1
  <2> QED
    BY <2>1, <2>2, <2>3, <2>4
<1> QED
  BY <1>1, <1>2, <1>3

LEMMA LimitGrows ==
  ASSUME BusPart, BusPart', [Next]_vars, NEW h \in Handles
  PROVE  Limit(h) \in Nat /\ Limit(h)' \in Nat /\ Limit(h) <= Limit(h)'
<1> USE DEF redis, attempts, strategy, inbox, counts
<1>0. BusRecord /\ PlaceInv /\ StreamTypes
  BY DEF BusPart, BusTypes, BusInv
<1>1. /\ Base \in Nat /\ Base' \in Nat /\ delivered \in Nat /\ delivered' \in Nat
      /\ bus'.batch = <<>> => Base' = delivered'
      /\ bus.batch = <<>> => Base = delivered
      /\ bus.batch # <<>> => Base + 1 <= delivered
  <2>1. /\ Base \in Nat /\ delivered \in Nat /\ (bus.batch = <<>> => Base = delivered)
        /\ bus.batch # <<>> => Base < delivered
    BY BatchFacts
  <2>2. /\ Base' \in Nat /\ delivered' \in Nat /\ (bus'.batch = <<>> => Base' = delivered')
    <3>1. /\ bus'.batch \in Seq(Messages) /\ Len(bus'.batch) \in Nat /\ delivered' \in Nat
          /\ Len(bus'.batch) <= delivered'
      BY Sizes DEF BusPart, BusTypes, BusRecord, StreamTypes, BusInv, BatchIsNext
    <3> QED
      BY <3>1 DEF Base
  <2> QED
    BY <2>1, <2>2
<1>2. Extra(h) \in {0, 1} /\ Extra(h)' \in {0, 1}
  BY DEF Extra
<1>3. Extra(h) = 1 => bus.batch # <<>> /\ bus.pc \in Busy
  BY <1>0 DEF Extra, PlaceInv
<1>4. Limit(h) \in Nat /\ Limit(h)' \in Nat
  BY <1>1, <1>2 DEF Limit
<1> SUFFICES Limit(h) <= Limit(h)'
  BY <1>4
<1>5. Base + Extra(h) <= delivered
  BY <1>1, <1>2, <1>3
<1>6. ASSUME Base' = Base, Extra(h) = 1 => Extra(h)' = 1 PROVE Limit(h) <= Limit(h)'
  BY <1>1, <1>2, <1>6 DEF Limit
<1>7. ASSUME bus'.batch = <<>>, delivered <= delivered' PROVE Limit(h) <= Limit(h)'
  BY <1>1, <1>2, <1>5, <1>7 DEF Limit
<1>8. ASSUME bus' = bus, delivered' = delivered PROVE Limit(h) <= Limit(h)'
  BY <1>6, <1>8 DEF Base, Extra
<1>9. CASE ReadFails
  <2>1. bus'.batch = <<>>
    BY <1>0, <1>9 DEF ReadFails, Fail, BusRecord
  <2>2. delivered <= delivered'
    BY <1>1, <1>9, Sizes DEF ReadFails, HandOut
  <2> QED
    BY <1>7, <2>1, <2>2
<1>10. CASE Undecodable \/ AckFails
  <2>1. bus'.batch = <<>>
    BY <1>0, <1>10 DEF Undecodable, AckFails, Fail, BusRecord
  <2>2. delivered <= delivered'
    BY <1>1, <1>10 DEF Undecodable, AckFails
  <2> QED
    BY <1>7, <2>1, <2>2
<1>11. CASE EndOfProcess
  <2>1. bus'.batch = <<>> /\ delivered <= delivered'
    BY <1>1, <1>11 DEF EndOfProcess, Idle
  <2> QED
    BY <1>7, <2>1
<1>12. CASE Start
  <2>1. bus'.batch = <<>>
    BY <1>0, <1>12 DEF Start, BusRecord, PlaceInv, Busy
  <2>2. delivered <= delivered'
    BY <1>0, <1>1, <1>12 DEF Start, StreamTypes
  <2> QED
    BY <1>7, <2>1, <2>2
<1>13. CASE Read
  <2>1. PICK n \in Nat : delivered' = delivered + n /\ bus'.batch = Entries(n)
    BY <1>0, <1>13, Sizes DEF Read, HandOut, BusRecord
  <2>2. Len(Entries(n)) = n
    BY <2>1 DEF Entries
  <2>3. Base' = delivered
    BY <1>1, <2>1, <2>2 DEF Base
  <2>4. bus.batch = <<>>
    BY <1>0, <1>13 DEF Read, PlaceInv, Busy
  <2>5. Base' = Base /\ Extra(h) # 1
    BY <1>1, <1>3, <2>3, <2>4
  <2> QED
    BY <1>6, <2>5
<1>14. CASE Retry \/ Route \/ RouteMalformed \/ BatchDone
  <2>1. bus'.batch = bus.batch /\ delivered' = delivered /\ bus.pc \notin Busy
    BY <1>0, <1>14 DEF Retry, Route, RouteMalformed, BatchDone, BusRecord, Busy
  <2> QED
    BY <1>3, <1>6, <2>1 DEF Base
<1>15. CASE Drop \/ Mark
  <2>1. /\ bus'.batch = bus.batch /\ delivered' = delivered /\ bus'.pc \in Busy /\ bus'.todo = bus.todo
        /\ bus'.for \in {0, bus.for}
    BY <1>0, <1>15 DEF Drop, Mark, BusRecord, Busy
  <2>2. Extra(h) = 1 => Extra(h)' = 1
    BY <2>1, Sizes DEF Extra
  <2> QED
    BY <1>6, <2>1, <2>2 DEF Base
<1>16. ASSUME NEW g \in Handles, Deliver(g) \/ Overflow(g) PROVE Limit(h) <= Limit(h)'
  <2>1. /\ bus'.batch = bus.batch /\ delivered' = delivered /\ bus'.pc \in Busy /\ bus'.todo = bus.todo \ {g}
        /\ bus'.for \in {bus.for, g} /\ g \in bus.todo
    BY <1>0, <1>16 DEF Deliver, Overflow, BusRecord, Busy
  <2>2. Extra(h) = 1 => Extra(h)' = 1
    BY <2>1 DEF Extra
  <2> QED
    BY <1>6, <2>1, <2>2 DEF Base
<1>17. CASE Ack
  <2>1. bus.batch \in Seq(Messages) /\ bus.batch # <<>> /\ bus'.batch = Tail(bus.batch) /\ delivered' = delivered
    BY <1>0, <1>17 DEF Ack, BusRecord, PlaceInv, Busy
  <2>2. Len(bus'.batch) = Len(bus.batch) - 1 /\ Len(bus.batch) \in Nat
    BY <2>1
  <2>3. Base' = Base + 1
    <3>1. PICK k \in Nat : k = Len(bus.batch) /\ Len(bus'.batch) = k - 1
      BY <2>2
    <3>2. Base = delivered - k /\ Base' = delivered - (k - 1)
      BY <2>1, <3>1 DEF Base
    <3> QED
      BY <1>1, <3>1, <3>2
  <2> QED
    BY <1>1, <1>2, <2>3 DEF Limit
<1>18. CASE Publish
  BY <1>8, <1>18 DEF Publish
<1>19. ASSUME NEW g \in Handles, \/ Create(g) \/ Subscribed(g) \/ SubscribeFails(g) \/ Register(g)
                                 \/ Stop(g) \/ Deregister(g) \/ LoopStep(g)
       PROVE  Limit(h) <= Limit(h)'
  <2>1. bus' = bus /\ delivered' = delivered
    BY <1>19 DEF Create, Subscribed, SubscribeFails, Register, Stop, Deregister, LoopStep,
                 Take, Await, RunCall, RunPut, RunConsumer
  <2> QED
    BY <1>8, <2>1
<1>20. CASE UNCHANGED vars
  BY <1>8, <1>20 DEF vars
<1> QED
  BY <1>9, <1>10, <1>11, <1>12, <1>13, <1>14, <1>15, <1>16, <1>17, <1>18, <1>19, <1>20 DEF Next, BusStep
------------------------------------------------------------------------------
(* The inboxes, step by step.                                                *)

SameInbox(h) ==
  /\ queue'[h] = queue[h] /\ putters'[h] = putters[h] /\ ready'[h] = ready[h] /\ taken'[h] = taken[h]
  /\ lost'[h] = lost[h] /\ blocked'[h] = blocked[h]

\* An inbox goes on as an inbox, and what joins it is 0 or in ms.
Follows(h, ms) == Inbox(h)' /\ KnownTo(h)' \subseteq KnownTo(h) \union {0} \union ms

LEMMA SameFollows ==
  ASSUME NEW h \in Handles, Inbox(h), SameInbox(h), NEW ms
  PROVE  Follows(h, ms) /\ Held(h)' = Held(h)
  BY DEF Inbox, KnownTo, Held, Follows, SameInbox

\* The head of the queue of h is taken away, and a put that waits is woken.
LEMMA Woke ==
  ASSUME InboxFunctions, NEW h \in Handles, TakeHead(h)
  PROVE  /\ queue'[h] = Tail(queue[h])
         /\ \/ putters'[h] = putters[h] /\ ready'[h] = ready[h]
            \/ /\ putters[h] # <<>> /\ putters'[h] = Tail(putters[h])
               /\ ready'[h] = Append(ready[h], Put(Head(putters[h])))
         /\ \A g \in Handles \ {h} :
              queue'[g] = queue[g] /\ putters'[g] = putters[g] /\ ready'[g] = ready[g]
  BY DEF TakeHead, InboxFunctions

\* The same inbox again, with a put that was waiting in the ready list.
LEMMA WokenOrNot ==
  ASSUME NEW q, NEW p, NEW r, NEW t, NEW l, NEW b, InboxInv(q, p, r, t, l, b), NEW p2, NEW r2,
         \/ p2 = p /\ r2 = r
         \/ p # <<>> /\ p2 = Tail(p) /\ r2 = Append(r, Put(Head(p)))
  PROVE  /\ InboxInv(q, p2, r2, t, l, b) /\ Alike(Entry(q, p2, r2), Entry(q, p, r))
         /\ Known(q, p2, r2, t, l, b) \subseteq Known(q, p, r, t, l, b)
<1>1. CASE p2 = p /\ r2 = r
  BY <1>1 DEF Alike
<1>2. CASE p # <<>> /\ p2 = Tail(p) /\ r2 = Append(r, Put(Head(p)))
  BY <1>2, Woken
<1> QED
  BY <1>1, <1>2

\* A strategy takes an entry.
LEMMA Taking ==
  ASSUME InboxFunctions, NEW h \in Handles, Inbox(h), Take(h)
  PROVE  /\ Follows(h, {}) /\ \A g \in Handles \ {h} : SameInbox(g)
         /\ \E x \in QueueEntries :
              /\ taken'[h] = Append(taken[h], x) /\ lost'[h] = lost[h] /\ Plain(x, lost[h])
              /\ Held(h) \subseteq Held(h)' \union {x} /\ Held(h)' \subseteq Held(h)
              /\ \A y \in Held(h)' : x.event # 0 => x.event # y.event
              /\ x # Marker({}) => x \in Held(h)
<1>1. /\ queue[h] # <<>> /\ TakeHead(h) /\ lost' = lost /\ blocked' = blocked
      /\ taken' = [taken EXCEPT ![h] = Append(@, Head(queue[h]))]
  BY DEF Take
<1>2. taken'[h] = Append(taken[h], Head(queue[h])) /\ \A g \in Handles \ {h} : taken'[g] = taken[g]
  BY <1>1 DEF InboxFunctions
<1>3. \A g \in Handles \ {h} : SameInbox(g)
  BY <1>1, <1>2, Woke DEF SameInbox
<1>4. PICK q : q = Tail(queue[h])
  OBVIOUS
<1>5. PICK x : x = Head(queue[h])
  OBVIOUS
<1>6. queue'[h] = q
  BY <1>1, <1>4, Woke
<1>7. InboxInv(queue[h], putters[h], ready[h], taken[h], lost[h], blocked[h])
  BY DEF Inbox
<1>8. /\ InboxInv(q, putters[h], ready[h], taken'[h], lost[h], blocked[h])
      /\ Known(q, putters[h], ready[h], taken'[h], lost[h], blocked[h])
           \subseteq Known(queue[h], putters[h], ready[h], taken[h], lost[h], blocked[h])
  BY <1>1, <1>2, <1>4, <1>7, HeadTaken
<1>9. \/ putters'[h] = putters[h] /\ ready'[h] = ready[h]
      \/ /\ putters[h] # <<>> /\ putters'[h] = Tail(putters[h])
         /\ ready'[h] = Append(ready[h], Put(Head(putters[h])))
  BY <1>1, Woke
<1>10. /\ InboxInv(q, putters'[h], ready'[h], taken'[h], lost[h], blocked[h])
       /\ Alike(Entry(q, putters'[h], ready'[h]), Entry(q, putters[h], ready[h]))
       /\ Known(q, putters'[h], ready'[h], taken'[h], lost[h], blocked[h])
            \subseteq Known(q, putters[h], ready[h], taken'[h], lost[h], blocked[h])
  BY <1>8, <1>9, WokenOrNot
<1>11. Leaves(queue[h], q, putters[h], ready[h], lost[h], x)
  BY <1>1, <1>4, <1>5, <1>7, HeadLeaves
<1>12. Inbox(h)' /\ KnownTo(h)' \subseteq KnownTo(h)
  BY <1>1, <1>6, <1>8, <1>10 DEF Inbox, KnownTo
<1>13. Held(h)' = Entry(q, putters[h], ready[h]) \ {Marker({})}
  BY <1>6, <1>10 DEF Held, Alike
<1>14. /\ Held(h) \subseteq Held(h)' \union {x} /\ Held(h)' \subseteq Held(h)
       /\ \A y \in Held(h)' : x.event # 0 => x.event # y.event
       /\ x # Marker({}) => x \in Held(h)
       /\ x \in QueueEntries /\ Plain(x, lost[h])
  BY <1>11, <1>13 DEF Held, Leaves
<1> QED
  BY <1>1, <1>2, <1>3, <1>5, <1>12, <1>14 DEF Follows

\* The bus drops an entry.
LEMMA Dropped ==
  ASSUME InboxFunctions, BusRecord, NEW h \in Handles, bus.for = h, Inbox(h), Drop, queue[h] # <<>>
  PROVE  /\ Follows(bus.for, {}) /\ \A g \in Handles \ {h} : SameInbox(g)
         /\ \E x \in QueueEntries :
              /\ taken' = taken /\ Plain(x, lost[h])
              /\ lost' = [lost EXCEPT ![h] = @ \union ({x.event} \ {0})]
              /\ bus'.drops = bus.drops \union x.drops \union ({x.event} \ {0})
              /\ Held(h) \subseteq Held(h)' \union {x} /\ Held(h)' \subseteq Held(h)
              /\ \A y \in Held(h)' : x.event # 0 => x.event # y.event
              /\ x # Marker({}) => x \in Held(h)
<1>1. bus.for = h
  OBVIOUS
<1>2. /\ queue[h] # <<>> /\ TakeHead(h) /\ taken' = taken /\ blocked' = blocked
      /\ lost' = [lost EXCEPT ![h] = @ \union ({Head(queue[h]).event} \ {0})]
      /\ bus'.drops = bus.drops \union Head(queue[h]).drops \union ({Head(queue[h]).event} \ {0})
  <2>1. /\ TakeHead(h) /\ taken' = taken /\ blocked' = blocked
        /\ lost' = [lost EXCEPT ![h] = @ \union ({Head(queue[h]).event} \ {0})]
    BY <1>1 DEF Drop
  <2>2. bus'.drops = bus.drops \union Head(queue[h]).drops \union ({Head(queue[h]).event} \ {0})
    BY <1>1 DEF Drop, BusRecord
  <2> QED
    BY <1>1, <2>1, <2>2
<1>3. PICK x : x = Head(queue[h])
  OBVIOUS
<1>4. Lost(lost'[h], lost[h], Head(queue[h])) /\ \A g \in Handles \ {h} : lost'[g] = lost[g]
  BY <1>2 DEF InboxFunctions, Lost
<1>5. \A g \in Handles \ {h} : SameInbox(g)
  BY <1>2, <1>4, Woke DEF SameInbox
<1>6. PICK q : q = Tail(queue[h])
  OBVIOUS
<1>7. queue'[h] = q
  BY <1>2, <1>6, Woke
<1>8. InboxInv(queue[h], putters[h], ready[h], taken[h], lost[h], blocked[h])
  BY <1>1 DEF Inbox
<1>9. /\ InboxInv(q, putters[h], ready[h], taken[h], lost'[h], blocked[h])
      /\ Known(q, putters[h], ready[h], taken[h], lost'[h], blocked[h])
           \subseteq Known(queue[h], putters[h], ready[h], taken[h], lost[h], blocked[h])
  BY <1>2, <1>4, <1>6, <1>8, HeadDropped
<1>10. \/ putters'[h] = putters[h] /\ ready'[h] = ready[h]
       \/ /\ putters[h] # <<>> /\ putters'[h] = Tail(putters[h])
          /\ ready'[h] = Append(ready[h], Put(Head(putters[h])))
  BY <1>2, Woke
<1>11. /\ InboxInv(q, putters'[h], ready'[h], taken[h], lost'[h], blocked[h])
       /\ Alike(Entry(q, putters'[h], ready'[h]), Entry(q, putters[h], ready[h]))
       /\ Known(q, putters'[h], ready'[h], taken[h], lost'[h], blocked[h])
            \subseteq Known(q, putters[h], ready[h], taken[h], lost'[h], blocked[h])
  BY <1>9, <1>10, WokenOrNot
<1>12. Leaves(queue[h], q, putters[h], ready[h], lost[h], x)
  BY <1>2, <1>3, <1>6, <1>8, HeadLeaves
<1>13. Inbox(h)' /\ KnownTo(h)' \subseteq KnownTo(h)
  BY <1>2, <1>7, <1>9, <1>11 DEF Inbox, KnownTo
<1>14. Held(h)' = Entry(q, putters[h], ready[h]) \ {Marker({})}
  BY <1>7, <1>11 DEF Held, Alike
<1>15. /\ Held(h) \subseteq Held(h)' \union {x} /\ Held(h)' \subseteq Held(h)
       /\ \A y \in Held(h)' : x.event # 0 => x.event # y.event
       /\ x # Marker({}) => x \in Held(h)
       /\ x \in QueueEntries /\ Plain(x, lost[h])
  BY <1>12, <1>14 DEF Held, Leaves
<1>16. /\ lost' = [lost EXCEPT ![h] = @ \union ({x.event} \ {0})]
       /\ bus'.drops = bus.drops \union x.drops \union ({x.event} \ {0})
  BY <1>2, <1>3
<1>17. Follows(h, {})
  BY <1>13 DEF Follows
<1> QED
  BY <1>1, <1>2, <1>5, <1>15, <1>16, <1>17

\* A step of the loop other than a take moves what is on its way.
Moves(h) == Follows(h, {}) /\ Held(h)' = Held(h) /\ taken' = taken /\ lost' = lost

LEMMA Calling ==
  ASSUME InboxFunctions, NEW h \in Handles, Inbox(h), RunCall(h)
  PROVE  Moves(h) /\ \A g \in Handles \ {h} : SameInbox(g)
<1>1. /\ ready[h] # <<>> /\ Head(ready[h]).task = "call"
      /\ ready' = [ready EXCEPT ![h] = Append(Tail(@), Put(Head(@).item))]
      /\ UNCHANGED <<queue, putters, taken, lost, blocked>>
  BY DEF RunCall
<1>2. /\ ready'[h] = Append(Tail(ready[h]), Put(Head(ready[h]).item))
      /\ \A g \in Handles \ {h} : ready'[g] = ready[g]
  BY <1>1 DEF InboxFunctions
<1>3. InboxInv(queue[h], putters[h], ready[h], taken[h], lost[h], blocked[h])
  BY DEF Inbox
<1>4. /\ InboxInv(queue[h], putters[h], ready'[h], taken[h], lost[h], blocked[h])
      /\ Alike(Entry(queue[h], putters[h], ready'[h]), Entry(queue[h], putters[h], ready[h]))
      /\ Alike(Known(queue[h], putters[h], ready'[h], taken[h], lost[h], blocked[h]),
               Known(queue[h], putters[h], ready[h], taken[h], lost[h], blocked[h]))
  BY <1>1, <1>2, <1>3, Called
<1>5. Follows(h, {}) /\ Held(h)' = Held(h)
  BY <1>1, <1>4 DEF Follows, Inbox, KnownTo, Held, Alike
<1> QED
  BY <1>1, <1>2, <1>5 DEF Moves, SameInbox

LEMMA Consuming ==
  ASSUME InboxFunctions, NEW h \in Handles, Inbox(h), RunConsumer(h)
  PROVE  Moves(h) /\ \A g \in Handles \ {h} : SameInbox(g)
<1>1. /\ ready[h] # <<>> /\ Head(ready[h]) = Wake /\ ready' = [ready EXCEPT ![h] = Tail(@)]
      /\ UNCHANGED <<queue, putters, taken, lost, blocked>>
  BY DEF RunConsumer
<1>2. ready'[h] = Tail(ready[h]) /\ \A g \in Handles \ {h} : ready'[g] = ready[g]
  BY <1>1 DEF InboxFunctions
<1>3. InboxInv(queue[h], putters[h], ready[h], taken[h], lost[h], blocked[h])
  BY DEF Inbox
<1>4. /\ InboxInv(queue[h], putters[h], ready'[h], taken[h], lost[h], blocked[h])
      /\ Differ(queue[h], putters[h], ready[h], ready'[h], taken[h], lost[h], blocked[h], Head(ready[h]).item)
  BY <1>1, <1>2, <1>3, Shorter
<1>5. Head(ready[h]).item = Marker({})
  BY <1>1 DEF Wake
<1>6. Follows(h, {}) /\ Held(h)' = Held(h)
  BY <1>1, <1>4, <1>5 DEF Follows, Inbox, KnownTo, Held, Differ
<1> QED
  BY <1>1, <1>2, <1>6 DEF Moves, SameInbox

LEMMA Putting ==
  ASSUME InboxFunctions, NEW h \in Handles, Inbox(h), RunPut(h)
  PROVE  Moves(h) /\ \A g \in Handles \ {h} : SameInbox(g)
<1>1. ready[h] # <<>> /\ Head(ready[h]).task = "put" /\ taken' = taken /\ lost' = lost
  BY DEF RunPut
<1>2. InboxInv(queue[h], putters[h], ready[h], taken[h], lost[h], blocked[h])
  BY DEF Inbox
<1>3. PICK x : x = Head(ready[h]).item
  OBVIOUS
<1>4. CASE /\ putters' = [putters EXCEPT ![h] = Append(@, x)] /\ ready' = [ready EXCEPT ![h] = Tail(@)]
           /\ blocked' = [blocked EXCEPT ![h] = @ \union {x.event}] /\ queue' = queue
  <2>1. /\ putters'[h] = Append(putters[h], Head(ready[h]).item) /\ ready'[h] = Tail(ready[h])
        /\ Joined(blocked'[h], blocked[h], Head(ready[h]).item.event)
        /\ \A g \in Handles \ {h} : putters'[g] = putters[g] /\ ready'[g] = ready[g] /\ blocked'[g] = blocked[g]
    BY <1>3, <1>4 DEF InboxFunctions, Joined
  <2>2. /\ InboxInv(queue[h], putters'[h], ready'[h], taken[h], lost[h], blocked'[h])
        /\ Known(queue[h], putters'[h], ready'[h], taken[h], lost[h], blocked'[h])
             \subseteq Known(queue[h], putters[h], ready[h], taken[h], lost[h], blocked[h])
        /\ Alike(Entry(queue[h], putters'[h], ready'[h]), Entry(queue[h], putters[h], ready[h]))
    BY <1>1, <1>2, <2>1, Waits
  <2>3. Follows(h, {}) /\ Held(h)' = Held(h)
    BY <1>1, <1>4, <2>2 DEF Follows, Inbox, KnownTo, Held, Alike
  <2> QED
    BY <1>1, <1>4, <2>1, <2>3 DEF Moves, SameInbox
<1>5. CASE /\ Len(queue[h]) < MaxDepth /\ queue' = [queue EXCEPT ![h] = Append(@, x)]
           /\ ready' = [ready EXCEPT ![h] = Tail(@) \o IF getter[h] THEN <<Wake>> ELSE <<>>]
           /\ putters' = putters /\ blocked' = blocked
  <2>1. PICK s : s = Tail(ready[h])
    OBVIOUS
  <2>2. /\ queue'[h] = Append(queue[h], Head(ready[h]).item) /\ Room(queue[h])
        /\ ready'[h] = s \o IF getter[h] THEN <<Wake>> ELSE <<>>
        /\ \A g \in Handles \ {h} : queue'[g] = queue[g] /\ ready'[g] = ready[g]
    BY <1>3, <1>5, <2>1 DEF InboxFunctions, Room
  <2>3. /\ InboxInv(queue'[h], putters[h], s, taken[h], lost[h], blocked[h])
        /\ Known(queue'[h], putters[h], s, taken[h], lost[h], blocked[h])
             \subseteq Known(queue[h], putters[h], ready[h], taken[h], lost[h], blocked[h])
        /\ Alike(Entry(queue'[h], putters[h], s), Entry(queue[h], putters[h], ready[h]))
    BY <1>1, <1>2, <2>1, <2>2, PutsNext
  <2>4. s \in Seq(Tasks)
    BY <2>3 DEF InboxInv, InboxTypes
  <2>5. CASE getter[h]
    <3>1. ready'[h] = Append(s, Wake)
      <4>1. Wake \in Tasks
        BY DEF Wake, Tasks, Marker, QueueEntries
      <4> QED
        BY <2>2, <2>4, <2>5, <4>1
    <3>2. /\ InboxInv(queue'[h], putters[h], ready'[h], taken[h], lost[h], blocked[h])
          /\ Differ(queue'[h], putters[h], ready'[h], s, taken[h], lost[h], blocked[h], Marker({}))
      BY <2>3, <3>1, Wakes
    <3>3. Marker({}).event = 0
      BY DEF Marker
    <3>4. Follows(h, {}) /\ Held(h)' = Held(h)
      BY <1>1, <1>5, <2>3, <3>2, <3>3 DEF Follows, Inbox, KnownTo, Held, Alike, Differ
    <3> QED
      BY <1>1, <1>5, <2>2, <3>4 DEF Moves, SameInbox
  <2>6. CASE ~getter[h]
    <3>1. ready'[h] = s
      BY <2>2, <2>4, <2>6
    <3>2. Follows(h, {}) /\ Held(h)' = Held(h)
      BY <1>1, <1>5, <2>3, <3>1 DEF Follows, Inbox, KnownTo, Held, Alike
    <3> QED
      BY <1>1, <1>5, <2>2, <3>2 DEF Moves, SameInbox
  <2> QED
    BY <2>5, <2>6
<1> QED
  BY <1>3, <1>4, <1>5 DEF RunPut, HasRoom

\* What the bus schedules.
LEMMA Scheduled ==
  ASSUME InboxFunctions, NEW h \in Handles, life[h] # "over"
  PROVE  /\ \A x \in QueueEntries : Schedule(h, <<x>>) => ready'[h] = Append(ready[h], Call(x))
         /\ \A x, y \in QueueEntries :
              Schedule(h, <<x, y>>) => ready'[h] = Append(Append(ready[h], Call(x)), Call(y))
<1>1. ready[h] \in Seq(Tasks) /\ \A x \in QueueEntries : Call(x) \in Tasks
  BY DEF InboxFunctions, Call, Tasks
<1>2. ASSUME NEW x \in QueueEntries, Schedule(h, <<x>>) PROVE ready'[h] = Append(ready[h], Call(x))
  <2>1. ready'[h] = ready[h] \o [i \in DOMAIN <<x>> |-> Call(<<x>>[i])]
    BY <1>2 DEF Schedule, InboxFunctions
  <2>2. [i \in DOMAIN <<x>> |-> Call(<<x>>[i])] = <<Call(x)>>
    OBVIOUS
  <2> QED
    BY <1>1, <2>1, <2>2
<1>3. ASSUME NEW x \in QueueEntries, NEW y \in QueueEntries, Schedule(h, <<x, y>>)
      PROVE  ready'[h] = Append(Append(ready[h], Call(x)), Call(y))
  <2>1. ready'[h] = ready[h] \o [i \in DOMAIN <<x, y>> |-> Call(<<x, y>>[i])]
    BY <1>3 DEF Schedule, InboxFunctions
  <2>2. [i \in DOMAIN <<x, y>> |-> Call(<<x, y>>[i])] = <<Call(x), Call(y)>>
    OBVIOUS
  <2> QED
    BY <1>1, <2>1, <2>2
<1> QED
  BY <1>2, <1>3

\* What a strategy that the bus has still to serve knows is older than the
\* message in hand.
LEMMA KnownAreMessages ==
  ASSUME NEW h \in Handles, Inbox(h) PROVE KnownTo(h) \subseteq Messages \union {0}
<1>1. InboxTypes(queue[h], putters[h], ready[h], taken[h], lost[h], blocked[h])
  BY DEF Inbox, InboxInv
<1>2. /\ \A i \in DOMAIN queue[h] : queue[h][i] \in QueueEntries
      /\ \A i \in DOMAIN putters[h] : putters[h][i] \in QueueEntries
      /\ \A i \in DOMAIN ready[h] : ready[h][i] \in Tasks
      /\ \A i \in DOMAIN taken[h] : taken[h][i] \in QueueEntries
  BY <1>1 DEF InboxTypes
<1>3. \A x \in QueueEntries : x.event \in Messages \union {0}
  BY DEF QueueEntries
<1>4. \A x \in Tasks : x.item \in QueueEntries
  BY DEF Tasks
<1> QED
  BY <1>1, <1>2, <1>3, <1>4 DEF KnownTo, Known, Passed, InboxTypes

LEMMA Newer ==
  ASSUME BusPart, NEW h \in Handles, Inbox(h), bus.pc \in Busy, h \in bus.todo \/ bus.for = h,
         \A e \in KnownTo(h) : e <= Limit(h)
  PROVE  /\ Head(bus.batch) \in Messages /\ Head(bus.batch) = Base + 1
         /\ \A e \in KnownTo(h) : e < Head(bus.batch)
<1>1. bus.batch # <<>>
  BY DEF BusPart, BusInv, PlaceInv
<1>2. Head(bus.batch) \in Messages /\ Head(bus.batch) = Base + 1 /\ Base \in Nat
  BY <1>1, BatchFacts
<1>3. Limit(h) = Base
  BY <1>2 DEF Limit, Extra
<1>4. Messages \subseteq Int
  BY DEF Messages
<1> SUFFICES ASSUME NEW e \in KnownTo(h) PROVE e < Head(bus.batch)
  BY <1>2
<1>5. e <= Base /\ e \in Int
  <2>1. e \in Messages \union {0}
    BY KnownAreMessages
  <2> QED
    BY <1>3, <1>4, <2>1
<1> QED
  BY <1>2, <1>5

LEMMA Delivering ==
  ASSUME InboxFunctions, BusPart, NEW h \in Handles, Inbox(h), \A e \in KnownTo(h) : e <= Limit(h), Deliver(h)
  PROVE  /\ \A g \in Handles \ {h} : SameInbox(g)
         /\ UNCHANGED <<taken, lost>>
         /\ life[h] = "over" => SameInbox(h)
         /\ life[h] # "over" => /\ Inbox(h)'
                                /\ KnownTo(h)' \subseteq KnownTo(h) \union {Head(bus.batch)}
                                /\ Held(h)' = Held(h) \union {Event(Head(bus.batch))}
         /\ Limit(h)' = Head(bus.batch)
<1>1. BusRecord /\ PlaceInv
  BY DEF BusPart, BusTypes, BusInv
<1>2. /\ bus.pc = "deliver" /\ h \in bus.todo /\ bus.for = 0 /\ 0 # h
      /\ bus' = [bus EXCEPT !.todo = @ \ {h}]
      /\ UNCHANGED <<delivered, queue, putters, taken, lost, blocked>>
      /\ ready' = [ready EXCEPT ![h] = IF life[h] = "over" THEN @
                     ELSE @ \o [i \in DOMAIN <<Event(Head(bus.batch))>> |-> Call(<<Event(Head(bus.batch))>>[i])]]
      /\ Schedule(h, <<Event(Head(bus.batch))>>)
  BY <1>1, Sizes DEF Deliver, Schedule, redis, PlaceInv, Dropping
<1>3. \A g \in Handles \ {h} : SameInbox(g)
  BY <1>2 DEF SameInbox, InboxFunctions
<1>4. life[h] = "over" => SameInbox(h)
  BY <1>2 DEF SameInbox, InboxFunctions
<1>5. PICK m \in Messages : m = Head(bus.batch) /\ m = Base + 1 /\ \A e \in KnownTo(h) : e < m
  BY <1>2, Newer DEF Busy
<1>6. ASSUME life[h] # "over"
      PROVE  /\ Inbox(h)' /\ KnownTo(h)' \subseteq KnownTo(h) \union {m}
             /\ Held(h)' = Held(h) \union {Event(m)}
  <2>1. Event(m) \in QueueEntries /\ Event(m).event = m /\ Event(m) # Marker({})
    BY DEF Event, QueueEntries, Marker, Messages
  <2>2. ready'[h] = Append(ready[h], Call(Event(m)))
    BY <1>2, <1>5, <1>6, <2>1, Scheduled
  <2>3. /\ InboxInv(queue[h], putters[h], ready[h], taken[h], lost[h], blocked[h])
        /\ \A e \in Known(queue[h], putters[h], ready[h], taken[h], lost[h], blocked[h]) : e < m
    BY <1>5 DEF Inbox, KnownTo
  <2>4. /\ InboxInv(queue[h], putters[h], ready'[h], taken[h], lost[h], blocked[h])
        /\ Differ(queue[h], putters[h], ready'[h], ready[h], taken[h], lost[h], blocked[h], Event(m))
    BY <2>2, <2>3, Delivered
  <2> QED
    BY <1>2, <2>1, <2>4 DEF Inbox, KnownTo, Held, Differ
<1>7. Limit(h)' = m
  <2>1. bus'.pc \in Busy /\ h \notin bus'.todo /\ bus'.for # h /\ bus'.batch = bus.batch
    BY <1>1, <1>2 DEF BusRecord, Busy
  <2> QED
    BY <1>2, <1>5, <2>1 DEF Limit, Base, Extra
<1> QED
  BY <1>2, <1>3, <1>4, <1>5, <1>6, <1>7

LEMMA Marking ==
  ASSUME InboxFunctions, BusPart, DropsAreLost, NEW h \in Handles, bus.for = h, Inbox(h),
         \A e \in KnownTo(h) : e <= Limit(h), Mark
  PROVE  /\ \A g \in Handles \ {h} : SameInbox(g)
         /\ UNCHANGED <<taken, lost>>
         /\ life[h] = "over" => SameInbox(h)
         /\ life[h] # "over" => /\ Inbox(h)'
                                /\ KnownTo(h)' \subseteq KnownTo(h) \union {0} \union {Head(bus.batch)}
                                /\ Held(h)' = Held(h) \union {Event(Head(bus.batch))}
                                                \union ({Marker(bus.drops)} \ {Marker({})})
         /\ Limit(h)' = Head(bus.batch)
<1>1. BusRecord /\ PlaceInv
  BY DEF BusPart, BusTypes, BusInv
<1>2. /\ bus.pc = "mark" /\ 0 # h /\ bus.todo \subseteq Handles /\ bus.drops \in SUBSET Messages /\ bus.drops \subseteq lost[h]
      /\ bus' = [bus EXCEPT !.pc = "deliver", !.for = 0, !.drops = {}]
      /\ UNCHANGED <<delivered, queue, putters, taken, lost, blocked>>
      /\ Schedule(h, <<Marker(bus.drops), Event(Head(bus.batch))>>)
  BY <1>1, Sizes DEF Mark, redis, BusRecord, DropsAreLost
<1>3. \A g \in Handles \ {h} : SameInbox(g)
  BY <1>2 DEF SameInbox, InboxFunctions, Schedule
<1>4. life[h] = "over" => SameInbox(h)
  BY <1>2 DEF SameInbox, InboxFunctions, Schedule
<1>5. PICK m \in Messages : m = Head(bus.batch) /\ m = Base + 1 /\ \A e \in KnownTo(h) : e < m
  BY <1>2, Newer DEF Busy
<1>6. PICK ds \in SUBSET Messages : ds = bus.drops /\ ds \subseteq lost[h]
  BY <1>2
<1>7. ASSUME life[h] # "over"
      PROVE  /\ Inbox(h)' /\ KnownTo(h)' \subseteq KnownTo(h) \union {0} \union {m}
             /\ Held(h)' = Held(h) \union {Event(m)} \union ({Marker(ds)} \ {Marker({})})
  <2>1. Event(m) \in QueueEntries /\ Event(m).event = m /\ Event(m) # Marker({}) /\ m > 0
    BY DEF Event, QueueEntries, Marker, Messages
  <2>2. Marker(ds) \in QueueEntries /\ Marker(ds).event = 0
    BY DEF Marker, QueueEntries
  <2>3. PICK s : s = Append(ready[h], Call(Marker(ds)))
    OBVIOUS
  <2>4. ready'[h] = Append(s, Call(Event(m)))
    BY <1>2, <1>5, <1>6, <1>7, <2>1, <2>2, <2>3, Scheduled
  <2>5. /\ InboxInv(queue[h], putters[h], ready[h], taken[h], lost[h], blocked[h])
        /\ \A e \in Known(queue[h], putters[h], ready[h], taken[h], lost[h], blocked[h]) : e < m
    BY <1>5 DEF Inbox, KnownTo
  <2>6. /\ InboxInv(queue[h], putters[h], s, taken[h], lost[h], blocked[h])
        /\ Differ(queue[h], putters[h], s, ready[h], taken[h], lost[h], blocked[h], Marker(ds))
    BY <1>6, <2>3, <2>5, Announced
  <2>7. \A e \in Known(queue[h], putters[h], s, taken[h], lost[h], blocked[h]) : e < m
    BY <2>1, <2>2, <2>5, <2>6 DEF Differ
  <2>8. /\ InboxInv(queue[h], putters[h], ready'[h], taken[h], lost[h], blocked[h])
        /\ Differ(queue[h], putters[h], ready'[h], s, taken[h], lost[h], blocked[h], Event(m))
    BY <2>4, <2>6, <2>7, Delivered
  <2> QED
    BY <1>2, <2>1, <2>2, <2>6, <2>8 DEF Inbox, KnownTo, Held, Differ
<1>8. Limit(h)' = m
  <2>1. h \notin bus.todo
    BY <1>1 DEF PlaceInv
  <2>2. bus'.pc \in Busy /\ h \notin bus'.todo /\ bus'.for # h /\ bus'.batch = bus.batch
    BY <1>1, <1>2, <2>1 DEF BusRecord, Busy
  <2> QED
    BY <1>2, <1>5, <2>2 DEF Limit, Base, Extra
<1> QED
  BY <1>2, <1>3, <1>4, <1>5, <1>6, <1>7, <1>8

\* The end of lives.
LEMMA Ending ==
  ASSUME InboxFunctions, NEW hs, Over(hs), UNCHANGED <<taken, lost, blocked>>, NEW h \in Handles, Inbox(h)
  PROVE  /\ h \notin hs => SameInbox(h)
         /\ h \in hs => Follows(h, {}) /\ Held(h)' = {}
<1>1. h \notin hs => SameInbox(h)
  BY DEF Over, SameInbox
<1>2. ASSUME h \in hs PROVE Follows(h, {}) /\ Held(h)' = {}
  <2>1. queue'[h] = <<>> /\ putters'[h] = <<>> /\ ready'[h] = <<>>
    BY <1>2 DEF Over
  <2>2. InboxInv(queue[h], putters[h], ready[h], taken[h], lost[h], blocked[h])
    BY DEF Inbox
  <2>3. /\ InboxInv(<<>>, <<>>, <<>>, taken[h], lost[h], blocked[h])
        /\ Known(<<>>, <<>>, <<>>, taken[h], lost[h], blocked[h])
             \subseteq Known(queue[h], putters[h], ready[h], taken[h], lost[h], blocked[h])
        /\ Alike(Entry(<<>>, <<>>, <<>>), {})
    BY <2>2, Cleared
  <2> QED
    BY <2>1, <2>3 DEF Follows, Inbox, KnownTo, Held, Alike
<1> QED
  BY <1>1, <1>2
------------------------------------------------------------------------------
(* The invariant.                                                            *)

\* A step that leaves the inboxes alone.
Quiet ==
  /\ queue' = queue /\ putters' = putters /\ ready' = ready
  /\ taken' = taken /\ lost' = lost /\ blocked' = blocked
  /\ \A h \in Handles : life'[h] # life[h] => life[h] # "over" /\ life'[h] \notin {"unborn", "over"}
  /\ bus'.for = bus.for \/ bus.for = 0
  /\ bus'.drops = bus.drops

LEMMA Steps ==
  ASSUME BusPart, [Next]_vars
  PROVE  \/ Quiet
         \/ \E h \in Handles :
              Take(h) \/ RunCall(h) \/ RunPut(h) \/ RunConsumer(h) \/ Deliver(h) \/ Deregister(h)
         \/ Drop /\ queue[bus.for] # <<>>
         \/ Mark \/ EndOfProcess
<1> USE DEF redis, attempts, strategy, inbox, counts
<1>0. BusRecord /\ PlaceInv /\ OtherTypes
  BY DEF BusPart, BusTypes, BusInv
<1>1. ASSUME UNCHANGED <<queue, putters, ready, taken, lost, blocked, life>>, bus'.for = bus.for, bus'.drops = bus.drops
      PROVE  Quiet
  BY <1>1 DEF Quiet
<1>2. ASSUME Publish \/ UNCHANGED vars PROVE Quiet
  BY <1>1, <1>2 DEF Publish, vars
<1>3. ASSUME ReadFails \/ Undecodable \/ AckFails PROVE Quiet
  <2>1. UNCHANGED <<queue, putters, ready, taken, lost, blocked, life>>
    BY <1>3 DEF ReadFails, Undecodable, AckFails
  <2>2. bus'.for = bus.for /\ bus'.drops = bus.drops
    BY <1>0, <1>3 DEF ReadFails, Undecodable, AckFails, Fail, BusRecord
  <2> QED
    BY <1>1, <2>1, <2>2
<1>4. ASSUME RouteMalformed \/ Start \/ Retry \/ Route \/ BatchDone \/ Ack \/ Read PROVE Quiet
  <2>1. UNCHANGED <<queue, putters, ready, taken, lost, blocked, life>>
    BY <1>4 DEF RouteMalformed, Start, Retry, Route, BatchDone, Ack, Read
  <2>2. bus'.for = bus.for /\ bus'.drops = bus.drops
    BY <1>0, <1>4 DEF RouteMalformed, Start, Retry, Route, BatchDone, Ack, Read, BusRecord
  <2> QED
    BY <1>1, <2>1, <2>2
<1>5. ASSUME Drop, queue[bus.for] = <<>> PROVE Quiet
  <2>1. UNCHANGED <<queue, putters, ready, taken, lost, blocked, life>>
    BY <1>5 DEF Drop
  <2>2. bus'.for = bus.for /\ bus'.drops = bus.drops
    BY <1>0, <1>5 DEF Drop, BusRecord
  <2> QED
    BY <1>1, <2>1, <2>2
<1>6. ASSUME NEW h \in Handles, Overflow(h) PROVE Quiet
  <2>1. UNCHANGED <<queue, putters, ready, taken, lost, blocked, life>>
    BY <1>6 DEF Overflow
  <2>2. bus.for = 0 /\ bus'.drops = bus.drops
    BY <1>0, <1>6 DEF Overflow, BusRecord, PlaceInv, Dropping
  <2> QED
    BY <2>1, <2>2 DEF Quiet
<1>7. ASSUME NEW h \in Handles, Register(h) \/ Await(h) PROVE Quiet
  BY <1>1, <1>7 DEF Register, Await
<1>8. ASSUME NEW h \in Handles, Create(h) \/ Subscribed(h) \/ SubscribeFails(h) \/ Stop(h) PROVE Quiet
  <2>1. UNCHANGED <<queue, putters, ready, taken, lost, blocked, bus>>
    BY <1>8 DEF Create, Subscribed, SubscribeFails, Stop
  <2>2. PICK l \in {"subscribing", "running", "ended"} : life[h] # "over" /\ life' = [life EXCEPT ![h] = l]
    BY <1>8 DEF Create, Subscribed, SubscribeFails, Stop
  <2>3. \A g \in Handles : life'[g] # life[g] => life[g] # "over" /\ life'[g] \notin {"unborn", "over"}
    BY <1>0, <2>2 DEF OtherTypes
  <2> QED
    BY <2>1, <2>3 DEF Quiet
<1> QED
  BY <1>2, <1>3, <1>4, <1>5, <1>6, <1>7, <1>8 DEF Next, BusStep, LoopStep

LEMMA StillOld ==
  ASSUME BusPart, BusPart', [Next]_vars, NEW h \in Handles, Inbox(h), \A e \in KnownTo(h) : e <= Limit(h),
         NEW ms, \A m \in ms : m <= Limit(h)', Follows(h, ms)
  PROVE  Inbox(h)' /\ \A e \in KnownTo(h)' : e <= Limit(h)'
<1>1. Limit(h) \in Nat /\ Limit(h)' \in Nat /\ Limit(h) <= Limit(h)'
  BY LimitGrows
<1>2. ASSUME NEW e \in KnownTo(h) PROVE e <= Limit(h)'
  <2>1. e \in Messages \union {0} /\ Messages \subseteq Int
    BY KnownAreMessages DEF Messages
  <2>2. e \in Int /\ e <= Limit(h)
    BY <2>1
  <2> QED
    BY <1>1, <2>2
<1> QED
  BY <1>1, <1>2 DEF Follows

\* Every inbox after a step.
LEMMA InboxesFollow ==
  ASSUME BusPart, BusPart', InboxPart, [Next]_vars, NEW g \in Handles
  PROVE  Inbox(g)' /\ \A e \in KnownTo(g)' : e <= Limit(g)'
<1>0. /\ InboxFunctions /\ DropsAreLost /\ BusRecord
      /\ \A h \in Handles : Inbox(h) /\ \A e \in KnownTo(h) : e <= Limit(h)
  BY DEF InboxPart, KnownAreOld, BusPart, BusTypes
<1>1. \A ms : Follows(g, ms) /\ (\A m \in ms : m <= Limit(g)') => Inbox(g)' /\ \A e \in KnownTo(g)' : e <= Limit(g)'
  BY <1>0, StillOld
<1>2. Follows(g, {}) => Inbox(g)' /\ \A e \in KnownTo(g)' : e <= Limit(g)'
  BY <1>1
<1>3. SameInbox(g) => Inbox(g)' /\ \A e \in KnownTo(g)' : e <= Limit(g)'
  BY <1>0, <1>2, SameFollows
<1>4. CASE Quiet
  BY <1>3, <1>4 DEF Quiet, SameInbox
<1>5. ASSUME NEW h \in Handles, Take(h) \/ RunCall(h) \/ RunPut(h) \/ RunConsumer(h)
      PROVE  Inbox(g)' /\ \A e \in KnownTo(g)' : e <= Limit(g)'
  <2>1. Follows(h, {}) /\ \A f \in Handles \ {h} : SameInbox(f)
    BY <1>0, <1>5, Taking, Calling, Putting, Consuming DEF Moves
  <2> QED
    BY <1>2, <1>3, <2>1
<1>6. ASSUME NEW h \in Handles, Deliver(h) PROVE Inbox(g)' /\ \A e \in KnownTo(g)' : e <= Limit(g)'
  <2>1. /\ \A f \in Handles \ {h} : SameInbox(f)
        /\ life[h] = "over" => SameInbox(h)
        /\ life[h] # "over" => Inbox(h)' /\ KnownTo(h)' \subseteq KnownTo(h) \union {Head(bus.batch)}
        /\ Limit(h)' = Head(bus.batch)
    BY <1>0, <1>6, Delivering
  <2>2. CASE g = h /\ life[h] # "over"
    <3>1. Follows(g, {Limit(g)'})
      BY <2>1, <2>2 DEF Follows
    <3>2. Limit(g)' <= Limit(g)'
      BY LimitGrows
    <3> QED
      BY <1>1, <3>1, <3>2
  <2> QED
    BY <1>3, <2>1, <2>2
<1>7. ASSUME Mark PROVE Inbox(g)' /\ \A e \in KnownTo(g)' : e <= Limit(g)'
  <2>1. PICK h \in Handles : h = bus.for
    BY <1>0, <1>7 DEF Mark, BusPart, BusInv, PlaceInv, BusRecord, Dropping
  <2>2. /\ \A f \in Handles \ {h} : SameInbox(f)
        /\ life[h] = "over" => SameInbox(h)
        /\ life[h] # "over" => Inbox(h)' /\ KnownTo(h)' \subseteq KnownTo(h) \union {0} \union {Head(bus.batch)}
        /\ Limit(h)' = Head(bus.batch)
    BY <1>0, <1>7, <2>1, Marking
  <2>3. CASE g = h /\ life[h] # "over"
    <3>1. Follows(g, {Limit(g)'})
      BY <2>2, <2>3 DEF Follows
    <3>2. Limit(g)' <= Limit(g)'
      BY LimitGrows
    <3> QED
      BY <1>1, <3>1, <3>2
  <2> QED
    BY <1>3, <2>2, <2>3
<1>8. ASSUME Drop, queue[bus.for] # <<>> PROVE Inbox(g)' /\ \A e \in KnownTo(g)' : e <= Limit(g)'
  <2>1. PICK h \in Handles : h = bus.for
    BY <1>0, <1>8 DEF Drop, BusPart, BusInv, PlaceInv, BusRecord, Dropping
  <2>2. queue[h] # <<>> /\ bus.for = h
    BY <1>8, <2>1
  <2>3. Follows(h, {}) /\ \A f \in Handles \ {h} : SameInbox(f)
    BY <1>0, <1>8, <2>2, Dropped
  <2> QED
    BY <1>2, <1>3, <2>3
<1>9. ASSUME (\E h \in Handles : Deregister(h)) \/ EndOfProcess
      PROVE  Inbox(g)' /\ \A e \in KnownTo(g)' : e <= Limit(g)'
  <2>1. PICK hs : Over(hs) /\ UNCHANGED <<taken, lost, blocked>>
    BY <1>9 DEF Deregister, EndOfProcess
  <2>2. SameInbox(g) \/ Follows(g, {})
    BY <1>0, <2>1, Ending
  <2> QED
    BY <1>2, <1>3, <2>2
<1> QED
  BY <1>4, <1>5, <1>6, <1>7, <1>8, <1>9, Steps

Function(f) == f = [h \in Handles |-> f[h]]

LEMMA InboxesAreFunctions ==
  ASSUME BusPart, InboxPart, [Next]_vars, \A h \in Handles : Inbox(h)'
  PROVE  InboxFunctions'
<1>1. /\ Function(queue) /\ Function(putters) /\ Function(ready) /\ Function(taken)
      /\ Function(lost) /\ Function(blocked)
  BY DEF InboxPart, InboxFunctions, Function
<1>2. /\ Function(queue') /\ Function(putters') /\ Function(ready') /\ Function(taken')
      /\ Function(lost') /\ Function(blocked')
  <2>1. CASE Quiet
    BY <1>1, <2>1 DEF Quiet
  <2>2. ASSUME NEW h \in Handles, Take(h) \/ RunCall(h) \/ RunPut(h) \/ RunConsumer(h)
        PROVE  /\ Function(queue') /\ Function(putters') /\ Function(ready') /\ Function(taken')
               /\ Function(lost') /\ Function(blocked')
    BY <1>1, <2>2 DEF Take, TakeHead, RunCall, RunPut, RunConsumer, Function
  <2>3. ASSUME (\E h \in Handles : Deliver(h)) \/ Mark
        PROVE  /\ Function(queue') /\ Function(putters') /\ Function(ready') /\ Function(taken')
               /\ Function(lost') /\ Function(blocked')
    BY <1>1, <2>3 DEF Deliver, Mark, Schedule, Function
  <2>4. ASSUME (\E h \in Handles : Deregister(h)) \/ EndOfProcess
        PROVE  /\ Function(queue') /\ Function(putters') /\ Function(ready') /\ Function(taken')
               /\ Function(lost') /\ Function(blocked')
    BY <1>1, <2>4 DEF Deregister, EndOfProcess, Over, Function
  <2>5. ASSUME Drop, queue[bus.for] # <<>>
        PROVE  /\ Function(queue') /\ Function(putters') /\ Function(ready') /\ Function(taken')
               /\ Function(lost') /\ Function(blocked')
    BY <1>1, <2>5 DEF Drop, TakeHead, Function
  <2> QED
    BY <2>1, <2>2, <2>3, <2>4, <2>5, Steps
<1>3. ASSUME NEW h \in Handles
      PROVE  /\ queue'[h] \in Seq(QueueEntries) /\ putters'[h] \in Seq(QueueEntries)
             /\ taken'[h] \in Seq(QueueEntries) /\ ready'[h] \in Seq(Tasks)
             /\ lost'[h] \subseteq Messages /\ blocked'[h] \subseteq Messages \union {0}
  BY DEF Inbox, InboxInv, InboxTypes
<1> QED
  BY <1>2, <1>3 DEF InboxFunctions, Function

LEMMA LivesKept ==
  ASSUME BusPart, InboxPart, [Next]_vars PROVE LivesAreKept'
<1>0. InboxFunctions /\ LivesAreKept /\ DropsAreLost /\ BusRecord /\ PlaceInv /\ HandlesAreBorn /\ OtherTypes
  BY DEF InboxPart, BusPart, BusTypes, BusInv
<1>1. \A h \in Handles : Inbox(h) /\ \A e \in KnownTo(h) : e <= Limit(h)
  BY DEF InboxPart, KnownAreOld
<1> SUFFICES ASSUME NEW g \in Handles
             PROVE  /\ life'[g] \in {"unborn", "over"} => queue'[g] = <<>> /\ putters'[g] = <<>> /\ ready'[g] = <<>>
                    /\ life'[g] = "unborn" => lost'[g] = {}
  BY DEF LivesAreKept
<1>2. /\ life[g] \in {"unborn", "over"} => queue[g] = <<>> /\ putters[g] = <<>> /\ ready[g] = <<>>
      /\ life[g] = "unborn" => lost[g] = {}
  BY <1>0 DEF LivesAreKept
<1>3. CASE life'[g] = life[g] /\ SameInbox(g)
  BY <1>2, <1>3 DEF SameInbox
<1>4. CASE life'[g] \notin {"unborn", "over"}
  BY <1>4
<1>5. CASE Quiet
  BY <1>2, <1>5 DEF Quiet
<1>6. ASSUME NEW h \in Handles, Take(h) \/ RunCall(h) \/ RunPut(h) \/ RunConsumer(h)
      PROVE  life'[g] = life[g] /\ (SameInbox(g) \/ life[g] = "running")
  <2>1. life' = life /\ life[h] = "running"
    BY <1>6 DEF Take, RunCall, RunPut, RunConsumer, LoopIsFree, Running
  <2>2. \A f \in Handles \ {h} : SameInbox(f)
    BY <1>0, <1>1, <1>6, Taking, Calling, Putting, Consuming
  <2> QED
    BY <2>1, <2>2
<1>7. ASSUME NEW h \in Handles, Deliver(h)
      PROVE  life'[g] = life[g] /\ (SameInbox(g) \/ life[g] \notin {"unborn", "over"})
  <2>1. life' = life /\ life[h] # "unborn"
    BY <1>0, <1>7 DEF Deliver, HandlesAreBorn
  <2>2. (\A f \in Handles \ {h} : SameInbox(f)) /\ (life[h] = "over" => SameInbox(h))
    BY <1>0, <1>1, <1>7, Delivering
  <2> QED
    BY <2>1, <2>2
<1>8. ASSUME Mark PROVE life'[g] = life[g] /\ (SameInbox(g) \/ life[g] \notin {"unborn", "over"})
  <2>1. PICK h \in Handles : bus.for = h
    BY <1>0, <1>8 DEF Mark, PlaceInv, BusRecord, Dropping
  <2>2. life' = life /\ life[h] # "unborn"
    BY <1>0, <1>8, <2>1 DEF Mark, HandlesAreBorn, PlaceInv, Dropping
  <2>3. (\A f \in Handles \ {h} : SameInbox(f)) /\ (life[h] = "over" => SameInbox(h))
    BY <1>0, <1>1, <1>8, <2>1, Marking
  <2> QED
    BY <2>2, <2>3
<1>9. ASSUME Drop, queue[bus.for] # <<>>
      PROVE  life'[g] = life[g] /\ (SameInbox(g) \/ life[g] \notin {"unborn", "over"})
  <2>1. PICK h \in Handles : bus.for = h
    BY <1>0, <1>9 DEF Drop, PlaceInv, BusRecord, Dropping
  <2>2. queue[h] # <<>> /\ life' = life
    BY <1>9, <2>1 DEF Drop
  <2>3. \A f \in Handles \ {h} : SameInbox(f)
    BY <1>0, <1>1, <1>9, <2>1, <2>2, Dropped
  <2>4. life[h] \notin {"unborn", "over"}
    BY <1>0, <2>2 DEF LivesAreKept
  <2> QED
    BY <2>2, <2>3, <2>4
<1>10. ASSUME NEW hs, Over(hs), UNCHANGED <<taken, lost, blocked>>, \A h \in Handles \intersect hs : life[h] # "unborn"
       PROVE  /\ life'[g] \in {"unborn", "over"} => queue'[g] = <<>> /\ putters'[g] = <<>> /\ ready'[g] = <<>>
              /\ life'[g] = "unborn" => lost'[g] = {}
  BY <1>2, <1>10 DEF Over
<1>11. ASSUME (\E h \in Handles : Deregister(h)) \/ EndOfProcess
       PROVE  /\ life'[g] \in {"unborn", "over"} => queue'[g] = <<>> /\ putters'[g] = <<>> /\ ready'[g] = <<>>
              /\ life'[g] = "unborn" => lost'[g] = {}
  <2>1. PICK hs : Over(hs) /\ UNCHANGED <<taken, lost, blocked>> /\ \A h \in Handles \intersect hs : life[h] # "unborn"
    <3>1. CASE EndOfProcess
      BY <3>1 DEF EndOfProcess
    <3>2. ASSUME NEW h \in Handles, Deregister(h)
          PROVE  \E hs : Over(hs) /\ UNCHANGED <<taken, lost, blocked>> /\ \A f \in Handles \intersect hs : life[f] # "unborn"
      <4>1. Over({h}) /\ UNCHANGED <<taken, lost, blocked>> /\ life[h] # "unborn"
        BY <3>2 DEF Deregister
      <4>2. \A f \in Handles \intersect {h} : life[f] # "unborn"
        BY <4>1
      <4> QED
        BY <4>1, <4>2
    <3> QED
      BY <1>11, <3>1, <3>2
  <2> QED
    BY <1>10, <2>1
<1> QED
  BY <1>3, <1>4, <1>5, <1>6, <1>7, <1>8, <1>9, <1>11, Steps

LEMMA DropsStayLost ==
  ASSUME BusPart, InboxPart, [Next]_vars PROVE DropsAreLost'
<1>0. InboxFunctions /\ DropsAreLost /\ BusRecord /\ PlaceInv
  BY DEF InboxPart, BusPart, BusTypes, BusInv
<1>1. \A h \in Handles : Inbox(h)
  BY DEF InboxPart
<1>2. CASE bus'.for = bus.for /\ bus'.drops = bus.drops /\ lost' = lost
  BY <1>0, <1>2 DEF DropsAreLost
<1>3. CASE bus'.for = 0
  BY <1>3 DEF DropsAreLost
<1>4. CASE Quiet
  <2>1. bus.for = 0 => bus'.drops = {}
    BY <1>0, <1>4 DEF Quiet, PlaceInv
  <2>2. lost' = lost /\ (bus'.for = bus.for \/ bus.for = 0) /\ bus'.drops = bus.drops
    BY <1>4 DEF Quiet
  <2> QED
    BY <1>0, <2>1, <2>2 DEF DropsAreLost
<1>5. ASSUME NEW h \in Handles, Take(h) \/ RunCall(h) \/ RunPut(h) \/ RunConsumer(h) \/ Deregister(h)
      PROVE  bus' = bus /\ lost' = lost
  BY <1>5 DEF Take, RunCall, RunPut, RunConsumer, Deregister
<1>6. ASSUME NEW h \in Handles, Deliver(h) PROVE bus'.for = 0
  BY <1>0, <1>6 DEF Deliver, BusRecord, PlaceInv, Dropping
<1>7. ASSUME Mark \/ EndOfProcess PROVE bus'.for = 0
  <2>1. Mark => bus'.for = 0
    BY <1>0 DEF Mark, BusRecord
  <2>2. EndOfProcess => bus'.for = 0
    BY DEF EndOfProcess, Idle
  <2> QED
    BY <1>7, <2>1, <2>2
<1>8. CASE Drop /\ queue[bus.for] # <<>>
  <2>1. PICK h \in Handles : bus.for = h
    BY <1>0, <1>8 DEF Drop, PlaceInv, BusRecord, Dropping
  <2>2. queue[h] # <<>> /\ bus'.for = h
    BY <1>0, <1>8, <2>1 DEF Drop, BusRecord
  <2>3. PICK x \in QueueEntries :
          /\ Plain(x, lost[h])
          /\ lost' = [lost EXCEPT ![h] = @ \union ({x.event} \ {0})]
          /\ bus'.drops = bus.drops \union x.drops \union ({x.event} \ {0})
    BY <1>0, <1>1, <1>8, <2>1, <2>2, Dropped
  <2>4. lost'[h] = lost[h] \union ({x.event} \ {0})
    BY <1>0, <2>3 DEF InboxFunctions
  <2>5. bus.drops \subseteq lost[h] /\ x.drops \subseteq lost[h]
    BY <1>0, <2>1, <2>3, Sizes DEF DropsAreLost, Plain
  <2> QED
    BY <2>2, <2>3, <2>4, <2>5 DEF DropsAreLost
<1> QED
  BY <1>2, <1>3, <1>4, <1>5, <1>6, <1>7, <1>8, Steps

LEMMA InboxesStep ==
  ASSUME BusPart, BusPart', InboxPart, [Next]_vars PROVE InboxPart'
<1>1. \A h \in Handles : Inbox(h)' /\ \A e \in KnownTo(h)' : e <= Limit(h)'
  BY InboxesFollow
<1>2. InboxFunctions'
  BY <1>1, InboxesAreFunctions
<1> QED
  BY <1>1, <1>2, LivesKept, DropsStayLost DEF InboxPart, KnownAreOld

LEMMA LossStaysKnown ==
  ASSUME FeedInv, [Next]_vars PROVE LossIsKnown'
<1>0. InboxFunctions /\ LivesAreKept /\ DropsAreLost /\ BusPart /\ BusRecord /\ PlaceInv /\ OtherTypes
  BY DEF FeedInv, InboxPart, BusPart, BusTypes, BusInv
<1>1. \A h \in Handles : Inbox(h) /\ \A e \in KnownTo(h) : e <= Limit(h)
  BY DEF FeedInv, InboxPart, KnownAreOld
<1> SUFFICES ASSUME NEW g \in Handles, InProcess(g)', NEW e \in lost'[g]
             PROVE  \/ e \in Owed(g)'
                    \/ \E x \in Held(g)' : e \in x.drops
                    \/ \E i \in DOMAIN taken'[g] : e \in taken'[g][i].drops
  BY DEF LossIsKnown
<1> DEFINE Goal == \/ e \in Owed(g)'
                   \/ \E x \in Held(g)' : e \in x.drops
                   \/ \E i \in DOMAIN taken'[g] : e \in taken'[g][i].drops
<1>2. ASSUME InProcess(g), e \in lost[g]
      PROVE  \/ e \in Owed(g)
             \/ \E x \in Held(g) : e \in x.drops
             \/ \E i \in DOMAIN taken[g] : e \in taken[g][i].drops
  BY <1>2 DEF FeedInv, LossIsKnown
<1>3. ASSUME SameInbox(g), InProcess(g), Owed(g) \subseteq Owed(g)' PROVE Goal
  <2>1. Held(g)' = Held(g) /\ taken'[g] = taken[g] /\ lost'[g] = lost[g]
    BY <1>1, <1>3, SameFollows DEF SameInbox
  <2> QED
    BY <1>2, <1>3, <2>1
<1>4. ASSUME bus' = bus PROVE Owed(g) \subseteq Owed(g)'
  BY <1>4 DEF Owed
<1>5. ASSUME life'[g] = life[g] PROVE InProcess(g)
  BY <1>5 DEF InProcess
<1>6. CASE Quiet
  <2>1. SameInbox(g)
    BY <1>6 DEF Quiet, SameInbox
  <2>2. InProcess(g)
    <3>1. lost[g] = lost'[g] /\ lost[g] # {}
      BY <2>1 DEF SameInbox
    <3>2. life[g] # "unborn"
      BY <1>0, <3>1 DEF LivesAreKept
    <3> QED
      BY <1>6, <3>2 DEF Quiet, InProcess
  <2>3. Owed(g) \subseteq Owed(g)'
    BY <1>0, <1>6, Sizes DEF Quiet, Owed, PlaceInv
  <2> QED
    BY <1>3, <2>1, <2>2, <2>3
<1>7. ASSUME NEW h \in Handles, RunCall(h) \/ RunPut(h) \/ RunConsumer(h) PROVE Goal
  <2>1. bus' = bus /\ life' = life
    BY <1>7 DEF RunCall, RunPut, RunConsumer
  <2>2. Moves(h) /\ \A f \in Handles \ {h} : SameInbox(f)
    BY <1>0, <1>1, <1>7, Calling, Putting, Consuming
  <2>3. g = h => Held(g)' = Held(g) /\ taken'[g] = taken[g] /\ lost'[g] = lost[g]
    BY <2>2 DEF Moves
  <2> QED
    BY <1>2, <1>3, <1>4, <1>5, <2>1, <2>2, <2>3
<1>8. ASSUME NEW h \in Handles, Take(h) PROVE Goal
  <2>1. bus' = bus /\ life' = life
    BY <1>8 DEF Take
  <2>2. \A f \in Handles \ {h} : SameInbox(f)
    BY <1>0, <1>1, <1>8, Taking
  <2>3. CASE g = h
    <3>1. PICK x \in QueueEntries :
            /\ taken'[g] = Append(taken[g], x) /\ lost'[g] = lost[g]
            /\ Held(g) \subseteq Held(g)' \union {x} /\ Held(g)' \subseteq Held(g)
      BY <1>0, <1>1, <1>8, <2>3, Taking
    <3>2. taken[g] \in Seq(QueueEntries)
      BY <1>0 DEF InboxFunctions
    <3>3. /\ \A i \in DOMAIN taken[g] : i \in DOMAIN taken'[g] /\ taken'[g][i] = taken[g][i]
          /\ \E i \in DOMAIN taken'[g] : taken'[g][i] = x
      <4>1. /\ DOMAIN taken'[g] = 1..(Len(taken[g]) + 1) /\ DOMAIN taken[g] = 1..Len(taken[g])
            /\ Len(taken[g]) \in Nat /\ taken'[g][Len(taken[g]) + 1] = x
            /\ \A i \in 1..Len(taken[g]) : taken'[g][i] = taken[g][i]
        BY <3>1, <3>2
      <4>2. Len(taken[g]) + 1 \in DOMAIN taken'[g]
        BY <4>1
      <4> QED
        BY <4>1, <4>2
    <3>4. Owed(g) \subseteq Owed(g)' /\ InProcess(g)
      BY <1>4, <1>5, <2>1
    <3> QED
      BY <1>2, <3>1, <3>3, <3>4
  <2> QED
    BY <1>3, <1>4, <1>5, <2>1, <2>2, <2>3
<1>9. ASSUME NEW h \in Handles, Deliver(h) PROVE Goal
  <2>1. life' = life /\ bus.for = bus'.for /\ bus.drops = bus'.drops
    BY <1>0, <1>9 DEF Deliver, BusRecord
  <2>2. Owed(g) \subseteq Owed(g)' /\ InProcess(g)
    BY <1>5, <2>1 DEF Owed
  <2>3. /\ \A f \in Handles \ {h} : SameInbox(f)
        /\ taken' = taken /\ lost' = lost
        /\ life[h] = "over" => SameInbox(h)
        /\ life[h] # "over" => Held(h) \subseteq Held(h)'
    BY <1>0, <1>1, <1>9, Delivering
  <2>4. CASE g = h /\ life[h] # "over"
    BY <1>2, <2>2, <2>3, <2>4
  <2> QED
    BY <1>3, <2>2, <2>3, <2>4
<1>10. ASSUME Mark PROVE Goal
  <2>1. PICK h \in Handles : bus.for = h
    BY <1>0, <1>10 DEF Mark, PlaceInv, BusRecord, Dropping
  <2>2. InProcess(g)
    BY <1>5, <1>10 DEF Mark
  <2>3. /\ \A f \in Handles \ {h} : SameInbox(f)
        /\ taken' = taken /\ lost' = lost
        /\ life[h] # "over" => Held(h)' = Held(h) \union {Event(Head(bus.batch))}
                                               \union ({Marker(bus.drops)} \ {Marker({})})
    BY <1>0, <1>1, <1>10, <2>1, Marking
  <2>4. g # h => Owed(g) = {}
    BY <2>1 DEF Owed
  <2>5. CASE g = h
    <3>1. Held(h) \subseteq Held(h)' /\ (Marker(bus.drops) # Marker({}) => Marker(bus.drops) \in Held(h)')
      BY <2>2, <2>3, <2>5 DEF InProcess
    <3>2. e \in Owed(g) => Marker(bus.drops) # Marker({}) /\ e \in Marker(bus.drops).drops
      BY DEF Owed, Marker
    <3> QED
      BY <1>2, <2>2, <2>3, <2>5, <3>1, <3>2
  <2> QED
    BY <1>3, <2>2, <2>3, <2>4, <2>5
<1>11. ASSUME Drop, queue[bus.for] # <<>> PROVE Goal
  <2>1. PICK h \in Handles : bus.for = h
    BY <1>0, <1>11 DEF Drop, PlaceInv, BusRecord, Dropping
  <2>2. queue[h] # <<>> /\ bus'.for = h /\ InProcess(g)
    BY <1>0, <1>5, <1>11, <2>1 DEF Drop, BusRecord
  <2>3. \A f \in Handles \ {h} : SameInbox(f)
    BY <1>0, <1>1, <1>11, <2>1, <2>2, Dropped
  <2>4. g # h => Owed(g) = {}
    BY <2>1 DEF Owed
  <2>5. CASE g = h
    <3>1. PICK x \in QueueEntries :
            /\ taken' = taken
            /\ lost' = [lost EXCEPT ![h] = @ \union ({x.event} \ {0})]
            /\ bus'.drops = bus.drops \union x.drops \union ({x.event} \ {0})
            /\ Held(h) \subseteq Held(h)' \union {x}
      BY <1>0, <1>1, <1>11, <2>1, <2>2, Dropped
    <3>2. lost'[h] = lost[h] \union ({x.event} \ {0})
      BY <1>0, <3>1 DEF InboxFunctions
    <3>3. Owed(g) = bus.drops /\ Owed(g)' = bus'.drops
      BY <2>1, <2>2, <2>5 DEF Owed
    <3> QED
      BY <1>2, <2>2, <2>5, <3>1, <3>2, <3>3
  <2> QED
    BY <1>3, <2>2, <2>3, <2>4, <2>5
<1>12. ASSUME NEW hs, Over(hs), UNCHANGED <<taken, lost, blocked>> PROVE SameInbox(g) /\ life'[g] = life[g]
  <2>1. g \notin hs
    BY <1>12 DEF Over, InProcess
  <2> QED
    BY <1>12, <2>1 DEF Over, SameInbox
<1>13. ASSUME NEW h \in Handles, Deregister(h) PROVE Goal
  <2>1. Over({h}) /\ UNCHANGED <<taken, lost, blocked>> /\ bus' = bus
    BY <1>13 DEF Deregister
  <2> QED
    BY <1>3, <1>4, <1>5, <1>12, <2>1
<1>14. ASSUME EndOfProcess PROVE Goal
  <2>1. life[g] = "unborn"
    BY <1>14 DEF EndOfProcess, Over, InProcess
  <2>2. life'[g] = "unborn"
    BY <1>14, <2>1 DEF EndOfProcess, Over
  <2> QED
    BY <2>2 DEF InProcess
<1> QED
  BY <1>0, <1>6, <1>7, <1>8, <1>9, <1>10, <1>11, <1>13, <1>14, Steps

LEMMA FeedStarts == Init => FeedInv
<1> SUFFICES ASSUME Init PROVE FeedInv
  OBVIOUS
<1>1. BusPart
  BY BusStarts
<1>2. InboxFunctions /\ LivesAreKept /\ DropsAreLost /\ LossIsKnown
  BY DEF Init, Idle, InboxFunctions, LivesAreKept, DropsAreLost, LossIsKnown
<1>3. \A h \in Handles : Inbox(h)
  <2> SUFFICES ASSUME NEW h \in Handles PROVE Inbox(h)
    OBVIOUS
  <2>1. /\ queue[h] = <<>> /\ putters[h] = <<>> /\ ready[h] = <<>> /\ taken[h] = <<>>
        /\ lost[h] = {} /\ blocked[h] = {}
    BY DEF Init
  <2>2. InboxTypes(<<>>, <<>>, <<>>, <<>>, {}, {})
    <3>1. <<>> \in Seq(QueueEntries) /\ <<>> \in Seq(Tasks) /\ Len(<<>>) = 0 /\ MaxDepth \in Nat
      BY Sizes
    <3> QED
      BY <3>1 DEF InboxTypes
  <2>3. Apart(<<>>, <<>>, <<>>) /\ AllPlain(<<>>, <<>>, <<>>, <<>>, {})
    BY DEF Apart, AllPlain
  <2>4. FreshInOrder(<<>>, <<>>, <<>>, <<>>, {}, {}) /\ QueueInOrder(<<>>, <<>>, <<>>, {})
    BY DEF FreshInOrder, QueueInOrder
  <2> QED
    BY <2>1, <2>2, <2>3, <2>4 DEF Inbox, InboxInv
<1>4. KnownAreOld
  <2> SUFFICES ASSUME NEW h \in Handles PROVE KnownTo(h) = {}
    BY DEF KnownAreOld
  <2> QED
    BY DEF Init, KnownTo, Known, Passed
<1> QED
  BY <1>1, <1>2, <1>3, <1>4 DEF FeedInv, InboxPart

LEMMA FeedSteps == FeedInv /\ [Next]_vars => FeedInv'
<1> SUFFICES ASSUME FeedInv, [Next]_vars PROVE FeedInv'
  OBVIOUS
<1>1. BusPart /\ InboxPart /\ InboxFunctions
  BY DEF FeedInv, InboxPart
<1>2. BusPart'
  BY <1>1, BusStepKeeps
<1>3. InboxPart'
  BY <1>1, <1>2, InboxesStep
<1> QED
  BY <1>2, <1>3, LossStaysKnown DEF FeedInv

THEOREM FeedIsInvariant == Spec => []FeedInv
  BY FeedStarts, FeedSteps, PTL DEF Spec
------------------------------------------------------------------------------
LEMMA LossAnnounced ==
  ASSUME FeedInv PROVE LossIsAnnounced
<1> SUFFICES ASSUME NEW h \in Handles, InProcess(h), NEW e \in lost[h]
             PROVE  e \in Told(h) \union DropsIn(Items(h)) \union Owed(h)
  BY DEF LossIsAnnounced
<1>1. \A x \in Held(h) : x \in Items(h)
  <2>1. AllPlain(queue[h], putters[h], ready[h], taken[h], lost[h])
    BY DEF FeedInv, InboxPart, Inbox, InboxInv
  <2>2. \A i \in DOMAIN ready[h] : ready[h][i].item # Marker({}) => ready[h][i].task # "consumer"
    BY <2>1 DEF AllPlain
  <2>3. ASSUME NEW i \in DOMAIN ready[h], ready[h][i].item # Marker({}) PROVE ready[h][i].item \in Items(h)
    <3>1. ready[h][i] \in {r \in ToSet(ready[h]) : r.task # "consumer"}
      BY <2>2, <2>3 DEF ToSet
    <3> QED
      BY <3>1 DEF Items
  <2> QED
    BY <2>3 DEF Held, Entry, Items, ToSet
<1>2. ASSUME NEW x \in Held(h), e \in x.drops PROVE e \in DropsIn(Items(h))
  BY <1>1, <1>2 DEF DropsIn
<1>3. ASSUME NEW i \in DOMAIN taken[h], e \in taken[h][i].drops PROVE e \in Told(h)
  BY <1>3 DEF Told, DropsIn, ToSet
<1> QED
  BY <1>2, <1>3 DEF FeedInv, LossIsKnown

LEMMA OrderKept ==
  ASSUME FeedInv PROVE OrderIsLostWhenFull
<1> SUFFICES ASSUME NEW h \in Handles, NEW i \in DOMAIN taken[h], NEW j \in DOMAIN taken[h], i < j,
                    taken[h][j].event \in 1..(taken[h][i].event - 1)
             PROVE  taken[h][j].event \in blocked[h]
  BY DEF OrderIsLostWhenFull
<1>1. QueueInOrder(queue[h], putters[h], taken[h], blocked[h])
  BY DEF FeedInv, InboxPart, Inbox, InboxInv
<1>2. taken[h] \in Seq(QueueEntries)
  BY DEF FeedInv, InboxPart, InboxFunctions
<1>3. taken[h][i] \in QueueEntries /\ taken[h][j] \in QueueEntries
  BY <1>2
<1>4. PICK m \in Int, n \in Int : m = taken[h][i].event /\ n = taken[h][j].event
  <2>1. Messages \union {0} \subseteq Int
    BY DEF Messages
  <2> QED
    BY <1>3, <2>1 DEF QueueEntries
<1>5. n # 0 /\ n < m
  BY <1>4
<1>6. ~(m < n)
  BY <1>5
<1> QED
  BY <1>1, <1>4, <1>5, <1>6 DEF QueueInOrder, Keeps

LEMMA TypesKept ==
  ASSUME FeedInv PROVE TypeOK
<1>1. StreamTypes /\ BusRecord /\ OtherTypes /\ InboxFunctions
  BY DEF FeedInv, BusPart, BusTypes, InboxPart
<1>2. ASSUME NEW h \in Handles
      PROVE  /\ queue[h] \in Seq(QueueEntries) /\ Len(queue[h]) <= MaxDepth
             /\ putters[h] \in Seq(QueueEntries) /\ taken[h] \in Seq(QueueEntries)
             /\ ready[h] \in Seq([task : {"call", "put", "consumer"}, item : QueueEntries])
  BY DEF FeedInv, InboxPart, Inbox, InboxInv, InboxTypes, Tasks
<1>3. /\ bus.pc \in {"down", "idle", "read", "batch", "deliver", "drop", "drop again", "mark", "wait", "exit"}
      /\ bus.batch \in Seq(Messages) /\ bus.todo \subseteq Handles
      /\ bus.for \in Handles \union {0} /\ bus.drops \subseteq Messages
  BY <1>1 DEF BusRecord, PCs, Busy
<1>4. {lost, blocked} \subseteq [Handles -> SUBSET (Messages \union {0})]
  BY <1>1 DEF InboxFunctions
<1> QED
  BY <1>1, <1>2, <1>3, <1>4 DEF TypeOK, StreamTypes, OtherTypes

\* The queues keep their types and their depth; whatever an overflow drops is
\* on its way to the strategy as part of a marker, has reached it or is about
\* to be marked; and only events that once waited for room fall behind later
\* ones (event_bus.py:289-352).
THEOREM QueuesHold == Spec => []QueuesAreHonest
<1>1. FeedInv => QueuesAreHonest
  BY LossAnnounced, OrderKept, TypesKept DEF QueuesAreHonest
<1> QED
  BY <1>1, FeedIsInvariant, PTL

\* XACK is called for entries that _route has been through, and for no others
\* (event_bus.py, the loop over the batch).
THEOREM AcksHold == Spec => OnlyRoutedAreAcked
<1>1. ASSUME FeedInv, [Next]_vars PROVE [pel \ pel' \subseteq routed]_vars
  <2>1. StreamTypes /\ BusRecord /\ PlaceInv
    BY <1>1 DEF FeedInv, BusPart, BusTypes, BusInv
  <2>2. CASE pel \subseteq pel'
    BY <2>2
  <2>3. CASE Ack \/ AckFails
    <3>1. bus.pc = "deliver" /\ pel \ pel' \subseteq {Head(bus.batch)}
      BY <2>3 DEF Ack, AckFails
    <3>2. bus.batch # <<>> /\ bus.batch \in Seq(Messages) /\ bus.batch[1] \in routed
      BY <2>1, <3>1 DEF PlaceInv, BusRecord, Busy
    <3>3. Head(bus.batch) = bus.batch[1]
      BY <3>2
    <3> QED
      BY <3>1, <3>2, <3>3
  <2>4. ASSUME Publish \/ ReadFails \/ RouteMalformed \/ Undecodable \/ EndOfProcess PROVE pel \subseteq pel'
    BY <2>4 DEF Publish, ReadFails, RouteMalformed, Undecodable, EndOfProcess, HandOut, redis
  <2>5. ASSUME Start \/ Read \/ Retry \/ Route \/ BatchDone \/ Drop \/ Mark PROVE pel \subseteq pel'
    BY <2>5 DEF Start, Read, Retry, Route, BatchDone, Drop, Mark, HandOut, redis
  <2>6. ASSUME NEW h \in Handles, \/ Deliver(h) \/ Overflow(h) \/ Create(h) \/ Subscribed(h) \/ SubscribeFails(h)
                                 \/ Register(h) \/ Stop(h) \/ Deregister(h) \/ LoopStep(h)
        PROVE  pel \subseteq pel'
    BY <2>6 DEF Deliver, Overflow, Create, Subscribed, SubscribeFails, Register, Stop, Deregister, LoopStep,
                Take, Await, RunCall, RunPut, RunConsumer, redis
  <2>7. CASE UNCHANGED vars
    BY <2>7 DEF vars, redis
  <2> QED
    BY <1>1, <2>2, <2>3, <2>4, <2>5, <2>6, <2>7 DEF Next, BusStep
<1> QED
  BY <1>1, FeedIsInvariant, PTL DEF Spec, OnlyRoutedAreAcked
------------------------------------------------------------------------------
(* The bus implements MarkedFeed.                                            *)

\* What is on its way, by Held; what was handled and told, by what was taken.
LEMMA WaitingIsHeld ==
  ASSUME NEW h \in Handles, Inbox(h) PROVE Waiting(h) = {x.event : x \in Held(h)} \ {0}
<1>1. AllPlain(queue[h], putters[h], ready[h], taken[h], lost[h])
  BY DEF Inbox, InboxInv
<1>2. \A i \in DOMAIN ready[h] : ready[h][i].item # Marker({}) => ready[h][i].task # "consumer"
  BY <1>1 DEF AllPlain
<1>3. \A x \in Held(h) : x \in Items(h)
  <2>1. ASSUME NEW i \in DOMAIN ready[h], ready[h][i].item # Marker({}) PROVE ready[h][i].item \in Items(h)
    <3>1. ready[h][i] \in {r \in ToSet(ready[h]) : r.task # "consumer"}
      BY <1>2, <2>1 DEF ToSet
    <3> QED
      BY <3>1 DEF Items
  <2> QED
    BY <2>1 DEF Held, Entry, Items, ToSet
<1>4. \A x \in Items(h) : x.event # 0 => x \in Held(h)
  <2>1. Items(h) \subseteq Entry(queue[h], putters[h], ready[h])
    BY DEF Items, Entry, ToSet
  <2>2. Marker({}).event = 0
    BY DEF Marker
  <2> QED
    BY <2>1, <2>2 DEF Held
<1>5. \A e : e \in {x.event : x \in Held(h)} \ {0} => e \in Waiting(h)
  BY <1>3 DEF Waiting, EventsIn
<1>6. \A e : e \in Waiting(h) => e \in {x.event : x \in Held(h)} \ {0}
  BY <1>4 DEF Waiting, EventsIn
<1> QED
  BY <1>5, <1>6

LEMMA WaitingIsHeldNext ==
  ASSUME NEW h \in Handles, Inbox(h)' PROVE Waiting(h)' = {x.event : x \in Held(h)'} \ {0}
<1>1. AllPlain(queue'[h], putters'[h], ready'[h], taken'[h], lost'[h])
  BY DEF Inbox, InboxInv
<1>2. \A i \in DOMAIN ready'[h] : ready'[h][i].item # Marker({}) => ready'[h][i].task # "consumer"
  BY <1>1 DEF AllPlain
<1>3. \A x \in Held(h)' : x \in Items(h)'
  <2>1. ASSUME NEW i \in DOMAIN ready'[h], ready'[h][i].item # Marker({}) PROVE ready'[h][i].item \in Items(h)'
    <3>1. ready'[h][i] \in {r \in ToSet(ready'[h]) : r.task # "consumer"}
      BY <1>2, <2>1 DEF ToSet
    <3> QED
      BY <3>1 DEF Items
  <2> QED
    BY <2>1 DEF Held, Entry, Items, ToSet
<1>4. \A x \in Items(h)' : x.event # 0 => x \in Held(h)'
  <2>1. Items(h)' \subseteq Entry(queue'[h], putters'[h], ready'[h])
    BY DEF Items, Entry, ToSet
  <2>2. Marker({}).event = 0
    BY DEF Marker
  <2> QED
    BY <2>1, <2>2 DEF Held
<1>5. \A e : e \in {x.event : x \in Held(h)'} \ {0} => e \in Waiting(h)'
  BY <1>3 DEF Waiting, EventsIn
<1>6. \A e : e \in Waiting(h)' => e \in {x.event : x \in Held(h)'} \ {0}
  BY <1>4 DEF Waiting, EventsIn
<1> QED
  BY <1>5, <1>6

LEMMA TakenMore ==
  ASSUME NEW h \in Handles, InboxFunctions, NEW x \in QueueEntries, taken'[h] = Append(taken[h], x)
  PROVE  Handled(h)' = Handled(h) \union ({x.event} \ {0}) /\ Told(h)' = Told(h) \union x.drops
<1>1. taken[h] \in Seq(QueueEntries)
  BY DEF InboxFunctions
<1>2. /\ DOMAIN taken'[h] = 1..(Len(taken[h]) + 1) /\ DOMAIN taken[h] = 1..Len(taken[h])
      /\ Len(taken[h]) \in Nat /\ taken'[h][Len(taken[h]) + 1] = x
      /\ \A i \in 1..Len(taken[h]) : taken'[h][i] = taken[h][i]
  BY <1>1
<1>3. \A y : y \in ToSet(taken'[h]) <=> y \in ToSet(taken[h]) \/ y = x
  <2>1. ASSUME NEW y, y \in ToSet(taken'[h]) PROVE y \in ToSet(taken[h]) \/ y = x
    <3>1. PICK i \in 1..(Len(taken[h]) + 1) : taken'[h][i] = y
      BY <1>2, <2>1 DEF ToSet
    <3>2. i = Len(taken[h]) + 1 \/ i \in 1..Len(taken[h])
      BY <1>2
    <3> QED
      BY <1>2, <3>1, <3>2 DEF ToSet
  <2>2. \A y : y \in ToSet(taken[h]) => y \in ToSet(taken'[h])
    BY <1>2 DEF ToSet
  <2>3. x \in ToSet(taken'[h])
    <3>1. Len(taken[h]) + 1 \in DOMAIN taken'[h]
      BY <1>2
    <3> QED
      BY <1>2, <3>1 DEF ToSet
  <2> QED
    BY <2>1, <2>2, <2>3
<1>4. ToSet(taken'[h]) = ToSet(taken[h]) \union {x}
  BY <1>3
<1>5. Handled(h)' = Handled(h) \union ({x.event} \ {0})
  BY <1>4 DEF Handled, EventsIn
<1>6. Told(h)' = Told(h) \union x.drops
  BY <1>4 DEF Told, DropsIn
<1> QED
  BY <1>5, <1>6
------------------------------------------------------------------------------
\* The feed of one strategy, and the steps of MarkedFeed by what they do to it.
SameLife(h) == (life[h] = "over") <=> (life'[h] = "over")
SameFeed(h) ==
  /\ SameLife(h) /\ Waiting(h)' = Waiting(h) /\ Handled(h)' = Handled(h) /\ Told(h)' = Told(h)
  /\ lost'[h] = lost[h]

LostFunction == \E A, B : lost \in [Handles -> A] /\ lost' \in [Handles -> B]

FeedStep == [Feed!Next]_(Feed!feed)

LEMMA Unmoved ==
  ASSUME LostFunction, \A h \in Handles : SameFeed(h) PROVE FeedStep
<1>1. lost' = lost
  BY DEF LostFunction, SameFeed
<1>2. Feed!feed' = Feed!feed
  BY <1>1 DEF Feed!feed, SameFeed, SameLife
<1> QED
  BY <1>2 DEF FeedStep

LEMMA Offered ==
  ASSUME LostFunction, NEW f \in Handles, \A h \in Handles \ {f} : SameFeed(h), SameLife(f), life[f] # "over",
         NEW e \in Messages, e \notin Waiting(f) \union Handled(f) \union lost[f],
         Waiting(f)' = Waiting(f) \union {e},
         Handled(f)' = Handled(f), Told(f)' = Told(f), lost'[f] = lost[f]
  PROVE  FeedStep
<1>1. lost' = lost /\ \A h \in Handles : SameLife(h) /\ Handled(h)' = Handled(h) /\ Told(h)' = Told(h)
  BY DEF LostFunction, SameFeed
<1>2. Feed!Offer(f, e)
  BY <1>1 DEF Feed!Offer, SameFeed, SameLife
<1> QED
  BY <1>2 DEF FeedStep, Feed!Next

LEMMA HandledOne ==
  ASSUME LostFunction, NEW f \in Handles, \A h \in Handles \ {f} : SameFeed(h), SameLife(f), life[f] # "over",
         NEW e \in Messages, e \in Waiting(f),
         Waiting(f)' = Waiting(f) \ {e}, Handled(f)' = Handled(f) \union {e},
         Told(f)' = Told(f), lost'[f] = lost[f]
  PROVE  FeedStep
<1>1. lost' = lost /\ \A h \in Handles : SameLife(h) /\ Told(h)' = Told(h)
  BY DEF LostFunction, SameFeed
<1>2. Feed!Handle(f, e)
  BY <1>1 DEF Feed!Handle, SameFeed, SameLife
<1> QED
  BY <1>2 DEF FeedStep, Feed!Next

LEMMA LostOne ==
  ASSUME LostFunction, NEW f \in Handles, \A h \in Handles \ {f} : SameFeed(h), SameLife(f), life[f] # "over",
         NEW e \in Messages, e \in Waiting(f),
         Waiting(f)' = Waiting(f) \ {e}, lost'[f] = lost[f] \union {e},
         Handled(f)' = Handled(f), Told(f)' = Told(f)
  PROVE  FeedStep
<1>1. lost' = [lost EXCEPT ![f] = @ \union {e}]
  BY DEF LostFunction, SameFeed
<1>2. \A h \in Handles : SameLife(h) /\ Handled(h)' = Handled(h) /\ Told(h)' = Told(h)
  BY DEF SameFeed
<1>3. Feed!Lose(f, e)
  BY <1>1, <1>2 DEF Feed!Lose, SameFeed, SameLife
<1> QED
  BY <1>3 DEF FeedStep, Feed!Next

LEMMA ToldMore ==
  ASSUME LostFunction, NEW f \in Handles, \A h \in Handles \ {f} : SameFeed(h), SameLife(f),
         NEW es \in SUBSET Messages, es \subseteq lost[f], Told(f)' = Told(f) \union es,
         Waiting(f)' = Waiting(f), Handled(f)' = Handled(f), lost'[f] = lost[f]
  PROVE  FeedStep
<1>1. lost' = lost /\ \A h \in Handles : SameLife(h) /\ Waiting(h)' = Waiting(h) /\ Handled(h)' = Handled(h)
  BY DEF LostFunction, SameFeed
<1>2. CASE Told(f)' = Told(f)
  BY <1>2, Unmoved DEF SameFeed
<1>3. CASE Told(f)' # Told(f)
  <2>1. Feed!Tell(f, es)
    BY <1>1 DEF Feed!Tell, SameFeed, SameLife
  <2> QED
    BY <1>3, <2>1 DEF FeedStep, Feed!Next
<1> QED
  BY <1>2, <1>3

LEMMA Closed ==
  ASSUME LostFunction, NEW hs, \A h \in Handles \ hs : SameFeed(h),
         \A h \in Handles \intersect hs :
           /\ life[h] = "over" => SameFeed(h)
           /\ life'[h] = "over" /\ Waiting(h)' = {}
           /\ Handled(h)' = Handled(h) /\ Told(h)' = Told(h) /\ lost'[h] = lost[h]
  PROVE  FeedStep
<1>1. lost' = lost /\ \A h \in Handles : Handled(h)' = Handled(h) /\ Told(h)' = Told(h)
  BY DEF LostFunction, SameFeed
<1>2. \A h \in Handles : h \in hs \/ Waiting(h)' = Waiting(h)
  BY DEF SameFeed
<1> DEFINE open == {h \in Handles : life[h] # "over"}
<1>3. \A h \in Handles : h \in open \ open' <=> life[h] # "over" /\ h \in hs
  BY DEF SameFeed, SameLife
<1>4. open' = open \ (open \ open')
  BY DEF SameFeed, SameLife
<1>5. \A h \in Handles : Waiting(h)' = IF h \in open \ open' THEN {} ELSE Waiting(h)
  BY <1>2, <1>3 DEF SameFeed
<1>6. Feed!Close(open \ open')
  BY <1>1, <1>4, <1>5 DEF Feed!Close
<1> QED
  BY <1>6 DEF FeedStep, Feed!Next
------------------------------------------------------------------------------
LEMMA SameInboxSameFeed ==
  ASSUME NEW h \in Handles, SameInbox(h), SameLife(h) PROVE SameFeed(h)
<1>1. Items(h)' = Items(h)
  BY DEF SameInbox, Items
<1> QED
  BY <1>1 DEF SameInbox, SameFeed, Waiting, Handled, Told

\* The event of an entry that leaves is on its way no longer.
LEMMA LeavesWaiting ==
  ASSUME NEW h \in Handles, Inbox(h), Inbox(h)', NEW x \in QueueEntries,
         Held(h) \subseteq Held(h)' \union {x}, Held(h)' \subseteq Held(h),
         \A y \in Held(h)' : x.event # 0 => x.event # y.event,
         x # Marker({}) => x \in Held(h)
  PROVE  /\ Waiting(h)' = Waiting(h) \ ({x.event} \ {0})
         /\ x.event # 0 => x.event \in Waiting(h)
<1>1. Waiting(h) = {y.event : y \in Held(h)} \ {0} /\ Waiting(h)' = {y.event : y \in Held(h)'} \ {0}
  BY WaitingIsHeld, WaitingIsHeldNext
<1>2. ASSUME x.event # 0 PROVE x.event \in Waiting(h)
  <2>1. x # Marker({})
    BY <1>2 DEF Marker
  <2> QED
    BY <1>1, <1>2, <2>1
<1>3. \A e \in Waiting(h)' : e \in Waiting(h) \ ({x.event} \ {0})
  BY <1>1
<1>4. \A e \in Waiting(h) \ ({x.event} \ {0}) : e \in Waiting(h)'
  BY <1>1
<1> QED
  BY <1>2, <1>3, <1>4

\* An event newer than all a strategy knows was never offered to it.
LEMMA NotYetOffered ==
  ASSUME NEW h \in Handles, Inbox(h), NEW e \in Messages, \A k \in KnownTo(h) : k < e
  PROVE  e \notin Waiting(h) \union Handled(h) \union lost[h]
<1>1. e \notin KnownTo(h)
  BY DEF Messages
<1>2. \A x \in Held(h) : x.event \in KnownTo(h)
  BY DEF Held, Entry, KnownTo, Known, Passed
<1>3. \A k \in Handled(h) : k \in KnownTo(h)
  BY DEF Handled, EventsIn, ToSet, KnownTo, Known, Passed
<1>4. \A k \in lost[h] : k \in KnownTo(h)
  BY DEF KnownTo, Known, Passed
<1>5. e \notin Waiting(h)
  BY <1>1, <1>2, WaitingIsHeld
<1> QED
  BY <1>1, <1>3, <1>4, <1>5

\* The message in hand joins what is on its way.
LEMMA JoinsWaiting ==
  ASSUME NEW h \in Handles, Inbox(h), Inbox(h)', NEW m \in Messages,
         Held(h) \subseteq Held(h)', Event(m) \in Held(h)',
         \A x \in Held(h)' : x \in Held(h) \/ x = Event(m) \/ x.event = 0
  PROVE  Waiting(h)' = Waiting(h) \union {m}
<1>1. Waiting(h) = {y.event : y \in Held(h)} \ {0} /\ Waiting(h)' = {y.event : y \in Held(h)'} \ {0}
  BY WaitingIsHeld, WaitingIsHeldNext
<1>2. Event(m).event = m /\ m # 0
  BY DEF Event, Messages
<1>3. \A e \in Waiting(h)' : e \in Waiting(h) \union {m}
  BY <1>1, <1>2
<1>4. \A e \in Waiting(h) \union {m} : e \in Waiting(h)'
  BY <1>1, <1>2
<1> QED
  BY <1>3, <1>4

LEMMA FeedFollows ==
  ASSUME FeedInv, FeedInv', [Next]_vars PROVE FeedStep
<1>0. InboxFunctions /\ LivesAreKept /\ DropsAreLost /\ BusPart /\ BusRecord /\ PlaceInv /\ OtherTypes
  BY DEF FeedInv, InboxPart, BusPart, BusTypes, BusInv
<1>1. \A h \in Handles : Inbox(h) /\ Inbox(h)' /\ \A e \in KnownTo(h) : e <= Limit(h)
  BY DEF FeedInv, InboxPart, KnownAreOld
<1>2. LostFunction
  <2>1. lost \in [Handles -> SUBSET Messages] /\ lost' \in [Handles -> SUBSET Messages]
    BY DEF FeedInv, InboxPart, InboxFunctions
  <2> QED
    BY <2>1 DEF LostFunction
<1>3. \A x \in QueueEntries : x.event \in Messages \union {0} /\ x.drops \in SUBSET Messages
  BY DEF QueueEntries
<1>4. ASSUME life' = life PROVE \A h \in Handles : SameLife(h)
  BY <1>4 DEF SameLife
<1>5. ASSUME NEW h \in Handles, life[h] = "over" PROVE queue[h] = <<>> /\ putters[h] = <<>> /\ ready[h] = <<>>
  BY <1>0, <1>5 DEF LivesAreKept
<1>6. CASE Quiet
  <2>1. \A h \in Handles : SameInbox(h) /\ SameLife(h)
    BY <1>6 DEF Quiet, SameInbox, SameLife
  <2> QED
    BY <1>2, <2>1, SameInboxSameFeed, Unmoved
<1>7. ASSUME NEW f \in Handles, RunCall(f) \/ RunPut(f) \/ RunConsumer(f) PROVE FeedStep
  <2>1. life' = life
    BY <1>7 DEF RunCall, RunPut, RunConsumer
  <2>2. Moves(f) /\ \A g \in Handles \ {f} : SameInbox(g)
    BY <1>0, <1>1, <1>7, Calling, Putting, Consuming
  <2>3. SameFeed(f)
    <3>1. Waiting(f)' = Waiting(f)
      BY <1>1, <2>2, WaitingIsHeld, WaitingIsHeldNext DEF Moves
    <3> QED
      BY <1>4, <2>1, <2>2, <3>1 DEF SameFeed, Moves, Handled, Told
  <2> QED
    BY <1>2, <1>4, <2>1, <2>2, <2>3, SameInboxSameFeed, Unmoved
<1>8. ASSUME NEW f \in Handles, Take(f) PROVE FeedStep
  <2>1. life' = life /\ life[f] # "over"
    BY <1>8 DEF Take, Running
  <2>2. \A g \in Handles \ {f} : SameFeed(g)
    BY <1>0, <1>1, <1>4, <1>8, <2>1, Taking, SameInboxSameFeed
  <2>3. PICK x \in QueueEntries :
          /\ taken'[f] = Append(taken[f], x) /\ lost'[f] = lost[f] /\ Plain(x, lost[f])
          /\ Held(f) \subseteq Held(f)' \union {x} /\ Held(f)' \subseteq Held(f)
          /\ \A y \in Held(f)' : x.event # 0 => x.event # y.event
          /\ x # Marker({}) => x \in Held(f)
    BY <1>0, <1>1, <1>8, Taking
  <2>4. Handled(f)' = Handled(f) \union ({x.event} \ {0}) /\ Told(f)' = Told(f) \union x.drops
    BY <1>0, <2>3, TakenMore
  <2>5. Waiting(f)' = Waiting(f) \ ({x.event} \ {0}) /\ (x.event # 0 => x.event \in Waiting(f))
    BY <1>1, <2>3, LeavesWaiting
  <2>6. CASE x.event # 0
    <3>1. x.drops = {} /\ x.event \in Messages
      BY <1>3, <2>3, <2>6 DEF Plain
    <3>2. /\ x.event \in Waiting(f) /\ Waiting(f)' = Waiting(f) \ {x.event}
          /\ Handled(f)' = Handled(f) \union {x.event} /\ Told(f)' = Told(f)
      BY <2>4, <2>5, <2>6, <3>1
    <3> QED
      BY <1>2, <1>4, <2>1, <2>2, <2>3, <3>1, <3>2, HandledOne
  <2>7. CASE x.event = 0
    <3>1. x.drops \in SUBSET Messages /\ x.drops \subseteq lost[f]
      BY <1>3, <2>3 DEF Plain
    <3>2. Waiting(f)' = Waiting(f) /\ Handled(f)' = Handled(f)
      BY <2>4, <2>5, <2>7
    <3> QED
      BY <1>2, <1>4, <2>1, <2>2, <2>3, <2>4, <3>1, <3>2, ToldMore
  <2> QED
    BY <2>6, <2>7
<1>9. ASSUME NEW f \in Handles, Deliver(f) PROVE FeedStep
  <2>1. life' = life /\ bus.pc \in Busy /\ f \in bus.todo
    BY <1>9 DEF Deliver, Busy
  <2>2. /\ \A g \in Handles \ {f} : SameInbox(g)
        /\ taken' = taken /\ lost' = lost
        /\ life[f] = "over" => SameInbox(f)
        /\ life[f] # "over" => Held(f)' = Held(f) \union {Event(Head(bus.batch))}
    BY <1>0, <1>1, <1>9, Delivering
  <2>3. \A g \in Handles \ {f} : SameFeed(g)
    BY <1>4, <2>1, <2>2, SameInboxSameFeed
  <2>4. CASE life[f] = "over"
    BY <1>2, <1>4, <2>1, <2>2, <2>3, <2>4, SameInboxSameFeed, Unmoved
  <2>5. CASE life[f] # "over"
    <3>1. Head(bus.batch) \in Messages /\ \A e \in KnownTo(f) : e < Head(bus.batch)
      BY <1>0, <1>1, <2>1, Newer
    <3>2. Head(bus.batch) \notin Waiting(f) \union Handled(f) \union lost[f]
      BY <1>1, <3>1, NotYetOffered
    <3>3. Waiting(f)' = Waiting(f) \union {Head(bus.batch)}
      <4>1. /\ Held(f) \subseteq Held(f)' /\ Event(Head(bus.batch)) \in Held(f)'
            /\ \A x \in Held(f)' : x \in Held(f) \/ x = Event(Head(bus.batch)) \/ x.event = 0
        BY <2>2, <2>5
      <4> QED
        BY <1>1, <3>1, <4>1, JoinsWaiting
    <3>4. Handled(f)' = Handled(f) /\ Told(f)' = Told(f) /\ lost'[f] = lost[f]
      BY <2>2 DEF Handled, Told
    <3> QED
      BY <1>2, <1>4, <2>1, <2>3, <2>5, <3>1, <3>2, <3>3, <3>4, Offered
  <2> QED
    BY <2>4, <2>5
<1>10. ASSUME Mark PROVE FeedStep
  <2>1. PICK f \in Handles : bus.for = f
    BY <1>0, <1>10 DEF Mark, PlaceInv, BusRecord, Dropping
  <2>2. life' = life /\ bus.pc \in Busy
    BY <1>10 DEF Mark, Busy
  <2>3. /\ \A g \in Handles \ {f} : SameInbox(g)
        /\ taken' = taken /\ lost' = lost
        /\ life[f] = "over" => SameInbox(f)
        /\ life[f] # "over" => Held(f)' = Held(f) \union {Event(Head(bus.batch))}
                                               \union ({Marker(bus.drops)} \ {Marker({})})
    BY <1>0, <1>1, <1>10, <2>1, Marking
  <2>4. \A g \in Handles \ {f} : SameFeed(g)
    BY <1>4, <2>2, <2>3, SameInboxSameFeed
  <2>5. CASE life[f] = "over"
    BY <1>2, <1>4, <2>2, <2>3, <2>4, <2>5, SameInboxSameFeed, Unmoved
  <2>6. CASE life[f] # "over"
    <3>1. Head(bus.batch) \in Messages /\ \A e \in KnownTo(f) : e < Head(bus.batch)
      BY <1>0, <1>1, <2>1, <2>2, Newer
    <3>2. Head(bus.batch) \notin Waiting(f) \union Handled(f) \union lost[f]
      BY <1>1, <3>1, NotYetOffered
    <3>3. Waiting(f)' = Waiting(f) \union {Head(bus.batch)}
      <4>1. \A x \in {Marker(bus.drops)} \ {Marker({})} : x.event = 0
        BY DEF Marker
      <4>2. /\ Held(f) \subseteq Held(f)' /\ Event(Head(bus.batch)) \in Held(f)'
            /\ \A x \in Held(f)' : x \in Held(f) \/ x = Event(Head(bus.batch)) \/ x.event = 0
        BY <2>3, <2>6, <4>1
      <4> QED
        BY <1>1, <3>1, <4>2, JoinsWaiting
    <3>4. Handled(f)' = Handled(f) /\ Told(f)' = Told(f) /\ lost'[f] = lost[f]
      BY <2>3 DEF Handled, Told
    <3> QED
      BY <1>2, <1>4, <2>2, <2>4, <2>6, <3>1, <3>2, <3>3, <3>4, Offered
  <2> QED
    BY <2>5, <2>6
<1>11. ASSUME Drop, queue[bus.for] # <<>> PROVE FeedStep
  <2>1. PICK f \in Handles : bus.for = f
    BY <1>0, <1>11 DEF Drop, PlaceInv, BusRecord, Dropping
  <2>2. queue[f] # <<>> /\ life' = life /\ life[f] # "over"
    BY <1>5, <1>11, <2>1 DEF Drop
  <2>3. \A g \in Handles \ {f} : SameFeed(g)
    BY <1>0, <1>1, <1>4, <1>11, <2>1, <2>2, Dropped, SameInboxSameFeed
  <2>4. PICK x \in QueueEntries :
          /\ taken' = taken /\ lost' = [lost EXCEPT ![f] = @ \union ({x.event} \ {0})]
          /\ Held(f) \subseteq Held(f)' \union {x} /\ Held(f)' \subseteq Held(f)
          /\ \A y \in Held(f)' : x.event # 0 => x.event # y.event
          /\ x # Marker({}) => x \in Held(f)
    BY <1>0, <1>1, <1>11, <2>1, <2>2, Dropped
  <2>5. lost'[f] = lost[f] \union ({x.event} \ {0}) /\ Handled(f)' = Handled(f) /\ Told(f)' = Told(f)
    BY <1>0, <2>4 DEF InboxFunctions, Handled, Told
  <2>6. Waiting(f)' = Waiting(f) \ ({x.event} \ {0}) /\ (x.event # 0 => x.event \in Waiting(f))
    BY <1>1, <2>4, LeavesWaiting
  <2>7. CASE x.event # 0
    <3>1. /\ x.event \in Messages /\ x.event \in Waiting(f)
          /\ Waiting(f)' = Waiting(f) \ {x.event} /\ lost'[f] = lost[f] \union {x.event}
      BY <1>3, <2>5, <2>6, <2>7
    <3> QED
      BY <1>2, <1>4, <2>2, <2>3, <2>5, <3>1, LostOne
  <2>8. CASE x.event = 0
    <3>1. SameFeed(f)
      BY <1>4, <2>2, <2>5, <2>6, <2>8 DEF SameFeed
    <3> QED
      BY <1>2, <2>3, <3>1, Unmoved
  <2> QED
    BY <2>7, <2>8
<1>12. ASSUME NEW hs, Over(hs), UNCHANGED <<taken, lost, blocked>> PROVE FeedStep
  <2>1. \A h \in Handles \ hs : SameInbox(h) /\ SameLife(h)
    BY <1>12 DEF Over, SameInbox, SameLife
  <2>2. ASSUME NEW h \in Handles \intersect hs
        PROVE  /\ life[h] = "over" => SameFeed(h)
               /\ life'[h] = "over" /\ Waiting(h)' = {}
               /\ Handled(h)' = Handled(h) /\ Told(h)' = Told(h) /\ lost'[h] = lost[h]
    <3>1. /\ queue'[h] = <<>> /\ putters'[h] = <<>> /\ ready'[h] = <<>>
          /\ life'[h] = "over"
      BY <1>12 DEF Over
    <3>2. Waiting(h)' = {}
      BY <3>1 DEF Waiting, EventsIn, Items, ToSet
    <3>3. life[h] = "over" => SameInbox(h) /\ SameLife(h)
      BY <1>5, <1>12, <3>1 DEF Over, SameInbox, SameLife
    <3> QED
      BY <1>12, <3>1, <3>2, <3>3, SameInboxSameFeed DEF Handled, Told
  <2> QED
    BY <1>2, <2>1, <2>2, SameInboxSameFeed, Closed
<1>13. ASSUME NEW h \in Handles, Deregister(h) PROVE FeedStep
  BY <1>12, <1>13 DEF Deregister
<1>14. ASSUME EndOfProcess PROVE FeedStep
  BY <1>12, <1>14 DEF EndOfProcess
<1> QED
  BY <1>0, <1>6, <1>7, <1>8, <1>9, <1>10, <1>11, <1>13, <1>14, Steps

\* The bus offers no event to a life of a strategy twice, across reads, failed
\* acknowledgements and restarts; what it offered is handled once, lost and
\* counted as lost, or goes with the life; and a marker speaks of lost events
\* only (event_bus.py:214-352): a step of the bus, of a strategy's loop or of
\* the registry is a step of MarkedFeed or leaves the feed as it is.
THEOREM FeedIsImplemented == Spec => ImplementsFeed
<1>1. Init => Feed!Init
  BY DEF Init, Feed!Init, Feed!Nothing, Waiting, Handled, Told, EventsIn, DropsIn, Items, ToSet
<1>2. FeedInv /\ FeedInv' /\ [Next]_vars => [Feed!Next]_(Feed!feed)
  BY FeedFollows DEF FeedStep
<1> QED
  BY <1>1, <1>2, FeedIsInvariant, PTL DEF Spec, ImplementsFeed, Feed!Spec
==============================================================================
