------------------------------- MODULE EventBus -------------------------------
(***************************************************************************)
(* How one Redis stream reaches the strategies of a bot-service process    *)
(* (bus/event_bus.py, bus/event_types.py, and the loading and the event    *)
(* loop of a strategy in strategy/registry.py).                            *)
(*                                                                         *)
(* The bus-manager thread reads the stream as one consumer of a group and  *)
(* hands each message to every registered strategy.  A strategy has an     *)
(* asyncio loop in a thread of its own: the bus cannot put into its queue, *)
(* it can only schedule a put that the loop runs later, in the order of    *)
(* the loop's ready list.  Two things the bus does to the queue directly,  *)
(* from its own thread: it asks how long it is and it drops the oldest     *)
(* entries when that is too long.                                          *)
(*                                                                         *)
(* The stream is a counter: message m is the m-th one added.  A handle is  *)
(* used for one life of a strategy; a reload or a restart takes a new one. *)
(***************************************************************************)
EXTENDS Integers, Sequences, FiniteSets, SequencesExt

CONSTANTS
  Handles,        (* lives of strategies, in the order they begin             *)
  MaxAtOnce,      (* bound: those that live at one time                       *)
  MaxMsgs,        (* bound: messages added to the stream                      *)
  BatchMax,       (* COUNT of XREADGROUP                                      *)
  MaxDepth,       (* bot_queue_max_depth                                      *)
  BackoffCap,     (* _BACKOFF_CAP                                             *)
  CapLimit,       (* _BACKOFF_CAP_LIMIT                                       *)
  MaxErrors,      (* bound: messages that are bad and Redis calls that fail   *)
  MaxCrashes      (* bound: ends of the process                               *)

ASSUME ConstantsAreSizes ==
  /\ Handles \subseteq Nat \ {0}
  /\ {MaxAtOnce, MaxMsgs, MaxErrors, MaxCrashes} \subseteq Nat
  /\ {BatchMax, MaxDepth, BackoffCap, CapLimit} \subseteq Nat \ {0}

VARIABLES
  \* Redis
  published,      \* messages in the stream
  group,          \* the consumer group exists
  delivered,      \* its last-delivered-id
  pel,            \* its pending entries
  \* the bus-manager thread
  bus,
  backoff,        \* seconds until the next attempt
  capHits,        \* consecutive_cap_hits
  keys,           \* the stream is among _stream_keys
  handles,        \* _handles
  \* each strategy
  life,           \* its thread
  queue,          \* the asyncio.Queue
  putters,        \* puts that wait for room
  ready,          \* the ready list of its loop
  getter,         \* the event loop task waits in queue.get()
  \* history
  routed,         \* messages _route was called with
  taken,          \* what a strategy's event loop took, in that order
  lost,           \* messages dropped from a strategy's queue
  blocked,        \* messages whose put once found the queue full
  errors, crashes

redis == <<published, group, delivered, pel>>
attempts == <<backoff, capHits>>
inbox == <<queue, putters, ready, getter>>
strategy == <<life, inbox, taken>>
counts == <<errors, crashes>>
vars == <<redis, bus, attempts, keys, handles, life, inbox, routed, taken, lost, blocked, counts>>
------------------------------------------------------------------------------
Messages == 1..MaxMsgs

\* An entry of a queue: an event, or a GapMarker for what an overflow dropped.
Event(m) == [event |-> m, drops |-> {}]
Marker(ms) == [event |-> 0, drops |-> ms]

\* What a loop's ready list holds: a scheduled call that will create the task
\* of a put, a step of such a task, the step of the event loop task.
Call(i) == [task |-> "call", item |-> i]
Put(i) == [task |-> "put", item |-> i]
Wake == [task |-> "consumer", item |-> Marker({})]

Items(h) == ToSet(queue[h]) \union ToSet(putters[h])
              \union {r.item : r \in {r \in ToSet(ready[h]) : r.task # "consumer"}}

EventsIn(items) == {i.event : i \in items} \ {0}
DropsIn(items) == UNION {i.drops : i \in items}

Running(h) == life[h] = "running"
InProcess(h) == life[h] \notin {"unborn", "over"}

Idle == [pc |-> "down", batch |-> <<>>, todo |-> {}, for |-> 0, drops |-> {}]

Init ==
  /\ published = 0 /\ group \in BOOLEAN /\ delivered = 0 /\ pel = {}
  /\ bus = Idle /\ backoff = 1 /\ capHits = 0 /\ keys = FALSE /\ handles = {}
  /\ life = [h \in Handles |-> "unborn"]
  /\ queue = [h \in Handles |-> <<>>] /\ putters = queue /\ ready = queue /\ taken = queue
  /\ getter = [h \in Handles |-> FALSE]
  /\ routed = {}
  /\ lost = [h \in Handles |-> {}] /\ blocked = lost
  /\ errors = 0 /\ crashes = 0
------------------------------------------------------------------------------
(* The stream.                                                              *)

\* Another service adds a message (XADD).
Publish ==
  /\ published < MaxMsgs
  /\ published' = published + 1
  /\ UNCHANGED <<group, delivered, pel, bus, attempts, keys, handles, strategy, routed, lost, blocked, counts>>
------------------------------------------------------------------------------
(* The lives of strategies.                                                 *)

\* _create_handle_and_thread: the thread starts, with subscribe() to run.
Create(h) ==
  /\ life[h] = "unborn" /\ \A g \in Handles : g < h => life[g] # "unborn"
  /\ Cardinality({g \in Handles : InProcess(g)}) < MaxAtOnce
  /\ life' = [life EXCEPT ![h] = "subscribing"]
  /\ UNCHANGED <<redis, bus, attempts, keys, handles, inbox, routed, taken, lost, blocked, counts>>

\* run_strategy_event_loop after run_subscribe: handlers are registered and
\* the event loop task goes on to take events.
Subscribed(h) ==
  /\ life[h] = "subscribing"
  /\ life' = [life EXCEPT ![h] = "running"]
  /\ UNCHANGED <<redis, bus, attempts, keys, handles, inbox, routed, taken, lost, blocked, counts>>

\* subscribe() raises or times out: the thread ends.
SubscribeFails(h) ==
  /\ life[h] = "subscribing"
  /\ life' = [life EXCEPT ![h] = "ended"]
  /\ UNCHANGED <<redis, bus, attempts, keys, handles, inbox, routed, taken, lost, blocked, counts>>

\* The rest of _load_new: the keys of the streams that the strategy has
\* handlers for by now, and the registration; after start() the keys are only
\* compared.
Register(h) ==
  /\ InProcess(h) /\ h \notin handles
  /\ handles' = handles \union {h}
  /\ keys' = (keys \/ (bus.pc = "down" /\ Running(h)))
  /\ UNCHANGED <<redis, bus, attempts, strategy, routed, lost, blocked, counts>>

\* The end of lives, and of what waits in them.
Over(hs) ==
  /\ life' = [h \in Handles |-> IF h \in hs THEN "over" ELSE life[h]]
  /\ queue' = [h \in Handles |-> IF h \in hs THEN <<>> ELSE queue[h]]
  /\ putters' = [h \in Handles |-> IF h \in hs THEN <<>> ELSE putters[h]]
  /\ ready' = [h \in Handles |-> IF h \in hs THEN <<>> ELSE ready[h]]
  /\ getter' = [h \in Handles |-> h \notin hs /\ getter[h]]

\* _unload, and a crash the watchdog finds: the thread has ended and the
\* handle is removed.  _stop_thread waits for the end, so no registration
\* can be in progress.
Stop(h) ==
  /\ h \in handles /\ life[h] \in {"subscribing", "running"}
  /\ life' = [life EXCEPT ![h] = "ended"]
  /\ UNCHANGED <<redis, bus, attempts, keys, handles, inbox, routed, taken, lost, blocked, counts>>

Deregister(h) ==
  /\ h \in handles /\ life[h] = "ended"
  /\ handles' = handles \ {h}
  /\ Over({h})
  /\ UNCHANGED <<redis, bus, attempts, keys, taken, routed, lost, blocked, counts>>
------------------------------------------------------------------------------
(* The loop of a strategy.                                                  *)

\* A faulty get_nowait that wakes no put.
TakeHeadOnly(h) ==
  /\ queue' = [queue EXCEPT ![h] = Tail(@)]
  /\ UNCHANGED <<putters, ready>>

\* Queue.get_nowait: the oldest entry leaves and the first put that waits is
\* woken, which is to say its task joins the ready list again.
TakeHead(h) ==
  /\ queue' = [queue EXCEPT ![h] = Tail(@)]
  /\ putters' = [putters EXCEPT ![h] = IF @ = <<>> THEN @ ELSE Tail(@)]
  /\ ready' = [ready EXCEPT ![h] = IF putters[h] = <<>> THEN @ ELSE Append(@, Put(Head(putters[h])))]

\* One pass of the event loop task: it has the loop until it finds the queue
\* empty, and only then do other tasks run.
Take(h) ==
  /\ Running(h) /\ ~getter[h] /\ Wake \notin ToSet(ready[h])
  /\ queue[h] # <<>>
  /\ taken' = [taken EXCEPT ![h] = Append(@, Head(queue[h]))]
  /\ TakeHead(h)
  /\ UNCHANGED <<redis, bus, attempts, keys, handles, life, getter, routed, lost, blocked, counts>>

Await(h) ==
  /\ Running(h) /\ ~getter[h] /\ Wake \notin ToSet(ready[h])
  /\ queue[h] = <<>>
  /\ getter' = [getter EXCEPT ![h] = TRUE]
  /\ UNCHANGED <<redis, bus, attempts, keys, handles, life, queue, putters, ready, routed, taken, lost, blocked, counts>>

\* The loop runs the first of its ready list.
LoopIsFree(h) == Running(h) /\ (getter[h] \/ Wake \in ToSet(ready[h]))

RunCall(h) ==
  /\ LoopIsFree(h) /\ ready[h] # <<>> /\ Head(ready[h]).task = "call"
  /\ ready' = [ready EXCEPT ![h] = Append(Tail(@), Put(Head(@).item))]
  /\ UNCHANGED <<redis, bus, attempts, keys, handles, life, queue, putters, getter, routed, taken, lost, blocked, counts>>

\* A faulty test for room, one too late.
HasRoomAtFull(h) == Len(queue[h]) <= MaxDepth

HasRoom(h) == Len(queue[h]) < MaxDepth

\* Queue.put: it waits when the queue is full, it puts and wakes the getter
\* otherwise; it asks only for room, not whether others wait for it.
RunPut(h) ==
  /\ LoopIsFree(h) /\ ready[h] # <<>> /\ Head(ready[h]).task = "put"
  /\ LET item == Head(ready[h]).item
     IN \/ /\ ~HasRoom(h)
           /\ putters' = [putters EXCEPT ![h] = Append(@, item)]
           /\ ready' = [ready EXCEPT ![h] = Tail(@)]
           /\ blocked' = [blocked EXCEPT ![h] = @ \union {item.event}]
           /\ UNCHANGED <<queue, getter>>
        \/ /\ HasRoom(h)
           /\ queue' = [queue EXCEPT ![h] = Append(@, item)]
           /\ ready' = [ready EXCEPT ![h] = Tail(@) \o IF getter[h] THEN <<Wake>> ELSE <<>>]
           /\ getter' = [getter EXCEPT ![h] = FALSE]
           /\ UNCHANGED <<putters, blocked>>
  /\ UNCHANGED <<redis, bus, attempts, keys, handles, life, routed, taken, lost, counts>>

RunConsumer(h) ==
  /\ LoopIsFree(h) /\ ready[h] # <<>> /\ Head(ready[h]) = Wake
  /\ ready' = [ready EXCEPT ![h] = Tail(@)]
  /\ UNCHANGED <<redis, bus, attempts, keys, handles, life, queue, putters, getter, routed, taken, lost, blocked, counts>>
------------------------------------------------------------------------------
(* The bus-manager thread.                                                  *)

\* start(), and the wait for the strategies to be ready, which ends at its
\* timeout at the latest; then the group, which a stream that has none gets
\* at the end of what it holds.
Start ==
  /\ bus.pc = "down" /\ \A h \in Handles : InProcess(h) => h \in handles
  /\ bus' = [bus EXCEPT !.pc = IF keys THEN "read" ELSE "idle"]
  /\ group' = (group \/ keys)
  /\ delivered' = IF keys /\ ~group THEN published ELSE delivered
  /\ UNCHANGED <<published, pel, attempts, keys, handles, strategy, routed, lost, blocked, counts>>

\* A faulty XREADGROUP from "0": the pending entries come first, again.
HandOutPending(n) ==
  /\ delivered' = IF pel = {} THEN delivered + n ELSE delivered + n - 1
  /\ pel' = pel \union (delivered + 1)..(delivered + n)
  /\ UNCHANGED <<published, group>>

\* XREADGROUP with ">": messages no consumer of the group has been given.
HandOut(n) ==
  /\ delivered' = delivered + n
  /\ pel' = pel \union (delivered + 1)..(delivered + n)
  /\ UNCHANGED <<published, group>>

\* A faulty batch, newest entry first.
NewestFirst(n) == [i \in 1..n |-> delivered + n + 1 - i]

\* The entries of a batch, in the stream's order.
Entries(n) == [i \in 1..n |-> delivered + i]

Read ==
  /\ bus.pc = "read"
  /\ backoff' = 1 /\ capHits' = 0
  /\ \E n \in 0..BatchMax :
       /\ delivered + n <= published
       /\ n = BatchMax \/ delivered + n = published
       /\ HandOut(n)
       /\ bus' = [bus EXCEPT !.pc = IF n = 0 THEN "read" ELSE "batch",
                             !.batch = Entries(n)]
  /\ UNCHANGED <<keys, handles, strategy, routed, lost, blocked, counts>>

\* The except clause of the loop: SIGTERM once the wait was at its cap
\* CapLimit times in a row, a wait otherwise.  What is left of the batch is
\* not routed.
Fail(bs) ==
  LET hits == IF backoff >= BackoffCap THEN capHits + 1 ELSE 0
  IN /\ capHits' = hits
     /\ bus' = [bs EXCEPT !.pc = IF hits >= CapLimit THEN "exit" ELSE "wait", !.batch = <<>>]

\* A call of XREADGROUP fails, before or after Redis hands messages out.
ReadFails ==
  /\ bus.pc = "read" /\ errors < MaxErrors
  /\ errors' = errors + 1
  /\ Fail(bus)
  /\ \E n \in 0..BatchMax :
       /\ delivered + n <= published
       /\ HandOut(n)
  /\ UNCHANGED <<backoff, keys, handles, strategy, routed, lost, blocked, crashes>>

Retry ==
  /\ bus.pc = "wait"
  /\ bus' = [bus EXCEPT !.pc = "read"]
  /\ backoff' = IF backoff * 2 < BackoffCap THEN backoff * 2 ELSE BackoffCap
  /\ UNCHANGED <<redis, capHits, keys, handles, strategy, routed, lost, blocked, counts>>

\* _route: the handles registered now get the event.
Route ==
  /\ bus.pc = "batch" /\ bus.batch # <<>>
  /\ routed' = routed \union {Head(bus.batch)}
  /\ bus' = [bus EXCEPT !.pc = "deliver", !.todo = handles]
  /\ UNCHANGED <<redis, attempts, keys, handles, strategy, lost, blocked, counts>>

\* parse_stream_entry returns None: the message is passed over.
RouteMalformed ==
  /\ bus.pc = "batch" /\ bus.batch # <<>> /\ errors < MaxErrors
  /\ errors' = errors + 1
  /\ routed' = routed \union {Head(bus.batch)}
  /\ bus' = [bus EXCEPT !.pc = "deliver"]
  /\ UNCHANGED <<redis, attempts, keys, handles, strategy, lost, blocked, crashes>>

\* A faulty treatment of such a message that acknowledges it.
UndecodableAcked ==
  /\ bus.pc = "batch" /\ bus.batch # <<>> /\ errors < MaxErrors
  /\ errors' = errors + 1
  /\ pel' = pel \ {Head(bus.batch)}
  /\ Fail(bus)
  /\ UNCHANGED <<published, group, delivered, backoff, keys, handles, strategy, routed, lost, blocked, crashes>>

\* The fields of the message are not UTF-8: decode() raises before _route.
Undecodable ==
  /\ bus.pc = "batch" /\ bus.batch # <<>> /\ errors < MaxErrors
  /\ errors' = errors + 1
  /\ Fail(bus)
  /\ UNCHANGED <<redis, backoff, keys, handles, strategy, routed, lost, blocked, crashes>>

BatchDone ==
  /\ bus.pc = "batch" /\ bus.batch = <<>>
  /\ bus' = [bus EXCEPT !.pc = "read"]
  /\ UNCHANGED <<redis, attempts, keys, handles, strategy, routed, lost, blocked, counts>>

\* _enqueue: run_coroutine_threadsafe(queue.put(item)), which schedules a call
\* also on a loop that has ended and will never run it.
Schedule(h, items) ==
  ready' = [ready EXCEPT ![h] = IF life[h] = "over" THEN @ ELSE @ \o [i \in DOMAIN items |-> Call(items[i])]]

\* _deliver of the message to a strategy whose queue has room, by qsize.
Deliver(h) ==
  /\ bus.pc = "deliver" /\ h \in bus.todo /\ HasRoom(h)
  /\ Schedule(h, <<Event(Head(bus.batch))>>)
  /\ bus' = [bus EXCEPT !.todo = @ \ {h}]
  /\ UNCHANGED <<redis, attempts, keys, handles, life, queue, putters, getter, routed, taken, lost, blocked, counts>>

\* The queue is full: twice the oldest entry is dropped, if there is one;
\* then the marker and the event are scheduled.
Overflow(h) ==
  /\ bus.pc = "deliver" /\ h \in bus.todo /\ ~HasRoom(h)
  /\ bus' = [bus EXCEPT !.pc = "drop", !.todo = @ \ {h}, !.for = h]
  /\ UNCHANGED <<redis, attempts, keys, handles, strategy, routed, lost, blocked, counts>>

Drop ==
  /\ bus.pc \in {"drop", "drop again"}
  /\ LET h == bus.for
         next == IF bus.pc = "drop" THEN "drop again" ELSE "mark"
     IN \/ /\ queue[h] # <<>>
           /\ lost' = [lost EXCEPT ![h] = @ \union ({Head(queue[h]).event} \ {0})]
           /\ bus' = [bus EXCEPT !.pc = next, !.drops = @ \union Head(queue[h]).drops
                                                          \union ({Head(queue[h]).event} \ {0})]
           /\ TakeHead(h)
        \/ /\ queue[h] = <<>>
           /\ bus' = [bus EXCEPT !.pc = next]
           /\ UNCHANGED <<queue, putters, ready, lost>>
  /\ UNCHANGED <<redis, attempts, keys, handles, life, getter, routed, taken, blocked, counts>>

\* A faulty end of an overflow that leaves the marker out.
MarkNothing ==
  /\ bus.pc = "mark"
  /\ Schedule(bus.for, <<Event(Head(bus.batch))>>)
  /\ bus' = [bus EXCEPT !.pc = "deliver", !.for = 0, !.drops = {}]
  /\ UNCHANGED <<redis, attempts, keys, handles, life, queue, putters, getter, routed, taken, lost, blocked, counts>>

Mark ==
  /\ bus.pc = "mark"
  /\ Schedule(bus.for, <<Marker(bus.drops), Event(Head(bus.batch))>>)
  /\ bus' = [bus EXCEPT !.pc = "deliver", !.for = 0, !.drops = {}]
  /\ UNCHANGED <<redis, attempts, keys, handles, life, queue, putters, getter, routed, taken, lost, blocked, counts>>

\* XACK, once _route is through.
Ack ==
  /\ bus.pc = "deliver" /\ bus.todo = {}
  /\ pel' = pel \ {Head(bus.batch)}
  /\ bus' = [bus EXCEPT !.pc = "batch", !.batch = Tail(@)]
  /\ UNCHANGED <<published, group, delivered, attempts, keys, handles, strategy, routed, lost, blocked, counts>>

AckFails ==
  /\ bus.pc = "deliver" /\ bus.todo = {} /\ errors < MaxErrors
  /\ errors' = errors + 1
  /\ pel' \in {pel, pel \ {Head(bus.batch)}}
  /\ Fail(bus)
  /\ UNCHANGED <<published, group, delivered, backoff, keys, handles, strategy, routed, lost, blocked, crashes>>

\* The process ends, by a SIGTERM of its own or otherwise, and is started
\* again by its container.
EndOfProcess ==
  /\ crashes < MaxCrashes
  /\ crashes' = crashes + 1
  /\ bus' = Idle /\ backoff' = 1 /\ capHits' = 0 /\ keys' = FALSE /\ handles' = {}
  /\ Over({h \in Handles : life[h] # "unborn"})
  /\ UNCHANGED <<redis, routed, taken, lost, blocked, errors>>
------------------------------------------------------------------------------
LoopStep(h) == Take(h) \/ Await(h) \/ RunCall(h) \/ RunPut(h) \/ RunConsumer(h)

BusStep == \/ Start \/ Read \/ Retry \/ Route \/ BatchDone \/ Drop \/ Mark \/ Ack
           \/ \E h \in Handles : Deliver(h) \/ Overflow(h)

Next == \/ Publish \/ ReadFails \/ RouteMalformed \/ Undecodable \/ AckFails \/ EndOfProcess \/ BusStep
        \/ \E h \in Handles :
             \/ Create(h) \/ Subscribed(h) \/ SubscribeFails(h) \/ Register(h)
             \/ Stop(h) \/ Deregister(h) \/ LoopStep(h)

Spec == Init /\ [][Next]_vars

FairSpec == Spec /\ WF_vars(BusStep) /\ \A h \in Handles : WF_vars(LoopStep(h))
------------------------------------------------------------------------------
Waiting(h) == EventsIn(Items(h))
Handled(h) == EventsIn(ToSet(taken[h]))
Told(h) == DropsIn(ToSet(taken[h]))

\* What the bus is about to announce to h.
Owed(h) == IF bus.for = h THEN bus.drops ELSE {}

QueueEntries == [event : Messages \union {0}, drops : SUBSET Messages]

TypeOK ==
  /\ published \in 0..MaxMsgs /\ group \in BOOLEAN /\ delivered \in 0..published
  /\ pel \subseteq 1..delivered
  /\ bus.pc \in {"down", "idle", "read", "batch", "deliver", "drop", "drop again", "mark", "wait", "exit"}
  /\ bus.batch \in Seq(Messages) /\ bus.todo \subseteq Handles
  /\ bus.for \in Handles \union {0} /\ bus.drops \subseteq Messages
  /\ backoff \in 1..BackoffCap /\ capHits \in 0..CapLimit /\ keys \in BOOLEAN
  /\ handles \subseteq Handles
  /\ life \in [Handles -> {"unborn", "subscribing", "running", "ended", "over"}]
  /\ \A h \in Handles :
       /\ queue[h] \in Seq(QueueEntries) /\ Len(queue[h]) <= MaxDepth
       /\ putters[h] \in Seq(QueueEntries) /\ taken[h] \in Seq(QueueEntries)
       /\ ready[h] \in Seq([task : {"call", "put", "consumer"}, item : QueueEntries])
  /\ getter \in [Handles -> BOOLEAN]
  /\ routed \subseteq Messages
  /\ {lost, blocked} \subseteq [Handles -> SUBSET (Messages \union {0})]

\* An event is dropped only into a marker that is on its way to the strategy
\* or has reached it, also when the marker of an earlier overflow is itself
\* among what an overflow drops (event_bus.py, _deliver and _drop_oldest).
LossIsAnnounced ==
  \A h \in Handles : InProcess(h) =>
    lost[h] \subseteq Told(h) \union DropsIn(Items(h)) \union Owed(h)

\* The bus implements the feed of MarkedFeed: no event is offered to a
\* strategy twice, across reads, failed acknowledgements and restarts, none
\* vanishes from its loop or queue unless it is counted as lost, and a marker
\* speaks of lost events only.
Feed == INSTANCE MarkedFeed WITH
          Events <- Messages, Feeds <- Handles,
          open <- {h \in Handles : life[h] # "over"},
          waiting <- [h \in Handles |-> Waiting(h)],
          handled <- [h \in Handles |-> Handled(h)],
          told <- [h \in Handles |-> Told(h)]
ImplementsFeed == Feed!Spec

\* Events overtake each other on their way into a queue only when the queue
\* was full for the one that falls behind.
OrderIsLostWhenFull ==
  \A h \in Handles : \A i, j \in DOMAIN taken[h] :
    (i < j /\ taken[h][j].event \in 1..(taken[h][i].event - 1)) => taken[h][j].event \in blocked[h]

\* The queues keep their types, announce what they lose and keep the order
\* while there is room (event_bus.py:289-352).
QueuesAreHonest == TypeOK /\ LossIsAnnounced /\ OrderIsLostWhenFull

\* An entry leaves the pending list only when it has been routed: what an
\* error in a batch leaves behind can be found there.
OnlyRoutedAreAcked == [][pel \ pel' \subseteq routed]_vars

\* What is on its way to a strategy that goes on running gets there, and of
\* what was dropped it is told, once nothing more is added to the stream (the
\* puts that wait for room are not forgotten; _enqueue, "no data is lost").
Unsettled(h) == Running(h) /\ Waiting(h) \union (lost[h] \ Told(h)) # {}
FeedSettles == \A h \in Handles : Unsettled(h) ~> ~Unsettled(h)
==============================================================================
