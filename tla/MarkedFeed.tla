------------------------------ MODULE MarkedFeed ------------------------------
(***************************************************************************)
(* What the bus promises the strategies it feeds: an event is offered to a *)
(* strategy once at most, and then it is handled once or it is lost; what  *)
(* is lost is announced to the strategy by a gap marker, and only what is  *)
(* lost is.  What waits when a strategy's life ends goes with it.  No      *)
(* order is promised.                                                      *)
(***************************************************************************)
EXTENDS Naturals

CONSTANTS
  Events,         (* what a stream may carry                                  *)
  Feeds           (* the queues of the strategies                             *)

VARIABLES
  open,           \* the lives that are not over
  waiting,        \* on their way to the strategy
  handled,        \* given to the strategy's handlers
  lost,           \* dropped on the way
  told            \* lost, and the strategy has seen the marker that says so

feed == <<open, waiting, handled, lost, told>>

Nothing == [f \in Feeds |-> {}]

Init == open = Feeds /\ waiting = Nothing /\ handled = Nothing /\ lost = Nothing /\ told = Nothing

Offer(f, e) ==
  /\ f \in open /\ e \notin waiting[f] \union handled[f] \union lost[f]
  /\ waiting' = [waiting EXCEPT ![f] = @ \union {e}]
  /\ UNCHANGED <<open, handled, lost, told>>

Handle(f, e) ==
  /\ f \in open /\ e \in waiting[f]
  /\ waiting' = [waiting EXCEPT ![f] = @ \ {e}]
  /\ handled' = [handled EXCEPT ![f] = @ \union {e}]
  /\ UNCHANGED <<open, lost, told>>

Lose(f, e) ==
  /\ f \in open /\ e \in waiting[f]
  /\ waiting' = [waiting EXCEPT ![f] = @ \ {e}]
  /\ lost' = [lost EXCEPT ![f] = @ \union {e}]
  /\ UNCHANGED <<open, handled, told>>

Tell(f, es) ==
  /\ es \subseteq lost[f]
  /\ told' = [told EXCEPT ![f] = @ \union es]
  /\ UNCHANGED <<open, waiting, handled, lost>>

Close(fs) ==
  /\ open' = open \ fs
  /\ waiting' = [f \in Feeds |-> IF f \in fs THEN {} ELSE waiting[f]]
  /\ UNCHANGED <<handled, lost, told>>

\* (A step that leaves everything as it is need not be looked at.)
Next == /\ feed' # feed
        /\ \/ Close(open \ open')
           \/ \E f \in Feeds :
                \/ \E e \in Events : Offer(f, e) \/ Handle(f, e) \/ Lose(f, e)
                \/ told'[f] # told[f] /\ \E es \in SUBSET Events : Tell(f, es)

Spec == Init /\ [][Next]_feed
==============================================================================
