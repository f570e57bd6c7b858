---------------------------------- MODULE Dash ----------------------------------
(***************************************************************************)
(* The browser, its user and what Dash does there, as far as the callbacks of *)
(* the dashboard depend on it (external; requirements.txt pins dash 4.1.0). *)
(*                                                                         *)
(* The page is a function from the properties of its components to their    *)
(* values.  A callback is called when one of its Inputs is written, by the  *)
(* user, a timer or an answer.  The call reads its Inputs and States when   *)
(* it is sent, which waits for the calls whose answers will write one of    *)
(* the Inputs (an Output declared allow_duplicate keeps nobody waiting).    *)
(* A new call replaces an unanswered one of the same callback, so the       *)
(* answer of the older is never applied.  An answer writes its Outputs in   *)
(* one step and calls what depends on them, except the callbacks the chain  *)
(* of calls has been through.  Nothing orders the answers of different      *)
(* callbacks, nor two callbacks that write the same property.               *)
(***************************************************************************)
EXTENDS Integers, FiniteSets

CONSTANTS
  Graph,  (* callback -> its Inputs, States, Outputs, the Outputs it        *)
          (* declares allow_duplicate, and whether it is called when its    *)
          (* page is shown                                                  *)
  None,   (* no value                                                      *)
  MaxInputs (* bound: what the user does before and on each page           *)

VARIABLES
  props,  \* property -> value, for the components shown
  calls,  \* callback -> its call, for the callbacks called and not answered
  inputs  \* what the user has done so far

browser == <<props, calls, inputs>>

\* The function new, and old where new has no value (@@ of module TLC, which
\* the provers do not know).
new ++ old ==
  [x \in DOMAIN new \union DOMAIN old |-> IF x \in DOMAIN new THEN new[x] ELSE old[x]]

Callback(ins, states, outs, more, first) ==
  [ins |-> ins, states |-> states, outs |-> outs, more |-> more, first |-> first]

Outputs(c) == Graph[c].outs \union Graph[c].more

Parts == [c \in DOMAIN Graph |-> Graph[c].ins \union Outputs(c)]
Reads == [c \in DOMAIN Graph |-> Graph[c].ins \union Graph[c].states]

\* The callbacks whose answers another waits for.
Feeders == [c \in DOMAIN Graph |->
              {d \in DOMAIN Graph \ {c} : Graph[d].outs \intersect Graph[c].ins # {}}]

\* The callback's components are on the page p.
IsOn(c, p) == Parts[c] \subseteq DOMAIN p

\* What a call has read before it is sent.
Nothing == <<>>

\* The calls cs once those that need not wait are sent from the page p.
Sent(cs, p) ==
  [c \in DOMAIN cs |->
     IF cs[c].with = Nothing /\ Feeders[c] \intersect DOMAIN cs = {}
     THEN [cs[c] EXCEPT !.with = [x \in Reads[c] |-> p[x]]]
     ELSE cs[c]]

NewCall(chain) == [chain |-> chain, with |-> Nothing, answer |-> None]

\* The callbacks of each Input.
Readers == [x \in UNION {Graph[c].ins : c \in DOMAIN Graph} |->
              {c \in DOMAIN Graph : x \in Graph[c].ins}]

\* The calls cs once the properties of new are written on the page p.
Called(cs, p, new, chain) ==
  LET read == UNION {Readers[x] : x \in new \intersect DOMAIN Readers}
  IN [c \in {c \in read \ chain : IsOn(c, p)} |-> NewCall(chain)] ++ cs

Written(cs, new, chain) ==
  LET p == new ++ props
  IN /\ props' = p
     /\ calls' = Sent(Called(cs, p, DOMAIN new, chain), p)

Pending(c) == c \in DOMAIN calls

\* The calls of cs that are of the callbacks K.
Only(cs, K) == [c \in DOMAIN cs \intersect K |-> cs[c]]

Others(c) == Only(calls, DOMAIN Graph \ {c})

\* A timer writes the properties of new ...
Input(new) == Written(calls, new, {})

\* ... or the user.
UserInput(new) == inputs < MaxInputs[props.url.page] /\ inputs' = inputs + 1 /\ Input(new)

Served(c) == Pending(c) /\ calls[c].with # Nothing

\* A handler gives the answers it can give to a call made with some values,
\* each a function of the Outputs it updates (the others are no_update).
NoUpdate == <<>>

Serve(c, Handler(_)) ==
  /\ Served(c) /\ calls[c].answer = None
  /\ \E answer \in Handler(calls[c].with) : calls' = [calls EXCEPT ![c].answer = answer]
  /\ UNCHANGED <<props, inputs>>

Apply(c) ==
  /\ Pending(c) /\ calls[c].answer # None
  /\ Written(Others(c), calls[c].answer, calls[c].chain \union {c})
  /\ UNCHANGED inputs

\* A handler that asks nobody answers in the step its answer is applied.
Reply(c, Handler(_)) ==
  /\ Served(c)
  /\ Written(Others(c), Handler(calls[c].with), calls[c].chain \union {c})
  /\ UNCHANGED inputs

\* The calls that will write the property x.
Writers(x) == {c \in DOMAIN calls : x \in Outputs(c)}

\* The answer to c puts a page of the properties of layout in the place of
\* those that kept does not name.
Mount(c, layout, kept) ==
  LET p == layout ++ [x \in kept |-> props[x]]
      fresh == {d \in DOMAIN Graph : /\ IsOn(d, p) /\ Graph[d].first
                                     /\ Outputs(d) \intersect DOMAIN layout # {}}
      cs == [d \in fresh |-> NewCall({})]
              ++ Only(calls, {d \in DOMAIN Graph \ {c} : IsOn(d, p)})
  IN /\ Served(c)
     /\ props' = p
     /\ calls' = Sent(cs, p)
     /\ UNCHANGED inputs

Shows(layout) == DOMAIN layout \subseteq DOMAIN props

Quiet == DOMAIN calls = {}
==================================================================================
