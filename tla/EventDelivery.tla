--------------------------- MODULE EventDelivery ---------------------------
(***************************************************************************)
(* What the outbox promises to producers and consumers, without claims,    *)
(* leases, attempts or processes: a committed event is handled at most once*)
(* by each of its subscribers, is published only after all of them have    *)
(* answered, and ends either published or dead-lettered.                   *)
(***************************************************************************)
EXTENDS Naturals

CONSTANTS
  Events,
  Consumers,
  Subscribers    \* [Events -> SUBSET Consumers]

VARIABLES
  state,     \* absent, open, published or dead_letter, per event
  handled,   \* the <<consumer, event>> pairs that were answered
  effects    \* how often a consumer's side effects took place

dvars == <<state, handled, effects>>

DInit == /\ state = [e \in Events |-> "absent"]
         /\ handled = {}
         /\ effects = [key \in Consumers \X Events |-> 0]

\* The producer's transaction commits.
Commit(e) == /\ state[e] = "absent"
             /\ state' = [state EXCEPT ![e] = "open"]
             /\ UNCHANGED <<handled, effects>>

\* A subscriber answers, with side effects or without. A delivery that was
\* already under way may still take effect after the event was given up.
Answer(c, e) ==
  /\ state[e] \in {"open", "dead_letter"}
  /\ c \in Subscribers[e] /\ <<c, e>> \notin handled
  /\ handled' = handled \cup {<<c, e>>}
  /\ \/ effects' = [effects EXCEPT ![<<c, e>>] = @ + 1]
     \/ UNCHANGED effects
  /\ UNCHANGED state

Publish(e) == /\ state[e] = "open"
              /\ \A c \in Subscribers[e] : <<c, e>> \in handled
              /\ state' = [state EXCEPT ![e] = "published"]
              /\ UNCHANGED <<handled, effects>>

GiveUp(e) == /\ state[e] = "open"
             /\ state' = [state EXCEPT ![e] = "dead_letter"]
             /\ UNCHANGED <<handled, effects>>

DNext == \E e \in Events : \/ Commit(e) \/ Publish(e) \/ GiveUp(e)
                           \/ \E c \in Consumers : Answer(c, e)

DSpec == DInit /\ [][DNext]_dvars
=============================================================================
