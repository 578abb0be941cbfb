------------------------------- MODULE Delivery -------------------------------
(***************************************************************************)
(* What an event bus promises its publishers and its consumer              *)
(* (events/interface.go), whichever implementation the configuration       *)
(* chooses: events wait in lanes, each of them in the order in which it    *)
(* took them, an event is accepted only when it is in a lane, the consumer *)
(* gets the first of a lane, and a lane may put events that were delivered *)
(* already before the others again.  After a fault nothing is promised but *)
(* that the past is not undone.                                            *)
(***************************************************************************)
EXTENDS Naturals, Sequences

CONSTANTS Events, Lanes

VARIABLES lane,        \* lane[k]: what waits in lane k, the next one first
          accepted,    \* events whose publisher was told so
          delivered,   \* events the consumer got
          sound        \* no fault so far

vars == <<lane, accepted, delivered, sound>>

Init ==
    /\ lane = [k \in Lanes |-> <<>>]
    /\ accepted = {} /\ delivered = {}
    /\ sound = TRUE

\* A publisher's event is put at the end of a lane.
Accept(k, e) ==
    /\ sound' = sound /\ delivered' = delivered
    /\ lane' = [lane EXCEPT ![k] = Append(@, e)]
    /\ accepted' = accepted \cup {e}

\* The consumer takes the first event of a lane.
Deliver(k) ==
    /\ sound' = sound /\ accepted' = accepted
    /\ lane[k] # <<>>
    /\ lane' = [lane EXCEPT ![k] = Tail(@)]
    /\ delivered' = delivered \cup {Head(lane[k])}

\* new is old with events of the past in front of it.
Again(old, new, past) ==
    \E n \in 0 .. Len(new) :
        /\ Len(new) = Len(old) + n
        /\ \A i \in 1 .. Len(old) : new[n + i] = old[i]
        /\ \A i \in 1 .. n : new[i] \in past

\* The consumer is given events again, publishers may begin again.
Repeat ==
    /\ sound' = sound /\ delivered' = delivered
    /\ \A k \in Lanes : Again(lane[k], lane'[k], delivered)
    /\ accepted' \subseteq accepted

Fault ==
    /\ ~sound'
    /\ delivered \subseteq delivered'

Next ==
    \/ \E k \in Lanes : Deliver(k) \/ \E e \in Events : Accept(k, e)
    \/ Repeat
    \/ Fault

Spec == Init /\ [][Next]_vars
=============================================================================
