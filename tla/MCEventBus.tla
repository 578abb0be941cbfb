------------------------------ MODULE MCEventBus ------------------------------
(***************************************************************************)
(* Values for TLC: two webhook requests and two messages of the external   *)
(* topic.                                                                  *)
(***************************************************************************)
EXTENDS EventBus

CONSTANTS w1, w2, f1, f2

MCFeed  == <<f1, f2>>
OneFeed == <<f1>>
NoFeed  == <<>>

\* A channel that two events fill in order, and a fallback that one fills.
MCConfigs == {[mode |-> "channel", capacity |-> 2], [mode |-> "channel", capacity |-> 1],
              [mode |-> "kafka", capacity |-> 1]}
=============================================================================
