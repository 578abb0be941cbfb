---------------------------- MODULE MCHttpClient ----------------------------
(***************************************************************************)
(* Values for TLC: two goroutines, an attempt may take one tick, tokens    *)
(* live three ticks and are renewed one tick early.                        *)
(***************************************************************************)
EXTENDS HttpClient

CONSTANTS c1, c2
=============================================================================
