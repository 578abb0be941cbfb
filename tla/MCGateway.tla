------------------------------ MODULE MCGateway ------------------------------
(***************************************************************************)
(* Values for TLC: three requests are enough for a stale request and two   *)
(* probes to be inside together.                                           *)
(***************************************************************************)
EXTENDS Gateway

CONSTANTS r1, r2, r3
=============================================================================
