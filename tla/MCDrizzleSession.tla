-------------------------- MODULE MCDrizzleSession --------------------------
(***************************************************************************)
(* A callback for TLC that makes a call; the other ones are flat.          *)
(***************************************************************************)
EXTENDS DrizzleSession, TLC

CONSTANTS k1, k2

OneNests == [k \in Calls |-> IF k = k1 THEN k2 ELSE None]
=============================================================================
