---------------------------- MODULE StatementLog ----------------------------
(***************************************************************************)
(* What statement-level migration tracking promises, whatever the number   *)
(* of deploys that run, race, fail or crash: a script of N statements is   *)
(* applied in order, one statement only after all the earlier ones were    *)
(* recorded, and a statement is recorded only after it was applied.        *)
(* Nothing is ever un-applied or un-recorded.                              *)
(***************************************************************************)
EXTENDS Integers

CONSTANTS
  N,         \* the number of statements of the script, a natural number
  NoOps      \* those of 1..N that have nothing to apply (empty chunks)

VARIABLES
  applied,   \* the statements whose effect is in the database
  recorded   \* the statements in the tracking table

logVars == <<applied, recorded>>

LogInit ==
  /\ applied = NoOps
  /\ recorded = {}

EarlierRecorded(p) == \A q \in 1..(p - 1) : q \in recorded

Apply(p) ==
  /\ EarlierRecorded(p)
  /\ applied' = applied \cup {p}
  /\ UNCHANGED recorded

Record(p) ==
  /\ EarlierRecorded(p)
  /\ p \in applied
  /\ recorded' = recorded \cup {p}
  /\ UNCHANGED applied

LogNext == \E p \in 1..N : Apply(p) \/ Record(p)

LogSpec == LogInit /\ [][LogNext]_logVars
=============================================================================
