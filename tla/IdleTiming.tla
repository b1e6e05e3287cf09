----------------------------- MODULE IdleTiming -----------------------------
(***************************************************************************)
(* Time as both idle monitors of the agent see it: relative, in ticks far  *)
(* longer than a handler, so that a behaviour never runs out of clock.     *)
(***************************************************************************)
EXTENDS Integers

CONSTANTS
  Timeouts,     \* values of dim_timeout and sleep_timeout, 0 = never
  MaxElapsed,   \* bound: times saturate here, above all timeouts
  MaxChanges    \* bound: CONFIG messages after the first one

ASSUME IdleAssumption ==
  /\ Timeouts \subseteq Nat
  /\ MaxElapsed \in Nat
  /\ \A t \in Timeouts : t < MaxElapsed
  /\ MaxChanges \in Nat

Saturate(t) == IF t < MaxElapsed THEN t + 1 ELSE t
=============================================================================
