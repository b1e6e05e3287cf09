------------------------------ MODULE MCSystem ------------------------------
(* Instance of System for TLC. *)
EXTENDS SystemProperties

CONSTANTS c1, c2

\* The agent with a monitor and a daemon that keeps up, and one without where
\* either socket may be full.
McWorlds == {[full |-> {}, monitor |-> TRUE],
             [full |-> {"up", "down"}, monitor |-> FALSE]}

\* A profile that dims and then suspends.
McSettings == {[dim |-> 1, sleep |-> 2]}
=============================================================================
