------------------------------ MODULE MCMpris -------------------------------
(* Instances of MprisMonitor for TLC.                                      *)
EXTENDS MprisProperties, TLC

BusSymmetry == Permutations(Names) \cup Permutations(Players)
=============================================================================
