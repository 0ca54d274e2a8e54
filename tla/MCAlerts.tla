------------------------------ MODULE MCAlerts ------------------------------
(***************************************************************************)
(* Alerts for TLC.                                                          *)
(***************************************************************************)
EXTENDS Alerts, TLC

\* Slots are interchangeable, and so are channels: for runs without fairness only.
Symmetric == Permutations(Workers) \cup Permutations(Channels)
=============================================================================
