-------------------------- MODULE MC_TrackedState --------------------------
(* Small instances of TrackedState: the sets the runs of its configurations *)
(* choose from.                                                             *)
EXTENDS TrackedState

OneLevel == {100}
TwoLevels == {50, 100}
OneRate == {64}
TwoRates == {32, 64}
NoSteps == {}
Steps == {-1, 2}
=============================================================================
