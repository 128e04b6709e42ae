------------------------- MODULE MCPointsCalculator -------------------------
(* The calculator with balances below 0 (a burn is deducted twice), and too  *)
(* small for a moment, or for a minute, to earn points.                      *)
EXTENDS PointsCalculator

MCBalances == {-1, 1, 3}
=============================================================================
