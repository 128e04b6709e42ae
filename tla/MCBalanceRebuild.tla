-------------------------- MODULE MCBalanceRebuild --------------------------
(* Small instances of BalanceRebuild: what is received, and what is sent.    *)
EXTENDS BalanceRebuild

MCAmounts == {2, -1}
=============================================================================
