---------------------------- MODULE MCHistorySync ----------------------------
(* Small instances of HistorySync.                                           *)
EXTENDS HistorySync

(* What requests ask for: a block of the chain, and a number that is none.   *)
Resets == {-1, 1}
=============================================================================
