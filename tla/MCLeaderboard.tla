---------------------------- MODULE MCLeaderboard ----------------------------
(* Small instances of Leaderboard.  No user is told from another but by what *)
(* he holds, so that permuting the users changes nothing that is checked.    *)
EXTENDS Leaderboard, TLC

Symmetry == Permutations(Users)
=============================================================================
