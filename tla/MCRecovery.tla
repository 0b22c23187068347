----------------------------- MODULE MCRecovery -----------------------------
(* Recovery on small instances. *)
EXTENDS Recovery, TLC

CONSTANTS p1, p2

\* a command may get the process id of an earlier one, or another
TwoIds == {p1, p2}

\* one-off containers number their processes alike
OneId == {p1}

\* process ids only name directories
IdSymmetry == Permutations(TwoIds)
=============================================================================
