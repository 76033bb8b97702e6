-------------------------- MODULE MCSocialPublisher --------------------------
(* SocialPublisher for TLC: the runs are interchangeable.                    *)
EXTENDS SocialPublisher, TLC

RunSymmetry == Permutations(Runs)
=============================================================================
