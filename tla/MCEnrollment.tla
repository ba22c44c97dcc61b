---------------------------- MODULE MCEnrollment ----------------------------
(***************************************************************************)
(* Instances of Enrollment for TLC.                                        *)
(***************************************************************************)
EXTENDS Enrollment, TLC

CONSTANTS a1, a2, l1, l2

\* One account, and two.
Alone == a1 :> l1
Two == a1 :> l1 @@ a2 :> l2

\* Nothing tells sign-ins apart, nor the polls of one.
Alike == Permutations(Codes) \cup Permutations(Tries)
=============================================================================
