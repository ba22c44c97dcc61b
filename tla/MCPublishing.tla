---------------------------- MODULE MCPublishing ----------------------------
(***************************************************************************)
(* Instances of Publishing for TLC.                                        *)
(***************************************************************************)
EXTENDS Publishing, TLC

CONSTANTS p1, p2, s1, s2

\* One workflow is there from the start and one slug is free.
OneTaken == s1 :> p1

\* Nothing is there.
Empty == [s \in {} |-> p1]

\* Seed tells the slugs and the publishers apart; nothing tells requests apart.
AnyRequest == Permutations(Requests)
=============================================================================
