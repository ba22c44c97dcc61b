--------------------------- MODULE MCEnrollLimits ---------------------------
(***************************************************************************)
(* Instances of EnrollLimits for TLC.                                      *)
(***************************************************************************)
EXTENDS EnrollLimits, TLC

CONSTANTS c1, c2, a1, a2, proxy

\* One harness that comes through the tunnel and one that comes through the
\* gateway, by the same proxy.
Homes == c1 :> a1 @@ c2 :> a2

Arriving ==
  c1 :> [cf_connecting_ip |-> a1, x_forwarded_for |-> <<a2, proxy>>] @@
  c2 :> [cf_connecting_ip |-> Null, x_forwarded_for |-> <<a2, proxy>>]

AnyFlow == Permutations(Flows)
=============================================================================
