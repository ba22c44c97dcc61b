----------------------------- MODULE MCListing -----------------------------
(***************************************************************************)
(* Instances of Listing for TLC.                                           *)
(***************************************************************************)
EXTENDS Listing, TLC

\* A browse that gives no parameter, the newest one by one, and two searches
\* with a limit below and above what there is.
Queries ==
  {[tag |-> FALSE, official |-> Null, sort |-> "installs", limit |-> Null],
   [tag |-> FALSE, official |-> FALSE, sort |-> "recent", limit |-> 1],
   [tag |-> TRUE, official |-> Null, sort |-> "installs", limit |-> 0],
   [tag |-> TRUE, official |-> Null, sort |-> "recent", limit |-> 4]}

\* Nothing tells entries apart but what is in them, nor transactions.
Alike == Permutations(Slugs) \cup Permutations(Writers)
=============================================================================
