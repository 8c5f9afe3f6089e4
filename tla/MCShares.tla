------------------------------ MODULE MCShares ------------------------------
(* Shares for TLC, with lengths scaled down.                               *)
EXTENDS Shares

BundleValue == {[v |-> 1, files |-> "a"], [v |-> 1, files |-> "b"]}

\* As another release of a client may write.
LaterBundleValue == {[v |-> 2, files |-> "a"]}
=============================================================================
