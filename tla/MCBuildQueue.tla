----------------------------- MODULE MCBuildQueue -----------------------------
(* BuildQueue on small instances; the configurations give the constants. *)
EXTENDS BuildQueue, TLC

(* Slots are interchangeable records; so are the requests, which are drawn  *)
(* at random, and the devices.  Used where only safety is checked.          *)
Symmetry == Permutations(Slots) \cup Permutations(Requests)
              \cup Permutations(Udids) \cup Permutations(Sockets)
=============================================================================
