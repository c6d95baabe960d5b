----------------------------- MODULE MCRemoteBuild -----------------------------
(* RemoteBuild on a small instance; the configuration gives the constants. *)
EXTENDS RemoteBuild, TLC

(* Builds, sockets and devices are interchangeable. *)
Symmetry == Permutations(Builds) \cup Permutations(Sockets)
              \cup Permutations(Udids)
=============================================================================
