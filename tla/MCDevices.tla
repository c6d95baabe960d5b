------------------------------ MODULE MCDevices ------------------------------
(* Two owners; devices that are known and one that is new, all of one MAC.  *)
EXTENDS Devices

CONSTANTS o1, o2, mac, src, mesh

TheOwners == {o1, o2}
TheUdids == {1, 2, 3}
Plain(o) == [owner |-> o, mac |-> mac, source |-> None, meshes |-> {},
             version |-> 1, jobs |-> "none"]
TheKnown ==
  {[u \in TheUdids |-> IF u = 3 THEN None ELSE Plain(IF u = 1 THEN o1 ELSE o2)],
   [u \in TheUdids |-> IF u # 1 THEN None
                     ELSE [Plain(o1) EXCEPT !.meshes = {mesh}, !.source = src]],
   [u \in TheUdids |-> IF u = 1 THEN [Plain(o1) EXCEPT !.jobs = "some"] ELSE None]}

Reg(u, o, a, g) == [op |-> "register", udid |-> u, mac |-> mac, owner |-> o,
                    version |-> 2, ack |-> a, goal |-> g]
TheRequests ==
  {Reg(1, o1, TRUE, FALSE), Reg(1, o1, FALSE, TRUE),
   Reg(3, o1, FALSE, FALSE), Reg(3, o2, TRUE, FALSE), Reg(1, o2, FALSE, FALSE),
   [op |-> "edit", udid |-> 1, field |-> "owner", value |-> o2],
   [op |-> "edit", udid |-> 1, field |-> "jobs", value |-> "null"],
   [op |-> "push", udid |-> 1], [op |-> "detach", udid |-> 1],
   [op |-> "attach", udid |-> 1, source |-> src],
   [op |-> "drop", source |-> src, owner |-> o1],
   [op |-> "mesh", udid |-> 1, mesh |-> mesh, owner |-> o1],
   [op |-> "unmesh", udid |-> 1, mesh |-> mesh, owner |-> o1],
   [op |-> "revoke", udids |-> {1, 2, 3}, owner |-> o1],
   [op |-> "run", udid |-> 1, owner |-> o1]}
TheMore == {[op |-> "revoke", udids |-> {1, 2, 3}, owner |-> o1]}
=============================================================================
