------------------------------ MODULE MCAccounts ------------------------------
(* Two owners; at first the first has an account, or both have.             *)
EXTENDS Accounts

CONSTANTS o1, o2, n1, n2, mesh

TheOwners == {o1, o2}
Plain(n) ==
  [name |-> n, password |-> 0, reset |-> 0, activation |-> None,
   repos |-> [s \in Ids |-> IF s = 0 THEN 0 ELSE None],
   meshes |-> {}, consent |-> FALSE, deleted |-> FALSE]
TheKnown ==
  {[doc |-> [o \in TheOwners |-> IF o = o1 THEN Plain(n1) ELSE None],
    keys |-> [o \in TheOwners |-> IF o = o1 THEN {"default", "other"} ELSE {}]],
   [doc |-> [o \in TheOwners |-> IF o = o1 THEN Plain(n1) ELSE None],
    keys |-> [o \in TheOwners |-> IF o = o1 THEN {"other"} ELSE {}]]}

New(op, o, n) == [op |-> op, owner |-> o, name |-> n]
Github(o, n, code) == [op |-> "github", owner |-> o, name |-> n, code |-> code]
Of(op) == [op |-> op, owner |-> o1]
TheRequests ==
  {New("create", o1, n2), New("create", o2, n2), New("create", o2, n1),
   New("google", o1, n1), New("google", o2, n2), Github(o1, n1, TRUE),
   Github(o2, n2, TRUE), Github(o2, n2, FALSE), New("token", o1, n1), New("token", o2, n2),
   Of("forgot"), Of("delete"), Of("revoke"),
   [op |-> "set", via |-> "reset", key |-> 0], [op |-> "set", via |-> "reset", key |-> 1],
   [op |-> "set", via |-> "activation", key |-> 1],
   [op |-> "update", owner |-> o1, value |-> TRUE],
   [op |-> "add", owner |-> o1, known |-> TRUE], [op |-> "add", owner |-> o1, known |-> FALSE],
   [op |-> "remove", owner |-> o1, id |-> 0], [op |-> "tag", owner |-> o1, id |-> 0],
   [op |-> "mesh", owner |-> o1, mesh |-> mesh], [op |-> "unmesh", owner |-> o1, mesh |-> mesh],
   [op |-> "login", name |-> n1, password |-> 0]}
TheMore == {[op |-> "set", via |-> "reset", key |-> 1]}
=============================================================================
