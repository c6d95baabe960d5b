---------------------------- MODULE BuildRequests ----------------------------
(***************************************************************************)
(* What a user may expect of POST /api/build while the server stays up: a   *)
(* request is either started at once or queued; a queued request is started *)
(* or dropped; a started one ends.  Nothing is ever started twice, and what *)
(* was dropped or has ended stays so.                                       *)
(***************************************************************************)
CONSTANT Requests
VARIABLE phase

Phases == {"new", "waiting", "building", "gone"}

Init == phase = [r \in Requests |-> "new"]

Move(r, from, to) ==
  /\ phase[r] = from
  /\ phase' = [phase EXCEPT ![r] = to]

Queue(r)  == Move(r, "new", "waiting")
Start(r)  == Move(r, "new", "building")
Launch(r) == Move(r, "waiting", "building")
Drop(r)   == Move(r, "waiting", "gone")
Finish(r) == Move(r, "building", "gone")

Next == \E r \in Requests :
          Queue(r) \/ Start(r) \/ Launch(r) \/ Drop(r) \/ Finish(r)

Spec == Init /\ [][Next]_phase
=============================================================================
