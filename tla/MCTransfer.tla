------------------------------ MODULE MCTransfer ------------------------------
(* Transfer on a small instance: two owners, two devices. *)
EXTENDS Transfer, TLC

CONSTANTS o1, o2, d1, d2, t1, t2

From(o, r, l) == [from |-> o, to |-> r, udids |-> l]

SmallBodies ==
  t1 :> {From(o1, o2, <<d1>>), From(o1, o2, <<>>)} @@
  t2 :> {From(o2, o1, <<d1, d2>>)}

EachHasOne == d1 :> o1 @@ d2 :> o2

SmallPicks == {All, Some({d1}), Text({0})}
=============================================================================
