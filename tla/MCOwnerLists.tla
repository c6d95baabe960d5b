----------------------------- MODULE MCOwnerLists -----------------------------
(* OwnerLists on small instances. *)
EXTENDS OwnerLists, TLC

CONSTANTS short, long   \* names; the text of `long' contains that of `short'

TwoNames == {short, long}
LongContainsShort == {<<short, short>>, <<long, long>>, <<long, short>>}

Symmetry == Permutations(Requests)
=============================================================================
