--------------------------- MODULE TransferContract ---------------------------
(***************************************************************************)
(* What a device's owners rely on when devices change hands: a device moves *)
(* only to the recipient of an offer somebody accepted for it while the     *)
(* offer was open, and an offer that has closed never opens again.          *)
(***************************************************************************)
CONSTANTS Owners, Devices, Offers, None

VARIABLES
  owner,  \* of each device
  phase,  \* of each offer: "none", "open", "closed"
  to,     \* recipient of each offer, None before it is made
  taken   \* pairs <<offer, device>>: acceptances

Init ==
  /\ owner \in [Devices -> Owners]
  /\ phase = [t \in Offers |-> "none"]
  /\ to = [t \in Offers |-> None]
  /\ taken = {}

Offer(t, o) ==
  /\ phase[t] = "none"
  /\ phase' = [phase EXCEPT ![t] = "open"]
  /\ to' = [to EXCEPT ![t] = o]
  /\ UNCHANGED <<owner, taken>>

Take(t, D) ==
  /\ phase[t] = "open"
  /\ taken' = taken \cup {<<t, d>> : d \in D}
  /\ UNCHANGED <<owner, phase, to>>

(* Offers end: accepted, declined, expired, or lost when the process dies.  *)
Close(T) ==
  /\ \A t \in T : phase[t] = "open"
  /\ phase' = [t \in Offers |-> IF t \in T THEN "closed" ELSE phase[t]]
  /\ UNCHANGED <<owner, to, taken>>

(* Late: the offer may have closed since it was taken. *)
Move(t, d) ==
  /\ <<t, d>> \in taken
  /\ owner' = [owner EXCEPT ![d] = to[t]]
  /\ UNCHANGED <<phase, to, taken>>

Next ==
  \/ \E t \in Offers, o \in Owners : Offer(t, o)
  \/ \E t \in Offers, D \in SUBSET Devices : Take(t, D)
  \/ \E T \in SUBSET Offers : Close(T)
  \/ \E t \in Offers, d \in Devices : Move(t, d)

Spec == Init /\ [][Next]_<<owner, phase, to, taken>>
=============================================================================
