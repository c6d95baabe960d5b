---------------------------- MODULE BuilderContract ----------------------------
(***************************************************************************)
(* What the callers of builder.build rely on (the queue's runNext and POST  *)
(* /api/build): a call is answered at most once, it may stay unanswered, a  *)
(* job goes out only in the step that answers "started", and once.          *)
(***************************************************************************)
CONSTANT Builds
VARIABLES phase, answer, sent

Phases  == {"new", "asked", "over"}
Answers == {"none", "refused", "started"}

Init ==
  /\ phase = [b \in Builds |-> "new"]
  /\ answer = [b \in Builds |-> "none"]
  /\ sent = {}

Ask(b) ==
  /\ phase[b] = "new"
  /\ phase' = [phase EXCEPT ![b] = "asked"]
  /\ UNCHANGED <<answer, sent>>

(* The call ends, and a is its only answer. *)
Answer(b, a) ==
  /\ phase[b] = "asked" /\ answer[b] = "none"
  /\ phase' = [phase EXCEPT ![b] = "over"]
  /\ answer' = [answer EXCEPT ![b] = a]

Refuse(b) == Answer(b, "refused") /\ sent' = sent
Start(b)  == Answer(b, "started") /\ sent' \in {sent, sent \cup {b}}

(* Calls end without an answer: one on a path that has none, or all of them  *)
(* when the process exits.                                                  *)
Abandon ==
  /\ phase' \in [Builds -> Phases]
  /\ \A b \in Builds :
       phase'[b] # phase[b] => phase[b] = "asked" /\ phase'[b] = "over"
  /\ UNCHANGED <<answer, sent>>

Next == Abandon \/ \E b \in Builds : Ask(b) \/ Refuse(b) \/ Start(b)

Spec == Init /\ [][Next]_<<phase, answer, sent>>
=============================================================================
