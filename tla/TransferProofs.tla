---------------------------- MODULE TransferProofs ----------------------------
(* Proofs about Transfer, for every value of its constants: type            *)
(* correctness, what ends and what is kept, and the refinement of           *)
(* TransferContract.                                                        *)
EXTENDS Transfer, SequenceTheorems, TLAPS

(* The commands in a pipe. *)
On(p) == {p[i] : i \in 1..Len(p)}

LEMMA OnConcat ==
  ASSUME NEW S, NEW p \in Seq(S), NEW q \in Seq(S)
  PROVE  p \o q \in Seq(S) /\ On(p \o q) = On(p) \cup On(q)
<1>1. p \o q \in Seq(S)
  BY ConcatProperties
<1>2. On(p) = Range(p) /\ On(q) = Range(q) /\ On(p \o q) = Range(p \o q)
  BY <1>1, RangeEquality DEF On
<1> QED BY <1>1, <1>2, RangeConcatenation

LEMMA OnAppend ==
  ASSUME NEW S, NEW p \in Seq(S), NEW x \in S
  PROVE  On(Append(p, x)) = On(p) \cup {x}
<1>1. <<x>> \in Seq(S) /\ Len(<<x>>) = 1 /\ <<x>>[1] = x
  OBVIOUS
<1>2. On(<<x>>) = {x}
  BY <1>1 DEF On
<1>3. Append(p, x) = p \o <<x>>
  BY AppendIsConcat
<1>4. On(p \o <<x>>) = On(p) \cup On(<<x>>)
  BY <1>1, OnConcat
<1> QED BY <1>2, <1>3, <1>4

LEMMA TailIndex ==
  ASSUME NEW S, NEW p \in Seq(S), p # <<>>
  PROVE  /\ Len(p) \in Nat \ {0} /\ p[1] = Head(p)
         /\ Len(Tail(p)) = Len(p) - 1
         /\ \A i \in 1..Len(Tail(p)) : Tail(p)[i] = p[i + 1]
OBVIOUS

LEMMA OnTail ==
  ASSUME NEW S, NEW p \in Seq(S), p # <<>>
  PROVE  On(p) = {Head(p)} \cup On(Tail(p))
<1>1. On(p) \subseteq {Head(p)} \cup On(Tail(p))
  <2> SUFFICES ASSUME NEW i \in 1..Len(p), i # 1 PROVE p[i] \in On(Tail(p))
    BY TailIndex DEF On
  <2>1. i - 1 \in 1..Len(Tail(p)) /\ Tail(p)[i - 1] = p[i]
    BY TailIndex
  <2> QED BY <2>1 DEF On
<1>2. {Head(p)} \cup On(Tail(p)) \subseteq On(p)
  BY TailIndex DEF On
<1> QED BY <1>1, <1>2

(* The head of the pipe is answered and its callback issues cs. *)
LEMMA ThenIs ==
  ASSUME NEW S, NEW p \in Seq(S), p # <<>>, NEW cs \in Seq(S)
  PROVE  /\ Tail(p) \o cs \in Seq(S)
         /\ Len(Tail(p) \o cs) = Len(p) - 1 + Len(cs)
         /\ \A i \in 1..Len(p) - 1 : (Tail(p) \o cs)[i] = p[i + 1]
         /\ \A j \in 1..Len(cs) : (Tail(p) \o cs)[Len(p) - 1 + j] = cs[j]
<1>1. /\ Tail(p) \in Seq(S) /\ Len(p) \in Nat \ {0} /\ Len(Tail(p)) = Len(p) - 1
      /\ \A i \in 1..Len(Tail(p)) : Tail(p)[i] = p[i + 1]
  BY HeadTailProperties, TailIndex
<1>2. Len(cs) \in Nat
  OBVIOUS
<1> DEFINE t == Tail(p)
<1> HIDE DEF t
<1>3. /\ t \o cs \in Seq(S)
         /\ Len(t \o cs) = Len(t) + Len(cs)
         /\ \A i \in 1 .. Len(t) + Len(cs) : (t \o cs)[i] =
                     IF i <= Len(t) THEN t[i] ELSE cs[i - Len(t)]
  BY <1>1, ConcatProperties DEF t
<1> QED BY <1>1, <1>2, <1>3 DEF t

LEMMA OnThen ==
  ASSUME NEW S, NEW p \in Seq(S), p # <<>>, NEW cs \in Seq(S)
  PROVE  /\ On(p) = {Head(p)} \cup On(Tail(p))
         /\ On(Tail(p) \o cs) = On(Tail(p)) \cup On(cs)
<1>1. Tail(p) \in Seq(S)
  BY HeadTailProperties
<1>2. On(Tail(p) \o cs) = On(Tail(p)) \cup On(cs)
  BY <1>1, OnConcat
<1> QED BY <1>2, OnTail

LEMMA NoCommands == \A S : <<>> \in Seq(S) /\ Len(<<>>) = 0 /\ On(<<>>) = {}
BY DEF On

LEMMA OneCommand ==
  ASSUME NEW S, NEW x \in S
  PROVE  /\ <<x>> \in Seq(S) /\ Len(<<x>>) = 1 /\ <<x>>[1] = x
         /\ On(<<x>>) = {x}
<1>1. <<x>> \in Seq(S) /\ Len(<<x>>) = 1 /\ <<x>>[1] = x
  OBVIOUS
<1> QED BY <1>1 DEF On

LEMMA TwoCommands ==
  ASSUME NEW S, NEW x \in S, NEW y \in S
  PROVE  /\ <<x, y>> \in Seq(S) /\ Len(<<x, y>>) = 2
         /\ <<x, y>>[1] = x /\ <<x, y>>[2] = y
         /\ On(<<x, y>>) = {x, y}
<1>1. /\ <<x, y>> \in Seq(S) /\ Len(<<x, y>>) = 2
      /\ <<x, y>>[1] = x /\ <<x, y>>[2] = y
  OBVIOUS
<1> QED BY <1>1 DEF On
-----------------------------------------------------------------------------
(* A body that an offer has or that a SET is about to give it. *)
Bodied(t, b) ==
  \/ b = offers[t] /\ b # None
  \/ \E c \in Issued : c.op = "set" /\ c.offer = t /\ c.body = b

(* Nothing is issued, stored or told for an offer that was not made. *)
OnlyMade ==
  /\ \A t \in Offers, b \in Body : Bodied(t, b) => t \in made
  /\ \A c \in Issued : c.offer \in made
  /\ \A p \in taken : p[1] \in made
  /\ ended \subseteq made /\ partly \subseteq made

(* Whoever an offer is for, its bodies and the changes of owner say so. *)
Addressed ==
  /\ \A t \in Offers, b \in Body : Bodied(t, b) => b.to = to[t]
  /\ \A e \in edits : <<e.offer, e.dev>> \in taken /\ e.to = to[e.offer]

(* An offer of several devices stays one, and only such offers expire. *)
AllPartial(t) == \A b \in Body : Bodied(t, b) => Partial(b)
NonePartial(t) == \A b \in Body : Bodied(t, b) => ~Partial(b)
Sized ==
  /\ \A t \in Offers : AllPartial(t) \/ NonePartial(t)
  /\ \A t \in ended : NonePartial(t)
  /\ \A t \in partly : AllPartial(t)
  /\ \A c \in Issued : c.op = "expire" => AllPartial(c.offer)

(* A SET whose answer issues nothing, and no EXPIRE or DEL behind it. *)
Ends(c, t) == c.op \in {"expire", "del"} /\ c.offer = t
Writes(c, t) == c.op \in {"set", "expire", "del"} /\ c.offer = t
Open(p, i) ==
  /\ i \in 1..Len(p) /\ p[i].op = "set" /\ p[i].call = None
  /\ \A j \in 1..Len(p) : j > i => ~Ends(p[j], p[i].offer)

(* Only the SET of the request is like that: nothing else was issued yet.   *)
FirstIsOpen ==
  \A i \in 1..Len(pipe) : Open(pipe, i) =>
    /\ offers[pipe[i].offer] = None
    /\ pipe[i].offer \notin ended \cup partly
    /\ \A j \in 1..Len(pipe) : Writes(pipe[j], pipe[i].offer) => j = i

(* What is there, answered and without expiry, has its end on the way.      *)
Ending(t) ==
  \E c \in Issued : Ends(c, t) \/ (c.op = "set" /\ c.offer = t /\ c.call # None)
EndComes ==
  \A t \in Offers :
    offers[t] # None /\ (t \in ended \/ (t \in partly /\ t \notin expiring)) => Ending(t)

OffersInv ==
  /\ OnlyMade /\ Addressed
  /\ ~up => disturbed
  /\ ~disturbed => Sized /\ FirstIsOpen /\ EndComes

(* A device whose artefacts move once at a time. *)
MovesInv ==
  \A d \in Devices \ crossed :
    /\ files[d] # {}
    /\ \A m, n \in moves : m.dev = d /\ n.dev = d => m = n
    /\ \A m \in moves : m.dev = d /\ m.step = "remove" =>
         m.to \in files[d] /\ m.from # m.to
-----------------------------------------------------------------------------
(* What bodies and commands look like. *)

LEMMA ListedIn ==
  ASSUME NEW l \in Lists
  PROVE  Listed(l) \subseteq Devices
<1>1. PICK n \in 0..2 : l \in [1..n -> Devices \cup {Hole}]
  BY DEF Lists
<1> QED BY <1>1 DEF Listed

LEMMA ChosenIn ==
  ASSUME NEW b \in Body, NEW p \in Pick
  PROVE  Chosen(b, p) \subseteq Devices
<1>1. b.udids \in Lists
  BY DEF Body
<1>2. p.some \subseteq Devices
  BY DEF Pick, All, Some, Text
<1> QED BY <1>1, <1>2, ListedIn DEF Chosen

LEMMA RemainingIs ==
  ASSUME NEW b \in Body, NEW p
  PROVE  /\ Remaining(b, p) \in Body
         /\ Remaining(b, p).to = b.to /\ Remaining(b, p).from = b.from
         /\ Partial(Remaining(b, p)) <=> Partial(b)
<1> DEFINE l == b.udids
           f == [i \in DOMAIN l |-> IF (i - 1) \in p.digits THEN Hole ELSE l[i]]
<1>1. PICK n \in 0..2 : l \in [1..n -> Devices \cup {Hole}]
  BY DEF Body, Lists
<1>2. f \in [1..n -> Devices \cup {Hole}]
  BY <1>1
<1>3. f \in Lists
  BY <1>2 DEF Lists
<1>4. Len(l) = n /\ Len(f) = n
  BY <1>1, <1>2
<1>5. Remaining(b, p) = [b EXCEPT !.udids = f]
  BY DEF Remaining
<1> HIDE DEF f
<1>6. /\ Remaining(b, p) \in Body
      /\ Remaining(b, p).to = b.to /\ Remaining(b, p).from = b.from
      /\ Remaining(b, p).udids = f
  BY <1>3, <1>5 DEF Body
<1> QED BY <1>4, <1>6 DEF Partial

(* A command at the head of the pipe, by its kind. *)
LEMMA CommandIs ==
  ASSUME NEW c \in Command
  PROVE  /\ c.offer \in Offers /\ c.op \in {"get", "set", "expire", "del"}
         /\ c.op = "get" => c.call \in Call
         /\ c.op = "set" => c.body \in Body /\ c.call \in Call \cup {None}
         /\ c.op = "expire" => c.tell \in BOOLEAN
BY DEF Command

LEMMA CallIs ==
  ASSUME NEW c \in Call
  PROVE  /\ c.by \in Calls /\ c.do \in {"accept", "decline"}
         /\ c.pick \in Pick /\ c.extra \in BOOLEAN /\ c # None
<1>1. Picks \subseteq Pick /\ None \notin Call
  BY TransferAssumption
<1> QED BY <1>1 DEF Call

LEMMA IssuedIsOn == Issued = On(pipe)
BY DEF Issued, On

LEMMA HeadIs ==
  ASSUME TypeOK, pipe # <<>>
  PROVE  /\ pipe \in Seq(Command) /\ Tail(pipe) \in Seq(Command)
         /\ Head(pipe) \in Command /\ T \in Offers
         /\ Head(pipe) \in Issued /\ Issued = {Head(pipe)} \cup On(Tail(pipe))
         /\ B \in Body \cup {None}
<1>1. pipe \in Seq(Command) /\ Tail(pipe) \in Seq(Command) /\ Head(pipe) \in Command
  BY DEF TypeOK
<1>2. On(pipe) = {Head(pipe)} \cup On(Tail(pipe))
  BY <1>1, NoCommands, OnThen
<1>3. T \in Offers
  BY <1>1, CommandIs DEF T
<1> QED BY <1>1, <1>2, <1>3, IssuedIsOn DEF TypeOK, B

LEMMA IssuedIs ==
  ASSUME TypeOK, NEW c \in Issued
  PROVE  c \in Command /\ c.offer \in Offers
BY CommandIs DEF Issued, TypeOK

LEMMA MadeCommands ==
  ASSUME NEW t \in Offers, NEW b \in Body
  PROVE  /\ Del(t) \in Command /\ Del(t).op = "del" /\ Del(t).offer = t
         /\ \A w \in BOOLEAN : /\ Expire(t, w) \in Command
                              /\ Expire(t, w).op = "expire"
                              /\ Expire(t, w).offer = t /\ Expire(t, w).tell = w
         /\ \A c \in Call \cup {None} :
              /\ Save(t, b, c) \in Command
              /\ Save(t, b, c).op = "set" /\ Save(t, b, c).offer = t
              /\ Save(t, b, c).body = b /\ Save(t, b, c).call = c
BY DEF Del, Expire, Save, Command

(* The callback of the head of the pipe issues cs. *)
LEMMA ThenType ==
  ASSUME TypeOK, pipe # <<>>, up, NEW cs \in Seq(Command), Then(cs)
  PROVE  /\ pipe' \in Seq(Command) /\ Issued' = On(Tail(pipe)) \cup On(cs)
         /\ pipe' = Tail(pipe) \o cs
<1>1. pipe \in Seq(Command)
  BY DEF TypeOK
<1>2. pipe' = Tail(pipe) \o cs
  BY DEF Then
<1>3. Issued' = On(pipe')
  BY DEF Issued, On
<1> QED BY <1>1, <1>2, <1>3, ThenIs, OnThen
-----------------------------------------------------------------------------
(* Type correctness. *)

LEMMA MigrateType ==
  ASSUME TypeOK, pipe # <<>>, NEW D \in SUBSET Devices, NEW b \in Body,
         NEW c \in Call, Migrate(D, b, c)
  PROVE  /\ edits' \in SUBSET Edit /\ moves' \in SUBSET MoveRec
         /\ taken' \in SUBSET (Offers \X Devices)
         /\ crossed' \in SUBSET Devices
<1>1. b.to \in Owners /\ b.from \in Owners /\ c.by \in Calls /\ T \in Offers
  BY CallIs, HeadIs DEF Body
<1>2. edits' \in SUBSET Edit
  BY <1>1 DEF Migrate, TypeOK, Edit
<1>3. moves' \in SUBSET MoveRec
  BY <1>1 DEF Migrate, TypeOK, MoveRec
<1>4. taken' \in SUBSET (Offers \X Devices)
  BY <1>1 DEF Migrate, TypeOK
<1>5. crossed' \in SUBSET Devices
  BY DEF Migrate, TypeOK
<1> QED BY <1>2, <1>3, <1>4, <1>5

LEMMA ExecutedType ==
  ASSUME TypeOK, NEW c \in Command, Executed(c)
  PROVE  offers' \in [Offers -> Body \cup {None}] /\ expiring' \in SUBSET Offers
<1>1. c.offer \in Offers /\ (c.op = "set" => c.body \in Body)
  BY CommandIs
<1>2. offers \in [Offers -> Body \cup {None}] /\ expiring \in SUBSET Offers
  BY DEF TypeOK
<1> QED BY <1>1, <1>2 DEF Executed, redis

(* What a GET that finds the offer has in hand. *)
LEMMA AnsweringGet ==
  ASSUME TypeOK, Answering("get"), B # None
  PROVE  /\ pipe # <<>> /\ Head(pipe).op = "get" /\ T \in Offers
         /\ B \in Body /\ C \in Call /\ C \in Call \cup {None}
         /\ Chosen(B, C.pick) \in SUBSET Devices
         /\ Remaining(B, C.pick) \in Body
<1>1. pipe # <<>> /\ Head(pipe).op = "get"
  BY DEF Answering
<1>2. T \in Offers /\ B \in Body /\ Head(pipe) \in Command
  BY <1>1, HeadIs
<1>3. C \in Call
  BY <1>1, <1>2, CommandIs DEF C
<1> QED BY <1>1, <1>2, <1>3, CallIs, ChosenIn, RemainingIs

(* What accept and the answers of Redis issue. *)
Follow(b) == <<Save(T, b, None), End(T, b, FALSE)>>
Finish(c) ==
  IF c.op = "set" /\ c.call # None THEN <<End(c.offer, c.body, TRUE)>> ELSE <<>>

LEMMA EndIs ==
  ASSUME NEW t \in Offers, NEW b \in Body, NEW w \in BOOLEAN
  PROVE  /\ End(t, b, w) \in Command /\ End(t, b, w).offer = t
         /\ End(t, b, w).op = IF Partial(b) THEN "expire" ELSE "del"
         /\ Partial(b) => End(t, b, w).tell = w
BY MadeCommands DEF End

LEMMA FollowType ==
  ASSUME T \in Offers, NEW b \in Body
  PROVE  /\ Follow(b) \in Seq(Command) /\ Len(Follow(b)) = 2
         /\ On(Follow(b)) = {Save(T, b, None), End(T, b, FALSE)}
<1>1. Save(T, b, None) \in Command /\ End(T, b, FALSE) \in Command
  BY MadeCommands, EndIs
<1> DEFINE x == Save(T, b, None)
           y == End(T, b, FALSE)
<1>2. <<x, y>> \in Seq(Command) /\ Len(<<x, y>>) = 2 /\ On(<<x, y>>) = {x, y}
  <2> HIDE DEF x, y
  <2>1. x \in Command /\ y \in Command
    BY <1>1 DEF x, y
  <2> QED BY <2>1, TwoCommands
<1> QED BY <1>2 DEF Follow

LEMMA FinishType ==
  ASSUME NEW c \in Command
  PROVE  /\ Finish(c) \in Seq(Command)
         /\ \A d \in On(Finish(c)) : c.op = "set" /\ c.call # None
                                    /\ d = End(c.offer, c.body, TRUE)
<1>1. c.offer \in Offers /\ (c.op = "set" => c.body \in Body)
  BY CommandIs
<1>2. CASE c.op = "set" /\ c.call # None
  <2>1. End(c.offer, c.body, TRUE) \in Command
    BY <1>1, <1>2, EndIs
  <2>2. Finish(c) = <<End(c.offer, c.body, TRUE)>>
    BY <1>2 DEF Finish
  <2> QED BY <1>2, <2>1, <2>2, OneCommand, Zenon
<1>3. CASE ~(c.op = "set" /\ c.call # None)
  BY <1>3, NoCommands DEF Finish
<1> QED BY <1>2, <1>3

LEMMA WrittenIs ==
  ASSUME TypeOK, Written
  PROVE  /\ up /\ pipe # <<>> /\ Head(pipe) \in Command /\ Head(pipe).op # "get"
         /\ Executed(Head(pipe)) /\ Then(Finish(Head(pipe)))
         /\ Finish(Head(pipe)) \in Seq(Command)
         /\ ended' = IF Head(pipe).op = "set" /\ Head(pipe).call # None
                        /\ ~Partial(Head(pipe).body)
                     THEN ended \cup {T} ELSE ended
         /\ partly' = IF Head(pipe).op = "expire" /\ Head(pipe).tell
                      THEN partly \cup {T} ELSE partly
<1>1. up /\ pipe # <<>> /\ Head(pipe) \in Command /\ Head(pipe).op # "get"
  BY HeadIs DEF Written
<1>2. Executed(Head(pipe)) /\ Then(Finish(Head(pipe)))
  BY DEF Written, Finish
<1>3. /\ ended' = IF Head(pipe).op = "set" /\ Head(pipe).call # None
                        /\ ~Partial(Head(pipe).body)
                  THEN ended \cup {T} ELSE ended
      /\ partly' = IF Head(pipe).op = "expire" /\ Head(pipe).tell
                   THEN partly \cup {T} ELSE partly
  BY DEF Written, T
<1> QED BY <1>1, <1>2, <1>3, FinishType

LEMMA TypeStep ==
  ASSUME TypeOK, [Next]_vars
  PROVE  TypeOK'
<1>1. CASE Missing
  <2>1. pipe' \in Seq(Command)
    BY <1>1, NoCommands, ThenType DEF Missing, Answering
  <2> QED BY <1>1, <2>1 DEF Missing, Answer, TypeOK, redis, couch, disk, told
<1>2. CASE Empty
  <2>1. pipe # <<>> /\ up /\ T \in Offers /\ B \in Body /\ C \in Call
    BY <1>2, AnsweringGet DEF Empty
  <2>2. <<Del(T), Save(T, B, C)>> \in Seq(Command) /\ <<Del(T)>> \in Seq(Command)
    <3> DEFINE x == Del(T)
               y == Save(T, B, C)
    <3>1. x \in Command /\ y \in Command
      BY <2>1, MadeCommands
    <3> HIDE DEF x, y
    <3>2. <<x, y>> \in Seq(Command) /\ <<x>> \in Seq(Command)
      BY <3>1, OneCommand, TwoCommands
    <3> QED BY <3>2 DEF x, y
  <2>3. pipe' \in Seq(Command)
    BY <1>2, <2>1, <2>2, ThenType DEF Empty
  <2>4. ended' \in SUBSET Offers
    BY <1>2, <2>1 DEF Empty, TypeOK
  <2> QED BY <1>2, <2>3, <2>4 DEF Empty, Answer, TypeOK, redis, couch, disk
<1>3. CASE Accept
  <2> DEFINE b == Remaining(B, C.pick)
  <2>1. /\ pipe # <<>> /\ up /\ T \in Offers /\ B \in Body /\ C \in Call /\ b \in Body
        /\ Chosen(B, C.pick) \in SUBSET Devices
    BY <1>3, AnsweringGet DEF Accept
  <2>2. Then(Follow(b)) /\ Follow(b) \in Seq(Command)
    BY <1>3, <2>1, FollowType DEF Accept, Follow
  <2>3. pipe' \in Seq(Command)
    BY <2>1, <2>2, <1>3, ThenType DEF Accept
  <2>4. ended' \in SUBSET Offers /\ partly' \in SUBSET Offers
    BY <1>3, <2>1 DEF Accept, TypeOK
  <2>5. /\ edits' \in SUBSET Edit /\ moves' \in SUBSET MoveRec
        /\ taken' \in SUBSET (Offers \X Devices) /\ crossed' \in SUBSET Devices
    BY <1>3, <2>1, MigrateType DEF Accept
  <2> QED BY <1>3, <2>3, <2>4, <2>5 DEF Accept, Answer, TypeOK, redis
<1>4. CASE AcceptThrows
  <2>1. /\ pipe # <<>> /\ up /\ B \in Body /\ C \in Call
        /\ Chosen(B, C.pick) \in SUBSET Devices
    BY <1>4, AnsweringGet DEF AcceptThrows
  <2>2. pipe' \in Seq(Command)
    BY <1>4, <2>1, NoCommands, ThenType DEF AcceptThrows
  <2>3. /\ edits' \in SUBSET Edit /\ moves' \in SUBSET MoveRec
        /\ taken' \in SUBSET (Offers \X Devices) /\ crossed' \in SUBSET Devices
    BY <1>4, <2>1, MigrateType DEF AcceptThrows
  <2> QED BY <1>4, <2>2, <2>3 DEF AcceptThrows, TypeOK, redis, told
<1>5. CASE Decline
  <2> DEFINE b == Remaining(B, C.pick)
  <2>1. /\ pipe # <<>> /\ up /\ T \in Offers /\ C \in Call /\ b \in Body
    BY <1>5, AnsweringGet DEF Decline
  <2>2. <<Save(T, b, C)>> \in Seq(Command)
    <3> DEFINE x == Save(T, b, C)
    <3>1. x \in Command
      BY <2>1, MadeCommands
    <3> HIDE DEF x
    <3>2. <<x>> \in Seq(Command)
      BY <3>1, OneCommand
    <3> QED BY <3>2 DEF x
  <2>3. pipe' \in Seq(Command)
    BY <1>5, <2>1, <2>2, ThenType DEF Decline
  <2> QED BY <1>5, <2>3 DEF Decline, Answer, TypeOK, redis, couch, disk, told
<1>6. CASE Written
  <2>1. pipe # <<>> /\ up /\ Head(pipe) \in Command /\ T \in Offers
    BY <1>6, WrittenIs, HeadIs
  <2>2. pipe' \in Seq(Command)
    BY <1>6, <2>1, WrittenIs, ThenType
  <2>3. offers' \in [Offers -> Body \cup {None}] /\ expiring' \in SUBSET Offers
    BY <1>6, <2>1, WrittenIs, ExecutedType
  <2>4. ended' \in SUBSET Offers /\ partly' \in SUBSET Offers
    BY <1>6, <2>1, WrittenIs DEF TypeOK
  <2> QED BY <1>6, <2>2, <2>3, <2>4 DEF Written, TypeOK, couch, disk
<1>7. ASSUME NEW e \in edits, EditArrives(e)
      PROVE  TypeOK'
  <2>1. e.dev \in Devices /\ e.to \in Owners
    BY <1>7 DEF TypeOK, Edit
  <2> QED BY <1>7, <2>1 DEF EditArrives, TypeOK, redis, disk, told
<1>8. ASSUME NEW m \in moves, Copied(m) \/ Removed(m)
      PROVE  TypeOK'
  <2>1. m \in MoveRec /\ m.dev \in Devices /\ m.to \in Owners /\ m.from \in Owners
    BY <1>8 DEF TypeOK, MoveRec
  <2>2. [m EXCEPT !.step = "remove"] \in MoveRec
    BY <2>1 DEF MoveRec
  <2>3. files' \in [Devices -> SUBSET Owners] /\ moves' \in SUBSET MoveRec
    BY <1>8, <2>1, <2>2 DEF Copied, Removed, TypeOK
  <2> QED BY <1>8, <2>3 DEF Copied, Removed, TypeOK, redis, couch, told
<1>9. ASSUME NEW t \in Offers, NEW b \in Bodies[t], Request(t, b)
      PROVE  TypeOK'
  <2> DEFINE c == [op |-> "set", offer |-> t, body |-> b, call |-> None]
  <2>1. b \in Body /\ b.to \in Owners
    BY TransferAssumption DEF Body
  <2>2. c \in Command
    BY <2>1 DEF Command
  <2>3. pipe' \in Seq(Command)
    BY <1>9, <2>2 DEF Request, TypeOK
  <2> QED BY <1>9, <2>1, <2>3 DEF Request, TypeOK, redis, couch, disk, told
<1>10. ASSUME NEW t \in Offers, NEW k \in Call, Ask(t, k)
       PROVE  TypeOK'
  <2> DEFINE c == [op |-> "get", offer |-> t, call |-> k]
  <2>1. c \in Command /\ k.by \in Calls
    BY CallIs DEF Command
  <2>2. pipe' \in Seq(Command)
    BY <1>10, <2>1 DEF Ask, TypeOK
  <2> QED BY <1>10, <2>1, <2>2 DEF Ask, TypeOK, redis, couch, disk, told
<1>11. ASSUME NEW t \in Offers, TimeToLiveEnds(t)
       PROVE  TypeOK'
  BY <1>11 DEF TimeToLiveEnds, TypeOK, couch, disk, told
<1>12. CASE Crash
  BY <1>12 DEF Crash, TypeOK, redis, couch, told
<1>13. CASE Drain
  <2>1. Head(pipe) \in Command /\ pipe' \in Seq(Command)
    BY <1>13, HeadIs DEF Drain
  <2>2. offers' \in [Offers -> Body \cup {None}] /\ expiring' \in SUBSET Offers
    BY <1>13, <2>1, ExecutedType DEF Drain
  <2> QED BY <1>13, <2>1, <2>2 DEF Drain, TypeOK, couch, disk, told
<1>14. CASE Restart
  BY <1>14, NoCommands DEF Restart, TypeOK, redis, couch, disk, told
<1>15. CASE Rejected
  <2>1. Head(pipe) \in Command /\ pipe' \in Seq(Command)
    BY <1>15, HeadIs, NoCommands, ThenType DEF Rejected
  <2>2. offers' \in [Offers -> Body \cup {None}] /\ expiring' \in SUBSET Offers
    BY <1>15, <2>1, ExecutedType DEF Rejected, TypeOK, redis
  <2> QED BY <1>15, <2>1, <2>2 DEF Rejected, TypeOK, couch, disk, told
<1>16. ASSUME NEW e \in edits, EditRefused(e)
       PROVE  TypeOK'
  BY <1>16 DEF EditRefused, TypeOK, redis, disk, told
<1>17. CASE UNCHANGED vars
  BY <1>17 DEF TypeOK, vars
<1> QED BY <1>1, <1>2, <1>3, <1>4, <1>5, <1>6, <1>7, <1>8, <1>9, <1>10, <1>11,
           <1>12, <1>13, <1>14, <1>15, <1>16, <1>17
        DEF Next, Redis, Couch, Disk

(* Every state of the transfers is well typed.                              *)
THEOREM TransferTypeCorrect == Spec => []TypeOK
<1>1. Init => TypeOK
  <2> SUFFICES ASSUME Init
               PROVE  TypeOK
    OBVIOUS
  <2>1. /\ FirstOwner \in [Devices -> Owners]
        /\ pipe \in Seq(Command)
    BY TransferAssumption, NoCommands DEF Init
  <2>2. /\ owner \in [Devices -> Owners] /\ files \in [Devices -> SUBSET Owners]
        /\ offers \in [Offers -> Body \cup {None}]
        /\ to \in [Offers -> Owners \cup {None}]
    BY <2>1 DEF Init
  <2> QED BY <2>1, <2>2 DEF Init, TypeOK
<1>2. TypeOK /\ [Next]_vars => TypeOK'
  BY TypeStep
<1> QED BY <1>1, <1>2, PTL DEF Spec
-----------------------------------------------------------------------------
(* Artefacts. *)

LEMMA MigrateMoves ==
  ASSUME TypeOK, MovesInv, NEW D \in SUBSET Devices, NEW b, NEW c,
         Migrate(D, b, c), UNCHANGED files
  PROVE  MovesInv'
<1> SUFFICES ASSUME NEW d \in Devices, d \notin crossed'
             PROVE  /\ files[d] # {}
                    /\ \A m, n \in moves' : m.dev = d /\ n.dev = d => m = n
                    /\ \A m \in moves' : m.dev = d /\ m.step = "remove" =>
                         m.to \in files[d] /\ m.from # m.to
  BY DEF MovesInv
<1> DEFINE new(e) == [dev |-> e, from |-> b.from, to |-> b.to, by |-> c.by,
                      step |-> "copy"]
           M == {e \in D : b.from \in files[e]}
<1>1. /\ moves' = moves \cup {new(e) : e \in M}
      /\ crossed' = crossed \cup {e \in M : \E m \in moves : m.dev = e}
  BY DEF Migrate
<1>2. \A e : new(e).dev = e /\ new(e).step = "copy"
  OBVIOUS
<1> HIDE DEF new, M
<1>3. d \notin crossed /\ (d \in M => \A m \in moves : m.dev # d)
  BY <1>1
<1>4. /\ files[d] # {}
      /\ \A m, n \in moves : m.dev = d /\ n.dev = d => m = n
      /\ \A m \in moves : m.dev = d /\ m.step = "remove" =>
           m.to \in files[d] /\ m.from # m.to
  BY <1>3 DEF MovesInv
<1>5. \A m \in moves' : m.dev = d => m \in moves \/ (d \in M /\ m = new(d))
  BY <1>1, <1>2
<1> QED BY <1>2, <1>3, <1>4, <1>5

LEMMA MovesStep ==
  ASSUME TypeOK, MovesInv, [Next]_vars
  PROVE  MovesInv'
<1>1. CASE Accept \/ AcceptThrows
  <2>1. B # None /\ Answering("get")
    BY <1>1 DEF Accept, AcceptThrows
  <2>2. Chosen(B, C.pick) \in SUBSET Devices
    BY <2>1, AnsweringGet
  <2>3. Migrate(Chosen(B, C.pick), B, C) /\ UNCHANGED files
    BY <1>1 DEF Accept, AcceptThrows
  <2> QED BY <2>2, <2>3, MigrateMoves
<1>2. ASSUME NEW m \in moves, Copied(m)
      PROVE  MovesInv'
  <2> SUFFICES ASSUME NEW d \in Devices, d \notin crossed
               PROVE  /\ files'[d] # {}
                      /\ \A k, n \in moves' : k.dev = d /\ n.dev = d => k = n
                      /\ \A k \in moves' : k.dev = d /\ k.step = "remove" =>
                           k.to \in files'[d] /\ k.from # k.to
    BY <1>2 DEF Copied, MovesInv
  <2> DEFINE r == [m EXCEPT !.step = "remove"]
  <2>1. m \in MoveRec /\ m.dev \in Devices
    BY DEF TypeOK, MoveRec
  <2>2. r.dev = m.dev /\ r.to = m.to /\ r.from = m.from
    BY <2>1 DEF MoveRec
  <2>3. /\ files[d] # {}
        /\ \A k, n \in moves : k.dev = d /\ n.dev = d => k = n
        /\ \A k \in moves : k.dev = d /\ k.step = "remove" =>
             k.to \in files[d] /\ k.from # k.to
    BY DEF MovesInv
  <2>4. files[d] \subseteq files'[d]
    BY <1>2, <2>1 DEF Copied, TypeOK
  <2> HIDE DEF r
  <2>5. CASE m.from \in files[m.dev] /\ m.from # m.to
    <3>1. moves' = (moves \ {m}) \cup {r} /\ m.to \in files'[m.dev]
      BY <1>2, <2>1, <2>5 DEF Copied, TypeOK, r
    <3>2. CASE m.dev = d
      BY <2>2, <2>3, <2>4, <2>5, <3>1, <3>2
    <3>3. CASE m.dev # d
      BY <2>2, <2>3, <2>4, <3>1, <3>3
    <3> QED BY <3>2, <3>3
  <2>6. CASE ~(m.from \in files[m.dev] /\ m.from # m.to)
    BY <1>2, <2>3, <2>6 DEF Copied
  <2> QED BY <2>5, <2>6
<1>3. ASSUME NEW m \in moves, Removed(m)
      PROVE  MovesInv'
  <2> SUFFICES ASSUME NEW d \in Devices, d \notin crossed
               PROVE  /\ files'[d] # {}
                      /\ \A k, n \in moves' : k.dev = d /\ n.dev = d => k = n
                      /\ \A k \in moves' : k.dev = d /\ k.step = "remove" =>
                           k.to \in files'[d] /\ k.from # k.to
    BY <1>3 DEF Removed, MovesInv
  <2>1. m.dev \in Devices
    BY DEF TypeOK, MoveRec
  <2>2. /\ files[d] # {}
        /\ \A k, n \in moves : k.dev = d /\ n.dev = d => k = n
        /\ \A k \in moves : k.dev = d /\ k.step = "remove" =>
             k.to \in files[d] /\ k.from # k.to
    BY DEF MovesInv
  <2>3. moves' = moves \ {m}
    BY <1>3 DEF Removed
  <2>4. CASE m.dev = d
    <3>1. files'[d] = files[d] \ {m.from} /\ m.to \in files[d] /\ m.to # m.from
      BY <1>3, <2>2, <2>4 DEF Removed, TypeOK
    <3> QED BY <2>2, <2>3, <2>4, <3>1
  <2>5. CASE m.dev # d
    <3>1. files'[d] = files[d]
      BY <1>3, <2>5 DEF Removed, TypeOK
    <3> QED BY <2>2, <2>3, <3>1
  <2> QED BY <2>4, <2>5
<1>4. CASE Crash
  BY <1>4 DEF Crash, MovesInv
<1>5. CASE UNCHANGED disk
  BY <1>5 DEF disk, MovesInv
<1>6. CASE Missing \/ Empty \/ Decline \/ Written
  BY <1>5, <1>6 DEF Missing, Empty, Decline, Written
<1>7. ASSUME NEW e \in edits, EditArrives(e) \/ EditRefused(e)
      PROVE  UNCHANGED disk
  BY <1>7 DEF EditArrives, EditRefused
<1>8. ASSUME NEW t \in Offers,
             \/ \E b \in Bodies[t] : Request(t, b)
             \/ \E c \in Call : Ask(t, c)
             \/ TimeToLiveEnds(t)
      PROVE  UNCHANGED disk
  BY <1>8 DEF Request, Ask, TimeToLiveEnds
<1>9. CASE Drain \/ Restart \/ Rejected \/ UNCHANGED vars
  BY <1>5, <1>9 DEF Drain, Restart, Rejected, vars, disk
<1> QED BY <1>1, <1>2, <1>3, <1>4, <1>5, <1>6, <1>7, <1>8, <1>9
        DEF Next, Redis, Couch, Disk

(* A device's artefacts are never lost while they move once at a time, for  *)
(* any owners, offers, calls and failures (transfer.js:161-169).            *)
THEOREM ArtefactsAreKept == Spec => []ArtefactsKept
<1>1. Init => MovesInv
  BY TransferAssumption DEF Init, MovesInv
<1>2. TypeOK /\ MovesInv /\ [Next]_vars => MovesInv'
  BY MovesStep
<1>3. MovesInv => ArtefactsKept
  BY DEF MovesInv, ArtefactsKept
<1> QED BY <1>1, <1>2, <1>3, TransferTypeCorrect, PTL DEF Spec
-----------------------------------------------------------------------------
(* Where bodies come from: but for requests, an offer gets no body that is  *)
(* not like one it had.                                                     *)

Like(b, a) == b.to = a.to /\ (Partial(b) <=> Partial(a))
OldBodies ==
  \A t \in Offers, b \in Body :
    Bodied(t, b)' => \E a \in Body : Bodied(t, a) /\ Like(b, a)

(* What the commands and the store may hold for that. *)
OldCommand(c) ==
  c.op = "set" => \/ c \in Issued
                  \/ \E a \in Body : Bodied(c.offer, a) /\ Like(c.body, a)
OldStore ==
  \A t \in Offers : \/ offers'[t] \in {offers[t], None}
                    \/ \E c \in Issued : /\ c.op = "set" /\ c.offer = t
                                         /\ c.body = offers'[t]

LEMMA OldBodiesBy ==
  ASSUME \A c \in Issued' : OldCommand(c), OldStore
  PROVE  OldBodies
<1> SUFFICES ASSUME NEW t \in Offers, NEW b \in Body, Bodied(t, b)'
             PROVE  \E a \in Body : Bodied(t, a) /\ Like(b, a)
  BY DEF OldBodies
<1>1. CASE b = offers'[t] /\ b # None
  BY <1>1 DEF OldStore, Bodied, Like
<1>2. ASSUME NEW c \in Issued', c.op = "set", c.offer = t, c.body = b
      PROVE  \E a \in Body : Bodied(t, a) /\ Like(b, a)
  BY <1>2 DEF OldCommand, Bodied, Like
<1> QED BY <1>1, <1>2 DEF Bodied

LEMMA ExecutedStore ==
  ASSUME TypeOK, NEW c \in Issued, Executed(c)
  PROVE  OldStore
<1>1. c.offer \in Offers /\ offers \in [Offers -> Body \cup {None}]
  BY IssuedIs DEF TypeOK
<1> QED BY <1>1 DEF Executed, OldStore, redis

(* The callback of a GET that has found the offer. *)
LEMMA FoundBodies ==
  ASSUME TypeOK, Answering("get"), B # None, up, UNCHANGED redis,
         NEW cs \in Seq(Command), Then(cs),
         \A c \in On(cs) : c.op = "set" => c.offer = T /\ Like(c.body, B)
  PROVE  OldBodies
<1>1. T \in Offers /\ B \in Body /\ pipe # <<>>
  BY AnsweringGet
<1>2. Bodied(T, B)
  BY <1>1 DEF Bodied, B
<1>3. Issued' = On(Tail(pipe)) \cup On(cs) /\ On(Tail(pipe)) \subseteq Issued
  BY <1>1, ThenType, HeadIs
<1>4. \A c \in Issued' : OldCommand(c)
  BY <1>1, <1>2, <1>3 DEF OldCommand
<1>5. OldStore
  BY DEF OldStore, redis
<1> QED BY <1>4, <1>5, OldBodiesBy

LEMMA FollowIs ==
  ASSUME TypeOK, Answering("get"), B # None, up,
         Then(Follow(Remaining(B, C.pick)))
  PROVE  /\ Follow(Remaining(B, C.pick)) \in Seq(Command)
         /\ \A c \in On(Follow(Remaining(B, C.pick))) :
              c.op = "set" => c.offer = T /\ Like(c.body, B)
<1> DEFINE b == Remaining(B, C.pick)
<1>1. T \in Offers /\ B \in Body /\ C \in Call /\ b \in Body
  BY AnsweringGet
<1>2. Follow(b) \in Seq(Command) /\ On(Follow(b)) = {Save(T, b, None), End(T, b, FALSE)}
  BY <1>1, FollowType
<1>3. Like(b, B)
  BY <1>1, RemainingIs DEF Like
<1>4. Save(T, b, None).offer = T /\ Save(T, b, None).body = b
  BY <1>1, MadeCommands
<1>5. End(T, b, FALSE).op # "set"
  BY <1>1, EndIs
<1> QED BY <1>2, <1>3, <1>4, <1>5

LEMMA DeclinedIs ==
  ASSUME TypeOK, Answering("get"), B # None
  PROVE  LET b == Remaining(B, C.pick) IN
         /\ <<Save(T, b, C)>> \in Seq(Command)
         /\ On(<<Save(T, b, C)>>) = {Save(T, b, C)}
         /\ Save(T, b, C).op = "set" /\ Save(T, b, C).offer = T
         /\ Save(T, b, C).body = b /\ Save(T, b, C).call = C
         /\ Save(T, b, C) \in Command /\ Like(b, B) /\ C # None
<1> DEFINE b == Remaining(B, C.pick)
           x == Save(T, b, C)
<1>1. T \in Offers /\ B \in Body /\ C \in Call /\ b \in Body /\ C # None
  BY AnsweringGet, CallIs
<1>2. x \in Command /\ x.op = "set" /\ x.offer = T /\ x.body = b /\ x.call = C
  BY <1>1, MadeCommands
<1>3. Like(b, B)
  BY <1>1, RemainingIs DEF Like
<1>4. <<x>> \in Seq(Command) /\ On(<<x>>) = {x}
  <2> HIDE DEF x
  <2> QED BY <1>2, OneCommand
<1> QED BY <1>1, <1>2, <1>3, <1>4

LEMMA EmptyIs ==
  ASSUME TypeOK, Answering("get"), B # None
  PROVE  /\ <<Del(T), Save(T, B, C)>> \in Seq(Command)
         /\ <<Del(T)>> \in Seq(Command)
         /\ On(<<Del(T), Save(T, B, C)>>) = {Del(T), Save(T, B, C)}
         /\ On(<<Del(T)>>) = {Del(T)}
         /\ Del(T).op = "del" /\ Del(T).offer = T
         /\ Save(T, B, C).op = "set" /\ Save(T, B, C).offer = T
         /\ Save(T, B, C).body = B /\ Save(T, B, C).call = C /\ C # None
         /\ Del(T) \in Command /\ Save(T, B, C) \in Command
<1> DEFINE x == Del(T)
           y == Save(T, B, C)
<1>1. T \in Offers /\ B \in Body /\ C \in Call /\ C # None
  BY AnsweringGet, CallIs
<1>2. /\ x \in Command /\ x.op = "del" /\ x.offer = T
      /\ y \in Command /\ y.op = "set" /\ y.offer = T /\ y.body = B /\ y.call = C
  BY <1>1, MadeCommands
<1>3. /\ <<x, y>> \in Seq(Command) /\ <<x>> \in Seq(Command)
      /\ On(<<x, y>>) = {x, y} /\ On(<<x>>) = {x}
  <2> HIDE DEF x, y
  <2> QED BY <1>2, OneCommand, TwoCommands
<1> QED BY <1>1, <1>2, <1>3

(* Executing a command leaves the pipe with commands it had, or with the    *)
(* end of an offer a decline has saved.                                     *)
LEMMA WrittenIssued ==
  ASSUME TypeOK, Written
  PROVE  /\ Head(pipe) \in Issued /\ Issued = {Head(pipe)} \cup On(Tail(pipe))
         /\ Issued' = On(Tail(pipe)) \cup On(Finish(Head(pipe)))
         /\ \A d \in On(Finish(Head(pipe))) :
              /\ Head(pipe).op = "set" /\ Head(pipe).call # None
              /\ d.offer = T
              /\ d.op = IF Partial(Head(pipe).body) THEN "expire" ELSE "del"
              /\ d.op = "expire" => d.tell
<1> DEFINE c == Head(pipe)
<1>1. /\ up /\ pipe # <<>> /\ c \in Command
      /\ Then(Finish(c)) /\ Finish(c) \in Seq(Command)
  BY WrittenIs
<1>2. /\ c \in Issued /\ Issued = {c} \cup On(Tail(pipe))
      /\ Issued' = On(Tail(pipe)) \cup On(Finish(c))
  BY <1>1, HeadIs, ThenType
<1>3. T = c.offer
  BY DEF T
<1> HIDE DEF c
<1>4. ASSUME NEW d \in On(Finish(c))
      PROVE  /\ c.op = "set" /\ c.call # None /\ d.offer = T
             /\ d.op = IF Partial(c.body) THEN "expire" ELSE "del"
             /\ d.op = "expire" => d.tell
  <2>1. c.op = "set" /\ c.call # None /\ d = End(c.offer, c.body, TRUE)
    BY <1>1, FinishType
  <2>2. c.offer \in Offers /\ c.body \in Body
    BY <1>1, <2>1, CommandIs
  <2>3. /\ d.offer = c.offer /\ d.op = IF Partial(c.body) THEN "expire" ELSE "del"
        /\ Partial(c.body) => d.tell = TRUE
    BY <2>1, <2>2, EndIs
  <2> QED BY <1>3, <2>1, <2>3
<1> QED BY <1>2, <1>4 DEF c

(* After a step with no callback the pipe has commands it had. *)
LEMMA PipeShrinks ==
  ASSUME TypeOK, Drain \/ Restart \/ Rejected \/ UNCHANGED pipe
  PROVE  Issued' \subseteq Issued
<1>1. CASE Drain
  <2>1. pipe # <<>> /\ pipe' = Tail(pipe)
    BY <1>1 DEF Drain
  <2> QED BY <2>1, HeadIs DEF Issued, On
<1>2. CASE Restart
  <2>1. pipe' = <<>>
    BY <1>2 DEF Restart
  <2> QED BY <2>1 DEF Issued
<1>3. CASE Rejected
  <2>1. pipe # <<>> /\ Issued' = On(Tail(pipe)) \cup On(<<>>)
    BY <1>3, NoCommands, ThenType DEF Rejected
  <2> QED BY <2>1, HeadIs, NoCommands
<1>4. CASE UNCHANGED pipe
  BY <1>4 DEF Issued
<1> QED BY <1>1, <1>2, <1>3, <1>4

LEMMA BodiesStep ==
  ASSUME TypeOK, [Next]_vars
  PROVE  \/ OldBodies /\ UNCHANGED <<to, made>>
         \/ \E t \in Offers : \E b \in Bodies[t] : Request(t, b)
<1> SUFFICES ASSUME ~\E t \in Offers : \E b \in Bodies[t] : Request(t, b)
             PROVE  OldBodies /\ UNCHANGED <<to, made>>
  OBVIOUS
<1>1. CASE Missing
  <2>1. pipe # <<>> /\ up /\ Then(<<>>) /\ UNCHANGED <<redis, to, made>>
    BY <1>1 DEF Missing, Answering
  <2>2. Issued' = On(Tail(pipe)) \cup On(<<>>)
    BY <2>1, NoCommands, ThenType
  <2>3. Issued' \subseteq Issued
    BY <2>1, <2>2, HeadIs, NoCommands
  <2> QED BY <2>1, <2>3, OldBodiesBy DEF OldCommand, OldStore, redis
<1>2. CASE Empty
  <2>1. /\ Answering("get") /\ B # None /\ up /\ UNCHANGED <<redis, to, made>>
        /\ Then(<<Del(T), Save(T, B, C)>>) \/ Then(<<Del(T)>>)
    BY <1>2 DEF Empty
  <2>2. Like(B, B)
    BY DEF Like
  <2>3. OldBodies
    BY <2>1, <2>2, EmptyIs, FoundBodies
  <2> QED BY <2>1, <2>3
<1>3. CASE Accept
  <2>1. /\ Answering("get") /\ B # None /\ up /\ UNCHANGED <<redis, to, made>>
        /\ Then(Follow(Remaining(B, C.pick)))
    BY <1>3 DEF Accept, Follow
  <2> QED BY <2>1, FollowIs, FoundBodies
<1>4. CASE AcceptThrows
  <2>1. /\ Answering("get") /\ B # None /\ up /\ UNCHANGED <<redis, to, made>>
        /\ Then(<<>>)
    BY <1>4 DEF AcceptThrows
  <2> QED BY <2>1, NoCommands, FoundBodies
<1>5. CASE Decline
  <2>1. /\ Answering("get") /\ B # None /\ up /\ UNCHANGED <<redis, to, made>>
        /\ Then(<<Save(T, Remaining(B, C.pick), C)>>)
    BY <1>5 DEF Decline
  <2> QED BY <2>1, DeclinedIs, FoundBodies
<1>6. CASE Written
  <2>1. Head(pipe) \in Issued /\ Executed(Head(pipe))
    BY <1>6, WrittenIs, WrittenIssued
  <2>2. \A c \in Issued' : OldCommand(c)
    BY <1>6, WrittenIssued DEF OldCommand
  <2>3. UNCHANGED <<to, made>>
    BY <1>6 DEF Written
  <2> QED BY <2>1, <2>2, <2>3, ExecutedStore, OldBodiesBy
<1>7. CASE UNCHANGED <<redis, pipe, to, made>>
  <2>1. Issued' \subseteq Issued
    BY <1>7, PipeShrinks
  <2> QED BY <1>7, <2>1, OldBodiesBy DEF OldCommand, OldStore, redis
<1>8. ASSUME NEW e \in edits, EditArrives(e) \/ EditRefused(e)
      PROVE  UNCHANGED <<redis, pipe, to, made>>
  BY <1>8 DEF EditArrives, EditRefused
<1>9. ASSUME NEW m \in moves, Copied(m) \/ Removed(m)
      PROVE  UNCHANGED <<redis, pipe, to, made>>
  BY <1>9 DEF Copied, Removed
<1>10. ASSUME NEW t \in Offers, NEW k \in Call, Ask(t, k)
       PROVE  OldBodies /\ UNCHANGED <<to, made>>
  <2> DEFINE c == [op |-> "get", offer |-> t, call |-> k]
  <2>1. c \in Command /\ c.op = "get" /\ pipe \in Seq(Command)
    BY DEF Command, TypeOK
  <2>2. pipe' = Append(pipe, c) /\ UNCHANGED <<redis, to, made>>
    BY <1>10 DEF Ask
  <2> HIDE DEF c
  <2>3. Issued' = Issued \cup {c}
    BY <2>1, <2>2, OnAppend DEF Issued, On
  <2> QED BY <2>1, <2>2, <2>3, OldBodiesBy DEF OldCommand, OldStore, redis
<1>11. ASSUME NEW t \in Offers, TimeToLiveEnds(t)
       PROVE  OldBodies /\ UNCHANGED <<to, made>>
  <2>1. Issued' \subseteq Issued
    BY <1>11, PipeShrinks DEF TimeToLiveEnds
  <2>2. OldStore
    BY <1>11 DEF TimeToLiveEnds, OldStore, TypeOK
  <2>3. UNCHANGED <<to, made>>
    BY <1>11 DEF TimeToLiveEnds
  <2> QED BY <2>1, <2>2, <2>3, OldBodiesBy DEF OldCommand
<1>12. CASE Drain \/ Rejected
  <2>1. Issued' \subseteq Issued
    BY <1>12, PipeShrinks
  <2>2. pipe # <<>> /\ UNCHANGED <<to, made>>
    BY <1>12 DEF Drain, Rejected
  <2>3. Head(pipe) \in Issued /\ (Executed(Head(pipe)) \/ UNCHANGED redis)
    BY <1>12, <2>2, HeadIs DEF Drain, Rejected
  <2>4. OldStore
    BY <2>3, ExecutedStore DEF OldStore, redis
  <2> QED BY <2>1, <2>2, <2>4, OldBodiesBy DEF OldCommand
<1>13. CASE Restart
  <2>1. Issued' \subseteq Issued
    BY <1>13, PipeShrinks
  <2>2. UNCHANGED <<redis, to, made>>
    BY <1>13 DEF Restart
  <2> QED BY <2>1, <2>2, OldBodiesBy DEF OldCommand, OldStore, redis
<1>14. CASE Crash \/ UNCHANGED vars
  BY <1>7, <1>14 DEF Crash, vars, redis
<1> QED BY <1>1, <1>2, <1>3, <1>4, <1>5, <1>6, <1>7, <1>8, <1>9, <1>10, <1>11,
           <1>12, <1>13, <1>14
        DEF Next, Redis, Couch, Disk

LEMMA RequestIs ==
  ASSUME TypeOK, NEW t \in Offers, NEW b \in Bodies[t], Request(t, b)
  PROVE  /\ t \notin made /\ b \in Body /\ b.to \in Owners
         /\ made' = made \cup {t} /\ to' = [to EXCEPT ![t] = b.to]
         /\ UNCHANGED <<redis, couch, disk, up, taken, told, disturbed>>
         /\ LET c == Save(t, b, None) IN
            /\ c \in Command /\ c.op = "set" /\ c.offer = t /\ c.body = b
            /\ c.call = None
            /\ pipe' = Append(pipe, c) /\ Issued' = Issued \cup {c}
         /\ \A s \in Offers, a \in Body :
              Bodied(s, a)' <=> Bodied(s, a) \/ (s = t /\ a = b)
<1> DEFINE c == Save(t, b, None)
<1>1. b \in Body /\ b.to \in Owners
  BY TransferAssumption DEF Body
<1>2. /\ t \notin made /\ made' = made \cup {t} /\ to' = [to EXCEPT ![t] = b.to]
      /\ UNCHANGED <<redis, couch, disk, up, taken, told, disturbed>>
      /\ pipe' = Append(pipe, c)
  BY DEF Request, Save
<1>3. /\ c \in Command /\ c.op = "set" /\ c.offer = t /\ c.body = b
      /\ c.call = None
  BY <1>1, MadeCommands
<1>4. Issued' = Issued \cup {c}
  <2> HIDE DEF c
  <2>1. pipe \in Seq(Command)
    BY DEF TypeOK
  <2> QED BY <1>2, <1>3, <2>1, OnAppend DEF Issued, On
<1>5. ASSUME NEW s \in Offers, NEW a \in Body
      PROVE  Bodied(s, a)' <=> Bodied(s, a) \/ (s = t /\ a = b)
  <2> HIDE DEF c
  <2>1. offers' = offers
    BY <1>2 DEF redis
  <2> QED BY <1>3, <1>4, <2>1 DEF Bodied
<1> QED BY <1>1, <1>2, <1>3, <1>4, <1>5
-----------------------------------------------------------------------------
(* Offers that were made. *)

(* A GET that finds an offer finds one that was made, with a body of it.    *)
LEMMA FoundIsMade ==
  ASSUME TypeOK, OnlyMade, Answering("get"), B # None
  PROVE  Bodied(T, B) /\ T \in made /\ T \in Offers /\ B \in Body
<1>1. T \in Offers /\ B \in Body
  BY AnsweringGet
<1>2. Bodied(T, B)
  BY <1>1 DEF Bodied, B
<1> QED BY <1>1, <1>2 DEF OnlyMade

(* Commands, what was taken and what was told, after a step that makes no   *)
(* offer.                                                                   *)
OfMade(c) == c.offer \in made
TakenMade == \A p \in taken' : p[1] \in made
ToldMade == ended' \subseteq made /\ partly' \subseteq made

LEMMA MigrateTaken ==
  ASSUME TypeOK, OnlyMade, T \in made, NEW D, NEW b, NEW c, Migrate(D, b, c)
  PROVE  TakenMade
<1>1. taken' \subseteq taken \cup {<<T, d>> : d \in D}
  BY DEF Migrate
<1> QED BY <1>1 DEF TakenMade, OnlyMade

LEMMA MadeStep ==
  ASSUME TypeOK, OnlyMade, [Next]_vars,
         ~\E t \in Offers : \E b \in Bodies[t] : Request(t, b)
  PROVE  (\A c \in Issued' : OfMade(c)) /\ TakenMade /\ ToldMade
<1>1. CASE Missing
  <2>1. pipe # <<>> /\ up /\ Then(<<>>) /\ UNCHANGED <<taken, told>>
    BY <1>1 DEF Missing, Answering
  <2>2. Issued' = On(Tail(pipe)) \cup On(<<>>)
    BY <2>1, NoCommands, ThenType
  <2>3. Issued' \subseteq Issued
    BY <2>1, <2>2, HeadIs, NoCommands
  <2> QED BY <2>1, <2>3 DEF OnlyMade, OfMade, TakenMade, ToldMade, told
<1>2. CASE Empty
  <2>1. /\ Answering("get") /\ B # None /\ up /\ UNCHANGED <<taken, partly>>
        /\ Then(<<Del(T), Save(T, B, C)>>) \/ Then(<<Del(T)>>)
        /\ ended' \subseteq ended \cup {T}
    BY <1>2 DEF Empty
  <2>2. pipe # <<>> /\ T \in made /\ On(Tail(pipe)) \subseteq Issued
    BY <2>1, AnsweringGet, FoundIsMade, HeadIs
  <2>3. \/ Issued' = On(Tail(pipe)) \cup {Del(T), Save(T, B, C)}
        \/ Issued' = On(Tail(pipe)) \cup {Del(T)}
    BY <2>1, <2>2, EmptyIs, ThenType
  <2>4. \A c \in Issued' : OfMade(c)
    BY <2>1, <2>2, <2>3, EmptyIs DEF OfMade, OnlyMade
  <2> QED BY <2>1, <2>2, <2>4 DEF OnlyMade, TakenMade, ToldMade
<1>3. CASE Accept
  <2> DEFINE b == Remaining(B, C.pick)
  <2>1. /\ Answering("get") /\ B # None /\ up /\ Then(Follow(b))
        /\ Migrate(Chosen(B, C.pick), B, C)
        /\ ended' \subseteq ended \cup {T} /\ partly' \subseteq partly \cup {T}
    BY <1>3 DEF Accept, Follow
  <2>2. /\ pipe # <<>> /\ T \in made /\ T \in Offers /\ b \in Body
        /\ On(Tail(pipe)) \subseteq Issued
    BY <2>1, AnsweringGet, FoundIsMade, HeadIs
  <2>3. /\ Follow(b) \in Seq(Command)
        /\ On(Follow(b)) = {Save(T, b, None), End(T, b, FALSE)}
    BY <2>2, FollowType
  <2>4. Issued' = On(Tail(pipe)) \cup {Save(T, b, None), End(T, b, FALSE)}
    BY <2>1, <2>2, <2>3, ThenType
  <2>5. Save(T, b, None).offer = T
    BY <2>2, MadeCommands
  <2>6. End(T, b, FALSE).offer = T
    BY <2>2, EndIs
  <2>7. \A c \in Issued' : OfMade(c)
    BY <2>2, <2>4, <2>5, <2>6 DEF OfMade, OnlyMade
  <2>8. TakenMade
    BY <2>1, <2>2, MigrateTaken
  <2> QED BY <2>1, <2>2, <2>7, <2>8 DEF OnlyMade, ToldMade
<1>4. CASE AcceptThrows
  <2>1. /\ Answering("get") /\ B # None /\ up /\ Then(<<>>) /\ UNCHANGED told
        /\ Migrate(Chosen(B, C.pick), B, C)
    BY <1>4 DEF AcceptThrows
  <2>2. pipe # <<>> /\ T \in made /\ On(Tail(pipe)) \subseteq Issued
    BY <2>1, AnsweringGet, FoundIsMade, HeadIs
  <2>3. Issued' = On(Tail(pipe)) \cup On(<<>>)
    BY <2>1, <2>2, NoCommands, ThenType
  <2>4. TakenMade
    BY <2>1, <2>2, MigrateTaken
  <2> QED BY <2>1, <2>2, <2>3, <2>4, NoCommands DEF OnlyMade, OfMade, ToldMade, told
<1>5. CASE Decline
  <2>1. /\ Answering("get") /\ B # None /\ up /\ UNCHANGED <<taken, told>>
        /\ Then(<<Save(T, Remaining(B, C.pick), C)>>)
    BY <1>5 DEF Decline
  <2>2. pipe # <<>> /\ T \in made /\ On(Tail(pipe)) \subseteq Issued
    BY <2>1, AnsweringGet, FoundIsMade, HeadIs
  <2>3. Issued' = On(Tail(pipe)) \cup {Save(T, Remaining(B, C.pick), C)}
    BY <2>1, <2>2, DeclinedIs, ThenType
  <2>4. \A c \in Issued' : OfMade(c)
    BY <2>1, <2>2, <2>3, DeclinedIs DEF OfMade, OnlyMade
  <2> QED BY <2>1, <2>4 DEF OnlyMade, TakenMade, ToldMade, told
<1>6. CASE Written
  <2>1. /\ Head(pipe) \in Issued /\ T = Head(pipe).offer
        /\ \A c \in Issued' : c \in Issued \/ c.offer = T
    BY <1>6, WrittenIssued DEF T
  <2>2. /\ ended' \subseteq ended \cup {T} /\ partly' \subseteq partly \cup {T}
        /\ taken' = taken
    BY <1>6, WrittenIs DEF Written
  <2> QED BY <2>1, <2>2 DEF OnlyMade, OfMade, TakenMade, ToldMade
<1>7. CASE Issued' \subseteq Issued /\ UNCHANGED <<taken, told>>
  BY <1>7 DEF OnlyMade, OfMade, TakenMade, ToldMade, told
<1>8. ASSUME NEW e \in edits, EditArrives(e) \/ EditRefused(e)
      PROVE  UNCHANGED <<pipe, taken, told>>
  BY <1>8 DEF EditArrives, EditRefused
<1>9. ASSUME NEW m \in moves, Copied(m) \/ Removed(m)
      PROVE  UNCHANGED <<pipe, taken, told>>
  BY <1>9 DEF Copied, Removed
<1>10. ASSUME NEW t \in Offers, NEW k \in Call, Ask(t, k)
       PROVE  (\A c \in Issued' : OfMade(c)) /\ TakenMade /\ ToldMade
  <2> DEFINE c == [op |-> "get", offer |-> t, call |-> k]
  <2>1. c \in Command /\ c.offer = t /\ pipe \in Seq(Command)
    BY DEF Command, TypeOK
  <2>2. t \in made /\ pipe' = Append(pipe, c) /\ UNCHANGED <<taken, told>>
    BY <1>10 DEF Ask
  <2> HIDE DEF c
  <2>3. Issued' = Issued \cup {c}
    BY <2>1, <2>2, OnAppend DEF Issued, On
  <2> QED BY <2>1, <2>2, <2>3 DEF OnlyMade, OfMade, TakenMade, ToldMade, told
<1>11. ASSUME NEW t \in Offers, TimeToLiveEnds(t)
       PROVE  UNCHANGED <<pipe, taken, told>>
  BY <1>11 DEF TimeToLiveEnds
<1>12. CASE Drain \/ Restart \/ Rejected
  BY <1>7, <1>12, PipeShrinks DEF Drain, Restart, Rejected
<1>13. CASE Crash \/ UNCHANGED vars
  BY <1>13 DEF Crash, vars, told, Issued, OnlyMade, OfMade, TakenMade, ToldMade
<1>14. UNCHANGED <<pipe, taken, told>> => Issued' \subseteq Issued
  BY PipeShrinks
<1> QED BY <1>1, <1>2, <1>3, <1>4, <1>5, <1>6, <1>7, <1>8, <1>9, <1>10, <1>11,
           <1>12, <1>13, <1>14
        DEF Next, Redis, Couch, Disk

LEMMA OnlyMadeStep ==
  ASSUME TypeOK, OnlyMade, [Next]_vars
  PROVE  OnlyMade'
<1>1. ASSUME NEW t \in Offers, NEW b \in Bodies[t], Request(t, b)
      PROVE  OnlyMade'
  <2>1. /\ made' = made \cup {t} /\ UNCHANGED <<taken, ended, partly>>
        /\ \A c \in Issued' : c \in Issued \/ c.offer = t
    BY <1>1, RequestIs DEF told
  <2>2. \A s \in Offers, a \in Body : Bodied(s, a)' => s \in made'
    BY <1>1, <2>1, RequestIs DEF OnlyMade
  <2> QED BY <2>1, <2>2 DEF OnlyMade
<1>2. CASE ~\E t \in Offers : \E b \in Bodies[t] : Request(t, b)
  <2>1. OldBodies /\ made' = made
    BY <1>2, BodiesStep
  <2>2. \A t \in Offers, b \in Body : Bodied(t, b)' => t \in made'
    BY <2>1 DEF OldBodies, OnlyMade
  <2>3. (\A c \in Issued' : OfMade(c)) /\ TakenMade /\ ToldMade
    BY <1>2, MadeStep
  <2> QED BY <2>1, <2>2, <2>3 DEF OnlyMade, OfMade, TakenMade, ToldMade
<1> QED BY <1>1, <1>2
-----------------------------------------------------------------------------
(* Changes of owner name the recipient of an offer that took the device.    *)

LEMMA MigrateAddressed ==
  ASSUME TypeOK, Addressed, Bodied(T, B), B \in Body, T \in Offers,
         NEW D, NEW c, Migrate(D, B, c), UNCHANGED to
  PROVE  \A e \in edits' : <<e.offer, e.dev>> \in taken' /\ e.to = to'[e.offer]
<1>1. B.to = to[T]
  BY DEF Addressed
<1>2. taken \subseteq taken'
  BY DEF Migrate
<1>3. CASE B.to = B.from
  <2>1. edits' = edits
    BY <1>3 DEF Migrate
  <2> QED BY <1>2, <2>1 DEF Addressed
<1>4. CASE B.to # B.from
  <2> DEFINE new(d) == [dev |-> d, to |-> B.to, offer |-> T, by |-> c.by]
  <2>1. edits' = edits \cup {new(d) : d \in D}
    BY <1>4 DEF Migrate
  <2>2. \A d \in D : <<T, d>> \in taken'
    BY <1>4 DEF Migrate
  <2>3. \A d : new(d).dev = d /\ new(d).to = B.to /\ new(d).offer = T
    OBVIOUS
  <2> HIDE DEF new
  <2>4. \A e \in edits : <<e.offer, e.dev>> \in taken' /\ e.to = to[e.offer]
    BY <1>2 DEF Addressed
  <2>5. \A d \in D : <<new(d).offer, new(d).dev>> \in taken' /\ new(d).to = to[new(d).offer]
    BY <1>1, <2>2, <2>3
  <2> QED BY <2>1, <2>4, <2>5
<1> QED BY <1>3, <1>4

LEMMA AddressedStep ==
  ASSUME TypeOK, OnlyMade, Addressed, [Next]_vars
  PROVE  Addressed'
<1>1. ASSUME NEW t \in Offers, NEW b \in Bodies[t], Request(t, b)
      PROVE  Addressed'
  <2>1. /\ t \notin made /\ to' = [to EXCEPT ![t] = b.to]
        /\ UNCHANGED <<edits, taken>>
    BY <1>1, RequestIs DEF couch
  <2>2. to'[t] = b.to /\ \A s \in Offers \ {t} : to'[s] = to[s]
    BY <2>1 DEF TypeOK
  <2>3. \A s \in Offers, a \in Body : Bodied(s, a)' => a.to = to'[s]
    <3> SUFFICES ASSUME NEW s \in Offers, NEW a \in Body, Bodied(s, a)'
                 PROVE  a.to = to'[s]
      OBVIOUS
    <3>1. Bodied(s, a) \/ (s = t /\ a = b)
      BY <1>1, RequestIs
    <3>2. Bodied(s, a) => s # t /\ a.to = to[s]
      BY <2>1 DEF OnlyMade, Addressed
    <3> QED BY <2>2, <3>1, <3>2
  <2>4. ASSUME NEW e \in edits
        PROVE  <<e.offer, e.dev>> \in taken /\ e.to = to'[e.offer]
    <3>1. <<e.offer, e.dev>> \in taken /\ e.to = to[e.offer]
      BY DEF Addressed
    <3>2. <<e.offer, e.dev>>[1] = e.offer
      OBVIOUS
    <3>3. e.offer \in made /\ e.offer \in Offers
      BY <3>1, <3>2 DEF OnlyMade, TypeOK
    <3> QED BY <2>1, <2>2, <3>1, <3>3
  <2> QED BY <2>1, <2>3, <2>4 DEF Addressed
<1>2. CASE ~\E t \in Offers : \E b \in Bodies[t] : Request(t, b)
  <2>1. OldBodies /\ to' = to
    BY <1>2, BodiesStep
  <2>2. \A t \in Offers, b \in Body : Bodied(t, b)' => b.to = to'[t]
    BY <2>1 DEF OldBodies, Addressed, Like
  <2>3. CASE Accept \/ AcceptThrows
    <3>1. /\ Answering("get") /\ B # None
          /\ Migrate(Chosen(B, C.pick), B, C)
      BY <2>3 DEF Accept, AcceptThrows
    <3>2. \A e \in edits' : <<e.offer, e.dev>> \in taken' /\ e.to = to'[e.offer]
      BY <2>1, <3>1, FoundIsMade, MigrateAddressed
    <3> QED BY <2>2, <3>2 DEF Addressed
  <2>4. CASE edits' \subseteq edits /\ taken' = taken
    BY <2>1, <2>2, <2>4 DEF Addressed
  <2>5. CASE Missing \/ Empty \/ Decline \/ Written \/ Crash \/ Drain \/ Restart
             \/ Rejected \/ UNCHANGED vars
    BY <2>4, <2>5 DEF Missing, Empty, Decline, Written, Crash, Drain, Restart,
                      Rejected, vars, couch
  <2>6. ASSUME NEW e \in edits, EditArrives(e) \/ EditRefused(e)
        PROVE  Addressed'
    BY <2>4, <2>6 DEF EditArrives, EditRefused
  <2>7. ASSUME NEW m \in moves, Copied(m) \/ Removed(m)
        PROVE  Addressed'
    BY <2>4, <2>7 DEF Copied, Removed, couch
  <2>8. ASSUME NEW t \in Offers, (\E k \in Call : Ask(t, k)) \/ TimeToLiveEnds(t)
        PROVE  Addressed'
    BY <2>4, <2>8 DEF Ask, TimeToLiveEnds, couch
  <2> QED BY <1>2, <2>3, <2>5, <2>6, <2>7, <2>8 DEF Next, Redis, Couch, Disk
<1> QED BY <1>1, <1>2
-----------------------------------------------------------------------------
(* Transfers implement TransferContract. *)

LEMMA StoredIs ==
  ASSUME TypeOK, NEW t \in Offers
  PROVE  Stored(t) <=> \E b \in Body : Bodied(t, b)
<1>1. offers[t] \in Body \cup {None}
  BY DEF TypeOK
<1>2. \A c \in Issued : c.op = "set" => c.body \in Body
  BY IssuedIs, CommandIs
<1> QED BY <1>1, <1>2 DEF Stored, WritesOn, Bodied

phaseBar == [t \in Offers |-> Phase(t)]

(* But for requests, offers only close. *)
LEMMA PhaseStep ==
  ASSUME TypeOK, TypeOK', OldBodies, UNCHANGED made
  PROVE  \A t \in Offers :
           \/ Phase(t)' = Phase(t)
           \/ Phase(t) = "open" /\ Phase(t)' = "closed"
<1>1. ASSUME NEW t \in Offers
      PROVE  Stored(t)' => Stored(t)
  <2>1. offers'[t] \in Body \cup {None} /\ pipe' \in Seq(Command)
    BY DEF TypeOK
  <2>2. \A c \in Issued' : c.op = "set" => c.body \in Body
    BY <2>1, CommandIs DEF Issued
  <2>3. Stored(t)' => \E b \in Body : Bodied(t, b)'
    BY <2>1, <2>2 DEF Stored, WritesOn, Bodied
  <2> QED BY <2>3, StoredIs DEF OldBodies
<1> QED BY <1>1 DEF Phase

LEMMA CloseStep ==
  ASSUME TypeOK, TypeOK', OldBodies, UNCHANGED <<made, owner, to, taken>>
  PROVE  Contract!Next \/ UNCHANGED <<owner, phaseBar, to, taken>>
<1> DEFINE S == {t \in Offers : Phase(t) = "open" /\ Phase(t)' = "closed"}
<1>1. \A t \in Offers : Phase(t)' = IF t \in S THEN "closed" ELSE Phase(t)
  BY PhaseStep
<1>2. \A t \in S : phaseBar[t] = "open"
  BY DEF phaseBar
<1>3. phaseBar' = [t \in Offers |-> IF t \in S THEN "closed" ELSE phaseBar[t]]
  BY <1>1 DEF phaseBar
<1> HIDE DEF S
<1>4. Contract!Close(S)
  BY <1>2, <1>3 DEF Contract!Close, phaseBar
<1>5. S \in SUBSET Offers
  BY DEF S
<1> QED BY <1>4, <1>5 DEF Contract!Next

(* A request makes an offer. *)
LEMMA OfferStep ==
  ASSUME TypeOK, TypeOK', OnlyMade,
         NEW t \in Offers, NEW b \in Bodies[t], Request(t, b)
  PROVE  Contract!Offer(t, b.to) /\ b.to \in Owners
<1>1. /\ t \notin made /\ b \in Body /\ b.to \in Owners /\ made' = made \cup {t}
      /\ to' = [to EXCEPT ![t] = b.to] /\ UNCHANGED <<owner, taken, offers>>
  BY RequestIs DEF redis, couch
<1> DEFINE c == Save(t, b, None)
<1>2. c.op = "set" /\ c.offer = t /\ Issued' = Issued \cup {c}
  BY RequestIs
<1> HIDE DEF c
<1>3. Stored(t)'
  BY <1>2 DEF Stored, WritesOn
<1>4. \A s \in Offers \ {t} : Stored(s)' <=> Stored(s)
  BY <1>1, <1>2 DEF Stored, WritesOn
<1>5. Phase(t) = "none" /\ Phase(t)' = "open"
  BY <1>1, <1>3 DEF Phase
<1>6. \A s \in Offers \ {t} : Phase(s)' = Phase(s)
  BY <1>1, <1>4 DEF Phase
<1>7. phaseBar' = [phaseBar EXCEPT ![t] = "open"]
  BY <1>5, <1>6 DEF phaseBar
<1> QED BY <1>1, <1>5, <1>7 DEF Contract!Offer, phaseBar

(* An accept takes devices while the offer is there. *)
LEMMA TakeStep ==
  ASSUME TypeOK, TypeOK', OnlyMade, OldBodies, UNCHANGED <<made, owner, to, redis>>,
         Answering("get"), B # None, On(Tail(pipe)) \subseteq Issued',
         NEW D \in SUBSET Devices, NEW b, NEW c, Migrate(D, b, c)
  PROVE  Contract!Next \/ UNCHANGED <<owner, phaseBar, to, taken>>
<1>1. /\ T \in Offers /\ T \in made /\ offers[T] # None
      /\ pipe # <<>> /\ Head(pipe).op = "get"
  BY AnsweringGet, FoundIsMade DEF B
<1>2. Issued = {Head(pipe)} \cup On(Tail(pipe))
  BY <1>1, HeadIs
<1>3. \A t \in Offers : Stored(t) => Stored(t)'
  BY <1>1, <1>2 DEF Stored, WritesOn, redis
<1>4. \A t \in Offers : Phase(t)' = Phase(t)
  BY <1>3, PhaseStep DEF Phase
<1>5. phaseBar' = phaseBar
  BY <1>4 DEF phaseBar
<1>6. phaseBar[T] = "open"
  BY <1>1 DEF phaseBar, Phase, Stored
<1>7. \/ taken' = taken
      \/ taken' = taken \cup {<<T, d>> : d \in D}
  BY DEF Migrate
<1>8. CASE taken' = taken \cup {<<T, d>> : d \in D}
  <2>1. Contract!Take(T, D)
    BY <1>5, <1>6, <1>8 DEF Contract!Take, phaseBar
  <2> QED BY <1>1, <2>1 DEF Contract!Next
<1> QED BY <1>5, <1>7, <1>8

(* A device moves to the recipient of an offer that took it. *)
LEMMA MoveStep ==
  ASSUME TypeOK, Addressed, NEW e \in edits, EditArrives(e)
  PROVE  Contract!Move(e.offer, e.dev) /\ e.offer \in Offers /\ e.dev \in Devices
<1>1. <<e.offer, e.dev>> \in taken /\ e.to = to[e.offer]
  BY DEF Addressed
<1>2. owner' = [owner EXCEPT ![e.dev] = e.to] /\ UNCHANGED <<offers, pipe, made, to, taken>>
  BY DEF EditArrives, redis
<1>3. \A t \in Offers : Phase(t)' = Phase(t)
  BY <1>2 DEF Phase, Stored, WritesOn, Issued
<1>4. e.offer \in Offers /\ e.dev \in Devices
  BY DEF TypeOK, Edit
<1> QED BY <1>1, <1>2, <1>3, <1>4 DEF Contract!Move, phaseBar

LEMMA ContractStep ==
  ASSUME TypeOK, TypeOK', OnlyMade, Addressed, [Next]_vars
  PROVE  Contract!Next \/ UNCHANGED <<owner, phaseBar, to, taken>>
<1>1. ASSUME NEW t \in Offers, NEW b \in Bodies[t], Request(t, b)
      PROVE  Contract!Next
  BY <1>1, OfferStep DEF Contract!Next
<1>2. CASE ~\E t \in Offers : \E b \in Bodies[t] : Request(t, b)
  <2>1. OldBodies /\ UNCHANGED <<to, made>>
    BY <1>2, BodiesStep
  <2>2. CASE Accept
    <3>1. /\ Answering("get") /\ B # None /\ up /\ UNCHANGED <<redis, owner>>
          /\ Migrate(Chosen(B, C.pick), B, C) /\ Then(Follow(Remaining(B, C.pick)))
      BY <2>2 DEF Accept, Follow
    <3>2. pipe # <<>> /\ Chosen(B, C.pick) \in SUBSET Devices
      BY <3>1, AnsweringGet
    <3>3. On(Tail(pipe)) \subseteq Issued'
      BY <3>1, <3>2, FollowIs, ThenType
    <3> QED BY <2>1, <3>1, <3>2, <3>3, TakeStep
  <2>3. CASE AcceptThrows
    <3>1. /\ Answering("get") /\ B # None /\ up /\ UNCHANGED <<redis, owner>>
          /\ Migrate(Chosen(B, C.pick), B, C) /\ Then(<<>>)
      BY <2>3 DEF AcceptThrows
    <3>2. pipe # <<>> /\ Chosen(B, C.pick) \in SUBSET Devices
      BY <3>1, AnsweringGet
    <3>3. On(Tail(pipe)) \subseteq Issued'
      BY <3>1, <3>2, NoCommands, ThenType
    <3> QED BY <2>1, <3>1, <3>2, <3>3, TakeStep
  <2>4. CASE UNCHANGED <<owner, taken>>
    BY <2>1, <2>4, CloseStep
  <2>5. CASE Missing \/ Empty \/ Decline \/ Written \/ Crash \/ Drain \/ Restart
             \/ Rejected \/ UNCHANGED vars
    BY <2>4, <2>5 DEF Missing, Empty, Decline, Written, Crash, Drain, Restart,
                      Rejected, vars, couch
  <2>6. ASSUME NEW e \in edits, EditArrives(e)
        PROVE  Contract!Next
    BY <2>6, MoveStep DEF Contract!Next
  <2>7. ASSUME NEW e \in edits, EditRefused(e)
        PROVE  UNCHANGED <<owner, taken>>
    BY <2>7 DEF EditRefused
  <2>8. ASSUME NEW m \in moves, Copied(m) \/ Removed(m)
        PROVE  UNCHANGED <<owner, taken>>
    BY <2>8 DEF Copied, Removed, couch
  <2>9. ASSUME NEW t \in Offers, (\E k \in Call : Ask(t, k)) \/ TimeToLiveEnds(t)
        PROVE  UNCHANGED <<owner, taken>>
    BY <2>9 DEF Ask, TimeToLiveEnds, couch
  <2> QED BY <1>2, <2>2, <2>3, <2>4, <2>5, <2>6, <2>7, <2>8, <2>9
          DEF Next, Redis, Couch, Disk
<1> QED BY <1>1, <1>2

LEMMA InitParts ==
  ASSUME Init
  PROVE  OnlyMade /\ Addressed /\ Contract!Init
<1>1. /\ offers = [t \in Offers |-> None] /\ pipe = <<>> /\ edits = {}
      /\ taken = {} /\ ended = {} /\ partly = {} /\ made = {}
      /\ to = [t \in Offers |-> None] /\ owner = FirstOwner
  BY DEF Init
<1>2. Issued = {}
  BY <1>1 DEF Issued
<1>3. \A t \in Offers, b \in Body : ~Bodied(t, b)
  BY <1>1, <1>2 DEF Bodied
<1>4. OnlyMade /\ Addressed
  BY <1>1, <1>2, <1>3 DEF OnlyMade, Addressed
<1>5. \A t \in Offers : Phase(t) = "none"
  BY <1>1 DEF Phase
<1>6. Contract!Init
  BY <1>1, <1>5, TransferAssumption DEF Contract!Init
<1> QED BY <1>4, <1>6

(* A device moves only to the recipient of an offer that accept took for it *)
(* while it was open, and no offer opens again: for any owners, devices,    *)
(* offers, overlapping calls, failures and crashes (transfer.js:307-511).   *)
THEOREM TransferImplements == Spec => ImplementsContract
<1>1. Init => OnlyMade /\ Addressed /\ Contract!Init
  BY InitParts
<1>2. TypeOK /\ OnlyMade /\ Addressed /\ [Next]_vars => OnlyMade' /\ Addressed'
  BY OnlyMadeStep, AddressedStep
<1>3. TypeOK /\ TypeOK' /\ OnlyMade /\ Addressed /\ [Next]_vars =>
        [Contract!Next]_<<owner, phaseBar, to, taken>>
  BY ContractStep
<1> QED BY <1>1, <1>2, <1>3, TransferTypeCorrect, PTL
        DEF Spec, ImplementsContract, Contract!Spec, phaseBar
-----------------------------------------------------------------------------
(* What was answered ends. *)

LEMMA SizeOf ==
  ASSUME Sized, NEW t \in Offers, NEW b \in Body, Bodied(t, b)
  PROVE  IF Partial(b) THEN AllPartial(t) ELSE NonePartial(t)
BY DEF Sized, AllPartial, NonePartial

LEMMA SizeKept ==
  ASSUME OldBodies, NEW t \in Offers
  PROVE  (AllPartial(t) => AllPartial(t)') /\ (NonePartial(t) => NonePartial(t)')
BY DEF OldBodies, AllPartial, NonePartial, Like

(* A step that tells and issues what fits the offers' sizes. *)
LEMMA SizedBy ==
  ASSUME TypeOK, Sized, OldBodies,
         \A t \in ended' \ ended : t \in Offers /\ NonePartial(t),
         \A t \in partly' \ partly : t \in Offers /\ AllPartial(t),
         \A c \in Issued' \ Issued :
           c.op = "expire" => c.offer \in Offers /\ AllPartial(c.offer)
  PROVE  Sized'
<1>1. \A t \in Offers : AllPartial(t)' \/ NonePartial(t)'
  BY SizeKept DEF Sized
<1>2. \A t \in ended' : NonePartial(t)'
  BY SizeKept DEF Sized, TypeOK
<1>3. \A t \in partly' : AllPartial(t)'
  BY SizeKept DEF Sized, TypeOK
<1>4. \A c \in Issued' : c.op = "expire" => AllPartial(c.offer)'
  BY SizeKept, IssuedIs DEF Sized
<1> QED BY <1>1, <1>2, <1>3, <1>4 DEF Sized

LEMMA SizedStep ==
  ASSUME TypeOK, OnlyMade, Sized, [Next]_vars, ~disturbed', ~up => disturbed
  PROVE  Sized'
<1>1. ASSUME NEW t \in Offers, NEW b \in Bodies[t], Request(t, b)
      PROVE  Sized'
  <2>1. /\ t \notin made /\ b \in Body /\ UNCHANGED <<ended, partly>>
        /\ \A c \in Issued' : c \in Issued \/ c.op = "set"
        /\ \A s \in Offers, a \in Body : Bodied(s, a)' <=> Bodied(s, a) \/ (s = t /\ a = b)
    BY <1>1, RequestIs DEF told
  <2>2. \A a \in Body : Bodied(t, a)' <=> a = b
    BY <2>1 DEF OnlyMade
  <2>3. AllPartial(t)' \/ NonePartial(t)'
    BY <2>2 DEF AllPartial, NonePartial
  <2>4. \A s \in Offers \ {t} : /\ AllPartial(s)' <=> AllPartial(s)
                                /\ NonePartial(s)' <=> NonePartial(s)
    BY <2>1 DEF AllPartial, NonePartial
  <2>5. /\ \A s \in ended \cup partly : s \in Offers \ {t}
        /\ \A c \in Issued : c.offer \in Offers \ {t}
    BY <2>1, IssuedIs DEF OnlyMade, TypeOK
  <2>6. \A s \in Offers : AllPartial(s)' \/ NonePartial(s)'
    BY <2>3, <2>4 DEF Sized
  <2>7. (\A s \in ended : NonePartial(s)') /\ (\A s \in partly : AllPartial(s)')
    BY <2>4, <2>5 DEF Sized
  <2>8. \A c \in Issued : c.op = "expire" => AllPartial(c.offer)'
    BY <2>4, <2>5 DEF Sized
  <2> QED BY <2>1, <2>6, <2>7, <2>8 DEF Sized
<1>2. CASE ~\E t \in Offers : \E b \in Bodies[t] : Request(t, b)
  <2>1. OldBodies
    BY <1>2, BodiesStep
  <2>2. CASE Missing
    <3>1. pipe # <<>> /\ up /\ Then(<<>>) /\ UNCHANGED <<ended, partly>>
      BY <2>2 DEF Missing, Answering, told
    <3>2. Issued' \subseteq Issued
      BY <3>1, NoCommands, ThenType, HeadIs
    <3> QED BY <2>1, <3>1, <3>2, SizedBy
  <2>3. CASE Empty
    <3>1. /\ Answering("get") /\ B # None /\ up /\ UNCHANGED partly /\ B.udids = <<>>
          /\ Then(<<Del(T), Save(T, B, C)>>) \/ Then(<<Del(T)>>)
          /\ ended' \subseteq ended \cup {T}
      BY <2>3 DEF Empty
    <3>2. /\ pipe # <<>> /\ T \in Offers /\ B \in Body /\ Bodied(T, B)
          /\ On(Tail(pipe)) \subseteq Issued
      BY <3>1, AnsweringGet, FoundIsMade, HeadIs
    <3>3. ~Partial(B)
      BY <3>1, NoCommands DEF Partial
    <3>4. NonePartial(T)
      BY <3>2, <3>3, SizeOf
    <3>5. \A c \in Issued' \ Issued : c.op # "expire"
      <4>1. \/ Issued' = On(Tail(pipe)) \cup {Del(T), Save(T, B, C)}
            \/ Issued' = On(Tail(pipe)) \cup {Del(T)}
        BY <3>1, <3>2, EmptyIs, ThenType
      <4> QED BY <3>1, <3>2, <4>1, EmptyIs
    <3> QED BY <2>1, <3>1, <3>2, <3>4, <3>5, SizedBy
  <2>4. CASE Accept
    <3> DEFINE b == Remaining(B, C.pick)
    <3>1. /\ Answering("get") /\ B # None /\ up /\ Then(Follow(b))
          /\ IF Partial(b) THEN partly' = partly \cup {T} /\ ended' = ended
                           ELSE ended' = ended \cup {T} /\ partly' = partly
      BY <2>4 DEF Accept, Follow
    <3>2. /\ pipe # <<>> /\ T \in Offers /\ B \in Body /\ b \in Body /\ Bodied(T, B)
          /\ On(Tail(pipe)) \subseteq Issued /\ (Partial(b) <=> Partial(B))
      BY <3>1, AnsweringGet, FoundIsMade, HeadIs, RemainingIs
    <3>3. /\ Follow(b) \in Seq(Command)
          /\ On(Follow(b)) = {Save(T, b, None), End(T, b, FALSE)}
      BY <3>2, FollowType
    <3>4. Issued' = On(Tail(pipe)) \cup {Save(T, b, None), End(T, b, FALSE)}
      BY <3>1, <3>2, <3>3, ThenType
    <3>5. Save(T, b, None).op = "set"
      BY <3>2, MadeCommands
    <3>6. /\ End(T, b, FALSE).offer = T
          /\ End(T, b, FALSE).op = IF Partial(b) THEN "expire" ELSE "del"
      BY <3>2, EndIs
    <3>7. IF Partial(b) THEN AllPartial(T) ELSE NonePartial(T)
      BY <3>2, SizeOf
    <3> HIDE DEF b
    <3> QED BY <2>1, <3>1, <3>2, <3>4, <3>5, <3>6, <3>7, SizedBy
  <2>5. CASE AcceptThrows
    <3>1. Answering("get") /\ B # None /\ up /\ Then(<<>>) /\ UNCHANGED <<ended, partly>>
      BY <2>5 DEF AcceptThrows, told
    <3>2. pipe # <<>>
      BY <3>1, AnsweringGet
    <3>3. Issued' \subseteq Issued
      BY <3>1, <3>2, NoCommands, ThenType, HeadIs
    <3> QED BY <2>1, <3>1, <3>3, SizedBy
  <2>6. CASE Decline
    <3>1. /\ Answering("get") /\ B # None /\ up /\ UNCHANGED <<ended, partly>>
          /\ Then(<<Save(T, Remaining(B, C.pick), C)>>)
      BY <2>6 DEF Decline, told
    <3>2. pipe # <<>> /\ On(Tail(pipe)) \subseteq Issued
      BY <3>1, AnsweringGet, HeadIs
    <3>3. Issued' = On(Tail(pipe)) \cup {Save(T, Remaining(B, C.pick), C)}
      BY <3>1, <3>2, DeclinedIs, ThenType
    <3>4. \A c \in Issued' \ Issued : c.op # "expire"
      BY <3>1, <3>2, <3>3, DeclinedIs
    <3> QED BY <2>1, <3>1, <3>4, SizedBy
  <2>7. CASE Written
    <3> DEFINE c == Head(pipe)
    <3>1. /\ c \in Command /\ c \in Issued /\ T \in Offers /\ T = c.offer
          /\ ended' = IF c.op = "set" /\ c.call # None /\ ~Partial(c.body)
                      THEN ended \cup {T} ELSE ended
          /\ partly' = IF c.op = "expire" /\ c.tell THEN partly \cup {T} ELSE partly
      BY <2>7, WrittenIs, WrittenIssued, HeadIs DEF T
    <3>2. \A d \in Issued' \ Issued :
            /\ c.op = "set" /\ d.offer = T
            /\ d.op = "expire" => Partial(c.body)
      BY <2>7, WrittenIssued
    <3> HIDE DEF c
    <3>3. c.op = "set" => c.body \in Body /\ Bodied(T, c.body)
      BY <3>1, CommandIs DEF Bodied
    <3>4. c.op = "set" => IF Partial(c.body) THEN AllPartial(T) ELSE NonePartial(T)
      BY <3>1, <3>3, SizeOf
    <3>5. c.op = "expire" => AllPartial(T)
      BY <3>1 DEF Sized
    <3>6. \A t \in ended' \ ended : t \in Offers /\ NonePartial(t)
      BY <3>1, <3>4
    <3>7. \A t \in partly' \ partly : t \in Offers /\ AllPartial(t)
      BY <3>1, <3>5
    <3>8. \A d \in Issued' \ Issued : d.op = "expire" => d.offer \in Offers /\ AllPartial(d.offer)
      BY <3>1, <3>2, <3>4
    <3> QED BY <2>1, <3>6, <3>7, <3>8, SizedBy
  <2>8. CASE UNCHANGED <<ended, partly>> /\ \A c \in Issued' : c \in Issued \/ c.op = "get"
    BY <2>1, <2>8, SizedBy
  <2>9. ASSUME NEW t \in Offers, NEW k \in Call, Ask(t, k)
        PROVE  Sized'
    <3> DEFINE c == [op |-> "get", offer |-> t, call |-> k]
    <3>1. c \in Command /\ c.op = "get" /\ pipe \in Seq(Command)
      BY DEF Command, TypeOK
    <3>2. pipe' = Append(pipe, c) /\ UNCHANGED <<ended, partly>>
      BY <2>9 DEF Ask, told
    <3> HIDE DEF c
    <3>3. Issued' = Issued \cup {c}
      BY <3>1, <3>2, OnAppend DEF Issued, On
    <3> QED BY <2>8, <3>1, <3>2, <3>3
  <2>10. CASE UNCHANGED <<pipe, told>>
    BY <2>8, <2>10, PipeShrinks DEF told
  <2>11. ASSUME NEW e \in edits, EditArrives(e)
         PROVE  UNCHANGED <<pipe, told>>
    BY <2>11 DEF EditArrives
  <2>12. ASSUME NEW m \in moves, Copied(m) \/ Removed(m)
         PROVE  UNCHANGED <<pipe, told>>
    BY <2>12 DEF Copied, Removed
  <2>13. ASSUME NEW t \in Offers, TimeToLiveEnds(t)
         PROVE  UNCHANGED <<pipe, told>>
    BY <2>13 DEF TimeToLiveEnds
  <2>14. CASE UNCHANGED vars
    BY <2>10, <2>14 DEF vars, told
  <2>15. ~Crash /\ ~Drain /\ ~Restart /\ ~Rejected /\ \A e \in edits : ~EditRefused(e)
    BY DEF Crash, Drain, Restart, Rejected, EditRefused
  <2> QED BY <1>2, <2>2, <2>3, <2>4, <2>5, <2>6, <2>7, <2>9, <2>10, <2>11, <2>12,
             <2>13, <2>14, <2>15
          DEF Next, Redis, Couch, Disk
<1> QED BY <1>1, <1>2

(* An open SET of a pipe whose head was answered was open before. *)
LEMMA OpenThen ==
  ASSUME NEW p \in Seq(Command), p # <<>>, NEW cs \in Seq(Command),
         \A j \in 1..Len(cs) : ~Open(cs, j),
         NEW i, Open(Tail(p) \o cs, i)
  PROVE  /\ i \in 1..Len(p) - 1 /\ (Tail(p) \o cs)[i] = p[i + 1]
         /\ Open(p, i + 1)
         /\ \A c \in On(cs) : ~Ends(c, p[i + 1].offer)
<1> DEFINE q == Tail(p) \o cs
           n == Len(p) - 1
<1>1. /\ q \in Seq(Command) /\ Len(q) = n + Len(cs)
      /\ \A k \in 1..n : q[k] = p[k + 1]
      /\ \A j \in 1..Len(cs) : q[n + j] = cs[j]
  BY ThenIs
<1>2. n \in Nat /\ Len(cs) \in Nat /\ Len(p) = n + 1
  BY TailIndex
<1> HIDE DEF q, n
<1>3. /\ i \in 1..Len(q) /\ q[i].op = "set" /\ q[i].call = None
      /\ \A j \in 1..Len(q) : j > i => ~Ends(q[j], q[i].offer)
  BY DEF Open, q
<1>4. i <= n
  <2> SUFFICES ASSUME i > n
               PROVE  FALSE
    BY <1>1, <1>2, <1>3
  <2> DEFINE j == i - n
  <2>1. j \in 1..Len(cs) /\ i = n + j
    BY <1>1, <1>2, <1>3
  <2> HIDE DEF j
  <2>2. cs[j].op = "set" /\ cs[j].call = None /\ cs[j] = q[i]
    BY <1>1, <1>3, <2>1
  <2>3. ASSUME NEW k \in 1..Len(cs), k > j
        PROVE  ~Ends(cs[k], cs[j].offer)
    <3>1. n + k \in 1..Len(q) /\ n + k > i /\ q[n + k] = cs[k]
      BY <1>1, <1>2, <2>1, <2>3
    <3> QED BY <1>3, <2>2, <3>1
  <2>4. Open(cs, j)
    BY <2>1, <2>2, <2>3 DEF Open
  <2> QED BY <2>1, <2>4
<1>5. i \in 1..n /\ q[i] = p[i + 1]
  BY <1>1, <1>2, <1>3, <1>4
<1>6. \A c \in On(cs) : ~Ends(c, p[i + 1].offer)
  <2> SUFFICES ASSUME NEW j \in 1..Len(cs)
               PROVE  ~Ends(cs[j], p[i + 1].offer)
    BY DEF On
  <2>1. n + j \in 1..Len(q) /\ n + j > i /\ q[n + j] = cs[j]
    BY <1>1, <1>2, <1>5
  <2> QED BY <1>3, <1>5, <2>1
<1>7. Open(p, i + 1)
  <2>1. i + 1 \in 1..Len(p) /\ p[i + 1].op = "set" /\ p[i + 1].call = None
    BY <1>2, <1>3, <1>5
  <2>2. ASSUME NEW j \in 1..Len(p), j > i + 1
        PROVE  ~Ends(p[j], p[i + 1].offer)
    <3>1. j - 1 \in 1..n /\ j - 1 \in 1..Len(q) /\ j - 1 > i /\ q[j - 1] = p[j]
      BY <1>1, <1>2, <1>5, <2>2
    <3> QED BY <1>3, <1>5, <3>1
  <2> QED BY <2>1, <2>2 DEF Open
<1> QED BY <1>2, <1>5, <1>6, <1>7 DEF q, n

(* Steps that answer the head of the pipe: they touch its offer only, and   *)
(* that is one whose SET of the request was executed or is the head.        *)
LEMMA FirstIsOpenThen ==
  ASSUME TypeOK, FirstIsOpen, pipe # <<>>, NEW cs \in Seq(Command),
         pipe' = Tail(pipe) \o cs, \A j \in 1..Len(cs) : ~Open(cs, j),
         \/ offers[T] # None
         \/ Writes(Head(pipe), T)
         \/ cs = <<>> /\ UNCHANGED <<offers, ended, partly>>,
         \A c \in On(cs) : c.offer = T,
         \A t \in Offers : t # T => offers'[t] = offers[t],
         ended' \subseteq ended \cup {T}, partly' \subseteq partly \cup {T}
  PROVE  FirstIsOpen'
<1> SUFFICES ASSUME NEW i \in 1..Len(pipe'), Open(pipe', i)
             PROVE  /\ offers'[pipe'[i].offer] = None
                    /\ pipe'[i].offer \notin ended' \cup partly'
                    /\ \A j \in 1..Len(pipe') : Writes(pipe'[j], pipe'[i].offer) => j = i
  BY DEF FirstIsOpen
<1> DEFINE t == pipe[i + 1].offer
           n == Len(pipe) - 1
<1>1. pipe \in Seq(Command)
  BY DEF TypeOK
<1>2. /\ i \in 1..n /\ pipe'[i] = pipe[i + 1] /\ Open(pipe, i + 1)
  <2>1. Open(Tail(pipe) \o cs, i)
    OBVIOUS
  <2>2. /\ i \in 1..Len(pipe) - 1 /\ (Tail(pipe) \o cs)[i] = pipe[i + 1]
        /\ Open(pipe, i + 1)
    BY <1>1, <2>1, OpenThen
  <2> QED BY <2>2
<1>3. n \in Nat /\ Len(pipe) = n + 1 /\ pipe[1] = Head(pipe) /\ Len(cs) \in Nat
  BY <1>1, TailIndex
<1>4. /\ Len(pipe') = n + Len(cs)
      /\ \A k \in 1..n : pipe'[k] = pipe[k + 1]
      /\ \A j \in 1..Len(cs) : pipe'[n + j] = cs[j]
  BY <1>1, ThenIs
<1> HIDE DEF n
<1>5. i + 1 \in 1..Len(pipe)
  BY <1>2, <1>3
<1>6. /\ offers[t] = None /\ t \notin ended \cup partly
      /\ \A j \in 1..Len(pipe) : Writes(pipe[j], t) => j = i + 1
  BY <1>2, <1>5 DEF FirstIsOpen
<1>7. t \in Offers
  BY <1>1, <1>5, CommandIs
<1>8. ~Writes(Head(pipe), t)
  <2>1. 1 \in 1..Len(pipe) /\ 1 # i + 1
    BY <1>2, <1>3
  <2> QED BY <1>3, <1>6, <2>1
<1>9. T # t \/ (cs = <<>> /\ UNCHANGED <<offers, ended, partly>>)
  BY <1>6, <1>8
<1>10. offers'[t] = None /\ t \notin ended' \cup partly'
  BY <1>6, <1>7, <1>9
<1>11. ASSUME NEW j \in 1..Len(pipe'), Writes(pipe'[j], t)
       PROVE  j = i
  <2>1. CASE j <= n
    <3>1. j + 1 \in 1..Len(pipe) /\ pipe'[j] = pipe[j + 1]
      BY <1>3, <1>4, <2>1
    <3> QED BY <1>2, <1>6, <1>11, <3>1
  <2>2. CASE j > n
    <3> DEFINE k == j - n
    <3>1. k \in 1..Len(cs) /\ j = n + k
      BY <1>3, <1>4, <2>2
    <3> HIDE DEF k
    <3>2. pipe'[j] = cs[k] /\ cs[k] \in On(cs) /\ cs # <<>>
      BY <1>3, <1>4, <3>1 DEF On
    <3>3. pipe'[j].offer = T /\ T # t
      BY <1>9, <3>2
    <3> QED BY <1>11, <3>3 DEF Writes
  <2> QED BY <1>3, <2>1, <2>2
<1> QED BY <1>2, <1>10, <1>11

(* Calls: a command is issued behind what there is. *)
LEMMA FirstIsOpenAppend ==
  ASSUME TypeOK, OnlyMade, FirstIsOpen, NEW c \in Command, pipe' = Append(pipe, c),
         UNCHANGED <<offers, ended, partly>>,
         \/ c.op = "get"
         \/ c.op = "set" /\ c.offer \notin made
  PROVE  FirstIsOpen'
<1> SUFFICES ASSUME NEW i \in 1..Len(pipe'), Open(pipe', i)
             PROVE  /\ offers[pipe'[i].offer] = None
                    /\ pipe'[i].offer \notin ended \cup partly
                    /\ \A j \in 1..Len(pipe') : Writes(pipe'[j], pipe'[i].offer) => j = i
  BY DEF FirstIsOpen
<1> DEFINE n == Len(pipe)
           t == pipe'[i].offer
<1>1. pipe \in Seq(Command) /\ n \in Nat
  BY DEF TypeOK
<1>2. /\ Len(pipe') = n + 1 /\ pipe'[n + 1] = c
      /\ \A j \in 1..n : pipe'[j] = pipe[j]
  BY <1>1
<1> HIDE DEF n
<1>3. /\ pipe'[i].op = "set" /\ pipe'[i].call = None
      /\ \A j \in 1..Len(pipe') : j > i => ~Ends(pipe'[j], t)
  BY DEF Open
<1>4. \A j \in 1..n : pipe[j] \in Issued /\ pipe[j].offer \in made
  BY DEF Issued, n, OnlyMade
<1>5. CASE i <= n
  <2>1. i \in 1..n /\ pipe'[i] = pipe[i] /\ t \in made
    BY <1>1, <1>2, <1>4, <1>5
  <2>2. Open(pipe, i)
    <3>1. \A j \in 1..n : j > i => ~Ends(pipe[j], t)
      BY <1>1, <1>2, <1>3
    <3> QED BY <1>3, <2>1, <3>1 DEF Open, n
  <2>3. /\ offers[t] = None /\ t \notin ended \cup partly
        /\ \A j \in 1..n : Writes(pipe[j], t) => j = i
    BY <2>1, <2>2 DEF FirstIsOpen, n
  <2>4. ~Writes(c, t)
    BY <2>1 DEF Writes
  <2>5. \A j \in 1..Len(pipe') : Writes(pipe'[j], t) => j = i
    BY <1>1, <1>2, <2>3, <2>4
  <2> QED BY <2>3, <2>5
<1>6. CASE i > n
  <2>1. i = n + 1 /\ t = c.offer /\ c.op = "set" /\ t \notin made
    BY <1>1, <1>2, <1>3, <1>6
  <2>2. t \in Offers
    BY <2>1, CommandIs
  <2>3. offers[t] = None
    <3>1. offers[t] \in Body => Bodied(t, offers[t])
      BY TransferAssumption DEF Bodied
    <3> QED BY <2>1, <2>2, <3>1 DEF OnlyMade, TypeOK
  <2>4. t \notin ended \cup partly
    BY <2>1 DEF OnlyMade
  <2>5. \A j \in 1..Len(pipe') : Writes(pipe'[j], t) => j = i
    BY <1>1, <1>2, <1>4, <2>1 DEF Writes
  <2> QED BY <2>3, <2>4, <2>5
<1> QED BY <1>1, <1>2, <1>5, <1>6

(* No callback issues an open SET. *)
LEMMA NoneOpen ==
  /\ \A j \in 1..Len(<<>>) : ~Open(<<>>, j)
  /\ \A x \in Command : x.op # "set" \/ x.call # None =>
       \A j \in 1..Len(<<x>>) : ~Open(<<x>>, j)
  /\ \A x, y \in Command :
       (x.op # "set" \/ x.call # None \/ Ends(y, x.offer))
         /\ (y.op # "set" \/ y.call # None) =>
       \A j \in 1..Len(<<x, y>>) : ~Open(<<x, y>>, j)
<1>1. \A j \in 1..Len(<<>>) : ~Open(<<>>, j)
  BY NoCommands
<1>2. ASSUME NEW x \in Command, x.op # "set" \/ x.call # None,
             NEW j \in 1..Len(<<x>>)
      PROVE  ~Open(<<x>>, j)
  <2>1. j = 1 /\ <<x>>[1] = x
    BY OneCommand
  <2> QED BY <1>2, <2>1 DEF Open
<1>3. ASSUME NEW x \in Command, NEW y \in Command,
             x.op # "set" \/ x.call # None \/ Ends(y, x.offer),
             y.op # "set" \/ y.call # None,
             NEW j \in 1..Len(<<x, y>>), Open(<<x, y>>, j)
      PROVE  FALSE
  <2> DEFINE q == <<x, y>>
  <2>1. Len(q) = 2 /\ q[1] = x /\ q[2] = y
    BY TwoCommands
  <2> HIDE DEF q
  <2>2. /\ j \in 1..Len(q) /\ q[j].op = "set" /\ q[j].call = None
        /\ \A k \in 1..Len(q) : k > j => ~Ends(q[k], q[j].offer)
    BY <1>3 DEF Open, q
  <2>3. j \in {1, 2}
    BY <2>1, <2>2
  <2>4. CASE j = 1
    <3>1. 2 \in 1..Len(q) /\ 2 > j
      BY <2>1, <2>4
    <3> QED BY <1>3, <2>1, <2>2, <2>4, <3>1
  <2>5. CASE j = 2
    BY <1>3, <2>1, <2>2, <2>5
  <2> QED BY <2>3, <2>4, <2>5
<1> QED BY <1>1, <1>2, <1>3

LEMMA FollowNotOpen ==
  ASSUME NEW b \in Body, T \in Offers
  PROVE  \A j \in 1..Len(Follow(b)) : ~Open(Follow(b), j)
<1> DEFINE x == Save(T, b, None)
           y == End(T, b, FALSE)
<1>1. x \in Command /\ x.offer = T
  BY MadeCommands
<1>2. y \in Command /\ y.offer = T /\ y.op \in {"expire", "del"}
  BY EndIs
<1> HIDE DEF x, y
<1>3. Ends(y, x.offer) /\ y.op # "set"
  BY <1>1, <1>2 DEF Ends
<1>4. \A j \in 1..Len(<<x, y>>) : ~Open(<<x, y>>, j)
  BY <1>1, <1>2, <1>3, NoneOpen
<1> QED BY <1>4 DEF Follow, x, y

LEMMA FinishNotOpen ==
  ASSUME NEW c \in Command
  PROVE  \A j \in 1..Len(Finish(c)) : ~Open(Finish(c), j)
<1>1. Finish(c) \in Seq(Command) /\ \A d \in On(Finish(c)) : d.op # "set"
  <2> SUFFICES ASSUME NEW d \in On(Finish(c))
               PROVE  d.op # "set"
    BY FinishType
  <2>1. c.op = "set" /\ d = End(c.offer, c.body, TRUE)
    BY FinishType
  <2>2. c.body \in Body /\ c.offer \in Offers
    BY <2>1, CommandIs
  <2> QED BY <2>1, <2>2, EndIs
<1> DEFINE f == Finish(c)
<1> HIDE DEF f
<1>2. \A d \in On(f) : d.op # "set"
  BY <1>1 DEF f
<1>3. \A j \in 1..Len(f) : ~Open(f, j)
  BY <1>2 DEF Open, On
<1> QED BY <1>3 DEF f

LEMMA FirstIsOpenStep ==
  ASSUME TypeOK, OnlyMade, FirstIsOpen, [Next]_vars, ~disturbed', ~up => disturbed
  PROVE  FirstIsOpen'
<1>1. ASSUME NEW t \in Offers, NEW b \in Bodies[t], Request(t, b)
      PROVE  FirstIsOpen'
  <2> DEFINE c == Save(t, b, None)
  <2>1. /\ c \in Command /\ c.op = "set" /\ c.offer = t /\ t \notin made
        /\ pipe' = Append(pipe, c) /\ UNCHANGED <<offers, ended, partly>>
    BY <1>1, RequestIs DEF redis, told
  <2> HIDE DEF c
  <2> QED BY <2>1, FirstIsOpenAppend
<1>2. ASSUME NEW t \in Offers, NEW k \in Call, Ask(t, k)
      PROVE  FirstIsOpen'
  <2> DEFINE c == [op |-> "get", offer |-> t, call |-> k]
  <2>1. c \in Command /\ c.op = "get"
    BY DEF Command
  <2>2. pipe' = Append(pipe, c) /\ UNCHANGED <<offers, ended, partly>>
    BY <1>2 DEF Ask, redis, told
  <2> HIDE DEF c
  <2> QED BY <2>1, <2>2, FirstIsOpenAppend
<1>3. CASE Missing
  <2>1. pipe # <<>> /\ up /\ Then(<<>>) /\ UNCHANGED <<offers, ended, partly>>
    BY <1>3 DEF Missing, Answering, redis, told
  <2>2. pipe' = Tail(pipe) \o <<>>
    BY <2>1 DEF Then
  <2> QED BY <2>1, <2>2, NoCommands, NoneOpen, FirstIsOpenThen
<1>4. CASE Empty
  <2>1. /\ Answering("get") /\ B # None /\ up /\ UNCHANGED <<offers, partly>>
        /\ Then(<<Del(T), Save(T, B, C)>>) \/ Then(<<Del(T)>>)
        /\ ended' \subseteq ended \cup {T}
    BY <1>4 DEF Empty, redis
  <2>2. pipe # <<>> /\ offers[T] # None
    BY <2>1 DEF Answering, B
  <2>3. /\ \A j \in 1..Len(<<Del(T), Save(T, B, C)>>) : ~Open(<<Del(T), Save(T, B, C)>>, j)
        /\ \A j \in 1..Len(<<Del(T)>>) : ~Open(<<Del(T)>>, j)
    <3> DEFINE x == Del(T)
               y == Save(T, B, C)
    <3>1. x \in Command /\ x.op # "set" /\ y \in Command /\ y.call # None
      BY <2>1, EmptyIs
    <3> HIDE DEF x, y
    <3>2. /\ \A j \in 1..Len(<<x, y>>) : ~Open(<<x, y>>, j)
          /\ \A j \in 1..Len(<<x>>) : ~Open(<<x>>, j)
      BY <3>1, NoneOpen
    <3> QED BY <3>2 DEF x, y
  <2>4. CASE Then(<<Del(T), Save(T, B, C)>>)
    <3> DEFINE cs == <<Del(T), Save(T, B, C)>>
    <3>1. /\ cs \in Seq(Command) /\ \A c \in On(cs) : c.offer = T
          /\ pipe' = Tail(pipe) \o cs
      BY <2>1, <2>4, EmptyIs DEF Then
    <3> HIDE DEF cs
    <3>2. \A j \in 1..Len(cs) : ~Open(cs, j)
      BY <2>3 DEF cs
    <3> QED BY <2>1, <2>2, <3>1, <3>2, FirstIsOpenThen
  <2>5. CASE Then(<<Del(T)>>)
    <3> DEFINE cs == <<Del(T)>>
    <3>1. /\ cs \in Seq(Command) /\ \A c \in On(cs) : c.offer = T
          /\ pipe' = Tail(pipe) \o cs
      BY <2>1, <2>5, EmptyIs DEF Then
    <3> HIDE DEF cs
    <3>2. \A j \in 1..Len(cs) : ~Open(cs, j)
      BY <2>3 DEF cs
    <3> QED BY <2>1, <2>2, <3>1, <3>2, FirstIsOpenThen
  <2> QED BY <2>1, <2>4, <2>5
<1>5. CASE Accept
  <2> DEFINE b == Remaining(B, C.pick)
             cs == Follow(b)
  <2>1. /\ Answering("get") /\ B # None /\ up /\ Then(cs) /\ UNCHANGED offers
        /\ ended' \subseteq ended \cup {T} /\ partly' \subseteq partly \cup {T}
    BY <1>5 DEF Accept, Follow, redis
  <2>2. pipe # <<>> /\ offers[T] # None /\ T \in Offers /\ b \in Body
    BY <2>1, AnsweringGet DEF B
  <2>3. cs \in Seq(Command) /\ \A j \in 1..Len(cs) : ~Open(cs, j)
    BY <2>2, FollowType, FollowNotOpen
  <2>4. \A c \in On(cs) : c.offer = T
    <3>1. Save(T, b, None).offer = T
      BY <2>2, MadeCommands
    <3>2. End(T, b, FALSE).offer = T
      BY <2>2, EndIs
    <3> QED BY <2>2, <3>1, <3>2, FollowType
  <2>5. pipe' = Tail(pipe) \o cs
    BY <2>1 DEF Then
  <2> HIDE DEF cs
  <2> QED BY <2>1, <2>2, <2>3, <2>4, <2>5, FirstIsOpenThen
<1>6. CASE AcceptThrows
  <2>1. /\ pipe # <<>> /\ offers[T] # None /\ up /\ Then(<<>>)
        /\ UNCHANGED <<offers, ended, partly>>
    BY <1>6 DEF AcceptThrows, Answering, B, redis, told
  <2>2. pipe' = Tail(pipe) \o <<>>
    BY <2>1 DEF Then
  <2> QED BY <2>1, <2>2, NoCommands, NoneOpen, FirstIsOpenThen
<1>7. CASE Decline
  <2> DEFINE x == Save(T, Remaining(B, C.pick), C)
             cs == <<x>>
  <2>1. /\ Answering("get") /\ B # None /\ up /\ Then(cs)
        /\ UNCHANGED <<offers, ended, partly>>
    BY <1>7 DEF Decline, redis, told
  <2>2. pipe # <<>> /\ offers[T] # None
    BY <2>1 DEF Answering, B
  <2>3. /\ x \in Command /\ x.call # None /\ cs \in Seq(Command)
        /\ \A c \in On(cs) : c.offer = T
    BY <2>1, DeclinedIs
  <2>4. pipe' = Tail(pipe) \o cs
    BY <2>1 DEF Then
  <2> HIDE DEF x
  <2>5. \A j \in 1..Len(cs) : ~Open(cs, j)
    BY <2>3, NoneOpen
  <2> HIDE DEF cs
  <2> QED BY <2>1, <2>2, <2>3, <2>4, <2>5, FirstIsOpenThen
<1>8. CASE Written
  <2> DEFINE cs == Finish(Head(pipe))
  <2>1. /\ up /\ pipe # <<>> /\ Head(pipe) \in Command /\ Head(pipe).op # "get"
        /\ Executed(Head(pipe)) /\ Then(cs) /\ cs \in Seq(Command)
        /\ ended' \subseteq ended \cup {T} /\ partly' \subseteq partly \cup {T}
    BY <1>8, WrittenIs
  <2>2. \A c \in On(cs) : c.offer = T
    BY <1>8, WrittenIssued
  <2>3. \A j \in 1..Len(cs) : ~Open(cs, j)
    BY <2>1, FinishNotOpen
  <2>4. pipe' = Tail(pipe) \o cs
    BY <2>1 DEF Then
  <2>5. Writes(Head(pipe), T) /\ T = Head(pipe).offer
    BY <2>1, CommandIs DEF Writes, T
  <2>6. \A t \in Offers : t # T => offers'[t] = offers[t]
    BY <2>1, <2>5 DEF Executed, redis, TypeOK
  <2> HIDE DEF cs
  <2> QED BY <2>1, <2>2, <2>3, <2>4, <2>5, <2>6, FirstIsOpenThen
<1>9. CASE UNCHANGED <<offers, pipe, told>>
  BY <1>9 DEF FirstIsOpen, told
<1>10. ASSUME NEW e \in edits, EditArrives(e)
       PROVE  UNCHANGED <<offers, pipe, told>>
  BY <1>10 DEF EditArrives, redis
<1>11. ASSUME NEW m \in moves, Copied(m) \/ Removed(m)
       PROVE  UNCHANGED <<offers, pipe, told>>
  BY <1>11 DEF Copied, Removed, redis
<1>12. ASSUME NEW t \in Offers, TimeToLiveEnds(t)
       PROVE  FirstIsOpen'
  <2>1. UNCHANGED <<pipe, ended, partly>> /\ \A s : offers[s] = None => offers'[s] = None
    BY <1>12 DEF TimeToLiveEnds, told, TypeOK
  <2> QED BY <2>1 DEF FirstIsOpen
<1>13. CASE UNCHANGED vars
  BY <1>9, <1>13 DEF vars, told
<1>14. ~Crash /\ ~Drain /\ ~Restart /\ ~Rejected /\ \A e \in edits : ~EditRefused(e)
  BY DEF Crash, Drain, Restart, Rejected, EditRefused
<1> QED BY <1>1, <1>2, <1>3, <1>4, <1>5, <1>6, <1>7, <1>8, <1>9, <1>10, <1>11,
           <1>12, <1>13, <1>14
        DEF Next, Redis, Couch, Disk

(* A callback of a GET leaves what else is issued. *)
LEMMA EndingKept ==
  ASSUME TypeOK, pipe # <<>>, NEW t \in Offers, Ending(t),
         On(Tail(pipe)) \subseteq Issued',
         Head(pipe).op = "get" \/ Head(pipe).offer # t
  PROVE  Ending(t)'
<1>1. PICK c \in Issued :
        Ends(c, t) \/ (c.op = "set" /\ c.offer = t /\ c.call # None)
  BY DEF Ending
<1>2. c.op # "get" /\ c.offer = t
  BY <1>1 DEF Ends
<1>3. c \in Issued'
  BY <1>2, HeadIs
<1> QED BY <1>1, <1>3 DEF Ending

(* A callback of a GET that tells nobody but issues what ends its offer.    *)
LEMMA EndComesGet ==
  ASSUME TypeOK, EndComes, pipe # <<>>, Head(pipe).op = "get", UNCHANGED redis,
         On(Tail(pipe)) \subseteq Issued', NEW s \in Offers, s = T,
         \/ UNCHANGED <<ended, partly>>
         \/ /\ ended' \subseteq ended \cup {s} /\ partly' \subseteq partly \cup {s}
            /\ Ending(s)'
  PROVE  EndComes'
<1> SUFFICES ASSUME NEW t \in Offers, offers[t] # None,
                    t \in ended' \/ (t \in partly' /\ t \notin expiring)
             PROVE  Ending(t)'
  BY DEF EndComes, redis
<1>1. CASE t \in ended \/ (t \in partly /\ t \notin expiring)
  BY <1>1, EndingKept DEF EndComes
<1>2. CASE t = s /\ Ending(s)'
  BY <1>2
<1> QED BY <1>1, <1>2

LEMMA EndComesWritten ==
  ASSUME TypeOK, OnlyMade, Sized, FirstIsOpen, EndComes, Written
  PROVE  EndComes'
<1> SUFFICES ASSUME NEW t \in Offers, offers'[t] # None,
                    t \in ended' \/ (t \in partly' /\ t \notin expiring')
             PROVE  Ending(t)'
  BY DEF EndComes
<1> DEFINE c == Head(pipe)
<1>1. /\ pipe # <<>> /\ c \in Command /\ c.op # "get" /\ Executed(c)
      /\ c \in Issued /\ T = c.offer /\ T \in Offers
      /\ ended' = IF c.op = "set" /\ c.call # None /\ ~Partial(c.body)
                  THEN ended \cup {T} ELSE ended
      /\ partly' = IF c.op = "expire" /\ c.tell THEN partly \cup {T} ELSE partly
  BY WrittenIs, WrittenIssued, HeadIs DEF T
<1>2. On(Tail(pipe)) \subseteq Issued' /\ Issued' = On(Tail(pipe)) \cup On(Finish(c))
  BY WrittenIssued
<1>3. c.op \in {"set", "expire", "del"}
  BY <1>1, CommandIs
<1>4. CASE t # T
  <2>1. offers'[t] = offers[t] /\ (t \in expiring' <=> t \in expiring)
    BY <1>1, <1>4 DEF Executed, redis, TypeOK
  <2>2. Ending(t)
    BY <1>1, <1>4, <2>1 DEF EndComes
  <2> QED BY <1>1, <1>2, <1>4, <2>2, EndingKept
<1>5. CASE t = T /\ c.op = "set" /\ c.call = None
  <2>1. T \in ended \cup partly
    BY <1>1, <1>5
  <2>2. /\ pipe \in Seq(Command) /\ pipe[1] = c /\ Len(pipe) \in Nat \ {0}
        /\ Len(Tail(pipe)) = Len(pipe) - 1
        /\ \A i \in 1..Len(Tail(pipe)) : Tail(pipe)[i] = pipe[i + 1]
    BY <1>1, TailIndex DEF TypeOK
  <2> HIDE DEF c
  <2>3. ~Open(pipe, 1)
    BY <1>1, <2>1, <2>2 DEF FirstIsOpen
  <2>4. PICK j \in 1..Len(pipe) : j > 1 /\ Ends(pipe[j], T)
    BY <1>1, <1>5, <2>2, <2>3 DEF Open
  <2>5. j - 1 \in 1..Len(Tail(pipe)) /\ Tail(pipe)[j - 1] = pipe[j]
    BY <2>2, <2>4
  <2>6. pipe[j] \in On(Tail(pipe))
    BY <2>5 DEF On
  <2> QED BY <1>2, <1>5, <2>4, <2>6 DEF Ending
<1>6. CASE t = T /\ c.op = "set" /\ c.call # None
  <2>1. Finish(c) = <<End(T, c.body, TRUE)>>
    BY <1>1, <1>6 DEF Finish
  <2>2. c.body \in Body
    BY <1>1, <1>6, CommandIs
  <2> DEFINE x == End(T, c.body, TRUE)
  <2>3. x \in Command /\ x.offer = T /\ x.op \in {"expire", "del"}
    BY <1>1, <2>2, EndIs
  <2>4. On(Finish(c)) = {x}
    <3> HIDE DEF x
    <3>1. On(<<x>>) = {x}
      BY <2>3, OneCommand
    <3> QED BY <2>1, <3>1 DEF x
  <2> HIDE DEF x
  <2>5. x \in Issued'
    BY <1>2, <2>4
  <2> QED BY <1>6, <2>3, <2>5 DEF Ending, Ends
<1>7. CASE t = T /\ c.op = "expire"
  <2>1. offers' = offers /\ offers[T] # None /\ T \in expiring'
    BY <1>1, <1>7 DEF Executed
  <2>2. T \in ended
    BY <1>1, <1>7, <2>1
  <2>3. offers[T] \in Body /\ Bodied(T, offers[T])
    BY <1>1, <2>1 DEF TypeOK, Bodied
  <2>4. NonePartial(T) /\ AllPartial(T)
    BY <1>1, <1>7, <2>2 DEF Sized
  <2> QED BY <2>3, <2>4 DEF NonePartial, AllPartial
<1>8. CASE t = T /\ c.op = "del"
  BY <1>1, <1>8 DEF Executed, TypeOK
<1> QED BY <1>3, <1>4, <1>5, <1>6, <1>7, <1>8

LEMMA EndComesStep ==
  ASSUME TypeOK, OnlyMade, Sized, FirstIsOpen, EndComes, [Next]_vars, ~disturbed',
         ~up => disturbed
  PROVE  EndComes'
<1>1. ASSUME NEW t \in Offers, NEW b \in Bodies[t], Request(t, b)
      PROVE  EndComes'
  <2>1. /\ Issued \subseteq Issued' /\ UNCHANGED <<offers, expiring, ended, partly>>
    BY <1>1, RequestIs DEF redis, told
  <2> QED BY <2>1 DEF EndComes, Ending
<1>2. ASSUME NEW t \in Offers, NEW k \in Call, Ask(t, k)
      PROVE  EndComes'
  <2> DEFINE c == [op |-> "get", offer |-> t, call |-> k]
  <2>1. c \in Command /\ pipe \in Seq(Command)
    BY DEF Command, TypeOK
  <2>2. pipe' = Append(pipe, c) /\ UNCHANGED <<offers, expiring, ended, partly>>
    BY <1>2 DEF Ask, redis, told
  <2> HIDE DEF c
  <2>3. Issued' = Issued \cup {c}
    BY <2>1, <2>2, OnAppend DEF Issued, On
  <2> QED BY <2>2, <2>3 DEF EndComes, Ending
<1>3. CASE Missing
  <2>1. /\ pipe # <<>> /\ Head(pipe).op = "get" /\ up /\ Then(<<>>)
        /\ UNCHANGED <<redis, ended, partly>>
    BY <1>3 DEF Missing, Answering, told
  <2>2. On(Tail(pipe)) \subseteq Issued' /\ T \in Offers
    BY <2>1, NoCommands, ThenType, HeadIs
  <2> QED BY <2>1, <2>2, EndComesGet
<1>4. CASE Empty
  <2>1. /\ Answering("get") /\ B # None /\ up /\ UNCHANGED <<redis, partly>>
        /\ Then(<<Del(T), Save(T, B, C)>>) \/ Then(<<Del(T)>>)
        /\ ended' \subseteq ended \cup {T}
    BY <1>4 DEF Empty
  <2>2. pipe # <<>> /\ Head(pipe).op = "get" /\ T \in Offers
    BY <2>1, AnsweringGet
  <2> DEFINE x == Del(T)
  <2>0. PICK s \in Offers : s = T
    BY <2>2
  <2>3. On(Tail(pipe)) \cup {x} \subseteq Issued'
    BY <2>1, <2>2, EmptyIs, ThenType
  <2>4. x.op = "del" /\ x.offer = s
    BY <2>0, <2>1, EmptyIs
  <2> HIDE DEF x
  <2>5. Ending(s)'
    BY <2>3, <2>4 DEF Ending, Ends
  <2> QED BY <2>0, <2>1, <2>2, <2>3, <2>5, EndComesGet
<1>5. CASE Accept
  <2> DEFINE b == Remaining(B, C.pick)
             x == End(T, b, FALSE)
  <2>1. /\ Answering("get") /\ B # None /\ up /\ Then(Follow(b)) /\ UNCHANGED redis
        /\ ended' \subseteq ended \cup {T} /\ partly' \subseteq partly \cup {T}
    BY <1>5 DEF Accept, Follow
  <2>2. pipe # <<>> /\ Head(pipe).op = "get" /\ T \in Offers /\ b \in Body
    BY <2>1, AnsweringGet
  <2>3. On(Tail(pipe)) \cup {x} \subseteq Issued'
    <3>1. Follow(b) \in Seq(Command) /\ x \in On(Follow(b))
      BY <2>2, FollowType
    <3> HIDE DEF x
    <3> QED BY <2>1, <2>2, <3>1, ThenType
  <2>4. x.offer = T /\ x.op \in {"expire", "del"}
    BY <2>2, EndIs
  <2> HIDE DEF x
  <2>5. PICK s \in Offers : s = T
    BY <2>2
  <2>6. Ending(s)'
    BY <2>3, <2>4, <2>5 DEF Ending, Ends
  <2> QED BY <2>1, <2>2, <2>3, <2>5, <2>6, EndComesGet
<1>6. CASE AcceptThrows
  <2>1. /\ pipe # <<>> /\ Head(pipe).op = "get" /\ up /\ Then(<<>>)
        /\ UNCHANGED <<redis, ended, partly>>
    BY <1>6 DEF AcceptThrows, Answering, told
  <2>2. On(Tail(pipe)) \subseteq Issued' /\ T \in Offers
    BY <2>1, NoCommands, ThenType, HeadIs
  <2> QED BY <2>1, <2>2, EndComesGet
<1>7. CASE Decline
  <2>1. /\ Answering("get") /\ B # None /\ up /\ UNCHANGED <<redis, ended, partly>>
        /\ Then(<<Save(T, Remaining(B, C.pick), C)>>)
    BY <1>7 DEF Decline, told
  <2>2. pipe # <<>> /\ Head(pipe).op = "get" /\ T \in Offers
    BY <2>1, AnsweringGet
  <2>3. On(Tail(pipe)) \subseteq Issued'
    BY <2>1, <2>2, DeclinedIs, ThenType
  <2> QED BY <2>1, <2>2, <2>3, EndComesGet
<1>8. CASE Written
  BY <1>8, EndComesWritten
<1>9. CASE UNCHANGED <<redis, pipe, told>>
  BY <1>9 DEF EndComes, Ending, Issued, redis, told
<1>10. ASSUME NEW e \in edits, EditArrives(e)
       PROVE  UNCHANGED <<redis, pipe, told>>
  BY <1>10 DEF EditArrives
<1>11. ASSUME NEW m \in moves, Copied(m) \/ Removed(m)
       PROVE  UNCHANGED <<redis, pipe, told>>
  BY <1>11 DEF Copied, Removed
<1>12. ASSUME NEW t \in Offers, TimeToLiveEnds(t)
       PROVE  EndComes'
  <2>1. /\ Issued' = Issued /\ UNCHANGED <<ended, partly>> /\ offers'[t] = None
        /\ \A s \in Offers \ {t} : offers'[s] = offers[s] /\ (s \in expiring' <=> s \in expiring)
    BY <1>12 DEF TimeToLiveEnds, told, Issued, TypeOK
  <2> QED BY <2>1 DEF EndComes, Ending
<1>13. CASE UNCHANGED vars
  BY <1>9, <1>13 DEF vars, told, redis
<1>14. ~Crash /\ ~Drain /\ ~Restart /\ ~Rejected /\ \A e \in edits : ~EditRefused(e)
  BY DEF Crash, Drain, Restart, Rejected, EditRefused
<1> QED BY <1>1, <1>2, <1>3, <1>4, <1>5, <1>6, <1>7, <1>8, <1>9, <1>10, <1>11,
           <1>12, <1>13, <1>14
        DEF Next, Redis, Couch, Disk

(* The inductive invariant of the offers.                                   *)
THEOREM OffersInvHolds == Spec => []OffersInv
<1>1. Init => OffersInv
  <2> SUFFICES ASSUME Init
               PROVE  OffersInv
    OBVIOUS
  <2>1. /\ pipe = <<>> /\ ended = {} /\ partly = {} /\ up
        /\ offers = [t \in Offers |-> None]
    BY DEF Init
  <2>2. Issued = {} /\ \A i : ~Open(pipe, i)
    BY <2>1 DEF Issued, Open
  <2>3. Sized /\ FirstIsOpen /\ EndComes
    BY <2>1, <2>2 DEF Sized, FirstIsOpen, EndComes, NonePartial, Bodied
  <2> QED BY <2>1, <2>3, InitParts DEF OffersInv
<1>2. TypeOK /\ OffersInv /\ [Next]_vars => OffersInv'
  <2> SUFFICES ASSUME TypeOK, OffersInv, [Next]_vars
               PROVE  OffersInv'
    OBVIOUS
  <2>1. OnlyMade /\ Addressed /\ (~up => disturbed)
    BY DEF OffersInv
  <2>2. OnlyMade' /\ Addressed'
    BY <2>1, OnlyMadeStep, AddressedStep
  <2>3. /\ disturbed => disturbed'
        /\ up' # up => disturbed'
    <3>1. CASE Redis \/ Crash \/ Drain \/ Restart \/ Rejected \/ UNCHANGED vars
      BY <2>1, <3>1 DEF Redis, Missing, Empty, Accept, AcceptThrows, Decline, Written,
                        Crash, Drain, Restart, Rejected, vars
    <3>2. CASE Couch \/ Disk \/ \E e \in edits : EditRefused(e)
      BY <3>2 DEF Couch, Disk, EditArrives, Copied, Removed, EditRefused
    <3>3. ASSUME NEW t \in Offers,
                 \/ \E b \in Bodies[t] : Request(t, b)
                 \/ \E c \in Call : Ask(t, c)
                 \/ TimeToLiveEnds(t)
          PROVE  UNCHANGED <<up, disturbed>>
      BY <3>3 DEF Request, Ask, TimeToLiveEnds
    <3> QED BY <3>1, <3>2, <3>3 DEF Next
  <2>4. ~up' => disturbed'
    BY <2>1, <2>3
  <2>5. ASSUME ~disturbed'
        PROVE  Sized' /\ FirstIsOpen' /\ EndComes'
    <3>1. Sized /\ FirstIsOpen /\ EndComes
      BY <2>3, <2>5 DEF OffersInv
    <3> QED BY <2>1, <2>5, <3>1, SizedStep, FirstIsOpenStep, EndComesStep
  <2> QED BY <2>2, <2>4, <2>5 DEF OffersInv
<1> QED BY <1>1, <1>2, TransferTypeCorrect, PTL DEF Spec

(* An offer somebody was told is completed goes, and one that was answered  *)
(* in part expires, however accepts, declines and expiries overlap: for any *)
(* owners, devices, offers and calls (transfer.js:392-402, 513-526).        *)
THEOREM AnsweredEnds == Spec => []AnsweredWillEnd
<1>1. TypeOK /\ OffersInv => AnsweredWillEnd
  <2> SUFFICES ASSUME TypeOK, OffersInv, ~disturbed, NEW t \in Offers,
                      WritesOn(t) = {}, offers[t] # None,
                      t \in ended \/ (t \in partly /\ t \notin expiring)
               PROVE  FALSE
    BY DEF AnsweredWillEnd
  <2>1. Ending(t)
    BY DEF OffersInv, EndComes
  <2> QED BY <2>1 DEF Ending, Ends, WritesOn
<1> QED BY <1>1, OffersInvHolds, TransferTypeCorrect, PTL
=============================================================================
