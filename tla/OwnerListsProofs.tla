--------------------------- MODULE OwnerListsProofs ---------------------------
(* Proofs about OwnerLists, for every value of its constants. *)
EXTENDS OwnerLists, TLAPS

(* The commands in a pipe. *)
On(p) == {p[i] : i \in 1..Len(p)}

LEMMA OnAppend ==
  ASSUME NEW S, NEW p \in Seq(S), NEW x \in S
  PROVE  On(Append(p, x)) = On(p) \cup {x}
<1> DEFINE q == Append(p, x)
<1>1. Len(q) = Len(p) + 1 /\ q[Len(p) + 1] = x
  OBVIOUS
<1>2. \A i \in 1..Len(p) : q[i] = p[i]
  OBVIOUS
<1>3. On(p) \subseteq On(q) /\ x \in On(q)
  BY <1>1, <1>2 DEF On
<1>4. ASSUME NEW i \in 1..Len(q) PROVE q[i] \in On(p) \cup {x}
  BY <1>1, <1>2 DEF On
<1> QED BY <1>3, <1>4 DEF On

LEMMA TailIndex ==
  ASSUME NEW S, NEW p \in Seq(S), p # <<>>
  PROVE  /\ Len(p) \in Nat \ {0} /\ p[1] = Head(p)
         /\ Len(Tail(p)) = Len(p) - 1
         /\ \A i \in 1..Len(Tail(p)) : Tail(p)[i] = p[i + 1]
OBVIOUS

LEMMA OnTail ==
  ASSUME NEW S, NEW p \in Seq(S), p # <<>>, NEW x \in On(p), x # Head(p)
  PROVE  x \in On(Tail(p))
<1>1. PICK i \in 1..Len(p) : p[i] = x
  BY DEF On
<1>2. i # 1 /\ i - 1 \in 1..Len(Tail(p))
  BY <1>1, TailIndex
<1>3. Tail(p)[i - 1] = x
  BY <1>1, <1>2, TailIndex
<1> QED BY <1>2, <1>3 DEF On
-----------------------------------------------------------------------------
(* The head of the pipe, by its kind. *)
LEMMA HeadType ==
  ASSUME TypeOK, pipe # <<>>
  PROVE  /\ pipe \in Seq(Command) /\ Tail(pipe) \in Seq(Command)
         /\ Head(pipe) \in Command /\ List \in Lists
         /\ pipe[1] = Head(pipe) /\ Len(pipe) \in Nat \ {0}
         /\ Head(pipe) \in On(pipe)
         /\ Head(pipe).op = "set" => Head(pipe) \in SetCmd
         /\ Head(pipe).op = "get" => Head(pipe) \in GetCmd
<1>1. pipe \in Seq(Command) /\ Tail(pipe) \in Seq(Command)
      /\ Head(pipe) \in Command
  BY DEF TypeOK
<1>2. pipe[1] = Head(pipe) /\ Len(pipe) \in Nat \ {0}
  BY <1>1, TailIndex
<1>3. Head(pipe) \in On(pipe)
  BY <1>2 DEF On
<1> QED BY <1>1, <1>2, <1>3 DEF Command, GetCmd, SetCmd, List

LEMMA CreateType ==
  ASSUME TypeOK, Creating
  PROVE  /\ pipe # <<>> /\ Head(pipe) \in GetCmd /\ Head(pipe).op = "get"
         /\ IsCreate(Head(pipe))
         /\ NewItem \in Item /\ NewItem = Head(pipe).call.item
<1>1. pipe # <<>> /\ Head(pipe) \in GetCmd /\ Head(pipe).call.do = "create"
  BY HeadType DEF Creating, Answering
<1>2. Head(pipe).call \in CreateCall
  BY <1>1 DEF GetCmd, CreateCall, RevokeCall
<1> QED BY <1>1, <1>2 DEF NewItem, CreateCall, GetCmd, IsCreate

LEMMA RevokeType ==
  ASSUME TypeOK, Revoking
  PROVE  pipe # <<>> /\ Head(pipe) \in GetCmd /\ ~IsCreate(Head(pipe))
BY HeadType DEF Revoking, Answering, IsCreate

LEMMA SetType ==
  ASSUME NEW l \in Lists, NEW v \in SUBSET Item, NEW new \in SUBSET Item,
         NEW gone \in SUBSET Item
  PROVE  /\ Set(l, v, new, gone) \in Command
         /\ Set(l, v, new, gone).op = "set" /\ Set(l, v, new, gone).list = l
         /\ Set(l, v, new, gone).value = v /\ Set(l, v, new, gone).new = new
         /\ Set(l, v, new, gone).gone = gone
BY DEF Set, Command, SetCmd

LEMMA GetType ==
  ASSUME NEW l \in Lists, NEW c \in CreateCall \cup RevokeCall
  PROVE  /\ Get(l, c) \in Command
         /\ Get(l, c).op = "get" /\ Get(l, c).list = l /\ Get(l, c).call = c
BY DEF Get, Command, GetCmd

LEMMA IssuedIsOn == Issued = On(pipe)
BY DEF Issued, On

LEMMA IssuedType ==
  ASSUME TypeOK, NEW c \in Issued
  PROVE  /\ c \in Command /\ c.list \in Lists
         /\ c.op = "set" => /\ c \in SetCmd
                            /\ c.value \in SUBSET Item
                            /\ c.new \in SUBSET Item /\ c.gone \in SUBSET Item
         /\ IsCreate(c) => c.call.item \in Item
<1>1. c \in Command
  BY DEF Issued, TypeOK
<1> QED BY <1>1 DEF Command, GetCmd, SetCmd, IsCreate, CreateCall, RevokeCall

(* Redis holds what it held, or what a SET in the pipe writes. *)
LEMMA StoredAfterIs ==
  ASSUME TypeOK, NEW k \in {0, 1}, NEW n \in Nat, n <= Len(pipe),
         NEW l \in Lists
  PROVE  \/ StoredAfter(k, n, l) = stored[l]
         \/ \E c \in SetsOn(l) : StoredAfter(k, n, l) = c.value
<1>1. CASE LastSet(k, n, l) = {}
  BY <1>1 DEF StoredAfter
<1>2. CASE LastSet(k, n, l) # {}
  <2> DEFINE i == CHOOSE i \in LastSet(k, n, l) : TRUE
  <2>1. i \in LastSet(k, n, l)
    BY <1>2
  <2> HIDE DEF i
  <2>2. i \in 1..Len(pipe) /\ pipe[i].op = "set" /\ pipe[i].list = l
    BY <2>1 DEF LastSet, TypeOK
  <2>3. pipe[i] \in SetsOn(l)
    BY <2>2 DEF SetsOn, Issued
  <2>4. StoredAfter(k, n, l) = pipe[i].value
    BY <1>2 DEF StoredAfter, i
  <2> QED BY <2>3, <2>4
<1> QED BY <1>1, <1>2

(* What failures may do to Redis: keep a list or execute a SET on it.       *)
Redone == /\ stored' \in [Lists -> SUBSET Item]
          /\ \A l \in Lists :
               \/ stored'[l] = stored[l]
               \/ \E c \in SetsOn(l) : stored'[l] = c.value

LEMMA RedoneBy ==
  ASSUME TypeOK, NEW k \in {0, 1}, NEW n \in Nat, n <= Len(pipe),
         stored' = [l \in Lists |-> StoredAfter(k, n, l)]
  PROVE  Redone
<1>1. ASSUME NEW l \in Lists, NEW c \in SetsOn(l)
      PROVE  c.value \in SUBSET Item
  BY <1>1, IssuedType DEF SetsOn
<1>2. \A l \in Lists :
        \/ stored'[l] = stored[l]
        \/ \E c \in SetsOn(l) : stored'[l] = c.value
  BY StoredAfterIs
<1>3. \A l \in Lists : stored'[l] \in SUBSET Item
  BY <1>1, <1>2 DEF TypeOK
<1> QED BY <1>2, <1>3 DEF Redone

LEMMA ExitRedone ==
  ASSUME TypeOK, NEW k \in {0, 1}, Exit(k)
  PROVE  Redone /\ pipe' = <<>> /\ died'
<1>1. PICK n \in k..Len(pipe) :
        stored' = [l \in Lists |-> StoredAfter(k, n, l)]
  BY DEF Exit
<1>2. n \in Nat /\ n <= Len(pipe)
  BY <1>1 DEF TypeOK
<1> QED BY <1>1, <1>2, RedoneBy DEF Exit

LEMMA UnhandledRedone ==
  ASSUME TypeOK, NEW k \in {0, 1}, pipe # <<>>, Unhandled(k)
  PROVE  /\ Redone /\ failed'
         /\ \/ pipe' = <<>> /\ died'
            \/ pipe' = Tail(pipe) /\ died' = died
         /\ UNCHANGED <<now, used, created, dropped, revoked, overlapped>>
<1>1. CASE Exit(k)
  BY <1>1, ExitRedone DEF Unhandled
<1>2. CASE /\ stored' = [l \in Lists |-> StoredAfter(k, 1, l)]
           /\ pipe' = Tail(pipe)
           /\ died' = died
  <2>1. 1 \in Nat /\ 1 <= Len(pipe)
    BY HeadType
  <2> QED BY <1>2, <2>1, RedoneBy DEF Unhandled
<1> QED BY <1>1, <1>2 DEF Unhandled
-----------------------------------------------------------------------------
(* Type correctness. *)

LEMMA AnswerType ==
  ASSUME TypeOK, pipe # <<>>, NEW v \in SUBSET Item, NEW new \in SUBSET Item,
         NEW gone \in SUBSET Item, Issue(Set(List, v, new, gone))
  PROVE  pipe' \in Seq(Command)
<1>1. Set(List, v, new, gone) \in Command /\ Tail(pipe) \in Seq(Command)
  BY SetType, HeadType
<1> QED BY <1>1 DEF Issue

LEMMA ListedType ==
  ASSUME TypeOK, pipe # <<>>
  PROVE  /\ Listed \in SUBSET Item /\ Replaced \in SUBSET Item
         /\ Named \in SUBSET Item
BY HeadType DEF Listed, Replaced, Named, TypeOK

LEMMA TypeStep ==
  ASSUME TypeOK, [Next]_vars
  PROVE  TypeOK'
<1>1. CASE KeyCreated
  <2>1. pipe' \in Seq(Command)
    BY <1>1, CreateType, ListedType, AnswerType DEF KeyCreated
  <2> QED BY <1>1, <2>1 DEF KeyCreated, TypeOK
<1>2. CASE EnvCreated
  <2>1. pipe # <<>> /\ NewItem \in Item
    BY <1>2, CreateType DEF EnvCreated
  <2>2. (Listed \ Replaced) \cup {NewItem} \in SUBSET Item
    BY <2>1, ListedType
  <2>3. pipe' \in Seq(Command)
    BY <1>2, <2>1, <2>2, AnswerType DEF EnvCreated
  <2> QED BY <1>2, <2>1, <2>3, ListedType DEF EnvCreated, TypeOK
<1>3. CASE KeysRevoked
  <2>1. pipe # <<>>
    BY <1>3 DEF KeysRevoked, Revoking, Answering
  <2>2. pipe' \in Seq(Command)
    BY <1>3, <2>1, ListedType, AnswerType DEF KeysRevoked
  <2> QED BY <1>3, <2>1, <2>2, ListedType DEF KeysRevoked, TypeOK
<1>4. CASE EnvRevoked
  <2>1. pipe # <<>>
    BY <1>4 DEF EnvRevoked, Revoking, Answering
  <2>2. PICK F \in SUBSET Named :
          /\ Issue(Set(List, Listed \ F, {}, {}))
          /\ dropped' = dropped \cup F
          /\ revoked' = revoked \cup F
    BY <1>4 DEF EnvRevoked
  <2>3. pipe' \in Seq(Command) /\ F \in SUBSET Item
    BY <2>1, <2>2, ListedType, AnswerType
  <2> QED BY <1>4, <2>2, <2>3 DEF EnvRevoked, TypeOK
<1>5. CASE NothingToRevoke \/ RevokeRejected
  <2>1. pipe # <<>>
    BY <1>5 DEF NothingToRevoke, RevokeRejected, Revoking, Answering
  <2> QED BY <1>5, <2>1, HeadType DEF NothingToRevoke, RevokeRejected, TypeOK
<1>6. CASE Written
  <2>1. pipe # <<>> /\ Head(pipe) \in SetCmd
    BY <1>6, HeadType DEF Written, Answering
  <2> QED BY <1>6, <2>1, HeadType DEF Written, TypeOK, SetCmd
<1>7. CASE SetRejected \/ EnvGetRejected
  <2>1. PICK k \in {0, 1} : pipe # <<>> /\ Unhandled(k)
    BY <1>7 DEF SetRejected, EnvGetRejected, Answering
  <2>2. <<>> \in Seq(Command)
    OBVIOUS
  <2> QED BY <2>1, <2>2, HeadType, UnhandledRedone DEF TypeOK, Redone, Unhandled, Exit
<1>8. CASE KeyCreatedAnyway
  <2>1. pipe' \in Seq(Command)
    BY <1>8, CreateType, AnswerType DEF KeyCreatedAnyway
  <2> QED BY <1>8, <2>1 DEF KeyCreatedAnyway, TypeOK
<1>9. CASE Tick
  BY <1>9, ListsAssumption DEF Tick, TypeOK, Seconds
<1>10. CASE Crash
  <2>1. <<>> \in Seq(Command)
    OBVIOUS
  <2> QED BY <1>10, <2>1, ExitRedone DEF Crash, TypeOK, Redone, Exit
<1>11. ASSUME NEW l \in Lists, NEW r \in Requests, NEW n \in TextsOf(l),
              Create(l, r, n)
       PROVE  TypeOK'
  <2> DEFINE i == [list |-> l, text |-> n, by |-> r]
             c == [do |-> "create", item |-> i]
  <2>1. c \in CreateCall
    BY DEF CreateCall, Item, TextsOf, Texts
  <2>2. Get(l, c) \in Command
    BY <2>1, GetType
  <2>3. pipe' = Append(pipe, Get(l, c))
    BY <1>11 DEF Create, Call
  <2>4. pipe' \in Seq(Command)
    BY <2>2, <2>3 DEF TypeOK
  <2> QED BY <1>11, <2>4 DEF Create, Call, TypeOK
<1>12. ASSUME NEW l \in Lists, NEW T \in SUBSET TextsOf(l), Revoke(l, T)
       PROVE  TypeOK'
  <2> DEFINE c == [do |-> "revoke", texts |-> T]
  <2>1. c \in RevokeCall
    BY DEF RevokeCall, TextsOf, Texts
  <2>2. Get(l, c) \in Command
    BY <2>1, GetType
  <2>3. pipe' = Append(pipe, Get(l, c))
    BY <1>12 DEF Revoke, Call
  <2>4. pipe' \in Seq(Command)
    BY <2>2, <2>3 DEF TypeOK
  <2> QED BY <1>12, <2>4 DEF Revoke, Call, TypeOK
<1>13. CASE UNCHANGED vars
  BY <1>13 DEF vars, TypeOK
<1> QED
  BY <1>1, <1>2, <1>3, <1>4, <1>5, <1>6, <1>7, <1>8, <1>9, <1>10, <1>11,
     <1>12, <1>13
  DEF Next, Redis

(* Every state is well typed, for any lists, names and numbers of requests. *)
THEOREM ListsTypeCorrect == Spec => []TypeOK
<1>1. Init => TypeOK
  <2> SUFFICES ASSUME Init PROVE TypeOK
    OBVIOUS
  <2>1. pipe \in Seq(Command) /\ stored \in [Lists -> SUBSET Item]
    BY DEF Init
  <2>2. now \in Seconds
    BY ListsAssumption DEF Init, Seconds
  <2> QED BY <2>1, <2>2 DEF Init, TypeOK
<1>2. TypeOK /\ [Next]_vars => TypeOK'
  BY TypeStep
<1> QED BY <1>1, <1>2, PTL DEF Spec
-----------------------------------------------------------------------------
(* The inductive invariant: how the parts look at a step that drops the     *)
(* head of the pipe, answers a GET with a SET, executes a SET, or calls.    *)

LEMMA HeadFirst ==
  ASSUME TypeOK, pipe # <<>>
  PROVE  1 \in 1..Len(pipe) /\ pipe[1] = Head(pipe) /\ Head(pipe) \in Issued
BY HeadType, IssuedIsOn

(* Nothing else is on the list of a GET at the head, and no SET on that of  *)
(* a SET at the head, if calls on the list did not overlap.                 *)
LEMMA BehindHead ==
  ASSUME TypeOK, ReadsAfterWrites, pipe # <<>>, List \notin overlapped,
         NEW b \in 1..Len(pipe), b # 1, pipe[b].list = List
  PROVE  Head(pipe).op = "set" /\ pipe[b].op = "get"
<1>1. 1 \in 1..Len(pipe) /\ pipe[1] = Head(pipe) /\ 1 < b
  BY HeadFirst
<1> QED BY <1>1 DEF ReadsAfterWrites, List

(* How a step moves the pipe: it starts with what followed the first k      *)
(* commands, or less, and at most one command of C joins it at the end.     *)
From(k, C) ==
  \A i \in 1..Len(pipe') :
    \/ i + k \in 1..Len(pipe) /\ pipe'[i] = pipe[i + k]
    \/ i + k = Len(pipe) + 1 /\ pipe'[i] \in C

LEMMA FromEmpty == ASSUME pipe' = <<>> PROVE From(0, {})
BY DEF From

LEMMA FromSame == ASSUME TypeOK, pipe' = pipe PROVE From(0, {})
BY DEF From, TypeOK

LEMMA FromTail ==
  ASSUME TypeOK, pipe # <<>>, pipe' = Tail(pipe)
  PROVE  From(1, {})
<1>1. /\ Len(pipe) \in Nat \ {0} /\ Len(pipe') = Len(pipe) - 1
      /\ \A i \in 1..Len(pipe') : pipe'[i] = pipe[i + 1]
  BY TailIndex DEF TypeOK
<1> QED BY <1>1 DEF From

LEMMA FromAppend ==
  ASSUME TypeOK, NEW c \in Command, pipe' = Append(pipe, c)
  PROVE  From(0, {c}) /\ Issued' = Issued \cup {c}
<1>1. Len(pipe) \in Nat /\ Len(pipe') = Len(pipe) + 1 /\ pipe'[Len(pipe) + 1] = c
  BY DEF TypeOK
<1>2. \A i \in 1..Len(pipe) : pipe'[i] = pipe[i]
  BY DEF TypeOK
<1>3. From(0, {c})
  BY <1>1, <1>2 DEF From
<1>4. On(pipe') = On(pipe) \cup {c}
  BY OnAppend DEF TypeOK
<1> QED BY <1>3, <1>4, IssuedIsOn DEF Issued, On

LEMMA FromIssue ==
  ASSUME TypeOK, pipe # <<>>, NEW c \in Command, Issue(c)
  PROVE  From(1, {c}) /\ Issued' = On(Tail(pipe)) \cup {c}
<1> DEFINE t == Tail(pipe)
<1>1. /\ Len(pipe) \in Nat \ {0} /\ Len(t) = Len(pipe) - 1 /\ t \in Seq(Command)
      /\ \A i \in 1..Len(t) : t[i] = pipe[i + 1]
  BY TailIndex DEF TypeOK
<1> HIDE DEF t
<1>2. /\ Len(pipe') = Len(t) + 1 /\ pipe'[Len(t) + 1] = c
      /\ \A i \in 1..Len(t) : pipe'[i] = t[i]
  BY <1>1 DEF Issue, t
<1>3. From(1, {c})
  BY <1>1, <1>2 DEF From
<1>4. On(pipe') = On(Tail(pipe)) \cup {c}
  BY OnAppend, HeadType DEF Issue
<1> QED BY <1>3, <1>4 DEF Issued, On

LEMMA FromIssued ==
  ASSUME NEW k, NEW C, From(k, C)
  PROVE  Issued' \subseteq Issued \cup C
BY DEF From, Issued

(* The parts of the invariant, by what joins and what is stored. *)

LEMMA OrderStep ==
  ASSUME TypeOK, TypeOK', ReadsAfterWrites, overlapped \subseteq overlapped',
         NEW k \in {0, 1}, NEW C, From(k, C),
         \A c \in C : \A b \in (k + 1)..Len(pipe) :
           pipe[b].list = c.list /\ c.list \notin overlapped'
             => pipe[b].op = "set" /\ c.op = "get"
  PROVE  ReadsAfterWrites'
<1>1. SUFFICES ASSUME NEW a \in 1..Len(pipe'), NEW b \in 1..Len(pipe'), a < b,
                      pipe'[a].list = pipe'[b].list,
                      pipe'[a].list \notin overlapped'
               PROVE  pipe'[a].op = "set" /\ pipe'[b].op = "get"
  BY DEF ReadsAfterWrites
<1>2. Len(pipe) \in Nat /\ Len(pipe') \in Nat
  BY DEF TypeOK
<1>3. a + k \in (k + 1)..Len(pipe) /\ pipe'[a] = pipe[a + k]
  BY <1>1, <1>2 DEF From
<1>4. CASE b + k \in 1..Len(pipe) /\ pipe'[b] = pipe[b + k]
  <2>1. a + k \in 1..Len(pipe) /\ a + k < b + k
    BY <1>1, <1>2, <1>3
  <2> QED BY <1>1, <1>3, <1>4, <2>1 DEF ReadsAfterWrites
<1>5. CASE pipe'[b] \in C
  BY <1>1, <1>3, <1>5
<1> QED BY <1>4, <1>5 DEF From

LEMMA BelongStep ==
  ASSUME TypeOK, TypeOK', ItemsBelong, Redone, used \subseteq used',
         NEW k, NEW C, From(k, C),
         \A c \in C : c.op = "set" =>
           \A i \in c.value \cup c.new \cup c.gone : Belongs(i, c.list)',
         \A c \in C : IsCreate(c) => Belongs(c.call.item, c.list)',
         \A i \in revoked' : i.by \in used'
  PROVE  ItemsBelong'
<1>1. ASSUME NEW i, NEW l, Belongs(i, l)
      PROVE  Belongs(i, l)'
  BY <1>1 DEF Belongs
<1>2. ASSUME NEW l \in Lists, NEW i \in Item, i \in stored'[l]
      PROVE  Belongs(i, l)'
  BY <1>1, <1>2 DEF Redone, ItemsBelong
<1>3. ASSUME NEW l \in Lists, NEW c \in SetsOn(l)',
             NEW i \in c.value \cup c.new \cup c.gone
      PROVE  Belongs(i, l)'
  <2>1. c.op = "set" /\ c.list = l /\ c \in Issued \cup C
    BY FromIssued DEF SetsOn
  <2>2. CASE c \in Issued
    BY <1>1, <2>1, <2>2 DEF SetsOn, ItemsBelong
  <2> QED BY <2>1, <2>2
<1>4. ASSUME NEW c \in Issued', IsCreate(c)
      PROVE  Belongs(c.call.item, c.list)'
  BY <1>1, <1>4, FromIssued DEF ItemsBelong
<1> QED BY <1>2, <1>3, <1>4 DEF ItemsBelong, IsCreate

LEMMA PendingStep ==
  ASSUME TypeOK, TypeOK', PendingIsNew, Redone, NEW k \in {0, 1}, NEW C,
         From(k, C), \A c \in C : ~IsCreate(c),
         \A c \in C : c.op = "set" =>
           \A i \in c.value \cup c.gone :
             \/ \E l \in Lists : i \in stored[l]
             \/ k = 1 /\ pipe # <<>> /\ IsCreate(Head(pipe)) /\ i = NewItem,
         \A i \in revoked' :
           \/ i \in revoked \/ \E l \in Lists : i \in stored[l]
           \/ \E c \in Issued : c.op = "set" /\ i \in c.gone
  PROVE  PendingIsNew'
<1>1. SUFFICES ASSUME NEW a \in 1..Len(pipe'), IsCreate(pipe'[a])
               PROVE  LET i == pipe'[a].call.item IN
                        /\ i \notin revoked'
                        /\ \A l \in Lists : i \notin stored'[l]
                        /\ \A c \in Issued' : c.op = "set" =>
                             i \notin c.value \cup c.gone
                        /\ \A b \in 1..Len(pipe') :
                             IsCreate(pipe'[b]) /\ pipe'[b].call.item = i => b = a
  BY DEF PendingIsNew, IsCreate
<1> DEFINE i == pipe'[a].call.item
<1>2. Len(pipe) \in Nat /\ Len(pipe') \in Nat
  BY DEF TypeOK
<1>3. \A b \in 1..Len(pipe') : IsCreate(pipe'[b]) =>
        b + k \in 1..Len(pipe) /\ pipe'[b] = pipe[b + k]
  BY DEF From
<1>4. /\ i \notin revoked
      /\ \A l \in Lists : i \notin stored[l]
      /\ \A c \in Issued : c.op = "set" => i \notin c.value \cup c.gone
      /\ \A b \in 1..Len(pipe) :
           IsCreate(pipe[b]) /\ pipe[b].call.item = i => b = a + k
  BY <1>1, <1>3 DEF PendingIsNew
<1> HIDE DEF i
<1>5. i \notin revoked'
  BY <1>4
<1>6. \A l \in Lists : i \notin stored'[l]
  BY <1>4 DEF Redone, SetsOn
<1>7. ASSUME NEW c \in Issued', c.op = "set"
      PROVE  i \notin c.value \cup c.gone
  <2>1. CASE c \in Issued
    BY <1>4, <1>7, <2>1
  <2>2. CASE c \in C /\ i \in c.value \cup c.gone
    <3>1. k = 1 /\ pipe # <<>> /\ IsCreate(Head(pipe)) /\ i = NewItem
      BY <1>4, <1>7, <2>2
    <3>2. 1 \in 1..Len(pipe) /\ IsCreate(pipe[1]) /\ pipe[1].call.item = i
      BY <3>1, HeadFirst DEF NewItem
    <3>3. 1 = a + 1
      BY <1>4, <3>1, <3>2
    <3> QED BY <1>2, <3>3
  <2> QED BY <2>1, <2>2, FromIssued
<1>8. ASSUME NEW b \in 1..Len(pipe'), IsCreate(pipe'[b]), pipe'[b].call.item = i
      PROVE  b = a
  <2>1. b + k = a + k
    BY <1>3, <1>4, <1>8
  <2> QED BY <2>1
<1> QED BY <1>5, <1>6, <1>7, <1>8 DEF i

LEMMA UniqueStep ==
  ASSUME EnvNamesUnique, WritesAreUnique, Redone, NEW k, NEW C, From(k, C),
         \A c \in C : c.op = "set" /\ c.list \in EnvLists => Unique(c.value)
  PROVE  EnvNamesUnique' /\ WritesAreUnique'
<1>1. ASSUME NEW l \in EnvLists PROVE Unique(stored[l])'
  <2>1. l \in Lists
    BY DEF Lists
  <2>2. CASE stored'[l] = stored[l]
    BY <2>2 DEF EnvNamesUnique, Unique
  <2>3. CASE \E c \in SetsOn(l) : stored'[l] = c.value
    BY <2>3 DEF WritesAreUnique, Unique
  <2> QED BY <2>1, <2>2, <2>3 DEF Redone
<1>2. ASSUME NEW l \in EnvLists, NEW c \in SetsOn(l)' PROVE Unique(c.value)
  <2>1. c.op = "set" /\ c.list = l /\ c \in Issued \cup C
    BY FromIssued DEF SetsOn
  <2> QED BY <2>1 DEF WritesAreUnique, SetsOn
<1> QED BY <1>1, <1>2 DEF EnvNamesUnique, WritesAreUnique, Unique

(* What is revoked stays out of what is stored and written, when no key is  *)
(* newly revoked.                                                           *)
LEMMA RevokedStep ==
  ASSUME TypeOK, RevokedStaysGone, RevokedNotWritten, Redone,
         overlapped \subseteq overlapped', NEW k, NEW C, From(k, C),
         \A i \in revoked' : i \in revoked \/ i.list \notin KeyLists,
         \A c \in C : c.op = "set" => c.gone \cap c.value = {},
         \A c \in C : c.op = "set" =>
           \A i \in c.value : i \in stored[c.list] \/ i \notin revoked
  PROVE  RevokedStaysGone' /\ RevokedNotWritten'
<1>1. ASSUME NEW i \in revoked', i.list \in KeyLists \ overlapped'
      PROVE  /\ i \notin stored'[i.list]
             /\ \A c \in SetsOn(i.list)' : i \notin c.value
  <2>1. i \in revoked /\ i.list \in KeyLists \ overlapped /\ i.list \in Lists
    BY <1>1 DEF Lists
  <2>2. i \notin stored[i.list] /\ \A c \in SetsOn(i.list) : i \notin c.value
    BY <2>1 DEF RevokedStaysGone, RevokedNotWritten
  <2>3. i \notin stored'[i.list]
    BY <2>1, <2>2 DEF Redone
  <2>4. ASSUME NEW c \in SetsOn(i.list)' PROVE i \notin c.value
    <3>1. c.op = "set" /\ c.list = i.list /\ c \in Issued \cup C
      BY FromIssued DEF SetsOn
    <3> QED BY <2>1, <2>2, <3>1 DEF SetsOn
  <2> QED BY <2>3, <2>4
<1>2. ASSUME NEW c \in Issued', c.op = "set" PROVE c.gone \cap c.value = {}
  BY <1>2, FromIssued DEF RevokedNotWritten
<1> QED BY <1>1, <1>2 DEF RevokedStaysGone, RevokedNotWritten, SetsOn

LEMMA SetsOnIs == \A l : SetsOn(l) = {c \in On(pipe) : c.op = "set" /\ c.list = l}
BY IssuedIsOn DEF SetsOn

(* What is created stays, when only commands that are no SET come and go.   *)
LEMMA CreatedQuiet ==
  ASSUME CreatedIsWritten,
         ~failed' =>
           /\ ~failed /\ (died => died') /\ overlapped \subseteq overlapped'
           /\ stored' = stored /\ created' = created /\ dropped' = dropped
           /\ \A l \in Lists : SetsOn(l)' = SetsOn(l)
  PROVE  CreatedIsWritten'
BY DEF CreatedIsWritten

LEMMA CreatedExit ==
  ASSUME CreatedIsWritten, Redone, pipe' = <<>>, died',
         UNCHANGED <<created, dropped, overlapped, failed>>
  PROVE  CreatedIsWritten'
<1>1. Issued' = {}
  BY DEF Issued
<1>2. SUFFICES ASSUME ~failed', NEW l \in Lists \ overlapped', NEW i \in Item,
                      i \in created, i.list = l
               PROVE  i \in dropped \/ i \in stored'[l] \/ l \in EnvLists
  BY <1>1 DEF CreatedIsWritten, SetsOn
<1>3. \/ i \in dropped \/ l \in EnvLists
      \/ i \in stored[l] /\ \A c \in SetsOn(l) : i \in c.value
  BY <1>2 DEF CreatedIsWritten, Lists
<1> QED BY <1>2, <1>3 DEF Redone

(* A GET on the list is answered with a SET that keeps what it does not     *)
(* drop.                                                                    *)
LEMMA CreatedAnswered ==
  ASSUME TypeOK, ReadsAfterWrites, CreatedIsWritten, Answering("get"),
         NEW v \in SUBSET Item, NEW new \in SUBSET Item, NEW gone \in SUBSET Item,
         Issue(Set(List, v, new, gone)),
         UNCHANGED <<stored, overlapped, failed, died>>,
         created \subseteq created', dropped \subseteq dropped',
         new \subseteq v, Listed \subseteq v \cup dropped',
         \A i \in created' : i \in created \/ (i \in v /\ i.list = List /\ List \in EnvLists)
  PROVE  CreatedIsWritten'
<1> DEFINE c == Set(List, v, new, gone)
<1>1. /\ c \in Command /\ c.op = "set" /\ c.list = List /\ c.value = v
      /\ c.new = new
  BY SetType, HeadType DEF Answering
<1>2. pipe # <<>> /\ Head(pipe).op = "get"
  BY DEF Answering
<1>3. Issued' = On(Tail(pipe)) \cup {c}
  BY <1>1, <1>2, FromIssue
<1>4. On(Tail(pipe)) \subseteq Issued
  BY <1>2, TailIndex DEF Issued, On, TypeOK
<1>5. \A x \in Issued : x.op = "set" => x \in On(Tail(pipe))
  BY <1>2, OnTail, IssuedIsOn DEF TypeOK
<1> HIDE DEF c
<1>6. ASSUME NEW l \in Lists, l # List PROVE SetsOn(l)' = SetsOn(l)
  BY <1>1, <1>3, <1>4, <1>5, <1>6 DEF SetsOn
<1>7. ASSUME NEW l \in Lists \ overlapped, l = List
      PROVE  SetsOn(l) = {} /\ SetsOn(l)' = {c}
  <2>1. ASSUME NEW x \in SetsOn(l) PROVE FALSE
    <3>1. PICK b \in 1..Len(pipe) : x = pipe[b]
      BY <2>1 DEF SetsOn, Issued
    <3>2. b # 1
      BY <1>2, <2>1, <3>1, HeadFirst DEF SetsOn
    <3> QED BY <1>2, <2>1, <3>1, <3>2, <1>7, BehindHead DEF SetsOn
  <2> QED BY <1>1, <1>3, <1>4, <1>7, <2>1 DEF SetsOn
<1>8. SUFFICES ASSUME ~failed, NEW l \in Lists \ overlapped, NEW i \in Item,
                      i.list = l
               PROVE  /\ i \in created' =>
                           \/ i \in dropped' \/ i \in stored[l]
                           \/ l \in EnvLists /\ (died \/ SetsOn(l)' # {})
                      /\ \A x \in SetsOn(l)' : i \in created' \cup x.new =>
                           i \in dropped' \/ i \in x.value \/ (l \in EnvLists /\ died)
  BY DEF CreatedIsWritten
<1>9. /\ i \in created =>
           \/ i \in dropped \/ i \in stored[l]
           \/ l \in EnvLists /\ (died \/ SetsOn(l) # {})
      /\ \A x \in SetsOn(l) : i \in created \cup x.new =>
           i \in dropped \/ i \in x.value \/ (l \in EnvLists /\ died)
  BY <1>8 DEF CreatedIsWritten
<1>10. CASE l # List
  BY <1>6, <1>8, <1>9, <1>10
<1>11. CASE l = List
  <2>1. SetsOn(l) = {} /\ SetsOn(l)' = {c} /\ stored[l] = Listed
    BY <1>7, <1>8, <1>11 DEF Listed
  <2> QED BY <1>1, <1>8, <1>9, <1>11, <2>1
<1> QED BY <1>10, <1>11

(* Executing a SET. *)
LEMMA WrittenFacts ==
  ASSUME TypeOK, Written
  PROVE  /\ pipe # <<>> /\ Head(pipe) \in SetCmd /\ Head(pipe).op = "set"
         /\ Head(pipe) \in Issued /\ List \in Lists
         /\ Head(pipe) \in SetsOn(List) /\ Head(pipe).value \in SUBSET Item
         /\ Head(pipe).new \in SUBSET Item /\ Head(pipe).gone \in SUBSET Item
         /\ stored'[List] = Head(pipe).value
         /\ \A l \in Lists : l # List => stored'[l] = stored[l]
         /\ Redone /\ From(1, {})
<1>1. pipe # <<>> /\ Head(pipe) \in SetCmd /\ Head(pipe).op = "set"
      /\ Head(pipe) \in Issued /\ List \in Lists
  BY HeadType, HeadFirst DEF Written, Answering
<1>2. Head(pipe).value \in SUBSET Item /\ Head(pipe).new \in SUBSET Item
      /\ Head(pipe).gone \in SUBSET Item
  BY <1>1 DEF SetCmd
<1>3. /\ stored'[List] = Head(pipe).value
      /\ \A l \in Lists : l # List => stored'[l] = stored[l]
      /\ stored' \in [Lists -> SUBSET Item]
  BY <1>1, <1>2 DEF Written, TypeOK
<1>4. Head(pipe) \in SetsOn(List)
  BY <1>1 DEF SetsOn, List
<1>5. From(1, {})
  BY <1>1, FromTail DEF Written
<1> QED BY <1>1, <1>2, <1>3, <1>4, <1>5 DEF Redone

LEMMA SetsOnTail ==
  ASSUME TypeOK, pipe # <<>>, pipe' = Tail(pipe)
  PROVE  /\ Issued' \subseteq Issued
         /\ \A l \in Lists :
              Head(pipe).op = "get" \/ l # List => SetsOn(l)' = SetsOn(l)
<1>1. Issued' \subseteq Issued
  BY FromTail, FromIssued
<1>2. \A x \in Issued : x # Head(pipe) => x \in Issued'
  BY OnTail, IssuedIsOn DEF TypeOK, Issued, On
<1> QED BY <1>1, <1>2 DEF SetsOn, List

LEMMA WrittenLeavesNone ==
  ASSUME TypeOK, ReadsAfterWrites, Written, NEW l \in Lists \ overlapped,
         l = List
  PROVE  SetsOn(l)' = {}
<1>1. SUFFICES ASSUME NEW x \in SetsOn(l)' PROVE FALSE
  OBVIOUS
<1>2. PICK a \in 1..Len(pipe') : x = pipe'[a]
  BY DEF SetsOn, Issued
<1>3. a + 1 \in 1..Len(pipe) /\ x = pipe[a + 1] /\ a + 1 # 1
  BY <1>2, WrittenFacts DEF From, TypeOK
<1>4. x.op = "set" /\ x.list = l
  BY DEF SetsOn
<1> QED BY <1>3, <1>4, BehindHead, WrittenFacts

LEMMA CreatedWritten ==
  ASSUME TypeOK, ItemsBelong, ReadsAfterWrites, CreatedIsWritten, Written
  PROVE  CreatedIsWritten'
<1>1. SUFFICES ASSUME ~failed, NEW l \in Lists \ overlapped, NEW i \in Item,
                      i.list = l
               PROVE  /\ i \in created' =>
                           \/ i \in dropped \/ i \in stored'[l]
                           \/ l \in EnvLists /\ (died \/ SetsOn(l)' # {})
                      /\ \A x \in SetsOn(l)' : i \in created' \cup x.new =>
                           i \in dropped \/ i \in x.value \/ (l \in EnvLists /\ died)
  BY DEF CreatedIsWritten, Written
<1>2. /\ i \in created =>
           \/ i \in dropped \/ i \in stored[l]
           \/ l \in EnvLists /\ (died \/ SetsOn(l) # {})
      /\ \A x \in SetsOn(l) : i \in created \cup x.new =>
           i \in dropped \/ i \in x.value \/ (l \in EnvLists /\ died)
  BY <1>1 DEF CreatedIsWritten
<1>3. created' = created \cup Head(pipe).new
  BY DEF Written
<1>4. CASE l = List
  BY <1>1, <1>2, <1>3, <1>4, WrittenLeavesNone, WrittenFacts
<1>5. CASE l # List
  <2>1. i \notin Head(pipe).new
    BY <1>1, <1>5, WrittenFacts DEF ItemsBelong, Belongs
  <2>2. SetsOn(l)' = SetsOn(l) /\ stored'[l] = stored[l]
    BY <1>5, WrittenFacts, SetsOnTail DEF Written
  <2> QED BY <1>2, <1>3, <2>1, <2>2
<1> QED BY <1>4, <1>5

LEMMA RevokedWritten ==
  ASSUME TypeOK, ItemsBelong, ReadsAfterWrites, RevokedStaysGone,
         RevokedNotWritten, Written
  PROVE  RevokedStaysGone' /\ RevokedNotWritten'
<1>1. Head(pipe).gone \cap Head(pipe).value = {}
  BY WrittenFacts DEF RevokedNotWritten
<1>2. ASSUME NEW i \in revoked', i.list \in KeyLists \ overlapped
      PROVE  /\ i \notin stored'[i.list]
             /\ \A c \in SetsOn(i.list)' : i \notin c.value
  <2>1. i.list \in Lists
    BY <1>2 DEF Lists
  <2>2. CASE i \in revoked
    <3>1. i \notin stored[i.list] /\ \A c \in SetsOn(i.list) : i \notin c.value
      BY <1>2, <2>2 DEF RevokedStaysGone, RevokedNotWritten
    <3>2. SetsOn(i.list)' \subseteq SetsOn(i.list)
      BY WrittenFacts, SetsOnTail DEF SetsOn, Written
    <3> QED BY <2>1, <3>1, <3>2, WrittenFacts DEF Redone
  <2>3. CASE i \in Head(pipe).gone
    <3>1. i.list = List
      BY <2>3, WrittenFacts DEF ItemsBelong, Belongs
    <3>2. SetsOn(i.list)' = {}
      BY <1>2, <2>1, <3>1, WrittenLeavesNone
    <3> QED BY <1>1, <2>3, <3>1, <3>2, WrittenFacts
  <2> QED BY <1>2, <2>2, <2>3 DEF Written
<1>3. overlapped' = overlapped /\ Issued' \subseteq Issued
  BY WrittenFacts, SetsOnTail DEF Written
<1> QED BY <1>2, <1>3 DEF RevokedStaysGone, RevokedNotWritten, SetsOn

(* The shapes of the steps. *)

LEMMA QuietStep ==
  ASSUME TypeOK, TypeOK', ListsInv, Redone, NEW k \in {0, 1}, From(k, {}),
         UNCHANGED <<used, created, dropped, revoked, overlapped>>,
         CreatedIsWritten'
  PROVE  ListsInv'
<1>1. ItemsBelong'
  BY BelongStep DEF ListsInv, ItemsBelong
<1>2. PendingIsNew'
  BY PendingStep DEF ListsInv
<1>3. ReadsAfterWrites'
  BY OrderStep DEF ListsInv
<1>4. EnvNamesUnique' /\ WritesAreUnique'
  BY UniqueStep DEF ListsInv
<1>5. RevokedStaysGone' /\ RevokedNotWritten'
  BY RevokedStep DEF ListsInv
<1> QED BY <1>1, <1>2, <1>3, <1>4, <1>5 DEF ListsInv

LEMMA StoredSame == ASSUME TypeOK, UNCHANGED stored PROVE Redone
BY DEF Redone, TypeOK

LEMMA AnswerStep ==
  ASSUME TypeOK, TypeOK', ListsInv, Answering("get"),
         NEW v \in SUBSET Item, NEW new \in SUBSET Item, NEW gone \in SUBSET Item,
         Issue(Set(List, v, new, gone)), UNCHANGED <<stored, used, overlapped>>,
         \A i \in v : i \in Listed \/ (IsCreate(Head(pipe)) /\ i = NewItem),
         new \subseteq v, gone \subseteq Listed, gone \cap v = {},
         List \in EnvLists => Unique(v),
         \A i \in revoked' : i \in revoked \/ (List \in EnvLists /\ i \in Listed),
         CreatedIsWritten'
  PROVE  ListsInv'
<1>0. PICK c, l : c = Set(List, v, new, gone) /\ l = List
  OBVIOUS
<1>1. /\ c \in Command /\ c.op = "set" /\ c.list = l /\ c.value = v
      /\ c.new = new /\ c.gone = gone /\ l \in Lists
  BY <1>0, SetType, HeadType DEF Answering
<1>2. pipe # <<>> /\ Head(pipe).op = "get" /\ Listed = stored[l]
      /\ 1 \in 1..Len(pipe) /\ pipe[1] = Head(pipe) /\ Head(pipe) \in Issued
  BY <1>0, HeadFirst DEF Answering, Listed
<1>3. From(1, {c})
  BY <1>0, <1>1, <1>2, FromIssue
<1>4. /\ \A b \in 2..Len(pipe) : pipe[b].list = l => l \in overlapped
      /\ Redone /\ ~IsCreate(c)
  BY <1>0, <1>1, <1>2, BehindHead, StoredSame DEF ListsInv, IsCreate
<1>5. ASSUME NEW i \in Item, i \in Listed \/ (IsCreate(Head(pipe)) /\ i = NewItem)
      PROVE  i.list = l /\ i.text \in TextsOf(l) /\ i.by \in used
  <2>1. CASE i \in Listed
    BY <1>1, <1>2, <2>1 DEF ListsInv, ItemsBelong, Belongs
  <2>2. CASE IsCreate(Head(pipe)) /\ i = NewItem
    BY <1>0, <1>2, <2>2 DEF ListsInv, ItemsBelong, Belongs, NewItem, List
  <2> QED BY <1>5, <2>1, <2>2
<1>6. ItemsBelong'
  <2>1. \A i \in c.value \cup c.new \cup c.gone : Belongs(i, c.list)'
    <3>1. \A i \in c.value \cup c.new \cup c.gone : i \in Item /\
            (i \in Listed \/ (IsCreate(Head(pipe)) /\ i = NewItem))
      BY <1>1
    <3> QED BY <1>1, <1>5, <3>1 DEF Belongs
  <2>2. \A i \in revoked' : i.by \in used'
    BY <1>5, ListedType, <1>2 DEF ListsInv, ItemsBelong
  <2> QED BY <1>3, <1>4, <2>1, <2>2, BelongStep DEF ListsInv
<1>7. PendingIsNew'
  <2>1. \A i \in c.value \cup c.gone :
          \/ \E m \in Lists : i \in stored[m]
          \/ pipe # <<>> /\ IsCreate(Head(pipe)) /\ i = NewItem
    BY <1>1, <1>2
  <2>2. \A i \in revoked' : i \in revoked \/ \E m \in Lists : i \in stored[m]
    BY <1>1, <1>2
  <2> QED BY <1>3, <1>4, <2>1, <2>2, PendingStep DEF ListsInv
<1>8. ReadsAfterWrites'
  BY <1>1, <1>3, <1>4, OrderStep DEF ListsInv
<1>9. EnvNamesUnique' /\ WritesAreUnique'
  BY <1>1, <1>3, <1>4, <1>0, UniqueStep DEF ListsInv
<1>10. RevokedStaysGone' /\ RevokedNotWritten'
  <2>1. \A i \in revoked' : i \in revoked \/ i.list \notin KeyLists
    BY <1>2, <1>5, ListedType, <1>0, ListsAssumption
  <2>2. \A i \in v : i \in stored[l] \/ i \notin revoked
    BY <1>2 DEF ListsInv, PendingIsNew, NewItem
  <2> QED BY <1>1, <1>3, <1>4, <2>1, <2>2, RevokedStep DEF ListsInv
<1> QED BY <1>6, <1>7, <1>8, <1>9, <1>10 DEF ListsInv

(* A call: its GET joins the pipe. *)
LEMMA CallStep ==
  ASSUME TypeOK, TypeOK', ListsInv, NEW l \in Lists,
         NEW c \in CreateCall \cup RevokeCall, Call(l, c),
         used \subseteq used',
         c.do = "create" => Belongs(c.item, l)' /\ c.item.by \notin used
  PROVE  ListsInv'
<1> DEFINE g == Get(l, c)
<1>1. g \in Command /\ g.op = "get" /\ g.list = l /\ g.call = c
  BY GetType
<1>2. /\ pipe' = Append(pipe, g) /\ Redone /\ overlapped \subseteq overlapped'
      /\ Reading(l) => l \in overlapped'
      /\ UNCHANGED <<stored, created, dropped, revoked, failed, died>>
  BY StoredSame DEF Call
<1> HIDE DEF g
<1>3. From(0, {g}) /\ Issued' = Issued \cup {g}
  BY <1>1, <1>2, FromAppend
<1>4. ItemsBelong'
  <2>1. IsCreate(g) => Belongs(g.call.item, g.list)'
    BY <1>1 DEF IsCreate
  <2>2. \A i \in revoked' : i.by \in used'
    BY <1>2 DEF ListsInv, ItemsBelong
  <2> QED BY <1>1, <1>2, <1>3, <2>1, <2>2, BelongStep DEF ListsInv
<1>5. ReadsAfterWrites'
  <2>1. \A b \in 1..Len(pipe) :
          pipe[b].list = l /\ l \notin overlapped' => pipe[b].op = "set"
    BY <1>2 DEF Reading, TypeOK, Command, GetCmd, SetCmd
  <2> QED BY <1>1, <1>2, <1>3, <2>1, OrderStep DEF ListsInv
<1>6. EnvNamesUnique' /\ WritesAreUnique'
  BY <1>1, <1>2, <1>3, UniqueStep DEF ListsInv
<1>7. RevokedStaysGone' /\ RevokedNotWritten'
  BY <1>1, <1>2, <1>3, RevokedStep DEF ListsInv
<1>8. CreatedIsWritten'
  <2>1. \A m \in Lists : SetsOn(m)' = SetsOn(m)
    BY <1>1, <1>3 DEF SetsOn
  <2> QED BY <1>2, <2>1, CreatedQuiet DEF ListsInv
<1>9. PendingIsNew'
  <2>1. CASE ~IsCreate(g)
    BY <1>1, <1>2, <1>3, <2>1, PendingStep DEF ListsInv
  <2>2. CASE IsCreate(g)
    <3>1. c.item \in Item /\ c.item.by \notin used
      BY <1>1, <2>2 DEF IsCreate, CreateCall, RevokeCall
    <3>2. /\ c.item \notin revoked
          /\ \A m \in Lists : c.item \notin stored[m]
          /\ \A x \in Issued : x.op = "set" => c.item \notin x.value \cup x.gone
          /\ \A b \in 1..Len(pipe) : IsCreate(pipe[b]) => pipe[b].call.item # c.item
      BY <3>1, IssuedType DEF ListsInv, ItemsBelong, Belongs, SetsOn, Issued
    <3>3. /\ Len(pipe) \in Nat /\ Len(pipe') = Len(pipe) + 1
          /\ pipe'[Len(pipe) + 1] = g
          /\ \A b \in 1..Len(pipe) : pipe'[b] = pipe[b]
      BY <1>1, <1>2 DEF TypeOK
    <3> QED BY <1>1, <1>2, <1>3, <3>2, <3>3 DEF ListsInv, PendingIsNew, IsCreate
  <2> QED BY <2>1, <2>2
<1> QED BY <1>4, <1>5, <1>6, <1>7, <1>8, <1>9 DEF ListsInv

LEMMA CreatingFacts ==
  ASSUME TypeOK, ListsInv, Creating
  PROVE  /\ Answering("get") /\ pipe # <<>> /\ IsCreate(Head(pipe))
         /\ NewItem \in Item /\ Belongs(NewItem, List)
         /\ Listed \in SUBSET Item /\ Replaced \in SUBSET Listed
<1>1. pipe # <<>> /\ IsCreate(Head(pipe)) /\ NewItem \in Item
  BY CreateType
<1>2. Belongs(NewItem, List)
  BY <1>1, HeadFirst DEF ListsInv, ItemsBelong, NewItem, List
<1> QED BY <1>1, <1>2, ListedType DEF Creating, Replaced

LEMMA RevokingFacts ==
  ASSUME TypeOK, Revoking
  PROVE  /\ Answering("get") /\ pipe # <<>>
         /\ Listed \in SUBSET Item /\ Named \in SUBSET Listed
BY ListedType DEF Revoking, Answering, Named

LEMMA KeyCreatedStep ==
  ASSUME TypeOK, TypeOK', ListsInv, KeyCreated \/ KeyCreatedAnyway
  PROVE  ListsInv'
<1>1. Creating /\ List \in KeyLists /\ List \notin EnvLists
  BY ListsAssumption DEF KeyCreated, KeyCreatedAnyway
<1>2. PICK v \in SUBSET Item :
        /\ Issue(Set(List, v, {NewItem}, {})) /\ NewItem \in v
        /\ v \subseteq Listed \cup {NewItem}
        /\ failed' \/ (v = Listed \cup {NewItem} /\ KeyCreated)
  BY <1>1, CreatingFacts DEF KeyCreated, KeyCreatedAnyway
<1>3. CreatedIsWritten'
  <2>1. CASE failed'
    BY <2>1, CreatedQuiet DEF ListsInv
  <2>2. CASE v = Listed \cup {NewItem} /\ KeyCreated
    BY <1>1, <1>2, <2>2, CreatingFacts, CreatedAnswered DEF ListsInv, KeyCreated
  <2> QED BY <1>2, <2>1, <2>2
<1>4. UNCHANGED <<stored, used, overlapped, revoked>>
  BY DEF KeyCreated, KeyCreatedAnyway
<1> QED BY <1>1, <1>2, <1>3, <1>4, CreatingFacts, AnswerStep

LEMMA EnvCreatedStep ==
  ASSUME TypeOK, TypeOK', ListsInv, EnvCreated
  PROVE  ListsInv'
<1> DEFINE v == (Listed \ Replaced) \cup {NewItem}
<1>1. Creating /\ List \in EnvLists /\ List \notin KeyLists /\ List \in Lists
  BY ListsAssumption DEF EnvCreated, Lists
<1>2. Issue(Set(List, v, {}, {})) /\ v \in SUBSET Item
  BY <1>1, CreatingFacts DEF EnvCreated
<1>3. Unique(v)
  <2>1. NewItem.text \in Names
    BY <1>1, CreatingFacts DEF Belongs, TextsOf
  <2>2. \A i \in Listed \ Replaced : i.text # NewItem.text
    BY <2>1, ListsAssumption DEF Replaced
  <2>3. Unique(Listed)
    BY <1>1 DEF ListsInv, EnvNamesUnique, Listed
  <2> QED BY <2>2, <2>3 DEF Unique
<1>4. CreatedIsWritten'
  BY <1>1, <1>2, CreatingFacts, CreatedAnswered DEF ListsInv, EnvCreated, Belongs
<1>5. /\ \A i \in v : i \in Listed \/ (IsCreate(Head(pipe)) /\ i = NewItem)
      /\ UNCHANGED <<stored, used, overlapped, revoked>>
  BY <1>1, CreatingFacts DEF EnvCreated
<1> HIDE DEF v
<1> QED BY <1>1, <1>2, <1>3, <1>4, <1>5, CreatingFacts, AnswerStep

LEMMA KeysRevokedStep ==
  ASSUME TypeOK, TypeOK', ListsInv, KeysRevoked
  PROVE  ListsInv'
<1> DEFINE v == Listed \ Named
<1>1. Revoking /\ List \in KeyLists /\ List \notin EnvLists
  BY ListsAssumption DEF KeysRevoked
<1>2. Issue(Set(List, v, {}, Named)) /\ v \in SUBSET Item /\ Named \in SUBSET Item
  BY <1>1, RevokingFacts DEF KeysRevoked
<1>3. CreatedIsWritten'
  BY <1>1, <1>2, RevokingFacts, CreatedAnswered DEF ListsInv, KeysRevoked
<1>4. UNCHANGED <<stored, used, overlapped, revoked>>
  BY DEF KeysRevoked
<1> QED BY <1>1, <1>2, <1>3, <1>4, RevokingFacts, AnswerStep

LEMMA EnvRevokedStep ==
  ASSUME TypeOK, TypeOK', ListsInv, EnvRevoked
  PROVE  ListsInv'
<1>1. Revoking /\ List \in EnvLists /\ List \in Lists
  BY DEF EnvRevoked, Lists
<1>2. PICK F \in SUBSET Named :
        /\ Issue(Set(List, Listed \ F, {}, {}))
        /\ dropped' = dropped \cup F
        /\ revoked' = revoked \cup F
  BY DEF EnvRevoked
<1> DEFINE v == Listed \ F
<1>3. v \in SUBSET Item /\ F \subseteq Listed
  BY <1>1, RevokingFacts
<1>4. Unique(v)
  <2>1. Unique(Listed)
    BY <1>1 DEF ListsInv, EnvNamesUnique, Listed
  <2> QED BY <2>1 DEF Unique
<1>5. CreatedIsWritten'
  BY <1>1, <1>2, <1>3, RevokingFacts, CreatedAnswered DEF ListsInv, EnvRevoked
<1>6. UNCHANGED <<stored, used, overlapped>>
  BY DEF EnvRevoked
<1> QED BY <1>1, <1>2, <1>3, <1>4, <1>5, <1>6, RevokingFacts, AnswerStep

LEMMA InvStep ==
  ASSUME TypeOK, TypeOK', ListsInv, [Next]_vars
  PROVE  ListsInv'
<1>1. CASE KeyCreated \/ KeyCreatedAnyway
  BY <1>1, KeyCreatedStep
<1>2. CASE EnvCreated
  BY <1>2, EnvCreatedStep
<1>3. CASE KeysRevoked
  BY <1>3, KeysRevokedStep
<1>4. CASE EnvRevoked
  BY <1>4, EnvRevokedStep
<1>5. CASE NothingToRevoke \/ RevokeRejected
  <2>1. /\ pipe # <<>> /\ Head(pipe).op = "get" /\ pipe' = Tail(pipe)
        /\ UNCHANGED <<stored, used, created, dropped, revoked, overlapped, died>>
        /\ failed' \/ failed' = failed
    BY <1>5 DEF NothingToRevoke, RevokeRejected, Revoking, Answering
  <2>2. Redone /\ From(1, {})
    BY <2>1, StoredSame, FromTail
  <2>3. CreatedIsWritten'
    BY <2>1, SetsOnTail, CreatedQuiet DEF ListsInv
  <2> QED BY <2>1, <2>2, <2>3, QuietStep
<1>6. CASE Written
  <2>1. CreatedIsWritten'
    BY <1>6, CreatedWritten DEF ListsInv
  <2>2. RevokedStaysGone' /\ RevokedNotWritten'
    BY <1>6, RevokedWritten DEF ListsInv
  <2>3. \A i \in revoked' : i.by \in used' /\
          (i \in revoked \/ \E c \in Issued : c.op = "set" /\ i \in c.gone)
    BY <1>6, WrittenFacts DEF Written, ListsInv, ItemsBelong, Belongs
  <2>4. ItemsBelong'
    BY <1>6, <2>3, WrittenFacts, BelongStep DEF ListsInv, Written
  <2>5. PendingIsNew'
    BY <1>6, <2>3, WrittenFacts, PendingStep DEF ListsInv
  <2>6. ReadsAfterWrites'
    BY <1>6, WrittenFacts, OrderStep DEF ListsInv, Written
  <2>7. EnvNamesUnique' /\ WritesAreUnique'
    BY <1>6, WrittenFacts, UniqueStep DEF ListsInv
  <2> QED BY <2>1, <2>2, <2>4, <2>5, <2>6, <2>7 DEF ListsInv
<1>7. CASE SetRejected \/ EnvGetRejected
  <2>1. PICK k \in {0, 1} : pipe # <<>> /\ Unhandled(k)
    BY <1>7 DEF SetRejected, EnvGetRejected, Answering
  <2>2. /\ Redone /\ failed'
        /\ UNCHANGED <<used, created, dropped, revoked, overlapped>>
        /\ pipe' = <<>> \/ pipe' = Tail(pipe)
    BY <2>1, UnhandledRedone
  <2>3. CreatedIsWritten'
    BY <2>2, CreatedQuiet DEF ListsInv
  <2> QED BY <2>1, <2>2, <2>3, FromEmpty, FromTail, QuietStep
<1>8. CASE Tick \/ UNCHANGED vars
  <2>1. UNCHANGED <<stored, pipe, used, created, dropped, revoked, overlapped,
                    failed, died>>
    BY <1>8 DEF Tick, vars
  <2>2. Redone /\ From(0, {}) /\ \A l \in Lists : SetsOn(l)' = SetsOn(l)
    BY <2>1, StoredSame, FromSame DEF SetsOn, Issued
  <2>3. CreatedIsWritten'
    BY <2>1, <2>2, CreatedQuiet DEF ListsInv
  <2> QED BY <2>1, <2>2, <2>3, QuietStep
<1>9. CASE Crash
  <2>1. Redone /\ pipe' = <<>> /\ died'
    BY <1>9, ExitRedone DEF Crash
  <2>2. UNCHANGED <<used, created, dropped, revoked, overlapped, failed>>
    BY <1>9 DEF Crash
  <2>3. CreatedIsWritten'
    BY <2>1, <2>2, CreatedExit DEF ListsInv
  <2> QED BY <2>1, <2>2, <2>3, FromEmpty, QuietStep
<1>10. ASSUME NEW l \in Lists, NEW r \in Requests, NEW n \in TextsOf(l),
              Create(l, r, n)
       PROVE  ListsInv'
  <2> DEFINE i == [list |-> l, text |-> n, by |-> r]
             c == [do |-> "create", item |-> i]
  <2>1. c \in CreateCall /\ c.item = i
    BY DEF CreateCall, Item, TextsOf, Texts
  <2>2. Belongs(i, l)' /\ i.by \notin used /\ used \subseteq used' /\ Call(l, c)
    BY <1>10 DEF Create, Belongs
  <2> HIDE DEF c
  <2> QED BY <2>1, <2>2, CallStep
<1>11. ASSUME NEW l \in Lists, NEW T \in SUBSET TextsOf(l), Revoke(l, T)
       PROVE  ListsInv'
  <2> DEFINE c == [do |-> "revoke", texts |-> T]
  <2>1. c \in RevokeCall /\ c.do = "revoke"
    BY DEF RevokeCall, TextsOf, Texts
  <2>2. used' = used /\ Call(l, c)
    BY <1>11 DEF Revoke
  <2> HIDE DEF c
  <2> QED BY <2>1, <2>2, CallStep
<1> QED
  BY <1>1, <1>2, <1>3, <1>4, <1>5, <1>6, <1>7, <1>8, <1>9, <1>10, <1>11
  DEF Next, Redis

LEMMA InvInit == Init => ListsInv
<1> SUFFICES ASSUME Init PROVE ListsInv
  OBVIOUS
<1>1. Len(pipe) = 0 /\ Issued = {} /\ \A l \in Lists : stored[l] = {}
  BY DEF Init, Issued
<1> QED
  BY <1>1 DEF Init, ListsInv, ItemsBelong, PendingIsNew, ReadsAfterWrites,
     EnvNamesUnique, WritesAreUnique, RevokedStaysGone, RevokedNotWritten,
     CreatedIsWritten, SetsOn, Unique, Lists

(* The inductive invariant, for any lists, names, numbers of requests and   *)
(* commands in the pipe, with failures and crashes.                         *)
THEOREM ListsInvHolds == Spec => []ListsInv
<1>1. Init => ListsInv
  BY InvInit
<1>2. TypeOK /\ TypeOK' /\ ListsInv /\ [Next]_vars => ListsInv'
  BY InvStep
<1> QED BY <1>1, <1>2, ListsTypeCorrect, PTL DEF Spec

(* No owner ever has two environment variables of one name (apienv.js).     *)
THEOREM NamesAreUnique == Spec => []EnvNamesUnique
<1>1. ListsInv => EnvNamesUnique
  BY DEF ListsInv
<1> QED BY <1>1, ListsInvHolds, PTL

(* A revoked API key does not come back (apikey.js).                        *)
THEOREM RevokedIsGone == Spec => []RevokedStaysGone
<1>1. ListsInv => RevokedStaysGone
  BY DEF ListsInv
<1> QED BY <1>1, ListsInvHolds, PTL

(* The list as it will be, if calls on it did not overlap.                  *)
LEMMA EffectiveIs ==
  ASSUME TypeOK, ReadsAfterWrites, NEW l \in Lists \ overlapped
  PROVE  \/ SetsOn(l) = {} /\ Effective(l) = stored[l]
         \/ \E c \in SetsOn(l) : Effective(l) = c.value
<1>1. Len(pipe) \in Nat
  BY DEF TypeOK
<1>2. CASE SetsOn(l) = {}
  BY <1>1, <1>2, StoredAfterIs DEF Effective
<1>3. CASE SetsOn(l) # {}
  <2>1. PICK a \in 1..Len(pipe) : pipe[a].op = "set" /\ pipe[a].list = l
    BY <1>3 DEF SetsOn, Issued
  <2>2. \A b \in (a + 1)..Len(pipe) : ~(pipe[b].op = "set" /\ pipe[b].list = l)
    BY <1>1, <2>1 DEF ReadsAfterWrites
  <2>3. a \in LastSet(0, Len(pipe), l)
    BY <1>1, <2>1, <2>2 DEF LastSet
  <2> DEFINE i == CHOOSE i \in LastSet(0, Len(pipe), l) : TRUE
  <2>4. i \in LastSet(0, Len(pipe), l)
    BY <2>3
  <2>5. Effective(l) = pipe[i].value
    BY <2>3 DEF Effective, StoredAfter
  <2> HIDE DEF i
  <2>6. pipe[i] \in SetsOn(l)
    BY <1>1, <2>4 DEF LastSet, SetsOn, Issued
  <2> QED BY <2>5, <2>6
<1> QED BY <1>2, <1>3

(* What an owner was told of is kept until it is dropped (apikey.js,        *)
(* apienv.js).                                                              *)
THEOREM CreatedStays == Spec => []CreatedIsKept
<1>1. TypeOK /\ ListsInv => CreatedIsKept
  <2> SUFFICES ASSUME TypeOK, ListsInv, ~failed, NEW i \in created,
                      i.list \notin overlapped
               PROVE  \/ i \in dropped
                      \/ i.list \in KeyLists /\ i \in stored[i.list]
                      \/ i.list \in EnvLists /\ (died \/ i \in Effective(i.list))
    BY DEF CreatedIsKept
  <2>1. i \in Item /\ i.list \in Lists \ overlapped
    BY DEF TypeOK, Item
  <2>2. /\ \/ i \in dropped \/ i \in stored[i.list]
           \/ i.list \in EnvLists /\ (died \/ SetsOn(i.list) # {})
        /\ \A c \in SetsOn(i.list) :
             i \in dropped \/ i \in c.value \/ (i.list \in EnvLists /\ died)
    BY <2>1 DEF ListsInv, CreatedIsWritten
  <2>3. \/ SetsOn(i.list) = {} /\ Effective(i.list) = stored[i.list]
        \/ \E c \in SetsOn(i.list) : Effective(i.list) = c.value
    BY <2>1, EffectiveIs DEF ListsInv
  <2> QED BY <2>1, <2>2, <2>3 DEF Lists
<1> QED BY <1>1, ListsTypeCorrect, ListsInvHolds, PTL
=============================================================================
