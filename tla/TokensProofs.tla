----------------------------- MODULE TokensProofs -----------------------------
(* What holds of the tokens of lib/thinx/jwtlogin.js, lib/router.auth.js,   *)
(* lib/router.google.js and lib/router.github.js with any links, requests   *)
(* and bounds: the types, that a signed token is accepted, and that links   *)
(* expire.                                                                  *)
EXTENDS Tokens, SequenceTheorems, TLAPS

(* The commands in a pipe. *)
On(p) == {p[i] : i \in 1..Len(p)}

LEMMA TailIndex ==
  ASSUME NEW S, NEW p \in Seq(S), p # <<>>
  PROVE  /\ Len(p) \in Nat \ {0} /\ p[1] = Head(p)
         /\ Len(Tail(p)) = Len(p) - 1
         /\ \A i \in 1..Len(Tail(p)) : Tail(p)[i] = p[i + 1]
OBVIOUS

(* The head of the pipe is answered and its callback issues cs. *)
LEMMA ThenIs ==
  ASSUME NEW S, NEW p \in Seq(S), p # <<>>, NEW cs \in Seq(S)
  PROVE  /\ Tail(p) \o cs \in Seq(S)
         /\ Len(Tail(p) \o cs) = Len(p) - 1 + Len(cs)
         /\ \A i \in 1..Len(p) - 1 : (Tail(p) \o cs)[i] = p[i + 1]
         /\ \A j \in 1..Len(cs) : (Tail(p) \o cs)[Len(p) - 1 + j] = cs[j]
<1>1. /\ Tail(p) \in Seq(S) /\ Len(p) \in Nat \ {0} /\ Len(Tail(p)) = Len(p) - 1
      /\ \A i \in 1..Len(Tail(p)) : Tail(p)[i] = p[i + 1]
  BY HeadTailProperties, TailIndex
<1>2. Len(cs) \in Nat
  OBVIOUS
<1> DEFINE t == Tail(p)
<1> HIDE DEF t
<1>3. /\ t \o cs \in Seq(S)
         /\ Len(t \o cs) = Len(t) + Len(cs)
         /\ \A i \in 1 .. Len(t) + Len(cs) : (t \o cs)[i] =
                     IF i <= Len(t) THEN t[i] ELSE cs[i - Len(t)]
  BY <1>1, ConcatProperties DEF t
<1> QED BY <1>1, <1>2, <1>3 DEF t

LEMMA NoCommands == \A S : <<>> \in Seq(S) /\ Len(<<>>) = 0 /\ On(<<>>) = {}
BY DEF On

LEMMA OneCommand ==
  ASSUME NEW S, NEW x \in S
  PROVE  /\ <<x>> \in Seq(S) /\ Len(<<x>>) = 1 /\ <<x>>[1] = x
         /\ On(<<x>>) = {x}
<1>1. <<x>> \in Seq(S) /\ Len(<<x>>) = 1 /\ <<x>>[1] = x
  OBVIOUS
<1> QED BY <1>1 DEF On

LEMMA TwoCommands ==
  ASSUME NEW S, NEW x \in S, NEW y \in S
  PROVE  /\ <<x, y>> \in Seq(S) /\ Len(<<x, y>>) = 2
         /\ <<x, y>>[1] = x /\ <<x, y>>[2] = y
         /\ On(<<x, y>>) = {x, y}
<1>1. /\ <<x, y>> \in Seq(S) /\ Len(<<x, y>>) = 2
      /\ <<x, y>>[1] = x /\ <<x, y>>[2] = y
  OBVIOUS
<1> QED BY <1>1 DEF On

(* The first k commands of a pipe (k is 0 or 1) leave it, and cs join it.   *)
Follows(p, q, k, cs) ==
  /\ k \in {0, 1} /\ k <= Len(p)
  /\ Len(q) = Len(p) - k + Len(cs)
  /\ \A i \in 1..Len(p) - k : q[i] = p[i + k]
  /\ \A j \in 1..Len(cs) : q[Len(p) - k + j] = cs[j]

LEMMA FollowsThen ==
  ASSUME NEW S, NEW p \in Seq(S), p # <<>>, NEW cs \in Seq(S)
  PROVE  Tail(p) \o cs \in Seq(S) /\ Follows(p, Tail(p) \o cs, 1, cs)
<1> DEFINE q == Tail(p) \o cs
<1>1. /\ q \in Seq(S) /\ Len(q) = Len(p) - 1 + Len(cs)
      /\ \A i \in 1..Len(p) - 1 : q[i] = p[i + 1]
      /\ \A j \in 1..Len(cs) : q[Len(p) - 1 + j] = cs[j]
  BY ThenIs
<1>2. 1 <= Len(p)
  BY TailIndex
<1> HIDE DEF q
<1>3. Follows(p, q, 1, cs)
  BY <1>1, <1>2 DEF Follows
<1> QED BY <1>1, <1>3 DEF q

LEMMA FollowsJoin ==
  ASSUME NEW S, NEW p \in Seq(S), NEW cs \in Seq(S)
  PROVE  p \o cs \in Seq(S) /\ Follows(p, p \o cs, 0, cs)
<1> DEFINE q == p \o cs
<1>1. /\ q \in Seq(S) /\ Len(q) = Len(p) + Len(cs)
      /\ \A i \in 1..Len(p) : q[i] = p[i]
      /\ \A j \in 1..Len(cs) : q[Len(p) + j] = cs[j]
  OBVIOUS
<1>2. Len(p) \in Nat
  OBVIOUS
<1> HIDE DEF q
<1>3. Follows(p, q, 0, cs)
  BY <1>1, <1>2 DEF Follows
<1> QED BY <1>1, <1>3 DEF q

LEMMA FollowsAppend ==
  ASSUME NEW S, NEW p \in Seq(S), NEW c \in S
  PROVE  Append(p, c) \in Seq(S) /\ Follows(p, Append(p, c), 0, <<c>>)
<1> DEFINE q == Append(p, c)
           cs == <<c>>
<1>1. /\ q \in Seq(S) /\ Len(q) = Len(p) + 1 /\ q[Len(p) + 1] = c
      /\ \A i \in 1..Len(p) : q[i] = p[i]
  OBVIOUS
<1>2. Len(p) \in Nat
  OBVIOUS
<1>3. Len(cs) = 1 /\ cs[1] = c
  BY OneCommand
<1> HIDE DEF q, cs
<1>4. Follows(p, q, 0, cs)
  BY <1>1, <1>2, <1>3 DEF Follows
<1> QED BY <1>1, <1>4 DEF q, cs

LEMMA FollowsTail ==
  ASSUME NEW S, NEW p \in Seq(S), p # <<>>
  PROVE  Tail(p) \in Seq(S) /\ Follows(p, Tail(p), 1, <<>>)
<1> DEFINE q == Tail(p)
           cs == <<>>
<1>1. /\ Len(p) \in Nat \ {0} /\ Len(q) = Len(p) - 1
      /\ \A i \in 1..Len(q) : q[i] = p[i + 1]
  BY TailIndex
<1>2. q \in Seq(S) /\ Len(cs) = 0
  OBVIOUS
<1> HIDE DEF q, cs
<1>3. Follows(p, q, 1, cs)
  BY <1>1, <1>2 DEF Follows
<1> QED BY <1>2, <1>3 DEF q, cs

(* Where a command of the new pipe comes from. *)
LEMMA FollowsFrom ==
  ASSUME NEW S, NEW p \in Seq(S), NEW q \in Seq(S), NEW k, NEW cs \in Seq(S),
         Follows(p, q, k, cs), NEW i \in 1..Len(q)
  PROVE  \/ i + k \in 1..Len(p) /\ i + k > k /\ q[i] = p[i + k]
         \/ \E j \in 1..Len(cs) : i = Len(p) - k + j /\ q[i] = cs[j]
<1>1. Len(p) \in Nat /\ Len(q) \in Nat /\ Len(cs) \in Nat /\ k \in {0, 1}
  BY DEF Follows
<1>2. CASE i <= Len(p) - k
  BY <1>1, <1>2 DEF Follows
<1>3. CASE i > Len(p) - k
  <2> DEFINE j == i - (Len(p) - k)
  <2>1. j \in 1..Len(cs) /\ i = Len(p) - k + j
    BY <1>1, <1>3 DEF Follows
  <2>2. q[i] = cs[j]
    BY <2>1 DEF Follows
  <2> QED BY <2>1, <2>2
<1> QED BY <1>1, <1>2, <1>3

LEMMA FollowsOn ==
  ASSUME NEW S, NEW p \in Seq(S), NEW q \in Seq(S), NEW k, NEW cs \in Seq(S),
         Follows(p, q, k, cs)
  PROVE  On(q) \subseteq On(p) \cup On(cs)
<1> SUFFICES ASSUME NEW i \in 1..Len(q) PROVE q[i] \in On(p) \cup On(cs)
  BY DEF On
<1> QED BY FollowsFrom DEF On
-----------------------------------------------------------------------------
(* Those for whom the secret is asked for, drawn or written. *)
Waiting ==
  drawing \cup {c.task : c \in {d \in On(pipe) : d.op \in {"get", "put"}}}

(* A verification that waits is of a call that was made, and the token it   *)
(* is about was signed.                                                     *)
IsKnown(t, calls, secrets) ==
  t.do = "verify" =>
    /\ t.by <= Len(calls)
    /\ calls[t.by].op = "verify"
    /\ secrets[calls[t.by].of] # 0
WaitingKnown == \A t \in Waiting : IsKnown(t, asked, signed)

IsPut(c) == c.op = "put"
Puts == {i \in 1..Len(pipe) : IsPut(pipe[i])}

(* As long as no two secrets were made at once: a secret is made only when  *)
(* there is none, for one task, and what is kept or was used to sign is     *)
(* what Redis holds.                                                        *)
MadeOnce ==
  /\ secret # 0 => drawing = {} /\ Puts = {}
  /\ drawing # {} => Puts = {}
  /\ \A t, u \in drawing : t = u
  /\ \A i, j \in Puts : i = j
UsedAlone ==
  /\ kept \in {0, secret}
  /\ \A k \in Calls : signed[k] \in {0, secret}
  /\ refused = {}
OneSecret == ~raced => MadeOnce /\ UsedAlone

(* As long as nothing went wrong: the expiry of a link is behind its SET in *)
(* the pipe, or follows when the SET is answered.                           *)
Ends(cs) ==
  \A i \in 1..Len(cs) :
    cs[i].op = "set" /\ ~cs[i].chained =>
      \E j \in 1..Len(cs) : j > i /\ cs[j] = Expire(cs[i].link)
ExpiryFollows == ~disturbed => up /\ Ends(pipe)
LinksInv == ExpiryFollows /\ LinksExpire
-----------------------------------------------------------------------------
(* Commands, and how the pipe moves. *)

LEMMA CommandTypes ==
  /\ Core \in Task /\ Router \in Task
  /\ \A k \in Calls : \A d \in {"sign", "verify"} : [do |-> d, by |-> k] \in Task
  /\ \A t \in Task : Get(t) \in Command
  /\ \A t \in Task : \A k \in Keys : Put(t, k) \in Command
  /\ \A l \in Links : \A b \in BOOLEAN : Set(l, b) \in Command
  /\ \A l \in Links : Expire(l) \in Command
  /\ \A l \in Links : \A k \in Calls : Find(l, k) \in Command
BY DEF Core, Router, Task, Get, Put, Set, Expire, Find, Command

LEMMA CommandFields ==
  ASSUME NEW c \in Command
  PROVE  /\ c.op \in {"get", "put", "set", "expire", "find"}
         /\ c.op \in {"get", "put"} => c.task \in Task
         /\ c.op = "put" => c.key \in Keys
         /\ c.op = "set" => c.link \in Links /\ c.chained \in BOOLEAN
         /\ c.op = "expire" => c.link \in Links /\ c = Expire(c.link)
         /\ c.op = "find" => c.link \in Links /\ c.by \in Calls
BY DEF Command, Expire

LEMMA TaskFields ==
  ASSUME NEW t \in Task
  PROVE  /\ t.do \in {"core", "router", "sign", "verify"}
         /\ t.do \in {"sign", "verify"} => t.by \in Calls
BY DEF Task

LEMMA RequestFields ==
  ASSUME NEW r \in Requests
  PROVE  /\ r.op \in {"login", "use", "oauth", "verify"}
         /\ r.op # "verify" => r.link \in Links
         /\ r.op = "oauth" => r.chained \in BOOLEAN
         /\ r.op = "verify" => r.of \in Calls
BY TokensAssumption DEF Request

LEMMA HeadIs ==
  ASSUME TypeOK, pipe # <<>>
  PROVE  /\ C \in Command /\ Tail(pipe) \in Seq(Command)
         /\ C \in On(pipe) /\ Len(pipe) \in Nat \ {0} /\ pipe[1] = C
<1>1. pipe \in Seq(Command)
  BY DEF TypeOK
<1>2. /\ Len(pipe) \in Nat \ {0} /\ pipe[1] = Head(pipe)
  BY <1>1, TailIndex
<1>3. Head(pipe) \in Command /\ Tail(pipe) \in Seq(Command)
  BY <1>1
<1> QED BY <1>2, <1>3 DEF On, C

(* What a step leaves of the pipe, and what it adds to it. *)
Moves(k, cs) == cs \in Seq(Command) /\ pipe' \in Seq(Command) /\ Follows(pipe, pipe', k, cs)

LEMMA PipeTail ==
  ASSUME TypeOK, pipe # <<>>, pipe' = Tail(pipe)
  PROVE  Moves(1, <<>>)
<1>1. pipe \in Seq(Command)
  BY DEF TypeOK
<1>2. Tail(pipe) \in Seq(Command) /\ Follows(pipe, Tail(pipe), 1, <<>>)
  BY <1>1, FollowsTail
<1>3. <<>> \in Seq(Command)
  BY NoCommands
<1> QED BY <1>2, <1>3 DEF Moves

LEMMA PipeThen ==
  ASSUME TypeOK, pipe # <<>>, NEW cs \in Seq(Command), Then(cs)
  PROVE  Moves(1, cs)
<1>1. pipe \in Seq(Command)
  BY DEF TypeOK
<1>2. /\ Tail(pipe) \o cs \in Seq(Command)
      /\ Follows(pipe, Tail(pipe) \o cs, 1, cs)
  BY <1>1, FollowsThen
<1> QED BY <1>2 DEF Moves, Then

LEMMA PipeAppend ==
  ASSUME TypeOK, NEW c \in Command, pipe' = Append(pipe, c)
  PROVE  Moves(0, <<c>>) /\ On(<<c>>) = {c}
<1>1. pipe \in Seq(Command)
  BY DEF TypeOK
<1>2. /\ Append(pipe, c) \in Seq(Command)
      /\ Follows(pipe, Append(pipe, c), 0, <<c>>)
  BY <1>1, FollowsAppend
<1>3. <<c>> \in Seq(Command) /\ On(<<c>>) = {c}
  BY OneCommand
<1> QED BY <1>2, <1>3 DEF Moves

LEMMA PipeJoin ==
  ASSUME TypeOK, NEW cs \in Seq(Command), pipe' = pipe \o cs
  PROVE  Moves(0, cs)
<1>1. pipe \in Seq(Command)
  BY DEF TypeOK
<1>2. pipe \o cs \in Seq(Command) /\ Follows(pipe, pipe \o cs, 0, cs)
  BY <1>1, FollowsJoin
<1> QED BY <1>2 DEF Moves

LEMMA MovesOn ==
  ASSUME TypeOK, NEW k, NEW cs, Moves(k, cs)
  PROVE  On(pipe') \subseteq On(pipe) \cup On(cs)
BY FollowsOn DEF TypeOK, Moves

(* The commands of a link that is made. *)
LEMMA LinkCommands ==
  ASSUME NEW r \in Requests, r.op = "oauth"
  PROVE  /\ OAuthLink(r) \in Seq(Command)
         /\ \A c \in On(OAuthLink(r)) : c.op \in {"set", "expire"}
<1>0. r.link \in Links /\ r.chained \in BOOLEAN
  BY RequestFields
<1> DEFINE s == Set(r.link, TRUE)
           u == Set(r.link, FALSE)
           e == Expire(r.link)
<1>1. /\ s \in Command /\ u \in Command /\ e \in Command
  BY <1>0, CommandTypes
<1>2. s.op = "set" /\ u.op = "set" /\ e.op = "expire"
  BY DEF Set, Expire
<1>3. OAuthLink(r) = IF r.chained THEN <<s>> ELSE <<u, e>>
  BY DEF OAuthLink
<1> HIDE DEF s, u, e
<1>4. <<s>> \in Seq(Command) /\ On(<<s>>) = {s}
  BY <1>1, OneCommand
<1>5. <<u, e>> \in Seq(Command) /\ On(<<u, e>>) = {u, e}
  BY <1>1, TwoCommands
<1>6. CASE r.chained
  BY <1>2, <1>3, <1>4, <1>6
<1>7. CASE ~r.chained
  BY <1>2, <1>3, <1>5, <1>7
<1> QED BY <1>0, <1>6, <1>7

LEMMA LoginCommands ==
  ASSUME NEW r \in Requests, r.op = "login", NEW k \in Calls
  PROVE  LET t == [do |-> "sign", by |-> k]
             cs == <<Set(r.link, TRUE), Get(t)>>
         IN  /\ t \in Task
             /\ cs \in Seq(Command)
             /\ On(cs) = {Set(r.link, TRUE), Get(t)}
<1>0. r.link \in Links
  BY RequestFields
<1> DEFINE t == [do |-> "sign", by |-> k]
           s == Set(r.link, TRUE)
           g == Get(t)
<1>1. t \in Task /\ s \in Command /\ g \in Command
  BY <1>0, CommandTypes
<1> HIDE DEF s, g
<1>2. <<s, g>> \in Seq(Command) /\ On(<<s, g>>) = {s, g}
  BY <1>1, TwoCommands
<1> QED BY <1>1, <1>2 DEF s, g
-----------------------------------------------------------------------------
(* Types, and the verifications that wait. *)

Wanting(cs) == {c.task : c \in {d \in On(cs) : d.op \in {"get", "put"}}}

LEMMA WaitingTypes ==
  ASSUME TypeOK
  PROVE  Waiting \subseteq Task
<1>1. \A c \in On(pipe) : c \in Command
  BY DEF TypeOK, On
<1> QED BY <1>1, CommandFields DEF TypeOK, Waiting

LEMMA WaitingFrom ==
  ASSUME TypeOK, NEW k, NEW cs, Moves(k, cs), NEW D, drawing' \subseteq drawing \cup D
  PROVE  Waiting' \subseteq Waiting \cup D \cup Wanting(cs)
<1>1. On(pipe') \subseteq On(pipe) \cup On(cs)
  BY MovesOn
<1>2. Waiting' = drawing' \cup {c.task : c \in {d \in On(pipe') : d.op \in {"get", "put"}}}
  BY DEF Waiting
<1> QED BY <1>1, <1>2 DEF Waiting, Wanting

LEMMA AskedTypes ==
  ASSUME TypeOK
  PROVE  /\ Len(asked) \in Nat /\ 1..Len(asked) \subseteq Calls
         /\ \A k \in 1..Len(asked) : asked[k] \in Requests
BY TokensAssumption DEF TypeOK, Calls

LEMMA KnownVerify ==
  ASSUME TypeOK, WaitingKnown, NEW t \in Waiting, t.do = "verify"
  PROVE  /\ t.by \in 1..Len(asked) /\ t.by \in Calls
         /\ asked[t.by].of \in Calls /\ signed[asked[t.by].of] # 0
<1>1. t \in Task
  BY WaitingTypes
<1>2. t.by \in Calls
  BY <1>1, TaskFields
<1>3. IsKnown(t, asked, signed)
  BY DEF WaitingKnown
<1>4. t.by \in 1..Len(asked)
  BY <1>2, <1>3, AskedTypes, TokensAssumption DEF IsKnown, Calls
<1>5. asked[t.by] \in Requests
  BY <1>4, AskedTypes
<1>6. asked[t.by].of \in Calls
  BY <1>3, <1>5, RequestFields DEF IsKnown
<1> QED BY <1>2, <1>3, <1>4, <1>6 DEF IsKnown

LEMMA KnownKept ==
  ASSUME TypeOK, WaitingKnown,
         \A t \in Waiting' : t \in Waiting \/ IsKnown(t, asked', signed'),
         Len(asked') \in Nat, Len(asked) <= Len(asked'),
         \A k \in 1..Len(asked) : asked'[k] = asked[k],
         \A k \in Calls : signed[k] # 0 => signed'[k] # 0
  PROVE  WaitingKnown'
<1> SUFFICES ASSUME NEW t \in Waiting PROVE IsKnown(t, asked', signed')
  BY DEF WaitingKnown
<1>1. CASE t.do = "verify"
  <2>1. /\ t.by \in 1..Len(asked)
        /\ asked[t.by].of \in Calls /\ signed[asked[t.by].of] # 0
    BY <1>1, KnownVerify
  <2>2. IsKnown(t, asked, signed)
    BY DEF WaitingKnown
  <2>3. asked'[t.by] = asked[t.by] /\ t.by <= Len(asked')
    BY <2>1, AskedTypes
  <2> QED BY <1>1, <2>1, <2>2, <2>3 DEF IsKnown
<1>2. CASE t.do # "verify"
  BY <1>2 DEF IsKnown
<1> QED BY <1>1, <1>2

LEMMA HeadWaits ==
  ASSUME TypeOK, pipe # <<>>, C.op \in {"get", "put"}
  PROVE  C.task \in Waiting /\ C.task \in Task
<1>1. C \in Command /\ C \in On(pipe)
  BY HeadIs
<1> QED BY <1>1, CommandFields DEF Waiting

LEMMA ProceedTypes ==
  ASSUME TypeOK, WaitingKnown, NEW t \in Waiting, NEW key \in Keys, Proceed(t, key)
  PROVE  /\ kept' \in Nat /\ signed' \in [Calls -> Nat]
         /\ answers' \in [Calls -> {"none", "yes", "no"}]
         /\ refused' \in SUBSET Calls
         /\ \A k \in Calls : signed[k] # 0 => signed'[k] # 0
<1>1. t \in Task
  BY WaitingTypes
<1>2. key \in Nat /\ key # 0
  BY DEF Keys
<1>3. kept' \in Nat
  BY <1>2 DEF Proceed, TypeOK
<1>4. CASE t.do = "sign"
  <2>1. t.by \in Calls
    BY <1>1, <1>4, TaskFields
  <2>2. /\ signed' = [signed EXCEPT ![t.by] = key]
        /\ answers' = [answers EXCEPT ![t.by] = "yes"] /\ refused' = refused
    BY <1>4 DEF Proceed, Answer
  <2> QED BY <1>2, <1>3, <2>1, <2>2 DEF TypeOK
<1>5. CASE t.do = "verify"
  <2> DEFINE of == asked[t.by].of
  <2>1. t.by \in Calls /\ of \in Calls
    BY <1>5, KnownVerify
  <2>2. signed' = signed /\ Verified(t.by, of, key)
    BY <1>5 DEF Proceed
  <2> HIDE DEF of
  <2> QED BY <1>3, <2>1, <2>2 DEF Verified, Answer, TypeOK
<1>6. CASE t.do \in {"core", "router"}
  BY <1>3, <1>6 DEF Proceed, TypeOK
<1> QED BY <1>1, <1>4, <1>5, <1>6, TaskFields

LEMMA ExecutedTypes ==
  ASSUME TypeOK, NEW c \in Command, Executed(c)
  PROVE  secret' \in Nat /\ links' \in [Links -> {"none", "stored", "expiring"}]
BY CommandFields DEF Executed, redis, TypeOK, Keys

Known == TypeOK /\ WaitingKnown

LEMMA KnownInit == Init => Known
<1> SUFFICES ASSUME Init PROVE Known
  OBVIOUS
<1> DEFINE g == Get(Core)
<1>1. g \in Command
  BY CommandTypes
<1>2. pipe = <<g>>
  BY DEF Init
<1>3. g.op = "get" /\ g.task = Core
  BY DEF Get
<1> HIDE DEF g
<1>4. pipe \in Seq(Command) /\ On(pipe) = {g}
  BY <1>1, <1>2, OneCommand
<1>5. TypeOK
  <2>1. asked \in Seq(Requests) /\ Len(asked) = 0 /\ 0 <= MaxCalls
    BY TokensAssumption DEF Init
  <2>2. {up, serving, raced, disturbed} \in SUBSET BOOLEAN
    BY DEF Init
  <2>3. secret \in Nat /\ kept \in Nat /\ made \in Nat /\ drawing \in SUBSET Task
    BY DEF Init
  <2>4. links \in [Links -> {"none", "stored", "expiring"}]
    BY DEF Init
  <2>5. /\ answers \in [Calls -> {"none", "yes", "no"}] /\ signed \in [Calls -> Nat]
        /\ refused \in SUBSET Calls /\ good \in SUBSET Calls /\ handed \in SUBSET Links
    BY DEF Init
  <2> QED BY <1>4, <2>1, <2>2, <2>3, <2>4, <2>5 DEF TypeOK
<1>6. Waiting = {Core}
  BY <1>3, <1>4 DEF Waiting, Init
<1>7. WaitingKnown
  BY <1>6 DEF WaitingKnown, IsKnown, Core
<1> QED BY <1>5, <1>7 DEF Known

LEMMA KnownServe ==
  ASSUME Known, Serve
  PROVE  Known'
<1> USE DEF Known
<1> DEFINE g == Get(Router)
<1>1. g \in Command /\ g.op = "get" /\ g.task = Router
  BY CommandTypes DEF Get
<1>2. pipe' = Append(pipe, g)
  BY DEF Serve
<1> HIDE DEF g
<1>3. Moves(0, <<g>>) /\ On(<<g>>) = {g}
  BY <1>1, <1>2, PipeAppend
<1>4. TypeOK'
  BY <1>3 DEF Serve, TypeOK, Moves, redis, jwt, history
<1>5. Waiting' \subseteq Waiting \cup {} \cup Wanting(<<g>>)
  BY <1>3, WaitingFrom DEF Serve
<1>6. Waiting' \subseteq Waiting \cup {Router}
  BY <1>1, <1>3, <1>5 DEF Wanting
<1>7. \A t \in {Router} : IsKnown(t, asked', signed')
  BY DEF IsKnown, Router
<1>8. WaitingKnown'
  BY <1>6, <1>7, KnownKept, AskedTypes DEF Serve, jwt
<1> QED BY <1>4, <1>8

LEMMA AskTypes ==
  ASSUME TypeOK, NEW r \in Requests, Ask(r)
  PROVE  /\ asked' \in Seq(Requests) /\ Len(asked') = Len(asked) + 1
         /\ Len(asked') \in Calls /\ Len(asked') <= MaxCalls
         /\ asked'[Len(asked')] = r
         /\ \A k \in 1..Len(asked) : asked'[k] = asked[k]
         /\ Len(asked') \in Nat /\ Len(asked) <= Len(asked')
<1>1. asked \in Seq(Requests) /\ asked' = Append(asked, r) /\ Len(asked) < MaxCalls
  BY DEF Ask, TypeOK
<1>2. /\ asked' \in Seq(Requests) /\ Len(asked') = Len(asked) + 1
      /\ asked'[Len(asked) + 1] = r
      /\ \A k \in 1..Len(asked) : asked'[k] = asked[k]
  BY <1>1
<1>3. Len(asked) \in Nat
  BY <1>1
<1> QED BY <1>1, <1>2, <1>3, TokensAssumption DEF Calls

LEMMA KnownOAuth ==
  ASSUME Known, NEW r \in Requests, OAuth(r)
  PROVE  Known'
<1> USE DEF Known
<1>0. r.op = "oauth" /\ Ask(r) /\ r.link \in Links
  BY RequestFields DEF OAuth
<1> DEFINE cs == OAuthLink(r)
<1>1. cs \in Seq(Command) /\ \A c \in On(cs) : c.op \in {"set", "expire"}
  BY <1>0, LinkCommands
<1>2. pipe' = pipe \o cs
  BY DEF OAuth
<1> HIDE DEF cs
<1>3. Moves(0, cs)
  BY <1>1, <1>2, PipeJoin
<1>4. /\ asked' \in Seq(Requests) /\ Len(asked') <= MaxCalls /\ Len(asked') \in Calls
  BY <1>0, AskTypes
<1>5. TypeOK'
  BY <1>0, <1>3, <1>4 DEF OAuth, Ask, Answer, TypeOK, Moves, redis, process
<1>6. Waiting' \subseteq Waiting \cup {} \cup Wanting(cs)
  BY <1>0, <1>3, WaitingFrom DEF Ask, process
<1>7. Waiting' \subseteq Waiting \cup {}
  BY <1>1, <1>6 DEF Wanting
<1>8. WaitingKnown'
  <2>1. \A k \in Calls : signed[k] # 0 => signed'[k] # 0
    BY <1>0 DEF Ask
  <2>2. /\ Len(asked') \in Nat /\ Len(asked) <= Len(asked')
        /\ \A k \in 1..Len(asked) : asked'[k] = asked[k]
    BY <1>0, AskTypes
  <2> QED BY <1>7, <2>1, <2>2, KnownKept
<1> QED BY <1>5, <1>8

LEMMA KnownLogin ==
  ASSUME Known, NEW r \in Requests, Login(r)
  PROVE  Known'
<1> USE DEF Known
<1>0. r.op = "login" /\ Ask(r) /\ r.link \in Links
  BY RequestFields DEF Login
<1>1. /\ asked' \in Seq(Requests) /\ Len(asked') <= MaxCalls /\ Len(asked') \in Calls
  BY <1>0, AskTypes
<1> DEFINE t == [do |-> "sign", by |-> Len(asked')]
           s == Set(r.link, TRUE)
           g == Get(t)
           cs == <<s, g>>
<1>2. cs \in Seq(Command) /\ On(cs) = {s, g}
  BY <1>0, <1>1, LoginCommands
<1>3. pipe' = pipe \o cs
  BY DEF Login
<1>4. t.do = "sign" /\ s.op = "set" /\ g.op = "get" /\ g.task = t
  BY DEF Set, Get
<1> HIDE DEF s, g, cs, t
<1>5. Moves(0, cs)
  BY <1>2, <1>3, PipeJoin
<1>6. TypeOK'
  BY <1>0, <1>1, <1>5 DEF Login, Ask, TypeOK, Moves, redis, process
<1>7. Waiting' \subseteq Waiting \cup {} \cup Wanting(cs)
  BY <1>0, <1>5, WaitingFrom DEF Ask, process
<1>8. Waiting' \subseteq Waiting \cup {t}
  BY <1>2, <1>4, <1>7 DEF Wanting
<1>9. WaitingKnown'
  <2>1. \A k \in Calls : signed[k] # 0 => signed'[k] # 0
    BY <1>0 DEF Ask
  <2>2. /\ Len(asked') \in Nat /\ Len(asked) <= Len(asked')
        /\ \A k \in 1..Len(asked) : asked'[k] = asked[k]
    BY <1>0, AskTypes
  <2>3. ASSUME NEW u, u = t PROVE IsKnown(u, asked', signed')
    BY <1>4, <2>3 DEF IsKnown
  <2>4. \A u \in {t} : IsKnown(u, asked', signed')
    BY <2>3
  <2> QED BY <1>8, <2>1, <2>2, <2>4, KnownKept
<1> QED BY <1>6, <1>9

LEMMA KnownUse ==
  ASSUME Known, NEW r \in Requests, Use(r)
  PROVE  Known'
<1> USE DEF Known
<1>0. r.op = "use" /\ Ask(r) /\ r.link \in Links
  BY RequestFields DEF Use
<1>1. /\ asked' \in Seq(Requests) /\ Len(asked') <= MaxCalls /\ Len(asked') \in Calls
  BY <1>0, AskTypes
<1> DEFINE f == Find(r.link, Len(asked'))
<1>2. f \in Command /\ f.op = "find" /\ pipe' = Append(pipe, f)
  BY <1>0, <1>1, CommandTypes DEF Use, Find
<1> HIDE DEF f
<1>3. Moves(0, <<f>>) /\ On(<<f>>) = {f}
  BY <1>2, PipeAppend
<1>4. TypeOK'
  BY <1>0, <1>1, <1>3 DEF Use, Ask, TypeOK, Moves, redis, process
<1>5. Waiting' \subseteq Waiting \cup {} \cup Wanting(<<f>>)
  BY <1>0, <1>3, WaitingFrom DEF Ask, process
<1>6. Waiting' \subseteq Waiting \cup {}
  BY <1>2, <1>3, <1>5 DEF Wanting
<1>7. WaitingKnown'
  <2>1. \A k \in Calls : signed[k] # 0 => signed'[k] # 0
    BY <1>0 DEF Ask
  <2>2. /\ Len(asked') \in Nat /\ Len(asked) <= Len(asked')
        /\ \A k \in 1..Len(asked) : asked'[k] = asked[k]
    BY <1>0, AskTypes
  <2> QED BY <1>6, <2>1, <2>2, KnownKept
<1> QED BY <1>4, <1>7

LEMMA KnownVerifyCall ==
  ASSUME Known, NEW r \in Requests, Verify(r)
  PROVE  Known'
<1> USE DEF Known
<1>0. r.op = "verify" /\ Ask(r) /\ r.of \in Calls /\ r.of <= Len(asked) /\ signed[r.of] # 0
  BY RequestFields DEF Verify
<1>1. /\ asked' \in Seq(Requests) /\ Len(asked') <= MaxCalls /\ Len(asked') \in Calls
      /\ asked'[Len(asked')] = r
      /\ Len(asked') \in Nat /\ Len(asked) <= Len(asked')
      /\ \A k \in 1..Len(asked) : asked'[k] = asked[k]
  BY <1>0, AskTypes
<1>2. \A k \in Calls : signed[k] # 0 => signed'[k] # 0
  BY <1>0 DEF Ask
<1>3. CASE kept = 0
  <2> DEFINE t == [do |-> "verify", by |-> Len(asked')]
             g == Get(t)
  <2>1. g \in Command /\ g.op = "get" /\ g.task = t /\ t.by = Len(asked')
    BY <1>1, CommandTypes DEF Get
  <2>2. pipe' = Append(pipe, g) /\ UNCHANGED <<answers, refused>>
    BY <1>3 DEF Verify
  <2> HIDE DEF g, t
  <2>3. Moves(0, <<g>>) /\ On(<<g>>) = {g}
    BY <2>1, <2>2, PipeAppend
  <2>4. TypeOK'
    BY <1>0, <1>1, <2>2, <2>3 DEF Verify, Ask, TypeOK, Moves, redis, process
  <2>5. Waiting' \subseteq Waiting \cup {} \cup Wanting(<<g>>)
    BY <1>0, <2>3, WaitingFrom DEF Ask, process
  <2>6. Waiting' \subseteq Waiting \cup {t}
    BY <2>1, <2>3, <2>5 DEF Wanting
  <2>7. ASSUME NEW u, u = t PROVE IsKnown(u, asked', signed')
    <3>1. signed' = signed
      BY <1>0 DEF Ask
    <3> QED BY <1>0, <1>1, <2>1, <2>7, <3>1 DEF IsKnown
  <2>8. \A u \in {t} : IsKnown(u, asked', signed')
    BY <2>7
  <2>9. WaitingKnown'
    BY <1>1, <1>2, <2>6, <2>8, KnownKept
  <2> QED BY <2>4, <2>9
<1>4. CASE kept # 0
  <2>1. pipe' = pipe /\ Verified(Len(asked'), r.of, kept)
    BY <1>4 DEF Verify
  <2>2. TypeOK'
    BY <1>0, <1>1, <2>1 DEF Verify, Verified, Answer, Ask, TypeOK, redis, process
  <2>3. Waiting' = Waiting
    BY <1>0, <2>1 DEF Waiting, Ask, process
  <2>4. WaitingKnown'
    BY <1>1, <1>2, <2>3, KnownKept
  <2> QED BY <2>2, <2>4
<1> QED BY <1>3, <1>4

(* A step after which only those who waited wait, or fewer, and no call is  *)
(* made.                                                                    *)
LEMMA KnownStays ==
  ASSUME Known, Waiting' \subseteq Waiting, asked' = asked,
         \A k \in Calls : signed[k] # 0 => signed'[k] # 0
  PROVE  WaitingKnown'
<1>1. Len(asked) \in Nat
  BY AskedTypes DEF Known
<1> QED BY <1>1, KnownKept DEF Known

LEMMA NoneWanted == Wanting(<<>>) = {}
<1>1. On(<<>>) = {}
  BY NoCommands
<1> QED BY <1>1 DEF Wanting

LEMMA PipePop ==
  ASSUME TypeOK, pipe # <<>>, Then(<<>>)
  PROVE  Moves(1, <<>>)
<1>1. <<>> \in Seq(Command)
  BY NoCommands
<1> QED BY <1>1, PipeThen

LEMMA WaitingPop ==
  ASSUME TypeOK, Moves(1, <<>>), drawing' \subseteq drawing
  PROVE  Waiting' \subseteq Waiting
<1>1. Waiting' \subseteq Waiting \cup {} \cup Wanting(<<>>)
  BY WaitingFrom
<1> QED BY <1>1, NoneWanted

LEMMA KnownFetched ==
  ASSUME Known, Fetched
  PROVE  Known'
<1> USE DEF Known
<1>1. Moves(1, <<>>)
  BY PipePop DEF Fetched, Answering
<1>2. C.task \in Waiting /\ secret \in Keys
  BY HeadWaits DEF Fetched, Answering, C, TypeOK, Keys
<1>3. /\ kept' \in Nat /\ signed' \in [Calls -> Nat]
      /\ answers' \in [Calls -> {"none", "yes", "no"}]
      /\ refused' \in SUBSET Calls
      /\ \A k \in Calls : signed[k] # 0 => signed'[k] # 0
  BY <1>2, ProceedTypes DEF Fetched
<1>4. TypeOK'
  BY <1>1, <1>3 DEF Fetched, TypeOK, Moves, redis, history
<1>5. Waiting' \subseteq Waiting
  BY <1>1, WaitingPop DEF Fetched
<1>6. WaitingKnown'
  BY <1>3, <1>5, KnownStays DEF Fetched
<1> QED BY <1>4, <1>6

LEMMA KnownMissing ==
  ASSUME Known, Missing
  PROVE  Known'
<1> USE DEF Known
<1>1. Moves(1, <<>>)
  BY PipePop DEF Missing, Answering
<1>2. C.task \in Waiting /\ C.task \in Task
  BY HeadWaits DEF Missing, Answering, C
<1>3. TypeOK'
  <2>1. raced' \in BOOLEAN
    BY DEF Missing, TypeOK
  <2> QED BY <1>1, <1>2, <2>1 DEF Missing, TypeOK, Moves, redis, jwt
<1>4. Waiting' \subseteq Waiting \cup {C.task} \cup Wanting(<<>>)
  BY <1>1, WaitingFrom DEF Missing
<1>5. Waiting' \subseteq Waiting
  BY <1>2, <1>4, NoneWanted
<1>6. WaitingKnown'
  BY <1>5, KnownStays DEF Missing, jwt
<1> QED BY <1>3, <1>6

LEMMA DrawnMoves ==
  ASSUME TypeOK, NEW t \in drawing, Drawn(t)
  PROVE  LET p == Put(t, made')
         IN  /\ p \in Command /\ t \in Task /\ made' \in Keys
             /\ Moves(0, <<p>>) /\ On(<<p>>) = {p}
<1> DEFINE p == Put(t, made')
<1>1. t \in Task /\ made' \in Keys
  BY DEF TypeOK, Drawn, Keys
<1>2. p \in Command
  BY <1>1, CommandTypes
<1>3. pipe' = Append(pipe, p)
  BY DEF Drawn
<1> HIDE DEF p
<1>4. Moves(0, <<p>>) /\ On(<<p>>) = {p}
  BY <1>2, <1>3, PipeAppend
<1> QED BY <1>1, <1>2, <1>4 DEF p

LEMMA KnownDrawn ==
  ASSUME Known, NEW t \in drawing, Drawn(t)
  PROVE  Known'
<1> USE DEF Known
<1> DEFINE p == Put(t, made')
<1>1. p \in Command /\ made' \in Keys /\ Moves(0, <<p>>) /\ On(<<p>>) = {p}
  BY DrawnMoves
<1>2. p.op = "put" /\ p.task = t
  BY DEF Put
<1> HIDE DEF p
<1>3. TypeOK'
  BY <1>1 DEF Drawn, TypeOK, Moves, Keys, redis, jwt, history
<1>4. Waiting' \subseteq Waiting \cup {} \cup Wanting(<<p>>)
  BY <1>1, WaitingFrom DEF Drawn
<1>5. Waiting' \subseteq Waiting
  BY <1>1, <1>2, <1>4 DEF Wanting, Waiting
<1>6. WaitingKnown'
  BY <1>5, KnownStays DEF Drawn, jwt
<1> QED BY <1>3, <1>6

LEMMA KnownCreated ==
  ASSUME Known, Created
  PROVE  Known'
<1> USE DEF Known
<1>0. C \in Command /\ C.op = "put" /\ C.key \in Keys
  BY HeadIs, CommandFields DEF Created, Answering, C
<1>1. Moves(1, <<>>)
  BY PipePop DEF Created, Answering
<1>2. C.task \in Waiting
  BY <1>0, HeadWaits DEF Created, Answering
<1>3. /\ kept' \in Nat /\ signed' \in [Calls -> Nat]
      /\ answers' \in [Calls -> {"none", "yes", "no"}]
      /\ refused' \in SUBSET Calls
      /\ \A k \in Calls : signed[k] # 0 => signed'[k] # 0
  BY <1>0, <1>2, ProceedTypes DEF Created
<1>4. secret' \in Nat /\ links' \in [Links -> {"none", "stored", "expiring"}]
  BY <1>0, ExecutedTypes DEF Created
<1>5. TypeOK'
  BY <1>1, <1>3, <1>4 DEF Created, TypeOK, Moves, history
<1>6. Waiting' \subseteq Waiting
  BY <1>1, WaitingPop DEF Created
<1>7. WaitingKnown'
  BY <1>3, <1>6, KnownStays DEF Created
<1> QED BY <1>5, <1>7

(* What the answer to a SET or an EXPIRE issues. *)
Then2 == IF C.op = "set" /\ C.chained THEN <<Expire(C.link)>> ELSE <<>>

LEMMA WrittenMoves ==
  ASSUME TypeOK, Written
  PROVE  /\ C \in Command /\ C.op \in {"set", "expire"} /\ C.link \in Links
         /\ Moves(1, Then2)
         /\ IF C.op = "set" /\ C.chained
            THEN Then2 = <<Expire(C.link)>> /\ On(Then2) = {Expire(C.link)}
                 /\ Len(Then2) = 1 /\ Then2[1] = Expire(C.link)
            ELSE Then2 = <<>> /\ On(Then2) = {} /\ Len(Then2) = 0
<1>1. C \in Command /\ pipe # <<>> /\ C.op \in {"set", "expire"}
  BY HeadIs DEF Written, Answering, C
<1>2. C.link \in Links
  BY <1>1, CommandFields
<1> DEFINE e == Expire(C.link)
<1>3. e \in Command
  BY <1>2, CommandTypes
<1>4. Then(Then2)
  BY DEF Written, Then2
<1>5. Then2 = IF C.op = "set" /\ C.chained THEN <<e>> ELSE <<>>
  BY DEF Then2
<1> HIDE DEF e
<1>6. /\ <<e>> \in Seq(Command) /\ On(<<e>>) = {e}
      /\ Len(<<e>>) = 1 /\ <<e>>[1] = e
  BY <1>3, OneCommand
<1>7. <<>> \in Seq(Command) /\ On(<<>>) = {} /\ Len(<<>>) = 0
  BY NoCommands
<1>8. Then2 \in Seq(Command)
  BY <1>5, <1>6, <1>7
<1>9. Moves(1, Then2)
  BY <1>1, <1>4, <1>8, PipeThen
<1> QED BY <1>1, <1>2, <1>5, <1>6, <1>7, <1>9 DEF e

LEMMA KnownWritten ==
  ASSUME Known, Written
  PROVE  Known'
<1> USE DEF Known
<1>1. C \in Command /\ Moves(1, Then2)
  BY WrittenMoves
<1>2. secret' \in Nat /\ links' \in [Links -> {"none", "stored", "expiring"}]
  BY <1>1, ExecutedTypes DEF Written
<1>3. TypeOK'
  BY <1>1, <1>2 DEF Written, TypeOK, Moves, process, jwt, history
<1>4. Wanting(Then2) = {}
  BY WrittenMoves DEF Wanting, Expire
<1>5. Waiting' \subseteq Waiting \cup {} \cup Wanting(Then2)
  BY <1>1, WaitingFrom DEF Written, process
<1>6. WaitingKnown'
  BY <1>4, <1>5, KnownStays DEF Written, jwt
<1> QED BY <1>3, <1>6

LEMMA KnownFound ==
  ASSUME Known, Found
  PROVE  Known'
<1> USE DEF Known
<1>1. Moves(1, <<>>)
  BY PipePop DEF Found, Answering
<1>2. C \in Command /\ C.op = "find"
  BY HeadIs DEF Found, Answering, C
<1>3. answers' \in [Calls -> {"none", "yes", "no"}]
  BY <1>2, CommandFields DEF Found, Answer, TypeOK
<1>4. TypeOK'
  BY <1>1, <1>3 DEF Found, TypeOK, Moves, redis, process, jwt, history
<1>5. Waiting' \subseteq Waiting
  BY <1>1, WaitingPop DEF Found, process
<1>6. WaitingKnown'
  BY <1>5, KnownStays DEF Found, jwt
<1> QED BY <1>4, <1>6

LEMMA KnownTimeToLiveEnds ==
  ASSUME Known, NEW l \in Links, TimeToLiveEnds(l)
  PROVE  Known'
<1> USE DEF Known
<1>1. /\ links' \in [Links -> {"none", "stored", "expiring"}]
      /\ handed' \in SUBSET Links /\ good' \in SUBSET Calls
  BY DEF TimeToLiveEnds, TypeOK
<1>2. TypeOK'
  BY <1>1 DEF TimeToLiveEnds, TypeOK, process, jwt
<1>3. Waiting' = Waiting
  BY DEF TimeToLiveEnds, process, Waiting
<1>4. WaitingKnown'
  BY <1>3, KnownStays DEF TimeToLiveEnds, jwt
<1> QED BY <1>2, <1>4

LEMMA KnownCrash ==
  ASSUME Known, Crash
  PROVE  Known'
<1> USE DEF Known
<1>1. TypeOK'
  BY DEF Crash, TypeOK, redis, jwt, history
<1>2. Waiting' \subseteq Waiting
  BY DEF Crash, Waiting
<1>3. WaitingKnown'
  BY <1>2, KnownStays DEF Crash, jwt
<1> QED BY <1>1, <1>3

LEMMA KnownDrain ==
  ASSUME Known, Drain
  PROVE  Known'
<1> USE DEF Known
<1>1. Moves(1, <<>>)
  BY PipeTail DEF Drain
<1>2. C \in Command
  BY HeadIs DEF Drain
<1>3. secret' \in Nat /\ links' \in [Links -> {"none", "stored", "expiring"}]
  BY <1>2, ExecutedTypes DEF Drain, C
<1>4. TypeOK'
  BY <1>1, <1>3 DEF Drain, TypeOK, Moves, process, jwt, history
<1>5. Waiting' \subseteq Waiting
  BY <1>1, WaitingPop DEF Drain, process
<1>6. WaitingKnown'
  BY <1>5, KnownStays DEF Drain, jwt
<1> QED BY <1>4, <1>6

LEMMA RestartMoves ==
  ASSUME Restart
  PROVE  LET g == Get(Core)
         IN  /\ g \in Command /\ g.op = "get" /\ g.task = Core
             /\ pipe' = <<g>> /\ pipe' \in Seq(Command)
             /\ On(pipe') = {g} /\ Len(pipe') = 1 /\ pipe'[1] = g
<1> DEFINE g == Get(Core)
<1>1. g \in Command /\ g.op = "get" /\ g.task = Core
  BY CommandTypes DEF Get
<1>2. pipe' = <<g>>
  BY DEF Restart
<1> HIDE DEF g
<1>3. /\ <<g>> \in Seq(Command) /\ On(<<g>>) = {g}
      /\ Len(<<g>>) = 1 /\ <<g>>[1] = g
  BY <1>1, OneCommand
<1> QED BY <1>1, <1>2, <1>3 DEF g

LEMMA KnownRestart ==
  ASSUME Known, Restart
  PROVE  Known'
<1> USE DEF Known
<1> DEFINE g == Get(Core)
<1>1. /\ g.op = "get" /\ g.task = Core
      /\ pipe' \in Seq(Command) /\ On(pipe') = {g}
  BY RestartMoves
<1> HIDE DEF g
<1>2. TypeOK'
  BY <1>1 DEF Restart, TypeOK, redis, jwt, history
<1>3. \A t \in Waiting' : t \in Waiting \/ IsKnown(t, asked', signed')
  <2>1. Waiting' = drawing \cup {Core}
    BY <1>1 DEF Waiting, Restart
  <2>2. IsKnown(Core, asked', signed')
    BY DEF IsKnown, Core
  <2> QED BY <2>1, <2>2 DEF Waiting
<1>4. WaitingKnown'
  BY <1>3, KnownKept, AskedTypes DEF Restart, jwt
<1> QED BY <1>2, <1>4

LEMMA KnownRejected ==
  ASSUME Known, Rejected
  PROVE  Known'
<1> USE DEF Known
<1>1. Moves(1, <<>>)
  BY PipePop DEF Rejected
<1>2. C \in Command
  BY HeadIs DEF Rejected
<1>3. secret' \in Nat /\ links' \in [Links -> {"none", "stored", "expiring"}]
  <2>1. CASE Executed(C)
    BY <1>2, <2>1, ExecutedTypes
  <2>2. CASE UNCHANGED redis
    BY <2>2 DEF redis, TypeOK
  <2> QED BY <2>1, <2>2 DEF Rejected
<1>4. TypeOK'
  BY <1>1, <1>3 DEF Rejected, TypeOK, Moves, process, jwt, history
<1>5. Waiting' \subseteq Waiting
  BY <1>1, WaitingPop DEF Rejected, process
<1>6. WaitingKnown'
  BY <1>5, KnownStays DEF Rejected, jwt
<1> QED BY <1>4, <1>6

LEMMA KnownStep == Known /\ [Next]_vars => Known'
<1> SUFFICES ASSUME Known, [Next]_vars PROVE Known'
  OBVIOUS
<1>1. CASE Serve
  BY <1>1, KnownServe
<1>2. CASE Redis
  BY <1>2, KnownFetched, KnownMissing, KnownCreated, KnownWritten, KnownFound DEF Redis
<1>3. CASE Draw
  BY <1>3, KnownDrawn DEF Draw
<1>4. ASSUME NEW r \in Requests, OAuth(r) \/ Login(r) \/ Use(r) \/ Verify(r)
      PROVE  Known'
  BY <1>4, KnownOAuth, KnownLogin, KnownUse, KnownVerifyCall
<1>5. ASSUME NEW l \in Links, TimeToLiveEnds(l) PROVE Known'
  BY <1>5, KnownTimeToLiveEnds
<1>6. CASE Crash \/ Drain \/ Restart \/ Rejected
  BY <1>6, KnownCrash, KnownDrain, KnownRestart, KnownRejected
<1>7. CASE UNCHANGED vars
  <2>1. Waiting' = Waiting
    BY <1>7 DEF vars, Waiting
  <2> QED BY <1>7, <2>1 DEF vars, Known, TypeOK, WaitingKnown
<1> QED BY <1>1, <1>2, <1>3, <1>4, <1>5, <1>6, <1>7 DEF Next

(* lib/thinx/jwtlogin.js:49-60, 131.  The variables keep their types, with  *)
(* any secrets, links and calls; and a verification that waits for the      *)
(* secret is of a call that was made, about a token that was signed.        *)
THEOREM TokensTypeCorrect == Spec => []TypeOK
<1>1. Spec => []Known
  BY KnownInit, KnownStep, PTL DEF Spec
<1>2. Known => TypeOK
  BY DEF Known
<1> QED BY <1>1, <1>2, PTL
-----------------------------------------------------------------------------
(* One secret. *)

LEMMA PutsFrom ==
  ASSUME TypeOK, NEW k, NEW cs, Moves(k, cs), NEW i \in Puts'
  PROVE  \/ i + k \in Puts
         \/ \E j \in 1..Len(cs) : i = Len(pipe) - k + j /\ IsPut(cs[j])
<1>1. i \in 1..Len(pipe') /\ IsPut(pipe'[i])
  BY DEF Puts
<1>2. pipe \in Seq(Command) /\ pipe' \in Seq(Command) /\ cs \in Seq(Command)
  BY DEF TypeOK, Moves
<1>3. \/ i + k \in 1..Len(pipe) /\ pipe'[i] = pipe[i + k]
      \/ \E j \in 1..Len(cs) : i = Len(pipe) - k + j /\ pipe'[i] = cs[j]
  BY <1>1, <1>2, FollowsFrom DEF Moves
<1> QED BY <1>1, <1>3 DEF Puts

NoMorePuts == (Puts = {} => Puts' = {}) /\ ((\A i, j \in Puts : i = j) => \A i, j \in Puts' : i = j)

LEMMA PutsFewer ==
  ASSUME TypeOK, NEW k, NEW cs, Moves(k, cs), \A c \in On(cs) : c.op # "put"
  PROVE  /\ \A i \in Puts' : i \in Nat /\ i > 0 /\ i + k \in Puts
         /\ k \in Nat /\ NoMorePuts
<1>1. \A j \in 1..Len(cs) : ~IsPut(cs[j])
  BY DEF On, IsPut
<1>2. k \in Nat
  BY DEF Moves, Follows
<1>3. \A i \in Puts' : i + k \in Puts /\ i \in Nat /\ i > 0
  BY <1>1, PutsFrom DEF Puts
<1>4. \A i, j \in Puts' : i + k = j + k => i = j
  BY <1>2, <1>3
<1> QED BY <1>2, <1>3, <1>4 DEF NoMorePuts

LEMMA PutsSame == pipe' = pipe => NoMorePuts
BY DEF NoMorePuts, Puts

(* The head of the pipe was the only PUT. *)
LEMMA LastPut ==
  ASSUME TypeOK, pipe # <<>>, C.op = "put", Moves(1, <<>>),
         \A i, j \in Puts : i = j
  PROVE  1 \in Puts /\ Puts' = {}
<1>1. 1 \in Puts
  BY HeadIs DEF Puts, IsPut
<1>2. \A c \in On(<<>>) : c.op # "put"
  BY NoCommands
<1>3. \A i \in Puts' : i \in Nat /\ i > 0 /\ i + 1 \in Puts
  BY <1>2, PutsFewer
<1>4. \A i \in Puts' : i + 1 = 1
  BY <1>1, <1>3
<1>5. Puts' = {}
  BY <1>3, <1>4
<1> QED BY <1>1, <1>5

LEMMA SecretQuiet ==
  ASSUME Known, OneSecret, NoMorePuts,
         UNCHANGED <<secret, drawing, kept, signed, refused, raced>>
  PROVE  OneSecret'
BY DEF OneSecret, MadeOnce, UsedAlone, NoMorePuts

LEMMA SecretInit == Init => OneSecret
<1> SUFFICES ASSUME Init PROVE OneSecret
  OBVIOUS
<1> DEFINE g == Get(Core)
<1>1. g \in Command /\ g.op = "get" /\ pipe = <<g>>
  BY CommandTypes DEF Init, Get
<1> HIDE DEF g
<1>2. Len(pipe) = 1 /\ pipe[1] = g
  BY <1>1, OneCommand
<1>3. Puts = {}
  BY <1>1, <1>2 DEF Puts, IsPut
<1> QED BY <1>3 DEF Init, OneSecret, MadeOnce, UsedAlone

LEMMA SecretServe ==
  ASSUME Known, OneSecret, Serve
  PROVE  OneSecret'
<1> DEFINE g == Get(Router)
<1>1. g \in Command /\ g.op = "get" /\ pipe' = Append(pipe, g)
  BY CommandTypes DEF Serve, Get
<1> HIDE DEF g
<1>2. Moves(0, <<g>>) /\ On(<<g>>) = {g}
  BY <1>1, PipeAppend DEF Known
<1>3. NoMorePuts
  BY <1>1, <1>2, PutsFewer DEF Known
<1> QED BY <1>3, SecretQuiet DEF Serve, redis, jwt, history

LEMMA AskQuiet ==
  ASSUME NEW r, Ask(r)
  PROVE  UNCHANGED <<secret, drawing, kept, signed, raced>>
BY DEF Ask, redis, process

LEMMA SecretOAuth ==
  ASSUME Known, OneSecret, NEW r \in Requests, OAuth(r)
  PROVE  OneSecret'
<1> DEFINE cs == OAuthLink(r)
<1>1. cs \in Seq(Command) /\ \A c \in On(cs) : c.op # "put"
  BY LinkCommands DEF OAuth
<1>2. pipe' = pipe \o cs
  BY DEF OAuth
<1> HIDE DEF cs
<1>3. NoMorePuts
  BY <1>1, <1>2, PipeJoin, PutsFewer DEF Known
<1> QED BY <1>3, AskQuiet, SecretQuiet DEF OAuth

LEMMA SecretLogin ==
  ASSUME Known, OneSecret, NEW r \in Requests, Login(r)
  PROVE  OneSecret'
<1> DEFINE t == [do |-> "sign", by |-> Len(asked')]
           s == Set(r.link, TRUE)
           g == Get(t)
           cs == <<s, g>>
<1>1. Len(asked') \in Calls
  BY AskTypes DEF Login, Known
<1>2. cs \in Seq(Command) /\ On(cs) = {s, g}
  BY <1>1, LoginCommands DEF Login
<1>3. pipe' = pipe \o cs
  BY DEF Login
<1>4. s.op = "set" /\ g.op = "get"
  BY DEF Set, Get
<1> HIDE DEF s, g, cs, t
<1>5. NoMorePuts
  BY <1>2, <1>3, <1>4, PipeJoin, PutsFewer DEF Known
<1> QED BY <1>5, AskQuiet, SecretQuiet DEF Login

LEMMA SecretUse ==
  ASSUME Known, OneSecret, NEW r \in Requests, Use(r)
  PROVE  OneSecret'
<1> DEFINE f == Find(r.link, Len(asked'))
<1>1. Len(asked') \in Calls /\ r.link \in Links
  BY AskTypes, RequestFields DEF Use, Known
<1>2. f \in Command /\ f.op = "find" /\ pipe' = Append(pipe, f)
  BY <1>1, CommandTypes DEF Use, Find
<1> HIDE DEF f
<1>3. Moves(0, <<f>>) /\ On(<<f>>) = {f}
  BY <1>2, PipeAppend DEF Known
<1>4. NoMorePuts
  BY <1>2, <1>3, PutsFewer DEF Known
<1> QED BY <1>4, AskQuiet, SecretQuiet DEF Use

LEMMA SecretVerifyCall ==
  ASSUME Known, OneSecret, NEW r \in Requests, Verify(r)
  PROVE  OneSecret'
<1>1. r.op = "verify" /\ Ask(r) /\ r.of \in Calls /\ signed[r.of] # 0
  BY RequestFields DEF Verify
<1>2. CASE kept = 0
  <2> DEFINE g == Get([do |-> "verify", by |-> Len(asked')])
  <2>1. Len(asked') \in Calls
    BY <1>1, AskTypes DEF Known
  <2>2. g \in Command /\ g.op = "get"
    BY <2>1, CommandTypes DEF Get
  <2>3. pipe' = Append(pipe, g) /\ refused' = refused
    BY <1>2 DEF Verify
  <2> HIDE DEF g
  <2>4. Moves(0, <<g>>) /\ On(<<g>>) = {g}
    BY <2>2, <2>3, PipeAppend DEF Known
  <2>5. NoMorePuts
    BY <2>2, <2>4, PutsFewer DEF Known
  <2> QED BY <1>1, <2>3, <2>5, AskQuiet, SecretQuiet
<1>3. CASE kept # 0
  <2>1. pipe' = pipe /\ Verified(Len(asked'), r.of, kept)
    BY <1>3 DEF Verify
  <2>2. ~raced => kept = signed[r.of]
    BY <1>1, <1>3 DEF OneSecret, UsedAlone
  <2>3. ~raced => refused' = refused
    BY <2>1, <2>2 DEF Verified
  <2>4. CASE ~raced
    BY <1>1, <2>1, <2>3, <2>4, AskQuiet, SecretQuiet, PutsSame
  <2>5. CASE raced
    BY <1>1, <2>5, AskQuiet DEF OneSecret
  <2> QED BY <2>4, <2>5
<1> QED BY <1>2, <1>3

LEMMA PopQuiet ==
  ASSUME TypeOK, Moves(1, <<>>)
  PROVE  NoMorePuts
<1>1. \A c \in On(<<>>) : c.op # "put"
  BY NoCommands
<1> QED BY <1>1, PutsFewer

(* The callback of a task with the secret that Redis then holds, when       *)
(* nothing else was kept or used to sign.                                   *)
LEMMA ProceedUsed ==
  ASSUME Known, NEW t \in Waiting, NEW key \in Keys, Proceed(t, key),
         kept \in {0, key}, \A k \in Calls : signed[k] \in {0, key},
         refused = {}
  PROVE  /\ kept' \in {0, key} /\ refused' = {}
         /\ \A k \in Calls : signed'[k] \in {0, key}
<1>1. t \in Task
  BY WaitingTypes DEF Known
<1>2. kept' \in {0, key}
  BY DEF Proceed
<1>3. CASE t.do = "sign"
  <2>1. signed' = [signed EXCEPT ![t.by] = key] /\ refused' = refused
    BY <1>3 DEF Proceed
  <2>2. \A k \in Calls : signed'[k] \in {0, key}
    BY <2>1 DEF Known, TypeOK
  <2> QED BY <1>2, <2>1, <2>2
<1>4. CASE t.do = "verify"
  <2>1. asked[t.by].of \in Calls /\ signed[asked[t.by].of] # 0
    BY <1>4, KnownVerify DEF Known
  <2>2. signed[asked[t.by].of] = key
    BY <2>1
  <2>3. signed' = signed /\ refused' = refused
    BY <1>4, <2>2 DEF Proceed, Verified
  <2> QED BY <1>2, <2>3
<1>5. CASE t.do \in {"core", "router"}
  BY <1>2, <1>5 DEF Proceed
<1> QED BY <1>1, <1>3, <1>4, <1>5, TaskFields

LEMMA SecretFetched ==
  ASSUME Known, OneSecret, Fetched
  PROVE  OneSecret'
<1> SUFFICES ASSUME ~raced PROVE MadeOnce' /\ UsedAlone'
  BY DEF OneSecret, Fetched, history
<1>1. Moves(1, <<>>)
  BY PipePop DEF Fetched, Answering, Known
<1>2. C.task \in Waiting /\ secret \in Keys /\ Proceed(C.task, secret)
  BY HeadWaits DEF Fetched, Answering, C, TypeOK, Keys, Known
<1>3. secret' = secret /\ drawing' = drawing
  BY DEF Fetched, redis
<1>4. NoMorePuts
  BY <1>1, PopQuiet DEF Known
<1>5. MadeOnce'
  BY <1>3, <1>4 DEF OneSecret, MadeOnce, NoMorePuts
<1>6. /\ kept \in {0, secret} /\ \A k \in Calls : signed[k] \in {0, secret}
      /\ refused = {}
  BY DEF OneSecret, UsedAlone
<1>7. /\ kept' \in {0, secret} /\ refused' = {}
      /\ \A k \in Calls : signed'[k] \in {0, secret}
  BY <1>2, <1>6, ProceedUsed
<1>8. UsedAlone'
  BY <1>3, <1>7 DEF UsedAlone
<1> QED BY <1>5, <1>8

LEMMA SecretMissing ==
  ASSUME Known, OneSecret, Missing
  PROVE  OneSecret'
<1> SUFFICES ASSUME ~raced' PROVE MadeOnce' /\ UsedAlone'
  BY DEF OneSecret
<1>1. ~raced /\ drawing = {} /\ \A i \in 1..Len(pipe) : pipe[i].op # "put"
  BY DEF Missing
<1>2. Puts = {}
  BY <1>1 DEF Puts, IsPut
<1>3. NoMorePuts
  BY PipePop, PopQuiet DEF Missing, Answering, Known
<1>4. /\ secret = 0 /\ UNCHANGED <<secret, kept, signed, refused>>
      /\ drawing' = {C.task}
  BY <1>1 DEF Missing, redis, jwt
<1>5. MadeOnce'
  BY <1>2, <1>3, <1>4 DEF MadeOnce, NoMorePuts
<1>6. UsedAlone'
  BY <1>1, <1>4 DEF OneSecret, UsedAlone
<1> QED BY <1>5, <1>6

LEMMA SecretDrawn ==
  ASSUME Known, OneSecret, NEW t \in drawing, Drawn(t)
  PROVE  OneSecret'
<1> SUFFICES ASSUME ~raced PROVE MadeOnce' /\ UsedAlone'
  BY DEF OneSecret, Drawn, history
<1> DEFINE p == Put(t, made')
<1>1. p \in Command /\ Moves(0, <<p>>)
  BY DrawnMoves DEF Known
<1> HIDE DEF p
<1>2. Len(<<p>>) = 1
  BY <1>1, OneCommand
<1>3. Puts = {} /\ drawing = {t} /\ secret = 0
  BY DEF OneSecret, MadeOnce
<1>4. \A i \in Puts' : i = Len(pipe) - 0 + 1
  BY <1>1, <1>2, <1>3, PutsFrom DEF Known
<1>5. \A i, j \in Puts' : i = j
  BY <1>4
<1>6. drawing' = {} /\ UNCHANGED <<secret, kept, signed, refused>>
  BY <1>3 DEF Drawn, redis, jwt
<1>7. MadeOnce'
  BY <1>3, <1>5, <1>6 DEF MadeOnce
<1>8. UsedAlone'
  BY <1>6 DEF OneSecret, UsedAlone
<1> QED BY <1>7, <1>8

(* Redis executes a command, and nobody's callback runs.                    *)
LEMMA SecretExecuted ==
  ASSUME Known, OneSecret, pipe # <<>>, Executed(C), Moves(1, <<>>), ~raced,
         drawing' = drawing
  PROVE  /\ MadeOnce'
         /\ kept \in {0, secret'} /\ \A k \in Calls : signed[k] \in {0, secret'}
         /\ C.op = "put" => secret = 0 /\ secret' = C.key
<1>1. CASE C.op = "put"
  <2>1. 1 \in Puts /\ Puts' = {}
    BY <1>1, LastPut DEF Known, OneSecret, MadeOnce
  <2>2. secret = 0 /\ drawing = {}
    BY <2>1 DEF OneSecret, MadeOnce
  <2>3. secret' = C.key
    BY <1>1 DEF Executed
  <2> QED BY <2>1, <2>2, <2>3 DEF OneSecret, MadeOnce, UsedAlone
<1>2. CASE C.op # "put"
  <2>1. secret' = secret
    BY <1>2 DEF Executed, redis
  <2>2. NoMorePuts
    BY PopQuiet DEF Known
  <2> QED BY <1>2, <2>1, <2>2 DEF OneSecret, MadeOnce, UsedAlone, NoMorePuts
<1> QED BY <1>1, <1>2

LEMMA SecretCreated ==
  ASSUME Known, OneSecret, Created
  PROVE  OneSecret'
<1> SUFFICES ASSUME ~raced PROVE MadeOnce' /\ UsedAlone'
  BY DEF OneSecret, Created, history
<1>1. /\ C \in Command /\ C.op = "put" /\ C.key \in Keys /\ pipe # <<>>
      /\ Executed(C) /\ Proceed(C.task, C.key) /\ drawing' = drawing
  BY HeadIs, CommandFields DEF Created, Answering, C, Known
<1>2. Moves(1, <<>>)
  BY PipePop DEF Created, Answering, Known
<1>3. C.task \in Waiting
  BY <1>1, HeadWaits DEF Known
<1>4. /\ MadeOnce' /\ secret' = C.key
      /\ kept \in {0, C.key} /\ \A k \in Calls : signed[k] \in {0, C.key}
  BY <1>1, <1>2, SecretExecuted
<1>5. refused = {}
  BY DEF OneSecret, UsedAlone
<1>6. /\ kept' \in {0, C.key} /\ refused' = {}
      /\ \A k \in Calls : signed'[k] \in {0, C.key}
  BY <1>1, <1>3, <1>4, <1>5, ProceedUsed
<1>7. UsedAlone'
  BY <1>4, <1>6 DEF UsedAlone
<1> QED BY <1>4, <1>7

LEMMA SecretWritten ==
  ASSUME Known, OneSecret, Written
  PROVE  OneSecret'
<1>1. C.op \in {"set", "expire"} /\ Moves(1, Then2)
  BY WrittenMoves DEF Known
<1>2. \A c \in On(Then2) : c.op # "put"
  BY WrittenMoves DEF Known, Expire
<1>3. NoMorePuts
  BY <1>1, <1>2, PutsFewer DEF Known
<1>4. secret' = secret
  BY <1>1 DEF Written, Executed
<1> QED BY <1>3, <1>4, SecretQuiet DEF Written, process, jwt, history

LEMMA SecretFound ==
  ASSUME Known, OneSecret, Found
  PROVE  OneSecret'
<1>1. NoMorePuts
  BY PipePop, PopQuiet DEF Found, Answering, Known
<1> QED BY <1>1, SecretQuiet DEF Found, redis, process, jwt, history

LEMMA SecretTimeToLiveEnds ==
  ASSUME Known, OneSecret, NEW l \in Links, TimeToLiveEnds(l)
  PROVE  OneSecret'
BY PutsSame, SecretQuiet DEF TimeToLiveEnds, process, jwt

LEMMA SecretCrash ==
  ASSUME Known, OneSecret, Crash
  PROVE  OneSecret'
<1> SUFFICES ASSUME ~raced PROVE MadeOnce' /\ UsedAlone'
  BY DEF OneSecret, Crash, history
<1>1. /\ UNCHANGED <<secret, pipe, signed, refused>>
      /\ drawing' = {} /\ kept' = 0
  BY DEF Crash, redis, jwt
<1>2. Puts' = Puts
  BY <1>1 DEF Puts
<1> QED BY <1>1, <1>2 DEF OneSecret, MadeOnce, UsedAlone

LEMMA SecretDrain ==
  ASSUME Known, OneSecret, Drain
  PROVE  OneSecret'
<1> SUFFICES ASSUME ~raced PROVE MadeOnce' /\ UsedAlone'
  BY DEF OneSecret, Drain, history
<1>1. pipe # <<>> /\ Executed(C) /\ UNCHANGED <<drawing, kept, signed, refused>>
  BY DEF Drain, C, process, jwt
<1>2. Moves(1, <<>>)
  BY PipeTail DEF Drain, Known
<1>3. /\ MadeOnce'
      /\ kept \in {0, secret'} /\ \A k \in Calls : signed[k] \in {0, secret'}
  BY <1>1, <1>2, SecretExecuted
<1> QED BY <1>1, <1>3 DEF OneSecret, UsedAlone

LEMMA SecretRestart ==
  ASSUME Known, OneSecret, Restart
  PROVE  OneSecret'
<1> DEFINE g == Get(Core)
<1>1. g.op = "get" /\ Len(pipe') = 1 /\ pipe'[1] = g
  BY RestartMoves
<1> HIDE DEF g
<1>2. Puts' = {}
  BY <1>1 DEF Puts, IsPut
<1>3. NoMorePuts
  BY <1>2 DEF NoMorePuts
<1> QED BY <1>3, SecretQuiet DEF Restart, redis, jwt, history

LEMMA SecretRejected ==
  ASSUME Known, OneSecret, Rejected
  PROVE  OneSecret'
<1> SUFFICES ASSUME ~raced PROVE MadeOnce' /\ UsedAlone'
  BY DEF OneSecret, Rejected, history
<1>1. pipe # <<>> /\ UNCHANGED <<drawing, kept, signed, refused>>
  BY DEF Rejected, process, jwt
<1>2. Moves(1, <<>>)
  BY PipePop DEF Rejected, Known
<1>3. CASE Executed(C)
  <2>1. /\ MadeOnce'
        /\ kept \in {0, secret'} /\ \A k \in Calls : signed[k] \in {0, secret'}
    BY <1>1, <1>2, <1>3, SecretExecuted
  <2> QED BY <1>1, <2>1 DEF OneSecret, UsedAlone
<1>4. CASE UNCHANGED redis
  <2>1. secret' = secret /\ NoMorePuts
    BY <1>2, <1>4, PopQuiet DEF redis, Known
  <2> QED BY <1>1, <2>1 DEF OneSecret, MadeOnce, UsedAlone, NoMorePuts
<1> QED BY <1>3, <1>4 DEF Rejected

LEMMA SecretStep == Known /\ OneSecret /\ [Next]_vars => OneSecret'
<1> SUFFICES ASSUME Known, OneSecret, [Next]_vars PROVE OneSecret'
  OBVIOUS
<1>1. CASE Serve
  BY <1>1, SecretServe
<1>2. CASE Redis
  BY <1>2, SecretFetched, SecretMissing, SecretCreated, SecretWritten, SecretFound
     DEF Redis
<1>3. CASE Draw
  BY <1>3, SecretDrawn DEF Draw
<1>4. ASSUME NEW r \in Requests, OAuth(r) \/ Login(r) \/ Use(r) \/ Verify(r)
      PROVE  OneSecret'
  BY <1>4, SecretOAuth, SecretLogin, SecretUse, SecretVerifyCall
<1>5. ASSUME NEW l \in Links, TimeToLiveEnds(l) PROVE OneSecret'
  BY <1>5, SecretTimeToLiveEnds
<1>6. CASE Crash \/ Drain \/ Restart \/ Rejected
  BY <1>6, SecretCrash, SecretDrain, SecretRestart, SecretRejected
<1>7. CASE UNCHANGED vars
  BY <1>7, PutsSame, SecretQuiet DEF vars
<1> QED BY <1>1, <1>2, <1>3, <1>4, <1>5, <1>6, <1>7 DEF Next

(* lib/thinx/jwtlogin.js:27-28, 49-60, 131.  A signed token is refused only *)
(* when two secrets were made at once, whatever the logins, verifications,  *)
(* crashes and rejected commands: until then a secret is drawn for one task *)
(* only, while Redis holds none, and what was kept or used to sign is what  *)
(* Redis holds.                                                             *)
THEOREM TokensAccepted == Spec => []SignedIsAccepted
<1>1. Init => Known /\ OneSecret
  BY KnownInit, SecretInit
<1>2. Known /\ OneSecret /\ [Next]_vars => (Known /\ OneSecret)'
  BY KnownStep, SecretStep
<1>3. OneSecret => SignedIsAccepted
  BY DEF OneSecret, UsedAlone, SignedIsAccepted
<1> QED BY <1>1, <1>2, <1>3, PTL DEF Spec
-----------------------------------------------------------------------------
(* Links expire. *)

LEMMA EndsKept ==
  ASSUME TypeOK, Ends(pipe), NEW k, NEW cs, Moves(k, cs), Ends(cs)
  PROVE  Ends(pipe')
<1> DEFINE p == pipe
           q == pipe'
<1>1. /\ p \in Seq(Command) /\ q \in Seq(Command) /\ cs \in Seq(Command)
      /\ Follows(p, q, k, cs)
  BY DEF TypeOK, Moves
<1>2. Ends(p)
  OBVIOUS
<1> HIDE DEF p, q
<1> SUFFICES ASSUME NEW i \in 1..Len(q), q[i].op = "set", ~q[i].chained
             PROVE  \E j \in 1..Len(q) : j > i /\ q[j] = Expire(q[i].link)
  BY DEF Ends, q
<1>3. /\ k \in {0, 1} /\ k <= Len(p) /\ Len(p) \in Nat /\ Len(cs) \in Nat
      /\ Len(q) = Len(p) - k + Len(cs)
      /\ \A a \in 1..Len(p) - k : q[a] = p[a + k]
      /\ \A a \in 1..Len(cs) : q[Len(p) - k + a] = cs[a]
  BY <1>1 DEF Follows
<1>4. CASE i + k \in 1..Len(p) /\ i + k > k /\ q[i] = p[i + k]
  <2>1. PICK j \in 1..Len(p) : j > i + k /\ p[j] = Expire(q[i].link)
    BY <1>2, <1>4 DEF Ends
  <2>2. j - k \in 1..Len(p) - k /\ j - k > i /\ j - k \in 1..Len(q)
    BY <1>3, <2>1
  <2>3. q[j - k] = p[j]
    BY <1>3, <2>2
  <2> QED BY <2>1, <2>2, <2>3
<1>5. ASSUME NEW a \in 1..Len(cs), i = Len(p) - k + a, q[i] = cs[a]
      PROVE  \E j \in 1..Len(q) : j > i /\ q[j] = Expire(q[i].link)
  <2>1. PICK b \in 1..Len(cs) : b > a /\ cs[b] = Expire(q[i].link)
    BY <1>5 DEF Ends
  <2>2. Len(p) - k + b \in 1..Len(q) /\ Len(p) - k + b > i
    BY <1>3, <1>5, <2>1
  <2>3. q[Len(p) - k + b] = cs[b]
    BY <1>3
  <2> QED BY <2>1, <2>2, <2>3
<1> QED BY <1>1, <1>4, <1>5, FollowsFrom

(* Only the head leaves the pipe. *)
LEMMA OnStays ==
  ASSUME TypeOK, NEW k, NEW cs, Moves(k, cs)
  PROVE  /\ \A x \in On(pipe) : x \in On(pipe') \/ (k = 1 /\ x = pipe[1])
         /\ On(cs) \subseteq On(pipe')
<1>1. /\ k \in {0, 1} /\ k <= Len(pipe) /\ Len(pipe) \in Nat /\ Len(cs) \in Nat
      /\ Len(pipe') = Len(pipe) - k + Len(cs)
      /\ \A a \in 1..Len(pipe) - k : pipe'[a] = pipe[a + k]
      /\ \A a \in 1..Len(cs) : pipe'[Len(pipe) - k + a] = cs[a]
  BY DEF Moves, Follows, TypeOK
<1>2. ASSUME NEW i \in 1..Len(pipe), ~(k = 1 /\ i = 1)
      PROVE  pipe[i] \in On(pipe')
  <2>1. i - k \in 1..Len(pipe) - k /\ i - k \in 1..Len(pipe')
    BY <1>1, <1>2
  <2>2. pipe'[i - k] = pipe[i]
    BY <1>1, <2>1
  <2> QED BY <2>1, <2>2 DEF On
<1>3. ASSUME NEW a \in 1..Len(cs) PROVE cs[a] \in On(pipe')
  <2>1. Len(pipe) - k + a \in 1..Len(pipe')
    BY <1>1
  <2> QED BY <1>1, <2>1 DEF On
<1> QED BY <1>2, <1>3 DEF On

StoredEnds == \A l \in Links : links[l] = "stored" => Expire(l) \in On(pipe)

LEMMA LinksInvIs == LinksInv <=> (~disturbed => up /\ Ends(pipe) /\ StoredEnds)
BY DEF LinksInv, ExpiryFollows, LinksExpire, StoredEnds, On

(* Nothing was stored, and no EXPIRE was answered. *)
LEMMA StoredStays ==
  ASSUME Known, StoredEnds, NEW k, NEW cs, Moves(k, cs),
         k = 0 \/ (pipe # <<>> /\ C.op # "expire"),
         \A l \in Links : links'[l] = "stored" => links[l] = "stored"
  PROVE  StoredEnds'
<1> SUFFICES ASSUME NEW l \in Links, links'[l] = "stored"
             PROVE  Expire(l) \in On(pipe')
  BY DEF StoredEnds
<1>1. Expire(l) \in On(pipe)
  BY DEF StoredEnds
<1>2. k = 1 => Expire(l) # pipe[1]
  BY HeadIs DEF Expire, Known
<1> QED BY <1>1, <1>2, OnStays DEF Known

LEMMA NothingEnds == Ends(<<>>)
<1>1. Len(<<>>) = 0
  BY NoCommands
<1> QED BY <1>1 DEF Ends

LEMMA OneEnds ==
  ASSUME NEW c \in Command, c.op = "set" => c.chained
  PROVE  Ends(<<c>>)
<1>1. Len(<<c>>) = 1 /\ <<c>>[1] = c
  BY OneCommand
<1> QED BY <1>1 DEF Ends

LEMMA LinkEnds ==
  ASSUME NEW r \in Requests, r.op = "oauth"
  PROVE  Ends(OAuthLink(r))
<1>0. r.link \in Links /\ r.chained \in BOOLEAN
  BY RequestFields
<1> DEFINE s == Set(r.link, TRUE)
           u == Set(r.link, FALSE)
           e == Expire(r.link)
<1>1. /\ s \in Command /\ u \in Command /\ e \in Command
  BY <1>0, CommandTypes
<1>2. s.chained /\ e.op = "expire" /\ u.link = r.link
  BY DEF Set, Expire
<1>3. OAuthLink(r) = IF r.chained THEN <<s>> ELSE <<u, e>>
  BY DEF OAuthLink
<1>4. e = Expire(u.link)
  BY <1>2
<1> HIDE DEF s, u, e
<1>5. CASE r.chained
  BY <1>1, <1>2, <1>3, <1>5, OneEnds
<1>6. CASE ~r.chained
  <2> DEFINE cs == <<u, e>>
  <2>1. Len(cs) = 2 /\ cs[1] = u /\ cs[2] = e
    BY <1>1, TwoCommands
  <2> HIDE DEF cs
  <2>2. Ends(cs)
    BY <1>2, <1>4, <2>1 DEF Ends
  <2> QED BY <1>3, <1>6, <2>2 DEF cs
<1> QED BY <1>0, <1>5, <1>6

LEMMA LoginEnds ==
  ASSUME NEW r \in Requests, r.op = "login", NEW k \in Calls
  PROVE  Ends(<<Set(r.link, TRUE), Get([do |-> "sign", by |-> k])>>)
<1>0. r.link \in Links
  BY RequestFields
<1> DEFINE s == Set(r.link, TRUE)
           g == Get([do |-> "sign", by |-> k])
           cs == <<s, g>>
<1>1. s \in Command /\ g \in Command
  BY <1>0, CommandTypes
<1>2. s.chained /\ g.op = "get"
  BY DEF Set, Get
<1> HIDE DEF s, g
<1>3. Len(cs) = 2 /\ cs[1] = s /\ cs[2] = g
  BY <1>1, TwoCommands
<1> HIDE DEF cs
<1>4. Ends(cs)
  BY <1>2, <1>3 DEF Ends
<1> QED BY <1>4 DEF cs, s, g

LEMMA LinksQuiet ==
  ASSUME Known, LinksInv, NEW k, NEW cs, Moves(k, cs), Ends(cs),
         k = 0 \/ (pipe # <<>> /\ C.op # "expire"),
         UNCHANGED <<links, up, disturbed>>
  PROVE  LinksInv'
<1> SUFFICES ASSUME ~disturbed PROVE up' /\ Ends(pipe') /\ StoredEnds'
  BY LinksInvIs DEF LinksInv, ExpiryFollows, LinksExpire, StoredEnds, On
<1>1. up /\ Ends(pipe) /\ StoredEnds
  BY LinksInvIs
<1>2. Ends(pipe')
  BY <1>1, EndsKept DEF Known
<1>3. StoredEnds'
  BY <1>1, StoredStays
<1> QED BY <1>1, <1>2, <1>3

LEMMA LinksInit == Init => LinksInv
<1> SUFFICES ASSUME Init PROVE LinksInv
  OBVIOUS
<1> DEFINE g == Get(Core)
<1>1. g \in Command /\ g.op = "get" /\ pipe = <<g>>
  BY CommandTypes DEF Init, Get
<1> HIDE DEF g
<1>2. Ends(pipe)
  BY <1>1, OneEnds
<1> QED BY <1>2, LinksInvIs DEF Init, StoredEnds

LEMMA LinksServe ==
  ASSUME Known, LinksInv, Serve
  PROVE  LinksInv'
<1> DEFINE g == Get(Router)
<1>1. g \in Command /\ g.op = "get" /\ pipe' = Append(pipe, g)
  BY CommandTypes DEF Serve, Get
<1> HIDE DEF g
<1>2. Moves(0, <<g>>) /\ Ends(<<g>>)
  BY <1>1, PipeAppend, OneEnds DEF Known
<1> QED BY <1>2, LinksQuiet DEF Serve, redis

LEMMA AskStays ==
  ASSUME NEW r, Ask(r)
  PROVE  UNCHANGED <<links, up, disturbed>>
BY DEF Ask, redis, process

LEMMA LinksCalls ==
  ASSUME Known, LinksInv, NEW r \in Requests, OAuth(r) \/ Login(r) \/ Use(r) \/ Verify(r)
  PROVE  LinksInv'
<1>0. Ask(r) /\ UNCHANGED <<links, up, disturbed>>
  BY AskStays DEF OAuth, Login, Use, Verify
<1>1. Len(asked') \in Calls
  BY <1>0, AskTypes DEF Known
<1>2. CASE OAuth(r)
  <2> DEFINE cs == OAuthLink(r)
  <2>1. cs \in Seq(Command) /\ pipe' = pipe \o cs /\ Ends(cs)
    BY <1>2, LinkCommands, LinkEnds DEF OAuth
  <2> HIDE DEF cs
  <2> QED BY <1>0, <2>1, PipeJoin, LinksQuiet DEF Known
<1>3. CASE Login(r)
  <2> DEFINE cs == <<Set(r.link, TRUE), Get([do |-> "sign", by |-> Len(asked')])>>
  <2>1. cs \in Seq(Command) /\ pipe' = pipe \o cs /\ Ends(cs)
    BY <1>1, <1>3, LoginCommands, LoginEnds DEF Login
  <2> HIDE DEF cs
  <2> QED BY <1>0, <2>1, PipeJoin, LinksQuiet DEF Known
<1>4. CASE Use(r)
  <2> DEFINE f == Find(r.link, Len(asked'))
  <2>1. f \in Command /\ f.op = "find" /\ pipe' = Append(pipe, f)
    BY <1>1, <1>4, CommandTypes, RequestFields DEF Use, Find
  <2> HIDE DEF f
  <2>2. Moves(0, <<f>>) /\ Ends(<<f>>)
    BY <2>1, PipeAppend, OneEnds DEF Known
  <2> QED BY <1>0, <2>2, LinksQuiet
<1>5. CASE Verify(r) /\ kept = 0
  <2> DEFINE g == Get([do |-> "verify", by |-> Len(asked')])
  <2>1. g \in Command /\ g.op = "get" /\ pipe' = Append(pipe, g)
    BY <1>1, <1>5, CommandTypes DEF Verify, Get
  <2> HIDE DEF g
  <2>2. Moves(0, <<g>>) /\ Ends(<<g>>)
    BY <2>1, PipeAppend, OneEnds DEF Known
  <2> QED BY <1>0, <2>2, LinksQuiet
<1>6. CASE Verify(r) /\ kept # 0
  <2>1. pipe' = pipe
    BY <1>6 DEF Verify
  <2> QED BY <1>0, <2>1, LinksInvIs DEF LinksInv, ExpiryFollows, LinksExpire
<1> QED BY <1>2, <1>3, <1>4, <1>5, <1>6

LEMMA LinksAnswered ==
  ASSUME Known, LinksInv, Fetched \/ Missing \/ Created \/ Found
  PROVE  LinksInv'
<1>1. pipe # <<>> /\ C.op \in {"get", "put", "find"} /\ Moves(1, <<>>)
  BY PipePop DEF Fetched, Missing, Created, Found, Answering, C, Known
<1>2. UNCHANGED <<links, up, disturbed>>
  BY <1>1 DEF Fetched, Missing, Created, Found, Executed, redis, process
<1> QED BY <1>1, <1>2, NothingEnds, LinksQuiet

LEMMA LinksWritten ==
  ASSUME Known, LinksInv, Written
  PROVE  LinksInv'
<1> SUFFICES ASSUME ~disturbed PROVE up' /\ Ends(pipe') /\ StoredEnds'
  BY LinksInvIs DEF Written, LinksInv, ExpiryFollows, LinksExpire, StoredEnds, On
<1>1. up /\ Ends(pipe) /\ StoredEnds
  BY LinksInvIs
<1>2. /\ C \in Command /\ C.op \in {"set", "expire"} /\ C.link \in Links
      /\ Moves(1, Then2)
  BY WrittenMoves DEF Known
<1>3. up' = up /\ Executed(C) /\ pipe # <<>>
  BY DEF Written, process, Answering
<1>4. Ends(Then2)
  <2>1. CASE C.op = "set" /\ C.chained
    <3> DEFINE e == Expire(C.link)
    <3>1. e \in Command /\ e.op = "expire" /\ Then2 = <<e>>
      BY <1>2, <2>1, CommandTypes DEF Then2, Expire
    <3> HIDE DEF e
    <3> QED BY <3>1, OneEnds
  <2>2. CASE ~(C.op = "set" /\ C.chained)
    BY <2>2, NothingEnds DEF Then2
  <2> QED BY <2>1, <2>2
<1>5. Ends(pipe')
  BY <1>1, <1>2, <1>4, EndsKept DEF Known
<1>6. StoredEnds'
  <2> SUFFICES ASSUME NEW l \in Links, links'[l] = "stored"
               PROVE  Expire(l) \in On(pipe')
    BY DEF StoredEnds
  <2>1. CASE C.op = "set" /\ C.link = l
    <3>1. CASE C.chained
      <4>1. Expire(l) \in On(Then2)
        BY <2>1, <3>1, WrittenMoves DEF Known
      <4> QED BY <1>2, <4>1, OnStays DEF Known
    <3>2. CASE ~C.chained
      <4>1. pipe[1] = C /\ Len(pipe) \in Nat \ {0}
        BY <1>3, HeadIs DEF Known
      <4>2. PICK j \in 1..Len(pipe) : j > 1 /\ pipe[j] = Expire(l)
        BY <1>1, <2>1, <3>2, <4>1 DEF Ends
      <4>3. Expire(l) \in On(pipe) /\ Expire(l) # C
        BY <2>1, <4>2 DEF On, Expire
      <4> QED BY <1>2, <4>1, <4>3, OnStays DEF Known
    <3> QED BY <3>1, <3>2
  <2>2. CASE ~(C.op = "set" /\ C.link = l)
    <3>1. links[l] = "stored" /\ C # Expire(l)
      BY <1>2, <1>3, <2>2 DEF Executed, Expire, Known, TypeOK
    <3>2. Expire(l) \in On(pipe)
      BY <1>1, <3>1 DEF StoredEnds
    <3> QED BY <1>2, <1>3, <3>1, <3>2, HeadIs, OnStays DEF Known
  <2> QED BY <2>1, <2>2
<1> QED BY <1>1, <1>3, <1>5, <1>6

LEMMA LinksTimeToLiveEnds ==
  ASSUME Known, LinksInv, NEW l \in Links, TimeToLiveEnds(l)
  PROVE  LinksInv'
<1>1. UNCHANGED <<pipe, up, disturbed>>
  BY DEF TimeToLiveEnds, process
<1>2. \A m \in Links : links'[m] = "stored" => links[m] = "stored"
  BY DEF TimeToLiveEnds, Known, TypeOK
<1> QED BY <1>1, <1>2 DEF LinksInv, ExpiryFollows, LinksExpire

LEMMA LinksFaults ==
  ASSUME Known, LinksInv, Crash \/ Drain \/ Restart \/ Rejected
  PROVE  LinksInv'
<1>1. CASE Crash \/ Rejected
  BY <1>1 DEF Crash, Rejected, LinksInv, ExpiryFollows, LinksExpire
<1>2. CASE Drain \/ Restart
  <2>1. disturbed /\ disturbed' = disturbed
    BY <1>2 DEF Drain, Restart, LinksInv, ExpiryFollows
  <2> QED BY <2>1 DEF LinksInv, ExpiryFollows, LinksExpire
<1> QED BY <1>1, <1>2

LEMMA LinksStep == Known /\ LinksInv /\ [Next]_vars => LinksInv'
<1> SUFFICES ASSUME Known, LinksInv, [Next]_vars PROVE LinksInv'
  OBVIOUS
<1>1. CASE Serve
  BY <1>1, LinksServe
<1>2. CASE Redis
  BY <1>2, LinksAnswered, LinksWritten DEF Redis
<1>3. ASSUME NEW t \in drawing, Drawn(t) PROVE LinksInv'
  <2> DEFINE p == Put(t, made')
  <2>1. p \in Command /\ Moves(0, <<p>>) /\ p.op = "put"
    BY <1>3, DrawnMoves DEF Known, Put
  <2> HIDE DEF p
  <2>2. Ends(<<p>>)
    BY <2>1, OneEnds
  <2> QED BY <1>3, <2>1, <2>2, LinksQuiet DEF Drawn, redis
<1>4. ASSUME NEW r \in Requests, OAuth(r) \/ Login(r) \/ Use(r) \/ Verify(r)
      PROVE  LinksInv'
  BY <1>4, LinksCalls
<1>5. ASSUME NEW l \in Links, TimeToLiveEnds(l) PROVE LinksInv'
  BY <1>5, LinksTimeToLiveEnds
<1>6. CASE Crash \/ Drain \/ Restart \/ Rejected
  BY <1>6, LinksFaults
<1>7. CASE UNCHANGED vars
  BY <1>7 DEF vars, LinksInv, ExpiryFollows, LinksExpire
<1> QED BY <1>1, <1>2, <1>3, <1>4, <1>5, <1>6, <1>7 DEF Next, Draw

(* lib/router.auth.js:127-132, lib/router.google.js:67-69, 214-215,         *)
(* lib/router.github.js:101-117.  As long as the process runs and Redis     *)
(* rejects nothing, what is stored under a link has an expiry or its EXPIRE *)
(* is in the pipe, however logins that share a link overlap: behind every   *)
(* SET whose answer does not send the EXPIRE, the pipe holds that EXPIRE.   *)
THEOREM TokensExpireLinks == Spec => []LinksExpire
<1>1. Init => Known /\ LinksInv
  BY KnownInit, LinksInit
<1>2. Known /\ LinksInv /\ [Next]_vars => (Known /\ LinksInv)'
  BY KnownStep, LinksStep
<1>3. LinksInv => LinksExpire
  BY DEF LinksInv
<1> QED BY <1>1, <1>2, <1>3, PTL DEF Spec
=============================================================================
