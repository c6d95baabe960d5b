---------------------------- MODULE FirmwareProofs ----------------------------
(* What holds of the firmware of lib/thinx/device.js and                    *)
(* lib/thinx/notifier.js with any devices, builds, times and requests: the  *)
(* types, that tokens expire, and that a device gets its own firmware.      *)
EXTENDS Firmware, SequenceTheorems, TLAPS

(* The commands in a pipe. *)
On(p) == {p[i] : i \in 1..Len(p)}

LEMMA OnConcat ==
  ASSUME NEW S, NEW p \in Seq(S), NEW q \in Seq(S)
  PROVE  p \o q \in Seq(S) /\ On(p \o q) = On(p) \cup On(q)
<1>1. p \o q \in Seq(S)
  BY ConcatProperties
<1>2. On(p) = Range(p) /\ On(q) = Range(q) /\ On(p \o q) = Range(p \o q)
  BY <1>1, RangeEquality DEF On
<1> QED BY <1>1, <1>2, RangeConcatenation

LEMMA OnAppend ==
  ASSUME NEW S, NEW p \in Seq(S), NEW x \in S
  PROVE  On(Append(p, x)) = On(p) \cup {x}
<1>1. <<x>> \in Seq(S) /\ Len(<<x>>) = 1 /\ <<x>>[1] = x
  OBVIOUS
<1>2. On(<<x>>) = {x}
  BY <1>1 DEF On
<1>3. Append(p, x) = p \o <<x>>
  BY AppendIsConcat
<1>4. On(p \o <<x>>) = On(p) \cup On(<<x>>)
  BY <1>1, OnConcat
<1> QED BY <1>2, <1>3, <1>4

LEMMA TailIndex ==
  ASSUME NEW S, NEW p \in Seq(S), p # <<>>
  PROVE  /\ Len(p) \in Nat \ {0} /\ p[1] = Head(p)
         /\ Len(Tail(p)) = Len(p) - 1
         /\ \A i \in 1..Len(Tail(p)) : Tail(p)[i] = p[i + 1]
OBVIOUS

LEMMA OnTail ==
  ASSUME NEW S, NEW p \in Seq(S), p # <<>>
  PROVE  On(p) = {Head(p)} \cup On(Tail(p))
<1>1. On(p) \subseteq {Head(p)} \cup On(Tail(p))
  <2> SUFFICES ASSUME NEW i \in 1..Len(p), i # 1 PROVE p[i] \in On(Tail(p))
    BY TailIndex DEF On
  <2>1. i - 1 \in 1..Len(Tail(p)) /\ Tail(p)[i - 1] = p[i]
    BY TailIndex
  <2> QED BY <2>1 DEF On
<1>2. {Head(p)} \cup On(Tail(p)) \subseteq On(p)
  BY TailIndex DEF On
<1> QED BY <1>1, <1>2

(* The head of the pipe is answered and its callback issues cs. *)
LEMMA ThenIs ==
  ASSUME NEW S, NEW p \in Seq(S), p # <<>>, NEW cs \in Seq(S)
  PROVE  /\ Tail(p) \o cs \in Seq(S)
         /\ Len(Tail(p) \o cs) = Len(p) - 1 + Len(cs)
         /\ \A i \in 1..Len(p) - 1 : (Tail(p) \o cs)[i] = p[i + 1]
         /\ \A j \in 1..Len(cs) : (Tail(p) \o cs)[Len(p) - 1 + j] = cs[j]
<1>1. /\ Tail(p) \in Seq(S) /\ Len(p) \in Nat \ {0} /\ Len(Tail(p)) = Len(p) - 1
      /\ \A i \in 1..Len(Tail(p)) : Tail(p)[i] = p[i + 1]
  BY HeadTailProperties, TailIndex
<1>2. Len(cs) \in Nat
  OBVIOUS
<1> DEFINE t == Tail(p)
<1> HIDE DEF t
<1>3. /\ t \o cs \in Seq(S)
         /\ Len(t \o cs) = Len(t) + Len(cs)
         /\ \A i \in 1 .. Len(t) + Len(cs) : (t \o cs)[i] =
                     IF i <= Len(t) THEN t[i] ELSE cs[i - Len(t)]
  BY <1>1, ConcatProperties DEF t
<1> QED BY <1>1, <1>2, <1>3 DEF t

LEMMA OnThen ==
  ASSUME NEW S, NEW p \in Seq(S), p # <<>>, NEW cs \in Seq(S)
  PROVE  /\ On(p) = {Head(p)} \cup On(Tail(p))
         /\ On(Tail(p) \o cs) = On(Tail(p)) \cup On(cs)
<1>1. Tail(p) \in Seq(S)
  BY HeadTailProperties
<1>2. On(Tail(p) \o cs) = On(Tail(p)) \cup On(cs)
  BY <1>1, OnConcat
<1> QED BY <1>2, OnTail

LEMMA NoCommands == \A S : <<>> \in Seq(S) /\ Len(<<>>) = 0 /\ On(<<>>) = {}
BY DEF On

LEMMA OneCommand ==
  ASSUME NEW S, NEW x \in S
  PROVE  /\ <<x>> \in Seq(S) /\ Len(<<x>>) = 1 /\ <<x>>[1] = x
         /\ On(<<x>>) = {x}
<1>1. <<x>> \in Seq(S) /\ Len(<<x>>) = 1 /\ <<x>>[1] = x
  OBVIOUS
<1> QED BY <1>1 DEF On
-----------------------------------------------------------------------------
(* While the process runs, whoever stores a token waits for it to be        *)
(* stored, and then sends its expiry.                                       *)
SetsOwned == ~disturbed => \A c \in On(pipe) : c.op = "set" => c.by # None
ExpiryInv == SetsOwned /\ TokensExpire

(* A token is used by those it was stored for: it holds one of them, and    *)
(* who was told of it, will be or has asked with it is one of them.         *)
TokensGiven ==
  \A t \in Times : tokens[t] # None => tokens[t] \in given[t]
ToldGiven ==
  \A d \in Udids : told[d] # None => d \in given[told[d]]
PipeGiven ==
  \A c \in On(pipe) : c.by # None =>
    IF c.op = "set" THEN c.by = c.udid ELSE c.by \in given[c.token]
OwnInv == TokensGiven /\ ToldGiven /\ PipeGiven /\ ServedIsOwn
-----------------------------------------------------------------------------
(* Commands, and how the pipe moves. *)

LEMMA CommandTypes ==
  /\ \A d \in Udids : \A t \in Times :
       [op |-> "set", token |-> t, udid |-> d, by |-> d] \in Command
  /\ \A t \in Times : \A s \in {Day, Hour} : \A d \in Udids \cup {None} :
       Expire(t, s, d) \in Command
  /\ \A t \in Times : \A d \in Udids :
       [op |-> "get", token |-> t, by |-> d] \in Command
BY DEF Command, Expire

LEMMA CommandFields ==
  ASSUME NEW c \in Command
  PROVE  /\ c.op \in {"set", "expire", "get"}
         /\ c.token \in Times /\ c.by \in Udids \cup {None}
         /\ c.op = "set" => c.udid \in Udids
         /\ c.op = "expire" => c.for \in {Day, Hour}
BY DEF Command

LEMMA StoreOTTIs ==
  ASSUME TypeOK, NEW d \in Udids
  PROVE  /\ StoreOTT(d) \in Command /\ StoreOTT(d).op = "set"
         /\ StoreOTT(d).by = d /\ StoreOTT(d).udid = d /\ d # None
BY CommandTypes, FirmwareAssumption DEF StoreOTT, TypeOK

LEMMA ExpireIs ==
  ASSUME NEW t \in Times, NEW s \in {Day, Hour}, NEW d \in Udids \cup {None}
  PROVE  /\ Expire(t, s, d) \in Command /\ Expire(t, s, d).op = "expire"
         /\ Expire(t, s, d).token = t /\ Expire(t, s, d).by = d
BY CommandTypes DEF Expire

LEMMA PipeAppend ==
  ASSUME TypeOK, NEW c \in Command, pipe' = Append(pipe, c)
  PROVE  pipe' \in Seq(Command) /\ On(pipe') = On(pipe) \cup {c}
<1>1. pipe \in Seq(Command)
  BY DEF TypeOK
<1>2. On(Append(pipe, c)) = On(pipe) \cup {c}
  BY <1>1, OnAppend
<1>3. Append(pipe, c) \in Seq(Command)
  BY <1>1
<1> QED BY <1>2, <1>3

LEMMA PipeThen ==
  ASSUME TypeOK, pipe # <<>>, NEW cs \in Seq(Command), Then(cs)
  PROVE  /\ C \in Command /\ C \in On(pipe)
         /\ pipe' \in Seq(Command)
         /\ On(pipe) \subseteq On(pipe') \cup {C}
         /\ On(pipe') \subseteq On(pipe) \cup On(cs)
         /\ On(cs) \subseteq On(pipe')
<1>1. pipe \in Seq(Command)
  BY DEF TypeOK
<1>2. Head(pipe) \in Command
  BY <1>1
<1>3. /\ On(pipe) = {Head(pipe)} \cup On(Tail(pipe))
      /\ On(Tail(pipe) \o cs) = On(Tail(pipe)) \cup On(cs)
  BY <1>1, OnThen
<1>4. Tail(pipe) \o cs \in Seq(Command)
  BY <1>1, ThenIs
<1> QED BY <1>2, <1>3, <1>4 DEF C, Then

LEMMA PipeTypes == TypeOK => \A c \in On(pipe) : c \in Command
BY DEF TypeOK, On

LEMMA Nothing == <<>> \in Seq(Command) /\ On(<<>>) = {}
BY NoCommands

(* The process that waited for the commands is gone. *)
LEMMA PipeCrash ==
  ASSUME TypeOK, Crash
  PROVE  /\ pipe' \in Seq(Command)
         /\ \A c \in On(pipe') : c.by = None
<1>1. PICK n \in 0..Len(pipe) : pipe' = [i \in 1..n |-> [pipe[i] EXCEPT !.by = None]]
  BY DEF Crash
<1>2. pipe \in Seq(Command) /\ n \in Nat /\ n <= Len(pipe)
  BY <1>1 DEF TypeOK
<1>3. ASSUME NEW c \in Command
      PROVE  [c EXCEPT !.by = None] \in Command /\ [c EXCEPT !.by = None].by = None
  <2>1. CASE c \in [op : {"set"}, token : Times, udid : Udids, by : Udids \cup {None}]
    BY <2>1 DEF Command
  <2>2. CASE c \in [op : {"expire"}, token : Times, for : {Day, Hour}, by : Udids \cup {None}]
    BY <2>2 DEF Command
  <2>3. CASE c \in [op : {"get"}, token : Times, by : Udids \cup {None}]
    BY <2>3 DEF Command
  <2> QED BY <2>1, <2>2, <2>3 DEF Command
<1>4. \A i \in 1..n : pipe[i] \in Command
  BY <1>2
<1>5. \A i \in 1..n : /\ [pipe[i] EXCEPT !.by = None] \in Command
                      /\ [pipe[i] EXCEPT !.by = None].by = None
  BY <1>3, <1>4
<1>6. pipe' \in Seq(Command) /\ Len(pipe') = n
  BY <1>1, <1>2, <1>5
<1>7. \A i \in 1..Len(pipe') : pipe'[i].by = None
  BY <1>1, <1>5, <1>6
<1> QED BY <1>6, <1>7 DEF On
-----------------------------------------------------------------------------
(* Types. *)

LEMMA TypesInit == Init => TypeOK
<1> SUFFICES ASSUME Init PROVE TypeOK
  OBVIOUS
<1>0. now \in Times
  BY FirmwareAssumption DEF Init, Times
<1>1. /\ notices \in SUBSET Notice /\ disturbed \in BOOLEAN
      /\ calls \in SUBSET FirmwareCall /\ waits \in SUBSET Udids /\ mixed \in SUBSET Times
  BY DEF Init
<1>2. /\ files \in [Udids -> 0..MaxVersion] /\ envelope \in [Udids -> 0..MaxVersion]
      /\ stored \in [Udids -> Versions] /\ runs \in [Udids -> Versions]
  BY FirmwareAssumption DEF Init, Versions
<1>3. /\ tokens \in [Times -> Udids \cup {None}] /\ until \in [Times -> Nat \cup {Never}]
      /\ told \in [Udids -> Times \cup {None}] /\ given \in [Times -> SUBSET Udids]
  BY DEF Init
<1>4. pipe \in Seq(Command)
  BY Nothing DEF Init
<1> QED BY <1>0, <1>1, <1>2, <1>3, <1>4 DEF TypeOK

LEMMA TypesBuilds ==
  ASSUME TypeOK,
         \/ \E d \in Udids, v \in Versions : Built(d, v)
         \/ Notify
  PROVE  TypeOK'
<1>1. ASSUME NEW d \in Udids, NEW v \in Versions, Built(d, v) PROVE TypeOK'
  <2>1. [udid |-> d, version |-> v] \in Notice
    BY DEF Notice
  <2>2. v \in 0..MaxVersion
    BY FirmwareAssumption DEF Versions
  <2> QED BY <1>1, <2>1, <2>2 DEF Built, TypeOK, redis, device
<1>2. ASSUME NEW n \in notices, Unpublished(n) PROVE TypeOK'
  BY <1>2 DEF Unpublished, TypeOK, disk, redis, device
<1>3. ASSUME NEW n \in notices, Publish(n) PROVE TypeOK'
  <2>1. n.udid \in Udids /\ n.version \in 0..MaxVersion
    BY FirmwareAssumption DEF TypeOK, Notice, Versions
  <2> QED BY <1>3, <2>1 DEF Publish, TypeOK, redis, device
<1> QED BY <1>1, <1>2, <1>3 DEF Notify

LEMMA CheckInIs ==
  ASSUME NEW d, NEW env, CheckIn(d, env)
  PROVE  /\ pipe' = pipe \/ pipe' = Append(pipe, StoreOTT(d))
         /\ waits' \in {waits, waits \cup {d}}
         /\ told' \in {told, [told EXCEPT ![d] = None]}
         /\ UNCHANGED <<now, disk, couch, redis, calls, runs, mixed, disturbed>>
BY Zenon DEF CheckIn

LEMMA TypesCheckIn ==
  ASSUME TypeOK, NEW d \in Udids, NEW env \in BOOLEAN, CheckIn(d, env)
  PROVE  TypeOK'
<1>0. /\ pipe' = pipe \/ pipe' = Append(pipe, StoreOTT(d))
      /\ waits' \in {waits, waits \cup {d}}
      /\ told' \in {told, [told EXCEPT ![d] = None]}
      /\ UNCHANGED <<now, disk, couch, redis, calls, runs, mixed, disturbed>>
  BY CheckInIs
<1>1. pipe' \in Seq(Command)
  BY <1>0, StoreOTTIs, PipeAppend DEF TypeOK
<1>2. waits' \in SUBSET Udids /\ told' \in [Udids -> Times \cup {None}]
  BY <1>0 DEF TypeOK
<1> QED BY <1>0, <1>1, <1>2 DEF TypeOK, disk, couch, redis

LEMMA TypesRequests ==
  ASSUME TypeOK, NEW d \in Udids, Download(d) \/ AskOTT(d) \/ GiveUp(d)
  PROVE  TypeOK'
<1>1. CASE Download(d)
  <2> DEFINE g == [op |-> "get", token |-> told[d], by |-> d]
  <2>1. told[d] \in Times
    BY <1>1 DEF Download, TypeOK
  <2>2. g \in Command /\ pipe' = Append(pipe, g)
    BY <1>1, <2>1, CommandTypes DEF Download
  <2> HIDE DEF g
  <2>3. pipe' \in Seq(Command)
    BY <2>2, PipeAppend
  <2> QED BY <1>1, <2>3 DEF Download, TypeOK, disk, couch, redis, device
<1>2. CASE AskOTT(d)
  <2>1. pipe' \in Seq(Command)
    BY <1>2, StoreOTTIs, PipeAppend DEF AskOTT
  <2> QED BY <1>2, <2>1 DEF AskOTT, TypeOK, disk, couch, redis, device
<1>3. CASE GiveUp(d)
  BY <1>3 DEF GiveUp, TypeOK, disk, couch, redis, device
<1> QED BY <1>1, <1>2, <1>3

LEMMA TypesAsk ==
  ASSUME TypeOK, NEW a \in Asks, Ask(a)
  PROVE  TypeOK'
<1>1. a \in [udid : Udids, forced : BOOLEAN, ott : BOOLEAN, env : BOOLEAN]
  BY FirmwareAssumption
<1>2. HasUpdate(a.udid, stored[a.udid], a.env) \in BOOLEAN
  BY <1>1 DEF HasUpdate
<1>3. [udid |-> a.udid, forced |-> a.forced, ott |-> a.ott,
       update |-> HasUpdate(a.udid, stored[a.udid], a.env)] \in FirmwareCall
  BY <1>1, <1>2 DEF FirmwareCall
<1>4. calls' \in SUBSET FirmwareCall /\ waits' \in SUBSET Udids
  BY <1>1, <1>3 DEF Ask, TypeOK
<1> QED BY <1>4 DEF Ask, TypeOK, disk, couch, redis, device

LEMMA ServeTypes ==
  ASSUME TypeOK, NEW d \in Udids, NEW x \in Udids, Serve(d, x)
  PROVE  /\ waits' \in SUBSET Udids /\ runs' \in [Udids -> Versions]
         /\ told' \in [Udids -> Times \cup {None}]
<1>1. Serves(x) => files[x] \in Versions
  BY FirmwareAssumption DEF Serves, HasPath, TypeOK, Versions
<1> QED BY <1>1 DEF Serve, TypeOK

(* What the answer to a request for firmware issues. *)
LEMMA FirmwarePathIs ==
  ASSUME TypeOK, NEW c \in calls, FirmwarePath(c)
  PROVE  /\ c.udid \in Udids
         /\ \/ pipe' = Append(pipe, StoreOTT(c.udid)) /\ UNCHANGED <<waits, told, runs>>
            \/ /\ Serve(c.udid, c.udid)
               /\ \/ pipe' = pipe
                  \/ /\ told[c.udid] \in Times
                     /\ pipe' = Append(pipe, Expire(told[c.udid], Hour, None))
            \/ Refuse(c.udid) /\ pipe' = pipe
<1>1. c.udid \in Udids
  BY DEF TypeOK, FirmwareCall
<1>2. told[c.udid] \in Times \cup {None}
  BY <1>1 DEF TypeOK
<1> QED BY <1>1, <1>2 DEF FirmwarePath

LEMMA TypesFirmwarePath ==
  ASSUME TypeOK, NEW c \in calls, FirmwarePath(c)
  PROVE  TypeOK'
<1> DEFINE d == c.udid
<1>0. d \in Udids
  BY FirmwarePathIs
<1>1. pipe' \in Seq(Command)
  <2>1. CASE pipe' = pipe
    BY <2>1 DEF TypeOK
  <2>2. CASE pipe' = Append(pipe, StoreOTT(d))
    BY <1>0, <2>2, StoreOTTIs, PipeAppend
  <2>3. CASE told[d] \in Times /\ pipe' = Append(pipe, Expire(told[d], Hour, None))
    <3>1. Expire(told[d], Hour, None) \in Command
      BY <2>3, ExpireIs
    <3> QED BY <2>3, <3>1, PipeAppend
  <2> QED BY <2>1, <2>2, <2>3, FirmwarePathIs
<1>2. /\ waits' \in SUBSET Udids /\ runs' \in [Udids -> Versions]
      /\ told' \in [Udids -> Times \cup {None}]
  <2>1. CASE Serve(d, d)
    BY <1>0, <2>1, ServeTypes
  <2>2. CASE Refuse(d)
    BY <2>2 DEF Refuse, TypeOK
  <2>3. CASE UNCHANGED <<waits, told, runs>>
    BY <2>3 DEF TypeOK
  <2> QED BY <2>1, <2>2, <2>3, FirmwarePathIs
<1> QED BY <1>1, <1>2 DEF FirmwarePath, TypeOK, disk, couch, redis

LEMMA TokenSetIs ==
  ASSUME TypeOK, TokenSet
  PROVE  LET cs == IF C.by = None THEN <<>> ELSE <<Expire(C.token, Day, C.by)>>
         IN  /\ cs \in Seq(Command) /\ Then(cs)
             /\ On(cs) = IF C.by = None THEN {} ELSE {Expire(C.token, Day, C.by)}
             /\ pipe # <<>> /\ C \in Command /\ C.op = "set"
             /\ C.token \in Times /\ C.by \in Udids \cup {None} /\ C.udid \in Udids
<1>1. pipe # <<>> /\ C \in Command /\ C.op = "set"
  BY DEF TokenSet, TypeOK, C
<1>2. C.token \in Times /\ C.by \in Udids \cup {None} /\ C.udid \in Udids
  BY <1>1, CommandFields
<1> DEFINE e == Expire(C.token, Day, C.by)
           cs == IF C.by = None THEN <<>> ELSE <<e>>
<1>3. e \in Command
  BY <1>2, ExpireIs
<1>4. Then(cs)
  BY DEF TokenSet
<1> HIDE DEF e
<1>5. <<e>> \in Seq(Command) /\ On(<<e>>) = {e}
  BY <1>3, OneCommand
<1>6. cs \in Seq(Command) /\ On(cs) = IF C.by = None THEN {} ELSE {e}
  BY <1>5, Nothing
<1> QED BY <1>1, <1>2, <1>4, <1>6 DEF e

LEMMA TypesTokenSet ==
  ASSUME TypeOK, TokenSet
  PROVE  TypeOK'
<1>1. /\ pipe # <<>> /\ C.token \in Times /\ C.udid \in Udids
      /\ \E cs \in Seq(Command) : Then(cs)
  BY TokenSetIs
<1>2. pipe' \in Seq(Command)
  BY <1>1, PipeThen
<1>3. /\ tokens' \in [Times -> Udids \cup {None}] /\ given' \in [Times -> SUBSET Udids]
      /\ until' \in [Times -> Nat \cup {Never}]
  BY <1>1 DEF TokenSet, TypeOK
<1> QED BY <1>2, <1>3 DEF TokenSet, TypeOK, disk, couch, device

LEMMA TokenExpiresIs ==
  ASSUME TypeOK, TokenExpires
  PROVE  /\ pipe # <<>> /\ C \in Command /\ C.op = "expire" /\ Then(<<>>)
         /\ C.token \in Times /\ C.for \in {Day, Hour}
         /\ C.by \in waits => C.by \in Udids /\ C.by # None
<1>1. pipe # <<>> /\ C \in Command /\ C.op = "expire"
  BY DEF TokenExpires, TypeOK, C
<1> QED BY <1>1, CommandFields, FirmwareAssumption DEF TokenExpires, TypeOK

LEMMA TypesTokenExpires ==
  ASSUME TypeOK, TokenExpires
  PROVE  TypeOK'
<1>1. pipe' \in Seq(Command)
  BY TokenExpiresIs, Nothing, PipeThen
<1>2. until' \in [Times -> Nat \cup {Never}]
  <2>1. now + C.for \in Nat
    BY TokenExpiresIs, FirmwareAssumption DEF TypeOK, Times
  <2> QED BY <2>1 DEF TokenExpires, TypeOK
<1>3. told' \in [Udids -> Times \cup {None}] /\ waits' \in SUBSET Udids
  BY TokenExpiresIs DEF TokenExpires, TypeOK
<1> QED BY <1>1, <1>2, <1>3 DEF TokenExpires, TypeOK, disk, couch

LEMMA TokenReadIs ==
  ASSUME TypeOK, TokenRead
  PROVE  /\ pipe # <<>> /\ C \in Command /\ C.op = "get" /\ C.token \in Times
         /\ tokens[C.token] \in Udids \cup {None}
         /\ C.by \in waits => C.by \in Udids /\ C.by # None
         /\ \E cs \in Seq(Command) :
              Then(cs) /\ On(cs) \subseteq {Expire(C.token, Hour, None)}
<1>1. pipe # <<>> /\ C \in Command /\ C.op = "get"
  BY DEF TokenRead, TypeOK, C
<1>2. /\ C.token \in Times /\ tokens[C.token] \in Udids \cup {None}
      /\ C.by \in waits => C.by \in Udids /\ C.by # None
  BY <1>1, CommandFields, FirmwareAssumption DEF TypeOK
<1> DEFINE e == Expire(C.token, Hour, None)
<1>3. e \in Command
  BY <1>2, ExpireIs
<1>4. Then(<<>>) \/ Then(<<e>>)
  BY DEF TokenRead
<1> HIDE DEF e
<1>5. <<e>> \in Seq(Command) /\ On(<<e>>) = {e}
  BY <1>3, OneCommand
<1>6. \E cs \in Seq(Command) : Then(cs) /\ On(cs) \subseteq {e}
  BY <1>4, <1>5, Nothing
<1> QED BY <1>1, <1>2, <1>6 DEF e

LEMMA TypesTokenRead ==
  ASSUME TypeOK, TokenRead
  PROVE  TypeOK'
<1>1. pipe' \in Seq(Command)
  BY TokenReadIs, PipeThen
<1>2. /\ waits' \in SUBSET Udids /\ runs' \in [Udids -> Versions]
      /\ told' \in [Udids -> Times \cup {None}] /\ mixed' \in SUBSET Times
  <2> DEFINE x == tokens[C.token]
  <2>1. CASE C.by \notin waits
    BY <2>1 DEF TokenRead, TypeOK
  <2>2. CASE C.by \in waits /\ x = None
    BY <2>2, TokenReadIs DEF TokenRead, TypeOK
  <2>3. CASE C.by \in waits /\ x # None
    <3>1. C.by \in Udids /\ x \in Udids /\ Serve(C.by, x) /\ C.token \in Times
      BY <2>3, TokenReadIs DEF TokenRead
    <3>2. mixed' \in SUBSET Times
      BY <2>3, <3>1 DEF TokenRead, TypeOK
    <3> HIDE DEF x
    <3> QED BY <3>1, <3>2, ServeTypes
  <2> QED BY <2>1, <2>2, <2>3
<1> QED BY <1>1, <1>2 DEF TokenRead, TypeOK, disk, couch

LEMMA TypesTick ==
  ASSUME TypeOK, Tick
  PROVE  TypeOK'
<1>1. now' \in Times
  BY FirmwareAssumption DEF Tick, TypeOK, Times
<1>2. tokens' \in [Times -> Udids \cup {None}] /\ until' \in [Times -> Nat \cup {Never}]
  BY DEF Tick, TypeOK
<1> QED BY <1>1, <1>2 DEF Tick, TypeOK, disk, couch, device

LEMMA TypesCrash ==
  ASSUME TypeOK, Crash
  PROVE  TypeOK'
BY PipeCrash DEF Crash, TypeOK, disk, redis, device

LEMMA TypesStep == TypeOK /\ [Next]_vars => TypeOK'
<1> SUFFICES ASSUME TypeOK, [Next]_vars PROVE TypeOK'
  OBVIOUS
<1>1. CASE Redis
  BY <1>1, TypesTokenSet, TypesTokenExpires, TypesTokenRead DEF Redis
<1>2. CASE Notify \/ \E d \in Udids, v \in Versions : Built(d, v)
  BY <1>2, TypesBuilds
<1>3. CASE Tick \/ Crash
  BY <1>3, TypesTick, TypesCrash
<1>4. ASSUME NEW d \in Udids, Answered(d) PROVE TypeOK'
  BY <1>4, TypesFirmwarePath DEF Answered
<1>5. ASSUME NEW d \in Udids, Download(d) \/ AskOTT(d) \/ GiveUp(d) PROVE TypeOK'
  BY <1>5, TypesRequests
<1>6. ASSUME NEW d \in Udids, NEW env \in BOOLEAN, CheckIn(d, env) PROVE TypeOK'
  BY <1>6, TypesCheckIn
<1>7. ASSUME NEW a \in Asks, Ask(a) PROVE TypeOK'
  BY <1>7, TypesAsk
<1>8. CASE UNCHANGED vars
  BY <1>8 DEF vars, TypeOK
<1> QED BY <1>1, <1>2, <1>3, <1>4, <1>5, <1>6, <1>7, <1>8 DEF Next

(* lib/thinx/device.js:50-58, 1145-1172, lib/thinx/notifier.js.  The        *)
(* variables keep their types, with any devices, builds, times and tokens.  *)
THEOREM FirmwareTypeCorrect == Spec => []TypeOK
BY TypesInit, TypesStep, PTL DEF Spec
-----------------------------------------------------------------------------
(* What is neither an answer of Redis, nor time, nor a crash leaves tokens  *)
(* alone, tells no device of one, and issues at most one command.           *)

Issued(c) ==
  /\ c \in Command
  /\ c.op = "set" => c.by = c.udid /\ c.by # None
  /\ c.op = "expire" => c.by = None
  /\ c.op = "get" => c.by \in Udids /\ told[c.by] = c.token /\ c.token # None

Issues ==
  /\ UNCHANGED <<tokens, until, given, mixed, disturbed>>
  /\ \A d \in Udids : told'[d] = told[d] \/ told'[d] = None
  /\ \/ On(pipe') = On(pipe)
     \/ \E c : Issued(c) /\ On(pipe') = On(pipe) \cup {c}

LEMMA IssuesBuilds ==
  ASSUME TypeOK,
         \/ \E d \in Udids, v \in Versions : Built(d, v)
         \/ Notify
  PROVE  Issues
BY DEF Built, Notify, Unpublished, Publish, redis, device, Issues

LEMMA IssuesOTT ==
  ASSUME TypeOK, NEW d \in Udids, pipe' = Append(pipe, StoreOTT(d))
  PROVE  Issued(StoreOTT(d)) /\ On(pipe') = On(pipe) \cup {StoreOTT(d)}
BY StoreOTTIs, PipeAppend DEF Issued

LEMMA IssuesCheckIn ==
  ASSUME TypeOK, NEW d \in Udids, NEW env \in BOOLEAN, CheckIn(d, env)
  PROVE  Issues
<1>1. /\ pipe' = pipe \/ pipe' = Append(pipe, StoreOTT(d))
      /\ told' \in {told, [told EXCEPT ![d] = None]}
      /\ UNCHANGED <<redis, mixed, disturbed>>
  BY CheckInIs
<1>2. \A e \in Udids : told'[e] = told[e] \/ told'[e] = None
  BY <1>1 DEF TypeOK
<1>3. CASE pipe' = pipe
  BY <1>1, <1>2, <1>3 DEF Issues, redis
<1>4. CASE pipe' = Append(pipe, StoreOTT(d))
  BY <1>1, <1>2, <1>4, IssuesOTT DEF Issues, redis
<1> QED BY <1>1, <1>3, <1>4

LEMMA IssuesRequests ==
  ASSUME TypeOK, NEW d \in Udids, Download(d) \/ AskOTT(d) \/ GiveUp(d)
  PROVE  Issues
<1>1. CASE Download(d)
  <2> DEFINE g == [op |-> "get", token |-> told[d], by |-> d]
  <2>1. told[d] \in Times /\ told[d] # None
    BY <1>1 DEF Download, TypeOK
  <2>2. g \in Command /\ pipe' = Append(pipe, g)
    BY <1>1, <2>1, CommandTypes DEF Download
  <2>3. Issued(g)
    BY <2>1, <2>2 DEF Issued
  <2> HIDE DEF g
  <2>4. On(pipe') = On(pipe) \cup {g}
    BY <2>2, PipeAppend
  <2> QED BY <1>1, <2>3, <2>4 DEF Download, redis, device, Issues
<1>2. CASE AskOTT(d)
  BY <1>2, IssuesOTT DEF AskOTT, redis, device, Issues
<1>3. CASE GiveUp(d)
  BY <1>3 DEF GiveUp, redis, device, Issues
<1> QED BY <1>1, <1>2, <1>3

LEMMA IssuesFirmwarePath ==
  ASSUME TypeOK, NEW c \in calls, FirmwarePath(c)
  PROVE  Issues
<1> DEFINE d == c.udid
<1>0. d \in Udids /\ UNCHANGED <<redis, mixed, disturbed>>
  BY FirmwarePathIs DEF FirmwarePath
<1>1. CASE pipe' = Append(pipe, StoreOTT(d)) /\ UNCHANGED <<waits, told, runs>>
  BY <1>0, <1>1, IssuesOTT DEF redis, Issues
<1>2. CASE Serve(d, d)
  <2>1. \A e \in Udids : told'[e] = told[e] \/ told'[e] = None
    BY <1>2 DEF Serve, TypeOK
  <2>2. CASE pipe' = pipe
    BY <1>0, <2>1, <2>2 DEF redis, Issues
  <2>3. CASE told[d] \in Times /\ pipe' = Append(pipe, Expire(told[d], Hour, None))
    <3> DEFINE e == Expire(told[d], Hour, None)
    <3>1. e \in Command /\ e.op = "expire" /\ e.by = None
      BY <2>3, ExpireIs
    <3>2. Issued(e)
      BY <3>1 DEF Issued
    <3> HIDE DEF e
    <3>3. On(pipe') = On(pipe) \cup {e}
      BY <2>3, <3>1, PipeAppend DEF e
    <3> QED BY <1>0, <2>1, <3>2, <3>3 DEF redis, Issues
  <2>4. CASE pipe' = Append(pipe, StoreOTT(d))
    BY <1>0, <2>1, <2>4, IssuesOTT DEF redis, Issues
  <2> QED BY <2>2, <2>3, <2>4, FirmwarePathIs
<1>3. CASE Refuse(d) /\ pipe' = pipe
  BY <1>0, <1>3 DEF Refuse, redis, Issues
<1> QED BY <1>1, <1>2, <1>3, FirmwarePathIs

LEMMA Steps ==
  ASSUME TypeOK, [Next]_vars
  PROVE  TokenSet \/ TokenExpires \/ TokenRead \/ Tick \/ Crash \/ Issues
<1>1. ASSUME NEW d \in Udids, Answered(d) PROVE Issues
  BY <1>1, IssuesFirmwarePath DEF Answered
<1>2. ASSUME NEW d \in Udids, Download(d) \/ AskOTT(d) \/ GiveUp(d) PROVE Issues
  BY <1>2, IssuesRequests
<1>3. ASSUME NEW d \in Udids, NEW env \in BOOLEAN, CheckIn(d, env) PROVE Issues
  BY <1>3, IssuesCheckIn
<1>4. ASSUME NEW a \in Asks, Ask(a) PROVE Issues
  BY <1>4 DEF Ask, redis, device, Issues
<1>5. CASE UNCHANGED vars
  BY <1>5 DEF vars, Issues
<1> QED BY <1>1, <1>2, <1>3, <1>4, <1>5, IssuesBuilds DEF Next, Redis
-----------------------------------------------------------------------------
(* Tokens expire. *)

LEMMA TokensExpireIs ==
  TokensExpire <=>
    \A t \in Times : tokens[t] # None /\ until[t] = Never =>
      disturbed \/ \E c \in On(pipe) : c.op = "expire" /\ c.token = t
BY DEF TokensExpire, On

LEMMA TokensExpireNext ==
  ASSUME \A t \in Times : tokens'[t] # None /\ until'[t] = Never =>
           disturbed' \/ \E c \in On(pipe') : c.op = "expire" /\ c.token = t
  PROVE  TokensExpire'
BY DEF TokensExpire, On

LEMMA ExpiryIssues ==
  ASSUME TypeOK, ExpiryInv, Issues
  PROVE  ExpiryInv'
<1>1. On(pipe) \subseteq On(pipe')
  BY DEF Issues
<1>2. TokensExpire'
  BY <1>1, TokensExpireIs, TokensExpireNext DEF Issues, ExpiryInv
<1>3. \A c \in On(pipe') : c \in On(pipe) \/ (c.op = "set" => c.by # None)
  BY DEF Issues, Issued
<1>4. disturbed' = disturbed
  BY DEF Issues
<1>5. SetsOwned'
  BY <1>3, <1>4 DEF SetsOwned, ExpiryInv
<1> QED BY <1>2, <1>5 DEF ExpiryInv

LEMMA ExpiryTokenSet ==
  ASSUME TypeOK, ExpiryInv, TokenSet
  PROVE  ExpiryInv'
<1> DEFINE e == Expire(C.token, Day, C.by)
           cs == IF C.by = None THEN <<>> ELSE <<e>>
<1>1. /\ cs \in Seq(Command) /\ Then(cs) /\ On(cs) = IF C.by = None THEN {} ELSE {e}
      /\ pipe # <<>> /\ C.op = "set" /\ C.token \in Times /\ C.by \in Udids \cup {None}
  BY TokenSetIs
<1>2. e.op = "expire" /\ e.token = C.token
  BY DEF Expire
<1> HIDE DEF e, cs
<1>3. /\ C \in On(pipe) /\ On(pipe) \subseteq On(pipe') \cup {C}
      /\ On(pipe') \subseteq On(pipe) \cup On(cs) /\ On(cs) \subseteq On(pipe')
  BY <1>1, PipeThen
<1>4. /\ disturbed' = disturbed
      /\ \A t \in Times : t # C.token => tokens'[t] = tokens[t] /\ until'[t] = until[t]
  BY DEF TokenSet, TypeOK
<1>5. SetsOwned'
  <2> SUFFICES ASSUME ~disturbed, NEW c \in On(pipe'), c.op = "set" PROVE c.by # None
    BY <1>4 DEF SetsOwned
  <2> QED BY <1>1, <1>2, <1>3 DEF SetsOwned, ExpiryInv
<1>6. ASSUME NEW t \in Times, tokens'[t] # None, until'[t] = Never, ~disturbed
      PROVE  \E c \in On(pipe') : c.op = "expire" /\ c.token = t
  <2>1. CASE t = C.token
    <3>1. C.by # None
      BY <1>1, <1>3, <1>6 DEF SetsOwned, ExpiryInv
    <3>2. e \in On(pipe')
      BY <1>1, <1>3, <3>1
    <3> QED BY <1>2, <2>1, <3>2
  <2>2. CASE t # C.token
    <3>1. PICK c \in On(pipe) : c.op = "expire" /\ c.token = t
      BY <1>4, <1>6, <2>2, TokensExpireIs DEF ExpiryInv
    <3> QED BY <1>1, <1>3, <3>1
  <2> QED BY <2>1, <2>2
<1>7. TokensExpire'
  BY <1>4, <1>6, TokensExpireNext
<1> QED BY <1>5, <1>7 DEF ExpiryInv

LEMMA ExpiryTokenExpires ==
  ASSUME TypeOK, ExpiryInv, TokenExpires
  PROVE  ExpiryInv'
<1>1. /\ pipe # <<>> /\ C.op = "expire" /\ Then(<<>>) /\ C.token \in Times
      /\ C.for \in {Day, Hour}
  BY TokenExpiresIs
<1>2. On(pipe) \subseteq On(pipe') \cup {C} /\ On(pipe') \subseteq On(pipe)
  BY <1>1, Nothing, PipeThen
<1>3. now + C.for # Never
  BY <1>1, FirmwareAssumption DEF TypeOK, Times
<1>4. /\ tokens' = tokens /\ disturbed' = disturbed
      /\ until' = IF tokens[C.token] = None THEN until
                  ELSE [until EXCEPT ![C.token] = now + C.for]
  BY DEF TokenExpires
<1>5. SetsOwned'
  BY <1>2, <1>4 DEF SetsOwned, ExpiryInv
<1>6. ASSUME NEW t \in Times, tokens'[t] # None, until'[t] = Never, ~disturbed
      PROVE  \E c \in On(pipe') : c.op = "expire" /\ c.token = t
  <2>1. t # C.token /\ until[t] = Never
    BY <1>1, <1>3, <1>4, <1>6 DEF TypeOK
  <2>2. PICK c \in On(pipe) : c.op = "expire" /\ c.token = t
    BY <1>4, <1>6, <2>1, TokensExpireIs DEF ExpiryInv
  <2> QED BY <1>2, <2>1, <2>2
<1>7. TokensExpire'
  BY <1>4, <1>6, TokensExpireNext
<1> QED BY <1>5, <1>7 DEF ExpiryInv

LEMMA ExpiryTokenRead ==
  ASSUME TypeOK, ExpiryInv, TokenRead
  PROVE  ExpiryInv'
<1>1. PICK cs \in Seq(Command) :
        Then(cs) /\ On(cs) \subseteq {Expire(C.token, Hour, None)}
  BY TokenReadIs
<1>2. pipe # <<>> /\ C.op = "get"
  BY TokenReadIs
<1>3. /\ On(pipe) \subseteq On(pipe') \cup {C}
      /\ On(pipe') \subseteq On(pipe) \cup On(cs)
  BY <1>1, <1>2, PipeThen
<1>4. \A c \in On(cs) : c.op = "expire"
  BY <1>1 DEF Expire
<1>5. UNCHANGED <<tokens, until, disturbed>>
  BY DEF TokenRead
<1>6. SetsOwned'
  BY <1>3, <1>4, <1>5 DEF SetsOwned, ExpiryInv
<1>7. TokensExpire'
  BY <1>2, <1>3, <1>5, TokensExpireIs, TokensExpireNext DEF ExpiryInv
<1> QED BY <1>6, <1>7 DEF ExpiryInv

LEMMA ExpiryTick ==
  ASSUME TypeOK, ExpiryInv, Tick
  PROVE  ExpiryInv'
<1>1. pipe' = pipe /\ disturbed' = disturbed
  BY DEF Tick
<1>2. \A t \in Times : tokens'[t] = None \/ (tokens'[t] = tokens[t] /\ until'[t] = until[t])
  BY DEF Tick, TypeOK
<1>3. TokensExpire'
  BY <1>1, <1>2, TokensExpireIs, TokensExpireNext DEF ExpiryInv
<1> QED BY <1>1, <1>3 DEF ExpiryInv, SetsOwned

LEMMA ExpiryStep == TypeOK /\ ExpiryInv /\ [Next]_vars => ExpiryInv'
<1> SUFFICES ASSUME TypeOK, ExpiryInv, [Next]_vars PROVE ExpiryInv'
  OBVIOUS
<1>1. CASE Crash
  BY <1>1 DEF Crash, ExpiryInv, SetsOwned, TokensExpire
<1> QED BY <1>1, Steps, ExpiryIssues, ExpiryTokenSet, ExpiryTokenExpires,
           ExpiryTokenRead, ExpiryTick

(* lib/thinx/device.js:50-58, 192.  A token without an expiry has its       *)
(* EXPIRE on the way, unless the process has exited: whoever stores a token *)
(* waits for that, and each SET of the same second is followed by an EXPIRE *)
(* of its own.                                                              *)
THEOREM FirmwareTokensExpire == Spec => []TokensExpire
<1>1. Init => TypeOK /\ ExpiryInv
  BY TypesInit, Nothing DEF Init, ExpiryInv, SetsOwned, TokensExpire
<1>2. TypeOK /\ ExpiryInv /\ [Next]_vars => (TypeOK /\ ExpiryInv)'
  BY TypesStep, ExpiryStep
<1>3. ExpiryInv => TokensExpire
  BY DEF ExpiryInv
<1> QED BY <1>1, <1>2, <1>3, PTL DEF Spec
-----------------------------------------------------------------------------
(* A device gets its own firmware. *)

(* Tokens are never taken back from those they were stored for.             *)
LEMMA SharedStays ==
  ASSUME \A t \in Times : given[t] \subseteq given'[t]
  PROVE  Shared \subseteq Shared'
BY DEF Shared

LEMMA OwnIssues ==
  ASSUME TypeOK, OwnInv, Issues
  PROVE  OwnInv'
<1>1. UNCHANGED <<tokens, given, mixed>>
  BY DEF Issues
<1>2. TokensGiven' /\ ServedIsOwn'
  BY <1>1 DEF OwnInv, TokensGiven, ServedIsOwn, Shared
<1>3. ToldGiven'
  BY <1>1 DEF OwnInv, ToldGiven, Issues
<1>4. PipeGiven'
  <2>1. CASE On(pipe') = On(pipe)
    BY <1>1, <2>1 DEF OwnInv, PipeGiven
  <2>2. ASSUME NEW c, Issued(c), On(pipe') = On(pipe) \cup {c} PROVE PipeGiven'
    <3>1. c.op \in {"set", "expire", "get"}
      BY <2>2, CommandFields DEF Issued
    <3>2. c.by # None => IF c.op = "set" THEN c.by = c.udid ELSE c.by \in given[c.token]
      BY <2>2, <3>1 DEF Issued, OwnInv, ToldGiven
    <3> QED BY <1>1, <2>2, <3>2 DEF OwnInv, PipeGiven
  <2> QED BY <2>1, <2>2 DEF Issues
<1> QED BY <1>2, <1>3, <1>4 DEF OwnInv

LEMMA OwnTokenSet ==
  ASSUME TypeOK, OwnInv, TokenSet
  PROVE  OwnInv'
<1> DEFINE e == Expire(C.token, Day, C.by)
           cs == IF C.by = None THEN <<>> ELSE <<e>>
<1>1. /\ cs \in Seq(Command) /\ Then(cs) /\ On(cs) = IF C.by = None THEN {} ELSE {e}
      /\ pipe # <<>> /\ C.op = "set" /\ C.token \in Times /\ C.udid \in Udids
  BY TokenSetIs
<1>2. e.op = "expire" /\ e.token = C.token /\ e.by = C.by
  BY DEF Expire
<1> HIDE DEF e, cs
<1>3. C \in On(pipe) /\ On(pipe') \subseteq On(pipe) \cup On(cs)
  BY <1>1, PipeThen
<1>4. /\ tokens' = [tokens EXCEPT ![C.token] = C.udid]
      /\ given' = [given EXCEPT ![C.token] = @ \cup {C.udid}]
      /\ told' = told /\ mixed' = mixed
  BY DEF TokenSet, device
<1>5. /\ \A t \in Times : given[t] \subseteq given'[t]
      /\ C.udid \in given'[C.token]
      /\ \A t \in Times : tokens'[t] = IF t = C.token THEN C.udid ELSE tokens[t]
  BY <1>1, <1>4 DEF TypeOK
<1>6. TokensGiven'
  BY <1>5 DEF OwnInv, TokensGiven
<1>7. ToldGiven'
  BY <1>4, <1>5 DEF OwnInv, ToldGiven, TypeOK
<1>8. PipeGiven'
  <2> SUFFICES ASSUME NEW c \in On(pipe'), c.by # None
               PROVE  IF c.op = "set" THEN c.by = c.udid ELSE c.by \in given'[c.token]
    BY DEF PipeGiven
  <2>1. CASE c \in On(pipe)
    <3>1. c.token \in Times
      BY <2>1, PipeTypes, CommandFields
    <3> QED BY <1>5, <2>1, <3>1 DEF OwnInv, PipeGiven
  <2>2. CASE c = e /\ C.by # None
    <3>1. C.by = C.udid
      BY <1>1, <1>3, <2>2 DEF OwnInv, PipeGiven
    <3> QED BY <1>2, <1>5, <2>2, <3>1
  <2> QED BY <1>1, <1>3, <2>1, <2>2
<1>9. ServedIsOwn'
  BY <1>4, <1>5, SharedStays DEF OwnInv, ServedIsOwn
<1> QED BY <1>6, <1>7, <1>8, <1>9 DEF OwnInv

LEMMA OwnTokenExpires ==
  ASSUME TypeOK, OwnInv, TokenExpires
  PROVE  OwnInv'
<1>1. /\ pipe # <<>> /\ C.op = "expire" /\ Then(<<>>)
      /\ C.by \in waits => C.by \in Udids /\ C.by # None
  BY TokenExpiresIs
<1>2. C \in On(pipe) /\ On(pipe') \subseteq On(pipe)
  BY <1>1, Nothing, PipeThen
<1>3. UNCHANGED <<tokens, given, mixed>>
  BY DEF TokenExpires
<1>4. C.by \in waits => C.by \in given[C.token]
  BY <1>1, <1>2 DEF OwnInv, PipeGiven
<1>5. ToldGiven'
  BY <1>1, <1>3, <1>4 DEF TokenExpires, OwnInv, ToldGiven, TypeOK
<1>6. TokensGiven' /\ PipeGiven' /\ ServedIsOwn'
  BY <1>2, <1>3 DEF OwnInv, TokensGiven, PipeGiven, ServedIsOwn, Shared
<1> QED BY <1>5, <1>6 DEF OwnInv

LEMMA OwnTokenRead ==
  ASSUME TypeOK, OwnInv, TokenRead
  PROVE  OwnInv'
<1> DEFINE x == tokens[C.token]
<1>1. PICK cs \in Seq(Command) :
        Then(cs) /\ On(cs) \subseteq {Expire(C.token, Hour, None)}
  BY TokenReadIs
<1>2. /\ pipe # <<>> /\ C.op = "get" /\ C.token \in Times
      /\ C.by \in waits => C.by \in Udids /\ C.by # None
  BY TokenReadIs
<1>3. C \in On(pipe) /\ On(pipe') \subseteq On(pipe) \cup On(cs)
  BY <1>1, <1>2, PipeThen
<1>4. \A c \in On(cs) : c.by = None
  BY <1>1 DEF Expire
<1>5. UNCHANGED <<tokens, given>>
  BY DEF TokenRead
<1>6. TokensGiven' /\ PipeGiven'
  BY <1>3, <1>4, <1>5 DEF OwnInv, TokensGiven, PipeGiven
<1>7. ToldGiven'
  <2>1. \A d \in Udids : told'[d] = told[d] \/ told'[d] = None
    BY <1>2 DEF TokenRead, Serve, TypeOK
  <2> QED BY <1>5, <2>1 DEF OwnInv, ToldGiven
<1>8. ServedIsOwn'
  <2>1. CASE mixed' = mixed
    BY <1>5, <2>1 DEF OwnInv, ServedIsOwn, Shared
  <2>2. CASE mixed' # mixed
    <3>1. /\ mixed' = mixed \cup {C.token} /\ x # C.by /\ x # None
          /\ C.by \in waits
      BY <2>2 DEF TokenRead
    <3>2. x \in given[C.token] /\ C.by \in given[C.token]
      BY <1>2, <1>3, <3>1 DEF OwnInv, TokensGiven, PipeGiven
    <3>3. C.token \in Shared
      BY <1>2, <3>1, <3>2 DEF Shared
    <3> QED BY <1>5, <3>1, <3>3 DEF OwnInv, ServedIsOwn, Shared
  <2> QED BY <2>1, <2>2
<1> QED BY <1>6, <1>7, <1>8 DEF OwnInv

LEMMA OwnTick ==
  ASSUME TypeOK, OwnInv, Tick
  PROVE  OwnInv'
<1>1. UNCHANGED <<pipe, told, given, mixed>>
  BY DEF Tick, device
<1>2. \A t \in Times : tokens'[t] = None \/ tokens'[t] = tokens[t]
  BY DEF Tick, TypeOK
<1> QED BY <1>1, <1>2 DEF OwnInv, TokensGiven, ToldGiven, PipeGiven, ServedIsOwn, Shared

LEMMA OwnCrash ==
  ASSUME TypeOK, OwnInv, Crash
  PROVE  OwnInv'
<1>1. UNCHANGED <<tokens, told, given, mixed>>
  BY DEF Crash, redis, device
<1>2. PipeGiven'
  BY PipeCrash DEF PipeGiven
<1> QED BY <1>1, <1>2 DEF OwnInv, TokensGiven, ToldGiven, ServedIsOwn, Shared

LEMMA OwnStep == TypeOK /\ OwnInv /\ [Next]_vars => OwnInv'
BY Steps, OwnIssues, OwnTokenSet, OwnTokenExpires, OwnTokenRead, OwnTick, OwnCrash

(* lib/thinx/device.js:52, 1145-1172.  A device gets the firmware of        *)
(* another only by a token that was stored for two devices: whoever a token *)
(* holds, whoever was told of it and whoever asks with it are among those   *)
(* it was stored for, whatever overwrites, renews or expires it.            *)
THEOREM FirmwareServedIsOwn == Spec => []ServedIsOwn
<1>1. Init => TypeOK /\ OwnInv
  BY TypesInit, Nothing
     DEF Init, OwnInv, TokensGiven, ToldGiven, PipeGiven, ServedIsOwn
<1>2. TypeOK /\ OwnInv /\ [Next]_vars => (TypeOK /\ OwnInv)'
  BY TypesStep, OwnStep
<1>3. OwnInv => ServedIsOwn
  BY DEF OwnInv
<1> QED BY <1>1, <1>2, <1>3, PTL DEF Spec
=============================================================================
