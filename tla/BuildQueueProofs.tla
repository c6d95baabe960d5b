--------------------------- MODULE BuildQueueProofs ---------------------------
(* Proofs about BuildQueue, for every value of its constants. *)
EXTENDS BuildQueue, FiniteSetTheorems, TLAPS

(* The commands in a pipe. *)
On(p) == {p[i] : i \in 1..Len(p)}

LEMMA OnAppend ==
  ASSUME NEW S, NEW p \in Seq(S), NEW x \in S
  PROVE  On(Append(p, x)) = On(p) \cup {x}
<1> DEFINE q == Append(p, x)
<1>1. Len(q) = Len(p) + 1 /\ q[Len(p) + 1] = x
  OBVIOUS
<1>2. \A i \in 1..Len(p) : q[i] = p[i]
  OBVIOUS
<1>3. On(p) \subseteq On(q) /\ x \in On(q)
  BY <1>1, <1>2 DEF On
<1>4. ASSUME NEW i \in 1..Len(q) PROVE q[i] \in On(p) \cup {x}
  BY <1>1, <1>2 DEF On
<1> QED BY <1>3, <1>4 DEF On

LEMMA TailIndex ==
  ASSUME NEW S, NEW p \in Seq(S), p # <<>>
  PROVE  /\ Len(p) \in Nat \ {0} /\ p[1] = Head(p)
         /\ Len(Tail(p)) = Len(p) - 1
         /\ \A i \in 1..Len(Tail(p)) : Tail(p)[i] = p[i + 1]
OBVIOUS

LEMMA OnTail ==
  ASSUME NEW S, NEW p \in Seq(S), p # <<>>, NEW x \in On(p), x # Head(p)
  PROVE  x \in On(Tail(p))
<1>1. PICK i \in 1..Len(p) : p[i] = x
  BY DEF On
<1>2. i # 1 /\ i - 1 \in 1..Len(Tail(p))
  BY <1>1, TailIndex
<1>3. Tail(p)[i - 1] = x
  BY <1>1, <1>2, TailIndex
<1> QED BY <1>2, <1>3 DEF On
-----------------------------------------------------------------------------
(* The head of a non-empty pipe is a command, and so is its tail a pipe. *)
LEMMA HeadTail ==
  ASSUME TypeOK, pipe # <<>>
  PROVE  /\ Head(pipe) \in Command
         /\ Tail(pipe) \in Seq(Command)
BY DEF TypeOK

LEMMA HeadOp ==
  ASSUME TypeOK, pipe # <<>>
  PROVE  /\ Head(pipe).op = "set" => Head(pipe) \in SetCmd
         /\ Head(pipe).op = "expire" => Head(pipe) \in ExpireCmd
         /\ Head(pipe).op = "del" => Head(pipe) \in DelCmd
         /\ Head(pipe).op = "scan" => Head(pipe) \in ScanCmd
BY HeadTail DEF Command, SetCmd, ExpireCmd, DelCmd, ScanCmd

LEMMA CommandTypes ==
  ASSUME NEW u \in Udids
  PROVE  /\ \A e \in Entry : Set(u, e) \in Command
         /\ Expire(u) \in Command
         /\ Del(u) \in Command
BY DEF Set, Expire, Del, Command, SetCmd, ExpireCmd, DelCmd

LEMMA EntryTypes ==
  /\ Absent \in Entry /\ Errored \in Entry
  /\ \A r \in Requests : Waiting(r) \in Entry /\ Running(r) \in Entry
BY DEF Absent, Errored, Waiting, Running, Entry

(* What Redis holds after a prefix of well-typed commands is an entry. *)
LEMMA EntryAfterType ==
  ASSUME TypeOK, NEW p \in Seq(Command), NEW n \in 0..Len(p), NEW u \in Udids
  PROVE  EntryAfter(p, n, u) \in Entry
<1>1. CASE \E i \in 1..n : IsLast(i, Writes(p, n, u))
  <2> DEFINE i == CHOOSE i \in 1..n : IsLast(i, Writes(p, n, u))
  <2>1. i \in 1..n /\ IsLast(i, Writes(p, n, u))
    BY <1>1
  <2>2. p[i] \in Command /\ p[i].op \in {"set", "del"}
    BY <2>1 DEF IsLast, Writes
  <2>3. Written(p[i]) \in Entry
    BY <2>2, EntryTypes DEF Written, Command, SetCmd, ExpireCmd, DelCmd, ScanCmd
  <2> QED BY <1>1, <2>3 DEF EntryAfter
<1>2. CASE ~\E i \in 1..n : IsLast(i, Writes(p, n, u))
  BY <1>2 DEF EntryAfter, TypeOK
<1> QED BY <1>1, <1>2

LEMMA TtlAfterType == \A p, n, u : TtlAfter(p, n, u) \in BOOLEAN
BY DEF TtlAfter

LEMMA ExitType ==
  ASSUME TypeOK, NEW p \in Seq(Command), Exit(p), UNCHANGED <<used, started>>
  PROVE  TypeOK'
<1>1. PICK n \in 0..Len(p) :
        /\ store' = [u \in Udids |-> EntryAfter(p, n, u)]
        /\ ttl' = [u \in Udids |-> TtlAfter(p, n, u)]
  BY DEF Exit
<1>2. store' \in [Udids -> Entry]
  BY <1>1, EntryAfterType
<1>3. ttl' \in [Udids -> BOOLEAN]
  BY <1>1, TtlAfterType
<1> QED BY <1>2, <1>3 DEF Exit, TypeOK

(* The rest of a scan is a pipe again. *)
LEMMA AnsweredType ==
  ASSUME TypeOK, NEW u \in Udids, Getting(u), NEW l \in Int
  PROVE  Answered(u, l) \in Seq(Command)
<1>1. pipe # <<>> /\ Head(pipe) \in ScanCmd /\ Tail(pipe) \in Seq(Command)
  BY HeadOp, HeadTail DEF Getting, Answering
<1> DEFINE h == [Head(pipe) EXCEPT !.keys = @ \ {u}, !.limit = l]
<1>2. h \in ScanCmd
  BY <1>1 DEF ScanCmd
<1>3. <<h>> \in Seq(Command)
  BY <1>2 DEF Command
<1>4. <<h>> \o Tail(pipe) \in Seq(Command)
  BY <1>1, <1>3
<1> QED BY <1>1, <1>4 DEF Answered

LEMMA LimitType ==
  ASSUME TypeOK, NEW u, Getting(u)
  PROVE  Limit \in Int /\ Limit - 1 \in Int
<1>1. Head(pipe) \in ScanCmd
  BY HeadOp DEF Getting, Answering
<1> QED BY <1>1 DEF Limit, ScanCmd

LEMMA RejectType ==
  ASSUME TypeOK, NEW p \in Seq(Command), Reject(p)
  PROVE  TypeOK'
<1>1. CASE RejectionExits
  BY <1>1, ExitType DEF Reject
<1>2. CASE ~RejectionExits
  BY <1>2 DEF Reject, TypeOK
<1> QED BY <1>1, <1>2

LEMMA CallbackType ==
  ASSUME TypeOK, NEW b \in Slots, ~FreeSlot(b), BuildCallback(b)
  PROVE  /\ pipe' \in Seq(Command)
         /\ workers' \in [Sockets -> {"absent", "idle", "running"}]
         /\ builds' \in [Slots -> Build \cup {None}]
<1>1. builds[b] \in Build
  BY DEF FreeSlot, TypeOK
<1>2. Del(builds[b].udid) \in Command
  BY <1>1, CommandTypes DEF Build
<1>3. pipe' \in Seq(Command)
  BY <1>2 DEF BuildCallback, TypeOK
<1>4. workers' \in [Sockets -> {"absent", "idle", "running"}]
  BY DEF BuildCallback, TypeOK
<1>5. builds' \in [Slots -> Build \cup {None}]
  BY DEF BuildCallback, TypeOK
<1> QED BY <1>3, <1>4, <1>5

LEMMA LaunchType ==
  ASSUME TypeOK, NEW b \in Slots, NEW r \in Requests, NEW u \in Udids,
         NEW s \in Sockets, NEW q \in BOOLEAN, Launch(b, r, u, s, q)
  PROVE  /\ builds' \in [Slots -> Build \cup {None}]
         /\ started' \in SUBSET Requests
<1>1. [req |-> r, udid |-> u, worker |-> s, queued |-> q] \in Build
  BY DEF Build
<1> QED BY <1>1 DEF Launch, TypeOK

LEMMA ForgetType ==
  ASSUME TypeOK, NEW s \in Sockets, Forget(s)
  PROVE  builds' \in [Slots -> Build \cup {None}]
<1>1. ASSUME NEW b \in Slots, ~FreeSlot(b)
      PROVE  [builds[b] EXCEPT !.worker = None] \in Build
  BY <1>1 DEF FreeSlot, Build, TypeOK
<1> QED BY <1>1 DEF Forget, FreeSlot, TypeOK

LEMMA FindNextType ==
  ASSUME TypeOK, NEW by \in {"loop", "poll"}, FindNext(by)
  PROVE  TypeOK'
<1>1. Keys \in SUBSET Udids
  BY DEF Keys
<1>2. MaxRunningBuilds \in Int
  BY QueueAssumption
<1>3. [op |-> "scan", keys |-> Keys, limit |-> MaxRunningBuilds, by |-> by]
        \in Command
  BY <1>1, <1>2 DEF Command, ScanCmd
<1> QED BY <1>3 DEF FindNext, TypeOK

(* A waiting entry stands for a request. *)
LEMMA WaitingEntry ==
  ASSUME NEW e \in Entry, e.status = "waiting"
  PROVE  e.req \in Requests /\ e = Waiting(e.req)
BY DEF Entry, Absent, Errored, Waiting, Running

LEMMA EligibleType ==
  ASSUME TypeOK, NEW u \in Udids, Eligible(u)
  PROVE  /\ store[u].req \in Requests
         /\ store[u] = Waiting(store[u].req)
BY DEF Eligible, TypeOK, Entry, Absent, Errored, Waiting, Running

(* Type correctness, one step per action. *)
LEMMA TypeStep == TypeOK /\ [Next]_vars => TypeOK'
<1> SUFFICES ASSUME TypeOK, [Next]_vars PROVE TypeOK'
  OBVIOUS
<1>1. CASE RedisSet
  <2>1. pipe # <<>> /\ Head(pipe) \in SetCmd /\ Tail(pipe) \in Seq(Command)
    BY <1>1, HeadOp, HeadTail DEF RedisSet, Answering
  <2>2. pipe' \in Seq(Command)
    BY <1>1, <2>1, CommandTypes DEF RedisSet, SetCmd
  <2>3. store' \in [Udids -> Entry] /\ ttl' \in [Udids -> BOOLEAN]
    BY <1>1, <2>1 DEF RedisSet, SetCmd, TypeOK
  <2> QED BY <1>1, <2>2, <2>3 DEF RedisSet, TypeOK
<1>2. CASE RedisExpire
  <2>1. pipe # <<>> /\ Head(pipe) \in ExpireCmd /\ Tail(pipe) \in Seq(Command)
    BY <1>2, HeadOp, HeadTail DEF RedisExpire, Answering
  <2>2. ttl' \in [Udids -> BOOLEAN]
    BY <1>2, <2>1 DEF RedisExpire, ExpireCmd, TypeOK
  <2> QED BY <1>2, <2>1, <2>2 DEF RedisExpire, TypeOK
<1>3. CASE RedisDel
  <2>1. pipe # <<>> /\ Head(pipe) \in DelCmd /\ Tail(pipe) \in Seq(Command)
    BY <1>3, HeadOp, HeadTail DEF RedisDel, Answering
  <2>2. store' \in [Udids -> Entry] /\ ttl' \in [Udids -> BOOLEAN]
    BY <1>3, <2>1, EntryTypes DEF RedisDel, DelCmd, TypeOK
  <2> QED BY <1>3, <2>1, <2>2 DEF RedisDel, TypeOK
<1>4. ASSUME NEW u \in Udids, GetVanished(u) PROVE TypeOK'
  BY <1>4, AnsweredType, LimitType, RejectType DEF GetVanished
<1>5. ASSUME NEW u \in Udids, GetRunning(u) PROVE TypeOK'
  BY <1>5, AnsweredType, LimitType DEF GetRunning, TypeOK
<1>6. ASSUME NEW u \in Udids, GetSkipped(u) PROVE TypeOK'
  BY <1>6, AnsweredType, LimitType DEF GetSkipped, TypeOK
<1>7. ASSUME NEW u \in Udids, RunNext(u) PROVE TypeOK'
  <2> DEFINE r == store[u].req
  <2>1. r \in Requests
    BY <1>7, EligibleType DEF RunNext
  <2>2. Set(u, Running(r)) \in Command
    BY <2>1, EntryTypes, CommandTypes
  <2>3. Answered(u, Limit - 1) \in Seq(Command)
    BY <1>7, AnsweredType, LimitType DEF RunNext
  <2>4. pipe' \in Seq(Command)
    BY <1>7, <2>2, <2>3 DEF RunNext
  <2>5. PICK s \in Sockets, b \in Slots :
          /\ workers' = [workers EXCEPT ![s] = "running"]
          /\ Launch(b, r, u, s, TRUE)
    BY <1>7 DEF RunNext
  <2>6. builds' \in [Slots -> Build \cup {None}] /\ started' \in SUBSET Requests
    BY <2>1, <2>5, LaunchType
  <2> QED BY <1>7, <2>4, <2>5, <2>6 DEF RunNext, TypeOK
<1>8. ASSUME NEW u \in Udids, RunNextWithoutWorker(u) PROVE TypeOK'
  <2>1. Set(u, Errored) \in Command
    BY EntryTypes, CommandTypes
  <2>2. Answered(u, Limit - 1) \in Seq(Command)
    BY <1>8, AnsweredType, LimitType DEF RunNextWithoutWorker
  <2> QED BY <1>8, <2>1, <2>2 DEF RunNextWithoutWorker, TypeOK
<1>9. ASSUME NEW u \in Udids, RunNextForPoll(u) PROVE TypeOK'
  <2>1. Set(u, Running(store[u].req)) \in Command
    BY <1>9, EligibleType, EntryTypes, CommandTypes DEF RunNextForPoll
  <2>2. Answered(u, Limit - 1) \in Seq(Command)
    BY <1>9, AnsweredType, LimitType DEF RunNextForPoll
  <2>3. Append(Answered(u, Limit - 1), Set(u, Running(store[u].req)))
          \in Seq(Command)
    BY <2>1, <2>2
  <2> QED BY <1>9, <2>3, RejectType DEF RunNextForPoll
<1>10. CASE Loop
  BY <1>10, FindNextType DEF Loop
<1>11. ASSUME NEW s \in Sockets, Poll(s) PROVE TypeOK'
  BY <1>11, FindNextType DEF Poll
<1>12. CASE Crash
  BY <1>12, ExitType DEF Crash, TypeOK
<1>13. ASSUME NEW u \in Udids, TimeToLiveEnds(u) PROVE TypeOK'
  BY <1>13, EntryTypes DEF TimeToLiveEnds, TypeOK
<1>14. ASSUME NEW u \in Udids, NEW r \in Requests, BuildNow(u, r) PROVE TypeOK'
  <2>1. builds' \in [Slots -> Build \cup {None}] /\ started' \in SUBSET Requests
    BY <1>14, LaunchType DEF BuildNow
  <2> QED BY <1>14, <2>1 DEF BuildNow, TypeOK
<1>15. ASSUME NEW u \in Udids, NEW r \in Requests, Add(u, r) PROVE TypeOK'
  <2>1. Set(u, Waiting(r)) \in Command
    BY EntryTypes, CommandTypes
  <2> QED BY <1>15, <2>1 DEF Add, TypeOK
<1>16. ASSUME NEW b \in Slots, BuildRefused(b) PROVE TypeOK'
  BY <1>16, CallbackType DEF BuildRefused, TypeOK
<1>17. ASSUME NEW b \in Slots, BuildStarted(b) PROVE TypeOK'
  <2>1. builds[b].req \in Requests
    BY <1>17 DEF BuildStarted, FreeSlot, TypeOK, Build
  <2>2. remote' \in [Sockets -> SUBSET Requests]
    BY <1>17, <2>1 DEF BuildStarted, TypeOK
  <2> QED BY <1>17, <2>2, CallbackType DEF BuildStarted, TypeOK
<1>18. ASSUME NEW s \in Sockets, Register(s) PROVE TypeOK'
  BY <1>18 DEF Register, TypeOK
<1>19. ASSUME NEW s \in Sockets, NEW running \in {"idle", "running"},
              Hello(s, running)
       PROVE TypeOK'
  BY <1>19, ForgetType DEF Hello, TypeOK
<1>20. ASSUME NEW s \in Sockets, NEW r \in Requests, JobStatus(s, r)
       PROVE TypeOK'
  BY <1>20 DEF JobStatus, TypeOK
<1>21. ASSUME NEW s \in Sockets, Disconnect(s) PROVE TypeOK'
  BY <1>21, ForgetType DEF Disconnect, TypeOK
<1>22. CASE UNCHANGED vars
  BY <1>22 DEF vars, TypeOK
<1> QED
  BY <1>1, <1>2, <1>3, <1>4, <1>5, <1>6, <1>7, <1>8, <1>9, <1>10, <1>11,
     <1>12, <1>13, <1>14, <1>15, <1>16, <1>17, <1>18, <1>19, <1>20, <1>21,
     <1>22
  DEF Next, Redis

LEMMA TypeInit == Init => TypeOK
<1> SUFFICES ASSUME Init PROVE TypeOK
  OBVIOUS
<1>1. pipe \in Seq(Command)
  BY DEF Init
<1>2. store \in [Udids -> Entry] /\ ttl \in [Udids -> BOOLEAN]
  BY EntryTypes DEF Init
<1>3. /\ workers \in [Sockets -> {"absent", "idle", "running"}]
      /\ builds \in [Slots -> Build \cup {None}]
      /\ remote \in [Sockets -> SUBSET Requests]
  BY DEF Init
<1> QED BY <1>1, <1>2, <1>3 DEF Init, TypeOK

(* Every behaviour of the queue is well typed, for any numbers of devices,  *)
(* requests and workers, with polls, crashes and either reply of KEYS.      *)
THEOREM TypeCorrect == Spec => []TypeOK
BY TypeInit, TypeStep, PTL DEF Spec
-----------------------------------------------------------------------------
(* What answering a GET does to the pipe. *)

LEMMA AnsweredIndex ==
  ASSUME TypeOK, NEW u \in Udids, Getting(u), NEW l \in Int
  PROVE  \/ /\ Head(pipe).keys = {u}
            /\ Answered(u, l) = Tail(pipe)
         \/ /\ Head(pipe).keys # {u}
            /\ Len(Answered(u, l)) = Len(pipe)
            /\ Answered(u, l)[1].op = "scan"
            /\ Answered(u, l)[1].by = Head(pipe).by
            /\ Answered(u, l)[1].keys = Head(pipe).keys \ {u}
            /\ \A i \in 2..Len(pipe) : Answered(u, l)[i] = pipe[i]
<1>1. pipe # <<>> /\ Head(pipe) \in ScanCmd /\ Tail(pipe) \in Seq(Command)
  BY HeadOp, HeadTail DEF Getting, Answering
<1> DEFINE h == [Head(pipe) EXCEPT !.keys = @ \ {u}, !.limit = l]
<1>2. /\ h.op = "scan" /\ h.by = Head(pipe).by
      /\ h.keys = Head(pipe).keys \ {u} /\ h.limit = l
  BY <1>1 DEF ScanCmd
<1>3. h \in Command
  BY <1>1, <1>2 DEF ScanCmd, Command
<1> DEFINE q == <<h>> \o Tail(pipe)
<1> HIDE DEF h
<1>4. Len(q) = Len(pipe) /\ q[1] = h
  BY <1>1, <1>3, TailIndex DEF TypeOK
<1>5. \A i \in 2..Len(pipe) : q[i] = pipe[i]
  BY <1>1, <1>3, TailIndex DEF TypeOK
<1> QED BY <1>2, <1>4, <1>5 DEF Answered, h

(* An answered GET loses nothing but (at most) the scan itself. *)
LEMMA OnAnswered ==
  ASSUME TypeOK, NEW u \in Udids, Getting(u), NEW l \in Int,
         NEW x \in On(pipe), x.op # "scan"
  PROVE  x \in On(Answered(u, l))
<1>1. pipe # <<>> /\ Head(pipe) \in ScanCmd /\ pipe \in Seq(Command)
  BY HeadOp DEF Getting, Answering, TypeOK
<1>2. x # Head(pipe)
  BY <1>1 DEF ScanCmd
<1>3. CASE Answered(u, l) = Tail(pipe)
  BY <1>1, <1>2, <1>3, OnTail
<1>4. CASE /\ Len(Answered(u, l)) = Len(pipe)
           /\ \A i \in 2..Len(pipe) : Answered(u, l)[i] = pipe[i]
  <2>1. PICK i \in 1..Len(pipe) : pipe[i] = x
    BY DEF On
  <2>2. i \in 2..Len(pipe)
    BY <1>1, <1>2, <2>1, TailIndex
  <2> QED BY <1>4, <2>1, <2>2 DEF On
<1> QED BY <1>3, <1>4, AnsweredIndex
-----------------------------------------------------------------------------
(* A running entry always expires while the process lives.                  *)

(* An action that leaves the entries alone and loses no EXPIRE.             *)
LEMMA ExpireKept ==
  ASSUME RunningWillExpire,
         store' = store, ttl' = ttl, died' = died,
         \A v \in Udids : Expire(v) \in On(pipe) => Expire(v) \in On(pipe')
  PROVE  RunningWillExpire'
BY DEF RunningWillExpire, PipeSet, On

LEMMA ExpireOp ==
  ASSUME NEW v \in Udids
  PROVE  Expire(v).op = "expire" /\ Expire(v).udid = v
BY DEF Expire

(* An action that only appends to the pipe, or only answers a GET, or both. *)
LEMMA ExpireKeptByAppend ==
  ASSUME TypeOK, RunningWillExpire,
         store' = store, ttl' = ttl, died' = died,
         NEW c \in Command, pipe' = Append(pipe, c)
  PROVE  RunningWillExpire'
<1>1. On(pipe') = On(pipe) \cup {c}
  BY OnAppend DEF TypeOK
<1> QED BY <1>1, ExpireKept

LEMMA ExpireKeptByAnswer ==
  ASSUME TypeOK, RunningWillExpire,
         store' = store, ttl' = ttl, died' = died,
         NEW u \in Udids, Getting(u), NEW l \in Int,
         \/ pipe' = Answered(u, l)
         \/ \E c \in Command : pipe' = Append(Answered(u, l), c)
  PROVE  RunningWillExpire'
<1>1. Answered(u, l) \in Seq(Command)
  BY AnsweredType
<1>2. On(Answered(u, l)) \subseteq On(pipe')
  <2>1. CASE pipe' = Answered(u, l)
    BY <2>1
  <2>2. ASSUME NEW c \in Command, pipe' = Append(Answered(u, l), c)
        PROVE  On(Answered(u, l)) \subseteq On(pipe')
    BY <1>1, <2>2, OnAppend
  <2> QED BY <2>1, <2>2
<1>3. ASSUME NEW v \in Udids, Expire(v) \in On(pipe)
      PROVE  Expire(v) \in On(pipe')
  <2>1. Expire(v).op # "scan"
    BY ExpireOp
  <2> QED BY <1>2, <1>3, <2>1, OnAnswered
<1> QED BY <1>3, ExpireKept

LEMMA ExpireKeptByReject ==
  ASSUME TypeOK, RunningWillExpire,
         NEW u \in Udids, Getting(u), NEW l \in Int, NEW p,
         \/ p = Answered(u, l)
         \/ \E c \in Command : p = Append(Answered(u, l), c),
         Reject(p)
  PROVE  RunningWillExpire'
<1>1. CASE Exit(p)
  BY <1>1 DEF Exit, RunningWillExpire
<1>2. CASE pipe' = p /\ UNCHANGED <<store, ttl, workers, builds, remote, died>>
  BY <1>2, ExpireKeptByAnswer
<1> QED BY <1>1, <1>2 DEF Reject

LEMMA RunningWillExpireStep ==
  ASSUME TypeOK, RunningWillExpire, [Next]_vars
  PROVE  RunningWillExpire'
<1>1. CASE RedisSet
  <2> DEFINE u == Head(pipe).udid
             e == Head(pipe).entry
  <2>1. pipe # <<>> /\ Head(pipe) \in SetCmd /\ Tail(pipe) \in Seq(Command)
    BY <1>1, HeadOp, HeadTail DEF RedisSet, Answering
  <2>2. u \in Udids /\ e \in Entry /\ Head(pipe).op = "set"
    BY <2>1 DEF SetCmd
  <2>0. On(Append(Tail(pipe), Expire(u))) = On(Tail(pipe)) \cup {Expire(u)}
    <3> DEFINE t == Tail(pipe)
               x == Expire(u)
    <3>1. t \in Seq(Command) /\ x \in Command
      BY <2>1, <2>2, CommandTypes
    <3> HIDE DEF t, x
    <3>2. On(Append(t, x)) = On(t) \cup {x}
      BY <3>1, OnAppend
    <3> QED BY <3>2 DEF t, x
  <2>3. On(Tail(pipe)) \subseteq On(pipe')
    <3>1. pipe' = Append(Tail(pipe), Expire(u)) \/ pipe' = Tail(pipe)
      BY <1>1 DEF RedisSet
    <3> QED BY <3>1, <2>0
  <2>4. SUFFICES ASSUME ~died', NEW v \in Udids, store'[v].status = "running"
                 PROVE  ttl'[v] \/ Expire(v) \in On(pipe')
    BY DEF RunningWillExpire, PipeSet, On
  <2>5. CASE v = u
    <3>1. e.status = "running"
      BY <1>1, <2>2, <2>4, <2>5 DEF RedisSet, TypeOK
    <3>2. pipe' = Append(Tail(pipe), Expire(u))
      BY <1>1, <3>1 DEF RedisSet
    <3> QED BY <2>0, <2>5, <3>2
  <2>6. CASE v # u
    <3>1. store'[v] = store[v] /\ ttl'[v] = ttl[v] /\ died' = died
      BY <1>1, <2>6 DEF RedisSet, TypeOK
    <3>2. ttl[v] \/ Expire(v) \in On(pipe)
      BY <2>4, <3>1 DEF RunningWillExpire, PipeSet, On
    <3>3. Expire(v) # Head(pipe)
      BY <2>2, ExpireOp
    <3> QED BY <2>1, <2>3, <3>1, <3>2, <3>3, OnTail DEF TypeOK
  <2> QED BY <2>5, <2>6
<1>2. CASE RedisExpire
  <2> DEFINE u == Head(pipe).udid
  <2>1. pipe # <<>> /\ Head(pipe) \in ExpireCmd
    BY <1>2, HeadOp DEF RedisExpire, Answering
  <2>2. SUFFICES ASSUME ~died', NEW v \in Udids, store'[v].status = "running"
                 PROVE  ttl'[v] \/ Expire(v) \in On(pipe')
    BY DEF RunningWillExpire, PipeSet, On
  <2>3. store' = store /\ pipe' = Tail(pipe) /\ died' = died
    BY <1>2 DEF RedisExpire
  <2>4. CASE v = u
    <3>1. store[v] # Absent
      BY <2>2, <2>3 DEF Absent
    <3> QED BY <1>2, <2>4, <3>1 DEF RedisExpire, TypeOK
  <2>5. CASE v # u
    <3>1. ttl'[v] = ttl[v]
      BY <1>2, <2>5 DEF RedisExpire, TypeOK
    <3>2. ttl[v] \/ Expire(v) \in On(pipe)
      BY <2>2, <2>3 DEF RunningWillExpire, PipeSet, On
    <3>3. Expire(v) # Head(pipe)
      BY <2>5, ExpireOp
    <3> QED BY <2>1, <2>3, <3>1, <3>2, <3>3, OnTail DEF TypeOK
  <2> QED BY <2>4, <2>5
<1>3. CASE RedisDel
  <2> DEFINE u == Head(pipe).udid
  <2>1. pipe # <<>> /\ Head(pipe) \in DelCmd
    BY <1>3, HeadOp DEF RedisDel, Answering
  <2>2. Head(pipe).op = "del"
    BY <2>1 DEF DelCmd
  <2>3. SUFFICES ASSUME ~died', NEW v \in Udids, store'[v].status = "running"
                 PROVE  ttl'[v] \/ Expire(v) \in On(pipe')
    BY DEF RunningWillExpire, PipeSet, On
  <2>4. v # u
    BY <1>3, <2>3 DEF RedisDel, TypeOK, Absent
  <2>5. store'[v] = store[v] /\ ttl'[v] = ttl[v] /\ died' = died
        /\ pipe' = Tail(pipe)
    BY <1>3, <2>4 DEF RedisDel, TypeOK
  <2>6. ttl[v] \/ Expire(v) \in On(pipe)
    BY <2>3, <2>5 DEF RunningWillExpire, PipeSet, On
  <2>7. Expire(v) # Head(pipe)
    BY <2>2, ExpireOp
  <2> QED BY <2>1, <2>5, <2>6, <2>7, OnTail DEF TypeOK
<1>4. ASSUME NEW u \in Udids, GetVanished(u) PROVE RunningWillExpire'
  BY <1>4, LimitType, ExpireKeptByReject DEF GetVanished
<1>5. ASSUME NEW u \in Udids, GetRunning(u) PROVE RunningWillExpire'
  BY <1>5, LimitType, ExpireKeptByAnswer DEF GetRunning
<1>6. ASSUME NEW u \in Udids, GetSkipped(u) PROVE RunningWillExpire'
  BY <1>6, LimitType, ExpireKeptByAnswer DEF GetSkipped
<1>7. ASSUME NEW u \in Udids, RunNext(u) PROVE RunningWillExpire'
  <2>1. Set(u, Running(store[u].req)) \in Command
    BY <1>7, EligibleType, EntryTypes, CommandTypes DEF RunNext
  <2> QED BY <1>7, <2>1, LimitType, ExpireKeptByAnswer DEF RunNext
<1>8. ASSUME NEW u \in Udids, RunNextWithoutWorker(u) PROVE RunningWillExpire'
  <2>1. Set(u, Errored) \in Command
    BY EntryTypes, CommandTypes
  <2> QED BY <1>8, <2>1, LimitType, ExpireKeptByAnswer DEF RunNextWithoutWorker
<1>9. ASSUME NEW u \in Udids, RunNextForPoll(u) PROVE RunningWillExpire'
  <2>1. Set(u, Running(store[u].req)) \in Command
    BY <1>9, EligibleType, EntryTypes, CommandTypes DEF RunNextForPoll
  <2> QED BY <1>9, <2>1, LimitType, ExpireKeptByReject DEF RunNextForPoll
<1>10. ASSUME NEW by \in {"loop", "poll"}, FindNext(by) PROVE RunningWillExpire'
  <2>1. [op |-> "scan", keys |-> Keys, limit |-> MaxRunningBuilds, by |-> by]
          \in Command
    BY QueueAssumption DEF Keys, Command, ScanCmd
  <2> QED BY <1>10, <2>1, ExpireKeptByAppend DEF FindNext
<1>11. CASE Crash
  BY <1>11 DEF Crash, Exit, RunningWillExpire
<1>12. ASSUME NEW u \in Udids, TimeToLiveEnds(u) PROVE RunningWillExpire'
  BY <1>12 DEF TimeToLiveEnds, RunningWillExpire, PipeSet, TypeOK, Absent
<1>13. ASSUME NEW u \in Udids, NEW r \in Requests, BuildNow(u, r)
       PROVE RunningWillExpire'
  BY <1>13, ExpireKept DEF BuildNow
<1>14. ASSUME NEW u \in Udids, NEW r \in Requests, Add(u, r)
       PROVE RunningWillExpire'
  <2>1. Set(u, Waiting(r)) \in Command
    BY EntryTypes, CommandTypes
  <2> QED BY <1>14, <2>1, ExpireKeptByAppend DEF Add
<1>15. ASSUME NEW b \in Slots, BuildRefused(b) \/ BuildStarted(b)
       PROVE RunningWillExpire'
  <2>1. builds[b].udid \in Udids
    BY <1>15 DEF BuildRefused, BuildStarted, FreeSlot, TypeOK, Build
  <2>2. pipe' = pipe \/ pipe' = Append(pipe, Del(builds[b].udid))
    BY <1>15 DEF BuildRefused, BuildStarted, BuildCallback
  <2>3. Del(builds[b].udid) \in Command
    BY <2>1, CommandTypes
  <2> QED BY <1>15, <2>2, <2>3, ExpireKept, ExpireKeptByAppend
          DEF BuildRefused, BuildStarted
<1>16. ASSUME NEW s \in Sockets,
              \/ Register(s) \/ Disconnect(s)
              \/ \E running \in {"idle", "running"} : Hello(s, running)
              \/ \E r \in Requests : JobStatus(s, r)
       PROVE RunningWillExpire'
  BY <1>16, ExpireKept DEF Register, Disconnect, Hello, JobStatus
<1>17. CASE UNCHANGED vars
  BY <1>17, ExpireKept DEF vars
<1> QED
  BY <1>1, <1>2, <1>3, <1>4, <1>5, <1>6, <1>7, <1>8, <1>9, <1>10, <1>11,
     <1>12, <1>13, <1>14, <1>15, <1>16, <1>17
  DEF Next, Redis, Loop, Poll

(* queue_action.js:26-34.  RunningWillExpire for any numbers of devices,    *)
(* requests, workers and overlapping scans.                                 *)
THEOREM RunningExpires == Spec => []RunningWillExpire
<1>1. Init => RunningWillExpire
  BY DEF Init, RunningWillExpire, Absent
<1>2. TypeOK /\ RunningWillExpire /\ [Next]_vars => RunningWillExpire'
  BY RunningWillExpireStep
<1> QED BY <1>1, <1>2, TypeCorrect, PTL DEF Spec
-----------------------------------------------------------------------------
(* With one scheduler scan in the pipe at a time, nothing is started twice. *)

(* How a step changes the pipe: the first k commands leave it (k is 0 or    *)
(* 1), a scan may lose keys, and at most one command, c, joins it.          *)
Same(a, b) ==
  \/ a = b
  \/ a.op = "scan" /\ b.op = "scan" /\ a.by = b.by /\ b.keys \subseteq a.keys

Moves(p, q, k, c) ==
  /\ k \in {0, 1} /\ k <= Len(p)
  /\ Len(q) = Len(p) - k \/ Len(q) = Len(p) - k + 1
  /\ \A i \in 1..(Len(p) - k) : Same(p[i + k], q[i])
  /\ \A i \in 1..Len(q) : i > Len(p) - k => q[i] = c

LEMMA MovesSelf ==
  ASSUME NEW p \in Seq(Command), NEW c
  PROVE  Moves(p, p, 0, c)
BY DEF Moves, Same

LEMMA MovesAppend ==
  ASSUME NEW p \in Seq(Command), NEW c \in Command
  PROVE  Moves(p, Append(p, c), 0, c)
<1> DEFINE q == Append(p, c)
<1>1. Len(q) = Len(p) + 1 /\ q[Len(p) + 1] = c
  OBVIOUS
<1>2. \A i \in 1..Len(p) : q[i] = p[i]
  OBVIOUS
<1> HIDE DEF q
<1>3. Moves(p, q, 0, c)
  BY <1>1, <1>2 DEF Moves, Same
<1> QED BY <1>3 DEF q

LEMMA MovesTail ==
  ASSUME NEW p \in Seq(Command), p # <<>>, NEW c
  PROVE  Moves(p, Tail(p), 1, c)
<1> DEFINE q == Tail(p)
<1>1. /\ Len(p) \in Nat \ {0} /\ Len(q) = Len(p) - 1
      /\ \A i \in 1..Len(q) : q[i] = p[i + 1]
  BY TailIndex
<1> HIDE DEF q
<1>2. Moves(p, q, 1, c)
  BY <1>1 DEF Moves, Same
<1> QED BY <1>2 DEF q

(* Appending to what has moved without a command joining it.                *)
LEMMA MovesThenAppend ==
  ASSUME NEW p \in Seq(Command), NEW q \in Seq(Command), NEW k,
         NEW c \in Command, Moves(p, q, k, c), Len(q) = Len(p) - k
  PROVE  Moves(p, Append(q, c), k, c)
<1> DEFINE s == Append(q, c)
<1>1. Len(s) = Len(q) + 1 /\ s[Len(q) + 1] = c
  OBVIOUS
<1>2. \A i \in 1..Len(q) : s[i] = q[i]
  OBVIOUS
<1> HIDE DEF s
<1>3. Len(p) \in Nat /\ Len(q) \in Nat /\ k \in {0, 1}
  BY DEF Moves
<1>4. Moves(p, s, k, c)
  BY <1>1, <1>2, <1>3 DEF Moves
<1> QED BY <1>4 DEF s

LEMMA MovesAnswered ==
  ASSUME TypeOK, NEW u \in Udids, Getting(u), NEW l \in Int, NEW c
  PROVE  \E k \in {0, 1} : /\ Moves(pipe, Answered(u, l), k, c)
                           /\ Len(Answered(u, l)) = Len(pipe) - k
<1> DEFINE q == Answered(u, l)
<1>1. pipe # <<>> /\ Head(pipe) \in ScanCmd /\ pipe \in Seq(Command)
  BY HeadOp DEF Getting, Answering, TypeOK
<1>2. Len(pipe) \in Nat \ {0} /\ pipe[1] = Head(pipe)
  BY <1>1, TailIndex
<1>3. CASE q = Tail(pipe)
  BY <1>1, <1>2, <1>3, MovesTail, TailIndex
<1>4. CASE /\ Len(q) = Len(pipe)
           /\ q[1].op = "scan" /\ q[1].by = Head(pipe).by
           /\ q[1].keys = Head(pipe).keys \ {u}
           /\ \A i \in 2..Len(pipe) : q[i] = pipe[i]
  <2> HIDE DEF q
  <2>1. Same(pipe[1], q[1])
    BY <1>1, <1>2, <1>4 DEF Same, ScanCmd
  <2>2. \A i \in 1..Len(pipe) : Same(pipe[i], q[i])
    BY <1>2, <1>4, <2>1 DEF Same
  <2>3. Moves(pipe, q, 0, c)
    BY <1>2, <1>4, <2>2 DEF Moves
  <2> QED BY <1>2, <1>4, <2>3 DEF q
<1> QED BY <1>3, <1>4, AnsweredIndex

(* One scan fits in the pipe: a second finds the guard of Loop closed.      *)
LEMMA NoLoopScan ==
  ASSUME TypeOK, MaxLoops <= 1, Count(IsLoopScan) < MaxLoops
  PROVE  \A i \in 1..Len(pipe) : ~IsLoopScan(pipe[i])
<1> DEFINE S == {i \in 1..Len(pipe) : IsLoopScan(pipe[i])}
<1>1. Len(pipe) \in Nat
  BY DEF TypeOK
<1>2. IsFiniteSet(1..Len(pipe))
  BY <1>1, FS_Interval
<1>3. IsFiniteSet(S)
  BY <1>2, FS_Subset
<1>4. Cardinality(S) \in Nat /\ Cardinality(S) < 1
  BY <1>3, FS_CardinalityType, QueueAssumption DEF Count
<1>5. S = {}
  BY <1>3, <1>4, FS_EmptySet
<1> QED BY <1>5

(* What may join the pipe: a loop scan only if there is none, and a write   *)
(* for a request only if it is new, or replaces the entry's own status.     *)
WritesOwn(c) ==
  \A u \in Udids, r \in Requests :
    IsSet(c, u) /\ c.entry.req = r =>
      \/ store[u].req = r /\ c.entry.status # "waiting"
      \/ r \in used' \ used /\ r \notin started'

Joins(c) ==
  /\ IsLoopScan(c) => \A i \in 1..Len(pipe) : ~IsLoopScan(pipe[i])
  /\ WritesOwn(c)

(* What may happen to the entries: nothing, a loss, or the head's SET.      *)
Stores(k) ==
  \A u \in Udids :
    \/ store'[u] = store[u]
    \/ store'[u].req = None /\ store'[u].status # "waiting"
    \/ k = 1 /\ pipe[1] = Set(u, store'[u])

(* What may be started: a new request, or one that has an entry.            *)
Starts ==
  /\ started \subseteq started' /\ started' \subseteq used'
  /\ used \subseteq used'
  /\ \A r \in started' \ started :
       r \notin used \/ \E u \in Udids : store[u].req = r

LEMMA OneLoopScanStep ==
  ASSUME TypeOK, TypeOK', OneLoopScan,
         NEW k, NEW c, Moves(pipe, pipe', k, c), Joins(c)
  PROVE  OneLoopScan'
<1>1. Len(pipe) \in Nat /\ Len(pipe') \in Nat /\ k \in {0, 1}
  BY DEF TypeOK, Moves
<1>2. ASSUME NEW i \in 1..Len(pipe'), IsLoopScan(pipe'[i])
      PROVE  \/ i + k \in 1..Len(pipe) /\ IsLoopScan(pipe[i + k])
             \/ i = Len(pipe) - k + 1 /\ IsLoopScan(c)
  <2>1. CASE i <= Len(pipe) - k
    <3>1. i \in 1..(Len(pipe) - k) /\ i + k \in 1..Len(pipe)
      BY <1>1, <2>1
    <3>2. Same(pipe[i + k], pipe'[i])
      BY <3>1 DEF Moves
    <3> QED BY <1>2, <3>1, <3>2 DEF Same, IsLoopScan
  <2>2. CASE i > Len(pipe) - k
    BY <1>1, <1>2, <2>2 DEF Moves
  <2> QED BY <1>1, <2>1, <2>2
<1>3. SUFFICES ASSUME NEW i \in 1..Len(pipe'), NEW j \in 1..Len(pipe'),
                      IsLoopScan(pipe'[i]), IsLoopScan(pipe'[j])
               PROVE  i = j
  BY DEF OneLoopScan, IsLoopScan
<1>4. CASE IsLoopScan(c)
  BY <1>1, <1>2, <1>3, <1>4 DEF Joins, WritesOwn
<1>5. CASE ~IsLoopScan(c)
  <2>1. i + k = j + k
    BY <1>2, <1>3, <1>5 DEF OneLoopScan
  <2> QED BY <1>1, <2>1
<1> QED BY <1>4, <1>5

(* A SET in the new pipe was in the old one, or has just joined.            *)
LEMMA SetMoves ==
  ASSUME TypeOK, TypeOK', NEW k, NEW c, Moves(pipe, pipe', k, c),
         NEW i \in 1..Len(pipe'), NEW u, IsSet(pipe'[i], u)
  PROVE  \/ i + k \in 1..Len(pipe) /\ pipe'[i] = pipe[i + k]
         \/ i = Len(pipe) - k + 1 /\ pipe'[i] = c
<1>1. Len(pipe) \in Nat /\ Len(pipe') \in Nat /\ k \in {0, 1}
  BY DEF TypeOK, Moves
<1>2. CASE i <= Len(pipe) - k
  <2>1. i \in 1..(Len(pipe) - k) /\ i + k \in 1..Len(pipe)
    BY <1>1, <1>2
  <2>2. Same(pipe[i + k], pipe'[i])
    BY <2>1 DEF Moves
  <2> QED BY <2>1, <2>2 DEF Same, IsSet
<1>3. CASE i > Len(pipe) - k
  BY <1>1, <1>3 DEF Moves
<1> QED BY <1>1, <1>2, <1>3

LEMMA ConcernsStep ==
  ASSUME TypeOK, TypeOK', NEW k, NEW c, Moves(pipe, pipe', k, c), Stores(k),
         NEW u \in Udids, NEW r \in Requests, Concerns(u, r)'
  PROVE  \/ Concerns(u, r)
         \/ IsSet(c, u) /\ c.entry.req = r
<1>1. CASE store'[u].req = r
  <2>1. r # None
    BY QueueAssumption
  <2>2. CASE store'[u] = store[u]
    BY <1>1, <2>2 DEF Concerns
  <2>3. CASE k = 1 /\ pipe[1] = Set(u, store'[u])
    <3>1. IsSet(pipe[1], u) /\ pipe[1].entry = store'[u]
      BY <2>3 DEF Set, IsSet
    <3>2. 1 \in 1..Len(pipe)
      BY <2>3 DEF Moves, TypeOK
    <3> QED BY <1>1, <3>1, <3>2 DEF Concerns
  <2> QED BY <1>1, <2>1, <2>2, <2>3 DEF Stores
<1>2. ASSUME NEW i \in 1..Len(pipe'), IsSet(pipe'[i], u),
             pipe'[i].entry.req = r
      PROVE  Concerns(u, r) \/ (IsSet(c, u) /\ c.entry.req = r)
  BY <1>2, SetMoves DEF Concerns
<1> QED BY <1>1, <1>2 DEF Concerns, IsSet

LEMMA OneDeviceStep ==
  ASSUME TypeOK, TypeOK', OneDevicePerRequest,
         NEW k, NEW c, Moves(pipe, pipe', k, c), Stores(k), WritesOwn(c),
         used \subseteq used'
  PROVE  OneDevicePerRequest'
<1>1. ASSUME NEW r \in Requests, NEW u \in Udids, Concerns(u, r)'
      PROVE  \/ Concerns(u, r)
             \/ IsSet(c, u) /\ r \in used' \ used
  <2>1. CASE IsSet(c, u) /\ c.entry.req = r
    <3>1. store[u].req = r => Concerns(u, r)
      BY DEF Concerns
    <3> QED BY <2>1, <3>1 DEF WritesOwn
  <2> QED BY <1>1, <2>1, ConcernsStep
<1>2. \A r \in Requests, u \in Udids : Concerns(u, r) => r \in used
  BY DEF OneDevicePerRequest
<1>3. ASSUME NEW r \in Requests, NEW u \in Udids, NEW v \in Udids,
             Concerns(u, r)', Concerns(v, r)'
      PROVE  u = v
  <2>1. CASE r \in used
    <3>1. Concerns(u, r) /\ Concerns(v, r)
      BY <1>1, <1>3, <2>1
    <3> QED BY <3>1 DEF OneDevicePerRequest
  <2>2. CASE r \notin used
    <3>1. IsSet(c, u) /\ IsSet(c, v)
      BY <1>1, <1>2, <1>3, <2>2
    <3> QED BY <3>1 DEF IsSet
  <2> QED BY <2>1, <2>2
<1>4. ASSUME NEW r \in Requests, NEW u \in Udids, Concerns(u, r)'
      PROVE  r \in used'
  BY <1>1, <1>2, <1>4
<1> QED BY <1>3, <1>4 DEF OneDevicePerRequest

LEMMA SetFields ==
  ASSUME NEW u, NEW r
  PROVE  /\ IsSet(Set(u, Waiting(r)), u)
         /\ Set(u, Waiting(r)).entry.req = r
         /\ Set(u, Waiting(r)).entry.status = "waiting"
BY DEF IsSet, Set, Waiting

LEMMA ArrivingStep ==
  ASSUME TypeOK, TypeOK', OneDevicePerRequest, ArrivingIsNew,
         NEW k, NEW c, Moves(pipe, pipe', k, c), Stores(k), WritesOwn(c), Starts
  PROVE  ArrivingIsNew'
<1>0. Len(pipe) \in Nat /\ Len(pipe') \in Nat /\ k \in {0, 1}
  BY DEF TypeOK, Moves
<1>1. SUFFICES ASSUME NEW i \in 1..Len(pipe'), NEW u \in Udids,
                      NEW r \in Requests, pipe'[i] = Set(u, Waiting(r))
               PROVE  /\ r \notin started'
                      /\ store'[u].req # r
                      /\ \A j \in 1..Len(pipe') :
                           IsSet(pipe'[j], u) /\ pipe'[j].entry.req = r => j = i
  BY DEF ArrivingIsNew, IsSet
<1>2. IsSet(pipe'[i], u)
  BY <1>1, SetFields
<1>3. CASE i + k \in 1..Len(pipe) /\ pipe'[i] = pipe[i + k]
  <2>1. /\ r \notin started
        /\ store[u].req # r
        /\ \A j \in 1..Len(pipe) :
             IsSet(pipe[j], u) /\ pipe[j].entry.req = r => j = i + k
    BY <1>1, <1>3 DEF ArrivingIsNew
  <2>2. Concerns(u, r)
    <3>1. IsSet(pipe'[i], u) /\ pipe'[i].entry.req = r
      BY <1>1, SetFields
    <3>2. IsSet(pipe[i + k], u) /\ pipe[i + k].entry.req = r
      BY <1>3, <3>1
    <3> QED BY <1>3, <3>2 DEF Concerns
  <2>3. r \in used
    BY <2>2 DEF OneDevicePerRequest
  <2>4. r \notin started'
    <3>1. SUFFICES ASSUME r \in started' PROVE FALSE
      OBVIOUS
    <3>2. PICK v \in Udids : store[v].req = r
      BY <2>1, <2>3, <3>1 DEF Starts
    <3>3. v = u
      BY <2>2, <3>2 DEF OneDevicePerRequest, Concerns
    <3> QED BY <2>1, <3>2, <3>3
  <2>5. store'[u].req # r
    <3>1. CASE store'[u] = store[u]
      BY <2>1, <3>1
    <3>2. CASE store'[u].req = None
      BY <3>2, QueueAssumption
    <3>3. CASE k = 1 /\ pipe[1] = Set(u, store'[u])
      <4>1. 1 \in 1..Len(pipe) /\ 1 # i + k
        BY <1>0, <1>3, <3>3
      <4>2. IsSet(pipe[1], u) /\ pipe[1].entry = store'[u]
        BY <3>3 DEF Set, IsSet
      <4> QED BY <2>1, <4>1, <4>2
    <3> QED BY <3>1, <3>2, <3>3 DEF Stores
  <2>6. ~(IsSet(c, u) /\ c.entry.req = r)
    BY <2>1, <2>3 DEF WritesOwn
  <2>7. ASSUME NEW j \in 1..Len(pipe'), IsSet(pipe'[j], u),
               pipe'[j].entry.req = r
        PROVE  j = i
    <3>1. j + k \in 1..Len(pipe) /\ pipe'[j] = pipe[j + k]
      BY <2>6, <2>7, SetMoves
    <3>2. j + k = i + k
      BY <2>1, <2>7, <3>1
    <3> QED BY <1>0, <3>2
  <2> QED BY <2>4, <2>5, <2>7
<1>4. CASE i = Len(pipe) - k + 1 /\ pipe'[i] = c
  <2>1. IsSet(c, u) /\ c.entry.req = r /\ c.entry.status = "waiting"
    BY <1>1, <1>4, SetFields
  <2>2. r \in used' \ used /\ r \notin started'
    BY <2>1 DEF WritesOwn
  <2>3. ~Concerns(u, r)
    BY <2>2 DEF OneDevicePerRequest
  <2>4. store'[u].req # r
    <3>1. store'[u].req = r => store[u].req = r \/
            (k = 1 /\ pipe[1] = Set(u, store'[u]))
      BY QueueAssumption DEF Stores
    <3>2. CASE k = 1 /\ pipe[1] = Set(u, store'[u])
      <4>1. 1 \in 1..Len(pipe)
        BY <1>0, <3>2 DEF Moves
      <4>2. IsSet(pipe[1], u) /\ pipe[1].entry = store'[u]
        BY <3>2 DEF Set, IsSet
      <4> QED BY <2>3, <4>1, <4>2 DEF Concerns
    <3> QED BY <2>3, <3>1, <3>2 DEF Concerns
  <2>5. ASSUME NEW j \in 1..Len(pipe'), IsSet(pipe'[j], u),
               pipe'[j].entry.req = r
        PROVE  j = i
    <3>1. ~(j + k \in 1..Len(pipe) /\ pipe'[j] = pipe[j + k])
      BY <2>3, <2>5 DEF Concerns
    <3> QED BY <1>4, <2>5, <3>1, SetMoves
  <2> QED BY <2>2, <2>4, <2>5
<1> QED BY <1>2, <1>3, <1>4, SetMoves

(* The overwriting command is still there unless it was the head.           *)
LEMMA OverwrittenStep ==
  ASSUME TypeOK, TypeOK', NEW k, NEW c, Moves(pipe, pipe', k, c),
         NEW u, WillBeOverwritten(u),
         k = 1 => ~(pipe[1].op \in {"set", "del"} /\ pipe[1].udid = u)
  PROVE  WillBeOverwritten(u)'
<1>0. Len(pipe) \in Nat /\ Len(pipe') \in Nat /\ k \in {0, 1}
  BY DEF TypeOK, Moves
<1>1. PICK i \in 1..Len(pipe) :
        /\ pipe[i].op \in {"set", "del"} /\ pipe[i].udid = u
        /\ \A j \in 1..i : IsLoopScan(pipe[j]) => u \notin pipe[j].keys
  BY DEF WillBeOverwritten
<1>2. i - k \in 1..(Len(pipe) - k) /\ (i - k) + k = i /\ i - k \in 1..Len(pipe')
  BY <1>0, <1>1 DEF Moves
<1>3. Same(pipe[i], pipe'[i - k])
  BY <1>2 DEF Moves
<1>4. pipe'[i - k] = pipe[i]
  BY <1>1, <1>3 DEF Same
<1>5. ASSUME NEW j \in 1..(i - k), IsLoopScan(pipe'[j])
      PROVE  u \notin pipe'[j].keys
  <2>1. j \in 1..(Len(pipe) - k) /\ j + k \in 1..i
    BY <1>0, <1>2
  <2>2. Same(pipe[j + k], pipe'[j])
    BY <2>1 DEF Moves
  <2>3. IsLoopScan(pipe[j + k]) /\ pipe'[j].keys \subseteq pipe[j + k].keys
    BY <1>5, <2>2 DEF Same, IsLoopScan
  <2> QED BY <1>1, <2>1, <2>3
<1> QED BY <1>1, <1>2, <1>4, <1>5 DEF WillBeOverwritten, IsLoopScan

(* The invariant is kept by a step that moves the pipe as above, if what it *)
(* leaves started and waiting is overwritten.                               *)
LEMMA QueueInvKept ==
  ASSUME TypeOK, TypeOK', ~died, QueueInv,
         NEW k, NEW c, Moves(pipe, pipe', k, c), Stores(k), Joins(c), Starts,
         StartedIsOverwritten'
  PROVE  QueueInv'
<1>1. /\ OneLoopScan /\ OneDevicePerRequest /\ ArrivingIsNew
  BY DEF QueueInv
<1>2. OneLoopScan'
  BY <1>1, OneLoopScanStep
<1>3. used \subseteq used' /\ (started \subseteq used)'
  BY DEF Starts
<1>4. OneDevicePerRequest'
  BY <1>1, <1>3, OneDeviceStep DEF Joins
<1>5. ArrivingIsNew'
  BY <1>1, ArrivingStep DEF Joins
<1> QED BY <1>2, <1>3, <1>4, <1>5 DEF QueueInv

(* So does a quiet step: entries are only lost, only new requests start,    *)
(* and no write leaves the pipe but the DEL that removes its entry.         *)
Quiet(k) ==
  /\ \A u \in Udids :
       \/ store'[u] = store[u]
       \/ store'[u].req = None /\ store'[u].status # "waiting"
  /\ started \subseteq started' /\ used \subseteq used'
  /\ \A r \in started' \ started : r \in used' \ used
  /\ k = 1 => /\ pipe[1].op # "set"
              /\ pipe[1].op = "del" => store'[pipe[1].udid].status # "waiting"

LEMMA QuietStep ==
  ASSUME TypeOK, TypeOK', ~died, QueueInv,
         NEW k, NEW c, Moves(pipe, pipe', k, c), Quiet(k), Joins(c)
  PROVE  QueueInv'
<1>1. Stores(k)
  BY DEF Quiet, Stores
<1>2. Starts
  BY DEF Quiet, Starts, QueueInv
<1>3. ASSUME NEW u \in Udids, store'[u].status = "waiting",
             store'[u].req \in started'
      PROVE  WillBeOverwritten(u)'
  <2>1. store'[u] = store[u]
    BY <1>3 DEF Quiet
  <2> DEFINE r == store[u].req
  <2>2. r \in Requests
    BY <1>3, <2>1 DEF TypeOK, Entry, Waiting, Running, Absent, Errored
  <2>3. Concerns(u, r)
    BY DEF Concerns
  <2>4. r \in used
    BY <2>2, <2>3 DEF QueueInv, OneDevicePerRequest
  <2>5. r \in started
    BY <1>3, <2>1, <2>4 DEF Quiet
  <2>6. WillBeOverwritten(u)
    BY <1>3, <2>1, <2>5 DEF QueueInv, StartedIsOverwritten
  <2>7. k = 1 => ~(pipe[1].op \in {"set", "del"} /\ pipe[1].udid = u)
    BY <1>3 DEF Quiet
  <2> QED BY <2>6, <2>7, OverwrittenStep
<1>4. StartedIsOverwritten'
  BY <1>3 DEF StartedIsOverwritten
<1> QED BY <1>1, <1>2, <1>4, QueueInvKept

Nothing == [op |-> "none"]

LEMMA NothingJoins == Joins(Nothing)
BY DEF Joins, WritesOwn, Nothing, IsLoopScan, IsSet

LEMMA ExpireJoins ==
  ASSUME NEW u
  PROVE  Joins(Expire(u))
BY DEF Joins, WritesOwn, Expire, IsLoopScan, IsSet

LEMMA DelJoins ==
  ASSUME NEW u
  PROVE  Joins(Del(u))
BY DEF Joins, WritesOwn, Del, IsLoopScan, IsSet

(* The entry's own status replaced by another than "waiting".               *)
LEMMA SetJoins ==
  ASSUME NEW u, NEW e, e.status # "waiting",
         e.req = None \/ e.req = store[u].req
  PROVE  Joins(Set(u, e))
<1>1. /\ Set(u, e).op = "set" /\ Set(u, e).udid = u
      /\ Set(u, e).entry = e
  BY DEF Set
<1> DEFINE c == Set(u, e)
<1> HIDE DEF c
<1>2. c.op = "set" /\ c.udid = u /\ c.entry = e
  BY <1>1 DEF c
<1>3. Joins(c)
  BY <1>2, QueueAssumption DEF Joins, WritesOwn, IsLoopScan, IsSet
<1> QED BY <1>3 DEF c

(* A GET that is answered, and possibly a SET of another status.            *)
LEMMA AnswerKeepsQueueInv ==
  ASSUME TypeOK, TypeOK', ~died, QueueInv,
         store' = store, started' = started, used' = used,
         NEW u \in Udids, Getting(u), NEW l \in Int,
         \/ pipe' = Answered(u, l)
         \/ \E e \in Entry : /\ pipe' = Append(Answered(u, l), Set(u, e))
                             /\ e.status # "waiting"
                             /\ e.req = None \/ e.req = store[u].req
  PROVE  QueueInv'
<1>1. pipe # <<>> /\ Head(pipe).op = "scan" /\ pipe \in Seq(Command)
  BY DEF Getting, Answering, TypeOK
<1>2. pipe[1].op = "scan"
  BY <1>1, TailIndex
<1>3. ASSUME NEW k PROVE Quiet(k)
  BY <1>2 DEF Quiet
<1>4. CASE pipe' = Answered(u, l)
  BY <1>3, <1>4, MovesAnswered, NothingJoins, QuietStep
<1>5. ASSUME NEW e \in Entry, pipe' = Append(Answered(u, l), Set(u, e)),
             e.status # "waiting", e.req = None \/ e.req = store[u].req
      PROVE  QueueInv'
  <2> DEFINE q == Answered(u, l)
             c == Set(u, e)
  <2>1. c \in Command
    BY CommandTypes
  <2>2. Joins(c)
    BY <1>5, SetJoins
  <2>3. q \in Seq(Command)
    BY AnsweredType
  <2>4. PICK k \in {0, 1} : Moves(pipe, q, k, c) /\ Len(q) = Len(pipe) - k
    BY MovesAnswered
  <2>5. pipe' = Append(q, c)
    BY <1>5
  <2> HIDE DEF q, c
  <2>6. Moves(pipe, pipe', k, c)
    BY <1>1, <2>1, <2>3, <2>4, <2>5, MovesThenAppend
  <2> QED BY <1>3, <2>2, <2>6, QuietStep
<1> QED BY <1>4, <1>5

LEMMA RejectKeepsQueueInv ==
  ASSUME TypeOK, TypeOK', ~died, QueueInv,
         NEW u \in Udids, Getting(u), NEW l \in Int, NEW p, Reject(p),
         \/ p = Answered(u, l)
         \/ \E e \in Entry : /\ p = Append(Answered(u, l), Set(u, e))
                             /\ e.status # "waiting"
                             /\ e.req = None \/ e.req = store[u].req
  PROVE  QueueInv'
<1>1. CASE Exit(p)
  BY <1>1 DEF Exit, QueueInv
<1>2. CASE pipe' = p /\ UNCHANGED <<store, ttl, workers, builds, remote, died>>
  <2>1. store' = store /\ started' = started /\ used' = used
    BY <1>2 DEF Reject
  <2> QED BY <1>2, <2>1, AnswerKeepsQueueInv
<1> QED BY <1>1, <1>2 DEF Reject

(* The SET of a scheduled build comes before the device's next GET: the     *)
(* only scan in the pipe is the one whose GET for the device was answered.  *)
LEMMA RunNextOverwrites ==
  ASSUME TypeOK, TypeOK', QueueInv, ~died, NEW u \in Udids, RunNext(u)
  PROVE  WillBeOverwritten(u)'
<1> DEFINE q == Answered(u, Limit - 1)
           c == Set(u, Running(store[u].req))
<1>1. /\ pipe # <<>> /\ Head(pipe).op = "scan" /\ pipe \in Seq(Command)
      /\ Head(pipe).by = "loop" /\ Getting(u)
  BY DEF RunNext, Getting, Answering, TypeOK
<1>2. /\ pipe[1] = Head(pipe) /\ IsLoopScan(pipe[1])
      /\ Len(pipe) \in Nat /\ 1 \in 1..Len(pipe)
  BY <1>1, TailIndex DEF IsLoopScan
<1>3. q \in Seq(Command) /\ Limit - 1 \in Int
  BY <1>1, AnsweredType, LimitType
<1>4. PICK k \in {0, 1} : Moves(pipe, q, k, c) /\ Len(q) = Len(pipe) - k
  BY <1>1, <1>3, MovesAnswered
<1>5. k = 0 => q[1].keys = Head(pipe).keys \ {u}
  BY <1>1, <1>2, <1>3, <1>4, AnsweredIndex, TailIndex
<1>6. c \in Command
  BY EligibleType, EntryTypes, CommandTypes DEF RunNext
<1>7. c.op = "set" /\ c.udid = u
  BY DEF Set
<1>8. pipe' = Append(q, c)
  BY DEF RunNext
<1> HIDE DEF q, c
<1>9. /\ Len(pipe') = Len(q) + 1 /\ pipe'[Len(q) + 1] = c
      /\ \A j \in 1..Len(q) : pipe'[j] = q[j]
  BY <1>3, <1>6, <1>8
<1>10. ASSUME NEW j \in 1..Len(pipe'), IsLoopScan(pipe'[j])
       PROVE  u \notin pipe'[j].keys
  <2>1. j \in 1..(Len(pipe) - k) /\ pipe'[j] = q[j]
    BY <1>2, <1>4, <1>7, <1>9, <1>10 DEF IsLoopScan
  <2>2. Same(pipe[j + k], q[j]) /\ j + k \in 1..Len(pipe)
    BY <1>2, <1>4, <2>1 DEF Moves
  <2>3. IsLoopScan(pipe[j + k])
    BY <1>10, <2>1, <2>2 DEF Same, IsLoopScan
  <2>4. j + k = 1
    BY <1>2, <2>2, <2>3 DEF QueueInv, OneLoopScan
  <2>5. k = 0 /\ j = 1
    BY <1>4, <2>1, <2>4
  <2> QED BY <1>5, <2>1, <2>5
<1>11. Len(q) + 1 \in 1..Len(pipe')
  BY <1>3, <1>9
<1> QED BY <1>7, <1>9, <1>10, <1>11 DEF WillBeOverwritten, IsLoopScan

LEMMA RunNextKeepsQueueInv ==
  ASSUME TypeOK, TypeOK', ~died, QueueInv, NEW u \in Udids, RunNext(u)
  PROVE  QueueInv'
<1> DEFINE r == store[u].req
           q == Answered(u, Limit - 1)
           c == Set(u, Running(r))
<1>1. /\ pipe # <<>> /\ Head(pipe).op = "scan" /\ pipe \in Seq(Command)
      /\ Getting(u) /\ store' = store /\ used' = used
      /\ r \in Requests /\ pipe' = Append(q, c)
  BY EligibleType DEF RunNext, Getting, Answering, TypeOK
<1>2. pipe[1].op = "scan"
  BY <1>1, TailIndex
<1>3. started' = started \cup {r}
  BY DEF RunNext, Launch
<1>4. c \in Command
  BY <1>1, EntryTypes, CommandTypes
<1>5. Joins(c)
  <2>1. Running(r).status # "waiting" /\ Running(r).req = r
    BY DEF Running
  <2> QED BY <2>1, SetJoins
<1>6. q \in Seq(Command) /\ Limit - 1 \in Int
  BY <1>1, AnsweredType, LimitType
<1>7. PICK k \in {0, 1} : Moves(pipe, q, k, c) /\ Len(q) = Len(pipe) - k
  BY <1>1, <1>6, MovesAnswered
<1> HIDE DEF q, c
<1>8. Moves(pipe, pipe', k, c)
  BY <1>1, <1>4, <1>6, <1>7, MovesThenAppend
<1>9. Concerns(u, r) /\ r \in used
  BY <1>1 DEF Concerns, QueueInv, OneDevicePerRequest
<1>10. Starts
  BY <1>1, <1>3, <1>9 DEF Starts, QueueInv
<1>11. Stores(k)
  BY <1>1 DEF Stores
<1>12. ASSUME NEW v \in Udids, store'[v].status = "waiting",
              store'[v].req \in started'
       PROVE  WillBeOverwritten(v)'
  <2>1. CASE v = u
    BY <2>1, RunNextOverwrites
  <2>2. CASE v # u
    <3>1. store[v].req # r
      BY <1>1, <1>9, <2>2 DEF Concerns, QueueInv, OneDevicePerRequest
    <3>2. WillBeOverwritten(v)
      BY <1>1, <1>3, <1>12, <3>1 DEF QueueInv, StartedIsOverwritten
    <3> QED BY <1>2, <1>8, <3>2, OverwrittenStep
  <2> QED BY <2>1, <2>2
<1>13. StartedIsOverwritten'
  BY <1>12 DEF StartedIsOverwritten
<1> QED BY <1>5, <1>8, <1>10, <1>11, <1>13, QueueInvKept

(* SET: what it stores is new, or what it replaced was not waiting.         *)
LEMMA RedisSetKeepsQueueInv ==
  ASSUME TypeOK, TypeOK', ~died, QueueInv, RedisSet
  PROVE  QueueInv'
<1> DEFINE u == Head(pipe).udid
           e == Head(pipe).entry
           t == Tail(pipe)
<1>1. /\ pipe # <<>> /\ Head(pipe) \in SetCmd /\ t \in Seq(Command)
      /\ pipe \in Seq(Command)
  BY HeadOp, HeadTail DEF RedisSet, Answering, TypeOK
<1>2. /\ u \in Udids /\ e \in Entry /\ pipe[1].op = "set"
      /\ pipe[1].udid = u /\ pipe[1].entry = e
      /\ Len(pipe) \in Nat \ {0} /\ Len(t) = Len(pipe) - 1
  BY <1>1, TailIndex DEF SetCmd
<1>3. pipe[1] = Set(u, e)
  BY <1>1, TailIndex DEF SetCmd, Set
<1>4. /\ \A v \in Udids \ {u} : store'[v] = store[v]
      /\ store'[u] = e
      /\ started' = started /\ used' = used
      /\ pipe' = Append(t, Expire(u)) \/ pipe' = t
  BY <1>2 DEF RedisSet, TypeOK
<1>5. Expire(u) \in Command
  BY <1>2, CommandTypes
<1> HIDE DEF t
<1>6. \E c : Moves(pipe, pipe', 1, c) /\ Joins(c)
  <2>1. CASE pipe' = t
    BY <1>1, <2>1, MovesTail, NothingJoins DEF t
  <2>2. CASE pipe' = Append(t, Expire(u))
    <3> DEFINE c == Expire(u)
    <3>1. Moves(pipe, t, 1, c)
      BY <1>1, MovesTail DEF t
    <3>2. Joins(c)
      BY ExpireJoins
    <3>3. c \in Command /\ pipe' = Append(t, c)
      BY <1>5, <2>2
    <3> HIDE DEF c
    <3>4. Moves(pipe, pipe', 1, c)
      BY <1>1, <1>2, <3>1, <3>3, MovesThenAppend
    <3> QED BY <3>2, <3>4
  <2> QED BY <1>4, <2>1, <2>2
<1>7. PICK c : Moves(pipe, pipe', 1, c) /\ Joins(c)
  BY <1>6
<1>8. Stores(1)
  BY <1>3, <1>4 DEF Stores
<1>9. Starts
  BY <1>4 DEF Starts, QueueInv
<1>10. ASSUME NEW v \in Udids, store'[v].status = "waiting",
              store'[v].req \in started'
       PROVE  WillBeOverwritten(v)'
  <2>1. CASE v = u
    <3>1. e.req \in Requests /\ e = Waiting(e.req)
      <4>1. e.status = "waiting"
        BY <1>4, <1>10, <2>1
      <4> QED BY <1>2, <4>1, WaitingEntry
    <3>2. e.req \notin started
      <4>1. pipe[1] = Set(u, Waiting(e.req)) /\ 1 \in 1..Len(pipe)
        BY <1>2, <1>3, <3>1
      <4> QED BY <1>2, <3>1, <4>1 DEF QueueInv, ArrivingIsNew
    <3> QED BY <1>4, <1>10, <2>1, <3>2
  <2>2. CASE v # u
    <3>1. WillBeOverwritten(v)
      BY <1>4, <1>10, <2>2 DEF QueueInv, StartedIsOverwritten
    <3> QED BY <1>2, <1>7, <2>2, <3>1, OverwrittenStep
  <2> QED BY <2>1, <2>2
<1>11. StartedIsOverwritten'
  BY <1>10 DEF StartedIsOverwritten
<1> QED BY <1>7, <1>8, <1>9, <1>11, QueueInvKept

(* A step that leaves pipe, entries and requests alone.                     *)
LEMMA StillKeepsQueueInv ==
  ASSUME TypeOK, TypeOK', ~died, QueueInv,
         store' = store, pipe' = pipe, used' = used, started' = started
  PROVE  QueueInv'
<1>1. Moves(pipe, pipe', 0, Nothing)
  BY MovesSelf DEF TypeOK
<1>2. Quiet(0)
  BY DEF Quiet
<1> QED BY <1>1, <1>2, NothingJoins, QuietStep

(* A step that appends a command to the pipe.                               *)
LEMMA AppendKeepsQueueInv ==
  ASSUME TypeOK, TypeOK', ~died, QueueInv,
         store' = store, started' = started, used \subseteq used',
         NEW c \in Command, pipe' = Append(pipe, c), Joins(c)
  PROVE  QueueInv'
<1>1. Moves(pipe, pipe', 0, c)
  BY MovesAppend DEF TypeOK
<1>2. Quiet(0)
  BY DEF Quiet
<1> QED BY <1>1, <1>2, QuietStep

(* Nobody brings a dead process back. *)
LEMMA DiedStays ==
  ASSUME [Next]_vars
  PROVE  died' = died \/ died'
<1>1. \A p : Exit(p) => died'
  BY DEF Exit
<1>2. \A p : Reject(p) => died' = died \/ died'
  BY <1>1 DEF Reject
<1> QED
  BY <1>1, <1>2
  DEF Next, Redis, vars, RedisSet, RedisExpire, RedisDel,
      GetVanished, GetRunning, GetSkipped, RunNext, RunNextWithoutWorker,
      RunNextForPoll, Loop, Crash, TimeToLiveEnds, BuildNow,
      Add, BuildRefused, BuildStarted, Poll, FindNext, Register, Disconnect,
      Hello, JobStatus

LEMMA QueueInvStep ==
  ASSUME MaxLoops <= 1, TypeOK, TypeOK', QueueInv, [Next]_vars
  PROVE  QueueInv'
<1> SUFFICES ASSUME ~died PROVE QueueInv'
  BY DiedStays DEF QueueInv
<1>1. CASE RedisSet
  BY <1>1, RedisSetKeepsQueueInv
<1>2. CASE RedisExpire
  <2>1. pipe # <<>> /\ Head(pipe).op = "expire" /\ pipe \in Seq(Command)
    BY <1>2 DEF RedisExpire, Answering, TypeOK
  <2>2. pipe[1].op = "expire"
    BY <2>1, TailIndex
  <2>3. Moves(pipe, pipe', 1, Nothing)
    BY <1>2, <2>1, MovesTail DEF RedisExpire
  <2>4. Quiet(1)
    BY <1>2, <2>2 DEF RedisExpire, Quiet
  <2> QED BY <2>3, <2>4, NothingJoins, QuietStep
<1>3. CASE RedisDel
  <2>1. pipe # <<>> /\ Head(pipe).op = "del" /\ pipe \in Seq(Command)
    BY <1>3 DEF RedisDel, Answering, TypeOK
  <2>2. pipe[1] = Head(pipe)
    BY <2>1, TailIndex
  <2>3. Head(pipe).udid \in Udids
    BY <2>1, HeadOp DEF DelCmd
  <2>4. Moves(pipe, pipe', 1, Nothing)
    BY <1>3, <2>1, MovesTail DEF RedisDel
  <2>5. /\ store'[Head(pipe).udid] = Absent
        /\ \A v \in Udids : store'[v] = store[v] \/ store'[v] = Absent
    BY <1>3, <2>3 DEF RedisDel, TypeOK
  <2>6. Quiet(1)
    BY <1>3, <2>1, <2>2, <2>5 DEF RedisDel, Quiet, Absent
  <2> QED BY <2>4, <2>6, NothingJoins, QuietStep
<1>4. ASSUME NEW u \in Udids, GetVanished(u) PROVE QueueInv'
  BY <1>4, LimitType, RejectKeepsQueueInv DEF GetVanished
<1>5. ASSUME NEW u \in Udids, GetRunning(u) PROVE QueueInv'
  BY <1>5, LimitType, AnswerKeepsQueueInv DEF GetRunning
<1>6. ASSUME NEW u \in Udids, GetSkipped(u) PROVE QueueInv'
  BY <1>6, LimitType, AnswerKeepsQueueInv DEF GetSkipped
<1>7. ASSUME NEW u \in Udids, RunNext(u) PROVE QueueInv'
  BY <1>7, RunNextKeepsQueueInv
<1>8. ASSUME NEW u \in Udids, RunNextWithoutWorker(u) PROVE QueueInv'
  <2>1. Errored \in Entry /\ Errored.status # "waiting" /\ Errored.req = None
    BY EntryTypes DEF Errored
  <2> QED BY <1>8, <2>1, LimitType, AnswerKeepsQueueInv DEF RunNextWithoutWorker
<1>9. ASSUME NEW u \in Udids, RunNextForPoll(u) PROVE QueueInv'
  <2> DEFINE e == Running(store[u].req)
  <2>1. e \in Entry /\ e.status # "waiting" /\ e.req = store[u].req
    BY <1>9, EligibleType, EntryTypes DEF RunNextForPoll, Running
  <2>2. /\ Getting(u) /\ Limit - 1 \in Int
        /\ Reject(Append(Answered(u, Limit - 1), Set(u, e)))
    BY <1>9, LimitType DEF RunNextForPoll
  <2> HIDE DEF e
  <2> QED BY <2>1, <2>2, RejectKeepsQueueInv
<1>10. ASSUME NEW by \in {"loop", "poll"}, FindNext(by),
              by = "loop" => Count(IsLoopScan) < MaxLoops
       PROVE QueueInv'
  <2> DEFINE c == [op |-> "scan", keys |-> Keys, limit |-> MaxRunningBuilds,
                   by |-> by]
  <2>1. c \in Command
    BY QueueAssumption DEF Keys, Command, ScanCmd
  <2>2. Joins(c)
    BY <1>10, NoLoopScan DEF Joins, WritesOwn, IsLoopScan, IsSet
  <2>3. /\ pipe' = Append(pipe, c)
        /\ store' = store /\ started' = started /\ used \subseteq used'
    BY <1>10 DEF FindNext
  <2> HIDE DEF c
  <2> QED BY <2>1, <2>2, <2>3, AppendKeepsQueueInv
<1>11. CASE Crash
  BY <1>11 DEF Crash, Exit, QueueInv
<1>12. ASSUME NEW u \in Udids, TimeToLiveEnds(u) PROVE QueueInv'
  <2>1. Moves(pipe, pipe', 0, Nothing)
    BY <1>12, MovesSelf DEF TimeToLiveEnds, TypeOK
  <2>2. \A v \in Udids : store'[v] = store[v] \/ store'[v] = Absent
    BY <1>12 DEF TimeToLiveEnds, TypeOK
  <2>3. Quiet(0)
    BY <1>12, <2>2 DEF TimeToLiveEnds, Quiet, Absent
  <2> QED BY <2>1, <2>3, NothingJoins, QuietStep
<1>13. ASSUME NEW u \in Udids, NEW r \in Requests, BuildNow(u, r)
       PROVE QueueInv'
  <2>1. Moves(pipe, pipe', 0, Nothing)
    BY <1>13, MovesSelf DEF BuildNow, TypeOK
  <2>2. /\ store' = store /\ started' = started \cup {r}
        /\ used' = used \cup {r} /\ r \notin used
    BY <1>13 DEF BuildNow, Launch
  <2>3. Quiet(0)
    BY <2>2 DEF Quiet
  <2> QED BY <2>1, <2>3, NothingJoins, QuietStep
<1>14. ASSUME NEW u \in Udids, NEW r \in Requests, Add(u, r)
       PROVE QueueInv'
  <2> DEFINE c == Set(u, Waiting(r))
  <2>1. c \in Command
    BY EntryTypes, CommandTypes
  <2>2. c.op = "set" /\ c.entry.req = r
    BY DEF Set, Waiting
  <2>3. /\ pipe' = Append(pipe, c) /\ store' = store /\ started' = started
        /\ used' = used \cup {r} /\ r \notin used
    BY <1>14 DEF Add
  <2>4. r \notin started'
    BY <2>3 DEF QueueInv
  <2> HIDE DEF c
  <2>5. Joins(c)
    BY <2>2, <2>3, <2>4 DEF Joins, WritesOwn, IsLoopScan
  <2> QED BY <2>1, <2>3, <2>5, AppendKeepsQueueInv
<1>15. ASSUME NEW b \in Slots, BuildRefused(b) \/ BuildStarted(b)
       PROVE QueueInv'
  <2>1. Del(builds[b].udid) \in Command
    BY <1>15, CommandTypes
    DEF BuildRefused, BuildStarted, FreeSlot, TypeOK, Build
  <2>2. pipe' = pipe \/ pipe' = Append(pipe, Del(builds[b].udid))
    BY <1>15 DEF BuildRefused, BuildStarted, BuildCallback
  <2>3. store' = store /\ used' = used /\ started' = started
    BY <1>15 DEF BuildRefused, BuildStarted
  <2> QED BY <2>1, <2>2, <2>3, DelJoins, StillKeepsQueueInv,
             AppendKeepsQueueInv
<1>16. ASSUME NEW s \in Sockets,
              \/ Register(s) \/ Disconnect(s)
              \/ \E running \in {"idle", "running"} : Hello(s, running)
              \/ \E r \in Requests : JobStatus(s, r)
       PROVE QueueInv'
  BY <1>16, StillKeepsQueueInv DEF Register, Disconnect, Hello, JobStatus
<1>17. CASE UNCHANGED vars
  BY <1>17, StillKeepsQueueInv DEF vars
<1> QED
  BY <1>1, <1>2, <1>3, <1>4, <1>5, <1>6, <1>7, <1>8, <1>9, <1>10, <1>11,
     <1>12, <1>13, <1>14, <1>15, <1>16, <1>17
  DEF Next, Redis, Loop, Poll

(* The inductive invariant of the queue, for any numbers of devices,        *)
(* requests, workers, polls and builds, if a scheduler scan is answered     *)
(* before the next one: MaxLoops <= 1.                                      *)
THEOREM QueueInvHolds ==
  ASSUME MaxLoops <= 1
  PROVE  Spec => []QueueInv
<1>1. Init => QueueInv
  <2> SUFFICES ASSUME Init PROVE QueueInv
    OBVIOUS
  <2>1. pipe = <<>> /\ started = {} /\ Len(pipe) = 0
    BY DEF Init
  <2>2. \A u \in Udids : store[u].req = None
    BY DEF Init, Absent
  <2>3. \A u \in Udids, r \in Requests : ~Concerns(u, r)
    BY <2>1, <2>2, QueueAssumption DEF Concerns
  <2>4. OneLoopScan /\ ArrivingIsNew
    BY <2>1 DEF OneLoopScan, ArrivingIsNew
  <2>5. StartedIsOverwritten /\ started \subseteq used
    BY <2>1 DEF StartedIsOverwritten
  <2> QED BY <2>3, <2>4, <2>5 DEF QueueInv, OneDevicePerRequest
<1>2. TypeOK /\ TypeOK' /\ QueueInv /\ [Next]_vars => QueueInv'
  BY QueueInvStep
<1> QED BY <1>1, <1>2, TypeCorrect, PTL DEF Spec

(* queue.js:180-193, 202-248.  While the process lives no request goes to   *)
(* the builder twice, for any numbers of devices, requests and workers, if  *)
(* a scheduler scan is answered before the next one.                        *)
THEOREM NothingStartedTwice ==
  ASSUME MaxLoops <= 1
  PROVE  Spec => NeverStartedTwice
<1> DEFINE A == ~died => \A b \in Slots :
                  FreeSlot(b) /\ ~FreeSlot(b)' => builds'[b].req \notin started
<1>1. TypeOK /\ QueueInv /\ [Next]_vars => A
  <2> SUFFICES ASSUME TypeOK, QueueInv, [Next]_vars, ~died,
                      NEW b \in Slots, FreeSlot(b), ~FreeSlot(b)'
               PROVE  builds'[b].req \notin started
    OBVIOUS
  <2>1. ASSUME NEW d \in Slots, NEW r \in Requests, NEW u \in Udids,
               NEW s \in Sockets, NEW q \in BOOLEAN, Launch(d, r, u, s, q),
               r \notin started
        PROVE  builds'[b].req \notin started
    BY <2>1 DEF Launch, FreeSlot, TypeOK
  <2>2. ASSUME NEW u \in Udids, NEW r \in Requests, BuildNow(u, r)
        PROVE  builds'[b].req \notin started
    <3>1. r \notin started
      BY <2>2 DEF BuildNow, QueueInv
    <3> QED BY <2>1, <2>2, <3>1 DEF BuildNow
  <2>3. ASSUME NEW u \in Udids, RunNext(u)
        PROVE  builds'[b].req \notin started
    <3>1. pipe # <<>> /\ Getting(u) /\ IsLoopScan(Head(pipe))
      BY <2>3 DEF RunNext, Getting, Answering, IsLoopScan
    <3>2. pipe[1] = Head(pipe) /\ Len(pipe) \in Nat \ {0}
      BY <3>1, TailIndex DEF TypeOK
    <3>3. IsLoopScan(pipe[1]) /\ u \in pipe[1].keys
      BY <3>1, <3>2 DEF Getting
    <3>4. ~WillBeOverwritten(u)
      BY <3>2, <3>3 DEF WillBeOverwritten
    <3>5. store[u].req \in Requests /\ store[u].status = "waiting"
      BY <2>3, EligibleType DEF RunNext, Eligible
    <3>6. store[u].req \notin started
      BY <3>4, <3>5 DEF QueueInv, StartedIsOverwritten
    <3> QED BY <2>1, <2>3, <3>5, <3>6 DEF RunNext
  <2>4. CASE \E d \in Slots : builds' = [builds EXCEPT ![d] = None]
    BY <2>4 DEF FreeSlot, TypeOK
  <2>5. ASSUME NEW s \in Sockets, Forget(s) PROVE FALSE
    BY <2>5 DEF Forget, FreeSlot, TypeOK
  <2>6. CASE builds' = builds \/ builds' = [d \in Slots |-> None]
    BY <2>6 DEF FreeSlot
  <2> QED
    BY <2>2, <2>3, <2>4, <2>5, <2>6
    DEF Next, Redis, vars, RedisSet, RedisExpire, RedisDel,
        GetVanished, GetRunning, GetSkipped, RunNextWithoutWorker,
        RunNextForPoll, Reject, Exit, Loop, Crash, TimeToLiveEnds, Add,
        BuildRefused, BuildStarted, BuildCallback, Poll, FindNext, Register,
        Disconnect, Hello, JobStatus
<1>2. [][A]_vars <=> NeverStartedTwice
  BY DEF NeverStartedTwice
<1> QED BY <1>1, <1>2, TypeCorrect, QueueInvHolds, PTL DEF Spec
-----------------------------------------------------------------------------
(* Without polls, an entry marked running has its build, or its DEL.        *)

HasBuild(u, r) ==
  \E b \in Slots : /\ ~FreeSlot(b)
                   /\ builds[b].queued /\ builds[b].udid = u /\ builds[b].req = r
Ended(p, i, u) == \E j \in 1..Len(p) : j > i /\ p[j] = Del(u)

(* The inductive invariant: what holds of a running entry holds of the SET  *)
(* that writes one, for the commands behind it; the build is a queued one   *)
(* of the same device, whose callback issues the DEL.                       *)
BuildInv ==
  ~died =>
    /\ \A i \in 1..Len(pipe) : ~IsPollScan(pipe[i])
    /\ \A u \in Udids, r \in Requests :
         store[u] = Running(r) => HasBuild(u, r) \/ Ended(pipe, 0, u)
    /\ \A i \in 1..Len(pipe), u \in Udids, r \in Requests :
         pipe[i] = Set(u, Running(r)) => HasBuild(u, r) \/ Ended(pipe, i, u)

(* What a step that moves the pipe may do to entries and builds.            *)
EndsWith(k, c, u) == Len(pipe') = Len(pipe) - k + 1 /\ c = Del(u)
KeepsBuilds(k, c) ==
  /\ \A u \in Udids, r \in Requests :
       /\ HasBuild(u, r) => HasBuild(u, r)' \/ EndsWith(k, c, u)
       /\ store'[u] = Running(r) =>
            store[u] = Running(r) \/ (k = 1 /\ pipe[1] = Set(u, Running(r)))
       /\ k = 1 /\ pipe[1] = Del(u) => store'[u] # Running(r)
       /\ c = Set(u, Running(r)) => HasBuild(u, r)'
  /\ ~IsPollScan(c)

LEMMA EndedKept ==
  ASSUME TypeOK, TypeOK', NEW k, NEW c, Moves(pipe, pipe', k, c),
         NEW i \in Nat, i >= k, NEW u, Ended(pipe, i, u)
  PROVE  Ended(pipe', i - k, u)
<1>1. Len(pipe) \in Nat /\ Len(pipe') \in Nat /\ k \in {0, 1}
  BY DEF TypeOK, Moves
<1>2. PICK j \in 1..Len(pipe) : j > i /\ pipe[j] = Del(u)
  BY DEF Ended
<1>3. j - k \in 1..(Len(pipe) - k) /\ j - k \in 1..Len(pipe') /\ j - k > i - k
  BY <1>1, <1>2 DEF Moves
<1>4. Same(pipe[j], pipe'[j - k])
  BY <1>1, <1>3 DEF Moves
<1>5. pipe'[j - k] = Del(u)
  BY <1>2, <1>4 DEF Same, Del
<1> QED BY <1>3, <1>5 DEF Ended

LEMMA EndedByLast ==
  ASSUME TypeOK, TypeOK', NEW k, NEW c, Moves(pipe, pipe', k, c),
         NEW u, EndsWith(k, c, u), NEW i \in Nat, i <= Len(pipe) - k
  PROVE  Ended(pipe', i, u)
<1>1. Len(pipe) \in Nat /\ Len(pipe') \in Nat /\ k \in {0, 1}
  BY DEF TypeOK, Moves
<1>2. Len(pipe') \in 1..Len(pipe') /\ Len(pipe') > Len(pipe) - k
  BY <1>1 DEF EndsWith, Moves
<1>3. pipe'[Len(pipe')] = Del(u)
  BY <1>2 DEF EndsWith, Moves
<1> QED BY <1>1, <1>2, <1>3 DEF Ended, EndsWith

LEMMA BuildInvKept ==
  ASSUME TypeOK, TypeOK', ~died, BuildInv,
         NEW k, NEW c, Moves(pipe, pipe', k, c), KeepsBuilds(k, c)
  PROVE  BuildInv'
<1>1. Len(pipe) \in Nat /\ Len(pipe') \in Nat /\ k \in {0, 1} /\ k <= Len(pipe)
  BY DEF TypeOK, Moves
<1>2. ASSUME NEW i \in 1..Len(pipe') PROVE ~IsPollScan(pipe'[i])
  <2>1. CASE i <= Len(pipe) - k
    <3>1. i + k \in 1..Len(pipe) /\ Same(pipe[i + k], pipe'[i])
      BY <1>1, <2>1 DEF Moves
    <3>2. ~IsPollScan(pipe[i + k])
      BY <3>1 DEF BuildInv
    <3> QED BY <3>1, <3>2 DEF Same, IsPollScan
  <2>2. CASE i > Len(pipe) - k
    BY <2>2 DEF Moves, KeepsBuilds
  <2> QED BY <1>1, <2>1, <2>2
<1>3. ASSUME NEW u \in Udids, NEW r \in Requests, store'[u] = Running(r)
      PROVE  HasBuild(u, r)' \/ Ended(pipe', 0, u)
  <2>1. CASE store[u] = Running(r)
    <3>1. CASE HasBuild(u, r)
      BY <1>1, <3>1, EndedByLast DEF KeepsBuilds
    <3>2. CASE Ended(pipe, 0, u)
      <4>1. CASE k = 0
        <5>1. Ended(pipe', 0 - k, u)
          BY <3>2, <4>1, EndedKept
        <5> QED BY <4>1, <5>1
      <4>2. CASE k = 1
        <5>1. PICK j \in 1..Len(pipe) : pipe[j] = Del(u)
          BY <3>2 DEF Ended
        <5>2. j # 1
          BY <1>3, <4>2, <5>1 DEF KeepsBuilds
        <5>3. Ended(pipe, 1, u)
          BY <5>1, <5>2 DEF Ended
        <5>4. Ended(pipe', 1 - k, u)
          BY <4>2, <5>3, EndedKept
        <5> QED BY <4>2, <5>4
      <4> QED BY <1>1, <4>1, <4>2
    <3> QED BY <2>1, <3>1, <3>2 DEF BuildInv
  <2>2. CASE k = 1 /\ pipe[1] = Set(u, Running(r))
    <3>1. 1 \in 1..Len(pipe)
      BY <1>1, <2>2
    <3>2. HasBuild(u, r) \/ Ended(pipe, 1, u)
      BY <2>2, <3>1 DEF BuildInv
    <3>3. CASE HasBuild(u, r)
      BY <1>1, <3>3, EndedByLast DEF KeepsBuilds
    <3>4. CASE Ended(pipe, 1, u)
      <4>1. Ended(pipe', 1 - k, u)
        BY <2>2, <3>4, EndedKept
      <4> QED BY <2>2, <4>1
    <3> QED BY <3>2, <3>3, <3>4
  <2> QED BY <1>3, <2>1, <2>2 DEF KeepsBuilds
<1>4. ASSUME NEW i \in 1..Len(pipe'), NEW u \in Udids, NEW r \in Requests,
             pipe'[i] = Set(u, Running(r))
      PROVE  HasBuild(u, r)' \/ Ended(pipe', i, u)
  <2>1. IsSet(pipe'[i], u)
    BY <1>4 DEF IsSet, Set
  <2>2. CASE i + k \in 1..Len(pipe) /\ pipe'[i] = pipe[i + k]
    <3>1. HasBuild(u, r) \/ Ended(pipe, i + k, u)
      BY <1>4, <2>2 DEF BuildInv
    <3>2. CASE HasBuild(u, r)
      <4>1. i <= Len(pipe) - k /\ i \in Nat
        BY <1>1, <2>2
      <4> QED BY <3>2, <4>1, EndedByLast DEF KeepsBuilds
    <3>3. CASE Ended(pipe, i + k, u)
      <4>1. Ended(pipe', (i + k) - k, u)
        BY <1>1, <3>3, EndedKept
      <4>2. (i + k) - k = i
        BY <1>1
      <4> QED BY <4>1, <4>2
    <3> QED BY <3>1, <3>2, <3>3
  <2>3. CASE i = Len(pipe) - k + 1 /\ pipe'[i] = c
    BY <1>4, <2>3 DEF KeepsBuilds
  <2> QED BY <2>1, <2>2, <2>3, SetMoves
<1> QED BY <1>2, <1>3, <1>4 DEF BuildInv

(* Builds as they are, or with other workers, or with one more.             *)
LEMMA BuildsSame ==
  ASSUME builds' = builds
  PROVE  \A u, r : HasBuild(u, r) => HasBuild(u, r)'
BY DEF HasBuild, FreeSlot

LEMMA BuildsForget ==
  ASSUME TypeOK, NEW s, Forget(s)
  PROVE  \A u, r : HasBuild(u, r) => HasBuild(u, r)'
<1> SUFFICES ASSUME NEW u, NEW r, HasBuild(u, r) PROVE HasBuild(u, r)'
  OBVIOUS
<1>1. PICK b \in Slots : /\ ~FreeSlot(b)
                         /\ builds[b].queued /\ builds[b].udid = u /\ builds[b].req = r
  BY DEF HasBuild
<1>2. builds[b] \in Build
  BY <1>1 DEF FreeSlot, TypeOK
<1>3. builds'[b] = IF builds[b].worker = s THEN [builds[b] EXCEPT !.worker = None]
                   ELSE builds[b]
  BY <1>1 DEF Forget
<1>4. builds'[b].queued /\ builds'[b].udid = u /\ builds'[b].req = r
  BY <1>1, <1>2, <1>3 DEF Build
<1>5. builds'[b] # None
  <2>1. CASE builds[b].worker = s
    <3>1. builds'[b] \in Build
      BY <1>2, <1>3, <2>1 DEF Build
    <3> QED BY <3>1, QueueAssumption
  <2>2. CASE builds[b].worker # s
    BY <1>1, <1>3, <2>2 DEF FreeSlot
  <2> QED BY <2>1, <2>2
<1> QED BY <1>4, <1>5 DEF HasBuild, FreeSlot

LEMMA BuildsLaunch ==
  ASSUME TypeOK, NEW b \in Slots, FreeSlot(b), NEW r, NEW u, NEW s, NEW q,
         Launch(b, r, u, s, q)
  PROVE  /\ \A v, m : HasBuild(v, m) => HasBuild(v, m)'
         /\ builds'[b] = [req |-> r, udid |-> u, worker |-> s, queued |-> q]
BY DEF Launch, HasBuild, FreeSlot, TypeOK

LEMMA AnswerKeepsBuildInv ==
  ASSUME TypeOK, TypeOK', ~died, BuildInv, store' = store, builds' = builds,
         NEW u \in Udids, Getting(u), NEW l \in Int, pipe' = Answered(u, l)
  PROVE  BuildInv'
<1>1. pipe # <<>> /\ Head(pipe).op = "scan" /\ pipe \in Seq(Command)
  BY DEF Getting, Answering, TypeOK
<1>2. pipe[1].op = "scan"
  BY <1>1, TailIndex
<1>3. PICK k \in {0, 1} : Moves(pipe, pipe', k, Nothing)
  BY MovesAnswered
<1>4. KeepsBuilds(k, Nothing)
  BY <1>2, BuildsSame DEF KeepsBuilds, Nothing, Del, Set, IsPollScan
<1> QED BY <1>3, <1>4, BuildInvKept

LEMMA AnswerSetKeepsBuildInv ==
  ASSUME TypeOK, TypeOK', ~died, BuildInv, store' = store,
         \A v, r : HasBuild(v, r) => HasBuild(v, r)',
         NEW u \in Udids, Getting(u), NEW l \in Int, NEW e \in Entry,
         pipe' = Append(Answered(u, l), Set(u, e)),
         \A r \in Requests : e = Running(r) => HasBuild(u, r)'
  PROVE  BuildInv'
<1> DEFINE q == Answered(u, l)
           c == Set(u, e)
<1>1. pipe # <<>> /\ Head(pipe).op = "scan" /\ pipe \in Seq(Command)
  BY DEF Getting, Answering, TypeOK
<1>2. pipe[1].op = "scan"
  BY <1>1, TailIndex
<1>3. c \in Command /\ q \in Seq(Command)
  BY CommandTypes, AnsweredType
<1>4. PICK k \in {0, 1} : Moves(pipe, q, k, c) /\ Len(q) = Len(pipe) - k
  BY MovesAnswered
<1>5. c.op = "set" /\ c.udid = u /\ c.entry = e /\ pipe' = Append(q, c)
  BY DEF Set
<1> HIDE DEF q, c
<1>6. Moves(pipe, pipe', k, c)
  BY <1>1, <1>3, <1>4, <1>5, MovesThenAppend
<1>7. ASSUME NEW v \in Udids, NEW r \in Requests, c = Set(v, Running(r))
      PROVE  HasBuild(v, r)'
  <2>1. v = u /\ e = Running(r)
    BY <1>5, <1>7 DEF Set
  <2> QED BY <2>1
<1>8. KeepsBuilds(k, c)
  BY <1>2, <1>5, <1>7 DEF KeepsBuilds, Del, Set, IsPollScan
<1> QED BY <1>6, <1>8, BuildInvKept

LEMMA StillKeepsBuildInv ==
  ASSUME TypeOK, TypeOK', ~died, BuildInv, store' = store, pipe' = pipe,
         \A u, r : HasBuild(u, r) => HasBuild(u, r)'
  PROVE  BuildInv'
<1>1. Moves(pipe, pipe', 0, Nothing)
  BY MovesSelf DEF TypeOK
<1>2. KeepsBuilds(0, Nothing)
  BY DEF KeepsBuilds, Nothing, Set, IsPollScan
<1> QED BY <1>1, <1>2, BuildInvKept

LEMMA AppendKeepsBuildInv ==
  ASSUME TypeOK, TypeOK', ~died, BuildInv, store' = store, builds' = builds,
         NEW c \in Command, pipe' = Append(pipe, c), ~IsPollScan(c),
         \A u \in Udids, r \in Requests : c # Set(u, Running(r))
  PROVE  BuildInv'
<1>1. Moves(pipe, pipe', 0, c)
  BY MovesAppend DEF TypeOK
<1>2. KeepsBuilds(0, c)
  BY BuildsSame DEF KeepsBuilds
<1> QED BY <1>1, <1>2, BuildInvKept

(* A build that ends leaves its DEL.                                        *)
LEMMA CallbackKeepsBuildInv ==
  ASSUME TypeOK, TypeOK', ~died, BuildInv, store' = store,
         NEW b \in Slots, ~FreeSlot(b), BuildCallback(b)
  PROVE  BuildInv'
<1>1. builds[b] \in Build
  BY DEF FreeSlot, TypeOK
<1>2. \A u, r : HasBuild(u, r) =>
        HasBuild(u, r)' \/ (builds[b].queued /\ builds[b].udid = u)
  BY DEF HasBuild, BuildCallback, FreeSlot, TypeOK
<1>3. CASE builds[b].queued
  <2> DEFINE c == Del(builds[b].udid)
  <2>1. c \in Command /\ pipe' = Append(pipe, c)
    BY <1>1, <1>3, CommandTypes DEF BuildCallback, Build
  <2>2. c.op = "del" /\ \A u : builds[b].udid = u => c = Del(u)
    BY DEF Del
  <2> HIDE DEF c
  <2>3. Moves(pipe, pipe', 0, c)
    BY <2>1, MovesAppend DEF TypeOK
  <2>4. Len(pipe') = Len(pipe) - 0 + 1
    BY <2>1 DEF TypeOK
  <2>5. KeepsBuilds(0, c)
    BY <1>2, <2>2, <2>4 DEF KeepsBuilds, EndsWith, Set, IsPollScan
  <2> QED BY <2>3, <2>5, BuildInvKept
<1>4. CASE ~builds[b].queued
  <2>1. pipe' = pipe
    BY <1>4 DEF BuildCallback
  <2> QED BY <1>2, <1>4, <2>1, StillKeepsBuildInv
<1> QED BY <1>3, <1>4

LEMMA RedisSetKeepsBuildInv ==
  ASSUME TypeOK, TypeOK', ~died, BuildInv, RedisSet
  PROVE  BuildInv'
<1> DEFINE v == Head(pipe).udid
           e == Head(pipe).entry
<1>1. pipe # <<>> /\ Head(pipe) \in SetCmd /\ pipe \in Seq(Command) /\ v \in Udids
  BY HeadOp DEF RedisSet, Answering, TypeOK, SetCmd
<1>2. pipe[1] = Set(v, e) /\ pipe[1].op = "set"
  BY <1>1, TailIndex DEF SetCmd, Set
<1>3. store' = [store EXCEPT ![v] = e] /\ builds' = builds
  BY DEF RedisSet
<1>4. \E c \in Command \cup {Nothing} :
        Moves(pipe, pipe', 1, c) /\ c.op \in {"none", "expire"}
  <2> DEFINE t == Tail(pipe)
             x == Expire(v)
  <2>1. t \in Seq(Command) /\ Len(t) = Len(pipe) - 1
    BY <1>1, HeadTail, TailIndex
  <2>2. x \in Command /\ x.op = "expire"
    BY <1>1, CommandTypes DEF Expire
  <2>3. pipe' = Append(t, x) \/ pipe' = t
    BY DEF RedisSet
  <2>4. Moves(pipe, t, 1, x) /\ Moves(pipe, t, 1, Nothing)
    BY <1>1, MovesTail
  <2> HIDE DEF t, x
  <2>5. Moves(pipe, Append(t, x), 1, x)
    BY <1>1, <2>1, <2>2, <2>4, MovesThenAppend
  <2>6. Nothing.op = "none"
    BY DEF Nothing
  <2> QED BY <2>2, <2>3, <2>4, <2>5, <2>6
<1>5. PICK c \in Command \cup {Nothing} :
        Moves(pipe, pipe', 1, c) /\ c.op \in {"none", "expire"}
  BY <1>4
<1>6. \A u \in Udids, r \in Requests :
        store'[u] = Running(r) => store[u] = Running(r) \/ pipe[1] = Set(u, Running(r))
  BY <1>1, <1>2, <1>3 DEF TypeOK
<1>7. KeepsBuilds(1, c)
  BY <1>2, <1>3, <1>5, <1>6, BuildsSame DEF KeepsBuilds, Del, Set, IsPollScan
<1> QED BY <1>5, <1>7, BuildInvKept

LEMMA RunNextKeepsBuildInv ==
  ASSUME TypeOK, TypeOK', ~died, BuildInv, NEW u \in Udids, RunNext(u)
  PROVE  BuildInv'
<1>1. PICK r \in Requests : r = store[u].req
  BY EligibleType DEF RunNext
<1> DEFINE e == Running(r)
<1>2. e \in Entry /\ Limit - 1 \in Int /\ Getting(u)
  BY EntryTypes, LimitType DEF RunNext
<1>3. PICK s \in Sockets, b \in Slots : FreeSlot(b) /\ Launch(b, r, u, s, TRUE)
  BY <1>1 DEF RunNext
<1>4. builds'[b] = [req |-> r, udid |-> u, worker |-> s, queued |-> TRUE]
  BY <1>3 DEF Launch, TypeOK
<1>5. \A v, m : HasBuild(v, m) => HasBuild(v, m)'
  BY <1>3, BuildsLaunch
<1>6. builds'[b] # None
  <2>1. builds'[b] \in Build
    BY <1>4 DEF Build
  <2> QED BY <2>1, QueueAssumption
<1>7. HasBuild(u, r)'
  BY <1>4, <1>6 DEF HasBuild, FreeSlot
<1>8. ASSUME NEW m \in Requests, e = Running(m) PROVE HasBuild(u, m)'
  <2>1. m = r
    BY <1>8 DEF Running
  <2> QED BY <1>7, <2>1
<1>9. /\ pipe' = Append(Answered(u, Limit - 1), Set(u, e))
      /\ store' = store
  BY <1>1 DEF RunNext
<1> HIDE DEF e
<1> QED BY <1>2, <1>5, <1>8, <1>9, AnswerSetKeepsBuildInv

LEMMA BuildInvStep ==
  ASSUME Pollers = {}, TypeOK, TypeOK', BuildInv, [Next]_vars
  PROVE  BuildInv'
<1> SUFFICES ASSUME ~died, ~died' PROVE BuildInv'
  BY DiedStays DEF BuildInv
<1>1. CASE RedisSet
  BY <1>1, RedisSetKeepsBuildInv
<1>2. CASE RedisExpire
  <2>1. pipe # <<>> /\ Head(pipe).op = "expire" /\ pipe \in Seq(Command)
    BY <1>2 DEF RedisExpire, Answering, TypeOK
  <2>2. pipe[1].op = "expire"
    BY <2>1, TailIndex
  <2>3. Moves(pipe, pipe', 1, Nothing)
    BY <1>2, <2>1, MovesTail DEF RedisExpire
  <2>4. KeepsBuilds(1, Nothing)
    BY <1>2, <2>2, BuildsSame
       DEF RedisExpire, KeepsBuilds, Nothing, Del, Set, IsPollScan
  <2> QED BY <2>3, <2>4, BuildInvKept
<1>3. CASE RedisDel
  <2>1. pipe # <<>> /\ Head(pipe).op = "del" /\ pipe \in Seq(Command)
    BY <1>3 DEF RedisDel, Answering, TypeOK
  <2>2. pipe[1] = Head(pipe)
    BY <2>1, TailIndex
  <2>3. Head(pipe).udid \in Udids
    BY <2>1, HeadOp DEF DelCmd
  <2>4. Moves(pipe, pipe', 1, Nothing)
    BY <1>3, <2>1, MovesTail DEF RedisDel
  <2>5. /\ store'[Head(pipe).udid] = Absent /\ builds' = builds
        /\ \A v \in Udids : store'[v] = store[v] \/ store'[v] = Absent
    BY <1>3, <2>3 DEF RedisDel, TypeOK
  <2>6. \A r : Absent # Running(r)
    BY DEF Absent, Running
  <2>7. \A v : pipe[1] = Del(v) => Head(pipe).udid = v
    BY <2>2 DEF Del
  <2>8. KeepsBuilds(1, Nothing)
    BY <2>5, <2>6, <2>7, BuildsSame DEF KeepsBuilds, Nothing, Set, IsPollScan
  <2> QED BY <2>4, <2>8, BuildInvKept
<1>4. ASSUME NEW u \in Udids, GetVanished(u) PROVE BuildInv'
  <2>1. /\ Getting(u) /\ Limit \in Int /\ pipe' = Answered(u, Limit)
        /\ store' = store /\ builds' = builds
    BY <1>4, LimitType DEF GetVanished, Reject, Exit
  <2> QED BY <2>1, AnswerKeepsBuildInv
<1>5. ASSUME NEW u \in Udids, GetRunning(u) PROVE BuildInv'
  BY <1>5, LimitType, AnswerKeepsBuildInv DEF GetRunning
<1>6. ASSUME NEW u \in Udids, GetSkipped(u) PROVE BuildInv'
  BY <1>6, LimitType, AnswerKeepsBuildInv DEF GetSkipped
<1>7. ASSUME NEW u \in Udids, RunNext(u) PROVE BuildInv'
  BY <1>7, RunNextKeepsBuildInv
<1>8. ASSUME NEW u \in Udids, RunNextWithoutWorker(u) PROVE BuildInv'
  <2>1. Errored \in Entry /\ \A r : Errored # Running(r)
    BY EntryTypes DEF Errored, Running
  <2>2. /\ Getting(u) /\ Limit - 1 \in Int /\ store' = store /\ builds' = builds
        /\ pipe' = Append(Answered(u, Limit - 1), Set(u, Errored))
    BY <1>8, LimitType DEF RunNextWithoutWorker
  <2> QED BY <2>1, <2>2, BuildsSame, AnswerSetKeepsBuildInv
<1>9. ASSUME NEW u \in Udids, RunNextForPoll(u) PROVE BuildInv'
  <2>1. pipe # <<>> /\ IsPollScan(Head(pipe)) /\ pipe \in Seq(Command)
    BY <1>9 DEF RunNextForPoll, Getting, Answering, IsPollScan, TypeOK
  <2>2. pipe[1] = Head(pipe) /\ 1 \in 1..Len(pipe)
    BY <2>1, TailIndex
  <2> QED BY <2>1, <2>2 DEF BuildInv
<1>10. CASE Loop
  <2> DEFINE c == [op |-> "scan", keys |-> Keys, limit |-> MaxRunningBuilds,
                   by |-> "loop"]
  <2>1. c \in Command
    BY QueueAssumption DEF Keys, Command, ScanCmd
  <2>2. c.op = "scan" /\ c.by = "loop"
    OBVIOUS
  <2>3. pipe' = Append(pipe, c) /\ store' = store /\ builds' = builds
    BY <1>10 DEF Loop, FindNext
  <2> HIDE DEF c
  <2> QED BY <2>1, <2>2, <2>3, AppendKeepsBuildInv DEF IsPollScan, Set
<1>11. CASE Crash
  BY <1>11 DEF Crash, Exit
<1>12. ASSUME NEW u \in Udids, TimeToLiveEnds(u) PROVE BuildInv'
  <2>1. Moves(pipe, pipe', 0, Nothing)
    BY <1>12, MovesSelf DEF TimeToLiveEnds, TypeOK
  <2>2. \A v \in Udids : store'[v] = store[v] \/ store'[v] = Absent
    BY <1>12 DEF TimeToLiveEnds, TypeOK
  <2>3. \A r : Absent # Running(r)
    BY DEF Absent, Running
  <2>4. KeepsBuilds(0, Nothing)
    BY <1>12, <2>2, <2>3, BuildsSame
       DEF TimeToLiveEnds, KeepsBuilds, Nothing, Set, IsPollScan
  <2> QED BY <2>1, <2>4, BuildInvKept
<1>13. ASSUME NEW u \in Udids, NEW r \in Requests, BuildNow(u, r)
       PROVE BuildInv'
  BY <1>13, BuildsLaunch, StillKeepsBuildInv DEF BuildNow
<1>14. ASSUME NEW u \in Udids, NEW r \in Requests, Add(u, r)
       PROVE BuildInv'
  <2> DEFINE c == Set(u, Waiting(r))
  <2>1. c \in Command
    BY EntryTypes, CommandTypes
  <2>2. c.op = "set" /\ \A v, m : c # Set(v, Running(m))
    BY DEF Set, Waiting, Running
  <2>3. pipe' = Append(pipe, c) /\ store' = store /\ builds' = builds
    BY <1>14 DEF Add
  <2> HIDE DEF c
  <2> QED BY <2>1, <2>2, <2>3, AppendKeepsBuildInv DEF IsPollScan
<1>15. ASSUME NEW b \in Slots, BuildRefused(b) \/ BuildStarted(b)
       PROVE BuildInv'
  BY <1>15, CallbackKeepsBuildInv DEF BuildRefused, BuildStarted
<1>16. ASSUME NEW s \in Sockets,
              \/ Register(s) \/ Disconnect(s)
              \/ \E running \in {"idle", "running"} : Hello(s, running)
              \/ \E r \in Requests : JobStatus(s, r)
       PROVE BuildInv'
  BY <1>16, BuildsSame, BuildsForget, StillKeepsBuildInv
     DEF Register, Disconnect, Hello, JobStatus
<1>17. CASE UNCHANGED vars
  BY <1>17, BuildsSame, StillKeepsBuildInv DEF vars
<1> QED
  BY <1>1, <1>2, <1>3, <1>4, <1>5, <1>6, <1>7, <1>8, <1>9, <1>10, <1>11,
     <1>12, <1>13, <1>14, <1>15, <1>16, <1>17
  DEF Next, Redis, Poll

(* queue.js:235-248.  While the process lives and no worker polls, what is  *)
(* marked running is being built or its DEL is on its way, for any numbers  *)
(* of devices, requests, workers and overlapping scans.                     *)
THEOREM RunningIsBuilt ==
  ASSUME Pollers = {}
  PROVE  Spec => []RunningHasBuild
<1>1. Init => BuildInv
  <2>1. \A r : Absent # Running(r)
    BY DEF Absent, Running
  <2> QED BY <2>1 DEF Init, BuildInv
<1>2. TypeOK /\ TypeOK' /\ BuildInv /\ [Next]_vars => BuildInv'
  BY BuildInvStep
<1>3. TypeOK /\ BuildInv => RunningHasBuild
  <2> SUFFICES ASSUME TypeOK, BuildInv, ~died, NEW u \in Udids,
                      store[u].status = "running"
               PROVE  \/ Del(u) \in PipeSet
                      \/ \E b \in Slots : ~FreeSlot(b) /\ builds[b].req = store[u].req
    BY DEF RunningHasBuild
  <2>1. PICK r \in Requests : store[u] = Running(r)
    BY DEF TypeOK, Entry, Absent, Errored, Waiting, Running
  <2>2. store[u].req = r
    BY <2>1 DEF Running
  <2> QED BY <2>1, <2>2 DEF BuildInv, HasBuild, Ended, PipeSet
<1> QED BY <1>1, <1>2, <1>3, TypeCorrect, PTL DEF Spec
-----------------------------------------------------------------------------
(* No request waits again, whatever polls, scans, crashes and rejections    *)
(* there are.                                                               *)

(* The part of QueueInv that survives the end of the process.               *)
RequestsInv ==
  started \subseteq used /\ OneDevicePerRequest /\ ArrivingIsNew

(* A step of the living process.                                            *)
Lives ==
  \E k, c : Moves(pipe, pipe', k, c) /\ Stores(k) /\ WritesOwn(c) /\ Starts

(* Its end: what is stored was stored, or is lost, or is the entry of a SET  *)
(* that was sent, or replaces the entry's own status.                       *)
Settles(u) ==
  \/ store'[u] = store[u]
  \/ store'[u].status # "waiting" /\ store'[u].req \in {None, store[u].req}
  \/ \E i \in 1..Len(pipe) : pipe[i] = Set(u, store'[u])
Ends ==
  /\ pipe' = <<>> /\ used' = used /\ started' = started
  /\ \A u \in Udids : Settles(u)

LEMMA SetIs ==
  ASSUME NEW c \in Command, NEW u, IsSet(c, u)
  PROVE  c = Set(u, c.entry) /\ c.entry \in Entry
BY DEF Command, SetCmd, ExpireCmd, DelCmd, ScanCmd, IsSet, Set

(* What a command may be whose callback ends the process.                   *)
Marks(c) ==
  \A u \in Udids : IsSet(c, u) =>
    c.entry.status # "waiting" /\ c.entry.req \in {None, store[u].req}

LEMMA MarksWritesOwn ==
  ASSUME NEW c, Marks(c) PROVE WritesOwn(c)
BY QueueAssumption DEF Marks, WritesOwn

LEMMA ExitEnds ==
  ASSUME TypeOK, NEW p \in Seq(Command), NEW k, NEW c, Moves(pipe, p, k, c),
         Marks(c), Exit(p), used' = used, started' = started
  PROVE  Ends
<1>0. Len(pipe) \in Nat /\ Len(p) \in Nat /\ k \in {0, 1}
  BY DEF TypeOK, Moves
<1>1. PICK n \in 0..Len(p) : store' = [u \in Udids |-> EntryAfter(p, n, u)]
  BY DEF Exit
<1>2. ASSUME NEW u \in Udids PROVE Settles(u)
  <2>1. CASE \E i \in 1..n : IsLast(i, Writes(p, n, u))
    <3>1. PICK i \in 1..n : /\ i \in Writes(p, n, u)
                            /\ store'[u] = Written(p[i])
      BY <1>1, <2>1 DEF EntryAfter, IsLast
    <3>2. i \in 1..Len(p) /\ p[i] \in Command /\ p[i].udid = u
      BY <1>0, <3>1 DEF Writes
    <3>3. CASE p[i].op = "set"
      <4>1. IsSet(p[i], u) /\ p[i] = Set(u, store'[u])
        BY <3>1, <3>2, <3>3, SetIs DEF IsSet, Written
      <4>2. CASE i <= Len(pipe) - k
        <5>1. i + k \in 1..Len(pipe) /\ Same(pipe[i + k], p[i])
          BY <1>0, <3>2, <4>2 DEF Moves
        <5>2. pipe[i + k] = p[i]
          BY <3>3, <5>1 DEF Same
        <5> QED BY <4>1, <5>1, <5>2 DEF Settles
      <4>3. CASE i > Len(pipe) - k
        <5>1. p[i] = c
          BY <1>0, <3>2, <4>3 DEF Moves
        <5>2. c.entry = store'[u]
          BY <4>1, <5>1 DEF Set
        <5> QED BY <4>1, <5>1, <5>2 DEF Marks, Settles
      <4> QED BY <1>0, <3>2, <4>2, <4>3
    <3>4. CASE p[i].op # "set"
      BY <3>1, <3>4 DEF Written, Absent, Settles
    <3> QED BY <3>3, <3>4
  <2>2. CASE ~\E i \in 1..n : IsLast(i, Writes(p, n, u))
    BY <1>1, <2>2 DEF EntryAfter, Settles
  <2> QED BY <2>1, <2>2
<1> QED BY <1>2 DEF Ends, Exit

LEMMA StillLives ==
  ASSUME TypeOK, RequestsInv, store' = store, started' = started, used' = used,
         NEW k, NEW c, Moves(pipe, pipe', k, c), WritesOwn(c)
  PROVE  Lives
<1>1. Stores(k) /\ Starts
  BY DEF Stores, Starts, RequestsInv
<1> QED BY <1>1 DEF Lives

(* How the answer to a GET changes the pipe.                                *)
LEMMA AnswerMoves ==
  ASSUME TypeOK, NEW u \in Udids, Getting(u), NEW l \in Int, NEW p,
         \/ p = Answered(u, l)
         \/ \E e \in Entry : /\ p = Append(Answered(u, l), Set(u, e))
                             /\ e.status # "waiting"
                             /\ e.req \in {None, store[u].req}
  PROVE  p \in Seq(Command) /\ \E k, c : Moves(pipe, p, k, c) /\ Marks(c)
<1>1. Answered(u, l) \in Seq(Command) /\ pipe \in Seq(Command)
  BY AnsweredType DEF TypeOK
<1>2. CASE p = Answered(u, l)
  <2>1. Marks(Nothing)
    BY DEF Marks, Nothing, IsSet
  <2> QED BY <1>1, <1>2, <2>1, MovesAnswered
<1>3. ASSUME NEW e \in Entry, p = Append(Answered(u, l), Set(u, e)),
             e.status # "waiting", e.req \in {None, store[u].req}
      PROVE  p \in Seq(Command) /\ \E k, c : Moves(pipe, p, k, c) /\ Marks(c)
  <2> DEFINE q == Answered(u, l)
             c == Set(u, e)
  <2>1. c \in Command
    BY CommandTypes
  <2>2. c.entry = e /\ c.udid = u
    BY DEF Set
  <2>3. PICK k \in {0, 1} : Moves(pipe, q, k, c) /\ Len(q) = Len(pipe) - k
    BY MovesAnswered
  <2>4. p = Append(q, c)
    BY <1>3
  <2>5. q \in Seq(Command)
    BY <1>1
  <2> HIDE DEF q, c
  <2>6. p \in Seq(Command) /\ Moves(pipe, p, k, c)
    BY <1>1, <2>1, <2>3, <2>4, <2>5, MovesThenAppend
  <2>7. Marks(c)
    BY <1>3, <2>2 DEF Marks, IsSet
  <2> QED BY <2>6, <2>7
<1> QED BY <1>2, <1>3

LEMMA AnswerLives ==
  ASSUME TypeOK, RequestsInv, store' = store, started' = started, used' = used,
         NEW u \in Udids, Getting(u), NEW l \in Int,
         \/ pipe' = Answered(u, l)
         \/ \E e \in Entry : /\ pipe' = Append(Answered(u, l), Set(u, e))
                             /\ e.status # "waiting"
                             /\ e.req \in {None, store[u].req}
  PROVE  Lives
<1>1. PICK k, c : Moves(pipe, pipe', k, c) /\ Marks(c)
  BY AnswerMoves
<1> QED BY <1>1, MarksWritesOwn, StillLives

LEMMA RejectLivesOrEnds ==
  ASSUME TypeOK, RequestsInv, NEW u \in Udids, Getting(u), NEW l \in Int,
         NEW p, Reject(p),
         \/ p = Answered(u, l)
         \/ \E e \in Entry : /\ p = Append(Answered(u, l), Set(u, e))
                             /\ e.status # "waiting"
                             /\ e.req \in {None, store[u].req}
  PROVE  Lives \/ Ends
<1>1. p \in Seq(Command) /\ \E k, c : Moves(pipe, p, k, c) /\ Marks(c)
  BY AnswerMoves
<1>2. PICK k, c : Moves(pipe, p, k, c) /\ Marks(c)
  BY <1>1
<1>3. used' = used /\ started' = started
  BY DEF Reject
<1>4. CASE Exit(p)
  BY <1>1, <1>2, <1>3, <1>4, ExitEnds
<1>5. CASE pipe' = p /\ store' = store
  BY <1>2, <1>3, <1>5, MarksWritesOwn, StillLives
<1> QED BY <1>4, <1>5 DEF Reject

LEMMA PlainJoin ==
  ASSUME NEW u
  PROVE  WritesOwn(Nothing) /\ WritesOwn(Expire(u)) /\ WritesOwn(Del(u))
BY DEF WritesOwn, Nothing, Expire, Del, IsSet

(* A write that Redis answers.                                              *)
LEMMA RedisSetLives ==
  ASSUME TypeOK, RequestsInv, RedisSet
  PROVE  Lives
<1> DEFINE u == Head(pipe).udid
           e == Head(pipe).entry
           t == Tail(pipe)
           x == Expire(u)
<1>1. /\ pipe # <<>> /\ Head(pipe) \in SetCmd /\ t \in Seq(Command)
      /\ pipe \in Seq(Command) /\ u \in Udids
  BY HeadOp, HeadTail DEF RedisSet, Answering, TypeOK, SetCmd
<1>2. pipe[1] = Set(u, e) /\ Len(t) = Len(pipe) - 1
  BY <1>1, TailIndex DEF SetCmd, Set
<1>3. /\ store' = [store EXCEPT ![u] = e]
      /\ started' = started /\ used' = used
      /\ pipe' = Append(t, x) \/ pipe' = t
  BY DEF RedisSet
<1>4. x \in Command
  BY <1>1, CommandTypes
<1>5. Stores(1)
  BY <1>1, <1>2, <1>3 DEF Stores, TypeOK
<1>6. Starts
  BY <1>3 DEF Starts, RequestsInv
<1>7. WritesOwn(x) /\ WritesOwn(Nothing)
  BY PlainJoin
<1>8. Moves(pipe, t, 1, Nothing) /\ Moves(pipe, t, 1, x)
  BY <1>1, MovesTail
<1> HIDE DEF u, e, t, x
<1>9. Moves(pipe, Append(t, x), 1, x)
  BY <1>1, <1>2, <1>4, <1>8, MovesThenAppend
<1> QED BY <1>3, <1>5, <1>6, <1>7, <1>8, <1>9 DEF Lives

LEMMA RequestsStep ==
  ASSUME TypeOK, RequestsInv, [Next]_vars
  PROVE  Lives \/ Ends
<1>0. Moves(pipe, pipe, 0, Nothing) /\ WritesOwn(Nothing)
  BY MovesSelf, PlainJoin DEF TypeOK
<1>1. ASSUME store' = store, started' = started, used' = used, pipe' = pipe
      PROVE  Lives
  BY <1>0, <1>1, StillLives
<1>2. ASSUME store' = store, started' = started, used \subseteq used',
             NEW c \in Command, pipe' = Append(pipe, c), WritesOwn(c)
      PROVE  Lives
  <2>1. Moves(pipe, pipe', 0, c)
    BY <1>2, MovesAppend DEF TypeOK
  <2>2. Stores(0) /\ Starts
    BY <1>2 DEF Stores, Starts, RequestsInv
  <2> QED BY <1>2, <2>1, <2>2 DEF Lives
<1>3. ASSUME NEW k, Moves(pipe, pipe', k, Nothing), used' = used,
             started' = started,
             \A v \in Udids : store'[v] = store[v] \/ store'[v] = Absent
      PROVE  Lives
  <2>1. Stores(k) /\ Starts
    BY <1>3 DEF Stores, Starts, RequestsInv, Absent
  <2> QED BY <1>0, <1>3, <2>1 DEF Lives
<1>4. CASE RedisExpire
  <2>1. pipe # <<>> /\ pipe \in Seq(Command)
    BY <1>4 DEF RedisExpire, Answering, TypeOK
  <2> QED BY <1>3, <1>4, <2>1, MovesTail DEF RedisExpire
<1>5. CASE RedisDel
  <2>1. pipe # <<>> /\ pipe \in Seq(Command)
    BY <1>5 DEF RedisDel, Answering, TypeOK
  <2>2. \A v \in Udids : store'[v] = store[v] \/ store'[v] = Absent
    BY <1>5 DEF RedisDel, TypeOK
  <2> QED BY <1>3, <1>5, <2>1, <2>2, MovesTail DEF RedisDel
<1>6. ASSUME NEW u \in Udids, GetVanished(u) PROVE Lives \/ Ends
  BY <1>6, LimitType, RejectLivesOrEnds DEF GetVanished
<1>7. ASSUME NEW u \in Udids, GetRunning(u) \/ GetSkipped(u) PROVE Lives
  BY <1>7, LimitType, AnswerLives DEF GetRunning, GetSkipped
<1>8. ASSUME NEW u \in Udids, RunNext(u) PROVE Lives
  <2> DEFINE e == Running(store[u].req)
  <2>1. e \in Entry /\ e.status # "waiting" /\ e.req = store[u].req
    BY <1>8, EligibleType, EntryTypes DEF RunNext, Running
  <2>2. /\ Getting(u) /\ Limit - 1 \in Int
        /\ pipe' = Append(Answered(u, Limit - 1), Set(u, e))
    BY <1>8, LimitType DEF RunNext
  <2> HIDE DEF e
  <2>3. PICK k, c : Moves(pipe, pipe', k, c) /\ Marks(c)
    BY <2>1, <2>2, AnswerMoves
  <2>4. store' = store /\ used' = used /\ store[u].req \in Requests
        /\ started' = started \cup {store[u].req}
    BY <1>8, EligibleType DEF RunNext, Launch
  <2>5. store[u].req \in used
    BY <2>4 DEF RequestsInv, OneDevicePerRequest, Concerns
  <2>6. Stores(k) /\ Starts
    BY <2>4, <2>5 DEF Stores, Starts, RequestsInv
  <2> QED BY <2>3, <2>6, MarksWritesOwn DEF Lives
<1>9. ASSUME NEW u \in Udids, RunNextWithoutWorker(u) PROVE Lives
  <2>1. Errored \in Entry /\ Errored.status # "waiting" /\ Errored.req = None
    BY EntryTypes DEF Errored
  <2> QED BY <1>9, <2>1, LimitType, AnswerLives DEF RunNextWithoutWorker
<1>10. ASSUME NEW u \in Udids, RunNextForPoll(u) PROVE Lives \/ Ends
  <2> DEFINE e == Running(store[u].req)
  <2>1. e \in Entry /\ e.status # "waiting" /\ e.req = store[u].req
    BY <1>10, EligibleType, EntryTypes DEF RunNextForPoll, Running
  <2>2. /\ Getting(u) /\ Limit - 1 \in Int
        /\ Reject(Append(Answered(u, Limit - 1), Set(u, e)))
    BY <1>10, LimitType DEF RunNextForPoll
  <2> HIDE DEF e
  <2> QED BY <2>1, <2>2, RejectLivesOrEnds
<1>11. ASSUME NEW by \in {"loop", "poll"}, FindNext(by) PROVE Lives
  <2> DEFINE c == [op |-> "scan", keys |-> Keys, limit |-> MaxRunningBuilds,
                   by |-> by]
  <2>1. c \in Command
    BY QueueAssumption DEF Keys, Command, ScanCmd
  <2>2. WritesOwn(c)
    BY DEF WritesOwn, IsSet
  <2>3. /\ pipe' = Append(pipe, c)
        /\ store' = store /\ started' = started /\ used \subseteq used'
    BY <1>11 DEF FindNext
  <2> HIDE DEF c
  <2> QED BY <1>2, <2>1, <2>2, <2>3
<1>12. CASE Crash
  <2>1. Marks(Nothing)
    BY DEF Marks, Nothing, IsSet
  <2> QED BY <1>0, <1>12, <2>1, ExitEnds DEF Crash, TypeOK
<1>13. ASSUME NEW u \in Udids, TimeToLiveEnds(u) PROVE Lives
  <2>1. \A v \in Udids : store'[v] = store[v] \/ store'[v] = Absent
    BY <1>13 DEF TimeToLiveEnds, TypeOK
  <2> QED BY <1>0, <1>3, <1>13, <2>1 DEF TimeToLiveEnds
<1>14. ASSUME NEW u \in Udids, NEW r \in Requests, BuildNow(u, r) PROVE Lives
  <2>1. /\ store' = store /\ started' = started \cup {r} /\ pipe' = pipe
        /\ used' = used \cup {r} /\ r \notin used
    BY <1>14 DEF BuildNow, Launch
  <2>2. Stores(0) /\ Starts
    BY <2>1 DEF Stores, Starts, RequestsInv
  <2> QED BY <1>0, <2>1, <2>2 DEF Lives
<1>15. ASSUME NEW u \in Udids, NEW r \in Requests, Add(u, r) PROVE Lives
  <2> DEFINE c == Set(u, Waiting(r))
  <2>1. c \in Command
    BY EntryTypes, CommandTypes
  <2>2. c.entry.req = r
    BY DEF Set, Waiting
  <2>3. /\ pipe' = Append(pipe, c) /\ store' = store /\ started' = started
        /\ used' = used \cup {r} /\ r \notin used
    BY <1>15 DEF Add
  <2> HIDE DEF c
  <2>4. WritesOwn(c)
    BY <2>2, <2>3 DEF WritesOwn, RequestsInv
  <2> QED BY <1>2, <2>1, <2>3, <2>4
<1>16. ASSUME NEW b \in Slots, BuildRefused(b) \/ BuildStarted(b) PROVE Lives
  <2>1. Del(builds[b].udid) \in Command
    BY <1>16, CommandTypes
    DEF BuildRefused, BuildStarted, FreeSlot, TypeOK, Build
  <2>2. pipe' = pipe \/ pipe' = Append(pipe, Del(builds[b].udid))
    BY <1>16 DEF BuildRefused, BuildStarted, BuildCallback
  <2>3. store' = store /\ used' = used /\ started' = started
    BY <1>16 DEF BuildRefused, BuildStarted
  <2> QED BY <1>1, <1>2, <2>1, <2>2, <2>3, PlainJoin
<1>17. ASSUME NEW s \in Sockets,
              \/ Register(s) \/ Disconnect(s)
              \/ \E running \in {"idle", "running"} : Hello(s, running)
              \/ \E r \in Requests : JobStatus(s, r)
       PROVE Lives
  BY <1>1, <1>17 DEF Register, Disconnect, Hello, JobStatus
<1>18. CASE UNCHANGED vars
  BY <1>1, <1>18 DEF vars
<1> QED
  BY <1>4, <1>5, <1>6, <1>7, <1>8, <1>9, <1>10, <1>11, <1>12,
     <1>13, <1>14, <1>15, <1>16, <1>17, <1>18, RedisSetLives
  DEF Next, Redis, Loop, Poll

(* After the end of the process nothing is in the pipe, and an entry stands  *)
(* for a request that concerned its device before.                          *)
LEMMA EndsKeeps ==
  ASSUME TypeOK, RequestsInv, Ends
  PROVE  RequestsInv'
<1>1. pipe' = <<>> /\ Len(pipe') = 0
  BY DEF Ends
<1>2. ASSUME NEW u \in Udids, NEW r \in Requests, Concerns(u, r)'
      PROVE  Concerns(u, r)
  <2>1. store'[u].req = r
    BY <1>1, <1>2 DEF Concerns
  <2>2. ASSUME NEW i \in 1..Len(pipe), pipe[i] = Set(u, store'[u])
        PROVE  Concerns(u, r)
    <3>1. IsSet(pipe[i], u) /\ pipe[i].entry = store'[u]
      BY <2>2 DEF Set, IsSet
    <3> QED BY <2>1, <3>1 DEF Concerns
  <2> QED BY <2>1, <2>2, QueueAssumption DEF Ends, Settles, Concerns
<1>3. OneDevicePerRequest'
  BY <1>2 DEF RequestsInv, OneDevicePerRequest, Ends
<1>4. ArrivingIsNew'
  BY <1>1 DEF ArrivingIsNew
<1> QED BY <1>3, <1>4 DEF RequestsInv, Ends

LEMMA RequestsInvStep ==
  ASSUME TypeOK, TypeOK', RequestsInv, [Next]_vars
  PROVE  RequestsInv'
<1>1. CASE Lives
  <2>1. PICK k, c : /\ Moves(pipe, pipe', k, c) /\ Stores(k)
                    /\ WritesOwn(c) /\ Starts
    BY <1>1 DEF Lives
  <2>2. (started \subseteq used)' /\ used \subseteq used'
    BY <2>1 DEF Starts
  <2>3. OneDevicePerRequest'
    BY <2>1, <2>2, OneDeviceStep DEF RequestsInv
  <2>4. ArrivingIsNew'
    BY <2>1, ArrivingStep DEF RequestsInv
  <2> QED BY <2>2, <2>3, <2>4 DEF RequestsInv
<1> QED BY <1>1, RequestsStep, EndsKeeps

LEMMA RequestsInit == Init => RequestsInv
<1> SUFFICES ASSUME Init PROVE RequestsInv
  OBVIOUS
<1>1. pipe = <<>> /\ started = {} /\ Len(pipe) = 0
  BY DEF Init
<1>2. \A u \in Udids : store[u].req = None
  BY DEF Init, Absent
<1>3. \A u \in Udids, r \in Requests : ~Concerns(u, r)
  BY <1>1, <1>2, QueueAssumption DEF Concerns
<1> QED BY <1>1, <1>3 DEF RequestsInv, ArrivingIsNew, OneDevicePerRequest

(* What an entry that comes to wait was before: the entry of a SET.         *)
LEMMA ComesToWait ==
  ASSUME TypeOK, RequestsInv, [Next]_vars, NEW u \in Udids, NEW r \in Requests,
         store'[u] = Waiting(r), store[u] # Waiting(r)
  PROVE  \E i \in 1..Len(pipe) : pipe[i] = Set(u, Waiting(r))
<1>1. Waiting(r).status = "waiting" /\ Waiting(r).req = r
  BY DEF Waiting
<1>2. CASE Ends
  BY <1>1, <1>2 DEF Ends, Settles
<1>3. CASE Lives
  <2>1. PICK k, c : Moves(pipe, pipe', k, c) /\ Stores(k)
    BY <1>3 DEF Lives
  <2>2. k = 1 /\ pipe[1] = Set(u, Waiting(r))
    BY <1>1, <2>1 DEF Stores
  <2>3. 1 \in 1..Len(pipe)
    BY <2>1, <2>2 DEF Moves, TypeOK
  <2> QED BY <2>2, <2>3
<1> QED BY <1>2, <1>3, RequestsStep

(* queue_action.js:52-73.  No late write revives a request: one that was     *)
(* started or replaced never waits again; for any devices, requests, workers, *)
(* overlapping scans, polls, rejections and crashes.                        *)
THEOREM NoneWaitsAgain == Spec => NeverWaitingAgain
<1> DEFINE A == \A u \in Udids, r \in Requests :
                  store'[u] = Waiting(r) /\ store[u] # Waiting(r)
                    => /\ r \notin started
                       /\ store[u].req # r
<1>1. TypeOK /\ RequestsInv /\ [Next]_vars => A
  BY ComesToWait DEF RequestsInv, ArrivingIsNew
<1>2. [][A]_vars <=> NeverWaitingAgain
  BY DEF NeverWaitingAgain
<1>3. TypeOK /\ TypeOK' /\ RequestsInv /\ [Next]_vars => RequestsInv'
  BY RequestsInvStep
<1> QED BY <1>1, <1>2, <1>3, RequestsInit, TypeCorrect, PTL DEF Spec
-----------------------------------------------------------------------------
(* While the process stays up, the queue implements BuildRequests.          *)

(* A request is prepared in one place, and was started.                     *)
OneBuildEach ==
  \A b \in Slots : ~FreeSlot(b) =>
    /\ builds[b].req \in started
    /\ \A d \in Slots : ~FreeSlot(d) /\ builds[d].req = builds[b].req => d = b

UpInv == ~died /\ QueueInv /\ OneBuildEach

(* How a step changes the builds: none, one more, one less.                 *)
SameBuilds ==
  \A b \in Slots : /\ FreeSlot(b)' <=> FreeSlot(b)
                   /\ ~FreeSlot(b) => builds'[b].req = builds[b].req

LEMMA SlotTypes ==
  ASSUME TypeOK, NEW b \in Slots, ~FreeSlot(b)
  PROVE  builds[b] \in Build /\ builds[b].req \in Requests
BY DEF FreeSlot, TypeOK, Build

LEMMA ForgetSame ==
  ASSUME TypeOK, NEW s, Forget(s)
  PROVE  SameBuilds
<1> SUFFICES ASSUME NEW b \in Slots
             PROVE  /\ FreeSlot(b)' <=> FreeSlot(b)
                    /\ ~FreeSlot(b) => builds'[b].req = builds[b].req
  BY DEF SameBuilds
<1>1. CASE FreeSlot(b)
  BY <1>1 DEF Forget, FreeSlot
<1>2. CASE ~FreeSlot(b)
  <2>1. builds[b] \in Build
    BY <1>2, SlotTypes
  <2>2. /\ builds'[b] \in {builds[b], [builds[b] EXCEPT !.worker = None]}
    BY <1>2 DEF Forget
  <2>3. builds'[b] \in Build /\ builds'[b].req = builds[b].req
    BY <2>1, <2>2 DEF Build
  <2> QED BY <1>2, <2>3, QueueAssumption DEF FreeSlot
<1> QED BY <1>1, <1>2

LEMMA SameIsSame == ASSUME builds' = builds PROVE SameBuilds
BY DEF SameBuilds, FreeSlot

LEMMA LaunchAdds ==
  ASSUME TypeOK, NEW b \in Slots, FreeSlot(b), NEW r \in Requests,
         NEW u \in Udids, NEW s \in Sockets, NEW q \in BOOLEAN,
         Launch(b, r, u, s, q)
  PROVE  /\ ~FreeSlot(b)' /\ builds'[b].req = r /\ started' = started \cup {r}
         /\ \A d \in Slots \ {b} : builds'[d] = builds[d]
<1>1. /\ builds'[b] = [req |-> r, udid |-> u, worker |-> s, queued |-> q]
      /\ started' = started \cup {r}
      /\ \A d \in Slots \ {b} : builds'[d] = builds[d]
  BY DEF Launch, TypeOK
<1>2. builds'[b] \in Build
  BY <1>1 DEF Build
<1> QED BY <1>1, <1>2, QueueAssumption DEF FreeSlot

(* Which requests are waiting, as the pipe moves.                           *)
LEMMA QueuedKept ==
  ASSUME TypeOK, TypeOK', NEW k, NEW c, Moves(pipe, pipe', k, c),
         NEW u, NEW r, Set(u, Waiting(r)) \in PipeSet,
         k = 1 => pipe[1] # Set(u, Waiting(r))
  PROVE  Set(u, Waiting(r)) \in PipeSet'
<1>0. Len(pipe) \in Nat /\ Len(pipe') \in Nat /\ k \in {0, 1}
  BY DEF TypeOK, Moves
<1>1. PICK i \in 1..Len(pipe) : pipe[i] = Set(u, Waiting(r))
  BY DEF PipeSet
<1>2. i - k \in 1..(Len(pipe) - k) /\ (i - k) + k = i /\ i - k \in 1..Len(pipe')
  BY <1>0, <1>1 DEF Moves
<1>3. Same(pipe[i], pipe'[i - k]) /\ pipe[i].op = "set"
  BY <1>1, <1>2 DEF Moves, Set
<1>4. pipe'[i - k] = Set(u, Waiting(r))
  BY <1>1, <1>3 DEF Same
<1> QED BY <1>2, <1>4 DEF PipeSet

LEMMA QueuedWas ==
  ASSUME TypeOK, TypeOK', NEW k, NEW c, Moves(pipe, pipe', k, c),
         NEW u, NEW r, Set(u, Waiting(r)) \in PipeSet', c # Set(u, Waiting(r))
  PROVE  Set(u, Waiting(r)) \in PipeSet
<1>1. PICK i \in 1..Len(pipe') : pipe'[i] = Set(u, Waiting(r))
  BY DEF PipeSet
<1>2. IsSet(pipe'[i], u)
  BY <1>1, SetFields
<1>3. i + k \in 1..Len(pipe) /\ pipe'[i] = pipe[i + k]
  BY <1>1, <1>2, SetMoves
<1> QED BY <1>1, <1>3 DEF PipeSet

SameQueued == \A r \in Requests : QueuedIn(r)' <=> QueuedIn(r)

(* At most the entry of one device is lost.                                 *)
LosesOne ==
  \E u \in Udids : \A r \in Requests :
    /\ QueuedIn(r)' => QueuedIn(r)
    /\ QueuedIn(r) => QueuedIn(r)' \/ store[u] = Waiting(r)

LEMMA QueuedSame ==
  ASSUME TypeOK, TypeOK', store' = store,
         NEW k, NEW c, Moves(pipe, pipe', k, c),
         k = 1 => pipe[1].op # "set",
         \A u, r : c # Set(u, Waiting(r))
  PROVE  SameQueued
<1>1. \A u, r : Set(u, Waiting(r)).op = "set"
  BY DEF Set
<1>2. \A u, r : Set(u, Waiting(r)) \in PipeSet' <=> Set(u, Waiting(r)) \in PipeSet
  BY <1>1, QueuedKept, QueuedWas
<1> QED BY <1>2 DEF SameQueued, QueuedIn

(* An entry that is lost, or replaced by the SET at the head of the pipe.    *)
LEMMA QueuedLoses ==
  ASSUME TypeOK, TypeOK', NEW v \in Udids, NEW k, NEW c, Moves(pipe, pipe', k, c),
         \A u, r : c # Set(u, Waiting(r)),
         \A u \in Udids \ {v} : store'[u] = store[u],
         \/ store'[v] = Absent /\ (k = 1 => pipe[1].op # "set")
         \/ k = 1 /\ pipe[1] = Set(v, store'[v])
  PROVE  LosesOne
<1>1. \A u, r : Set(u, Waiting(r)).op = "set" /\ Waiting(r) # Absent
  BY DEF Set, Waiting, Absent
<1>2. ASSUME NEW r \in Requests, QueuedIn(r)' PROVE QueuedIn(r)
  <2>1. PICK u \in Udids : store'[u] = Waiting(r) \/ Set(u, Waiting(r)) \in PipeSet'
    BY <1>2 DEF QueuedIn
  <2>2. CASE Set(u, Waiting(r)) \in PipeSet'
    BY <2>2, QueuedWas DEF QueuedIn
  <2>3. CASE store'[u] = Waiting(r) /\ u # v
    BY <2>3 DEF QueuedIn
  <2>4. CASE store'[u] = Waiting(r) /\ u = v
    <3>1. k = 1 /\ pipe[1] = Set(v, Waiting(r))
      BY <1>1, <2>4
    <3>2. 1 \in 1..Len(pipe)
      BY <3>1 DEF Moves, TypeOK
    <3> QED BY <3>1, <3>2 DEF QueuedIn, PipeSet
  <2> QED BY <2>1, <2>2, <2>3, <2>4
<1>3. ASSUME NEW r \in Requests, QueuedIn(r) PROVE QueuedIn(r)' \/ store[v] = Waiting(r)
  <2>1. PICK u \in Udids : store[u] = Waiting(r) \/ Set(u, Waiting(r)) \in PipeSet
    BY <1>3 DEF QueuedIn
  <2>2. CASE store[u] = Waiting(r)
    BY <2>2 DEF QueuedIn
  <2>3. CASE Set(u, Waiting(r)) \in PipeSet /\ ~(k = 1 /\ pipe[1] = Set(u, Waiting(r)))
    BY <2>3, QueuedKept DEF QueuedIn
  <2>4. CASE k = 1 /\ pipe[1] = Set(u, Waiting(r))
    <3>1. Set(v, store'[v]) = Set(u, Waiting(r))
      BY <1>1, <2>4
    <3>2. store'[u] = Waiting(r)
      BY <3>1 DEF Set
    <3> QED BY <3>2 DEF QueuedIn
  <2> QED BY <2>1, <2>2, <2>3, <2>4
<1> QED BY <1>2, <1>3 DEF LosesOne

LEMMA SameLoses ==
  ASSUME SameQueued, NEW u \in Udids PROVE LosesOne
BY DEF SameQueued, LosesOne

(* The kinds of steps, and what each does to the phases.                    *)
LEMMA MoveIs ==
  ASSUME NEW r \in Requests, NEW from, NEW to, Phase(r) = from,
         \A q \in Requests : Phase(q)' = IF q = r THEN to ELSE Phase(q)
  PROVE  Abstract!Move(r, from, to)
BY DEF Abstract!Move

LEMMA BuildingWasStarted ==
  ASSUME UpInv, NEW r, InBuild(r)
  PROVE  r \in started /\ r \in used
BY DEF UpInv, QueueInv, OneBuildEach, InBuild

LEMMA QueuedIsUsed ==
  ASSUME UpInv, NEW r \in Requests, QueuedIn(r)
  PROVE  r \in used
<1>1. PICK u \in Udids : store[u] = Waiting(r) \/ Set(u, Waiting(r)) \in PipeSet
  BY DEF QueuedIn
<1>2. Concerns(u, r)
  BY <1>1, SetFields DEF Concerns, PipeSet, Waiting
<1> QED BY <1>2 DEF UpInv, QueueInv, OneDevicePerRequest

LEMMA SameInBuild ==
  ASSUME SameBuilds PROVE \A r : InBuild(r)' <=> InBuild(r)
BY DEF SameBuilds, InBuild

LEMMA StepDrops ==
  ASSUME UpInv, SameBuilds, used' = used, started' = started,
         LosesOne \/ SameQueued
  PROVE  \/ \A q \in Requests : Phase(q)' = Phase(q)
         \/ \E r \in Requests : Abstract!Drop(r)
<1>1. \A r : InBuild(r)' <=> InBuild(r)
  BY SameInBuild
<1>2. CASE SameQueued
  BY <1>1, <1>2 DEF SameQueued, Phase
<1>3. CASE LosesOne
  <2>1. PICK u \in Udids : \A r \in Requests :
          /\ QueuedIn(r)' => QueuedIn(r)
          /\ QueuedIn(r) => QueuedIn(r)' \/ store[u] = Waiting(r)
    BY <1>3 DEF LosesOne
  <2>2. CASE \A q \in Requests : Phase(q)' = Phase(q)
    BY <2>2
  <2>3. ASSUME NEW r \in Requests, Phase(r)' # Phase(r)
        PROVE  Abstract!Drop(r)
    <3>1. /\ r \in used /\ ~InBuild(r) /\ r \notin started
          /\ QueuedIn(r) /\ ~QueuedIn(r)'
      BY <1>1, <2>1, <2>3 DEF Phase
    <3>2. Phase(r) = "waiting" /\ Phase(r)' = "gone"
      BY <1>1, <3>1 DEF Phase
    <3>3. ASSUME NEW q \in Requests, q # r PROVE Phase(q)' = Phase(q)
      <4>1. store[u] = Waiting(r)
        BY <2>1, <3>1
      <4>2. store[u] # Waiting(q)
        BY <3>3, <4>1 DEF Waiting
      <4>3. QueuedIn(q)' <=> QueuedIn(q)
        BY <2>1, <4>2
      <4> QED BY <1>1, <4>3 DEF Phase
    <3>4. Abstract!Move(r, "waiting", "gone")
      BY <3>2, <3>3, MoveIs
    <3> QED BY <3>4 DEF Abstract!Drop
  <2> QED BY <2>2, <2>3
<1> QED BY <1>2, <1>3

(* One more build, of r.                                                    *)
AddsBuild(r) ==
  \E b \in Slots : /\ FreeSlot(b) /\ ~FreeSlot(b)' /\ builds'[b].req = r
                   /\ \A d \in Slots \ {b} : builds'[d] = builds[d]

LEMMA AddsInBuild ==
  ASSUME NEW r, AddsBuild(r)
  PROVE  InBuild(r)' /\ \A q : q # r => (InBuild(q)' <=> InBuild(q))
BY DEF AddsBuild, InBuild, FreeSlot

LEMMA LaunchAddsBuild ==
  ASSUME TypeOK, NEW b \in Slots, FreeSlot(b), NEW r \in Requests,
         NEW u \in Udids, NEW s \in Sockets, NEW q \in BOOLEAN,
         Launch(b, r, u, s, q)
  PROVE  AddsBuild(r) /\ started' = started \cup {r}
BY LaunchAdds DEF AddsBuild

LEMMA StepStarts ==
  ASSUME UpInv, NEW r \in Requests, AddsBuild(r), started' = started \cup {r},
         SameQueued
  PROVE  /\ QueuedIn(r) /\ r \notin started /\ used' = used => Abstract!Launch(r)
         /\ r \notin used /\ used' = used \cup {r} => Abstract!Start(r)
<1>1. InBuild(r)' /\ \A q : q # r => (InBuild(q)' <=> InBuild(q))
  BY AddsInBuild
<1>2. InBuild(r) => r \in started /\ r \in used
  BY BuildingWasStarted
<1>3. ASSUME QueuedIn(r), r \notin started, used' = used PROVE Abstract!Launch(r)
  <2>1. r \in used
    BY <1>3, QueuedIsUsed
  <2>2. Phase(r) = "waiting" /\ Phase(r)' = "building"
    BY <1>1, <1>2, <1>3, <2>1 DEF Phase
  <2>3. \A q \in Requests : q # r => Phase(q)' = Phase(q)
    BY <1>1, <1>3 DEF Phase, SameQueued
  <2>4. Abstract!Move(r, "waiting", "building")
    BY <2>2, <2>3, MoveIs
  <2> QED BY <2>4 DEF Abstract!Launch
<1>4. ASSUME r \notin used, used' = used \cup {r} PROVE Abstract!Start(r)
  <2>1. Phase(r) = "new" /\ Phase(r)' = "building"
    BY <1>1, <1>4 DEF Phase
  <2>2. \A q \in Requests : q # r => Phase(q)' = Phase(q)
    BY <1>1, <1>4 DEF Phase, SameQueued
  <2>3. Abstract!Move(r, "new", "building")
    BY <2>1, <2>2, MoveIs
  <2> QED BY <2>3 DEF Abstract!Start
<1> QED BY <1>3, <1>4

LEMMA StepQueues ==
  ASSUME TypeOK, TypeOK', UpInv, NEW u \in Udids, NEW r \in Requests, Add(u, r)
  PROVE  Abstract!Queue(r)
<1> DEFINE c == Set(u, Waiting(r))
<1>1. /\ pipe' = Append(pipe, c) /\ store' = store /\ started' = started
      /\ used' = used \cup {r} /\ r \notin used /\ builds' = builds
  BY DEF Add
<1>2. c \in Command
  BY EntryTypes, CommandTypes
<1>3. \A v, q : q # r => c # Set(v, Waiting(q))
  BY DEF Set, Waiting
<1>4. r \notin started /\ ~InBuild(r)
  BY <1>1, BuildingWasStarted DEF UpInv, QueueInv
<1> HIDE DEF c
<1>5. Moves(pipe, pipe', 0, c)
  BY <1>1, <1>2, MovesAppend DEF TypeOK
<1>6. Len(pipe') \in 1..Len(pipe') /\ pipe'[Len(pipe')] = c
  BY <1>1, <1>2 DEF TypeOK
<1>7. QueuedIn(r)'
  BY <1>6 DEF QueuedIn, PipeSet, c
<1>8. \A q \in Requests : q # r => (QueuedIn(q)' <=> QueuedIn(q))
  BY <1>1, <1>3, <1>5, QueuedKept, QueuedWas DEF QueuedIn
<1>9. \A q : InBuild(q)' <=> InBuild(q)
  BY <1>1, SameIsSame, SameInBuild
<1>10. Phase(r) = "new" /\ Phase(r)' = "waiting"
  BY <1>1, <1>4, <1>7, <1>9 DEF Phase
<1>11. \A q \in Requests : q # r => Phase(q)' = Phase(q)
  BY <1>1, <1>8, <1>9 DEF Phase
<1>12. Abstract!Move(r, "new", "waiting")
  BY <1>10, <1>11, MoveIs
<1> QED BY <1>12 DEF Abstract!Queue

LEMMA StepFinishes ==
  ASSUME TypeOK, UpInv, NEW b \in Slots, ~FreeSlot(b), SameQueued,
         builds' = [builds EXCEPT ![b] = None], used' = used, started' = started
  PROVE  \E r \in Requests : Abstract!Finish(r)
<1>1. PICK r \in Requests : r = builds[b].req
  BY SlotTypes
<1>2. InBuild(r) /\ r \in started /\ r \in used
  BY <1>1, BuildingWasStarted DEF InBuild
<1>3. FreeSlot(b)' /\ \A d \in Slots \ {b} : builds'[d] = builds[d]
  BY DEF FreeSlot, TypeOK
<1>4. ~InBuild(r)'
  BY <1>1, <1>3 DEF InBuild, UpInv, OneBuildEach, FreeSlot
<1>5. \A q : q # r => (InBuild(q)' <=> InBuild(q))
  BY <1>1, <1>3 DEF InBuild, FreeSlot
<1>6. Phase(r) = "building" /\ Phase(r)' = "gone"
  BY <1>2, <1>4 DEF Phase
<1>7. \A q \in Requests : q # r => Phase(q)' = Phase(q)
  BY <1>5 DEF Phase, SameQueued
<1>8. Abstract!Move(r, "building", "gone")
  BY <1>6, <1>7, MoveIs
<1> QED BY <1>8 DEF Abstract!Finish

(* Requests are prepared in one place.                                      *)
LEMMA OneBuildKept ==
  ASSUME UpInv,
         \/ SameBuilds /\ started' = started
         \/ \E r : AddsBuild(r) /\ r \notin started /\ started' = started \cup {r}
         \/ \E b : builds' = [builds EXCEPT ![b] = None] /\ started' = started,
         TypeOK
  PROVE  OneBuildEach'
<1>1. OneBuildEach
  BY DEF UpInv
<1>2. CASE SameBuilds /\ started' = started
  BY <1>1, <1>2 DEF SameBuilds, OneBuildEach
<1>3. ASSUME NEW r, AddsBuild(r), r \notin started, started' = started \cup {r}
      PROVE  OneBuildEach'
  BY <1>1, <1>3 DEF AddsBuild, OneBuildEach, FreeSlot
<1>4. ASSUME NEW b, builds' = [builds EXCEPT ![b] = None], started' = started
      PROVE  OneBuildEach'
  BY <1>1, <1>4 DEF OneBuildEach, FreeSlot, TypeOK
<1> QED BY <1>2, <1>3, <1>4

SamePhases == \A q \in Requests : Phase(q)' = Phase(q)

(* The answer to a GET, with the SET of an entry that does not wait.        *)
LEMMA AnswerSameQueued ==
  ASSUME TypeOK, TypeOK', store' = store,
         NEW u \in Udids, Getting(u), NEW l \in Int,
         \/ pipe' = Answered(u, l)
         \/ \E e \in Entry : /\ pipe' = Append(Answered(u, l), Set(u, e))
                             /\ e.status # "waiting"
                             /\ e.req \in {None, store[u].req}
  PROVE  SameQueued
<1>1. PICK k, c : Moves(pipe, pipe', k, c) /\ Marks(c)
  BY AnswerMoves
<1>2. ASSUME NEW v \in Udids, NEW r PROVE c # Set(v, Waiting(r))
  BY <1>1, SetFields DEF Marks
<1>3. pipe[1].op # "set"
  BY TailIndex DEF Getting, Answering, TypeOK
<1>4. \A v \in Udids, r \in Requests :
        Set(v, Waiting(r)) \in PipeSet' <=> Set(v, Waiting(r)) \in PipeSet
  <2>1. \A v, r : Set(v, Waiting(r)).op = "set"
    BY DEF Set
  <2> QED BY <1>1, <1>2, <1>3, <2>1, QueuedKept, QueuedWas
<1> QED BY <1>4 DEF SameQueued, QueuedIn

LEMMA PlainSameQueued ==
  ASSUME TypeOK, TypeOK', store' = store,
         \/ pipe' = pipe
         \/ \E c \in Command : pipe' = Append(pipe, c) /\ c.op # "set"
  PROVE  SameQueued
<1>1. \A v, r : Set(v, Waiting(r)).op = "set"
  BY DEF Set
<1>2. \E c : Moves(pipe, pipe', 0, c) /\ c.op # "set"
  <2>1. CASE pipe' = pipe
    <3>1. Moves(pipe, pipe', 0, Nothing)
      BY <2>1, MovesSelf DEF TypeOK
    <3>2. Nothing.op # "set"
      BY DEF Nothing
    <3> QED BY <3>1, <3>2
  <2>2. ASSUME NEW c \in Command, pipe' = Append(pipe, c), c.op # "set"
        PROVE  Moves(pipe, pipe', 0, c)
    BY <2>2, MovesAppend DEF TypeOK
  <2> QED BY <2>1, <2>2
<1> QED BY <1>1, <1>2, QueuedSame

LEMMA UpStep ==
  ASSUME CanCrash = FALSE, RejectionExits = FALSE,
         TypeOK, TypeOK', UpInv, [Next]_vars
  PROVE  ~died' /\ OneBuildEach' /\ (Abstract!Next \/ SamePhases)
<1> DEFINE Up == ~died' /\ OneBuildEach' /\ (Abstract!Next \/ SamePhases)
<1>1. ASSUME SameBuilds, used' = used, started' = started, died' = died,
             SameQueued \/ LosesOne
      PROVE  Up
  BY <1>1, OneBuildKept, StepDrops DEF UpInv, Abstract!Next, SamePhases
<1>2. ASSUME UNCHANGED <<builds, used, started, died>>, SameQueued \/ LosesOne
      PROVE  Up
  BY <1>1, <1>2, SameIsSame
<1>3. CASE RedisSet
  <2> DEFINE u == Head(pipe).udid
             e == Head(pipe).entry
             t == Tail(pipe)
             x == Expire(u)
  <2>1. /\ pipe # <<>> /\ Head(pipe) \in SetCmd /\ t \in Seq(Command)
        /\ pipe \in Seq(Command) /\ u \in Udids
    BY <1>3, HeadOp, HeadTail DEF RedisSet, Answering, TypeOK, SetCmd
  <2>2. pipe[1] = Set(u, e) /\ Len(t) = Len(pipe) - 1
    BY <2>1, TailIndex DEF SetCmd, Set
  <2>3. /\ store' = [store EXCEPT ![u] = e]
        /\ pipe' = Append(t, x) \/ pipe' = t
    BY <1>3 DEF RedisSet
  <2>4. /\ x \in Command
        /\ \A v, r : x # Set(v, Waiting(r)) /\ Nothing # Set(v, Waiting(r))
    BY <2>1, CommandTypes DEF Expire, Set, Nothing
  <2>5. Moves(pipe, t, 1, Nothing) /\ Moves(pipe, t, 1, x)
    BY <2>1, MovesTail
  <2> HIDE DEF u, e, t, x
  <2>6. Moves(pipe, Append(t, x), 1, x)
    BY <2>1, <2>2, <2>4, <2>5, MovesThenAppend
  <2>7. PICK c : Moves(pipe, pipe', 1, c) /\ \A v, r : c # Set(v, Waiting(r))
    BY <2>3, <2>4, <2>5, <2>6
  <2>8. PICK v \in Udids : v = u
    BY <2>1
  <2>9. /\ \A w \in Udids \ {v} : store'[w] = store[w]
        /\ pipe[1] = Set(v, store'[v])
    BY <2>1, <2>2, <2>3, <2>8 DEF TypeOK
  <2>10. LosesOne
    BY <2>7, <2>9, QueuedLoses
  <2> QED BY <1>2, <1>3, <2>10 DEF RedisSet
<1>4. CASE RedisExpire
  <2>1. pipe # <<>> /\ Head(pipe).op = "expire" /\ pipe \in Seq(Command)
    BY <1>4 DEF RedisExpire, Answering, TypeOK
  <2>2. pipe[1].op # "set"
    BY <2>1, TailIndex
  <2>3. Moves(pipe, pipe', 1, Nothing) /\ \A v, r : Nothing # Set(v, Waiting(r))
    BY <1>4, <2>1, MovesTail DEF RedisExpire, Nothing, Set
  <2>4. SameQueued
    BY <1>4, <2>2, <2>3, QueuedSame DEF RedisExpire
  <2> QED BY <1>2, <1>4, <2>4 DEF RedisExpire
<1>5. CASE RedisDel
  <2>1. pipe # <<>> /\ Head(pipe).op = "del" /\ pipe \in Seq(Command)
    BY <1>5 DEF RedisDel, Answering, TypeOK
  <2>2. pipe[1].op # "set"
    BY <2>1, TailIndex
  <2>3. Moves(pipe, pipe', 1, Nothing) /\ \A v, r : Nothing # Set(v, Waiting(r))
    BY <1>5, <2>1, MovesTail DEF RedisDel, Nothing, Set
  <2>4. PICK v \in Udids : v = Head(pipe).udid
    BY <2>1, HeadOp DEF DelCmd
  <2>5. store'[v] = Absent /\ \A w \in Udids \ {v} : store'[w] = store[w]
    BY <1>5, <2>4 DEF RedisDel, TypeOK
  <2>6. LosesOne
    BY <2>2, <2>3, <2>5, QueuedLoses
  <2> QED BY <1>2, <1>5, <2>6 DEF RedisDel
<1>6. ASSUME NEW u \in Udids, GetVanished(u) PROVE Up
  <2>1. /\ Getting(u) /\ Limit \in Int /\ pipe' = Answered(u, Limit)
        /\ UNCHANGED <<store, builds, used, started, died>>
    BY <1>6, LimitType DEF GetVanished, Reject
  <2> QED BY <1>2, <2>1, AnswerSameQueued
<1>7. ASSUME NEW u \in Udids, GetRunning(u) \/ GetSkipped(u) PROVE Up
  BY <1>2, <1>7, LimitType, AnswerSameQueued DEF GetRunning, GetSkipped
<1>8. ASSUME NEW u \in Udids, RunNextWithoutWorker(u) PROVE Up
  <2>1. Errored \in Entry /\ Errored.status # "waiting" /\ Errored.req = None
    BY EntryTypes DEF Errored
  <2> QED BY <1>2, <1>8, <2>1, LimitType, AnswerSameQueued DEF RunNextWithoutWorker
<1>9. ASSUME NEW u \in Udids, RunNextForPoll(u) PROVE Up
  <2> DEFINE e == Running(store[u].req)
  <2>1. e \in Entry /\ e.status # "waiting" /\ e.req = store[u].req
    BY <1>9, EligibleType, EntryTypes DEF RunNextForPoll, Running
  <2>2. /\ Getting(u) /\ Limit - 1 \in Int
        /\ pipe' = Append(Answered(u, Limit - 1), Set(u, e))
        /\ UNCHANGED <<store, builds, used, started, died>>
    BY <1>9, LimitType DEF RunNextForPoll, Reject
  <2> HIDE DEF e
  <2> QED BY <1>2, <2>1, <2>2, AnswerSameQueued
<1>10. ASSUME NEW u \in Udids, RunNext(u) PROVE Up
  <2>1. PICK r \in Requests : r = store[u].req /\ store[u] = Waiting(r)
    BY <1>10, EligibleType DEF RunNext
  <2> DEFINE e == Running(r)
  <2>2. e \in Entry /\ e.status # "waiting" /\ e.req = store[u].req
    BY <2>1, EntryTypes DEF Running
  <2>3. /\ Getting(u) /\ Limit - 1 \in Int
        /\ pipe' = Append(Answered(u, Limit - 1), Set(u, e))
        /\ store' = store /\ used' = used /\ died' = died
    BY <1>10, <2>1, LimitType DEF RunNext
  <2> HIDE DEF e
  <2>4. SameQueued
    BY <2>2, <2>3, AnswerSameQueued
  <2>5. PICK b \in Slots, s \in Sockets : FreeSlot(b) /\ Launch(b, r, u, s, TRUE)
    BY <1>10, <2>1 DEF RunNext
  <2>6. AddsBuild(r) /\ started' = started \cup {r}
    BY <2>5, LaunchAddsBuild
  <2>7. r \notin started
    <3>1. pipe # <<>> /\ IsLoopScan(Head(pipe)) /\ u \in Head(pipe).keys
      BY <1>10 DEF RunNext, Getting, Answering, IsLoopScan
    <3>2. pipe[1] = Head(pipe) /\ Len(pipe) \in Nat \ {0}
      BY <3>1, TailIndex DEF TypeOK
    <3>3. ~WillBeOverwritten(u)
      BY <3>1, <3>2 DEF WillBeOverwritten
    <3>4. store[u].status = "waiting"
      BY <2>1 DEF Waiting
    <3> QED BY <2>1, <3>3, <3>4 DEF UpInv, QueueInv, StartedIsOverwritten
  <2>8. QueuedIn(r)
    BY <2>1 DEF QueuedIn
  <2>9. Abstract!Launch(r)
    BY <2>3, <2>4, <2>6, <2>7, <2>8, StepStarts
  <2>10. OneBuildEach'
    BY <2>6, <2>7, OneBuildKept
  <2> QED BY <2>3, <2>9, <2>10 DEF UpInv, Abstract!Next
<1>11. ASSUME NEW by \in {"loop", "poll"}, FindNext(by) PROVE Up
  <2> DEFINE c == [op |-> "scan", keys |-> Keys, limit |-> MaxRunningBuilds,
                   by |-> by]
  <2>1. c \in Command /\ c.op # "set"
    BY QueueAssumption DEF Keys, Command, ScanCmd
  <2>2. pipe' = Append(pipe, c) /\ store' = store
    BY <1>11 DEF FindNext
  <2> HIDE DEF c
  <2>3. SameQueued
    BY <2>1, <2>2, PlainSameQueued
  <2> QED BY <1>2, <1>11, <2>3 DEF FindNext
<1>12. ASSUME NEW u \in Udids, TimeToLiveEnds(u) PROVE Up
  <2>1. Moves(pipe, pipe', 0, Nothing) /\ \A v, r : Nothing # Set(v, Waiting(r))
    BY <1>12, MovesSelf DEF TimeToLiveEnds, TypeOK, Nothing, Set
  <2>2. store'[u] = Absent /\ \A w \in Udids \ {u} : store'[w] = store[w]
    BY <1>12 DEF TimeToLiveEnds, TypeOK
  <2>3. LosesOne
    BY <2>1, <2>2, QueuedLoses
  <2> QED BY <1>2, <1>12, <2>3 DEF TimeToLiveEnds
<1>13. ASSUME NEW u \in Udids, NEW r \in Requests, BuildNow(u, r) PROVE Up
  <2>1. /\ store' = store /\ pipe' = pipe /\ died' = died
        /\ used' = used \cup {r} /\ r \notin used
    BY <1>13 DEF BuildNow
  <2>2. SameQueued
    BY <2>1, PlainSameQueued
  <2>3. PICK b \in Slots, s \in Sockets : FreeSlot(b) /\ Launch(b, r, u, s, FALSE)
    BY <1>13 DEF BuildNow
  <2>4. AddsBuild(r) /\ started' = started \cup {r}
    BY <2>3, LaunchAddsBuild
  <2>5. r \notin started
    BY <2>1 DEF UpInv, QueueInv
  <2>6. Abstract!Start(r)
    BY <2>1, <2>2, <2>4, StepStarts
  <2>7. OneBuildEach'
    BY <2>4, <2>5, OneBuildKept
  <2> QED BY <2>1, <2>6, <2>7 DEF UpInv, Abstract!Next
<1>14. ASSUME NEW u \in Udids, NEW r \in Requests, Add(u, r) PROVE Up
  <2>1. builds' = builds /\ started' = started /\ died' = died
    BY <1>14 DEF Add
  <2>2. OneBuildEach'
    BY <2>1, SameIsSame, OneBuildKept
  <2> QED BY <1>14, <2>1, <2>2, StepQueues DEF UpInv, Abstract!Next
<1>15. ASSUME NEW b \in Slots, BuildRefused(b) \/ BuildStarted(b) PROVE Up
  <2>1. /\ Del(builds[b].udid) \in Command /\ Del(builds[b].udid).op # "set"
        /\ ~FreeSlot(b)
    BY <1>15, CommandTypes
    DEF BuildRefused, BuildStarted, FreeSlot, TypeOK, Build, Del
  <2>2. /\ pipe' = pipe \/ pipe' = Append(pipe, Del(builds[b].udid))
        /\ builds' = [builds EXCEPT ![b] = None]
    BY <1>15 DEF BuildRefused, BuildStarted, BuildCallback
  <2>3. UNCHANGED <<store, used, started, died>>
    BY <1>15 DEF BuildRefused, BuildStarted
  <2>4. SameQueued
    BY <2>1, <2>2, <2>3, PlainSameQueued
  <2>5. \E r \in Requests : Abstract!Finish(r)
    BY <2>1, <2>2, <2>3, <2>4, StepFinishes
  <2>6. OneBuildEach'
    BY <2>2, <2>3, OneBuildKept
  <2> QED BY <2>3, <2>5, <2>6 DEF UpInv, Abstract!Next
<1>16. ASSUME NEW s \in Sockets,
              \/ Register(s) \/ Disconnect(s)
              \/ \E running \in {"idle", "running"} : Hello(s, running)
              \/ \E r \in Requests : JobStatus(s, r)
       PROVE Up
  <2>1. UNCHANGED <<store, pipe, used, started, died>> /\ SameBuilds
    BY <1>16, SameIsSame, ForgetSame DEF Register, Disconnect, Hello, JobStatus
  <2>2. SameQueued
    BY <2>1, PlainSameQueued
  <2> QED BY <1>1, <2>1, <2>2
<1>17. CASE UNCHANGED vars
  <2>1. SameQueued
    BY <1>17, PlainSameQueued DEF vars
  <2> QED BY <1>2, <1>17, <2>1 DEF vars
<1> QED
  BY <1>3, <1>4, <1>5, <1>6, <1>7, <1>8, <1>9, <1>10, <1>11, <1>12,
     <1>13, <1>14, <1>15, <1>16, <1>17
  DEF Next, Redis, Loop, Poll, Crash

(* The queue implements BuildRequests, for any devices, requests, workers,  *)
(* polls and builds, as long as the process stays up: it is not killed, an   *)
(* unhandled rejection does not end it, and a scheduler scan is answered     *)
(* before the next one.                                                     *)
THEOREM RequestsImplemented ==
  ASSUME MaxLoops <= 1, CanCrash = FALSE, RejectionExits = FALSE
  PROVE  Spec => ImplementsRequests
<1> DEFINE Up == ~died /\ OneBuildEach
<1>1. Init => Up
  BY DEF Init, OneBuildEach, FreeSlot
<1>2. Init => Abstract!Init
  BY DEF Init, Abstract!Init, Phase
<1>3. TypeOK /\ TypeOK' /\ QueueInv /\ Up /\ [Next]_vars
        => Up' /\ [Abstract!Next]_([r \in Requests |-> Phase(r)])
  <2> SUFFICES ASSUME TypeOK, TypeOK', QueueInv, Up, [Next]_vars
               PROVE  Up' /\ [Abstract!Next]_([r \in Requests |-> Phase(r)])
    OBVIOUS
  <2>1. UpInv
    BY DEF UpInv
  <2>2. ~died' /\ OneBuildEach' /\ (Abstract!Next \/ SamePhases)
    BY <2>1, UpStep
  <2>3. SamePhases => UNCHANGED [r \in Requests |-> Phase(r)]
    BY DEF SamePhases
  <2> QED BY <2>2, <2>3
<1> QED BY <1>1, <1>2, <1>3, TypeCorrect, QueueInvHolds, PTL
        DEF Spec, ImplementsRequests, Abstract!Spec
=============================================================================
