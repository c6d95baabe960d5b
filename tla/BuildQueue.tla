------------------------------ MODULE BuildQueue ------------------------------
(***************************************************************************)
(* The build queue of lib/thinx/queue.js and lib/thinx/queue_action.js,     *)
(* with its only producer (POST /api/build, lib/router.build.js) and the    *)
(* worker sockets it schedules onto.                                        *)
(*                                                                          *)
(* The queue lives in Redis, one string key "queue:<udid>" per device.  The *)
(* server talks to Redis over ONE connection, which executes commands in    *)
(* the order they were issued and answers in that order.  `pipe' is the     *)
(* sequence of commands issued and not yet answered.  Executing a command   *)
(* and running its JavaScript callback is one step here: every command that *)
(* Redis could execute between the two was issued before the callback ran   *)
(* and so stays behind it in `pipe' in any case.                            *)
(***************************************************************************)
EXTENDS Integers, Sequences, FiniteSets

CONSTANTS
  Udids,            \* devices; one queue entry each
  Requests,         \* build requests, in place of the uuid drawn per Action
  Sockets,          \* socket.io connections of build workers
  Pollers,          \* the sockets whose worker sends `poll'
  Slots,            \* bound: builds that can be in preparation at once
  MaxRunningBuilds, \* config builder.concurrency
  MaxLoops,         \* bound: scheduler scans in the pipe at once
  MaxPolls,         \* bound: poll scans in the pipe at once
  KeysReply,        \* "list": KEYS answers as queue.js uses it;
                    \* "promise": it answers as messenger.js:820 uses it
  RejectionExits,   \* an unhandled rejection ends the process (no Rollbar)
  CanCrash,         \* the process can be killed at any time
  None              \* no request, no worker, no build

(* A builder.build call; its worker is None once the record is forgotten.   *)
Build == [req : Requests, udid : Udids, worker : Sockets \cup {None},
          queued : BOOLEAN]

ASSUME QueueAssumption ==
  /\ None \notin Requests \cup Sockets \cup Build
  /\ Pollers \subseteq Sockets
  /\ MaxRunningBuilds \in Nat
  /\ MaxLoops \in Nat /\ MaxPolls \in Nat
  /\ KeysReply \in {"list", "promise"}
  /\ RejectionExits \in BOOLEAN /\ CanCrash \in BOOLEAN

VARIABLES
  store,    \* Redis: the entry under queue:<udid>
  ttl,      \* Redis: whether that key has an expiry set
  pipe,     \* commands issued to Redis and not yet answered
  workers,  \* queue.workers: the record kept for each socket
  builds,   \* builder.build calls in preparation, with their closures
  remote,   \* jobs a connected worker received and has not reported
  used,     \* requests drawn so far (a uuid is never drawn twice)
  started,  \* requests handed to builder.build so far
  died      \* the process has exited at least once

redisVars == <<store, ttl>>
vars == <<store, ttl, pipe, workers, builds, remote, used, started, died>>
-----------------------------------------------------------------------------
(* Redis entries: the JSON text of Action.action, reduced to its status and *)
(* the request it stands for.  setError writes a fresh Action, so an error  *)
(* entry stands for no request.                                             *)

Absent     == [status |-> "none", req |-> None]
Waiting(r) == [status |-> "waiting", req |-> r]
Running(r) == [status |-> "running", req |-> r]
Errored    == [status |-> "error", req |-> None]
Entry == {Absent, Errored} \cup {Waiting(r) : r \in Requests}
                           \cup {Running(r) : r \in Requests}

(* Commands in the pipe.  A scan is the burst of GETs one findNext call     *)
(* issues: they are contiguous, and the order KEYS lists them in is Redis's *)
(* own, so the keys not yet answered form a set.  `limit' is the variable   *)
(* the callbacks of that burst share.                                       *)

SetCmd    == [op : {"set"}, udid : Udids, entry : Entry]
ExpireCmd == [op : {"expire"}, udid : Udids]
DelCmd    == [op : {"del"}, udid : Udids]
ScanCmd   == [op : {"scan"}, keys : SUBSET Udids, limit : Int,
              by : {"loop", "poll"}]
Command   == SetCmd \cup ExpireCmd \cup DelCmd \cup ScanCmd

Set(u, e) == [op |-> "set", udid |-> u, entry |-> e]
Expire(u) == [op |-> "expire", udid |-> u]
Del(u)    == [op |-> "del", udid |-> u]

TypeOK ==
  /\ store \in [Udids -> Entry]
  /\ ttl \in [Udids -> BOOLEAN]
  /\ pipe \in Seq(Command)
  /\ workers \in [Sockets -> {"absent", "idle", "running"}]
  /\ builds \in [Slots -> Build \cup {None}]
  /\ remote \in [Sockets -> SUBSET Requests]
  /\ used \in SUBSET Requests
  /\ started \in SUBSET Requests
  /\ died \in BOOLEAN

Init ==
  /\ store = [u \in Udids |-> Absent]
  /\ ttl = [u \in Udids |-> FALSE]
  /\ pipe = <<>>
  /\ workers = [s \in Sockets |-> "absent"]
  /\ builds = [b \in Slots |-> None]
  /\ remote = [s \in Sockets |-> {}]
  /\ used = {}
  /\ started = {}
  /\ died = FALSE
-----------------------------------------------------------------------------
(* What Redis holds once it has executed the first n commands of p. *)

Writes(p, n, u) == {i \in 1..n : p[i].op \in {"set", "del"} /\ p[i].udid = u}
IsLast(i, I)    == i \in I /\ \A j \in I : j <= i
Written(c)      == IF c.op = "set" THEN c.entry ELSE Absent

EntryAfter(p, n, u) ==
  IF \E i \in 1..n : IsLast(i, Writes(p, n, u))
  THEN Written(p[CHOOSE i \in 1..n : IsLast(i, Writes(p, n, u))])
  ELSE store[u]

TtlAfter(p, n, u) ==
  /\ EntryAfter(p, n, u) # Absent
  /\ \/ \E j \in 1..n : /\ p[j] = Expire(u)
                        /\ \A i \in Writes(p, n, u) : i < j
     \/ ttl[u] /\ Writes(p, n, u) = {}

(* The keys KEYS "queue:*" lists: it is issued after everything in the pipe. *)
Keys == {u \in Udids : EntryAfter(pipe, Len(pipe), u) # Absent}

(* The process exits: Redis executes the commands that had left the socket  *)
(* buffer, nobody runs their callbacks, and everything in memory is gone.   *)
(* The container starts it again with empty state.                          *)
Exit(p) ==
  /\ \E n \in 0..Len(p) :
       /\ store' = [u \in Udids |-> EntryAfter(p, n, u)]
       /\ ttl' = [u \in Udids |-> TtlAfter(p, n, u)]
  /\ pipe' = <<>>
  /\ workers' = [s \in Sockets |-> "absent"]
  /\ builds' = [b \in Slots |-> None]
  /\ remote' = [s \in Sockets |-> {}]
  /\ died' = TRUE
-----------------------------------------------------------------------------
(* Producers and the scheduler. *)

(* nextAvailableWorker: a registered worker whose record is not running.    *)
Available(s) == workers[s] = "idle"
FreeSlot(b)  == builds[b] = None

Launch(b, r, u, s, queued) ==
  /\ builds' = [builds EXCEPT ![b] = [req |-> r, udid |-> u, worker |-> s,
                                      queued |-> queued]]
  /\ started' = started \cup {r}

(* Faulty variants of some definitions stand before them, for the runs that *)
(* show what each property would catch; no specification uses them.         *)

(* POST /api/build queues the request although it started it. *)
BuildNowAndAdd(u, r) ==
  /\ r \notin used
  /\ used' = used \cup {r}
  /\ pipe' = Append(pipe, Set(u, Waiting(r)))
  /\ \E s \in Sockets, b \in Slots :
       /\ Available(s) /\ FreeSlot(b)
       /\ Launch(b, r, u, s, FALSE)
  /\ UNCHANGED <<store, ttl, workers, remote, died>>

(* POST /api/build: with a worker available the build starts at once (and   *)
(* the worker's record is left as it is); otherwise the request is queued.  *)
BuildNow(u, r) ==
  /\ r \notin used
  /\ used' = used \cup {r}
  /\ \E s \in Sockets, b \in Slots :
       /\ Available(s) /\ FreeSlot(b)
       /\ Launch(b, r, u, s, FALSE)
  /\ UNCHANGED <<store, ttl, pipe, workers, remote, died>>

Add(u, r) ==
  /\ r \notin used
  /\ used' = used \cup {r}
  /\ \A s \in Sockets : ~Available(s)
  /\ pipe' = Append(pipe, Set(u, Waiting(r)))
  /\ UNCHANGED <<store, ttl, workers, builds, remote, started, died>>

(* findNext up to its GETs. *)
FindNext(by) ==
  /\ KeysReply = "list"
  /\ MaxRunningBuilds >= 1
  /\ Keys # {}
  /\ pipe' = Append(pipe, [op |-> "scan", keys |-> Keys,
                           limit |-> MaxRunningBuilds, by |-> by])
  /\ UNCHANGED <<store, ttl, workers, builds, remote, used, started, died>>

PipeSet == {pipe[i] : i \in 1..Len(pipe)}
IsLoopScan(c) == c.op = "scan" /\ c.by = "loop"
IsPollScan(c) == c.op = "scan" /\ c.by = "poll"
IsSet(c, u)   == c.op = "set" /\ c.udid = u
Count(Is(_))  == Cardinality({i \in 1..Len(pipe) : Is(pipe[i])})

(* The cron job every five minutes. *)
Loop ==
  /\ Count(IsLoopScan) < MaxLoops
  /\ FindNext("loop")

(* A worker's `poll' message. *)
Poll(s) ==
  /\ s \in Pollers
  /\ Count(IsPollScan) < MaxPolls
  /\ FindNext("poll")
-----------------------------------------------------------------------------
(* Redis answers the oldest command. *)

Answering(op) == pipe # <<>> /\ Head(pipe).op = op

(* setStarted without its EXPIRE. *)
RedisSetOnly ==
  /\ Answering("set")
  /\ store' = [store EXCEPT ![Head(pipe).udid] = Head(pipe).entry]
  /\ ttl' = [ttl EXCEPT ![Head(pipe).udid] = FALSE]
  /\ pipe' = Tail(pipe)
  /\ UNCHANGED <<workers, builds, remote, used, started, died>>

(* SET: the value replaces the key, expiry included.  Only setStarted has a *)
(* callback, which then issues the EXPIRE.                                  *)
RedisSet ==
  /\ Answering("set")
  /\ LET u == Head(pipe).udid  e == Head(pipe).entry IN
       /\ store' = [store EXCEPT ![u] = e]
       /\ ttl' = [ttl EXCEPT ![u] = FALSE]
       /\ pipe' = IF e.status = "running" THEN Append(Tail(pipe), Expire(u))
                                          ELSE Tail(pipe)
  /\ UNCHANGED <<workers, builds, remote, used, started, died>>

RedisExpire ==
  /\ Answering("expire")
  /\ LET u == Head(pipe).udid IN
       ttl' = [ttl EXCEPT ![u] = store[u] # Absent]
  /\ pipe' = Tail(pipe)
  /\ UNCHANGED <<store, workers, builds, remote, used, started, died>>

RedisDel ==
  /\ Answering("del")
  /\ LET u == Head(pipe).udid IN
       /\ store' = [store EXCEPT ![u] = Absent]
       /\ ttl' = [ttl EXCEPT ![u] = FALSE]
  /\ pipe' = Tail(pipe)
  /\ UNCHANGED <<workers, builds, remote, used, started, died>>

(* Redis drops an entry whose 20 minutes are over. *)
TimeToLiveEnds(u) ==
  /\ ttl[u]
  /\ store' = [store EXCEPT ![u] = Absent]
  /\ ttl' = [ttl EXCEPT ![u] = FALSE]
  /\ UNCHANGED <<pipe, workers, builds, remote, used, started, died>>

(* GET: the callbacks of findNext.  Answered(u, l) is the pipe with u       *)
(* answered and the scan's limit at l.                                      *)
Limit == Head(pipe).limit
Answered(u, l) ==
  IF Head(pipe).keys = {u} THEN Tail(pipe)
  ELSE <<[Head(pipe) EXCEPT !.keys = @ \ {u}, !.limit = l]>> \o Tail(pipe)

Getting(u) == Answering("scan") /\ u \in Head(pipe).keys
Eligible(u) == store[u].status = "waiting" /\ Limit > 0

(* A TypeError inside a `then' callback: nobody catches the rejection.      *)
Reject(p) ==
  /\ UNCHANGED <<used, started>>
  /\ IF RejectionExits
     THEN Exit(p)
     ELSE pipe' = p /\ UNCHANGED <<store, ttl, workers, builds, remote, died>>

(* The key expired between KEYS and GET: JSON.parse(null) has no status.    *)
GetVanished(u) ==
  /\ Getting(u)
  /\ store[u] = Absent
  /\ Reject(Answered(u, Limit))

(* A scan that finds a build running marks it once more, and its 20 minutes *)
(* start again.                                                             *)
GetRunningRenewed(u) ==
  /\ Getting(u)
  /\ store[u].status = "running"
  /\ pipe' = Append(Answered(u, Limit - 1), Set(u, store[u]))
  /\ UNCHANGED <<store, ttl, workers, builds, remote, used, started, died>>

GetRunning(u) ==
  /\ Getting(u)
  /\ store[u].status = "running"
  /\ pipe' = Answered(u, Limit - 1)
  /\ UNCHANGED <<store, ttl, workers, builds, remote, used, started, died>>

(* An error entry, or a waiting one beyond the limit, stays as it is.       *)
(* pruneIfCompleted reads action.status where only action.action.status     *)
(* exists, so it never deletes an entry.                                    *)
GetSkipped(u) ==
  /\ Getting(u)
  /\ store[u] # Absent /\ store[u].status # "running" /\ ~Eligible(u)
  /\ pipe' = Answered(u, Limit)
  /\ UNCHANGED <<store, ttl, workers, builds, remote, used, started, died>>

(* runNext hands the request over as a scan saw it: the entry still waits.  *)
RunNextUnmarked(u) ==
  /\ Getting(u) /\ Eligible(u) /\ Head(pipe).by = "loop"
  /\ pipe' = Answered(u, Limit - 1)
  /\ \E s \in Sockets, b \in Slots :
       /\ Available(s) /\ FreeSlot(b)
       /\ workers' = [workers EXCEPT ![s] = "running"]
       /\ Launch(b, store[u].req, u, s, TRUE)
  /\ UNCHANGED <<store, ttl, remote, used, died>>

(* setStarted writes the text it took before it changed the status.         *)
RunNextMarkedLate(u) ==
  /\ Getting(u) /\ Eligible(u) /\ Head(pipe).by = "loop"
  /\ LET r == store[u].req IN
       /\ pipe' = Append(Append(Answered(u, Limit - 1), Set(u, Running(r))),
                         Set(u, Waiting(r)))
       /\ \E s \in Sockets, b \in Slots :
            /\ Available(s) /\ FreeSlot(b)
            /\ workers' = [workers EXCEPT ![s] = "running"]
            /\ Launch(b, r, u, s, TRUE)
  /\ UNCHANGED <<store, ttl, remote, used, died>>

(* loop's callback with a worker: runNext marks the entry started and the   *)
(* worker running, and hands the request to the builder.                    *)
RunNext(u) ==
  /\ Getting(u) /\ Eligible(u) /\ Head(pipe).by = "loop"
  /\ LET r == store[u].req IN
       /\ pipe' = Append(Answered(u, Limit - 1), Set(u, Running(r)))
       /\ \E s \in Sockets, b \in Slots :
            /\ Available(s) /\ FreeSlot(b)
            /\ workers' = [workers EXCEPT ![s] = "running"]
            /\ Launch(b, r, u, s, TRUE)
  /\ UNCHANGED <<store, ttl, remote, used, died>>

(* loop's callback without one: nextAvailableWorker answers false, which is *)
(* not null, so runNext is called and replaces the entry with an error.     *)
RunNextWithoutWorker(u) ==
  /\ Getting(u) /\ Eligible(u) /\ Head(pipe).by = "loop"
  /\ \A s \in Sockets : ~Available(s)
  /\ pipe' = Append(Answered(u, Limit - 1), Set(u, Errored))
  /\ UNCHANGED <<store, ttl, workers, builds, remote, used, started, died>>

(* A poll without a worker record puts the entry back.                      *)
RunNextForPollBack(u) ==
  /\ Getting(u) /\ Eligible(u) /\ Head(pipe).by = "poll"
  /\ Reject(Append(Answered(u, Limit - 1), Set(u, Waiting(store[u].req))))

(* poll's callback passes the socket's id for a worker: the entry is marked *)
(* started, then assigning `running' on a string throws.                    *)
RunNextForPoll(u) ==
  /\ Getting(u) /\ Eligible(u) /\ Head(pipe).by = "poll"
  /\ Reject(Append(Answered(u, Limit - 1), Set(u, Running(store[u].req))))
-----------------------------------------------------------------------------
(* The builder's answers. *)

(* The callback frees the worker and keeps the entry. *)
BuildCallbackKeeps(b) ==
  LET c == builds[b] IN
    /\ workers' = [s \in Sockets |->
                     IF c.queued /\ s = c.worker THEN "idle" ELSE workers[s]]
    /\ builds' = [builds EXCEPT ![b] = None]
    /\ pipe' = pipe

(* runNext's callback deletes the device's entry and frees the worker; the  *)
(* callback of POST /api/build only answers the request.                    *)
BuildCallback(b) ==
  LET c == builds[b] IN
    /\ pipe' = IF c.queued THEN Append(pipe, Del(c.udid)) ELSE pipe
    /\ workers' = [s \in Sockets |->
                     IF c.queued /\ s = c.worker THEN "idle" ELSE workers[s]]
    /\ builds' = [builds EXCEPT ![b] = None]

BuildRefused(b) ==
  /\ ~FreeSlot(b)
  /\ BuildCallback(b)
  /\ UNCHANGED <<store, ttl, remote, used, started, died>>

(* callback(true), and in the same turn the job goes out to every socket:   *)
(* the registered ones and those (C) that are connected and not registered. *)
BuildStarted(b) ==
  /\ ~FreeSlot(b)
  /\ BuildCallback(b)
  /\ \E C \in SUBSET Sockets :
       remote' = [s \in Sockets |->
                    IF workers[s] # "absent" \/ s \in C
                    THEN remote[s] \cup {builds[b].req} ELSE remote[s]]
  /\ UNCHANGED <<store, ttl, used, started, died>>
-----------------------------------------------------------------------------
(* Worker sockets. *)

(* A record that `Hello' replaces or `disconnect' deletes lives on in the   *)
(* closures that hold it, where nobody looks at it.                         *)
Forget(s) ==
  builds' = [b \in Slots |->
               IF ~FreeSlot(b) /\ builds[b].worker = s
               THEN [builds[b] EXCEPT !.worker = None] ELSE builds[b]]

Register(s) ==
  /\ workers[s] = "absent"
  /\ workers' = [workers EXCEPT ![s] = "idle"]
  /\ UNCHANGED <<store, ttl, pipe, builds, remote, used, started, died>>

(* Without the default for msg.running. *)
HelloUndefined(s, running) ==
  /\ workers' = [workers EXCEPT ![s] = IF running = "idle" THEN "undefined"
                                       ELSE running]
  /\ Forget(s)
  /\ UNCHANGED <<store, ttl, pipe, remote, used, started, died>>

Hello(s, running) ==
  /\ workers' = [workers EXCEPT ![s] = running]
  /\ Forget(s)
  /\ UNCHANGED <<store, ttl, pipe, remote, used, started, died>>

JobStatus(s, r) ==
  /\ r \in remote[s]
  /\ remote' = [remote EXCEPT ![s] = @ \ {r}]
  /\ workers' = [workers EXCEPT ![s] = IF @ = "absent" THEN @ ELSE "idle"]
  /\ UNCHANGED <<store, ttl, pipe, builds, used, started, died>>

Disconnect(s) ==
  /\ workers[s] # "absent" \/ remote[s] # {}
  /\ workers' = [workers EXCEPT ![s] = "absent"]
  /\ remote' = [remote EXCEPT ![s] = {}]
  /\ Forget(s)
  /\ UNCHANGED <<store, ttl, pipe, used, started, died>>

Crash ==
  /\ CanCrash
  /\ Exit(pipe)
  /\ UNCHANGED <<used, started>>
-----------------------------------------------------------------------------
Redis ==
  \/ RedisSet \/ RedisExpire \/ RedisDel
  \/ \E u \in Udids :
       \/ GetVanished(u) \/ GetRunning(u) \/ GetSkipped(u)
       \/ RunNext(u) \/ RunNextWithoutWorker(u) \/ RunNextForPoll(u)

Next ==
  \/ Redis
  \/ Loop
  \/ Crash
  \/ \E u \in Udids : TimeToLiveEnds(u)
  \/ \E u \in Udids, r \in Requests : BuildNow(u, r) \/ Add(u, r)
  \/ \E b \in Slots : BuildRefused(b) \/ BuildStarted(b)
  \/ \E s \in Sockets :
       \/ Poll(s) \/ Register(s) \/ Disconnect(s)
       \/ \E running \in {"idle", "running"} : Hello(s, running)
       \/ \E r \in Requests : JobStatus(s, r)

Spec == Init /\ [][Next]_vars

(* Redis answers, keys expire on time and the cron job runs.  Nothing obliges *)
(* a user, a worker or the builder to act.                                    *)
Fairness ==
  /\ WF_vars(Redis)
  /\ WF_vars(Loop)
  /\ \A u \in Udids : WF_vars(TimeToLiveEnds(u))

FairSpec == Spec /\ Fairness
-----------------------------------------------------------------------------
(* Properties. *)

(* queue_action.js:26-34. While the process lives, an entry marked running  *)
(* has its 20 minutes set, or the EXPIRE that sets them is on its way: no   *)
(* interleaving of SET, EXPIRE, DEL and a new request leaves a running      *)
(* entry that would hold a place in every later scan forever.               *)
RunningWillExpire ==
  ~died => \A u \in Udids :
    store[u].status = "running" => ttl[u] \/ Expire(u) \in PipeSet

(* queue.js:180-193, 202-248. While the process lives, the builder never    *)
(* gets a request twice, although a scan of the scheduler overlaps the      *)
(* writes of the scan before it, the polls, deletions and new requests.     *)
NeverStartedTwice ==
  [][~died => \A b \in Slots :
       FreeSlot(b) /\ ~FreeSlot(b)' => builds'[b].req \notin started]_vars

(* Why it holds: wherever a started request still reads "waiting", the SET  *)
(* or DEL that replaces it comes before the device's next GET in the pipe.  *)
WillBeOverwritten(u) ==
  \E i \in 1..Len(pipe) :
    /\ pipe[i].op \in {"set", "del"} /\ pipe[i].udid = u
    /\ \A j \in 1..i : IsLoopScan(pipe[j]) => u \notin pipe[j].keys

Concerns(u, r) ==
  \/ store[u].req = r
  \/ \E i \in 1..Len(pipe) : IsSet(pipe[i], u) /\ pipe[i].entry.req = r

OneLoopScan ==
  \A i, j \in 1..Len(pipe) :
    IsLoopScan(pipe[i]) /\ IsLoopScan(pipe[j]) => i = j

OneDevicePerRequest ==
  \A r \in Requests, u, v \in Udids :
    Concerns(u, r) => r \in used /\ (Concerns(v, r) => u = v)

ArrivingIsNew ==
  \A i \in 1..Len(pipe), u \in Udids, r \in Requests :
    pipe[i] = Set(u, Waiting(r)) =>
      /\ r \notin started
      /\ store[u].req # r
      /\ \A j \in 1..Len(pipe) :
           IsSet(pipe[j], u) /\ pipe[j].entry.req = r => j = i

StartedIsOverwritten ==
  \A u \in Udids :
    store[u].status = "waiting" /\ store[u].req \in started
      => WillBeOverwritten(u)

(* The inductive invariant behind NeverStartedTwice. *)
QueueInv ==
  ~died => /\ started \subseteq used
           /\ OneLoopScan
           /\ OneDevicePerRequest
           /\ ArrivingIsNew
           /\ StartedIsOverwritten

(* queue_action.js:52-73. A request that was started never waits again, and *)
(* an entry never goes back to "waiting" for the request it stood for: no   *)
(* late write revives it, not even what Redis executes of a dead process's  *)
(* commands.                                                                *)
NeverWaitingAgain ==
  [][\A u \in Udids, r \in Requests :
       store'[u] = Waiting(r) /\ store[u] # Waiting(r)
         => /\ r \notin started
            /\ store[u].req # r]_vars

(* queue.js:235-248. While the process lives and no worker polls, an entry  *)
(* marked running stands for a build the builder still prepares, or for one *)
(* whose DEL is on its way: no scan counts a build that is over.            *)
RunningHasBuild ==
  ~died => \A u \in Udids :
    store[u].status = "running" =>
      \/ Del(u) \in PipeSet
      \/ \E b \in Slots : ~FreeSlot(b) /\ builds[b].req = store[u].req

(* The life of a request as its user sees it. *)
QueuedIn(r) ==
  \E u \in Udids : store[u] = Waiting(r) \/ Set(u, Waiting(r)) \in PipeSet

InBuild(r) == \E b \in Slots : ~FreeSlot(b) /\ builds[b].req = r

Phase(r) ==
  IF r \notin used THEN "new"
  ELSE IF InBuild(r) THEN "building"
  ELSE IF r \notin started /\ QueuedIn(r) THEN "waiting" ELSE "gone"

Abstract == INSTANCE BuildRequests WITH
              phase <- [r \in Requests |-> Phase(r)]

(* The queue implements BuildRequests, whatever scans, writes, deletions    *)
(* and expiries interleave, as long as the process stays up.                *)
ImplementsRequests == Abstract!Spec

(* queue_action.js:26-34, builder.js:648-860. Under FairSpec no entry is    *)
(* running forever unless the process dies: what a scan or a poll marked    *)
(* ends, although neither the builder nor the worker need ever answer.      *)
RunningEnds ==
  \A u \in Udids, r \in Requests :
    store[u] = Running(r) ~> store[u] # Running(r) \/ died

(* queue.js:215, 252-262. The claim that every waiting request is run when  *)
(* its turn comes: under FairSpec no request waits forever. With the        *)
(* installed client (KeysReply = "promise") the code does not do so.        *)
WaitingEnds ==
  \A u \in Udids, r \in Requests :
    store[u] = Waiting(r) ~> store[u] # Waiting(r)
=============================================================================
