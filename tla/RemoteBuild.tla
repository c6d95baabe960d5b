------------------------------ MODULE RemoteBuild ------------------------------
(***************************************************************************)
(* One build after another, from builder.build to the last message of its   *)
(* worker: the preparation (lib/thinx/builder.js), the build's record in    *)
(* CouchDB (lib/thinx/buildlog.js) and the listeners on the worker's socket. *)
(*                                                                          *)
(* CouchDB is asked through many independent HTTP requests: whatever waits  *)
(* in `pending' is executed and answered in any order.                      *)
(* Executing a request and running its callback is one step.                *)
(***************************************************************************)
EXTENDS Naturals, FiniteSets

CONSTANTS
  Builds,         \* calls of builder.build; each draws a new build id
  Udids,          \* devices
  Sockets,        \* socket.io connections of build workers
  CanFail,        \* requests to CouchDB and Redis, and files, may fail
  CanCrash,       \* the process can be killed at any time
  MaxPending,     \* bound: buildlog requests on the way
  None

States == {"created", "error", "Success", "FAILED"}

ASSUME RemoteAssumption ==
  /\ None \notin Builds \cup Udids \cup Sockets \cup States \cup {"lost"}
  /\ None \notin [udid : Udids, device : Udids \cup {None},
                  worker : Sockets \cup {None}]
  /\ {CanFail, CanCrash} \subseteq BOOLEAN
  /\ MaxPending \in Nat

VARIABLES
  stage,     \* how far a call of build has come
  call,      \* its closure: requested device, device found, worker's socket
  answer,    \* what its callback was called with
  marked,    \* device document: build_id
  record,    \* CouchDB managed_builds: the record of a build
  pending,   \* buildlog requests sent and not yet answered
  jobs,      \* what each worker does with the jobs its socket received
  listeners, \* builds with 'log' and 'job-status' listeners on a socket
  sent,      \* builds whose job was broadcast
  expected   \* the state last handed to the build log for each build, or
             \* "lost": see Lose

logVars    == <<record, pending, expected>>
socketVars == <<jobs, listeners>>
vars == <<stage, call, answer, marked, sent, logVars, socketVars>>
-----------------------------------------------------------------------------
Preparing == {"view", "user", "modify", "device", "keys", "platform", "env"}
Stages == {"new", "over"} \cup Preparing

Call == [udid : Udids, device : Udids \cup {None}, worker : Sockets \cup {None}]

(* A request of the build log; `by' names the report it comes from.          *)
Request ==
  [op : {"get", "insert", "update", "append"}, build : Builds, state : States,
   by : (Sockets \cup {None}) \X Builds]

(* A call has its closure while it is prepared, and a device once the view   *)
(* was answered.  A record is the state a reader sees in it: the top-level   *)
(* state that the update handler sets or, without one, that of the inserted  *)
(* log entry.                                                               *)
TypeOK ==
  /\ stage \in [Builds -> Stages]
  /\ call \in [Builds -> Call \cup {None}]
  /\ \A b \in Builds : stage[b] \in Preparing => call[b] \in Call
  /\ \A b \in Builds : stage[b] \in Preparing \ {"view"} => call[b].device \in Udids
  /\ answer \in [Builds -> {"none", "refused", "started", "again"}]
  /\ marked \in [Udids -> Builds \cup {None}]
  /\ record \in [Builds -> States \cup {None}]
  /\ pending \in SUBSET Request
  /\ jobs \in [Sockets -> [Builds -> {"none", "running", "logged"}]]
  /\ listeners \in [Sockets -> SUBSET Builds]
  /\ sent \in SUBSET Builds
  /\ expected \in [Builds -> States \cup {None, "lost"}]

NoJobs == [s \in Sockets |-> [b \in Builds |-> "none"]]

Init ==
  /\ stage = [b \in Builds |-> "new"]
  /\ call = [b \in Builds |-> None]
  /\ answer = [b \in Builds |-> "none"]
  /\ marked = [u \in Udids |-> None]
  /\ record = [b \in Builds |-> None]
  /\ pending = {}
  /\ jobs = NoJobs
  /\ listeners = [s \in Sockets |-> {}]
  /\ sent = {}
  /\ expected = [b \in Builds |-> None]
-----------------------------------------------------------------------------
(* The build log. *)

(* What happened to the requests of the builds in C leaves open which state   *)
(* their records will show.                                                 *)
Lose(C, e) == [c \in Builds |-> IF c \in C THEN "lost" ELSE e[c]]

(* A state of the record is on the way already. *)
Racing(C) == {c \in C : \E r \in pending : r.build = c /\ r.state # "created"}

(* log and state begin alike, with a GET of the record; log hands over the   *)
(* state "created".  C is the set of builds it is called for.               *)
Log(C, s, by) ==
  /\ pending' = pending \cup
       {[op |-> "get", build |-> c, state |-> s, by |-> by] : c \in C}
  /\ Cardinality(pending') <= MaxPending
  /\ expected' = Lose(Racing(C) \cup {c \in C : expected[c] = "lost" \/ by[2] # c},
                      [c \in Builds |-> IF c \in C THEN s ELSE expected[c]])
  /\ UNCHANGED record

(* What follows the GET: a missing record is inserted; state updates an      *)
(* existing one, log appends to it.                                         *)
Followed(r, missing) ==
  [r EXCEPT !.op = IF missing THEN "insert"
                   ELSE IF r.state = "created" THEN "append" ELSE "update"]

InsertsAnother(r) ==
  \E q \in pending \ {r} : q.build = r.build /\ q.op = "insert"

Got(r) ==
  /\ r \in pending /\ r.op = "get"
  /\ LET missing == record[r.build] = None IN
       /\ pending' = (pending \ {r}) \cup {Followed(r, missing)}
       /\ expected' = IF missing /\ InsertsAnother(r)
                      THEN Lose({r.build}, expected) ELSE expected
  /\ UNCHANGED record

(* A failed GET is taken for a missing record. *)
GetFailed(r) ==
  /\ CanFail
  /\ r \in pending /\ r.op = "get"
  /\ pending' = (pending \ {r}) \cup {Followed(r, TRUE)}
  /\ expected' = Lose({r.build}, expected)
  /\ UNCHANGED record

(* Mutant: only a missing record gets its state. *)
ExecutedOnce(r) ==
  IF record[r.build] = None THEN r.state ELSE record[r.build]

(* CouchDB: an insert without a revision conflicts with an existing record,  *)
(* and the conflict is only logged.  The update handlers "state" and "log"   *)
(* change one field; "log" has no state to change.                          *)
Executed(r) ==
  IF r.op = "update" \/ (r.op = "insert" /\ record[r.build] = None)
  THEN r.state ELSE record[r.build]

Written(r) ==
  /\ r \in pending /\ r.op # "get"
  /\ record' = [record EXCEPT ![r.build] = Executed(r)]
  /\ pending' = pending \ {r}
  /\ UNCHANGED expected

(* It may have been executed all the same. *)
WriteFailed(r) ==
  /\ CanFail
  /\ r \in pending /\ r.op # "get"
  /\ record' \in {record, [record EXCEPT ![r.build] = Executed(r)]}
  /\ pending' = pending \ {r}
  /\ expected' = Lose({r.build}, expected)
-----------------------------------------------------------------------------
(* The preparation of a build. *)

(* The call, which stood at s, goes on to t with its closure. *)
Passes(b, s, t) ==
  /\ stage[b] = s
  /\ stage' = [stage EXCEPT ![b] = t]
  /\ UNCHANGED <<call, answer>>

(* The call, which stood at s, ends: with an answer, or with none. *)
Leaves(b, s) ==
  /\ stage[b] = s
  /\ stage' = [stage EXCEPT ![b] = "over"]
  /\ call' = [call EXCEPT ![b] = None]

Answered(b, a) ==
  answer' = [answer EXCEPT ![b] = IF @ = "none" THEN a ELSE "again"]

Quits(b, s)   == Leaves(b, s) /\ UNCHANGED answer
Refuses(b, s) == Leaves(b, s) /\ Answered(b, "refused")

(* Called by runNext or POST /api/build, with the record of a worker whose   *)
(* socket is s.                                                             *)
Build(b, u, s) ==
  /\ stage[b] = "new"
  /\ stage' = [stage EXCEPT ![b] = "view"]
  /\ call' = [call EXCEPT ![b] = [udid |-> u, device |-> None, worker |-> s]]
  /\ UNCHANGED <<answer, marked, sent, logVars, socketVars>>

(* Mutant: the loop over the owner's devices keeps no other than the one     *)
(* asked for, and the test for an empty list stays.                         *)
ViewAnsweredExactly(b, Listed) ==
  /\ stage[b] = "view" /\ Listed # {}
  /\ stage' = [stage EXCEPT ![b] = "user"]
  /\ call' = [call EXCEPT ![b].device =
                IF call[b].udid \in Listed THEN call[b].udid ELSE None]
  /\ UNCHANGED answer

(* The owner's devices, in Listed: the one asked for, or else the last one.  *)
ViewAnswered(b, Listed) ==
  /\ stage[b] = "view"
  /\ stage' = [stage EXCEPT ![b] = "user"]
  /\ \E d \in Listed :
       /\ call[b].udid \in Listed => d = call[b].udid
       /\ call' = [call EXCEPT ![b].device = d]
  /\ UNCHANGED answer

(* Up to the mark on the device nothing is logged.  Of the view's errors only *)
(* "missing" is answered; the retry that another one schedules calls a method *)
(* the builder has not.  The owner's document has the source, or it has not.  *)
Identify(b) ==
  /\ \/ \E Listed \in SUBSET Udids : ViewAnswered(b, Listed)
     \/ Refuses(b, "view")
     \/ CanFail /\ Quits(b, "view")
     \/ Passes(b, "user", "modify")
     \/ Refuses(b, "user")
  /\ UNCHANGED <<marked, sent, logVars, socketVars>>

(* The device found is marked with the build, and run_build logs "started".  *)
Mark(b) == [marked EXCEPT ![call[b].device] = b]

Modified(b) ==
  /\ Passes(b, "modify", "device")
  /\ marked' = Mark(b)
  /\ Log({b}, "created", <<None, b>>)
  /\ UNCHANGED <<sent, socketVars>>

(* A request that failed may have been executed. *)
ModifyFailed(b) ==
  /\ CanFail /\ Refuses(b, "modify")
  /\ marked' \in {marked, Mark(b)}
  /\ UNCHANGED <<sent, logVars, socketVars>>

(* The device asked for (which may be none of the owner's, or not exist), the *)
(* owner's API keys and the platform of the fetched repository.  apikey.list  *)
(* catches a rejected GET, and whatever its callback throws (the whole fetch  *)
(* of the repository), and calls nobody back.                                *)
Configure(b) ==
  /\ \/ Passes(b, "device", "keys")
     \/ Passes(b, "keys", "platform")
     \/ Passes(b, "platform", "env")
     \/ Refuses(b, "device")
     \/ CanFail /\ Quits(b, "keys")
  /\ UNCHANGED <<marked, sent, logVars, socketVars>>

(* Mutant: no return after the callback that refuses an unknown platform. *)
RejectAndGoOn(b) ==
  /\ \/ Refuses(b, "keys")
     \/ /\ stage[b] = "platform"
        /\ stage' = [stage EXCEPT ![b] = "env"]
        /\ Answered(b, "refused")
        /\ UNCHANGED call
  /\ Log({b}, "error", <<None, b>>)
  /\ UNCHANGED <<marked, sent, socketVars>>

(* A refusal after the record was begun writes "error" into it: no API key, a *)
(* repository that cannot be fetched; an unknown platform, another MCU, no    *)
(* descriptor, or an exception, which getPlatform turns into a callback.     *)
Reject(b) ==
  /\ Refuses(b, "keys") \/ Refuses(b, "platform")
  /\ Log({b}, "error", <<None, b>>)
  /\ UNCHANGED <<marked, sent, socketVars>>
-----------------------------------------------------------------------------
(* The process exits.  CouchDB may have executed a request whose callback is  *)
(* never run: for writes of records that is Written before this step, a       *)
(* device may have been marked.                                             *)
Exit ==
  /\ stage' = [b \in Builds |->
                 IF stage[b] \in Preparing THEN "over" ELSE stage[b]]
  /\ call' = [b \in Builds |-> None]
  /\ marked' \in {m \in [Udids -> Builds \cup {None}] :
       \A u \in Udids : m[u] # marked[u] =>
         \E b \in Builds : stage[b] = "modify" /\ call[b].device = u /\ m[u] = b}
  /\ pending' = {}
  /\ jobs' = NoJobs
  /\ listeners' = [s \in Sockets |-> {}]
  /\ expected' = Lose({r.build : r \in pending}, expected)
  /\ UNCHANGED <<answer, sent, record>>

Crash == CanCrash /\ Exit

(* apienv.list catches nothing: a rejected GET and an exception of its        *)
(* callback are unhandled rejections, which end the process (Crash is then    *)
(* the next step) unless Rollbar handles them.                              *)
EnvRejected(b) ==
  /\ CanFail /\ Quits(b, "env")
  /\ UNCHANGED <<marked, sent, logVars, socketVars>>

(* thinx_build.json cannot be written: an error, and no answer. *)
TemplateFailed(b) ==
  /\ CanFail /\ Quits(b, "env")
  /\ Log({b}, "error", <<None, b>>)
  /\ UNCHANGED <<marked, sent, socketVars>>

(* An exception while looking for the header file is logged as an error, and  *)
(* the build goes on.                                                       *)
Header(b) ==
  \/ UNCHANGED logVars
  \/ Log({b}, "error", <<None, b>>)

(* runRemoteShell: the job goes to every socket; listeners stay on the        *)
(* worker's socket until it disconnects.                                    *)
Broadcast(b) ==
  /\ sent' = sent \cup {b}
  /\ jobs' = [s \in Sockets |-> [jobs[s] EXCEPT ![b] = "running"]]
  /\ listeners' = [s \in Sockets |-> IF s = call[b].worker
                     THEN listeners[s] \cup {b} ELSE listeners[s]]

(* callback(true), then the job, in one turn.  Without a MAC address          *)
(* formatMacForDevSec throws in between, as in EnvRejected: no job goes out. *)
Start(b) ==
  /\ Leaves(b, "env") /\ Answered(b, "started")
  /\ Header(b)
  /\ \/ Broadcast(b)
     \/ UNCHANGED <<sent, socketVars>>
  /\ UNCHANGED marked
-----------------------------------------------------------------------------
(* The worker's messages.  A worker runs every job its socket receives; every *)
(* listener on the socket takes a message for its own build's.               *)

(* A 'log' line "status: OK". *)
LogLine(s, b) ==
  /\ jobs[s][b] = "running"
  /\ jobs' = [jobs EXCEPT ![s][b] = "logged"]
  /\ Log(listeners[s], "Success", <<s, b>>)

(* 'job-status': the builder's listeners record any status but "OK".         *)
JobStatus(s, b) ==
  /\ jobs[s][b] # "none"
  /\ jobs' = [jobs EXCEPT ![s][b] = "none"]
  /\ UNCHANGED logVars \/ Log(listeners[s], "FAILED", <<s, b>>)

Report(s, b) ==
  /\ LogLine(s, b) \/ JobStatus(s, b)
  /\ UNCHANGED <<stage, call, answer, marked, sent, listeners>>

(* The socket is gone, with its listeners and what its worker was doing.     *)
Disconnect(s) ==
  /\ listeners' = [listeners EXCEPT ![s] = {}]
  /\ jobs' = [jobs EXCEPT ![s] = NoJobs[s]]
  /\ call' = [b \in Builds |->
                IF call[b] # None /\ call[b].worker = s
                THEN [call[b] EXCEPT !.worker = None] ELSE call[b]]
  /\ UNCHANGED <<stage, answer, marked, sent, logVars>>
-----------------------------------------------------------------------------
Prepare(b) ==
  \/ \E u \in Udids, s \in Sockets : Build(b, u, s)
  \/ Identify(b) \/ Modified(b) \/ ModifyFailed(b) \/ Configure(b) \/ Reject(b)
  \/ EnvRejected(b) \/ TemplateFailed(b) \/ Start(b)

BuildLog ==
  /\ \E r \in pending : Got(r) \/ GetFailed(r) \/ Written(r) \/ WriteFailed(r)
  /\ UNCHANGED <<stage, call, answer, marked, sent, socketVars>>

Next ==
  \/ \E b \in Builds : Prepare(b)
  \/ BuildLog
  \/ \E s \in Sockets, b \in Builds : Report(s, b)
  \/ \E s \in Sockets : Disconnect(s)
  \/ Crash

Spec == Init /\ [][Next]_vars
-----------------------------------------------------------------------------
(* Properties. *)

(* builder.js, as queue.js:235-248 and router.build.js:70-81 use it. Every   *)
(* call is answered at most once, whatever throws, fails or is caught at its *)
(* stages, and its job is broadcast once, with the answer "started" only.    *)
Phase(b) == IF stage[b] \in Preparing THEN "asked" ELSE stage[b]

Contract == INSTANCE BuilderContract WITH phase <- [b \in Builds |-> Phase(b)]

HonoursContract == Contract!Spec

(* buildlog.js:96-146 and 184-221. Once the build log has answered, a record *)
(* shows the state last given to it, unless (see Lose) two of its states     *)
(* were on the way at once, a request failed or was cut off by the end of    *)
(* the process, or the report of another's job came in: no other order of    *)
(* reads, inserts and updates loses a state.                                *)
Settled(b) == \A r \in pending : r.build # b

LastStateShown ==
  \A b \in Builds :
    Settled(b) /\ expected[b] # "lost" => record[b] = expected[b]
=============================================================================
