# Verification of the THiNX device management server

TLA+ models of the server in this repository (`thinx.js`, `thinx-core.js`,
`lib/`), the TLC configurations that check them on small instances, and proofs
of theorems about them for every instance.  Paths below are relative to the
repository's root.

    tlc -workers 2 -config BuildQueueUp.cfg MCBuildQueue    # any run below
    tlapm BuildQueueProofs.tla                              # and the other *Proofs

## 1. The system

One Node process serves a REST API, worker and browser web sockets and MQTT.
It keeps users, devices, builds and logs in CouchDB (through nano, many
independent HTTP requests) and everything short-lived in Redis (through ONE
connection, which answers in the order asked).  Nothing is locked: every
read-modify-write is a read, a callback and a write.

| component | state | operations | what is hard | what makes it correct |
|---|---|---|---|---|
| build queue (`queue.js`, `queue_action.js`, `router.build.js`) | `queue:<udid>` in Redis with expiry; worker records in memory | add, cron scan, poll, start, error, delete; register/Hello/job-status/disconnect | scans overlap writes; SET then EXPIRE; deletion by device; crash | a request starts at most once, is not revived, does not wait or hold a place forever |
| builder (`builder.js`) | none of its own; listeners on worker sockets; files | build, run_build, remote/local shell, exit data | callbacks at several stages or never; a job broadcast to all; listeners that stay | one answer per request; states of a build come from its own job |
| build log, notifier (`buildlog.js`, `notifier.js`) | build record in CouchDB, envelope file | log, state, fetch, list, tail; process job status | get then insert; late states | the record ends in the state of its build |
| transfer (`transfer.js`) | `dt:<id>`, `dtr:<n>` in Redis, device documents, artefacts on disk | request, accept, decline, migrate | checks answered late; partial acceptance; two users at once | a device moves only to the recipient of an accepted offer; an answered offer ends |
| API keys, environment (`apikey.js`, `apienv.js`) | `ak:<owner>`, `env:<owner>` lists in Redis | create, verify, revoke, list | whole-list read-modify-write | a created key verifies until revoked, a revoked one never again |
| devices (`device.js`, `devices.js`) | device documents, `ott:<token>` | register, edit, attach/detach source and mesh, revoke, push | registration of a known MAC; stale documents | one document per device, changes not lost |
| firmware (`deployment.js`, `device.js`) | files, tokens | firmware, one-time token, update due? | token lifetime, version compare | a device is offered its own newest build only |
| sources (`sources.js`, `repository.js`) | `repos` map in the owner document | add, remove, update | whole-map write-back, retry | no repository lost or revived |
| accounts, GDPR (`owner.js`, `gdpr.js`) | owner documents | create, activate, reset, delete, meshes; expiry | keys used in any order | a password is set only with a current key |
| tokens (`jwtlogin.js`, `router.auth.js`) | `__JWT_SECRET__`, login tokens, sessions | sign, verify, reset, login | key created twice; cached key | a token signed by the server verifies until it expires |
| MQTT credentials, ACLs (`auth.js`, `acl.js`) | Redis hashes and sets | add, revoke, load, commit | load never reads what it asked for | topics of a revoked device are gone |
| messenger (`messenger.js`) | MQTT client, messages in Redis | publish, store, forward, data | callbacks not bound to their object | – |
| RSA keys, statistics, audit, influx, git, platform, sanitising, routers | files, logs | – | – | – |

Interactions: `router.build.js` calls the builder at once if a worker is
available, otherwise `queue.add`; the queue's cron job (every five minutes)
and a worker's `poll` scan the entries and call the builder with a worker's
record; the builder calls back, and broadcasts a job to the workers' sockets; a
worker's `job-status` goes to the queue (frees the record), the notifier
(device document, envelope) and every builder listener on that socket (build
record).  `repository.js` looks like another producer of the queue, but
`queue_updated_repos` fails on an undefined name before it adds anything, so
it is not one.

`PROJECT.json` lists the hazards of the code line by line, and the component
each module belongs to.

## 2. Modules

| modules | model | abstract specification | proofs |
|---|---|---|---|
| `BuildQueue`, `MCBuildQueue` | scheduler, worker records, build route | `BuildRequests` | `BuildQueueProofs` |
| `RemoteBuild`, `MCRemoteBuild` | builder, build record, socket listeners | `BuilderContract` | `RemoteBuildProofs` |
| `OwnerLists`, `MCOwnerLists` | API keys and environment variables of an owner | | `OwnerListsProofs` |
| `Transfer`, `MCTransfer` | offers of devices to other owners | `TransferContract` | `TransferProofs` |
| `Devices`, `MCDevices` | device documents and their MQTT credentials | | `DevicesProofs` |
| `Firmware`, `MCFirmware` | envelopes, one-time tokens, updates | | `FirmwareProofs` |
| `Accounts`, `MCAccounts`, `AccountsClaims` | account documents, logins, consent, sources | | `AccountsProofs` |
| `Tokens`, `MCTokens` | JWT secret, login links | | `TokensProofs` |

`BuilderContract` is what `BuildQueue` assumes of the builder; `Accounts` and
`Tokens` divide a login between them, `Accounts` and `Devices` the removal of a
source, `Firmware` starts where `RemoteBuild` ends, with a job-status.

Two shapes recur.  Where the state is in Redis (`BuildQueue`, `OwnerLists`,
`Transfer`, `Tokens`, `Firmware`), one pipe of commands and callbacks (section
3, "Why one pipe").  Where it is in CouchDB (`RemoteBuild`, `Devices`,
`Accounts`), every call is a record in `jobs` that says which request it waits
for, and any call's next request can be answered: requests to CouchDB are not
ordered.  A handler of CouchDB (`_update`) reads and writes a document in one
step, or is refused because another write came between.

Every passing run's properties are each paired with a faulty variant of a
definition, which the run refutes; the variants stand before the definition
they vary and no specification uses them.

The plan is done, but for what section 12 leaves out: every safety property and
refinement is checked and proved, every liveness property checked.

## 3. BuildQueue

### Correspondence

| model | code |
|---|---|
| `store[u]`, `ttl[u]` | the key `queue:<udid>`: the status and the request of the JSON text; whether the key has an expiry |
| a request `r` | the `build_id` a new `Action` draws; `used` holds those drawn |
| `pipe` | Redis commands sent and not yet answered |
| `workers[s]` | `queue.workers[socket.id]`: absent, or `running` false/true (`connected` is true in every record ever made, because no server socket emits `connect`) |
| `builds[b]` | one call of `builder.build` in preparation, with the worker record and the callback its closure holds (`queued`: `runNext`'s callback; otherwise that of the route) |
| `remote[s]` | jobs that reached the socket and were not reported |
| `started` | requests handed to the builder |
| `Add`, `BuildNow` | the two branches of `build` in `router.build.js` |
| `Loop`, `Poll` | `findNext` up to its GETs, from cron and from `poll` |
| `GetVanished`, `GetRunning`, `GetSkipped`, `RunNext`, `RunNextWithoutWorker`, `RunNextForPoll` | the callback of one GET, by what it finds; a callback with what it calls is one step, as in JavaScript |
| `RedisSet`, `RedisExpire`, `RedisDel`, `TimeToLiveEnds` | Redis |
| `BuildRefused`, `BuildStarted` | the builder's callback; the second also broadcasts the job |
| `Register`, `Hello`, `JobStatus`, `Disconnect` | the socket handlers |
| `Exit`, `Crash`, `Reject` | the process ends: killed, or by an unhandled rejection |

**Why one pipe.**  The client sends commands on one connection; Redis executes
and answers them in order.  Executing a command and running its callback is
one step of the model.  Between the two Redis could only execute commands
that had been sent before the callback, and those stand before anything the
callback sends in either order, and no callback of theirs can run earlier; so
no outcome is lost.  A crash is the exception, and `Exit` covers it: any
prefix of the pipe has been executed, and no callback has run.

**KEYS.**  `queue.js:171` uses the value of `redis.v4.sendCommand` as the list of keys
at once.  `KeysReply = "list"` gives it that meaning: the list as of all
commands already sent (`Keys`).  The installed client (redis 4.5) returns a
promise there, which `messenger.js:820` knows; `KeysReply = "promise"` gives
that: the promise has no `length`, no GET is sent, nothing is ever scheduled.
The run `queue_claim_promise` shows the consequence.  All other runs use "list",
so that the rest of the queue's logic is examined rather than a queue that
never moves.

**Abstractions.**  The order in which KEYS lists the keys is arbitrary, and so is
the choice among available workers (the code takes the first in insertion
order; the model any).  `owner_id` and `source` of an entry are left out.
`BuildRefused` may come at any time after the call; the builder may also never
answer, as on several of its paths.  A socket is reused after `Disconnect`: a
new connection has a new id, and nothing of the old one is reachable.
`buildGuards` may call back and let `run_build` go on; a branch, the only
parameter that could be missing there, is always set by `sources.js`, so a
second callback is not modelled.

### Runs and what they show

| run | instance | shows |
|---|---|---|
| `queue_schedule` | 2 devices, 3 requests, 1 worker, concurrency 1 | type invariant (`TypeOK`), `RunningHasBuild`, `NeverStartedTwice`, `NeverWaitingAgain`, and the refinement `ImplementsRequests` |
| `queue_crash` | 1 device, 2 requests, a polling worker, crashes, fairness | with polls that throw and restarts: `NeverWaitingAgain` (no entry is revived), `RunningWillExpire` (a running entry has its expiry or gets it) and `RunningEnds` (it does not run forever, though neither the builder nor the worker ever has to answer) |
| `queue_claim_promise` | the installed client's KEYS | `WaitingEnds` is violated: a queued request waits forever (`queue.js:215`) |

`WaitingEnds` is the claim of that run and of no other.  In the "list" reading a
waiting request would end, but that is a repaired program, so no run says it.
`RunningEnds` speaks of what a worker's poll or a scan has marked, unless the
process dies (a crash between SET and EXPIRE leaves no expiry); of the build
it says nothing, and a worker whose record was lost or never freed stays so
until its next message.

Also visible in the model, where the code and the text beside it disagree, and
with no run of their own:

- with concurrency 1 two entries can run at once (`QueueSpec.js:66` expects
  none to be found while one runs): the limit of a scan is lowered by a running
  entry only when its GET is answered;
- a finished build deletes the newer request of its device (`queue.js:241-242`);
- a request queued for want of a worker becomes an error at the next scan
  (`queue.js:257`, `router.build.js:65`): `nextAvailableWorker` answers `false`,
  `loop` tests for `null`.

Also: the EXPIRE of a
started build may reach a newer entry of the device; a crash between SET and
EXPIRE leaves a running entry forever; entries with status error are never
pruned (`pruneIfCompleted` reads a field of the wrong object); a worker is
available again before its job is even sent.

**Bounds.**  `Requests` is the number of requests ever made (three reach a
device being scheduled, requeued and directly built at once; two suffice where
one overlap is asked for).  `Slots` bounds builds in preparation, `MaxLoops` and
`MaxPolls` the scans in the pipe.  `MaxLoops = 1` is an assumption and not only
a bound: a scan is answered within the five minutes to the next one.
`NeverStartedTwice` rests on it, and its proof says so: of two scans in the pipe
both can read an entry as waiting and start it.  Sockets and devices are
symmetric, except in the runs with fairness, which use no symmetry.  `queue_crash`
has one device, since a SET, its EXPIRE and what comes between concern one key,
and a slot for each request: with fewer, the bound itself would hold up a scan.
The specification cannot deadlock (a worker may always say Hello), so deadlock
stays checked.

**Fairness** (`FairSpec`): Redis answers (weak fairness of `Redis`), the cron
job runs (`Loop`), an expiry set is carried out (`TimeToLiveEnds`).  Users,
workers and the builder are under no obligation.

### Proofs

`BuildQueueProofs` proves, with no assumption but `QueueAssumption` where none is
named:

- `TypeCorrect`: `Spec => []TypeOK`.  One lemma per helper (`Answered`, `Exit`,
  `Reject`, `Launch`, `Forget`, ...), then one step per action.
- `RunningExpires`: `Spec => []RunningWillExpire`, for any number of devices,
  requests, workers, overlapping scans and polls, with crashes.  It is
  inductive together with `TypeOK`.  The argument is about what an action does to
  the set of commands in the pipe: appending keeps it (`OnAppend`), an answered GET
  loses nothing but the scan (`OnAnswered`), and answering another
  command loses only that command (`OnTail`).  So an EXPIRE on its way stays until
  it is executed, and then the key has an expiry or is gone; SET, the only
  command that takes an expiry away, sends a new EXPIRE if what it stored is running.

- `NoneWaitsAgain`: `Spec => NeverWaitingAgain`, from `RequestsInv`: no "waiting" on
  its way stands for a started request (`ArrivingIsNew`, below).  It survives the
  end of the process, since what a crash leaves was stored or on its way (`Settles`).
- `RunningIsBuilt`: `Pollers = {}` gives `Spec => []RunningHasBuild`.  A worker's poll
  marks an entry running and then throws before it calls the builder, so with polls
  there are running entries without a build; the run excludes them too.
  `BuildInv` says of every SET in the pipe what the property says of the store: if it
  writes "running", a queued build of the device is prepared, or the DEL stands
  behind it.
- `QueueInvHolds`: `MaxLoops <= 1` gives `Spec => []QueueInv`, and
- `NothingStartedTwice`: from it, `Spec => NeverStartedTwice`; with any number
  of devices, requests, workers, polls and builds, and with crashes.
- `RequestsImplemented`: `MaxLoops <= 1`, no crash and no exit on a rejection give
  `Spec => ImplementsRequests`, the two assumptions under which the run checks it.
  (Afterwards a restarted queue may start an entry again: only the live
  process keeps the contract.)  A request's phase is read off `used` and
  `started`, so the steps left to show are that nothing starts twice (`QueueInv`)
  and that no two prepared builds are of one request (`OneBuildEach`).

`NeverStartedTwice` is not inductive.  A scan reads an entry as "waiting" after
its request was started unless the SET that marks it comes first, and whether
it does depends on the order of the whole pipe.  `QueueInv` says so:
`StartedIsOverwritten` (a started request that reads "waiting" is overwritten
before the device's next GET), which needs `OneLoopScan` (no second scan was
issued before the SET), `ArrivingIsNew` (no "waiting" on its way stands for a
started request, or for one the entry shows already) and
`OneDevicePerRequest`.  The proof describes an action by how it moves the pipe:
at most one command leaves at the head, at most one joins at the end, a scan
may lose keys (`Moves`).  `OneLoopScanStep`, `OneDeviceStep`, `ArrivingStep` and
`OverwrittenStep` prove the parts from what joins (`Joins`), what is stored
(`Stores`) and what is started (`Starts`); most actions are then instances of
`QuietStep`, and `RunNext` and `RedisSet` have lemmas of their own.

Only model-checked: `RunningEnds` (liveness is out of the prover's reach).

## 4. OwnerLists

### Correspondence

| model | code |
|---|---|
| `stored[l]` | the JSON list under `ak:<owner>` (`KeyLists`) or `env:<owner>` (`EnvLists`), as a set |
| an item | an entry of a list; `text` is the key (drawn from the current second, so the second names it) or the variable's name, `by` the call of `create` that made it |
| `pipe` | GET and SET sent and not yet answered, with what their callbacks will do; one pipe, for the reasons of section 3 |
| `Create`, `Revoke` | the calls up to their GET, from `router.apikey.js` and `router.env.js` |
| `KeyCreated`, `EnvCreated`, `KeysRevoked`, `EnvRevoked`, `NothingToRevoke` | the callback of the GET, by kind of list and call |
| `Written` | SET, and for API keys the answer to the caller |
| `SetRejected`, `EnvGetRejected`, `KeyCreatedAnyway`, `RevokeRejected` | a rejected command: uncaught, or what the `catch` of the function does |
| `created`, `revoked`, `dropped` | history: what callers were told, and what a callback left out on purpose |
| `overlapped`, `failed`, `died` | history: lists on which a GET was sent while another's waited, whether a command was rejected, whether the process exited |

Things in the code that the model follows and a reader may not expect:

- `create` of a key looks for an existing key or alias in the characters of the
  JSON text and never finds one; two creations in one second store the same
  key twice, and a key revoked in the second it was made can be made again.
- A rejected GET makes `create` write a list of its new key alone
  (`apikey.js:84`, "save anyway").
- `create` of a variable leaves out every variable whose name CONTAINS the new
  one (`apienv.js:34`), though the comment speaks of the existing key; `Contains`
  is a constant relation, reflexive by `ListsAssumption`.
- Variables are confirmed before their SET is executed, keys after.
- `revoke` of variables deletes one of each name.  `EnvNamesUnique` is why
  that is enough.

`verify`, `fetch` and the lists only read, and are left out.  So is the order of a
list, on which no change depends.  A transfer of a device was meant to write such
a list; it throws before it does (section 6).

### Run, bounds and what it shows

`owner_lists`: one list of keys and one of variables (two names, one containing
the other), two creations, any number of revocations, two seconds, at most
three commands in the pipe (so a call can come between the GET and the SET of
another, and a third behind both), rejected commands and crashes.

- `EnvNamesUnique`: no name is twice in a list, whatever overlaps or fails.
- `CreatedIsKept`: on a list whose calls did not overlap, and if no command was
  rejected, a key stays until it is revoked, and a variable until it is
  replaced, revoked or the process dies.  Both conditions are needed: the code
  loses keys otherwise.
- `RevokedStaysGone`: on such a list a revoked key does not come back; rejected
  commands and crashes do not matter, since the answer waits for the SET.

The three lists of conditions (`overlapped`, `failed`, `died`) are weak on
purpose: they name exactly the histories in which the code keeps its promise.
No liveness is stated: a call answers when Redis does.

### Proofs

`OwnerListsProofs` proves all four properties of the run for every value of the
constants that satisfies `ListsAssumption` (`ListsTypeCorrect`,
`NamesAreUnique`, `RevokedIsGone`, `CreatedStays`), and `ListsInv`, the
inductive invariant (`ListsInvHolds`).  None of the three safety properties is
inductive: each depends on the SETs that wait in the pipe.  `ListsInv` adds that
every item belongs to its list and to a call that was made, that what a pending
`create` will add is nowhere yet (`PendingIsNew`), that without overlapping
calls a list has at most one SET in the pipe and after it one GET
(`ReadsAfterWrites`), that a SET on a list of variables holds no name twice,
leaves out what was revoked and keeps what was created.  One lemma per part says
how it survives a step, in terms of what leaves the pipe, what joins it (`From`)
and what Redis may hold (`Redone`); `QuietStep`, `AnswerStep` and `CallStep`
apply them to the three shapes a step has, and `InvStep` to the actions.
`EffectiveIs` (a list on which calls did not overlap becomes what its only SET
writes) connects the invariant with `CreatedIsKept`.

## 5. RemoteBuild

### Correspondence

| model | code |
|---|---|
| `stage[b]` | how far a call of `builder.build` has come: the request it waits for (`view`, `user`, `modify`, `device`, `keys`, `platform`, `env`), or `over` |
| `call[b]` | what its closures hold: `udid`, `device`, the worker record and its socket |
| `answer[b]` | what `callback` was called with; `again` is a second time |
| `marked[u]` | `build_id` in the device document |
| `record[b]`, `pending` | the build's record in CouchDB; the build log's GETs, inserts and updates on their way, answered in any order |
| `listeners[s]` | builds whose `log` and `job-status` listeners are on a worker's socket |
| `jobs[s]` | external: what the worker behind a socket does with jobs it received |
| `expected`, `by` of a request | history: the state last given to the build log, and whose report it came from |
| `Identify`, `Modified`, `ModifyFailed`, `Configure`, `Reject`, `EnvRejected`, `TemplateFailed`, `Start` | the callbacks of `build` and `run_build`, by how they end: go on, refuse, or return without a word |
| `Got`, `GetFailed`, `Written`, `WriteFailed` | the callbacks of `buildlog.js` |
| `LogLine`, `JobStatus`, `Disconnect` | the listeners on the socket |

The model follows the code where a reader may not expect it: the loop over
the owner's devices ends with the last one if the one asked for is not there,
so another device is marked (`ViewAnswered`, `Mark`); errors of the view other
than "missing", a rejected read of the API keys and of the variables, and a
failed write of `thinx_build.json` never call back; a job goes to every
socket; the build log inserts without a revision whenever its read failed or
found nothing, and only logs the conflict; the worker's listeners stay until
it disconnects.

**Abstractions.**  A record is the state a reader sees: `createInitialLogRecord`
puts it into the first entry of `log`, the update handler `state` above it. Any
status but OK is "FAILED".  `JobStatus` with OK leaves the record alone;
`cleanupDeviceRepositories` looks for older builds inside the newest one's
directory, finds none and changes nothing.  Web socket notifications, files, the
source's `is_private` and `last_build` are left out, and so is the local shell
(`runNext` refuses `worker === false`, and the route never passes it).  A
request that fails may have been executed.  An unhandled rejection that ends the
process is a `Crash` right after it.  A call's early refusals (missing
parameters) never reach the state.

### Runs and what they show

| run | instance | shows |
|---|---|---|
| `remote_build` | 2 builds, 2 devices, 2 workers, failures, crashes | `TypeOK`, `LastStateShown` and the refinement `HonoursContract` |

The state of an earlier build is overwritten by the report of a later one of the
same socket, whose listeners all hear it (`builder.js:245`; `buildlog.js:88-89`
speaks of the state of one build).  The model does so too.

- `HonoursContract`: a call is answered at most once, and its job is sent at most
  once and only in the step that answers "build_started".  `BuilderContract` is
  also what `BuildQueue` assumes of the builder: its `BuildRefused` and
  `BuildStarted` are the contract's `Refuse` and `Start`, and a builder that never
  answers is `Abandon`.
- `LastStateShown`: when the build log has settled, a record shows the state last
  given to it, unless two states were on the way at once, a request failed or
  was cut off by a crash, or another job's report came in (`Lose`).  These
  exceptions are what the code really loses: two first writes of a record
  insert it twice, and the second conflicts.  "created" racing with one other
  state is NOT excepted as long as they do not both find no record.

**Bounds.**  Two builds and two sockets, so that a job reaches a worker whose
socket has no listener for it and listeners of two builds meet on one socket; two
devices, so that the one found can be another than the one asked for.
`MaxPending = 2` bounds the build log's requests on their way: two are a race.
The worker may always disconnect, so deadlock stays checked.  No liveness:
the code promises no answer.

### Proofs

`RemoteBuildProofs` proves for every value of the constants (`RemoteAssumption`,
which says that `None` is none of the other values):

- `TypeCorrect`: `Spec => []TypeOK`, split into calls, log, sockets, devices and
  jobs; one lemma per action.
- `Refinement`: `Spec => HonoursContract`.  The contract's answer is guarded by
  "not answered yet", which the builder never tests; `Unanswered` (a call that
  has not ended has no answer) is the invariant that makes up for it.  `Kinds`
  reduces the steps to four shapes (given up or moved on, asked, refused,
  started), each a step of the contract or a stutter.

- `RecordShowsLast`: `Spec => []LastStateShown`, by `LogInv`.  Its part `Follows` says
  of each build whose state is not lost: the state last given is in the record or
  on its way, no request on its way writes another, except that of "created", and only
  while the record has nothing newer; only a missing record has an insert, and one
  only.  `Unlogged` says that nothing was given before the call reached
  `run_build`, and that no listener is there yet: without it a first "created" could
  meet an older state.

## 6. Transfer

### Correspondence

| model | code |
|---|---|
| `offers[t]`, `expiring` | the key `dt:<id>` with the request's `from`, `to` and `udids`; whether it has an expiry |
| `pipe` | Redis commands sent and not yet answered, with what their callbacks know |
| `owner[d]`, `edits` | the owner in a device's document; changes of it on their way (`device.edit`), answered in any order |
| `files[d]`, `moves` | under which owners' paths a device's artefacts are; copies and removals under way (`Transfer.rename`) |
| `Request` | `request`, once owner and recipient are known |
| `Ask` | `accept` and `decline` up to their GET, from the four routes of `router.transfer.js` |
| `Missing`, `Empty`, `Accept`, `AcceptThrows`, `Decline` | the callback of the GET, by what it finds; `Migrate` is `migrate_device` for every device named |
| `Written`, `TimeToLiveEnds` | SET, EXPIRE and DEL with what follows them (`storeRemainingKeys`), and the expiry |
| `EditArrives`, `Copied`, `Removed` | CouchDB and the disk |
| `Rejected`, `EditRefused`, `Crash`, `Drain`, `Restart` | failures: one in a behaviour |
| `to`, `made`, `taken`, `ended`, `partly`, `crossed` | history: what was offered, accepted and answered |

What a reader may not expect:

- `delete json_keys.udids[udid]` deletes by the name of a device from an array
  (`transfer.js:73`), so the list does not get shorter: an offer of one
  device is deleted by any answer, an offer of several stays for its hour.
- A POST that declines sends its devices as a string, which is walked character by
  character; a digit then makes a hole in the list (`Text`, `Hole`).
- Whether a device is being transferred already is asked under an array index
  and answered after the request was decided (`transfer.js:275-276`), so any
  two offers may name one device.
- Accepting with `mig_sources` or `mig_apikeys` throws after the device's owner was
  sent (undefined names), nobody is answered, and the offer stays.  It is why
  no list of API keys is ever written here.

### Run, bounds and what it shows

`transfer`: two owners, each with a device; one offers one device or none,
the other both; two calls of accept or decline of any kind, two commands in the
pipe when a call is made (a GET between another call's GET and its SET), one
failure or crash.

- `AnsweredWillEnd`: an offer told to be completed is gone when its commands are
  executed, one told to be partially completed will expire, however accepts and
  declines overlap.  (The SET of a late call clears the expiry; the EXPIRE behind it
  sets it again.)
- `ArtefactsKept`: with one move at a time artefacts are never lost.  Two
  crossing transfers of a device can lose them; `crossed` excepts those.
- `AcceptedArrives`: a device accepted for one offer only becomes the recipient's.
- `EveryCallAnswered`: but for the accepts that throw.
- `ImplementsContract`: `TransferContract` says what owners rely on: a device
  moves only to the recipient of an offer accepted while it was open, and a closed
  offer stays closed, failures and crashes included.

**Fairness**: Redis, CouchDB and the disk answer.  Nobody has to call, so
`CHECK_DEADLOCK FALSE`: a system with all calls made stops.

### Proofs

`TransferProofs`, for every value of the constants (`TransferAssumption`: `Hole` is no
device, `None` no owner, body or call):

- `TransferTypeCorrect`: the indices of a list stay a list when one device is
  deleted from it; the rest is one lemma per action.
- `ArtefactsAreKept`: `MovesInv` adds to the property that a device that did not cross
  has one move at most, and that a move which removes the source has made its copy.
- `OffersInvHolds` and `AnsweredEnds`.  `AnsweredWillEnd` speaks of an empty pipe; the
  invariant says what must be in it before.  `EndComes`: an answered offer that is
  still there has an EXPIRE, a DEL, or a SET of an answering call on its way, whose
  callback sends one.  A SET behind the end could undo it, so `FirstIsOpen` says
  that the only SET without an end behind it is that of the request, with
  nothing else of the offer on its way.  `Sized` keeps offers of one device and
  of several apart: only the latter expire.  The three hold while nothing failed;
  `OnlyMade` and `Addressed` always.
- `TransferImplements`: `Spec => ImplementsContract`, failures and crashes
  included.  A change of owner on its way was taken by its offer and goes to its
  recipient (`Addressed`), and only an offer that was made is stored again
  (`OnlyMade`); each action is then a step of the contract or a stutter.

Only model-checked: `AcceptedArrives` and `EveryCallAnswered` (liveness).

## 7. Devices

### Correspondence

| model | code |
|---|---|
| `doc[d]`, `rev[d]` | a device's CouchDB document and its revision |
| `keys[d]`, `topics[d]` | Redis: the password of a device (whose API key it hashes) and its ACL sets |
| `jobs` | calls under way: `at` is the request the call waits for, `copy` the document as read, `by` 0 when nobody waits any longer |
| `grants`, `dels` | `authorize_mqtt` between its start and the SET; DEL of `revoke_mqtt_credentials` on its way |
| `Call` | a route of `router.deviceapi.js` or `router.device.js`, up to its first read |
| `ByUdid`, `NotByUdid`, `ByMac`, `New`, `Inserted`, `Checkin`, `Profile`, `GoalMarked`, `Transform`, `Transformed` | `register` and what it calls |
| `Found`, `DropFound`, `MeshFound`, `UnmeshFound`, `Missing`, `Modified` | `edit`, `push`, `attach`, `detach`, the meshes, and the devices of a removed source |
| `Revoke`, `Destroyed`, `KeyDeleted` | `revoke_devices`, `destroy_device` |
| `RunFound`, `Run` | `run_transformers` |
| `over`, `saved`, `left`, `raced`, `late`, `special` | history: calls that overlapped, calls answered as done when they had written, and the cases the properties except |

What a reader may not expect: a device is known by its MAC only when more than one
row has it (`device.js:951-969`); a device with transformers whose service
answers, or with no list of them, is never answered (`special`); a check-in
of firmware that was built here is answered twice, by `markUserBuildGoal` and by
the update; a SigFox device is answered before it is stored; `revoke_devices`
keeps the last device that matches; `detachMesh` throws on a mesh that is there.
The copy a check-in makes goes into a field `changes` of the document
(`device.js:217`, `design_devices.json:25`), so a check-in undoes nothing, but
neither are the version and `env_hash` it sent stored, which are to override the
server's (`device.js:364-368`): the code and its comments disagree.  No property
says that they are stored; the run has check-ins with another version, and the
version of the document never changes (nor does `Firmware` let it).

### Run, bounds and what it shows

`devices`: two owners and three devices of one MAC (two known and one new; one
with a mesh and a source; one with transformers), two of fifteen calls at
once, one failure or crash.  `More` and `MaxCalls` then let one more call come when
at most one request is under way: the revocation of all three devices by one
owner.  So a device that was just registered, or registered again by another
owner, is revoked as well, and only the last match goes.  Two overlapping calls
are one overlap; a third of any kind would only repeat it.  Two rows of one MAC
are what `ByMac` asks for.

- `ChangesStay`: an owner, transformers, a source or a mesh that was answered as
  saved stays in the document, unless a later or overlapping call was to
  change the same, or one that sends a whole document (attaching a source or a
  mesh, the removal of a source) overlapped.  So what an `edit`, a `push` or a
  check-in read before never comes back, however late it writes.
- `CanConnect`: a device with a document has its password and the topics of its
  meshes, once nothing is on its way, unless it registered while it was revoked.
- `CredsGone`: a revoked device keeps no password, unless a registration stored one
  after it was gone.
- `EveryCallAnswered`: once and not twice, but for the cases above.

**Fairness**: CouchDB and Redis answer; a transformer need not.

### Proofs

`DevicesProofs`, for every value of the constants (`DevicesAssumption`: `None` is no
owner, source or document).  Everything rests on `StagesHold`: each call under way is
at a stage of its kind and has read what it has by then (`Staged`, `StagesOK`);
without it a handler could
be run on a document that is not there.  `Continues` is what any step may leave
under way of a call, so the invariants about calls are proved once for all of them
(`Quiet`, `KindsOfStep`) and then only for the steps that store something.

- `DevicesTypeCorrect`: `Spec => []TypeOK`.
- `ChangesAreKept`: `Spec => []ChangesStay`, by `ChangesInv`.  A whole document that
  was read, and may yet be written, shows what every saved call had changed by then,
  unless the two calls overlapped (`CopiesShow`); whoever is under way overlaps
  all calls made since (`OverKnown`); the calls under way and saved are calls that
  were made (`CallsKnown`).  A write of one field leaves what it does not change.
- `DevicesCanConnect`: `TopicsInv` says of every copy of a document what the property
  says of the document (a copy may be written back), and of a mesh about to be
  attached that its topic is there already; `KeysInv`, that a device with a document or
  about to be stored has a password or one being hashed.
- `RevokedLoseCredentials`: `GoneInv`: a revoked device's password is gone or its DEL on
  the way.

Only model-checked: `EveryCallAnswered`.

## 8. Firmware

### Correspondence

| model | code |
|---|---|
| `files[d]`, `envelope[d]` | version of the firmware under a device's path, and in its `build.json` |
| `stored[d]`, `runs[d]` | version in the device's document; version the device runs |
| `notices` | job-status reports in `notifier.process` |
| `tokens[t]`, `until[t]` | the one-time token of second `t`: whose request it holds, when it expires |
| `Built`, `Publish`, `Unpublished` | the worker's report; `notifier.process`, and its refusals |
| `CheckIn`, `Ask`, `AskOTT`, `Download` | the ways a device asks: registration, POST and GET of `/device/firmware`, `ott_request` |
| `FirmwarePath`, `Serve`, `Answers` | `device.firmware`, `updateFromPath`, `update_binary`, `update_multiple` |
| `HasUpdate` | `hasUpdateAvailable` |
| `TokenSet`, `TokenExpires`, `TokenRead` | the answers of Redis in `storeOTT` and `ott_update` |
| `told[d]`, `given[t]`, `mixed` | history: the token a device was given; the devices a token was given to; tokens by which another's firmware came |

A token is the hash of the time to the second, so the second names it: two devices
that ask in one second share it.  Documents with a field "source" are refused
(`notifier.js:83`), so only devices in `Old` get envelopes.  No check-in changes the
version in the document, which is what POST `/device/firmware` compares; a
check-in compares the one the device sends.  Whether there are several files is
read off the firmware on disk, where `device.js:104-112` goes by the platform in
`build.json`: the two differ only between `Built` and `Publish`.

### Run, bounds and what it shows

`firmware`: two devices, one of them with builds of two versions (several files,
then one binary), two seconds, one command in the pipe and one request at a time
beside it, one crash.  An hour is one tick of the clock and a day two, so that a
token that was used can expire within the run and one that was not cannot.

- `TokensExpire`: every token expires, but for a crash between SET and EXPIRE.
- `ServedIsOwn`: a device gets another's firmware only by a token both were given.
- `UpdateArrives`: a version that stays published for a device with auto_update
  gets there, unless a token was shared or the process died.

**Fairness**: Redis answers, requests are processed; a device checks in from time to
time and fetches what it was told of (strong fairness: both are disabled
while it waits for another answer), and gives up when nobody will answer.

### Proofs

`FirmwareProofs`, for every value of the constants (`FirmwareAssumption`):

- `FirmwareTypeCorrect`, by the shape of the commands.
- `FirmwareTokensExpire`: needs only that each SET in the pipe has somebody who waits for
  it and will send the expiry (`SetsOwned`, until something fails).
- `FirmwareServedIsOwn`: a token holds a device it was given to (`TokensGiven`), who was
  told of it or asks with it is one of them (`ToldGiven`, `PipeGiven`).  So whoever
  gets another's firmware shares the token with it.  "Shared" must mean given to
  two devices at any time, not stored for the second while the first's was there: a
  SET can be delayed past the expiry of the other's, and the device that was told
  first still has the token.

Only model-checked: `UpdateArrives`.

## 9. Accounts

### Correspondence

| model | code |
|---|---|
| `doc[o]`, `rev[o]` | the owner document: name, password, reset and activation keys, `repos`, meshes, `gdpr_consent`, `deleted`; `Gone` when destroyed |
| `keys[o]`, `expiring` | whether `ak:<owner>` holds the default MQTT key and others; EXPIRE of `revokeGDPR` |
| `jobs`, `asked`, `answers` | calls under way, made and answered; `to` of a job is the call it answers, its own unless a listener of another is called |
| `listeners` | the calls whose handlers are registered on `githubOAuth`, the one emitter of all GitHub callbacks |
| `NameViewed`, `KeyMade`, `Inserted`, `Mailed` | `create` |
| `LoginViewed`, `KeyListed`, `FirstKeyMade`, `Seen` | a login, `mqtt_key`, `updateLastSeen` |
| `GoogleRead`, `GoogleReadError`, `TokenRead` | Google's callback and `performTokenLogin` |
| `CodeMissing`, `Exchanged`, `GithubRead` | GitHub's callback: no code, the token or the error it is answered with, and the handler of one listener |
| `EmailViewed`, `KeyViewed` | `password_reset_init`, `set_password` |
| `Read`, `Checked`, `Edited`, `Conflict`, `Refused` | the reads before an edit, and the handler `edit` of `design_users.json` with its ends |
| `RevokeRead`, `Listed`, `Destroyed`, `KeysExpire` | `revokeGDPR` |
| `over`, `reissued`, `born` | history |

Passwords, keys, sources and tags are named by the call that made them.  The
environment is production; in tests some calls answer earlier.

What a reader may not expect:

- `edit` MERGES the map of sources it is sent (`design_users.json:36`), so a
  source that `remove` has taken out of its copy stays: the run
  `accounts_claim_removed`.  The same merge is why concurrent `add`s lose nothing.
- `mqtt_key` calls nobody back when the owner has other keys only (`owner.js:282`).
- `upsertOwnerDocumentRepos` retries without bound ("single retry", `sources.js:81`).
- `apply_update` looks at `error` and not at `uerror`: a refused update is
  answered as done.
- Two overlapping uses of one reset key both succeed (`owner.js:582` says it
  cannot be used any more).
- A sign-up with a known e-mail and another name adds a default key to the account
  there is before it is refused.
- GitHub's callback for a new user fails on an undefined name.
- `secureGithubCallbacks` adds its listeners for every callback and nothing takes
  them away (`router.github.js:155-161`), while the emitter is one
  (`oauth-github.js:14`, `oauth-github.js:63`).  So with a second callback the
  handler of the first runs again: it tracks that login once more and throws when it
  redirects a response that has been sent.  If the two overlap, one call can be
  redirected with the login of the other, and a token refused to one answers
  both with 401.
- A callback of GitHub without a code is never answered: the listeners for errors
  (`oauth-github.js:44`) only log, but for tests (`router.github.js:155-159`).
- `delete` destroys without a revision when its edit was refused; the rejection
  is not caught.
- `gdpr.js` purges nothing and notifies nobody; the changes computed in
  `router.gdpr.js:128-135` are not used.

### Runs, bounds and what they show

`accounts`: two owners, the first with an account that has several API keys or
none that is the default one; any two of twenty-four calls at once, and the
use of a key that a first call has made; one failure or crash.

- `SavedStays`: what was answered as saved stays in the document.  Sources stay
  whatever else is called; of the others a later or overlapping call about the
  same field may win.
- `KeyUsedOnce`: one key sets one password, unless two uses overlapped or the key
  was made twice in one second.
- `EveryCallAnswered`: but for that login, an add of an unknown platform and a
  callback of GitHub without a code.  Nothing is said once something has failed or
  thrown (`disturbed`), as a second GitHub callback makes its predecessor's handler do.

`accounts_claim_removed`: violated, with nothing failing: a source removed and
answered as removed is still there (`sources.js:323-328`, `SourcesSpec.js:52`).

`accounts_claim_reply`: `LoggedInAsOneself` is violated, with nothing failing: of two
overlapping GitHub callbacks one is answered with the login of the other
(`router.github.js:161`).

**Fairness**: every call's next request, to CouchDB, Redis or GitHub, is answered.

### Proofs

`AccountsProofs`, for every value of the constants (`AccountsAssumption`).  Of the
accounts there are at first it assumes `KeysApart`: no two have the same key and
none has a key of a later call, a key being the SHA-256 of an e-mail or an
owner's id and the date (`owner.js:178`, `owner.js:804`).

- `AccountsTypeCorrect`, with `CallsOK`: a call is at one stage of its kind, or at several
  where the code sends several requests; it answers itself or, for GitHub, a call that
  has listeners (`Addressed`); what it is about to write has its change
  (`Carries`); it overlaps every call under way that was made later.
- `WhatIsSavedStays`: `Spec => []SavedStays`.  `SavedStays` is inductive together with
  `EditsOK`: the document an edit was sent for is still there, and if its revision
  is another, a call has overlapped this one.  `EditDoes` says what an edit leaves
  alone, and `MergedIs` why no edit takes a source away.
- `AKeySetsOnePassword`: `Spec => []KeyUsedOnce`, by `KeysInv`: whoever holds a key was
  given it, by a call that has stored it (`HeldIsGiven`), so a key has one holder, and
  who is about to set a password with it is that one (`SettersHold`); a key that
  has set a password has no holder and gets none, and whoever had found it
  before overlaps the call that did (`UsedIsSpent`).

Only model-checked: `EveryCallAnswered`.

## 10. Tokens

### Correspondence

| model | code |
|---|---|
| `secret` | `__JWT_SECRET__` in Redis; secrets are numbered as they are made |
| `kept` | the secret the router's `JWTLogin` keeps; the one of `thinx-core.js` is a second instance, whose copy nothing reads |
| `drawing` | `createSecretKey` waiting for random bytes |
| `links[l]` | the key under a login link: none, without or with an expiry |
| `Serve` | `router.js` is set up some time after `thinx-core.js` asked for the secret |
| `Login`, `OAuth`, `Use`, `Verify` | `respondRedirectWithToken`, the providers' callbacks, `performTokenLogin`, `verify` |
| `Fetched`, `Missing`, `Drawn`, `Created`, `Proceed` | `fetchOrCreateSecretKey` and its callbacks |
| `Written`, `Found`, `TimeToLiveEnds` | Redis |
| `signed`, `refused`, `handed`, `good`, `raced` | history |

The link of a password login is the hash of the user, so logins of one user share
it; Google's link is not; the expiry is sent with the SET or after its answer
(`chained`), by provider.  A GitHub handler that runs again for a later
callback (section 9) sets its link again, which is one more `OAuth` on that link
here.  A link that is over makes `JSON.parse(null).owner` throw
inside a `catch` that answers nobody.  Google's state key "oa:google:..." gets
its lifetime as a value and never expires; nothing here reads it.

The comment of `jwtlogin.js:24-25` has one secret for all tokens: when two are
made at once (two instances, two first logins), tokens of the overwritten one
are refused until they are replaced.  The model shows it; `SignedIsAccepted`
excepts it.

### Run, bounds and what it shows

`tokens`: three calls on a user's link and a provider's, up to two commands in the
pipe when a call is made, one crash with restart or one rejected command.  Three
calls are: a login, another that overlaps it, and a verification.

- `SignedIsAccepted`: tokens are accepted, after a restart too, unless two
  secrets were made at once.
- `LinksExpire`: a stored link has an expiry or its EXPIRE is on its way.
- `EveryCallAnswered`: but for a link that is over.

**Fairness**: Redis answers, random bytes come.

### Proofs

`TokensProofs`, for every value of the constants (`TokensAssumption`):

- `TokensTypeCorrect`, with `WaitingKnown`: a verification that waits for the secret
  is of a call that was made, about a token that was signed.
- `TokensAccepted`: `Spec => []SignedIsAccepted`, by `OneSecret`: until two secrets are
  made at once, a secret is drawn or written only while Redis has none, for one
  who waits, and what the router keeps, and what was signed with, is what Redis holds.
- `TokensExpireLinks`: `Spec => []LinksExpire`, by `ExpiryFollows`: a SET in the pipe has
  its EXPIRE behind it, or sends it when it is answered.

Only model-checked: `EveryCallAnswered`.

## 11. What is proved and what is only checked

Proved for every value of the constants: each safety property, action property
and refinement that the passing runs check.  Where a theorem needs more than the
named assumption on the constants (`MaxLoops <= 1`, no polling workers, no crash)
its section says so, and it is what the run assumes.

Only model-checked: all liveness, which is out of the prover's reach, as is
ENABLED.  The three violated claims (`WaitingEnds`, `RemovedIsGone`,
`LoggedInAsOneself`) are counterexamples, found by TLC.

## 12. Not modelled

- Messenger: the server's own MQTT client gets callbacks that are not bound
  (`messenger.js:741-743`), so storing a message fails on `this.redis`.  An
  owner's client is bound, but Slack is disabled and `rtm` stays null: a message
  that is no notification throws in `forwardNonNotification` (line 328), and a
  device's notification before its SET (`this.socket`, line 471).  What is left
  writes little: a status of a message that is also a notification goes to
  `device.edit` (the call "edit" of section 7), an answer writes its
  `nid:<udid>` key back as it was, and `initWithOwner` may add a default API
  key.
- Server and web sockets: what `thinx-core.js` keeps of them (`app._ws`, the socket
  map) only finds a socket to write to.  Rollbar takes uncaught exceptions only with
  ROLLBAR_ACCESS_TOKEN; the models allow the process to exit or to go on.
- `repository.js`: `queue_updated_repos` fails on undefined names, so a webhook
  queues nothing.
- RSA keys: files of one owner, written and read by single synchronous calls.
- Statistics, audit and metrics: log parsing and time series.
- Start-up and configuration, git and file I/O, sanitising and formatting
  helpers; the web console, broker and worker images (git submodules, absent from
  the sources).
