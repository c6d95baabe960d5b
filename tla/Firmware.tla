------------------------------- MODULE Firmware -------------------------------
(***************************************************************************)
(* Firmware on its way to a device: the envelope of a build                 *)
(* (lib/thinx/notifier.js), whether it is newer than what a device runs     *)
(* (lib/thinx/deployment.js), and the requests that fetch it with a         *)
(* one-time token or without (lib/thinx/device.js,                          *)
(* lib/router.deviceapi.js).                                                *)
(*                                                                          *)
(* A token is a Redis key named by the hash of the time to the second, so   *)
(* here by the time itself.  `pipe' holds the commands issued and not yet   *)
(* answered; executing one and running its callback is one step.  Left      *)
(* out: last_build_id and the notifications "nid:<udid>", which decide      *)
(* nothing here, API keys that are refused, messages to Slack, and the      *)
(* conversion of versions that are not semantic ones.  What a request does  *)
(* before its first read is part of that read.                              *)
(***************************************************************************)
EXTENDS Integers, Sequences, FiniteSets

CONSTANTS
  Udids,
  MaxVersion,  \* bound: versions of firmware are 1..MaxVersion
  MaxNow,      \* bound: seconds
  Day, Hour,   \* 86400 and 3600 seconds
  Never,       \* a key without an expiry
  None,        \* no value
  Old,         \* devices whose document has no field "source"
  AutoUpdate,  \* devices with auto_update
  Builds,      \* versions built for each device
  Asks,        \* requests that are made
  Kind,        \* what the build of a version has left on the disk
  MaxPipe,     \* bound: commands in the pipe when a request is made
  MaxCalls,    \* bound: requests for firmware processed at once
  CanCrash     \* the process can be killed

(* short: less than 1000 bytes; files: of a platform with several files;    *)
(* hidden: nothing the search for a file matches.                           *)
Kinds == {"binary", "short", "files", "hidden"}
Versions == 1..MaxVersion
Times == 0..MaxNow

ASSUME FirmwareAssumption ==
  /\ MaxVersion \in Nat \ {0} /\ MaxNow \in Nat
  /\ Hour \in Nat \ {0} /\ Day \in Nat \ {0}
  /\ Never \notin Nat /\ None \notin Udids \cup Times
  /\ Old \subseteq Udids /\ AutoUpdate \subseteq Udids
  /\ Builds \in [Udids -> SUBSET Versions]
  /\ Asks \subseteq [udid : Udids, forced : BOOLEAN, ott : BOOLEAN, env : BOOLEAN]
  /\ Kind \in [Versions -> Kinds]
  /\ MaxPipe \in Nat /\ MaxCalls \in Nat /\ CanCrash \in BOOLEAN

VARIABLES
  now,
  files,      \* disk: version of the firmware under a device's path, or 0
  envelope,   \* disk: version in its build.json, or 0
  stored,     \* CouchDB: version in the device's document
  notices,    \* reports of builds being processed
  tokens,     \* Redis: the device of each token, or None
  until,      \* Redis: when it expires
  pipe,       \* commands issued to Redis and not yet answered
  calls,      \* requests for firmware being processed
  waits,      \* devices that wait for an answer
  told,       \* the token a device was given, or None
  runs,       \* version a device runs
  given,      \* the devices a token was ever stored for
  mixed,      \* tokens by which a device got another's firmware
  disturbed   \* the process has exited

disk == <<files, envelope>>
couch == <<stored, notices>>
redis == <<tokens, until, given>>
device == <<told, runs, mixed>>
vars == <<now, files, envelope, stored, notices, tokens,
          until, pipe, calls, waits, told, runs, given, mixed,
          disturbed>>

Command ==
  [op : {"set"}, token : Times, udid : Udids, by : Udids \cup {None}]
    \cup [op : {"expire"}, token : Times, for : {Day, Hour}, by : Udids \cup {None}]
    \cup [op : {"get"}, token : Times, by : Udids \cup {None}]
FirmwareCall == [udid : Udids, forced : BOOLEAN, ott : BOOLEAN, update : BOOLEAN]
Notice == [udid : Udids, version : Versions]

TypeOK ==
  /\ now \in Times
  /\ files \in [Udids -> 0..MaxVersion] /\ envelope \in [Udids -> 0..MaxVersion]
  /\ stored \in [Udids -> Versions]
  /\ notices \in SUBSET Notice
  /\ tokens \in [Times -> Udids \cup {None}]
  /\ until \in [Times -> Nat \cup {Never}]
  /\ pipe \in Seq(Command)
  /\ calls \in SUBSET FirmwareCall /\ waits \in SUBSET Udids
  /\ told \in [Udids -> Times \cup {None}] /\ runs \in [Udids -> Versions]
  /\ given \in [Times -> SUBSET Udids] /\ mixed \in SUBSET Times
  /\ disturbed \in BOOLEAN

Init ==
  /\ now = 0
  /\ files = [d \in Udids |-> 0] /\ envelope = files
  /\ stored = [d \in Udids |-> 1] /\ runs = stored
  /\ notices = {}
  /\ tokens = [t \in Times |-> None] /\ until = [t \in Times |-> Never]
  /\ pipe = <<>> /\ calls = {} /\ waits = {}
  /\ told = [d \in Udids |-> None]
  /\ given = [t \in Times |-> {}] /\ mixed = {} /\ disturbed = FALSE
-----------------------------------------------------------------------------
(* Builds. *)

(* The report carries the version that was there before. *)
BuiltBefore(d, v) ==
  /\ v \in Builds[d] /\ files[d] < v
  /\ files' = [files EXCEPT ![d] = v]
  /\ notices' = notices \cup {[udid |-> d, version |-> files[d]]}
  /\ UNCHANGED <<now, envelope, stored, redis, pipe, calls,
                 waits, device, disturbed>>

(* The worker leaves the firmware on the disk and sends its job-status.     *)
Built(d, v) ==
  /\ v \in Builds[d] /\ files[d] < v
  /\ files' = [files EXCEPT ![d] = v]
  /\ notices' = notices \cup {[udid |-> d, version |-> v]}
  /\ UNCHANGED <<now, envelope, stored, redis, pipe, calls,
                 waits, device, disturbed>>

(* Notifier.process refuses a document that has a field "source", whatever  *)
(* its value, and one no device of that source is found with.               *)
Unpublished(n) ==
  /\ n \in notices
  /\ notices' = notices \ {n}
  /\ UNCHANGED <<now, disk, stored, redis, pipe, calls,
                 waits, device, disturbed>>

(* The modify of last_build_id is not waited for.                           *)
Publish(n) ==
  /\ n \in notices /\ n.udid \in Old
  /\ notices' = notices \ {n}
  /\ envelope' = [envelope EXCEPT ![n.udid] = n.version]
  /\ UNCHANGED <<now, files, stored, redis, pipe, calls, waits,
                 device, disturbed>>
-----------------------------------------------------------------------------
(* Requests of devices. *)

(* Only the environment is compared. *)
HasOtherEnv(d, v, env) == envelope[d] # 0 /\ v = envelope[d] /\ env

(* hasUpdateAvailable: an older version, or the same in another environment.*)
HasUpdate(d, v, env) ==
  envelope[d] # 0 /\ (v < envelope[d] \/ (v = envelope[d] /\ env))

StoreOTT(d) == [op |-> "set", token |-> now, udid |-> d, by |-> d]
Expire(t, secs, d) == [op |-> "expire", token |-> t, for |-> secs, by |-> d]

(* A check-in that has updated its document: the version is the one the     *)
(* device has sent.                                                         *)
CheckIn(d, env) ==
  /\ d \notin waits /\ Len(pipe) < MaxPipe
  /\ IF d \in AutoUpdate /\ HasUpdate(d, runs[d], env)
     THEN /\ pipe' = Append(pipe, StoreOTT(d))
          /\ waits' = waits \cup {d} /\ told' = told
     ELSE /\ told' = [told EXCEPT ![d] = None]
          /\ UNCHANGED <<pipe, waits>>
  /\ UNCHANGED <<now, disk, couch, redis, calls, runs, mixed, disturbed>>

(* GET /device/firmware?ott=. *)
Download(d) ==
  /\ d \notin waits /\ told[d] # None /\ Len(pipe) < MaxPipe
  /\ pipe' = Append(pipe, [op |-> "get", token |-> told[d], by |-> d])
  /\ waits' = waits \cup {d}
  /\ UNCHANGED <<now, disk, couch, redis, calls, device, disturbed>>

(* POST /device/firmware, with an API key or a token; the version in the    *)
(* document decides.                                                        *)
Ask(a) ==
  /\ a.udid \notin waits /\ Cardinality(calls) < MaxCalls
  /\ waits' = waits \cup {a.udid}
  /\ calls' = calls \cup
       {[udid |-> a.udid, forced |-> a.forced, ott |-> a.ott,
         update |-> HasUpdate(a.udid, stored[a.udid], a.env)]}
  /\ UNCHANGED <<now, disk, couch, redis, pipe, device, disturbed>>

(* ott_request: the request itself becomes the value of a token.            *)
AskOTT(d) ==
  /\ d \notin waits /\ Len(pipe) < MaxPipe
  /\ waits' = waits \cup {d}
  /\ pipe' = Append(pipe, StoreOTT(d))
  /\ UNCHANGED <<now, disk, couch, redis, calls, device, disturbed>>

(* latestFirmwarePath, updateFromPath and update_binary: device d gets the  *)
(* firmware of x.  What several files make throws, throws once more, and is *)
(* not answered.                                                            *)
HasPath(x) == envelope[x] # 0 /\ files[x] # 0 /\ Kind[files[x]] # "hidden"
Serves(x) == HasPath(x) /\ Kind[files[x]] = "binary"
Answers(x) == ~(HasPath(x) /\ Kind[files[x]] = "files")

Serve(d, x) ==
  /\ waits' = IF Answers(x) THEN waits \ {d} ELSE waits
  /\ runs' = IF Serves(x) THEN [runs EXCEPT ![d] = files[x]] ELSE runs
  /\ told' = [told EXCEPT ![d] = None]

Refuse(d) ==
  /\ waits' = waits \ {d}
  /\ UNCHANGED <<runs, told>>

FirmwarePath(c) ==
  /\ c \in calls
  /\ calls' = calls \ {c}
  /\ LET d == c.udid IN
     IF HasPath(d) /\ d \in AutoUpdate /\ (c.update \/ c.forced)
     THEN IF c.ott /\ ~c.forced
          THEN /\ pipe' = Append(pipe, StoreOTT(d))
               /\ UNCHANGED <<waits, told, runs>>
          ELSE /\ Serve(d, d)
               /\ pipe' = IF c.ott /\ told[d] # None /\ Serves(d)
                          THEN Append(pipe, Expire(told[d], Hour, None)) ELSE pipe
     ELSE Refuse(d) /\ pipe' = pipe
  /\ UNCHANGED <<now, disk, couch, redis, mixed, disturbed>>
-----------------------------------------------------------------------------
(* Redis. *)

C == Head(pipe)
Then(cs) == pipe' = Tail(pipe) \o cs

(* The token never expires, and the device is not told.                     *)
TokenKept ==
  /\ pipe # <<>> /\ C.op = "set"
  /\ given' = [given EXCEPT ![C.token] = @ \cup {C.udid}]
  /\ tokens' = [tokens EXCEPT ![C.token] = C.udid]
  /\ until' = [until EXCEPT ![C.token] = Never]
  /\ Then(<<>>)
  /\ UNCHANGED <<now, disk, couch, calls, waits, device, disturbed>>

(* SET of a token, which is then given an expiry of a day. *)
TokenSet ==
  /\ pipe # <<>> /\ C.op = "set"
  /\ given' = [given EXCEPT ![C.token] = @ \cup {C.udid}]
  /\ tokens' = [tokens EXCEPT ![C.token] = C.udid]
  /\ until' = [until EXCEPT ![C.token] = Never]
  /\ Then(IF C.by = None THEN <<>> ELSE <<Expire(C.token, Day, C.by)>>)
  /\ UNCHANGED <<now, disk, couch, calls, waits, device, disturbed>>

(* The token is computed again for the answer. *)
TokenRehashed ==
  /\ pipe # <<>> /\ C.op = "expire"
  /\ until' = IF tokens[C.token] = None THEN until
              ELSE [until EXCEPT ![C.token] = now + C.for]
  /\ IF C.by \in waits
     THEN told' = [told EXCEPT ![C.by] = now] /\ waits' = waits \ {C.by}
     ELSE UNCHANGED <<told, waits>>
  /\ Then(<<>>)
  /\ UNCHANGED <<now, disk, couch, tokens, given, calls, runs, mixed,
                 disturbed>>

(* The device is told of its token once it will expire. *)
TokenExpires ==
  /\ pipe # <<>> /\ C.op = "expire"
  /\ until' = IF tokens[C.token] = None THEN until
              ELSE [until EXCEPT ![C.token] = now + C.for]
  /\ IF C.by \in waits
     THEN told' = [told EXCEPT ![C.by] = C.token] /\ waits' = waits \ {C.by}
     ELSE UNCHANGED <<told, waits>>
  /\ Then(<<>>)
  /\ UNCHANGED <<now, disk, couch, tokens, given, calls, runs, mixed,
                 disturbed>>

(* ott_update: the token says whose firmware it is, and is valid for one    *)
(* more hour.                                                               *)
TokenRead ==
  /\ pipe # <<>> /\ C.op = "get"
  /\ LET x == tokens[C.token] IN
     IF C.by \notin waits
     THEN UNCHANGED <<waits, runs, told, mixed>> /\ Then(<<>>)
     ELSE IF x = None
     THEN /\ waits' = waits \ {C.by} /\ runs' = runs
          /\ told' = [told EXCEPT ![C.by] = None]
          /\ mixed' = mixed /\ Then(<<>>)
     ELSE /\ Serve(C.by, x)
          /\ mixed' = IF Serves(x) /\ x # C.by THEN mixed \cup {C.token} ELSE mixed
          /\ Then(IF Serves(x) THEN <<Expire(C.token, Hour, None)>> ELSE <<>>)
  /\ UNCHANGED <<now, disk, couch, tokens, until, given, calls, disturbed>>

Tick ==
  /\ now < MaxNow
  /\ now' = now + 1
  /\ LET Gone == {t \in Times : until[t] # Never /\ until[t] <= now'} IN
       /\ tokens' = [t \in Times |-> IF t \in Gone THEN None ELSE tokens[t]]
       /\ until' = [t \in Times |-> IF t \in Gone THEN Never ELSE until[t]]
  /\ UNCHANGED <<disk, couch, given, pipe, calls, waits, device, disturbed>>

(* A device nobody will answer gives up. *)
GiveUp(d) ==
  /\ d \in waits
  /\ \A c \in calls : c.udid # d
  /\ \A i \in 1..Len(pipe) : pipe[i].by # d
  /\ waits' = waits \ {d}
  /\ UNCHANGED <<now, disk, couch, redis, pipe, calls, device, disturbed>>

(* The process exits; Redis may execute some of what it was sent.           *)
Crash ==
  /\ CanCrash /\ ~disturbed
  /\ disturbed' = TRUE
  /\ \E n \in 0..Len(pipe) :
       pipe' = [i \in 1..n |-> [pipe[i] EXCEPT !.by = None]]
  /\ notices' = {} /\ calls' = {} /\ waits' = {}
  /\ UNCHANGED <<now, disk, stored, redis, device>>
-----------------------------------------------------------------------------
Redis == TokenSet \/ TokenExpires \/ TokenRead
Notify == \E n \in notices : Unpublished(n) \/ Publish(n)
Answered(d) == \E c \in calls : c.udid = d /\ FirmwarePath(c)

Next ==
  \/ Redis \/ Notify \/ Tick \/ Crash
  \/ \E d \in Udids, v \in Versions : Built(d, v)
  \/ \E d \in Udids : Answered(d) \/ Download(d) \/ AskOTT(d) \/ GiveUp(d)
  \/ \E d \in Udids, env \in BOOLEAN : CheckIn(d, env)
  \/ \E a \in Asks : Ask(a)

(* Redis and CouchDB answer, and a device checks in from time to time and   *)
(* fetches what it was told of.                                             *)
Spec ==
  /\ Init /\ [][Next]_vars
  /\ WF_vars(Redis)
  /\ \A d \in Udids : /\ SF_vars(CheckIn(d, FALSE)) /\ SF_vars(Download(d))
                      /\ WF_vars(GiveUp(d)) /\ WF_vars(Answered(d))
-----------------------------------------------------------------------------
(* Properties. *)

(* device.js:50-58, 192.  Every token expires: a SET that clears the expiry *)
(* of a token of the same second is followed by an EXPIRE, and only a crash *)
(* between the two leaves the token for good.                               *)
TokensExpire ==
  \A t \in Times : tokens[t] # None /\ until[t] = Never =>
    disturbed \/ \E i \in 1..Len(pipe) : pipe[i].op = "expire" /\ pipe[i].token = t

(* device.js:52, 1145-1172.  Whoever overwrites, renews or fetches tokens,  *)
(* a device gets the firmware of another only by a token that was given to  *)
(* two devices in one second.                                               *)
Shared == {t \in Times : \E d, e \in given[t] : d # e}
ServedIsOwn == mixed \subseteq Shared

(* device.js:240-285, deployment.js:364-403.  A version that stays          *)
(* published for a device with auto_update gets to the device: the version  *)
(* in its document, which no check-in changes, cannot stop it.              *)
Published(d, v) ==
  envelope[d] = v /\ files[d] = v /\ d \in AutoUpdate /\ Kind[v] = "binary"
UpdateArrives ==
  \A d \in Udids, v \in Versions :
    <>[]Published(d, v) => <>(runs[d] = v \/ Shared # {} \/ disturbed)
=============================================================================
