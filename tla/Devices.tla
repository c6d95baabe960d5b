-------------------------------- MODULE Devices --------------------------------
(***************************************************************************)
(* Devices: one CouchDB document each, changed by the device itself         *)
(* (lib/thinx/device.js, lib/router.deviceapi.js) and by its owner          *)
(* (lib/thinx/devices.js, lib/router.device.js), and in Redis the MQTT      *)
(* credentials (lib/thinx/auth.js) and topics (lib/thinx/acl.js).           *)
(*                                                                          *)
(* A call is a chain of requests to CouchDB; another call's can come        *)
(* between any two.  A request and the callback that takes its result are   *)
(* one step.  A callback that throws leaves its call unanswered; the        *)
(* process exits, unless ROLLBAR_ACCESS_TOKEN is set and Rollbar takes the  *)
(* exception: so Crash may follow or not.  Left out: audit records,         *)
(* statistics, the disk, the fields of a document that nothing here reads,  *)
(* and requests refused before any read.                                    *)
(***************************************************************************)
EXTENDS Integers, Sequences, FiniteSets

CONSTANTS
  Owners, Macs, Sources, Meshes,
  Udids,      \* integers, in the order of the views
  Versions,   \* of firmware
  None,       \* no value
  Own,        \* stands for the topics of the device and of its owner
  Known,      \* the documents there can be at first
  Requests,   \* the requests that can be made
  More,       \* bound: those that can be made after the first two, when one
              \* request at most is under way
  MaxCalls,   \* bound: requests of a behaviour
  CanCrash,   \* the process can be killed
  CanFail     \* CouchDB can fail, once

Calls == 1..MaxCalls

(* "null": no list of transformers; "none": an empty one. *)
Jobs == {"null", "none", "some"}
Device == [owner : Owners, mac : Macs, source : Sources \cup {None},
           meshes : SUBSET Meshes, version : Versions, jobs : Jobs]
Topic == Owners \X (Meshes \cup {Own})

(* ack: a SigFox device asks for its downlink; goal: the firmware is one we *)
(* built.                                                                   *)
Request ==
  [op : {"register"}, udid : Udids, mac : Macs, owner : Owners,
   version : Versions, ack : BOOLEAN, goal : BOOLEAN]
    \cup [op : {"edit"}, udid : Udids, field : {"owner"}, value : Owners]
    \cup [op : {"edit"}, udid : Udids, field : {"jobs"}, value : Jobs]
    \cup [op : {"push", "detach"}, udid : Udids]
    \cup [op : {"attach"}, udid : Udids, source : Sources]
    \cup [op : {"mesh", "unmesh"}, udid : Udids, mesh : Meshes, owner : Owners]
    \cup [op : {"revoke"}, udids : SUBSET Udids, owner : Owners]
    \cup [op : {"drop"}, source : Sources, owner : Owners]
    \cup [op : {"run"}, udid : Udids, owner : Owners]

ASSUME DevicesAssumption ==
  /\ Udids \subseteq Nat
  /\ Own \notin Meshes /\ None \notin Sources \cup Owners \cup Device
  /\ Known \subseteq [Udids -> Device \cup {None}]
  /\ Requests \subseteq Request /\ More \subseteq Requests
  /\ MaxCalls \in Nat /\ CanCrash \in BOOLEAN /\ CanFail \in BOOLEAN

VARIABLES
  doc,        \* CouchDB: the document of a device, or None
  rev,        \* its revision
  keys,       \* Redis: whose API key is the password of a device, or None
  topics,     \* Redis: topics a device may read and write
  jobs,       \* requests to CouchDB, and to transformers, under way
  grants,     \* credentials being hashed
  dels,       \* devices whose credentials are being deleted
  asked,      \* the calls made, in order
  answers,    \* answers each of them got
  over,       \* pairs of calls that overlapped
  saved,      \* calls that were answered as done when they had written
  left,       \* devices that have been revoked since they were registered
  raced,      \* devices that registered when their credentials were deleted
  late,       \* devices authorised when they were revoked already
  special,    \* some device has had transformers, or no list of them
  disturbed   \* the process has exited, or CouchDB has failed

redis == <<keys, topics, grants, dels>>
history == <<over, saved, left, raced, late, special>>
vars == <<doc, rev, keys, topics, jobs, grants, dels, asked, answers, over,
          saved, left, raced, late, special, disturbed>>

Stage == {"get", "mac", "insert", "profile", "goal", "lambda", "user",
          "modify", "destroy"}

(* no: the call; by: the same while its caller waits, then 0; copy: the     *)
(* document as it was read.                                                 *)
Job == [no : Calls, by : 0..MaxCalls, at : Stage, req : Requests,
        udid : Udids \cup {None}, copy : Device \cup {None}, rev : Nat]
Grant == [udid : Udids, owner : Owners, topics : SUBSET Topic]

TypeOK ==
  /\ doc \in [Udids -> Device \cup {None}]
  /\ rev \in [Udids -> Nat]
  /\ keys \in [Udids -> Owners \cup {None}]
  /\ topics \in [Udids -> SUBSET Topic]
  /\ jobs \in SUBSET Job
  /\ grants \in SUBSET Grant
  /\ dels \in SUBSET Udids
  /\ asked \in Seq(Requests) /\ Len(asked) <= MaxCalls
  /\ answers \in [Calls -> 0..2]
  /\ over \in SUBSET (Calls \X Calls) /\ saved \in SUBSET Calls
  /\ left \in SUBSET Udids
  /\ raced \in SUBSET Udids /\ late \in SUBSET Udids
  /\ special \in BOOLEAN /\ disturbed \in BOOLEAN

TopicsOf(d) == {<<d.owner, Own>>} \cup {<<d.owner, m>> : m \in d.meshes}

Init ==
  /\ doc \in Known
  /\ rev = [d \in Udids |-> 0]
  /\ keys = [d \in Udids |-> IF doc[d] = None THEN None ELSE doc[d].owner]
  /\ topics = [d \in Udids |-> IF doc[d] = None THEN {} ELSE TopicsOf(doc[d])]
  /\ jobs = {} /\ grants = {} /\ dels = {}
  /\ asked = <<>>
  /\ answers = [k \in Calls |-> 0]
  /\ over = {} /\ saved = {} /\ left = {} /\ raced = {} /\ late = {}
  /\ special = (\E d \in Udids : doc[d] # None /\ doc[d].jobs # "none")
  /\ disturbed = FALSE
-----------------------------------------------------------------------------
(* Steps of a call. *)

Call(r) ==
  /\ Len(asked) < MaxCalls /\ (Len(asked) >= 2 => r \in More /\ Cardinality(jobs) <= 1)
  /\ asked' = Append(asked, r)
  /\ jobs' = jobs \cup {[no |-> Len(asked) + 1, by |-> Len(asked) + 1,
                         at |-> "get", req |-> r,
                         udid |-> IF r.op \in {"revoke", "drop"} THEN None
                                  ELSE r.udid,
                         copy |-> None, rev |-> 0]}
  /\ over' = over \cup {<<j.no, Len(asked) + 1>> : j \in jobs}
  /\ UNCHANGED <<doc, rev, redis, answers, saved, left, raced, late, special,
                 disturbed>>

At(j, stage) == j \in jobs /\ j.at = stage
Op(j, ops) == j.req.op \in ops
Goto(j, js) == jobs' = (jobs \ {j}) \cup js
Next1(j, stage) == {[j EXCEPT !.at = stage]}
Read(j, stage) == {[j EXCEPT !.at = stage, !.copy = doc[j.udid],
                             !.rev = rev[j.udid]]}

(* Answering a call that has been answered already raises an exception. *)
Answer(j) ==
  answers' = IF j.by = 0 THEN answers
             ELSE [answers EXCEPT ![j.by] = IF @ = 2 THEN 2 ELSE @ + 1]
Silent == UNCHANGED answers

(* The answer, if somebody waits for it, is that the call is done.          *)
Save(j) == saved' = saved \cup ({j.by} \ {0})

Reading == UNCHANGED <<doc, rev, asked, history, disturbed>>
-----------------------------------------------------------------------------
(* Registration. *)

(* authorize_mqtt: the password is hashed, then stored, then the topics.    *)
Authorize(u, o, d) ==
  grants' = grants \cup {[udid |-> u, owner |-> o, topics |-> TopicsOf(d)]}

(* A device that is known checks in, under the udid of its document. *)
Checkin(j, u) ==
  /\ Authorize(u, j.req.owner, doc[u])
  /\ Goto(j, Read([j EXCEPT !.udid = u], "profile"))
  /\ Silent
  /\ UNCHANGED <<keys, topics, dels>>
  /\ Reading

(* The owner is not checked. *)
NewDeviceOfNobody(r) ==
  [owner |-> None, mac |-> r.mac, source |-> None, meshes |-> {},
   version |-> r.version, jobs |-> "none"]

NewDevice(r) ==
  [owner |-> r.owner, mac |-> r.mac, source |-> None, meshes |-> {},
   version |-> r.version, jobs |-> "none"]

(* The device gets no credentials. *)
NewUnauthorized(j) ==
  /\ IF j.req.ack
     THEN Answer(j) /\ Goto(j, Next1([j EXCEPT !.by = 0], "insert"))
     ELSE Silent /\ Goto(j, Next1(j, "insert"))
  /\ UNCHANGED redis
  /\ Reading

(* A device nobody knows: a SigFox device is answered before it is stored.  *)
New(j) ==
  /\ Authorize(j.udid, j.req.owner, NewDevice(j.req))
  /\ IF j.req.ack
     THEN Answer(j) /\ Goto(j, Next1([j EXCEPT !.by = 0], "insert"))
     ELSE Silent /\ Goto(j, Next1(j, "insert"))
  /\ UNCHANGED <<keys, topics, dels>>
  /\ Reading

Mine(j) == doc[j.udid] # None /\ doc[j.udid].owner = j.req.owner

KeyRefused(j) ==
  /\ At(j, "get") /\ Op(j, {"register"})
  /\ Answer(j) /\ Goto(j, {})
  /\ UNCHANGED redis /\ Reading

ByUdid(j) ==
  /\ At(j, "get") /\ Op(j, {"register"})
  /\ Mine(j)
  /\ Checkin(j, j.udid)

NotByUdid(j) ==
  /\ At(j, "get") /\ Op(j, {"register"})
  /\ ~Mine(j)
  /\ Goto(j, Next1(j, "mac")) /\ Silent
  /\ UNCHANGED redis /\ Reading

SameMac(m) == {u \in Udids : doc[u] # None /\ doc[u].mac = m}
IsFirst(u, U) == \A w \in U : u <= w
IsLast(u, U) == \A w \in U : w <= u

(* One row is not enough. *)
ByMac(j) ==
  /\ At(j, "mac")
  /\ LET rows == SameMac(j.req.mac) IN
       IF Cardinality(rows) > 1
       THEN \E u \in rows : IsFirst(u, rows) /\ Checkin(j, u)
       ELSE New(j)

(* The insert has no revision: it is refused when there is a document.  Of  *)
(* a SigFox device, the callback that is null by now throws.                *)
Inserted(j) ==
  /\ At(j, "insert")
  /\ IF doc[j.udid] = None
     THEN /\ doc' = [doc EXCEPT ![j.udid] = NewDevice(j.req)]
          /\ rev' = [rev EXCEPT ![j.udid] = @ + 1]
          /\ left' = left \ {j.udid}
          /\ Save(j)
     ELSE UNCHANGED <<doc, rev, left, saved>>
  /\ Answer(j) /\ Goto(j, {})
  /\ UNCHANGED <<redis, asked, over, raced, late, special, disturbed>>

(* SET and the SADDs that follow it; topics are only ever added.            *)
Authorized(g) ==
  /\ grants' = grants \ {g}
  /\ keys' = [keys EXCEPT ![g.udid] = g.owner]
  /\ topics' = [topics EXCEPT ![g.udid] = @ \cup g.topics]
  /\ raced' = raced \ {g.udid}
  /\ late' = IF g.udid \in left THEN late \cup {g.udid} ELSE late
  /\ UNCHANGED <<doc, rev, jobs, dels, asked, answers, over, saved, left,
                 special, disturbed>>

(* runDeviceTransformers of a registration: a device without a list of      *)
(* transformers is forgotten here.                                          *)
Transform(j) ==
  IF j.copy.jobs = "null" THEN {{}}
  ELSE {Next1(j, "modify")}
         \cup (IF j.copy.jobs = "some" THEN {Next1(j, "lambda")} ELSE {})

(* The callback is kept after the answer to a SigFox device.                *)
ProfileAgain(j) ==
  /\ At(j, "profile")
  /\ \E js \in Transform(j), build \in SUBSET Next1(j, "goal") :
       /\ build # {} => j.req.goal
       /\ Goto(j, js \cup build)
  /\ IF j.req.ack THEN Answer(j) ELSE Silent
  /\ UNCHANGED redis /\ Reading

(* checkinExistingDevice, once it has the profile of the device's owner.    *)
Profile(j) ==
  /\ At(j, "profile")
  /\ LET i == IF j.req.ack THEN [j EXCEPT !.by = 0] ELSE j IN
     \E js \in Transform(i), build \in SUBSET Next1(j, "goal") :
       /\ build # {} => j.req.goal
       /\ Goto(j, js \cup build)
  /\ IF j.req.ack THEN Answer(j) ELSE Silent
  /\ UNCHANGED redis /\ Reading

(* markUserBuildGoal answers as well. *)
GoalMarked(j) ==
  /\ At(j, "goal")
  /\ Answer(j) /\ Goto(j, {})
  /\ UNCHANGED redis /\ Reading

(* The transformer cannot be reached, or has answered: the handler of the   *)
(* answer names a variable there is not.                                    *)
Transformed(j) ==
  /\ At(j, "lambda")
  /\ \E js \in {Next1(j, "modify"), {}} : Goto(j, js)
  /\ Silent
  /\ UNCHANGED redis /\ Reading
-----------------------------------------------------------------------------
(* Calls of owners, and of a device about its push token. *)

Simple == {"edit", "push", "detach", "attach", "mesh"}

Missing(j) ==
  /\ At(j, "get") /\ Op(j, Simple \cup {"unmesh"})
  /\ doc[j.udid] = None
  /\ Answer(j) /\ Goto(j, {})
  /\ UNCHANGED redis /\ Reading

Found(j) ==
  /\ At(j, "get") /\ Op(j, Simple \ {"mesh"})
  /\ doc[j.udid] # None
  /\ Goto(j, Read(j, "modify")) /\ Silent
  /\ UNCHANGED redis /\ Reading

(* Sources.remove: the devices that have the removed source, one by one;    *)
(* the caller is answered for the account alone.                            *)
DropFound(j) ==
  /\ At(j, "get") /\ Op(j, {"drop"})
  /\ LET U == {u \in Udids : /\ doc[u] # None /\ doc[u].owner = j.req.owner
                             /\ doc[u].source = j.req.source}
     IN Goto(j, UNION {Read([j EXCEPT !.udid = u, !.by = 0], "modify") : u \in U})
  /\ Silent
  /\ UNCHANGED redis /\ Reading

(* The topic has the owner of the session and not of the device.            *)
MeshFound(j) ==
  /\ At(j, "get") /\ Op(j, {"mesh"})
  /\ doc[j.udid] # None
  /\ topics' = [topics EXCEPT ![j.udid] = @ \cup {<<j.req.owner, j.req.mesh>>}]
  /\ Goto(j, Read(j, "modify")) /\ Silent
  /\ UNCHANGED <<keys, grants, dels>> /\ Reading

(* detachMesh commits an ACL that is empty, with no callback, and throws.   *)
UnmeshFound(j) ==
  /\ At(j, "get") /\ Op(j, {"unmesh"})
  /\ doc[j.udid] # None
  /\ IF j.req.mesh \in doc[j.udid].meshes THEN Silent ELSE Answer(j)
  /\ Goto(j, {})
  /\ UNCHANGED redis /\ Reading

(* What a modify makes of d, the document there is, and of c, the one the   *)
(* call has read: a check-in sends nothing but a copy for the field         *)
(* "changes"; drop, attach and mesh send the document they have read.       *)
Change(j, d, c) ==
  IF Op(j, {"edit"}) THEN [d EXCEPT ![j.req.field] = j.req.value]
  ELSE IF Op(j, {"detach"}) THEN [d EXCEPT !.source = None]
  ELSE IF Op(j, {"drop"}) THEN [c EXCEPT !.source = None]
  ELSE IF Op(j, {"attach"}) THEN [c EXCEPT !.source = j.req.source]
  ELSE IF Op(j, {"mesh"}) THEN [c EXCEPT !.meshes = @ \cup {j.req.mesh}]
  ELSE d

(* A check-in sends the document it has read, with its version. *)
SentWhole(j) ==
  IF Op(j, {"register"}) THEN [j.copy EXCEPT !.version = j.req.version]
  ELSE Change(j, doc[j.udid], j.copy)

Sent(j) == Change(j, doc[j.udid], j.copy)

Modified(j) ==
  /\ At(j, "modify")
  /\ IF doc[j.udid] # None
     THEN /\ doc' = [doc EXCEPT ![j.udid] = Sent(j)]
          /\ rev' = [rev EXCEPT ![j.udid] = @ + 1]
          /\ special' = (special \/ Sent(j).jobs # "none")
          /\ Save(j)
     ELSE UNCHANGED <<doc, rev, special, saved>>
  /\ Answer(j) /\ Goto(j, {})
  /\ UNCHANGED <<redis, asked, over, left, raced, late, disturbed>>

(* revoke_devices keeps the last device that matches.                       *)
Revoke(j) ==
  /\ At(j, "get") /\ Op(j, {"revoke"})
  /\ LET U == {u \in j.req.udids : doc[u] # None /\ doc[u].owner = j.req.owner}
     IN IF U = {}
        THEN Answer(j) /\ Goto(j, {})
        ELSE \E u \in U : /\ IsLast(u, U)
                          /\ Silent /\ Goto(j, Read([j EXCEPT !.udid = u], "destroy"))
  /\ UNCHANGED redis /\ Reading

(* The credentials stay. *)
DestroyedOnly(j) ==
  /\ At(j, "destroy")
  /\ IF doc[j.udid] # None /\ j.rev = rev[j.udid]
     THEN /\ doc' = [doc EXCEPT ![j.udid] = None]
          /\ rev' = [rev EXCEPT ![j.udid] = @ + 1]
          /\ left' = left \cup {j.udid}
     ELSE UNCHANGED <<doc, rev, left>>
  /\ Answer(j) /\ Goto(j, {})
  /\ UNCHANGED <<redis, asked, over, saved, raced, late, special, disturbed>>

(* destroy_device; a conflict is answered like success.                     *)
Destroyed(j) ==
  /\ At(j, "destroy")
  /\ IF doc[j.udid] # None /\ j.rev = rev[j.udid]
     THEN /\ doc' = [doc EXCEPT ![j.udid] = None]
          /\ rev' = [rev EXCEPT ![j.udid] = @ + 1]
          /\ dels' = dels \cup {j.udid}
          /\ left' = left \cup {j.udid}
     ELSE UNCHANGED <<doc, rev, dels, left>>
  /\ Answer(j) /\ Goto(j, {})
  /\ UNCHANGED <<keys, topics, grants, asked, over, saved, raced, late, special,
                 disturbed>>

KeyDeleted(u) ==
  /\ u \in dels
  /\ dels' = dels \ {u}
  /\ keys' = [keys EXCEPT ![u] = None]
  /\ raced' = IF doc[u] # None \/ (\E j \in jobs : At(j, "insert") /\ j.udid = u)
              THEN raced \cup {u} ELSE raced
  /\ UNCHANGED <<doc, rev, topics, jobs, grants, asked, answers, over,
                 saved, left, late, special, disturbed>>

(* run_transformers of a device and its owner. *)
RunFound(j) ==
  /\ At(j, "get") /\ Op(j, {"run"})
  /\ IF Mine(j)
     THEN Silent /\ Goto(j, Read(j, "user"))
     ELSE Answer(j) /\ Goto(j, {})
  /\ UNCHANGED redis /\ Reading

(* There is no registration: a transformer that applies throws.             *)
Run(j) ==
  /\ At(j, "user")
  /\ \E js \in Transform(j) :
       Goto(j, IF \E i \in js : i.at = "lambda" THEN {} ELSE js)
  /\ Silent
  /\ UNCHANGED redis /\ Reading
-----------------------------------------------------------------------------
(* CouchDB fails. *)
Failed(j) ==
  /\ CanFail /\ ~disturbed
  /\ disturbed' = TRUE
  /\ \/ /\ At(j, "get") /\ Op(j, {"register"})
        /\ Silent /\ Goto(j, Next1(j, "mac"))
        /\ UNCHANGED grants
     \/ /\ At(j, "mac")
        /\ Authorize(j.udid, j.req.owner, NewDevice(j.req))
        /\ IF j.req.ack
           THEN Answer(j) /\ Goto(j, Next1([j EXCEPT !.by = 0], "insert"))
           ELSE Silent /\ Goto(j, Next1(j, "insert"))
     \/ /\ At(j, "profile")
        /\ Goto(j, IF j.copy.jobs = "none" /\ ~j.req.goal
                   THEN Next1(IF j.req.ack THEN [j EXCEPT !.by = 0] ELSE j, "modify")
                   ELSE {})
        /\ IF j.req.ack /\ ~j.req.goal THEN Answer(j) ELSE Silent
        /\ UNCHANGED grants
     \/ /\ At(j, "user") \/ At(j, "goal") \/ (At(j, "get") /\ Op(j, {"drop"}))
        /\ Silent /\ Goto(j, {})
        /\ UNCHANGED grants
     \/ /\ \/ At(j, "insert") \/ At(j, "modify") \/ At(j, "destroy")
           \/ At(j, "get") /\ ~Op(j, {"register", "drop"})
        /\ Answer(j) /\ Goto(j, {})
        /\ UNCHANGED grants
  /\ UNCHANGED <<doc, rev, keys, topics, dels, asked, history>>

(* The process exits: what it has sent to the databases may still arrive.   *)
Crash ==
  /\ CanCrash /\ ~disturbed
  /\ disturbed' = TRUE
  /\ \E J \in SUBSET {j \in jobs : j.at \in {"insert", "modify", "destroy", "goal"}} :
       jobs' = {[j EXCEPT !.by = 0] : j \in J}
  /\ \E D \in SUBSET dels : dels' = D
  /\ grants' = {}
  /\ UNCHANGED <<doc, rev, keys, topics, asked, answers, history>>
-----------------------------------------------------------------------------
Callback(j) ==
  \/ KeyRefused(j) \/ ByUdid(j) \/ NotByUdid(j) \/ ByMac(j) \/ Inserted(j)
  \/ Profile(j) \/ GoalMarked(j)
  \/ Missing(j) \/ Found(j) \/ DropFound(j) \/ MeshFound(j) \/ UnmeshFound(j)
  \/ Modified(j)
  \/ Revoke(j) \/ Destroyed(j) \/ RunFound(j) \/ Run(j)

Couch == \E j \in jobs : Callback(j)
Redis == (\E g \in grants : Authorized(g)) \/ (\E u \in dels : KeyDeleted(u))

Next ==
  \/ \E r \in Requests : Call(r)
  \/ Couch \/ Redis
  \/ \E j \in jobs : Transformed(j) \/ Failed(j)
  \/ Crash

(* CouchDB and Redis answer; a transformer need not.                        *)
Spec == Init /\ [][Next]_vars /\ WF_vars(Couch) /\ WF_vars(Redis)
-----------------------------------------------------------------------------
(* Properties. *)

Pair(k, m) == <<k, m>> \in over \/ <<m, k>> \in over

(* The document d of a device shows what a call r about it has changed.     *)
Shows(r, d) ==
  /\ d # None
  /\ r.op = "edit" => d[r.field] = r.value
  /\ r.op = "attach" => d.source = r.source
  /\ r.op = "detach" => d.source = None
  /\ r.op = "mesh" => r.mesh \in d.meshes

(* A call q is to change what r has changed.                                *)
Rival(r, q) ==
  \/ q.op = "edit" /\ r.op = "edit" /\ q.udid = r.udid /\ q.field = r.field
  \/ q.op \in {"attach", "detach"} /\ r.op \in {"attach", "detach"} /\ q.udid = r.udid
  \/ q.op = "drop" /\ r.op = "attach" /\ q.source = r.source
  \/ q.op = "revoke" /\ r.udid \in q.udids

Whole == {"attach", "mesh", "drop"}
Outdone(k) ==
  \E m \in 1..Len(asked) :
    \/ Pair(k, m) /\ asked[m].op \in Whole
    \/ (m > k \/ Pair(k, m)) /\ Rival(asked[k], asked[m])

(* devices.js:383-387, 433, 485-490, device.js:217, 1394, sources.js:31-40. *)
(* An owner, transformers, a source or a mesh that was answered as saved    *)
(* stays in the document whatever else is called (no check-in, for one,     *)
(* writes back what it had read), unless a later or overlapping call was    *)
(* to change the same, or attach, mesh or the removal of a source           *)
(* overlapped: they send the whole document they have read.                 *)
Changes == {"edit", "attach", "detach", "mesh"}
ChangesStay ==
  \A k \in saved : asked[k].op \in Changes =>
    Shows(asked[k], doc[asked[k].udid]) \/ Outdone(k)

(* device.js:719-747, 1006, devices.js:466-471.  A device with a document   *)
(* has a password once none is being hashed or deleted, and a topic of each *)
(* of its meshes, unless it registered while it was being revoked.          *)
Settled(d) == d \notin dels /\ \A g \in grants : g.udid # d
CanConnect ==
  \A d \in Udids : doc[d] # None =>
    /\ Settled(d) /\ ~disturbed /\ d \notin raced => keys[d] # None
    /\ \A m \in doc[d].meshes : \E o \in Owners : <<o, m>> \in topics[d]

(* devices.js:130, device.js:722.  A device that is revoked keeps no        *)
(* password, unless a registration stored one after it was gone.            *)
CredsGone ==
  \A d \in left : Settled(d) /\ ~disturbed /\ d \notin late => keys[d] = None

(* device.js:749-1113, devices.js:335-605.  Every call is answered, once:   *)
(* but a device with transformers or with no list of them may wait for      *)
(* ever, as may detaching a mesh, nobody waits for the devices of a removed *)
(* source, and a device with firmware we have built may be answered twice.  *)
Excused(k) ==
  \/ k > Len(asked) \/ disturbed
  \/ asked[k].op \in {"register", "run"} /\ special
  \/ asked[k].op \in {"unmesh", "drop"}
  \/ asked[k].op = "register" /\ asked[k].goal /\ answers[k] = 2
EveryCallAnswered ==
  \A k \in 1..MaxCalls :
    (k <= Len(asked)) ~> [](k <= Len(asked) /\ (answers[k] = 1 \/ Excused(k)))
=============================================================================
