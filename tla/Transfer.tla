------------------------------- MODULE Transfer -------------------------------
(***************************************************************************)
(* Transfer of devices from an owner to another (lib/thinx/transfer.js,     *)
(* routes in lib/router.transfer.js).  An offer is a Redis key "dt:<id>"    *)
(* holding the request.  Accepting sends CouchDB the new owner of each      *)
(* device and moves its artefacts on disk; nobody waits for either.         *)
(*                                                                          *)
(* Redis commands go over one connection: `pipe' holds what was issued and  *)
(* not yet answered, in order, and executing a command and running its      *)
(* callback is one step.  Requests to CouchDB and to the disk are not       *)
(* ordered.  Left out: e-mails, audit records, and the keys "dtr:<n>",      *)
(* which nothing depends on (request has decided before GET is answered,    *)
(* transfer.js:275, and <n> is an index and not a device).                  *)
(***************************************************************************)
EXTENDS Integers, Sequences, FiniteSets

CONSTANTS
  Owners, Devices,
  FirstOwner,  \* owner of each device at first
  None,        \* no value
  Hole,        \* what `delete' leaves in an array
  Offers,      \* ids of transfers
  Calls,       \* calls of accept and decline
  Bodies,      \* the requests owners make, by the id they get
  Picks,       \* what the calls name
  MaxPipe,     \* bound: commands in the pipe when a call is made
  CanCrash,    \* the process can be killed
  CanFail      \* Redis and CouchDB can reject what is sent to them

Lists == UNION {[1..n -> Devices \cup {Hole}] : n \in 0..2}
Indices == 0..1
Body == [from : Owners, to : Owners, udids : Lists]

(* The devices a call names: all of the offer's, some (of anybody's), or a  *)
(* string, which the code walks character by character; a digit is then an  *)
(* index into the list of devices.                                          *)
All == [all |-> TRUE, some |-> {}, digits |-> {}]
Some(D) == [all |-> FALSE, some |-> D, digits |-> {}]
Text(I) == [all |-> FALSE, some |-> {}, digits |-> I]
Pick == {All} \cup {Some(D) : D \in SUBSET Devices \ {{}}}
              \cup {Text(I) : I \in SUBSET Indices}

(* A call of accept that migrates API keys or sources throws on its way.    *)
Call == [by : Calls, do : {"accept"}, pick : Picks, extra : BOOLEAN]
          \cup [by : Calls, do : {"decline"}, pick : Picks, extra : {FALSE}]

ASSUME TransferAssumption ==
  /\ Hole \notin Devices /\ None \notin Owners \cup Body \cup Call
  /\ FirstOwner \in [Devices -> Owners]
  /\ Bodies \in [Offers -> SUBSET Body]
  /\ Picks \subseteq Pick
  /\ MaxPipe \in Nat /\ CanCrash \in BOOLEAN /\ CanFail \in BOOLEAN

VARIABLES
  offers,    \* Redis: the value of "dt:<id>", or None
  expiring,  \* offers whose key has an expiry
  pipe,      \* commands issued to Redis and not yet answered
  owner,     \* CouchDB: owner of each device
  edits,     \* changes of owner on their way to CouchDB
  files,     \* disk: owners under whose path a device's artefacts are
  moves,     \* copies of artefacts under way
  up,        \* the process runs
  called,    \* calls made so far
  waiting,   \* calls nobody has answered
  to,        \* recipient of each offer that was made
  made,      \* offers that were made
  taken,     \* pairs <<offer, device>> that accept took
  ended,     \* offers somebody was told are completed
  partly,    \* offers somebody was told are partially completed
  crossed,   \* devices with two moves at a time
  disturbed  \* the process has exited, or something was rejected

redis == <<offers, expiring>>
couch == <<owner, edits>>
disk == <<files, moves, crossed>>
told == <<ended, partly>>
vars == <<offers, expiring, pipe, owner, edits, files, moves, up, called,
          waiting, to, made, taken, ended, partly, crossed, disturbed>>
-----------------------------------------------------------------------------
Listed(l) == {l[i] : i \in DOMAIN l} \ {Hole}
Chosen(b, p) == IF p.all THEN Listed(b.udids) ELSE p.some

(* `delete json_keys.udids[udid]' finds nothing under the name of a device. *)
Remaining(b, p) ==
  [b EXCEPT !.udids =
     [i \in DOMAIN @ |-> IF (i - 1) \in p.digits THEN Hole ELSE @[i]]]

Command ==
  [op : {"get"}, offer : Offers, call : Call]
    \cup [op : {"set"}, offer : Offers, body : Body, call : Call \cup {None}]
    \cup [op : {"expire"}, offer : Offers, tell : BOOLEAN]
    \cup [op : {"del"}, offer : Offers]

Edit == [dev : Devices, to : Owners, offer : Offers, by : Calls]
MoveRec == [dev : Devices, from : Owners, to : Owners, by : Calls,
            step : {"copy", "remove"}]

TypeOK ==
  /\ offers \in [Offers -> Body \cup {None}]
  /\ expiring \in SUBSET Offers
  /\ pipe \in Seq(Command)
  /\ owner \in [Devices -> Owners]
  /\ edits \in SUBSET Edit
  /\ files \in [Devices -> SUBSET Owners]
  /\ moves \in SUBSET MoveRec
  /\ up \in BOOLEAN /\ disturbed \in BOOLEAN
  /\ called \in SUBSET Calls /\ waiting \in SUBSET Call
  /\ to \in [Offers -> Owners \cup {None}]
  /\ taken \in SUBSET (Offers \X Devices)
  /\ made \in SUBSET Offers /\ ended \in SUBSET Offers
  /\ partly \in SUBSET Offers
  /\ crossed \in SUBSET Devices

Init ==
  /\ offers = [t \in Offers |-> None]
  /\ expiring = {}
  /\ pipe = <<>>
  /\ owner = FirstOwner
  /\ edits = {}
  /\ files = [d \in Devices |-> {owner[d]}]
  /\ moves = {}
  /\ up = TRUE /\ disturbed = FALSE
  /\ called = {} /\ waiting = {}
  /\ to = [t \in Offers |-> None]
  /\ made = {} /\ taken = {} /\ ended = {} /\ partly = {} /\ crossed = {}
-----------------------------------------------------------------------------
(* Calls. *)

(* Faulty variants of some definitions stand before them, for the runs that *)
(* show what each property would catch; no specification uses them.         *)

(* Nobody looks for the recipient. *)
RequestUnknown(t, b) ==
  /\ up /\ t \notin made
  /\ Len(pipe) < MaxPipe
  /\ pipe' = Append(pipe, [op |-> "set", offer |-> t,
                          body |-> [b EXCEPT !.to = None], call |-> None])
  /\ made' = made \cup {t}
  /\ to' = [to EXCEPT ![t] = b.to]
  /\ UNCHANGED <<redis, couch, disk, up, called, waiting, taken, told, disturbed>>

(* Transfer.request, once CouchDB has found owner and recipient: SET, and   *)
(* the answer.                                                              *)
Request(t, b) ==
  /\ up /\ t \notin made
  /\ Len(pipe) < MaxPipe
  /\ pipe' = Append(pipe, [op |-> "set", offer |-> t, body |-> b, call |-> None])
  /\ made' = made \cup {t}
  /\ to' = [to EXCEPT ![t] = b.to]
  /\ UNCHANGED <<redis, couch, disk, up, called, waiting, taken, told, disturbed>>

(* accept and decline, up to their GET. *)
Ask(t, c) ==
  /\ up /\ t \in made
  /\ c.by \notin called
  /\ Len(pipe) < MaxPipe
  /\ pipe' = Append(pipe, [op |-> "get", offer |-> t, call |-> c])
  /\ called' = called \cup {c.by}
  /\ waiting' = waiting \cup {c}
  /\ UNCHANGED <<redis, couch, disk, up, to, made, taken, told, disturbed>>
-----------------------------------------------------------------------------
(* Redis. *)

Answering(op) == pipe # <<>> /\ Head(pipe).op = op
T == Head(pipe).offer
C == Head(pipe).call
B == offers[T]

(* The head of the pipe is answered and its callback issues cs; after a     *)
(* crash there is nobody to run it.                                         *)
Then(cs) == pipe' = Tail(pipe) \o IF up THEN cs ELSE <<>>

Del(t) == [op |-> "del", offer |-> t]
Expire(t, w) == [op |-> "expire", offer |-> t, tell |-> w]
Save(t, b, c) == [op |-> "set", offer |-> t, body |-> b, call |-> c]
Partial(b) == Len(b.udids) > 1
End(t, b, w) == IF Partial(b) THEN Expire(t, w) ELSE Del(t)

Answer(c) == waiting' = waiting \ {c}

(* The caller is forgotten. *)
MissingSilently ==
  /\ up /\ Answering("get") /\ B = None
  /\ Then(<<>>)
  /\ UNCHANGED <<redis, couch, disk, up, called, waiting, to, made, taken, told,
                 disturbed>>

(* GET of an offer that is no more. *)
Missing ==
  /\ up /\ Answering("get") /\ B = None
  /\ Then(<<>>)
  /\ Answer(C)
  /\ UNCHANGED <<redis, couch, disk, up, called, to, made, taken, told,
                 disturbed>>

(* An offer of no device; its decline saves the offer once more before it   *)
(* deletes it.                                                              *)
Empty ==
  /\ up /\ Answering("get") /\ B # None
  /\ B.udids = <<>>
  /\ IF C.do = "decline"
     THEN Then(<<Del(T), Save(T, B, C)>>) /\ ended' = ended
     ELSE Then(<<Del(T)>>) /\ ended' = ended \cup {T}
  /\ Answer(C)
  /\ UNCHANGED <<redis, couch, disk, up, called, to, made, taken, partly,
                 disturbed>>

(* One device only gets its new owner. *)
MigrateOne(D, b, c) ==
  /\ \E O \in SUBSET D : Cardinality(O) <= 1 /\
       edits' = edits \cup
         {[dev |-> d, to |-> b.to, offer |-> T, by |-> c.by] : d \in O}
  /\ taken' = taken \cup {<<T, d>> : d \in D}
  /\ UNCHANGED <<moves, crossed>>

(* The devices the call names are not looked at. *)
MigrateListed(D, b, c) ==
  /\ edits' = edits \cup {[dev |-> d, to |-> b.to, offer |-> T, by |-> c.by] :
                            d \in Listed(b.udids)}
  /\ taken' = taken \cup {<<T, d>> : d \in D}
  /\ UNCHANGED <<moves, crossed>>

(* Each device chosen: its new owner goes to CouchDB, if it is a new one,   *)
(* and its artefacts start to move, if they are where they should be.       *)
Migrate(D, b, c) ==
  LET M == {d \in D : b.from \in files[d]} IN
    /\ edits' = edits \cup
         IF b.to = b.from THEN {}
         ELSE {[dev |-> d, to |-> b.to, offer |-> T, by |-> c.by] : d \in D}
    /\ moves' = moves \cup {[dev |-> d, from |-> b.from, to |-> b.to,
                             by |-> c.by, step |-> "copy"] : d \in M}
    /\ crossed' = crossed \cup {d \in M : \E m \in moves : m.dev = d}
    /\ taken' = taken \cup IF b.to = b.from THEN {} ELSE {<<T, d>> : d \in D}

(* The key is deleted, or gets its hour, before it is saved. *)
AcceptSavesLast ==
  /\ up /\ Answering("get") /\ B # None
  /\ C.do = "accept" /\ ~C.extra
  /\ B.udids # <<>>
  /\ Migrate(Chosen(B, C.pick), B, C)
  /\ LET b == Remaining(B, C.pick) IN
       /\ Then(<<End(T, b, FALSE), Save(T, b, None)>>)
       /\ IF Partial(b)
          THEN partly' = partly \cup {T} /\ ended' = ended
          ELSE ended' = ended \cup {T} /\ partly' = partly
  /\ Answer(C)
  /\ UNCHANGED <<redis, owner, files, up, called, to, made, disturbed>>

(* Accept, answered before any of that has arrived.  `udids' never gets     *)
(* shorter, so an offer of two devices stays for its hour.                  *)
Accept ==
  /\ up /\ Answering("get") /\ B # None
  /\ C.do = "accept" /\ ~C.extra
  /\ B.udids # <<>>
  /\ Migrate(Chosen(B, C.pick), B, C)
  /\ LET b == Remaining(B, C.pick) IN
       /\ Then(<<Save(T, b, None), End(T, b, FALSE)>>)
       /\ IF Partial(b)
          THEN partly' = partly \cup {T} /\ ended' = ended
          ELSE ended' = ended \cup {T} /\ partly' = partly
  /\ Answer(C)
  /\ UNCHANGED <<redis, owner, files, up, called, to, made, disturbed>>

(* The promise of each device is rejected after it has sent what it sent:   *)
(* nothing is saved and nobody is answered.                                 *)
AcceptThrows ==
  /\ up /\ Answering("get") /\ B # None
  /\ C.do = "accept" /\ C.extra
  /\ B.udids # <<>>
  /\ Migrate(Chosen(B, C.pick), B, C)
  /\ Then(<<>>)
  /\ UNCHANGED <<redis, owner, files, up, called, waiting, to, made, told,
                 disturbed>>

(* decline_completed; storeRemainingKeys. *)
Decline ==
  /\ up /\ Answering("get") /\ B # None
  /\ C.do = "decline"
  /\ B.udids # <<>>
  /\ Then(<<Save(T, Remaining(B, C.pick), C)>>)
  /\ Answer(C)
  /\ UNCHANGED <<redis, couch, disk, up, called, to, made, taken, told,
                 disturbed>>
-----------------------------------------------------------------------------
(* What Redis does with a command, whoever waits for it. *)
Executed(c) ==
  \/ /\ c.op = "set"
     /\ offers' = [offers EXCEPT ![c.offer] = c.body]
     /\ expiring' = expiring \ {c.offer}
  \/ /\ c.op = "expire"
     /\ expiring' = IF offers[c.offer] = None THEN expiring ELSE expiring \cup {c.offer}
     /\ UNCHANGED offers
  \/ /\ c.op = "del"
     /\ offers' = [offers EXCEPT ![c.offer] = None]
     /\ expiring' = expiring \ {c.offer}
  \/ c.op = "get" /\ UNCHANGED redis

(* A SET of decline is followed by EXPIRE or DEL. *)
Written ==
  /\ up /\ pipe # <<>> /\ Head(pipe).op # "get"
  /\ Executed(Head(pipe))
  /\ LET c == Head(pipe)
         last == c.op = "set" /\ c.call # None IN
       /\ Then(IF last THEN <<End(c.offer, c.body, TRUE)>> ELSE <<>>)
       /\ ended' = IF last /\ ~Partial(c.body) THEN ended \cup {c.offer} ELSE ended
       /\ partly' = IF c.op = "expire" /\ c.tell THEN partly \cup {c.offer}
                    ELSE partly
  /\ UNCHANGED <<couch, disk, up, called, waiting, to, made, taken, disturbed>>

TimeToLiveEnds(t) ==
  /\ t \in expiring
  /\ offers' = [offers EXCEPT ![t] = None]
  /\ expiring' = expiring \ {t}
  /\ UNCHANGED <<pipe, couch, disk, up, called, waiting, to, made, taken,
                 told, disturbed>>
-----------------------------------------------------------------------------
(* CouchDB: device.edit reads the document and modifies owner and           *)
(* previous_owner; no answer changes anything.                              *)
EditArrives(e) ==
  /\ e \in edits
  /\ owner' = [owner EXCEPT ![e.dev] = e.to]
  /\ edits' = edits \ {e}
  /\ UNCHANGED <<redis, pipe, disk, up, called, waiting, to, made, taken, told,
                 disturbed>>

(* The source goes before it is copied. *)
CopiedTooLate(m) ==
  /\ m \in moves /\ m.step = "copy"
  /\ files' = [files EXCEPT ![m.dev] = @ \ {m.from}]
  /\ moves' = (moves \ {m}) \cup {[m EXCEPT !.step = "remove"]}
  /\ UNCHANGED <<redis, pipe, couch, crossed, up, called, waiting, to, made,
                 taken, told, disturbed>>

(* Disk: Transfer.rename, a copy and, when it has succeeded, a removal. *)
Copied(m) ==
  /\ m \in moves /\ m.step = "copy"
  /\ IF m.from \in files[m.dev] /\ m.from # m.to
     THEN /\ files' = [files EXCEPT ![m.dev] = @ \cup {m.to}]
          /\ moves' = (moves \ {m}) \cup {[m EXCEPT !.step = "remove"]}
     ELSE moves' = moves \ {m} /\ files' = files
  /\ UNCHANGED <<redis, pipe, couch, crossed, up, called, waiting, to, made,
                 taken, told, disturbed>>

Removed(m) ==
  /\ m \in moves /\ m.step = "remove"
  /\ files' = [files EXCEPT ![m.dev] = @ \ {m.from}]
  /\ moves' = moves \ {m}
  /\ UNCHANGED <<redis, pipe, couch, crossed, up, called, waiting, to, made,
                 taken, told, disturbed>>
-----------------------------------------------------------------------------
(* Failures.  Bound: one of them in a behaviour. *)

(* Commands that have left are executed or lost, nobody runs their callback. *)
Crash ==
  /\ CanCrash /\ ~disturbed /\ up
  /\ up' = FALSE /\ disturbed' = TRUE
  /\ moves' = {} /\ waiting' = {}
  /\ UNCHANGED <<redis, pipe, couch, files, crossed, called, to, made, taken,
                 told>>

Drain ==
  /\ ~up /\ pipe # <<>>
  /\ Executed(Head(pipe))
  /\ pipe' = Tail(pipe)
  /\ UNCHANGED <<couch, disk, up, called, waiting, to, made, taken, told,
                 disturbed>>

Restart ==
  /\ ~up
  /\ up' = TRUE
  /\ pipe' = <<>>
  /\ UNCHANGED <<redis, couch, disk, called, waiting, to, made, taken, told,
                 disturbed>>

(* A command is rejected, executed or not; nobody catches it. *)
Rejected ==
  /\ CanFail /\ ~disturbed /\ up /\ pipe # <<>>
  /\ Executed(Head(pipe)) \/ UNCHANGED redis
  /\ Then(<<>>)
  /\ disturbed' = TRUE
  /\ UNCHANGED <<couch, disk, up, called, waiting, to, made, taken, told>>

(* The device is gone, the document has changed under the update, ... *)
EditRefused(e) ==
  /\ CanFail /\ ~disturbed /\ e \in edits
  /\ edits' = edits \ {e}
  /\ disturbed' = TRUE
  /\ UNCHANGED <<redis, pipe, owner, disk, up, called, waiting, to, made, taken,
                 told>>
-----------------------------------------------------------------------------
Redis == Missing \/ Empty \/ Accept \/ AcceptThrows \/ Decline \/ Written
Couch == \E e \in edits : EditArrives(e)
Disk == \E m \in moves : Copied(m) \/ Removed(m)

Next ==
  \/ Redis \/ Couch \/ Disk
  \/ \E t \in Offers : \E b \in Bodies[t] : Request(t, b)
  \/ \E t \in Offers, c \in Call : Ask(t, c)
  \/ \E t \in Offers : TimeToLiveEnds(t)
  \/ Crash \/ Drain \/ Restart \/ Rejected
  \/ \E e \in edits : EditRefused(e)

(* Redis, CouchDB and the disk answer; nobody has to call.                  *)
Spec == Init /\ [][Next]_vars /\ WF_vars(Redis) /\ WF_vars(Couch) /\ WF_vars(Disk)
-----------------------------------------------------------------------------
(* Properties. *)

Issued == {pipe[i] : i \in 1..Len(pipe)}
WritesOn(t) == {c \in Issued : c.op \in {"set", "expire", "del"} /\ c.offer = t}

(* transfer.js:392-402, 513-526.  An offer somebody was told is completed   *)
(* is gone once all that was issued for it is executed, however accepts and *)
(* declines of it overlap, and an offer of several devices that was         *)
(* answered will expire: no SET of a late call leaves it there for good.    *)
AnsweredWillEnd ==
  ~disturbed => \A t \in Offers : WritesOn(t) = {} =>
    /\ t \in ended => offers[t] = None
    /\ t \in partly => offers[t] = None \/ t \in expiring

(* transfer.js:161-169.  A device's artefacts are never lost: with one move *)
(* of them at a time they are always under some owner's path, crash or not. *)
ArtefactsKept == \A d \in Devices \ crossed : files[d] # {}

(* transfer.js:55-83.  When accept has taken a device for one offer only,   *)
(* the device will be the recipient's; what crashed or was rejected may     *)
(* have been lost.                                                          *)
OnlyTaken(t, d) == \A s \in Offers : <<s, d>> \in taken <=> s = t
AcceptedArrives ==
  \A t \in Offers, d \in Devices :
    <<t, d>> \in taken ~>
      (owner[d] = to[t] \/ ~OnlyTaken(t, d) \/ disturbed)

(* transfer.js:412-511, 528-601.  Every call is answered, but an accept     *)
(* that wants keys or sources moved.                                        *)
EveryCallAnswered ==
  \A k \in Calls :
    (\E c \in waiting : c.by = k /\ ~c.extra) ~>
      (disturbed \/ \A c \in waiting : c.by # k)

(* transfer.js:307-318, 436-511.  Transfers implement TransferContract: a   *)
(* device moves only to the recipient of an offer that accept took for it   *)
(* while it was stored or being stored, and what has gone from Redis with   *)
(* no SET on its way never comes back.                                      *)
Stored(t) == offers[t] # None \/ \E c \in WritesOn(t) : c.op = "set"

Phase(t) == IF t \notin made THEN "none" ELSE IF Stored(t) THEN "open" ELSE "closed"

Contract == INSTANCE TransferContract WITH phase <- [t \in Offers |-> Phase(t)]

ImplementsContract == Contract!Spec
=============================================================================
