------------------------------- MODULE Accounts -------------------------------
(***************************************************************************)
(* Accounts: one CouchDB document each, changed by lib/thinx/owner.js,      *)
(* lib/thinx/sources.js, lib/thinx/gdpr.js and the routers of users, GDPR,  *)
(* sources, meshes, logins and OAuth; and in Redis the list of API keys a   *)
(* login looks into.                                                        *)
(*                                                                          *)
(* A call is a chain of requests to CouchDB, Redis and GitHub; another      *)
(* call's can come between any two.  A request and the callback that takes  *)
(* its result are one step, and so are a handler's question to GitHub whose *)
(* token it is and the read of that account.  The environment is            *)
(* production: in tests some calls answer earlier.  Left out: MQTT          *)
(* credentials and ACLs of owners, the devices of a revoked account or of a *)
(* removed source (see Devices), sessions, avatars, audit records, calls    *)
(* that only read, replies of GitHub that cannot be read, and requests      *)
(* refused before any read.                                                 *)
(***************************************************************************)
EXTENDS Integers, Sequences, FiniteSets

CONSTANTS
  Owners,     \* an owner's id is the hash of the e-mail
  Names,      \* user names
  Meshes,
  None,       \* no value
  Gone,       \* what is left of a document that was destroyed
  Known,      \* the documents and keys there can be at first
  Requests,   \* the requests that can be made
  More,       \* bound: those that can be made after the first two
  MaxCalls,   \* bound: requests of a behaviour
  CanCrash,   \* the process can be killed
  CanFail     \* CouchDB or GitHub can fail, once

Calls == 1..MaxCalls
(* Passwords, keys, sources and their tags are named by the call that made  *)
(* them; 0 is what was there at first.                                      *)
Ids == 0..MaxCalls
Account ==
  [name : Names, password : Ids \cup {None}, reset : Ids \cup {None},
   activation : Ids \cup {None}, repos : [Ids -> Ids \cup {None}],
   meshes : SUBSET Meshes, consent : BOOLEAN, deleted : BOOLEAN]
ApiKeys == SUBSET {"default", "other"}

(* known: the platform of the repository could be inferred; code: GitHub    *)
(* sent one, as it does unless the user declines.                           *)
Request ==
  [op : {"create", "google", "token"}, owner : Owners, name : Names]
    \cup [op : {"github"}, owner : Owners, name : Names, code : BOOLEAN]
    \cup [op : {"forgot", "delete", "revoke"}, owner : Owners]
    \cup [op : {"set"}, via : {"reset", "activation"}, key : Ids]
    \cup [op : {"update"}, owner : Owners, value : BOOLEAN]
    \cup [op : {"add"}, owner : Owners, known : BOOLEAN]
    \cup [op : {"remove", "tag"}, owner : Owners, id : Ids]
    \cup [op : {"mesh", "unmesh"}, owner : Owners, mesh : Meshes]
    \cup [op : {"login"}, name : Names, password : Ids]

(* The key of a document that a call with via asks for. *)
KeyOf(d, via) == IF via = "reset" THEN d.reset ELSE d.activation

(* A key is the hash of an e-mail, or of the owner's id, and the time: at   *)
(* first there are none of later calls, and no two accounts have the same.  *)
KeysApart(d) ==
  \A via \in {"reset", "activation"}, o \in Owners : d[o] # None =>
    /\ KeyOf(d[o], via) \in {0, None}
    /\ \A p \in Owners : d[p] # None /\ KeyOf(d[p], via) = 0 /\ KeyOf(d[o], via) = 0
                          => p = o

ASSUME AccountsAssumption ==
  /\ None \notin Owners \cup Ids \cup Account /\ Gone \notin Account \cup {None}
  /\ Known \subseteq [doc : [Owners -> Account \cup {None}], keys : [Owners -> ApiKeys]]
  /\ \A k \in Known : KeysApart(k.doc)
  /\ Requests \subseteq Request /\ More \subseteq Requests
  /\ MaxCalls \in Nat /\ CanCrash \in BOOLEAN /\ CanFail \in BOOLEAN

VARIABLES
  doc,        \* CouchDB: the document of an account, None or Gone
  rev,        \* its revision
  keys,       \* Redis: the API keys of an owner
  expiring,   \* owners whose keys are about to expire
  jobs,       \* requests to CouchDB and Redis under way
  asked,      \* the calls made, in order
  answers,    \* what each of them was answered
  over,       \* pairs of calls that overlapped
  reissued,   \* reset keys that were made twice
  born,       \* accounts that have been destroyed or created again
  listeners,  \* calls whose listeners githubOAuth, the one emitter, has
  disturbed   \* the process has exited, or a service has failed

redis == <<keys, expiring>>
life == <<listeners, disturbed>>
history == <<over, reissued, born>>
vars == <<doc, rev, keys, expiring, jobs, asked, answers, over, reissued,
          born, listeners, disturbed>>

Stage == {"view", "exchange", "key", "make", "insert", "mail", "get", "check",
          "edit", "list", "destroy", "seen", "again", "reject"}

(* to: the call that is answered, another one where a listener is called    *)
(* for it; sent: the document that has the changes of the call; rev: the    *)
(* revision there was when an edit was sent, or the one that is to be       *)
(* destroyed; found: a mesh to be deleted was there.                        *)
Job == [by : Calls, to : Calls, at : Stage, req : Requests,
        owner : Owners \cup {None}, sent : Account \cup {None}, rev : Nat, found : BOOLEAN]

TypeOK ==
  /\ doc \in [Owners -> Account \cup {None, Gone}]
  /\ rev \in [Owners -> Nat]
  /\ keys \in [Owners -> ApiKeys] /\ expiring \in SUBSET Owners
  /\ jobs \in SUBSET Job
  /\ asked \in Seq(Requests) /\ Len(asked) <= MaxCalls
  /\ answers \in [Calls -> {"none", "yes", "no"}]
  /\ over \in SUBSET (Calls \X Calls) /\ reissued \in SUBSET Ids
  /\ born \in SUBSET Owners /\ listeners \in SUBSET Calls /\ disturbed \in BOOLEAN

Init ==
  /\ \E k \in Known : doc = k.doc /\ keys = k.keys
  /\ rev = [o \in Owners |-> 0]
  /\ expiring = {} /\ jobs = {} /\ asked = <<>>
  /\ answers = [k \in Calls |-> "none"]
  /\ over = {} /\ reissued = {} /\ born = {} /\ listeners = {} /\ disturbed = FALSE
-----------------------------------------------------------------------------
(* Steps of a call. *)

Writes == {"edit", "seen", "again"}

First(r) ==
  CASE r.op \in {"create", "forgot", "set", "login"} -> "view"
    [] r.op = "delete" -> "edit"
    [] r.op = "github" -> "exchange"
    [] OTHER -> "get"

(* secureGithubCallbacks adds the listeners of every callback.              *)
Call(r) ==
  /\ Len(asked) < MaxCalls /\ (Len(asked) >= 2 => r \in More)
  /\ asked' = Append(asked, r)
  /\ jobs' = jobs \cup
       {[by |-> Len(asked) + 1, to |-> Len(asked) + 1, at |-> First(r), req |-> r,
         owner |-> IF r.op \in {"set", "login"} THEN None ELSE r.owner,
         sent |-> None, rev |-> IF First(r) = "edit" THEN rev[r.owner] ELSE 0,
         found |-> FALSE]}
  /\ over' = over \cup {<<j.by, Len(asked) + 1>> : j \in jobs}
  /\ listeners' = listeners \cup {k \in {Len(asked) + 1} : r.op = "github"}
  /\ UNCHANGED <<doc, rev, redis, answers, reissued, born, disturbed>>

At(j, stage) == j \in jobs /\ j.at = stage
Op(j, ops) == j.req.op \in ops
Goto(j, js) == jobs' = (jobs \ {j}) \cup js
Next1(j, stage) ==
  {[j EXCEPT !.at = stage, !.rev = IF stage \in Writes THEN rev[j.owner] ELSE 0]}
Answer(j, a) ==
  answers' = [answers EXCEPT ![j.to] = IF @ = "none" THEN a ELSE @]
End(j, a) == Answer(j, a) /\ Goto(j, {})
Silent == UNCHANGED answers
Reading == UNCHANGED <<doc, rev, asked, history, life>>

IsDoc(o) == doc[o] \notin {None, Gone}
Write(o, d) ==
  /\ doc' = [doc EXCEPT ![o] = d]
  /\ rev' = [rev EXCEPT ![o] = @ + 1]
-----------------------------------------------------------------------------
(* Creating an account.  Sign-up and Google ask for a mail with the          *)
(* activation key.                                                          *)

Named(n) == {o \in Owners : IsDoc(o) /\ doc[o].name = n}

Creators == {"create", "google", "token"}
Mail(j) == Op(j, {"create", "google"})

NameViewed(j) ==
  /\ At(j, "view") /\ Op(j, Creators)
  /\ IF Named(j.req.name) # {}
     THEN End(j, "no")
     ELSE Silent /\ Goto(j, Next1(j, "key"))
  /\ UNCHANGED redis /\ Reading

(* SET of the list of keys with one more: it does not expire any longer.    *)
AddDefaultKey(o) ==
  /\ keys' = [keys EXCEPT ![o] = @ \cup {"default"}]
  /\ expiring' = expiring \ {o}

(* create_default_mqtt_apikey, before it is known whether the account is    *)
(* there already.                                                           *)
KeyMade(j) ==
  /\ At(j, "key") /\ Op(j, Creators)
  /\ AddDefaultKey(j.owner)
  /\ Silent /\ Goto(j, Next1(j, "insert"))
  /\ Reading

(* The same for a login that has found no key.                              *)
FirstKeyMade(j) ==
  /\ At(j, "make")
  /\ AddDefaultKey(j.owner)
  /\ Answer(j, "yes") /\ Goto(j, Next1(j, "seen"))
  /\ Reading

(* A new account with no map of sources yet. *)
NewAccountBare(j) ==
  [name |-> j.req.name, password |-> None, reset |-> None,
   activation |-> IF Mail(j) THEN j.by ELSE None,
   meshes |-> {}, consent |-> FALSE, deleted |-> FALSE]

NewAccount(j) ==
  [name |-> j.req.name, password |-> None, reset |-> None,
   activation |-> IF Mail(j) THEN j.by ELSE None,
   repos |-> [s \in Ids |-> IF s = 0 THEN 0 ELSE None],
   meshes |-> {}, consent |-> FALSE, deleted |-> FALSE]

Inserted(j) ==
  /\ At(j, "insert")
  /\ IF IsDoc(j.owner)
     THEN End(j, IF Op(j, {"google"}) THEN "yes" ELSE "no")
          /\ UNCHANGED <<doc, rev, born>>
     ELSE /\ Write(j.owner, NewAccount(j))
          /\ born' = born \cup {j.owner}
          /\ IF Mail(j) THEN Silent /\ Goto(j, Next1(j, "mail"))
             ELSE End(j, "yes")
  /\ UNCHANGED <<redis, asked, over, reissued, life>>

(* The mail leaves or does not.  Google's callback redirects in any case.   *)
Mailed(j) ==
  /\ At(j, "mail")
  /\ \E a \in {"yes", "no"} : End(j, IF Op(j, {"google"}) THEN "yes" ELSE a)
  /\ UNCHANGED redis /\ Reading
-----------------------------------------------------------------------------
(* Logging in. *)

(* rejectLogin refuses a password, or an account marked as deleted.         *)
Rejects(d, password) == d.deleted \/ d.password # password

LoginViewed(j) ==
  /\ At(j, "view") /\ Op(j, {"login"})
  /\ \/ /\ Named(j.req.name) = {} /\ End(j, "no")
     \/ \E o \in Named(j.req.name) :
          IF Rejects(doc[o], j.req.password)
          THEN End(j, "no")
          ELSE Silent /\ Goto(j, Next1([j EXCEPT !.owner = o], "key"))
  /\ UNCHANGED redis /\ Reading

(* mqtt_key calls back with the default key, having made one where there is *)
(* no key at all; with other keys only it does not.                         *)
KeyListed(j) ==
  /\ At(j, "key") /\ Op(j, {"login"})
  /\ CASE keys[j.owner] = {} -> Silent /\ Goto(j, Next1(j, "make"))
       [] "default" \in keys[j.owner] ->
            Answer(j, "yes") /\ Goto(j, Next1(j, "seen"))
       [] OTHER -> Silent /\ Goto(j, {})
  /\ UNCHANGED redis /\ Reading

(* last_seen is written twice.                                              *)
GoogleRead(j) ==
  /\ At(j, "get") /\ Op(j, {"google"})
  /\ IsDoc(j.owner)
  /\ Answer(j, "yes")
  /\ Goto(j, Next1(j, "again") \cup Next1(j, "seen"))
  /\ UNCHANGED redis /\ Reading

(* An account that is not there is created, one that was destroyed refused. *)
GoogleReadError(j) ==
  /\ At(j, "get") /\ Op(j, {"google"})
  /\ \/ doc[j.owner] = Gone /\ End(j, "no")
     \/ doc[j.owner] = None /\ Silent /\ Goto(j, Next1(j, "view"))
  /\ UNCHANGED redis /\ Reading

(* An exception or a rejected promise that nobody takes: the process exits, *)
(* unless ROLLBAR_ACCESS_TOKEN is set and Rollbar takes it.                 *)
Thrown(j) ==
  /\ disturbed' = TRUE
  /\ \/ jobs' = {} /\ listeners' = {}
     \/ jobs' = jobs \ {j} /\ UNCHANGED listeners

(* Without a code the listeners for errors are called, which answer nobody. *)
CodeMissing(j) ==
  /\ At(j, "exchange") /\ ~j.req.code
  /\ Silent /\ Goto(j, {})
  /\ UNCHANGED redis /\ Reading

(* GitHub gives a token for the code of one callback, or gives none: every  *)
(* listener there is takes it for its own.                                  *)
Exchanged(j) ==
  /\ At(j, "exchange") /\ j.req.code
  /\ \/ Silent /\ Goto(j, {[j EXCEPT !.at = "get", !.to = k] : k \in listeners})
     \/ /\ answers' = [k \in Calls |-> IF k \in listeners /\ answers[k] = "none"
                                       THEN "no" ELSE answers[k]]
        /\ Goto(j, {})
  /\ UNCHANGED redis /\ Reading

(* Redirecting a call that was answered throws.                             *)
Told(j) == answers[j.to] # "none"

(* GitHub is asked whose token it is, and the account is read.  One that is *)
(* not there is created with a user that is not defined; a login is tracked *)
(* before it is answered.                                                   *)
GithubRead(j) ==
  /\ At(j, "get") /\ Op(j, {"github"})
  /\ \/ doc[j.owner] = Gone /\ ~Told(j) /\ End(j, "no") /\ UNCHANGED life
     \/ ~IsDoc(j.owner) /\ (doc[j.owner] = None \/ Told(j)) /\ Silent /\ Thrown(j)
     \/ /\ IsDoc(j.owner) /\ ~Told(j)
        /\ Answer(j, "yes") /\ Goto(j, Next1(j, "seen")) /\ UNCHANGED life
     \/ /\ IsDoc(j.owner) /\ Told(j) /\ Silent /\ disturbed' = TRUE
        /\ \/ jobs' = {} /\ listeners' = {}
           \/ Goto(j, Next1(j, "seen")) /\ UNCHANGED listeners
  /\ UNCHANGED <<doc, rev, redis, asked, history>>

(* performTokenLogin answers before the account is created.                 *)
TokenRead(j) ==
  /\ At(j, "get") /\ Op(j, {"token"})
  /\ Answer(j, "yes")
  /\ Goto(j, Next1(j, IF IsDoc(j.owner) THEN "again" ELSE "view"))
  /\ UNCHANGED redis /\ Reading

(* CouchDB reads and writes the document after the edit was sent: a write   *)
(* since then can have come between the two.                                *)
Overtaken(j) == rev[j.owner] # j.rev

(* "checkin" writes last_seen; updateLastSeen tries once more when another  *)
(* write of the document comes between.                                     *)
Seen(j) ==
  /\ j \in jobs /\ j.at \in {"seen", "again"}
  /\ \/ /\ IsDoc(j.owner) /\ Write(j.owner, doc[j.owner]) /\ Goto(j, {})
     \/ /\ ~IsDoc(j.owner) /\ Goto(j, {}) /\ UNCHANGED <<doc, rev>>
     \/ /\ Overtaken(j) /\ UNCHANGED <<doc, rev>>
        /\ Goto(j, IF j.at = "again" THEN Next1(j, "seen") ELSE {})
  /\ Silent
  /\ UNCHANGED <<redis, asked, history, life>>
-----------------------------------------------------------------------------
(* Reading before an edit. *)

(* password_reset_init: the key is the hash of the e-mail and the second,   *)
(* so an earlier call of the same second had the same one.                  *)
EmailViewed(j) ==
  /\ At(j, "view") /\ Op(j, {"forgot"})
  /\ IF IsDoc(j.owner)
     THEN /\ Silent
          /\ \E k \in {j.by} \cup {i \in 1..(j.by - 1) :
                                     asked[i] = j.req} :
               /\ Goto(j, {[j EXCEPT !.at = "get",
                                     !.sent = [doc[j.owner] EXCEPT !.reset = k]]})
               /\ reissued' = IF k = j.by THEN reissued ELSE reissued \cup {k}
     ELSE End(j, "no") /\ UNCHANGED reissued
  /\ UNCHANGED <<doc, rev, redis, asked, over, born, life>>

Holders(r) == {o \in Owners : IsDoc(o) /\ KeyOf(doc[o], r.via) = r.key}

(* The password is set and the key kept. *)
PasswordSetOnly(j, d) == [d EXCEPT !.password = j.by]

(* Setting the password takes the key away. *)
PasswordSet(j, d) ==
  IF j.req.via = "reset"
  THEN [d EXCEPT !.password = j.by, !.reset = None]
  ELSE [d EXCEPT !.password = j.by, !.activation = None]

KeyViewed(j) ==
  /\ At(j, "view") /\ Op(j, {"set"})
  /\ IF Holders(j.req) = {} THEN End(j, "no")
     ELSE /\ Silent
          /\ \E o \in Holders(j.req) :
               Goto(j, Next1([j EXCEPT !.owner = o, !.sent = PasswordSet(j, doc[o])],
                             "edit"))
  /\ UNCHANGED redis /\ Reading

Editors == {"forgot", "update", "add", "remove", "tag", "mesh", "unmesh"}

(* The changes the handlers make to the document they have read.            *)
Consented(j, d) == [d EXCEPT !.consent = j.req.value]
SourceAdded(j, d) == [d EXCEPT !.repos[j.by] = j.by]
SourceRemoved(j, d) == [d EXCEPT !.repos[j.req.id] = None]
SourceTagged(j, d) == [d EXCEPT !.repos[j.req.id] = j.by]
MeshCreated(j, d) == [d EXCEPT !.meshes = @ \cup {j.req.mesh}]
MeshDeleted(j, d) == [d EXCEPT !.meshes = @ \ {j.req.mesh}]

Changed(j, d) ==
  CASE j.req.op = "update" -> Consented(j, d)
    [] j.req.op = "forgot" -> j.sent
    [] j.req.op = "add" -> SourceAdded(j, d)
    [] j.req.op = "remove" -> SourceRemoved(j, d)
    [] j.req.op = "tag" -> SourceTagged(j, d)
    [] j.req.op = "mesh" -> MeshCreated(j, d)
    [] j.req.op = "unmesh" -> MeshDeleted(j, d)

(* An add whose platform is not known calls nobody back.                    *)
Unknown(j) == Op(j, {"add"}) /\ ~j.req.known

AddUnknown(j) ==
  /\ At(j, "get") /\ Unknown(j)
  /\ Silent /\ Goto(j, {})
  /\ UNCHANGED redis /\ Reading

(* add and remove read the document once more before they edit it.          *)
Read(j) ==
  /\ At(j, "get") /\ Op(j, Editors) /\ ~Unknown(j)
  /\ IF ~IsDoc(j.owner) \/ (Op(j, {"tag"}) /\ doc[j.owner].repos[j.req.id] = None)
     THEN End(j, "no")
     ELSE /\ Silent
          /\ Goto(j, Next1([j EXCEPT !.sent = Changed(j, doc[j.owner]), !.found =
                              Op(j, {"unmesh"}) /\ j.req.mesh \in doc[j.owner].meshes],
                           IF Op(j, {"add", "remove"}) THEN "check" ELSE "edit"))
  /\ UNCHANGED redis /\ Reading

Checked(j) ==
  /\ At(j, "check")
  /\ IF IsDoc(j.owner) THEN Silent /\ Goto(j, Next1(j, "edit")) ELSE End(j, "no")
  /\ UNCHANGED redis /\ Reading
-----------------------------------------------------------------------------
(* The edit of a document. *)

(* The whole map of sources takes the place of the one that is there.       *)
Replaced(old, new) == new
Merged(old, new) == [s \in Ids |-> IF new[s] # None THEN new[s] ELSE old[s]]

(* "edit" takes the fields it is sent and merges the map of sources.        *)
EditOf(j, d) ==
  CASE j.req.op = "forgot" -> [d EXCEPT !.reset = j.sent.reset]
    [] j.req.op = "set" -> PasswordSet(j, d)
    [] j.req.op = "update" -> Consented(j, d)
    [] j.req.op = "delete" -> [d EXCEPT !.deleted = TRUE]
    [] j.req.op \in {"add", "remove", "tag"} ->
         [d EXCEPT !.repos = Merged(d.repos, j.sent.repos)]
    [] j.req.op \in {"mesh", "unmesh"} -> [d EXCEPT !.meshes = j.sent.meshes]

(* A mesh that was not there was not deleted. *)
Edited(j) ==
  /\ At(j, "edit") /\ IsDoc(j.owner)
  /\ Write(j.owner, EditOf(j, doc[j.owner]))
  /\ IF Op(j, {"forgot"}) THEN Silent /\ Goto(j, Next1(j, "mail"))
     ELSE End(j, IF Op(j, {"unmesh"}) /\ ~j.found THEN "no" ELSE "yes")
  /\ UNCHANGED <<redis, asked, history, life>>

(* The call is not tried again, and nobody told. *)
RefusedSilently(j) ==
  IF Op(j, {"add", "remove"}) THEN Silent /\ Goto(j, {}) ELSE End(j, "no")

(* What becomes of a call whose edit was refused: update does not look at   *)
(* the error, add and remove try again, delete destroys the document        *)
(* without a revision.                                                      *)
Refused(j) ==
  CASE Op(j, {"forgot"}) -> Silent /\ Goto(j, Next1(j, "mail"))
    [] Op(j, {"update"}) -> End(j, "yes")
    [] Op(j, {"add", "remove"}) -> Silent /\ Goto(j, Next1(j, "check"))
    [] Op(j, {"delete"}) -> Silent /\ Goto(j, Next1(j, "reject"))
    [] OTHER -> End(j, "no")

(* There is no document, or another write came between CouchDB's read and   *)
(* write.                                                                   *)
Conflict(j) ==
  /\ At(j, "edit")
  /\ ~IsDoc(j.owner) \/ Overtaken(j)
  /\ Refused(j)
  /\ UNCHANGED redis /\ Reading

(* CouchDB destroys nothing without a revision, and nobody takes the        *)
(* rejected promise.                                                        *)
Rejected(j) ==
  /\ At(j, "reject")
  /\ Thrown(j)
  /\ UNCHANGED <<doc, rev, redis, asked, answers, history>>
-----------------------------------------------------------------------------
(* GDPR. *)

(* revokeGDPR: the devices are listed, the keys expire and the document is  *)
(* destroyed at once.                                                       *)
RevokeRead(j) ==
  /\ At(j, "get") /\ Op(j, {"revoke"})
  /\ IF IsDoc(j.owner)
     THEN /\ Silent
          /\ Goto(j, Next1(j, "list") \cup
                     {[j EXCEPT !.at = "destroy", !.rev = rev[j.owner]]})
          /\ expiring' = IF keys[j.owner] = {} THEN expiring
                         ELSE expiring \cup {j.owner}
     ELSE End(j, "no") /\ UNCHANGED expiring
  /\ UNCHANGED keys /\ Reading

Listed(j) ==
  /\ At(j, "list") /\ Silent /\ Goto(j, {})
  /\ UNCHANGED redis /\ Reading

Destroyed(j) ==
  /\ At(j, "destroy")
  /\ IF IsDoc(j.owner) /\ rev[j.owner] = j.rev
     THEN /\ Write(j.owner, Gone)
          /\ born' = born \cup {j.owner}
          /\ End(j, "yes")
     ELSE End(j, "no") /\ UNCHANGED <<doc, rev, born>>
  /\ UNCHANGED <<redis, asked, over, reissued, life>>

KeysExpire(o) ==
  /\ o \in expiring
  /\ expiring' = expiring \ {o}
  /\ keys' = [keys EXCEPT ![o] = {}]
  /\ UNCHANGED <<doc, rev, jobs, asked, answers, history, life>>
-----------------------------------------------------------------------------
(* Faults. *)

(* The calls that throw when a request fails.                               *)
Throws(j) ==
  \/ j.at = "view" /\ Op(j, {"forgot"})
  \/ j.at = "get" /\ Op(j, {"github"})

(* A request to CouchDB or GitHub fails: a name is then taken for a new     *)
(* one, a reset key for one that was used.                                  *)
Failed(j) ==
  /\ CanFail /\ ~disturbed /\ disturbed' = TRUE
  /\ j \in jobs
  /\ Throws(j) \/ UNCHANGED listeners
  /\ CASE Throws(j) -> Silent /\ Thrown(j)
       [] j.at = "view" /\ Op(j, Creators) -> Silent /\ Goto(j, Next1(j, "key"))
       [] j.at = "view" /\ Op(j, {"set"}) ->
            End(j, IF j.req.via = "reset" THEN "yes" ELSE "no")
       [] j.at = "view" /\ Op(j, {"login"}) -> End(j, "no")
       [] j.at = "get" /\ Op(j, {"google"}) -> Silent /\ Goto(j, Next1(j, "view"))
       [] j.at = "get" /\ Op(j, {"token"}) -> Answer(j, "yes") /\ Goto(j, Next1(j, "view"))
       [] j.at = "get" /\ Unknown(j) -> Silent /\ Goto(j, {})
       [] j.at = "get" /\ ~Op(j, {"google", "github", "token"}) /\ ~Unknown(j) ->
            End(j, "no")
       [] j.at \in {"insert", "check", "list", "destroy"} -> End(j, "no")
       [] j.at = "edit" -> Refused(j)
       [] j.at \in {"exchange", "seen", "again"} -> Silent /\ Goto(j, {})
       [] j.at \in {"key", "mail", "reject", "make"} -> FALSE
  /\ UNCHANGED <<doc, rev, redis, asked, history>>

(* An exit.  What CouchDB does with a request sent before it is done before *)
(* it: the process is not back that soon.                                   *)
Crash ==
  /\ CanCrash /\ ~disturbed
  /\ disturbed' = TRUE /\ jobs' = {} /\ listeners' = {}
  /\ UNCHANGED <<doc, rev, redis, asked, answers, history>>
-----------------------------------------------------------------------------
(* Every request to CouchDB, Redis and GitHub is answered.                  *)
Callback(j) ==
  \/ NameViewed(j) \/ KeyMade(j) \/ Inserted(j) \/ Mailed(j)
  \/ LoginViewed(j) \/ KeyListed(j) \/ FirstKeyMade(j)
  \/ GoogleRead(j) \/ GoogleReadError(j) \/ TokenRead(j) \/ Seen(j)
  \/ CodeMissing(j) \/ Exchanged(j) \/ GithubRead(j)
  \/ EmailViewed(j) \/ KeyViewed(j) \/ AddUnknown(j) \/ Read(j) \/ Checked(j)
  \/ Edited(j) \/ Conflict(j) \/ Rejected(j)
  \/ RevokeRead(j) \/ Listed(j) \/ Destroyed(j)

Next ==
  \/ \E r \in Requests : Call(r)
  \/ \E j \in jobs : Callback(j) \/ Failed(j)
  \/ \E o \in Owners : KeysExpire(o)
  \/ Crash

Spec ==
  /\ Init /\ [][Next]_vars
  /\ \A k \in Calls : WF_vars(\E j \in jobs : j.by = k /\ Callback(j))
-----------------------------------------------------------------------------
(* Properties. *)

Done(k) == k \in 1..Len(asked) /\ answers[k] = "yes"
Pair(k, m) == <<k, m>> \in over \/ <<m, k>> \in over

(* No call of these kinds was made after k or while k was processed.        *)
Last(k, ops) ==
  \A m \in 1..Len(asked) : m # k /\ asked[m].op \in ops => m < k /\ ~Pair(k, m)

Has(k, d) ==
  LET r == asked[k] IN
  /\ r.op = "add" => d.repos[k] # None
  /\ r.op = "tag" => d.repos[r.id] = k \/ ~Last(k, {"tag", "add", "remove"})
  /\ r.op = "mesh" => r.mesh \in d.meshes \/ ~Last(k, {"mesh", "unmesh"})
  /\ r.op = "unmesh" => r.mesh \notin d.meshes \/ ~Last(k, {"mesh", "unmesh"})
  /\ r.op = "update" =>
       \/ d.consent = r.value \/ disturbed
       \/ \E m \in Calls :
            Pair(k, m) \/ (m > k /\ m <= Len(asked) /\ asked[m].op = "update")
  /\ r.op = "delete" => d.deleted

(* owner.js:483, sources.js:65-100.  What was answered as saved stays in the *)
(* document: a source whatever other calls wrote back the map they had read *)
(* before, the rest unless a later or overlapping call was about the same.   *)
SavedStays ==
  \A k \in Calls :
    Done(k) /\ asked[k].op \in {"add", "tag", "mesh", "unmesh", "update", "delete"} =>
      \/ asked[k].owner \in born
      \/ IsDoc(asked[k].owner) /\ Has(k, doc[asked[k].owner])

(* owner.js:558-630.  A key sets one password: two calls succeed with one   *)
(* key only when they overlapped, or the key was made twice in one second.  *)
KeyUsedOnce ==
  \A k, m \in Calls :
    (k < m /\ Done(k) /\ Done(m) /\ asked[k] = asked[m] /\ asked[k].op = "set")
    => \/ Pair(k, m) \/ disturbed \/ asked[k].key \in reissued

Excused(k) ==
  LET r == asked[k] IN
  CASE r.op = "login" ->
         \E o \in Owners : IsDoc(o) /\ doc[o].name = r.name /\ keys[o] = {"other"}
    [] r.op = "add" -> ~r.known
    [] r.op = "github" -> ~r.code
    [] OTHER -> FALSE

(* owner.js:263-291, sources.js:82, oauth-github.js:44.  Every call is      *)
(* answered, except a login of an owner who has API keys but no default     *)
(* one, an add whose platform is not known, and a callback of GitHub        *)
(* without a code.                                                          *)
EveryCallAnswered ==
  \A k \in Calls :
    <>(k <= Len(asked)) =>
      <>(answers[k] # "none" \/ disturbed \/ (k <= Len(asked) /\ Excused(k)))
=============================================================================
