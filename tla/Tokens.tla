-------------------------------- MODULE Tokens --------------------------------
(***************************************************************************)
(* The two kinds of tokens a login leads to.  A JSON Web Token is signed    *)
(* with a secret that lives in Redis and is made when there is none         *)
(* (lib/thinx/jwtlogin.js); the server makes an instance of JWTLogin when   *)
(* it starts (thinx-core.js) and another one with its routes                *)
(* (lib/router.js), and verifies with the secret the second has kept.  A    *)
(* link to auth.html names a key of Redis that holds the user for a while   *)
(* (lib/router.auth.js, lib/router.google.js, lib/router.github.js).        *)
(*                                                                          *)
(* Redis commands go over one connection: `pipe' holds what was issued and  *)
(* not yet answered, in order; executing a command and running its callback *)
(* is one step.  Left out: cookies and sessions, which the session store of *)
(* Express keeps, what Accounts says of a login, and what a token says: the *)
(* user, the scope, and the hour it expires, so no token here does.  A      *)
(* GitHub handler that runs again for a later callback (Accounts) sets a    *)
(* link like another oauth request does.                                    *)
(***************************************************************************)
EXTENDS Integers, Sequences, FiniteSets

CONSTANTS
  Links,     \* login links: a user has one, each OAuth token another
  Requests,  \* the requests that can be made
  MaxCalls,  \* bound: requests of a behaviour
  MaxPipe,   \* bound: commands in the pipe when a call is made
  CanCrash,  \* the process can be killed
  CanFail    \* Redis can reject a command

Calls == 1..MaxCalls
Keys == Nat \ {0}

(* login: with a password; oauth: from a provider, with the expiry of the   *)
(* link sent after its SET was answered (chained) or at once; use: the link *)
(* is followed; verify: a request that carries the token of call `of'.      *)
Request ==
  [op : {"login", "use"}, link : Links]
    \cup [op : {"oauth"}, link : Links, chained : BOOLEAN]
    \cup [op : {"verify"}, of : Calls]

ASSUME TokensAssumption ==
  /\ Requests \subseteq Request
  /\ MaxCalls \in Nat /\ MaxPipe \in Nat
  /\ CanCrash \in BOOLEAN /\ CanFail \in BOOLEAN

VARIABLES
  secret,     \* Redis: the secret, or 0
  links,      \* Redis: what there is under a link
  pipe,       \* commands issued to Redis and not yet answered
  drawing,    \* those for whom a secret is being drawn
  made,       \* secrets made so far
  up,         \* the process runs
  serving,    \* it has its routes
  kept,       \* the secret the router's JWTLogin has kept, or 0
  asked,      \* the calls made, in order
  answers,    \* what each of them was answered
  signed,     \* the secret the tokens of a call were signed with, or 0
  refused,    \* calls whose tokens were refused
  good,       \* calls that use a link that was made and is not over
  handed,     \* links that were made and are not over
  raced,      \* a secret was found missing when another was on its way
  disturbed   \* the process has exited, or Redis has rejected a command

redis == <<secret, links>>
jwt == <<signed, refused>>
process == <<drawing, made, up, serving, kept>>
history == <<good, handed, raced>>
vars == <<secret, links, pipe, drawing, made, up, serving, kept, asked, answers,
          signed, refused, good, handed, raced, disturbed>>

(* Who wants the secret. *)
Task == [do : {"core", "router"}, by : {0}] \cup [do : {"sign", "verify"}, by : Calls]
Command ==
  [op : {"get"}, task : Task]
    \cup [op : {"put"}, task : Task, key : Keys]
    \cup [op : {"set"}, link : Links, chained : BOOLEAN]
    \cup [op : {"expire"}, link : Links]
    \cup [op : {"find"}, link : Links, by : Calls]

TypeOK ==
  /\ secret \in Nat /\ kept \in Nat /\ made \in Nat
  /\ links \in [Links -> {"none", "stored", "expiring"}]
  /\ pipe \in Seq(Command)
  /\ drawing \in SUBSET Task
  /\ asked \in Seq(Requests) /\ Len(asked) <= MaxCalls
  /\ answers \in [Calls -> {"none", "yes", "no"}]
  /\ signed \in [Calls -> Nat]
  /\ refused \in SUBSET Calls /\ good \in SUBSET Calls
  /\ handed \in SUBSET Links
  /\ {up, serving, raced, disturbed} \in SUBSET BOOLEAN

Get(t) == [op |-> "get", task |-> t]
Put(t, k) == [op |-> "put", task |-> t, key |-> k]
Set(l, c) == [op |-> "set", link |-> l, chained |-> c]
Expire(l) == [op |-> "expire", link |-> l]
Find(l, k) == [op |-> "find", link |-> l, by |-> k]
Core == [do |-> "core", by |-> 0]
Router == [do |-> "router", by |-> 0]

(* The server has connected to Redis: its first JWTLogin asks for the       *)
(* secret.                                                                  *)
Init ==
  /\ secret = 0 /\ links = [l \in Links |-> "none"]
  /\ pipe = <<Get(Core)>> /\ drawing = {} /\ made = 0
  /\ up = TRUE /\ serving = FALSE /\ kept = 0
  /\ asked = <<>> /\ answers = [k \in Calls |-> "none"]
  /\ signed = [k \in Calls |-> 0] /\ refused = {}
  /\ good = {} /\ handed = {} /\ raced = FALSE /\ disturbed = FALSE

(* Each start takes a new secret. *)
ServeReset ==
  /\ up /\ ~serving
  /\ serving' = TRUE
  /\ drawing' = drawing \cup {Router}
  /\ UNCHANGED <<redis, pipe, made, up, kept, asked, answers, jwt, history,
                 disturbed>>

(* The routes are set up, once the messenger and CouchDB are ready.         *)
Serve ==
  /\ up /\ ~serving
  /\ serving' = TRUE
  /\ pipe' = Append(pipe, Get(Router))
  /\ UNCHANGED <<redis, drawing, made, up, kept, asked, answers, jwt, history,
                 disturbed>>
-----------------------------------------------------------------------------
(* Calls. *)

Answer(k, a) == answers' = [answers EXCEPT ![k] = a]

(* Verification with the secret that was kept. *)
Verified(k, of, key) ==
  IF signed[of] = key
  THEN Answer(k, "yes") /\ UNCHANGED refused
  ELSE Answer(k, "no") /\ refused' = refused \cup {of}

Ask(r) ==
  /\ up /\ serving
  /\ Len(asked) < MaxCalls /\ Len(pipe) < MaxPipe
  /\ asked' = Append(asked, r)
  /\ UNCHANGED <<redis, process, signed, raced, disturbed>>

(* The expiry comes first. *)
OAuthLinkEarly(r) ==
  IF r.chained THEN <<Set(r.link, TRUE)>> ELSE <<Expire(r.link), Set(r.link, FALSE)>>

OAuthLink(r) ==
  IF r.chained THEN <<Set(r.link, TRUE)>> ELSE <<Set(r.link, FALSE), Expire(r.link)>>

(* The provider's callback redirects to the link at once. *)
OAuth(r) ==
  /\ r.op = "oauth" /\ Ask(r)
  /\ pipe' = pipe \o OAuthLink(r)
  /\ Answer(Len(asked'), "yes")
  /\ handed' = handed \cup {r.link}
  /\ UNCHANGED <<refused, good>>

(* respondRedirectWithToken, once the password was right.                   *)
Login(r) ==
  /\ r.op = "login" /\ Ask(r)
  /\ pipe' = pipe \o <<Set(r.link, TRUE), Get([do |-> "sign", by |-> Len(asked')])>>
  /\ handed' = handed \cup {r.link}
  /\ UNCHANGED <<answers, refused, good>>

(* performTokenLogin. *)
Use(r) ==
  /\ r.op = "use" /\ Ask(r)
  /\ pipe' = Append(pipe, Find(r.link, Len(asked')))
  /\ good' = IF r.link \in handed THEN good \cup {Len(asked')} ELSE good
  /\ UNCHANGED <<answers, refused, handed>>

(* verify: the secret is asked for if none was kept yet. *)
Verify(r) ==
  /\ r.op = "verify" /\ Ask(r)
  /\ r.of <= Len(asked) /\ signed[r.of] # 0
  /\ IF kept = 0
     THEN /\ pipe' = Append(pipe, Get([do |-> "verify", by |-> Len(asked')]))
          /\ UNCHANGED <<answers, refused>>
     ELSE Verified(Len(asked'), r.of, kept) /\ UNCHANGED pipe
  /\ UNCHANGED <<good, handed>>
-----------------------------------------------------------------------------
(* The secret. *)

Answering(op) == up /\ pipe # <<>> /\ Head(pipe).op = op
C == Head(pipe)
Then(cs) == pipe' = Tail(pipe) \o cs

(* The key is there, but the request that waited for it is forgotten.       *)
ProceedSilently(t, key) ==
  /\ kept' = IF t.do \in {"router", "verify"} THEN key ELSE kept
  /\ IF t.do = "sign"
     THEN signed' = [signed EXCEPT ![t.by] = key] /\ Answer(t.by, "yes")
     ELSE UNCHANGED <<signed, answers>>
  /\ UNCHANGED refused

(* The callback of fetchOrCreateSecretKey.  What the core's instance keeps  *)
(* is not used: the router's has taken its place.                           *)
Proceed(t, key) ==
  /\ kept' = IF t.do \in {"router", "verify"} THEN key ELSE kept
  /\ \/ /\ t.do = "sign"
        /\ signed' = [signed EXCEPT ![t.by] = key]
        /\ Answer(t.by, "yes")
        /\ UNCHANGED refused
     \/ /\ t.do = "verify"
        /\ Verified(t.by, asked[t.by].of, key)
        /\ UNCHANGED signed
     \/ /\ t.do \in {"core", "router"}
        /\ UNCHANGED <<signed, answers, refused>>

Fetched ==
  /\ Answering("get") /\ secret # 0
  /\ Then(<<>>)
  /\ Proceed(C.task, secret)
  /\ UNCHANGED <<redis, drawing, made, up, serving, asked, history, disturbed>>

(* There is no secret: one is drawn at random. *)
Missing ==
  /\ Answering("get") /\ secret = 0
  /\ Then(<<>>)
  /\ drawing' = drawing \cup {C.task}
  /\ raced' = (raced \/ drawing # {} \/ \E i \in 1..Len(pipe) : pipe[i].op = "put")
  /\ UNCHANGED <<redis, made, up, serving, kept, asked, answers, jwt, good, handed,
                 disturbed>>

Drawn(t) ==
  /\ up /\ t \in drawing
  /\ drawing' = drawing \ {t} /\ made' = made + 1
  /\ pipe' = Append(pipe, Put(t, made'))
  /\ UNCHANGED <<redis, up, serving, kept, asked, answers, jwt, history, disturbed>>

(* What Redis does with a command, whoever waits for it. *)
Executed(c) ==
  \/ c.op = "put" /\ secret' = c.key /\ UNCHANGED links
  \/ /\ c.op = "set"
     /\ links' = [links EXCEPT ![c.link] = "stored"]
     /\ UNCHANGED secret
  \/ /\ c.op = "expire"
     /\ links' = [links EXCEPT ![c.link] = IF @ = "none" THEN @ ELSE "expiring"]
     /\ UNCHANGED secret
  \/ c.op \in {"get", "find"} /\ UNCHANGED redis

Created ==
  /\ Answering("put")
  /\ Executed(C) /\ Then(<<>>)
  /\ Proceed(C.task, C.key)
  /\ UNCHANGED <<drawing, made, up, serving, asked, history, disturbed>>
-----------------------------------------------------------------------------
(* Links. *)

Written ==
  /\ Answering("set") \/ Answering("expire")
  /\ Executed(C)
  /\ Then(IF C.op = "set" /\ C.chained THEN <<Expire(C.link)>> ELSE <<>>)
  /\ UNCHANGED <<process, asked, answers, jwt, history, disturbed>>

(* A link that is over is followed with no owner. *)
FoundAnyway ==
  /\ Answering("find")
  /\ Then(<<>>)
  /\ Answer(C.by, IF links[C.link] = "none" THEN "nobody" ELSE "yes")
  /\ UNCHANGED <<redis, process, asked, jwt, history, disturbed>>

(* There is no owner in what is not there: the exception is caught, and     *)
(* nobody answered.                                                         *)
Found ==
  /\ Answering("find")
  /\ Then(<<>>)
  /\ IF links[C.link] = "none" THEN UNCHANGED answers ELSE Answer(C.by, "yes")
  /\ UNCHANGED <<redis, process, asked, jwt, history, disturbed>>

TimeToLiveEnds(l) ==
  /\ links[l] = "expiring"
  /\ links' = [links EXCEPT ![l] = "none"]
  /\ handed' = handed \ {l}
  /\ good' = {k \in good : asked[k].link # l}
  /\ UNCHANGED <<secret, pipe, process, asked, answers, jwt, raced, disturbed>>
-----------------------------------------------------------------------------
(* Faults.  Bound: one of them in a behaviour. *)

(* Commands that have left are executed or lost, nobody runs their callback. *)
Crash ==
  /\ CanCrash /\ ~disturbed /\ up
  /\ up' = FALSE /\ serving' = FALSE /\ disturbed' = TRUE
  /\ drawing' = {} /\ kept' = 0
  /\ UNCHANGED <<redis, pipe, made, asked, answers, jwt, history>>

Drain ==
  /\ ~up /\ pipe # <<>>
  /\ Executed(Head(pipe))
  /\ pipe' = Tail(pipe)
  /\ UNCHANGED <<process, asked, answers, jwt, history, disturbed>>

Restart ==
  /\ ~up
  /\ up' = TRUE
  /\ pipe' = <<Get(Core)>>
  /\ UNCHANGED <<redis, drawing, made, serving, kept, asked, answers, jwt, history,
                 disturbed>>

(* A command is rejected, executed or not; nobody is told.  An exit, if it  *)
(* leads to one, is a Crash.                                                *)
Rejected ==
  /\ CanFail /\ ~disturbed /\ up /\ pipe # <<>>
  /\ Executed(C) \/ UNCHANGED redis
  /\ Then(<<>>)
  /\ disturbed' = TRUE
  /\ UNCHANGED <<process, asked, answers, jwt, history>>
-----------------------------------------------------------------------------
Redis == Fetched \/ Missing \/ Created \/ Written \/ Found
Draw == \E t \in drawing : Drawn(t)

Next ==
  \/ Serve \/ Redis \/ Draw
  \/ \E r \in Requests : OAuth(r) \/ Login(r) \/ Use(r) \/ Verify(r)
  \/ \E l \in Links : TimeToLiveEnds(l)
  \/ Crash \/ Drain \/ Restart \/ Rejected

(* Redis answers and random bytes come.                                     *)
Spec == Init /\ [][Next]_vars /\ WF_vars(Redis) /\ WF_vars(Draw)
-----------------------------------------------------------------------------
(* Properties. *)

(* jwtlogin.js:27-28, 49-60, 131.  A token is accepted while it is valid,   *)
(* also after a restart, unless two secrets were made at once.              *)
SignedIsAccepted == refused # {} => raced

(* router.auth.js:127-132, router.google.js:67-69, 214-215,                 *)
(* router.github.js:101-117.  What is under a link has an expiry, or EXPIRE *)
(* is on its way, however logins that share a link overlap.                 *)
LinksExpire ==
  \A l \in Links : links[l] = "stored" /\ ~disturbed =>
    Expire(l) \in {pipe[i] : i \in 1..Len(pipe)}

(* router.auth.js:40-113, 152-166, router.js:64-73.  Every call is          *)
(* answered, also one that follows a link before the link was stored; but   *)
(* one whose link is over never is.                                         *)
Excused(k) == k <= Len(asked) /\ asked[k].op = "use" /\ k \notin good
EveryCallAnswered ==
  \A k \in Calls :
    (k <= Len(asked)) ~> (answers[k] # "none" \/ disturbed \/ Excused(k))
=============================================================================
