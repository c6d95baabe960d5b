---------------------------- MODULE AccountsProofs ----------------------------
(***************************************************************************)
(* What accounts keep to, for any owners, documents, requests and bounds,   *)
(* however calls overlap, whatever CouchDB fails and whether the process    *)
(* dies: the types, that what was saved stays, and that a key sets one      *)
(* password.                                                                *)
(***************************************************************************)
EXTENDS Accounts, TLAPS

(* The kinds of calls that are found at a stage.                            *)
Logins == {"login", "google", "github", "token"}
KindsAt(stage) ==
  IF stage = "view" THEN Creators \cup {"forgot", "set", "login"}
  ELSE IF stage = "key" THEN Creators \cup {"login"}
  ELSE IF stage = "make" THEN {"login"}
  ELSE IF stage = "insert" THEN Creators
  ELSE IF stage = "mail" THEN {"create", "google", "forgot"}
  ELSE IF stage = "get" THEN Editors \cup {"google", "github", "token", "revoke"}
  ELSE IF stage = "check" THEN {"add", "remove"}
  ELSE IF stage = "edit" THEN Editors \cup {"set", "delete"}
  ELSE IF stage \in {"list", "destroy"} THEN {"revoke"}
  ELSE IF stage = "reject" THEN {"delete"}
  ELSE IF stage = "exchange" THEN {"github"}
  ELSE Logins

(* A call at a stage of its kind knows its owner, and has made of the       *)
(* document it has read what it is about to write.                          *)
HasSent(i) ==
  \/ i.at = "get" /\ Op(i, {"forgot"})
  \/ i.at \in {"check", "edit"} /\ ~Op(i, {"delete"})
Carries(i) ==
  /\ Op(i, {"add"}) => i.sent.repos[i.by] = i.by
  /\ Op(i, {"tag"}) => i.sent.repos[i.req.id] = i.by
  /\ Op(i, {"mesh"}) => i.req.mesh \in i.sent.meshes
  /\ Op(i, {"unmesh"}) => i.req.mesh \notin i.sent.meshes
Staged(i) ==
  /\ i.req.op \in KindsAt(i.at)
  /\ IF Op(i, {"set", "login"})
     THEN i.owner \in Owners \/ i.at = "view"
     ELSE i.owner = i.req.owner
  /\ HasSent(i) => i.sent \in Account /\ Carries(i)

(* What waits is a call that was made, at one stage only but where its kind *)
(* goes on with several requests, and answers itself or, for GitHub, one    *)
(* that has its listeners on the emitter; calls under way overlap those     *)
(* made since, and none is answered before it is made.                      *)
Twofold == {"list", "destroy", "seen", "again"}
Several(i) == i.at \in Twofold \/ (i.at = "get" /\ Op(i, {"github"}))
FromGithub(k) == k <= Len(asked) /\ asked[k].op = "github"
Addressed(i) == i.to = i.by \/ (Op(i, {"github"}) /\ FromGithub(i.to))
CallsOK ==
  /\ \A i \in jobs : Staged(i) /\ Addressed(i) /\ i.by <= Len(asked) /\ asked[i.by] = i.req
  /\ \A i, l \in jobs : i.by = l.by => i = l \/ (Several(i) /\ Several(l))
  /\ \A i \in jobs : \A k \in Calls : i.by < k /\ k <= Len(asked) => <<i.by, k>> \in over
  /\ \A k \in Calls : answers[k] = "yes" => k <= Len(asked)
  /\ \A k \in listeners : FromGithub(k)

Typed == TypeOK /\ CallsOK

(* An edit under way is of a document that is there, and only a call that   *)
(* overlaps it writes in between.                                           *)
Overlapped(k) == \E m \in Calls : Pair(k, m)
EditsOK ==
  \A i \in jobs : i.at = "edit" =>
    /\ Op(i, {"delete"}) \/ IsDoc(i.owner) \/ i.owner \in born
    /\ rev[i.owner] = i.rev \/ Overlapped(i.by)
SavedInv == EditsOK /\ SavedStays

(* Who holds a key, and who was given it: an account that is there at       *)
(* first, or one of a call that has stored it, unless it was made twice.    *)
Vias == {"reset", "activation"}
Makers(via) == IF via = "reset" THEN {"forgot"} ELSE {"create", "google"}
Holds(o, via, key) == IsDoc(o) /\ KeyOf(doc[o], via) = key
StoredBy(key) == key \in reissued \/ \A i \in jobs : i.by = key => i.at = "mail"
GivenTo(o, via, key) ==
  key # 0 =>
    /\ key <= Len(asked) /\ asked[key].op \in Makers(via) /\ asked[key].owner = o
    /\ StoredBy(key)
HeldIsGiven ==
  \A o \in Owners, via \in Vias, key \in Ids : Holds(o, via, key) => GivenTo(o, via, key)
FirstHeldOnce ==
  \A o, p \in Owners, via \in Vias : Holds(o, via, 0) /\ Holds(p, via, 0) => o = p
(* A new key is the call's own, or was made twice. *)
ForgotKeys ==
  \A i \in jobs : Op(i, {"forgot"}) /\ i.at \in {"get", "edit"} =>
    \/ i.sent.reset = i.by
    \/ /\ i.sent.reset \in reissued /\ i.sent.reset \in 1..(i.by - 1)
       /\ asked[i.sent.reset] = i.req
(* Who is about to set a password is the only one with the key.             *)
SettersHold ==
  \A i \in jobs : Op(i, {"set"}) /\ i.at = "edit" =>
    /\ GivenTo(i.owner, i.req.via, i.req.key)
    /\ \A o \in Owners : Holds(o, i.req.via, 0) /\ i.req.key = 0 => o = i.owner
(* A key that has set a password was given and has no holder, and whoever   *)
(* is about to use it overlaps the call that did.                           *)
Spent(k) ==
  /\ \E o \in Owners : GivenTo(o, asked[k].via, asked[k].key)
  /\ \A o \in Owners : ~Holds(o, asked[k].via, asked[k].key)
  /\ \A i \in jobs : i.at = "edit" /\ i.req = asked[k] /\ i.by # k => Pair(k, i.by)
UsedIsSpent ==
  ~disturbed => \A k \in Calls :
    Done(k) /\ asked[k].op = "set" /\ asked[k].key \notin reissued => Spent(k)
KeysInv ==
  HeldIsGiven /\ FirstHeldOnce /\ ForgotKeys /\ SettersHold /\ UsedIsSpent /\ KeyUsedOnce
-----------------------------------------------------------------------------
(* Requests, documents and calls. *)

LEMMA RequestFields ==
  ASSUME NEW r \in Requests
  PROVE  /\ r.op \in Creators \cup Editors
                       \cup {"github", "delete", "revoke", "set", "login"}
         /\ r.op \notin {"set", "login"} => r.owner \in Owners
         /\ r.op \in Creators \cup {"github", "login"} => r.name \in Names
         /\ r.op = "set" => r.via \in Vias /\ r.key \in Ids
         /\ r.op = "update" => r.value \in BOOLEAN
         /\ r.op = "add" => r.known \in BOOLEAN
         /\ r.op \in {"remove", "tag"} => r.id \in Ids
         /\ r.op \in {"mesh", "unmesh"} => r.mesh \in Meshes
<1>1. r \in Request
  BY AccountsAssumption
<1> QED BY <1>1 DEF Request, Creators, Editors, Vias

LEMMA NoneIsNone ==
  /\ None \notin Owners /\ None \notin Ids /\ None \notin Account
  /\ Gone \notin Account /\ Gone # None
BY AccountsAssumption

LEMMA CallsAreIds ==
  MaxCalls \in Nat /\ Calls \subseteq Ids /\ 0 \in Ids /\ 0 \notin Calls
BY AccountsAssumption DEF Calls, Ids

LEMMA OwnerKnown ==
  ASSUME NEW i \in Job, Staged(i), i.at # "view" \/ ~Op(i, {"set", "login"})
  PROVE  i.owner \in Owners
<1>1. i.req \in Requests
  BY DEF Job
<1>2. CASE Op(i, {"set", "login"})
  BY <1>2 DEF Staged
<1>3. CASE ~Op(i, {"set", "login"})
  BY <1>1, <1>3, RequestFields DEF Staged, Op
<1> QED BY <1>2, <1>3

LEMMA DocTyped ==
  ASSUME TypeOK, NEW o \in Owners, IsDoc(o)
  PROVE  doc[o] \in Account
BY DEF TypeOK, IsDoc

LEMMA AccountFields ==
  ASSUME NEW d \in Account
  PROVE  /\ d.name \in Names /\ d.password \in Ids \cup {None}
         /\ d.reset \in Ids \cup {None} /\ d.activation \in Ids \cup {None}
         /\ d.repos \in [Ids -> Ids \cup {None}] /\ d.meshes \in SUBSET Meshes
         /\ d.consent \in BOOLEAN /\ d.deleted \in BOOLEAN
BY DEF Account

LEMMA SetTyped ==
  ASSUME NEW j \in Job, NEW d \in Account
  PROVE  PasswordSet(j, d) \in Account
<1>1. j.by \in Ids
  BY CallsAreIds DEF Job
<1> QED BY <1>1 DEF PasswordSet, Account

(* The maps of sources that are written are maps of sources. *)
LEMMA ReposTyped ==
  ASSUME NEW j \in Job, NEW d \in Account
  PROVE  /\ Op(j, {"add"}) => SourceAdded(j, d) \in Account
         /\ Op(j, {"remove"}) => SourceRemoved(j, d) \in Account
         /\ Op(j, {"tag"}) => SourceTagged(j, d) \in Account
<1>1. j.by \in Ids /\ j.req \in Requests
  BY CallsAreIds DEF Job
<1> DEFINE Into(s, v) == [d EXCEPT !.repos[s] = v]
<1>2. ASSUME NEW s \in Ids, NEW v \in Ids \cup {None}
      PROVE  Into(s, v) \in Account
  BY <1>2 DEF Account
<1> QED BY <1>1, <1>2, RequestFields
        DEF SourceAdded, SourceRemoved, SourceTagged, Op

LEMMA MeshesTyped ==
  ASSUME NEW j \in Job, NEW d \in Account
  PROVE  /\ Op(j, {"mesh"}) => MeshCreated(j, d) \in Account
         /\ Op(j, {"unmesh"}) => MeshDeleted(j, d) \in Account
         /\ Op(j, {"update"}) => Consented(j, d) \in Account
<1>1. j.req \in Requests
  BY DEF Job
<1>2. Op(j, {"mesh"}) => MeshCreated(j, d) \in Account
  BY <1>1, RequestFields DEF MeshCreated, Op, Account
<1>3. MeshDeleted(j, d) \in Account
  BY DEF MeshDeleted, Account
<1>4. Op(j, {"update"}) => Consented(j, d) \in Account
  BY <1>1, RequestFields DEF Consented, Op, Account
<1> QED BY <1>2, <1>3, <1>4

(* What a call that reads before it edits will send. *)
LEMMA ChangedIs ==
  ASSUME NEW j, NEW d
  PROVE  /\ j.req.op = "update" => Changed(j, d) = Consented(j, d)
         /\ j.req.op = "forgot" => Changed(j, d) = j.sent
         /\ j.req.op = "add" => Changed(j, d) = SourceAdded(j, d)
         /\ j.req.op = "remove" => Changed(j, d) = SourceRemoved(j, d)
         /\ j.req.op = "tag" => Changed(j, d) = SourceTagged(j, d)
         /\ j.req.op = "mesh" => Changed(j, d) = MeshCreated(j, d)
         /\ j.req.op = "unmesh" => Changed(j, d) = MeshDeleted(j, d)
BY Zenon DEF Changed

LEMMA ChangedTyped ==
  ASSUME NEW j \in Job, NEW d \in Account, Op(j, Editors),
         Op(j, {"forgot"}) => j.sent \in Account
  PROVE  Changed(j, d) \in Account
<1>1. j.req.op \in Editors
  BY DEF Op
<1> QED BY <1>1, ChangedIs, ReposTyped, MeshesTyped DEF Op, Editors

LEMMA ChangedCarries ==
  ASSUME NEW j \in Job, NEW d \in Account, Op(j, Editors), NEW s, s = Changed(j, d)
  PROVE  /\ Op(j, {"add"}) => s.repos[j.by] = j.by
         /\ Op(j, {"tag"}) => s.repos[j.req.id] = j.by
         /\ Op(j, {"mesh"}) => j.req.mesh \in s.meshes
         /\ Op(j, {"unmesh"}) => j.req.mesh \notin s.meshes
<1>1. j.by \in Ids /\ j.req \in Requests
  BY CallsAreIds DEF Job
<1>2. CASE Op(j, {"add"})
  <2>1. s = SourceAdded(j, d)
    BY <1>2, ChangedIs DEF Op
  <2>2. s.repos[j.by] = j.by
    BY <1>1, <2>1 DEF SourceAdded, Account
  <2> QED BY <1>2, <2>2 DEF Op
<1>3. CASE Op(j, {"tag"})
  <2>1. s = SourceTagged(j, d) /\ j.req.id \in Ids
    BY <1>1, <1>3, ChangedIs, RequestFields DEF Op
  <2>2. s.repos[j.req.id] = j.by
    BY <2>1 DEF SourceTagged, Account
  <2> QED BY <1>3, <2>2 DEF Op
<1>4. CASE Op(j, {"mesh"})
  <2>1. s = MeshCreated(j, d)
    BY <1>4, ChangedIs DEF Op
  <2> QED BY <1>4, <2>1 DEF MeshCreated, Op, Account
<1>5. CASE Op(j, {"unmesh"})
  <2>1. s = MeshDeleted(j, d)
    BY <1>5, ChangedIs DEF Op
  <2> QED BY <1>5, <2>1 DEF MeshDeleted, Op, Account
<1> QED BY <1>2, <1>3, <1>4, <1>5 DEF Op

(* What an edit changes, and what it keeps. *)
Repos == {"add", "remove", "tag"}
LEMMA EditIs ==
  ASSUME NEW j, NEW d
  PROVE  /\ j.req.op = "forgot" => EditOf(j, d) = [d EXCEPT !.reset = j.sent.reset]
         /\ j.req.op = "set" => EditOf(j, d) = PasswordSet(j, d)
         /\ j.req.op = "update" => EditOf(j, d) = Consented(j, d)
         /\ j.req.op = "delete" => EditOf(j, d) = [d EXCEPT !.deleted = TRUE]
         /\ j.req.op \in Repos =>
              EditOf(j, d) = [d EXCEPT !.repos = Merged(d.repos, j.sent.repos)]
         /\ j.req.op \in {"mesh", "unmesh"} =>
              EditOf(j, d) = [d EXCEPT !.meshes = j.sent.meshes]
BY Zenon DEF EditOf, Repos

LEMMA MergedIs ==
  ASSUME NEW old \in [Ids -> Ids \cup {None}], NEW new \in [Ids -> Ids \cup {None}]
  PROVE  /\ Merged(old, new) \in [Ids -> Ids \cup {None}]
         /\ \A s \in Ids : Merged(old, new)[s] = None => old[s] = None /\ new[s] = None
         /\ \A s \in Ids : new[s] # None => Merged(old, new)[s] = new[s]
BY DEF Merged

LEMMA EditKinds ==
  ASSUME NEW j \in Job, Staged(j), j.at = "edit"
  PROVE  /\ j.req.op \in Editors \cup {"set", "delete"}
         /\ j.req.op \in {"forgot", "set", "update", "delete", "mesh", "unmesh"} \cup Repos
         /\ ~Op(j, {"delete"}) => j.sent \in Account /\ Carries(j)
BY DEF Staged, KindsAt, Editors, Repos, HasSent, Op

(* What an edit may do to a document d. *)
Edits(j, d, e) ==
  /\ e \in Account
  /\ \/ e.repos = d.repos
     \/ /\ j.req.op \in Repos
        /\ \A s \in Ids : e.repos[s] = None => d.repos[s] = None
        /\ \A s \in Ids : j.sent.repos[s] # None => e.repos[s] = j.sent.repos[s]
  /\ e.meshes = d.meshes \/ (j.req.op \in {"mesh", "unmesh"} /\ e.meshes = j.sent.meshes)
  /\ e.consent = d.consent \/ (j.req.op = "update" /\ e.consent = j.req.value)
  /\ e.deleted = d.deleted \/ (j.req.op = "delete" /\ e.deleted)
  /\ e.reset = d.reset \/ (j.req.op = "forgot" /\ e.reset = j.sent.reset)
                       \/ (j.req.op = "set" /\ e.reset = None)
  /\ e.activation = d.activation \/ (j.req.op = "set" /\ e.activation = None)

(* What it is for is done. *)
Does(j, e) ==
  /\ j.req.op \in Repos =>
       \A s \in Ids : j.sent.repos[s] # None => e.repos[s] = j.sent.repos[s]
  /\ j.req.op \in {"mesh", "unmesh"} => e.meshes = j.sent.meshes
  /\ j.req.op = "update" => e.consent = j.req.value
  /\ j.req.op = "delete" => e.deleted
  /\ j.req.op = "set" => KeyOf(e, j.req.via) = None

LEMMA EditDoes ==
  ASSUME NEW j \in Job, Staged(j), j.at = "edit", NEW d \in Account,
         NEW e, e = EditOf(j, d)
  PROVE  Edits(j, d, e) /\ Does(j, e)
<1> DEFINE r == j.req
<1>1. r \in Requests /\ j.by \in Ids
  BY CallsAreIds DEF Job
<1>2. CASE r.op = "forgot"
  <2>1. e = [d EXCEPT !.reset = j.sent.reset] /\ j.sent \in Account
    BY <1>2, EditIs, EditKinds DEF Op
  <2>2. e \in Account
    BY <2>1 DEF Account
  <2> QED BY <1>2, <2>1, <2>2 DEF Edits, Does, Account, Repos
<1>3. CASE r.op = "set"
  <2>1. e = PasswordSet(j, d) /\ e \in Account
    BY <1>3, EditIs, SetTyped
  <2>2. CASE r.via = "reset"
    <3>1. e = [d EXCEPT !.password = j.by, !.reset = None]
      BY <2>1, <2>2 DEF PasswordSet
    <3> QED BY <1>3, <2>1, <2>2, <3>1 DEF Edits, Does, Account, Repos, KeyOf
  <2>3. CASE r.via # "reset"
    <3>1. e = [d EXCEPT !.password = j.by, !.activation = None]
      BY <2>1, <2>3 DEF PasswordSet
    <3> QED BY <1>3, <2>1, <2>3, <3>1 DEF Edits, Does, Account, Repos, KeyOf
  <2> QED BY <2>2, <2>3
<1>4. CASE r.op = "update"
  <2>1. e = Consented(j, d) /\ e \in Account
    BY <1>4, EditIs, MeshesTyped DEF Op
  <2> QED BY <1>4, <2>1 DEF Consented, Edits, Does, Account, Repos
<1>5. CASE r.op = "delete"
  <2>1. e = [d EXCEPT !.deleted = TRUE]
    BY <1>5, EditIs
  <2>2. e \in Account
    BY <2>1 DEF Account
  <2> QED BY <1>5, <2>1, <2>2 DEF Edits, Does, Account, Repos
<1>6. CASE r.op \in Repos
  <2> DEFINE m == Merged(d.repos, j.sent.repos)
  <2>1. e = [d EXCEPT !.repos = m] /\ j.sent \in Account
    BY <1>6, EditIs, EditKinds DEF Op, Repos
  <2>2. /\ m \in [Ids -> Ids \cup {None}]
        /\ \A s \in Ids : m[s] = None => d.repos[s] = None
        /\ \A s \in Ids : j.sent.repos[s] # None => m[s] = j.sent.repos[s]
    BY <2>1, MergedIs, AccountFields
  <2> HIDE DEF m
  <2>3. e \in Account /\ e.repos = m
    BY <2>1, <2>2 DEF Account
  <2>4. /\ e.meshes = d.meshes /\ e.consent = d.consent /\ e.deleted = d.deleted
        /\ e.reset = d.reset /\ e.activation = d.activation
    BY <2>1 DEF Account
  <2> QED BY <1>6, <2>2, <2>3, <2>4 DEF Edits, Does, Repos
<1>7. CASE r.op \in {"mesh", "unmesh"}
  <2>1. e = [d EXCEPT !.meshes = j.sent.meshes] /\ j.sent \in Account
    BY <1>7, EditIs, EditKinds DEF Op
  <2>2. e \in Account
    BY <2>1 DEF Account
  <2> QED BY <1>7, <2>1, <2>2 DEF Edits, Does, Account, Repos
<1> QED BY <1>2, <1>3, <1>4, <1>5, <1>6, <1>7, EditKinds
-----------------------------------------------------------------------------
(* How calls go on. *)

(* i can follow j: an edit is sent of a document that was just read, and of *)
(* one that holds the key if it is to set a password; a call for a new key  *)
(* sends its own, or one that was made twice.                               *)
NewKey(i) ==
  \/ i.sent.reset = i.by
  \/ /\ i.sent.reset \in reissued' /\ i.sent.reset \in 1..(i.by - 1)
     /\ asked[i.sent.reset] = i.req
Onward(j, i) ==
  /\ i \in Job /\ i.by = j.by /\ i.req = j.req /\ Staged(i) /\ Addressed(i)
  /\ i.at = "edit" => UNCHANGED <<doc, rev>> /\ IsDoc(i.owner) /\ i.rev = rev[i.owner]
  /\ i.at = "edit" /\ Op(i, {"set"}) => Holds(i.owner, i.req.via, i.req.key)
  /\ i.at \in {"get", "edit"} /\ Op(i, {"forgot"})
       => (j.at = "get" /\ i.sent = j.sent) \/ NewKey(i)
  /\ j.at # "mail" /\ (Several(j) => Several(i))

Continues(j) ==
  /\ \A i \in jobs' : i \in jobs \ {j} \/ Onward(j, i)
  /\ \A i, l \in jobs' : \/ i = l \/ (Several(i) /\ Several(l))
                         \/ i \in jobs \ {j} \/ l \in jobs \ {j}

LEMMA FewerContinue ==
  ASSUME NEW j \in jobs, jobs' \subseteq jobs \ {j}
  PROVE  Continues(j)
BY DEF Continues

LEMMA MovesContinue ==
  ASSUME NEW j \in jobs, NEW js, Goto(j, js), \A i \in js : Onward(j, i),
         \A i, l \in js : i = l \/ (Several(i) /\ Several(l))
  PROVE  Continues(j)
<1>1. jobs' = (jobs \ {j}) \cup js
  BY DEF Goto
<1>2. \A i \in jobs' : i \in jobs \ {j} \/ i \in js
  BY <1>1
<1> QED BY <1>2 DEF Continues

LEMMA Next1Is ==
  ASSUME TypeOK, NEW n \in Job, NEW s \in Stage, s \in Writes => n.owner \in Owners,
         NEW i \in Next1(n, s)
  PROVE  /\ i \in Job /\ i.at = s /\ i.by = n.by /\ i.to = n.to /\ i.req = n.req
         /\ i.owner = n.owner /\ i.sent = n.sent
         /\ s \in Writes => i.rev = rev[n.owner]
<1>1. i = [n EXCEPT !.at = s, !.rev = IF s \in Writes THEN rev[n.owner] ELSE 0]
  BY DEF Next1
<1>2. (IF s \in Writes THEN rev[n.owner] ELSE 0) \in Nat
  BY DEF TypeOK
<1> QED BY <1>1, <1>2 DEF Job

(* The stages at which a call has nothing to send.                          *)
Plain == Stage \ {"get", "check", "edit"}
LEMMA PlainFollows ==
  ASSUME TypeOK, NEW j \in jobs, j.at # "mail", NEW n \in Job, n.by = j.by, n.req = j.req,
         n.to = j.to, Addressed(j),
         IF Op(j, {"set", "login"}) THEN n.owner \in Owners ELSE n.owner = j.req.owner,
         n.owner \in Owners, NEW s \in Plain, j.req.op \in KindsAt(s),
         Several(j) => s \in Twofold, NEW i \in Next1(n, s)
  PROVE  Onward(j, i) /\ i.at = s
<1>1. /\ i \in Job /\ i.at = s /\ i.by = j.by /\ i.to = j.to /\ i.req = j.req
      /\ i.owner = n.owner
  BY Next1Is DEF Plain
<1>2. Staged(i) /\ Addressed(i)
  BY <1>1 DEF Staged, HasSent, Plain, Op, Addressed
<1> QED BY <1>1, <1>2 DEF Onward, Plain, Several

LEMMA PlainContinues ==
  ASSUME TypeOK, NEW j \in jobs, j.at # "mail", NEW n \in Job, n.by = j.by, n.req = j.req,
         n.to = j.to, Addressed(j),
         IF Op(j, {"set", "login"}) THEN n.owner \in Owners ELSE n.owner = j.req.owner,
         n.owner \in Owners, NEW s \in Plain, j.req.op \in KindsAt(s),
         Several(j) => s \in Twofold, Goto(j, Next1(n, s))
  PROVE  Continues(j)
<1>1. \A i \in Next1(n, s) : Onward(j, i)
  BY PlainFollows
<1>2. \A i, l \in Next1(n, s) : i = l
  BY DEF Next1
<1> QED BY <1>1, <1>2, MovesContinue

(* The same for the call itself.                                            *)
LEMMA OwnContinues ==
  ASSUME Typed, NEW j \in jobs, j.at # "mail", j.at # "view" \/ ~Op(j, {"set", "login"}),
         NEW s \in Plain, j.req.op \in KindsAt(s),
         Several(j) => s \in Twofold, Goto(j, Next1(j, s))
  PROVE  Continues(j) /\ \A i \in Next1(j, s) : Onward(j, i) /\ i.at = s
<1>1. j \in Job /\ Staged(j) /\ Addressed(j) /\ TypeOK
  BY DEF Typed, TypeOK, CallsOK
<1>2. j.owner \in Owners
  BY <1>1, OwnerKnown
<1>3. IF Op(j, {"set", "login"}) THEN j.owner \in Owners ELSE j.owner = j.req.owner
  BY <1>1, <1>2 DEF Staged
<1> QED BY <1>1, <1>2, <1>3, PlainContinues, PlainFollows

LEMMA JobIs ==
  ASSUME Typed, NEW j \in jobs
  PROVE  /\ TypeOK /\ j \in Job /\ Staged(j) /\ Addressed(j) /\ j.req \in Requests
         /\ j.at \in Stage /\ j.req.op \in KindsAt(j.at)
         /\ j.by \in Calls /\ j.by \in 1..Len(asked) /\ asked[j.by] = j.req
         /\ j.to \in Calls
BY DEF Typed, TypeOK, CallsOK, Job, Staged, Calls

(* Creating an account. *)
LEMMA NameViewedContinues ==
  ASSUME Typed, NEW j \in jobs, NameViewed(j)
  PROVE  Continues(j)
<1>1. CASE End(j, "no")
  BY <1>1, FewerContinue DEF End, Goto
<1>2. CASE Goto(j, Next1(j, "key"))
  BY <1>2, OwnContinues DEF NameViewed, At, Op, Creators, KindsAt, Plain, Stage, Several, Twofold
<1> QED BY <1>1, <1>2 DEF NameViewed

LEMMA KeyMadeContinues ==
  ASSUME Typed, NEW j \in jobs, KeyMade(j)
  PROVE  Continues(j)
BY OwnContinues DEF KeyMade, At, Op, Creators, KindsAt, Plain, Stage, Several, Twofold

LEMMA FirstKeyMadeContinues ==
  ASSUME Typed, NEW j \in jobs, FirstKeyMade(j)
  PROVE  Continues(j)
<1>1. j.req.op = "login" /\ j.at = "make"
  BY JobIs DEF FirstKeyMade, At, KindsAt
<1> QED BY <1>1, OwnContinues
        DEF FirstKeyMade, Op, KindsAt, Logins, Plain, Stage, Several, Twofold

LEMMA InsertedContinues ==
  ASSUME Typed, NEW j \in jobs, Inserted(j)
  PROVE  Continues(j)
<1>1. j.req.op \in Creators /\ j.at = "insert"
  BY JobIs DEF Inserted, At, KindsAt
<1>2. CASE Goto(j, {})
  BY <1>2, FewerContinue DEF Goto
<1>3. CASE Mail(j) /\ Goto(j, Next1(j, "mail"))
  BY <1>1, <1>3, OwnContinues DEF Op, Mail, Creators, KindsAt, Plain, Stage, Several, Twofold
<1> QED BY <1>2, <1>3 DEF Inserted, End

(* Logging in. *)
LEMMA LoginViewedContinues ==
  ASSUME Typed, NEW j \in jobs, LoginViewed(j)
  PROVE  Continues(j)
<1>1. CASE End(j, "no")
  BY <1>1, FewerContinue DEF End, Goto
<1>2. ASSUME NEW o \in Owners, Goto(j, Next1([j EXCEPT !.owner = o], "key"))
      PROVE  Continues(j)
  <2> DEFINE n == [j EXCEPT !.owner = o]
  <2>1. n \in Job /\ n.by = j.by /\ n.to = j.to /\ n.req = j.req /\ n.owner = o
    BY JobIs DEF Job
  <2>2. Goto(j, Next1(n, "key"))
    BY <1>2
  <2> HIDE DEF n
  <2>3. j.req.op = "login" /\ j.at = "view"
    BY DEF LoginViewed, At, Op
  <2> QED BY <2>1, <2>2, <2>3, PlainContinues, JobIs
          DEF Op, KindsAt, Plain, Stage, Several, Twofold
<1> QED BY <1>1, <1>2 DEF LoginViewed, Named

LEMMA KeyListedIs ==
  ASSUME NEW j, KeyListed(j)
  PROVE  \/ Silent /\ Goto(j, Next1(j, "make"))
         \/ Answer(j, "yes") /\ Goto(j, Next1(j, "seen"))
         \/ Silent /\ Goto(j, {})
BY Zenon DEF KeyListed

LEMMA KeyListedContinues ==
  ASSUME Typed, NEW j \in jobs, KeyListed(j)
  PROVE  Continues(j)
<1>1. j.req.op = "login" /\ j.at = "key"
  BY DEF KeyListed, At, Op
<1>2. CASE Goto(j, {})
  BY <1>2, FewerContinue DEF Goto
<1>3. ASSUME NEW s \in {"make", "seen"}, Goto(j, Next1(j, s))
      PROVE  Continues(j)
  BY <1>1, <1>3, OwnContinues DEF Op, KindsAt, Logins, Plain, Stage, Several, Twofold
<1> QED BY <1>2, <1>3, KeyListedIs

LEMMA GoogleReadContinues ==
  ASSUME Typed, NEW j \in jobs, GoogleRead(j)
  PROVE  Continues(j)
<1> DEFINE A == Next1(j, "again")
           S == Next1(j, "seen")
<1>1. j.req.op = "google" /\ j.at = "get" /\ Goto(j, A \cup S)
  BY DEF GoogleRead, At, Op
<1>2. /\ TypeOK /\ j \in Job /\ j.owner \in Owners /\ j.owner = j.req.owner /\ Addressed(j)
  BY <1>1, JobIs, OwnerKnown DEF Staged, Op
<1>3. \A i \in A : Onward(j, i) /\ i.at = "again"
  BY <1>1, <1>2, PlainFollows DEF Op, KindsAt, Logins, Plain, Stage, Several, Twofold
<1>4. \A i \in S : Onward(j, i) /\ i.at = "seen"
  BY <1>1, <1>2, PlainFollows DEF Op, KindsAt, Logins, Plain, Stage, Several, Twofold
<1> HIDE DEF A, S
<1> QED BY <1>1, <1>3, <1>4, MovesContinue DEF Several, Twofold

LEMMA GoogleErrorContinues ==
  ASSUME Typed, NEW j \in jobs, GoogleReadError(j)
  PROVE  Continues(j)
<1>1. j.req.op = "google" /\ j.at = "get"
  BY DEF GoogleReadError, At, Op
<1>2. CASE Goto(j, {})
  BY <1>2, FewerContinue DEF Goto
<1>3. CASE Goto(j, Next1(j, "view"))
  BY <1>1, <1>3, OwnContinues DEF Op, KindsAt, Creators, Plain, Stage, Several, Twofold
<1> QED BY <1>2, <1>3 DEF GoogleReadError, End

LEMMA ThrownContinues ==
  ASSUME NEW j \in jobs, Thrown(j)
  PROVE  Continues(j)
BY FewerContinue DEF Thrown

LEMMA ExchangedIs ==
  ASSUME NEW j, Exchanged(j)
  PROVE  \/ Silent /\ Goto(j, {[j EXCEPT !.at = "get", !.to = k] : k \in listeners})
         \/ /\ Goto(j, {})
            /\ answers' = [k \in Calls |-> IF k \in listeners /\ answers[k] = "none"
                                         THEN "no" ELSE answers[k]]
BY Zenon DEF Exchanged

LEMMA ExchangedContinues ==
  ASSUME Typed, NEW j \in jobs, Exchanged(j)
  PROVE  Continues(j)
<1>1. j.at = "exchange" /\ j.req.op = "github" /\ j.owner = j.req.owner
  BY JobIs DEF Exchanged, At, KindsAt, Staged, Op
<1>2. CASE Goto(j, {})
  BY <1>2, FewerContinue DEF Goto
<1> DEFINE js == {[j EXCEPT !.at = "get", !.to = k] : k \in listeners}
<1>3. ASSUME NEW i \in js
      PROVE  Onward(j, i) /\ Several(i)
  <2>1. PICK k \in listeners : i = [j EXCEPT !.at = "get", !.to = k]
    OBVIOUS
  <2>2. k \in Calls /\ FromGithub(k)
    BY JobIs DEF TypeOK, Typed, CallsOK
  <2>3. /\ i \in Job /\ i.at = "get" /\ i.by = j.by /\ i.to = k /\ i.req = j.req
        /\ i.owner = j.owner
    BY <2>1, <2>2, JobIs DEF Job, Stage
  <2>4. Staged(i) /\ Addressed(i) /\ Several(i)
    BY <1>1, <2>2, <2>3 DEF Staged, HasSent, Op, KindsAt, Addressed, Several
  <2> QED BY <1>1, <2>3, <2>4 DEF Onward, Op
<1> HIDE DEF js
<1>4. CASE Goto(j, js)
  BY <1>3, <1>4, MovesContinue
<1> QED BY <1>2, <1>4, ExchangedIs DEF js

LEMMA GithubReadIs ==
  ASSUME NEW j, GithubRead(j)
  PROVE  \/ End(j, "no") /\ UNCHANGED life
         \/ Silent /\ Thrown(j)
         \/ Answer(j, "yes") /\ Goto(j, Next1(j, "seen")) /\ UNCHANGED life
         \/ /\ Silent /\ disturbed' = TRUE
            /\ \/ jobs' = {} /\ listeners' = {}
               \/ Goto(j, Next1(j, "seen")) /\ UNCHANGED listeners
BY Zenon DEF GithubRead

LEMMA GithubReadContinues ==
  ASSUME Typed, NEW j \in jobs, GithubRead(j)
  PROVE  Continues(j)
<1>1. j.req.op = "github" /\ j.at = "get"
  BY DEF GithubRead, At, Op
<1>2. CASE Goto(j, {}) \/ jobs' = {}
  BY <1>2, FewerContinue DEF Goto
<1>3. CASE Goto(j, Next1(j, "seen"))
  BY <1>1, <1>3, OwnContinues DEF Op, KindsAt, Logins, Plain, Stage, Several, Twofold
<1> QED BY <1>2, <1>3, ThrownContinues, GithubReadIs DEF End

LEMMA TokenReadContinues ==
  ASSUME Typed, NEW j \in jobs, TokenRead(j)
  PROVE  Continues(j)
<1>1. j.req.op = "token" /\ j.at = "get"
  BY DEF TokenRead, At, Op
<1>2. PICK s \in {"again", "view"} : Goto(j, Next1(j, s))
  BY DEF TokenRead
<1> QED BY <1>1, <1>2, OwnContinues
        DEF Op, KindsAt, Logins, Creators, Plain, Stage, Several, Twofold

LEMMA SeenContinues ==
  ASSUME Typed, NEW j \in jobs, Seen(j)
  PROVE  Continues(j)
<1>1. j.req.op \in Logins /\ j.at \in {"seen", "again"}
  BY JobIs DEF Seen, KindsAt
<1>2. CASE Goto(j, {})
  BY <1>2, FewerContinue DEF Goto
<1>3. CASE Goto(j, Next1(j, "seen"))
  BY <1>1, <1>3, OwnContinues DEF Op, KindsAt, Logins, Plain, Stage, Several, Twofold
<1> QED BY <1>2, <1>3 DEF Seen

(* Reading before an edit, and the edit. *)
LEMMA SentContinues ==
  ASSUME Typed, NEW j \in jobs, j.at \in {"view", "get", "check", "edit"},
         NEW n \in Job, n.by = j.by, n.to = j.to, n.req = j.req, n.owner \in Owners,
         Op(j, {"set", "login"}) \/ n.owner = j.req.owner,
         n.sent \in Account, Carries(n), NEW s \in {"check", "edit"},
         j.req.op \in KindsAt(s), ~Op(j, {"delete"}),
         s = "edit" => UNCHANGED <<doc, rev>> /\ IsDoc(n.owner),
         s = "edit" /\ Op(j, {"set"}) => Holds(n.owner, j.req.via, j.req.key),
         Op(j, {"forgot"}) => j.at = "get" /\ n.sent = j.sent,
         Goto(j, Next1(n, s))
  PROVE  Continues(j)
<1> SUFFICES ASSUME NEW i \in Next1(n, s) PROVE Onward(j, i)
  <2>1. \A i, l \in Next1(n, s) : i = l
    BY DEF Next1
  <2> QED BY <2>1, MovesContinue
<1>1. /\ i \in Job /\ i.at = s /\ i.by = j.by /\ i.to = j.to /\ i.req = j.req
      /\ i.owner = n.owner /\ i.sent = n.sent /\ (s = "edit" => i.rev = rev[n.owner])
  BY Next1Is, JobIs DEF Stage, Writes
<1>2. Carries(i)
  BY <1>1 DEF Carries, Op
<1>3. Staged(i) /\ Addressed(i) /\ ~Several(j)
  BY <1>1, <1>2, JobIs
     DEF Staged, HasSent, Op, Addressed, Several, Twofold, KindsAt, Editors
<1> QED BY <1>1, <1>3 DEF Onward, Op

LEMMA EmailViewedContinues ==
  ASSUME Typed, NEW j \in jobs, EmailViewed(j)
  PROVE  Continues(j)
<1>1. j.req.op = "forgot" /\ j.at = "view"
  BY DEF EmailViewed, At, Op
<1>2. CASE End(j, "no")
  BY <1>2, FewerContinue DEF End, Goto
<1>3. CASE IsDoc(j.owner)
  <2>1. /\ TypeOK /\ j \in Job /\ j.owner \in Owners /\ j.by \in Calls
        /\ j.owner = j.req.owner /\ doc[j.owner] \in Account
    BY <1>1, <1>3, JobIs, OwnerKnown, DocTyped DEF Op, Staged
  <2>2. PICK k \in {j.by} \cup {i \in 1..(j.by - 1) : asked[i] = j.req} :
          /\ Goto(j, {[j EXCEPT !.at = "get", !.sent = [doc[j.owner] EXCEPT !.reset = k]]})
          /\ reissued' = IF k = j.by THEN reissued ELSE reissued \cup {k}
    BY <1>3 DEF EmailViewed
  <2> DEFINE d == [doc[j.owner] EXCEPT !.reset = k]
             i == [j EXCEPT !.at = "get", !.sent = d]
  <2>3. k \in Ids
    BY <2>1, <2>2, CallsAreIds DEF Calls, Ids
  <2>4. d \in Account /\ d.reset = k
    BY <2>1, <2>3 DEF Account
  <2> HIDE DEF d
  <2>5. i \in Job /\ i.at = "get" /\ i.sent = d /\ i.by = j.by /\ i.to = j.to /\ i.req = j.req
        /\ i.owner = j.owner
    BY <2>1, <2>4 DEF Job, Stage
  <2>6. Goto(j, {i})
    BY <2>2 DEF d
  <2> HIDE DEF i
  <2>7. Staged(i) /\ Addressed(i)
    BY <1>1, <2>1, <2>4, <2>5, JobIs
       DEF Staged, HasSent, Carries, Op, KindsAt, Editors, Addressed
  <2>8. NewKey(i)
    <3>1. CASE k = j.by
      BY <2>4, <2>5, <3>1 DEF NewKey
    <3>2. CASE k # j.by
      BY <2>1, <2>2, <2>4, <2>5, <3>2, CallsAreIds DEF NewKey, Calls
    <3> QED BY <3>1, <3>2
  <2>9. Onward(j, i)
    BY <1>1, <2>5, <2>7, <2>8 DEF Onward, Several, Twofold
  <2> QED BY <2>6, <2>9, MovesContinue
<1> QED BY <1>2, <1>3 DEF EmailViewed

LEMMA KeyViewedContinues ==
  ASSUME Typed, NEW j \in jobs, KeyViewed(j)
  PROVE  Continues(j)
<1>1. j.req.op = "set" /\ j.at = "view" /\ UNCHANGED <<doc, rev>>
  BY DEF KeyViewed, At, Op, Reading
<1>2. CASE End(j, "no")
  BY <1>2, FewerContinue DEF End, Goto
<1>3. ASSUME NEW o \in Holders(j.req),
             Goto(j, Next1([j EXCEPT !.owner = o, !.sent = PasswordSet(j, doc[o])], "edit"))
      PROVE  Continues(j)
  <2> DEFINE s == PasswordSet(j, doc[o])
             n == [j EXCEPT !.owner = o, !.sent = s]
  <2>1. o \in Owners /\ IsDoc(o) /\ Holds(o, j.req.via, j.req.key)
    BY DEF Holders, Holds
  <2>2. s \in Account
    BY <2>1, JobIs, DocTyped, SetTyped
  <2> HIDE DEF s
  <2>3. /\ n \in Job /\ n.by = j.by /\ n.to = j.to /\ n.req = j.req /\ n.owner = o
        /\ n.sent = s
    BY <2>1, <2>2, JobIs DEF Job
  <2>4. Goto(j, Next1(n, "edit"))
    BY <1>3 DEF s
  <2> HIDE DEF n
  <2>5. Carries(n)
    BY <1>1, <2>3 DEF Carries, Op
  <2> QED BY <1>1, <2>1, <2>2, <2>3, <2>4, <2>5, SentContinues DEF Op, KindsAt
<1> QED BY <1>2, <1>3 DEF KeyViewed

LEMMA ReadContinues ==
  ASSUME Typed, NEW j \in jobs, Read(j)
  PROVE  Continues(j)
<1>1. j.req.op \in Editors /\ j.at = "get" /\ UNCHANGED <<doc, rev>>
  BY DEF Read, At, Op, Reading
<1>2. CASE End(j, "no")
  BY <1>2, FewerContinue DEF End, Goto
<1>3. CASE IsDoc(j.owner) /\ ~End(j, "no")
  <2> DEFINE s == Changed(j, doc[j.owner])
             f == Op(j, {"unmesh"}) /\ j.req.mesh \in doc[j.owner].meshes
             n == [j EXCEPT !.sent = s, !.found = f]
             g == IF Op(j, {"add", "remove"}) THEN "check" ELSE "edit"
  <2>1. Goto(j, Next1(n, g))
    BY <1>3 DEF Read
  <2>2. /\ TypeOK /\ j \in Job /\ j.owner \in Owners /\ j.owner = j.req.owner
    BY <1>1, JobIs, OwnerKnown DEF Op, Staged, Editors
  <2>3. doc[j.owner] \in Account /\ (Op(j, {"forgot"}) => j.sent \in Account)
    BY <1>1, <1>3, <2>2, DocTyped, JobIs DEF Staged, HasSent
  <2>4. s \in Account
    BY <1>1, <2>2, <2>3, ChangedTyped DEF Op
  <2>5. /\ Op(j, {"add"}) => s.repos[j.by] = j.by
        /\ Op(j, {"tag"}) => s.repos[j.req.id] = j.by
        /\ Op(j, {"mesh"}) => j.req.mesh \in s.meshes
        /\ Op(j, {"unmesh"}) => j.req.mesh \notin s.meshes
    BY <1>1, <2>2, <2>3, ChangedCarries DEF Op
  <2>6. Op(j, {"forgot"}) => s = j.sent
    BY ChangedIs DEF Op
  <2>7. f \in BOOLEAN
    BY Zenon DEF Op
  <2>8. g \in {"check", "edit"} /\ j.req.op \in KindsAt(g)
    BY <1>1 DEF Op, KindsAt
  <2> HIDE DEF s, f, g
  <2>9. /\ n \in Job /\ n.by = j.by /\ n.to = j.to /\ n.req = j.req /\ n.owner = j.owner
        /\ n.sent = s
    BY <2>2, <2>4, <2>7 DEF Job
  <2> HIDE DEF n
  <2>10. Carries(n)
    BY <2>5, <2>9 DEF Carries, Op
  <2> QED BY <1>1, <1>3, <2>1, <2>2, <2>4, <2>6, <2>8, <2>9, <2>10, SentContinues
          DEF Op, Editors
<1> QED BY <1>2, <1>3 DEF Read

LEMMA CheckedContinues ==
  ASSUME Typed, NEW j \in jobs, Checked(j)
  PROVE  Continues(j)
<1>1. j.req.op \in {"add", "remove"} /\ j.at = "check" /\ UNCHANGED <<doc, rev>>
  BY JobIs DEF Checked, At, Reading, KindsAt
<1>2. CASE End(j, "no")
  BY <1>2, FewerContinue DEF End, Goto
<1>3. CASE IsDoc(j.owner) /\ Goto(j, Next1(j, "edit"))
  <2>1. /\ TypeOK /\ j \in Job /\ j.owner \in Owners /\ j.owner = j.req.owner
        /\ j.sent \in Account /\ Carries(j)
    BY <1>1, JobIs, OwnerKnown DEF Op, Staged, HasSent
  <2> QED BY <1>1, <1>3, <2>1, SentContinues DEF Op, Editors, KindsAt
<1> QED BY <1>2, <1>3 DEF Checked

LEMMA RefusedIs ==
  ASSUME NEW j, Refused(j)
  PROVE  \/ Op(j, {"forgot"}) /\ Silent /\ Goto(j, Next1(j, "mail"))
         \/ Op(j, {"update"}) /\ End(j, "yes")
         \/ Op(j, {"add", "remove"}) /\ Silent /\ Goto(j, Next1(j, "check"))
         \/ Op(j, {"delete"}) /\ Silent /\ Goto(j, Next1(j, "reject"))
         \/ End(j, "no")
BY Zenon DEF Refused

LEMMA RefusedContinues ==
  ASSUME Typed, NEW j \in jobs, j.at = "edit", Refused(j)
  PROVE  Continues(j)
<1>1. CASE Goto(j, {})
  BY <1>1, FewerContinue DEF Goto
<1>2. CASE Op(j, {"forgot"}) /\ Goto(j, Next1(j, "mail"))
  BY <1>2, OwnContinues DEF Op, KindsAt, Plain, Stage, Several, Twofold
<1>3. CASE Op(j, {"delete"}) /\ Goto(j, Next1(j, "reject"))
  BY <1>3, OwnContinues DEF Op, KindsAt, Plain, Stage, Several, Twofold
<1>4. CASE Op(j, {"add", "remove"}) /\ Goto(j, Next1(j, "check"))
  <2>1. /\ TypeOK /\ j \in Job /\ j.owner \in Owners /\ j.owner = j.req.owner
        /\ j.sent \in Account /\ Carries(j)
    BY <1>4, JobIs, OwnerKnown DEF Op, Staged, HasSent
  <2> QED BY <1>4, <2>1, SentContinues DEF Op, KindsAt
<1> QED BY <1>1, <1>2, <1>3, <1>4, RefusedIs DEF End

LEMMA EditedContinues ==
  ASSUME Typed, NEW j \in jobs, Edited(j)
  PROVE  Continues(j)
<1>1. CASE Goto(j, {})
  BY <1>1, FewerContinue DEF Goto
<1>2. CASE Op(j, {"forgot"}) /\ Goto(j, Next1(j, "mail"))
  BY <1>2, OwnContinues DEF Edited, At, Op, KindsAt, Plain, Stage, Several, Twofold
<1> QED BY <1>1, <1>2 DEF Edited, End

(* Revoking an account. *)
LEMMA RevokeReadContinues ==
  ASSUME Typed, NEW j \in jobs, RevokeRead(j)
  PROVE  Continues(j)
<1>1. j.req.op = "revoke" /\ j.at = "get"
  BY DEF RevokeRead, At, Op
<1>2. CASE End(j, "no")
  BY <1>2, FewerContinue DEF End, Goto
<1>3. CASE IsDoc(j.owner)
  <2> DEFINE L == Next1(j, "list")
             d == [j EXCEPT !.at = "destroy", !.rev = rev[j.owner]]
  <2>1. /\ TypeOK /\ j \in Job /\ j.owner \in Owners /\ j.owner = j.req.owner
        /\ Addressed(j)
    BY <1>1, JobIs, OwnerKnown DEF Op, Staged
  <2>2. Goto(j, L \cup {d})
    BY <1>3 DEF RevokeRead
  <2>3. \A i \in L : Onward(j, i) /\ i.at = "list"
    BY <1>1, <2>1, PlainFollows DEF Op, KindsAt, Plain, Stage, Several, Twofold
  <2>4. /\ d \in Job /\ d.at = "destroy" /\ d.by = j.by /\ d.to = j.to /\ d.req = j.req
        /\ d.owner = j.owner
    BY <2>1 DEF Job, Stage, TypeOK
  <2> HIDE DEF L, d
  <2>5. Staged(d) /\ Addressed(d)
    BY <1>1, <2>1, <2>4, JobIs DEF Staged, HasSent, Op, KindsAt, Addressed
  <2>6. Onward(j, d)
    BY <1>1, <2>4, <2>5 DEF Onward, Several, Twofold
  <2> QED BY <2>2, <2>3, <2>4, <2>6, MovesContinue DEF Several, Twofold
<1> QED BY <1>2, <1>3 DEF RevokeRead

(* A request fails.                                                         *)
FailedAt(j) ==
  \/ j.at = "view" /\ Op(j, Creators) /\ Silent /\ Goto(j, Next1(j, "key"))
  \/ j.at = "get" /\ Op(j, {"google"}) /\ Silent /\ Goto(j, Next1(j, "view"))
  \/ j.at = "get" /\ Op(j, {"token"}) /\ Answer(j, "yes") /\ Goto(j, Next1(j, "view"))
  \/ j.at = "view" /\ Op(j, {"set"}) /\ End(j, "yes")
  \/ j.at = "edit" /\ Refused(j)
  \/ End(j, "no")
  \/ Silent /\ Thrown(j)
  \/ Silent /\ Goto(j, {})

LEMMA FailedIs ==
  ASSUME Typed, NEW j \in jobs, Failed(j)
  PROVE  FailedAt(j)
<1> USE DEF Throws
<1>1. CASE j.at = "view"
  <2>1. \/ Op(j, Creators) /\ ~Op(j, {"forgot", "set", "login"})
        \/ Op(j, {"forgot"}) /\ ~Op(j, Creators \cup {"set", "login"})
        \/ Op(j, {"set"}) /\ ~Op(j, Creators \cup {"forgot", "login"})
        \/ Op(j, {"login"}) /\ ~Op(j, Creators \cup {"set", "forgot"})
    BY <1>1, JobIs DEF KindsAt, Op, Creators
  <2> QED BY <1>1, <2>1, Zenon DEF Failed, FailedAt
<1>2. CASE j.at = "get"
  <2>1. Op(j, {"google"}) \/ Op(j, {"github"}) \/ Op(j, {"token"}) \/ Unknown(j)
        \/ (~Op(j, {"google", "github", "token"}) /\ ~Unknown(j))
    BY DEF Op
  <2> QED BY <1>2, <2>1, Zenon DEF Failed, FailedAt
<1>3. CASE j.at \in {"insert", "check", "list", "destroy"}
  BY <1>3, Zenon DEF Failed, FailedAt
<1>4. CASE j.at = "edit"
  BY <1>4, Zenon DEF Failed, FailedAt
<1>5. CASE j.at \in {"exchange", "seen", "again"}
  BY <1>5, Zenon DEF Failed, FailedAt
<1>6. CASE j.at \in {"key", "mail", "reject", "make"}
  BY <1>6, Zenon DEF Failed, FailedAt
<1> QED BY <1>1, <1>2, <1>3, <1>4, <1>5, <1>6, JobIs DEF Stage

LEMMA FailedContinues ==
  ASSUME Typed, NEW j \in jobs, Failed(j)
  PROVE  Continues(j)
<1>1. CASE Goto(j, {})
  BY <1>1, FewerContinue DEF Goto
<1>2. CASE j.at = "view" /\ Op(j, Creators) /\ Goto(j, Next1(j, "key"))
  BY <1>2, OwnContinues DEF Op, Creators, KindsAt, Plain, Stage, Several, Twofold
<1>3. CASE j.at = "get" /\ Op(j, {"google", "token"}) /\ Goto(j, Next1(j, "view"))
  BY <1>3, OwnContinues DEF Op, Creators, KindsAt, Plain, Stage, Several, Twofold
<1> QED BY <1>1, <1>2, <1>3, FailedIs, ThrownContinues, RefusedContinues
        DEF FailedAt, End, Op

(* Any step of a call.                                                      *)
JobStep(j) == Callback(j) \/ Failed(j)

LEMMA StepContinues ==
  ASSUME Typed, NEW j \in jobs, JobStep(j)
  PROVE  Continues(j)
<1>1. CASE Mailed(j) \/ Listed(j) \/ Destroyed(j) \/ AddUnknown(j) \/ CodeMissing(j)
  BY <1>1, FewerContinue
     DEF Mailed, Listed, Destroyed, AddUnknown, CodeMissing, End, Goto
<1>2. CASE Rejected(j)
  BY <1>2, ThrownContinues DEF Rejected
<1>3. CASE Conflict(j)
  BY <1>3, RefusedContinues DEF Conflict, At
<1> QED BY <1>1, <1>2, <1>3, NameViewedContinues, KeyMadeContinues, InsertedContinues,
           LoginViewedContinues, KeyListedContinues, FirstKeyMadeContinues,
           GoogleReadContinues, GoogleErrorContinues, ExchangedContinues, GithubReadContinues,
           TokenReadContinues, SeenContinues, EmailViewedContinues, KeyViewedContinues,
           ReadContinues, CheckedContinues, EditedContinues, RevokeReadContinues,
           FailedContinues
        DEF JobStep, Callback

(* What it stores, and what it leaves alone.                                *)
Still == UNCHANGED <<doc, rev, asked, over, born>>
LEMMA StepStores ==
  ASSUME Typed, NEW j \in jobs, JobStep(j)
  PROVE  /\ asked' = asked /\ over' = over
         /\ EmailViewed(j) \/ reissued' = reissued
         /\ Still \/ Edited(j) \/ Seen(j) \/ Inserted(j) \/ Destroyed(j)
<1>1. CASE Failed(j) \/ Rejected(j)
  BY <1>1 DEF Failed, Rejected, Still, history
<1>2. CASE Edited(j) \/ Seen(j) \/ GithubRead(j)
  BY <1>2 DEF Edited, Seen, GithubRead, Still, history
<1>3. CASE Inserted(j) \/ Destroyed(j)
  BY <1>3 DEF Inserted, Destroyed
<1>4. CASE EmailViewed(j)
  BY <1>4 DEF EmailViewed, Still
<1>5. CASE Reading
  BY <1>5 DEF Reading, history, Still
<1> QED BY <1>1, <1>2, <1>3, <1>4, <1>5
        DEF JobStep, Callback, NameViewed, KeyMade, Mailed, LoginViewed, KeyListed,
            FirstKeyMade, GoogleRead, GoogleReadError, CodeMissing, Exchanged, TokenRead,
            KeyViewed, AddUnknown, Read, Checked, Conflict, RevokeRead, Listed

(* When it answers "yes".                                                   *)
Promises == {"add", "tag", "mesh", "unmesh", "update", "delete"}
YesTo(j) ==
  \/ Edited(j)
  \/ Op(j, {"update"}) /\ j.at = "edit" /\ Still
       /\ (disturbed' \/ ~IsDoc(j.owner) \/ Overtaken(j))
  \/ Op(j, {"set"}) /\ disturbed'
  \/ ~Op(j, Promises \cup {"set"})
Says(j) ==
  /\ answers' \in [Calls -> {"none", "yes", "no"}]
  /\ \A k \in Calls : answers'[k] = "yes" =>
       answers[k] = "yes" \/ (k = j.by /\ YesTo(j)) \/ FromGithub(k)

LEMMA AnswerIs ==
  ASSUME Typed, NEW j \in jobs, NEW a \in {"yes", "no"}, Answer(j, a), a = "no" \/ YesTo(j)
  PROVE  Says(j)
BY JobIs DEF Answer, Says, TypeOK, Addressed

LEMMA SilentIs ==
  ASSUME Typed, NEW j \in jobs, Silent
  PROVE  Says(j)
BY JobIs DEF Silent, Says, TypeOK

LEMMA RefusedSays ==
  ASSUME Typed, NEW j \in jobs, j.at = "edit", Refused(j), Still,
         disturbed' \/ ~IsDoc(j.owner) \/ Overtaken(j)
  PROVE  Says(j)
<1>1. CASE Op(j, {"update"}) /\ End(j, "yes")
  BY <1>1, AnswerIs DEF YesTo, End
<1>2. CASE End(j, "no")
  BY <1>2, AnswerIs DEF End
<1>3. CASE Silent
  BY <1>3, SilentIs
<1> QED BY <1>1, <1>2, <1>3, RefusedIs

LEMMA OthersSay ==
  ASSUME Typed, NEW j \in jobs, ~Op(j, Promises \cup {"set"}),
         Silent \/ \E a \in {"yes", "no"} : Answer(j, a)
  PROVE  Says(j)
BY AnswerIs, SilentIs DEF YesTo

LEMMA StepSays ==
  ASSUME Typed, NEW j \in jobs, JobStep(j)
  PROVE  Says(j)
<1>1. CASE NameViewed(j) \/ KeyMade(j) \/ LoginViewed(j) \/ KeyViewed(j) \/ EmailViewed(j)
           \/ GoogleReadError(j) \/ AddUnknown(j) \/ Read(j) \/ Checked(j) \/ RevokeRead(j)
           \/ Listed(j) \/ Seen(j) \/ CodeMissing(j)
  BY <1>1, AnswerIs, SilentIs
     DEF NameViewed, KeyMade, LoginViewed, KeyViewed, EmailViewed, GoogleReadError,
         AddUnknown, Read, Checked, RevokeRead, Listed, Seen, CodeMissing, End
<1>2. CASE Inserted(j) \/ Mailed(j) \/ FirstKeyMade(j) \/ Destroyed(j)
  <2>1. ~Op(j, Promises \cup {"set"})
    BY <1>2, JobIs
       DEF Inserted, Mailed, FirstKeyMade, Destroyed, At, KindsAt, Creators, Op, Promises
  <2>2. Silent \/ \E a \in {"yes", "no"} : Answer(j, a)
    BY <1>2 DEF Inserted, Mailed, FirstKeyMade, Destroyed, End
  <2> QED BY <2>1, <2>2, OthersSay
<1>3. CASE KeyListed(j) \/ GoogleRead(j) \/ GithubRead(j) \/ TokenRead(j)
  <2>1. ~Op(j, Promises \cup {"set"})
    BY <1>3 DEF KeyListed, GoogleRead, GithubRead, TokenRead, Op, Promises
  <2>2. Silent \/ \E a \in {"yes", "no"} : Answer(j, a)
    BY <1>3, KeyListedIs, GithubReadIs DEF GoogleRead, TokenRead, End
  <2> QED BY <2>1, <2>2, OthersSay
<1>4. CASE Edited(j)
  BY <1>4, AnswerIs, SilentIs DEF Edited, End, YesTo
<1>5. CASE Conflict(j)
  BY <1>5, RefusedSays DEF Conflict, At, Reading, history, Still
<1>6. CASE Rejected(j)
  BY <1>6, SilentIs DEF Rejected, Silent
<1>7. CASE Failed(j)
  <2>1. disturbed' /\ Still
    BY <1>7 DEF Failed, Still, history
  <2>2. CASE j.at = "edit" /\ Refused(j)
    BY <2>1, <2>2, RefusedSays
  <2>3. CASE Silent \/ Answer(j, "no")
    BY <2>3, AnswerIs, SilentIs
  <2>4. CASE Op(j, {"token"}) /\ Answer(j, "yes")
    BY <2>4, OthersSay DEF Op, Promises
  <2>5. CASE Op(j, {"set"}) /\ Answer(j, "yes")
    BY <2>1, <2>5, AnswerIs DEF YesTo
  <2> QED BY <1>7, <2>2, <2>3, <2>4, <2>5, FailedIs DEF FailedAt, End
<1>8. CASE Exchanged(j)
  BY <1>8, ExchangedIs, SilentIs, JobIs DEF Says, TypeOK
<1> QED BY <1>1, <1>2, <1>3, <1>4, <1>5, <1>6, <1>7, <1>8 DEF JobStep, Callback
-----------------------------------------------------------------------------
(* Types, and what waits. *)

LEMMA WriteTyped ==
  ASSUME TypeOK, NEW o \in Owners, NEW d \in Account \cup {None, Gone}, Write(o, d)
  PROVE  /\ doc' \in [Owners -> Account \cup {None, Gone}] /\ rev' \in [Owners -> Nat]
         /\ doc'[o] = d /\ rev'[o] # rev[o]
         /\ \A p \in Owners : p # o => doc'[p] = doc[p] /\ rev'[p] = rev[p]
BY DEF TypeOK, Write

(* What stores, stores a document of the call's owner.                      *)
LEMMA EditedStores ==
  ASSUME Typed, NEW j \in jobs, Edited(j)
  PROVE  /\ j.at = "edit" /\ j.owner \in Owners /\ IsDoc(j.owner) /\ born' = born
         /\ \E e \in Account :
              /\ Edits(j, doc[j.owner], e) /\ Does(j, e) /\ Write(j.owner, e)
<1> DEFINE d == doc[j.owner]
           e == EditOf(j, d)
<1>1. j.at = "edit" /\ IsDoc(j.owner) /\ born' = born /\ Write(j.owner, e)
  BY DEF Edited, At, history
<1>2. j.owner \in Owners /\ d \in Account /\ Staged(j) /\ j \in Job
  BY <1>1, JobIs, OwnerKnown, DocTyped
<1>3. Edits(j, d, e) /\ Does(j, e)
  BY <1>1, <1>2, EditDoes
<1> HIDE DEF e, d
<1>4. e \in Account
  BY <1>3 DEF Edits
<1> QED BY <1>1, <1>2, <1>3, <1>4 DEF d

LEMMA SeenStores ==
  ASSUME Typed, NEW j \in jobs, Seen(j)
  PROVE  /\ doc' = doc /\ born' = born /\ reissued' = reissued /\ j.owner \in Owners
         /\ rev' \in [Owners -> Nat]
         /\ \A p \in Owners : p # j.owner => rev'[p] = rev[p]
<1>1. j.owner \in Owners
  BY JobIs, OwnerKnown DEF Seen
<1>2. CASE UNCHANGED <<doc, rev>>
  BY <1>1, <1>2, JobIs DEF Seen, history, TypeOK
<1>3. CASE IsDoc(j.owner) /\ Write(j.owner, doc[j.owner])
  <2>1. doc' = doc
    BY <1>1, <1>3, JobIs DEF Write, TypeOK
  <2>2. doc[j.owner] \in Account \cup {None, Gone}
    BY <1>1, JobIs DEF TypeOK
  <2> QED BY <1>1, <1>3, <2>1, <2>2, WriteTyped, JobIs DEF Seen, history
<1> QED BY <1>2, <1>3 DEF Seen

LEMMA NewAccountIs ==
  ASSUME NEW j \in Job, j.req.op \in Creators
  PROVE  /\ NewAccount(j) \in Account
         /\ NewAccount(j).reset = None
         /\ NewAccount(j).activation = IF Mail(j) THEN j.by ELSE None
<1>1. j.req \in Requests /\ j.by \in Ids /\ 0 \in Ids
  BY CallsAreIds DEF Job
<1>2. j.req.name \in Names
  BY <1>1, RequestFields
<1>3. [s \in Ids |-> IF s = 0 THEN 0 ELSE None] \in [Ids -> Ids \cup {None}]
  BY <1>1
<1> QED BY <1>1, <1>2, <1>3 DEF NewAccount, Account

LEMMA InsertedStores ==
  ASSUME Typed, NEW j \in jobs, Inserted(j)
  PROVE  /\ j.at = "insert" /\ j.req.op \in Creators /\ j.owner \in Owners
         /\ reissued' = reissued
         /\ \/ UNCHANGED <<doc, rev, born>>
            \/ /\ Write(j.owner, NewAccount(j)) /\ NewAccount(j) \in Account
               /\ born' = born \cup {j.owner}
<1>1. j.at = "insert" /\ j.req.op \in Creators
  BY JobIs DEF Inserted, At, KindsAt
<1>2. j.owner \in Owners /\ j \in Job
  BY <1>1, JobIs, OwnerKnown
<1> QED BY <1>1, <1>2, NewAccountIs DEF Inserted

LEMMA DestroyedStores ==
  ASSUME Typed, NEW j \in jobs, Destroyed(j)
  PROVE  /\ j.at = "destroy" /\ j.owner \in Owners /\ reissued' = reissued
         /\ \/ UNCHANGED <<doc, rev, born>>
            \/ Write(j.owner, Gone) /\ born' = born \cup {j.owner}
<1>1. j.at = "destroy"
  BY DEF Destroyed, At
<1> QED BY <1>1, JobIs, OwnerKnown DEF Destroyed

LEMMA DocsTyped ==
  ASSUME Typed, NEW j \in jobs, JobStep(j)
  PROVE  /\ doc' \in [Owners -> Account \cup {None, Gone}] /\ rev' \in [Owners -> Nat]
         /\ born' \in SUBSET Owners
<1>1. CASE Still
  BY <1>1, JobIs DEF Still, TypeOK
<1>2. CASE Edited(j)
  BY <1>2, EditedStores, WriteTyped, JobIs DEF TypeOK
<1>3. CASE Seen(j)
  BY <1>3, SeenStores, JobIs DEF TypeOK
<1>4. CASE Inserted(j)
  BY <1>4, InsertedStores, WriteTyped, JobIs DEF TypeOK
<1>5. CASE Destroyed(j)
  BY <1>5, DestroyedStores, WriteTyped, JobIs DEF TypeOK
<1> QED BY <1>1, <1>2, <1>3, <1>4, <1>5, StepStores

LEMMA RedisTyped ==
  ASSUME Typed, NEW j \in jobs, JobStep(j)
  PROVE  keys' \in [Owners -> ApiKeys] /\ expiring' \in SUBSET Owners
<1>1. CASE redis' = redis
  BY <1>1, JobIs DEF redis, TypeOK
<1>2. CASE KeyMade(j) \/ FirstKeyMade(j)
  BY <1>2, JobIs DEF KeyMade, FirstKeyMade, AddDefaultKey, TypeOK, ApiKeys
<1>3. CASE RevokeRead(j)
  <2>1. j.owner \in Owners
    BY <1>3, JobIs, OwnerKnown DEF RevokeRead, At
  <2> QED BY <1>3, <2>1, JobIs DEF RevokeRead, TypeOK
<1> QED BY <1>1, <1>2, <1>3
        DEF JobStep, Callback, Failed, NameViewed, Inserted, Mailed, LoginViewed,
            KeyListed, GoogleRead, GoogleReadError, CodeMissing, Exchanged, GithubRead,
            TokenRead, Seen, EmailViewed, KeyViewed, AddUnknown, Read, Checked, Edited,
            Conflict, Rejected, Listed, Destroyed

LEMMA ReissuedTyped ==
  ASSUME Typed, NEW j \in jobs, JobStep(j)
  PROVE  reissued' \in SUBSET Ids /\ reissued \subseteq reissued'
<1>1. CASE reissued' = reissued
  BY <1>1, JobIs DEF TypeOK
<1>2. CASE EmailViewed(j)
  <2>1. ({j.by} \cup {i \in 1..(j.by - 1) : asked[i] = j.req}) \subseteq Ids
    BY JobIs, CallsAreIds DEF Calls, Ids
  <2> QED BY <1>2, <2>1, JobIs DEF EmailViewed, TypeOK
<1> QED BY <1>1, <1>2, StepStores

LEMMA LifeTyped ==
  ASSUME Typed, NEW j \in jobs, JobStep(j)
  PROVE  /\ disturbed' \in BOOLEAN /\ (disturbed => disturbed')
         /\ listeners' \subseteq listeners
<1>0. disturbed \in BOOLEAN
  BY JobIs DEF TypeOK
<1>1. CASE life' = life
  BY <1>0, <1>1 DEF life
<1>2. CASE disturbed' = TRUE /\ (listeners' = listeners \/ listeners' = {})
  BY <1>2
<1>3. CASE Failed(j)
  <2>1. disturbed' = TRUE /\ (Throws(j) \/ listeners' = listeners)
    BY <1>3 DEF Failed
  <2>2. CASE Throws(j)
    <3>1. /\ j.at \in {"view", "get"} /\ j.req.op \in {"forgot", "github"}
          /\ ~Op(j, Creators \cup {"set", "login", "google", "token"}) /\ ~Unknown(j)
          /\ (j.at = "get" => Op(j, {"google", "github", "token"}))
      BY <2>2 DEF Throws, Op, Creators, Unknown
    <3>2. /\ ~Op(j, Creators) /\ ~Op(j, {"set"}) /\ ~Op(j, {"login"}) /\ ~Op(j, {"google"})
          /\ ~Op(j, {"token"}) /\ j.at # "edit"
          /\ j.at \notin {"insert", "check", "list", "destroy"}
          /\ j.at \notin {"exchange", "seen", "again"}
          /\ j.at \notin {"key", "mail", "reject", "make"}
      BY <3>1 DEF Op
    <3>3. Thrown(j)
      BY <1>3, <2>2, <3>1, <3>2, Zenon DEF Failed
    <3> QED BY <1>2, <3>3 DEF Thrown
  <2> QED BY <1>2, <2>1, <2>2
<1>4. CASE GithubRead(j) \/ Rejected(j)
  BY <1>1, <1>2, <1>4, GithubReadIs DEF Rejected, Thrown
<1>5. CASE Reading \/ UNCHANGED life
  BY <1>1, <1>5 DEF Reading
<1> QED BY <1>3, <1>4, <1>5
        DEF JobStep, Callback, NameViewed, KeyMade, FirstKeyMade, RevokeRead,
            Inserted, Mailed, LoginViewed, KeyListed, GoogleRead, GoogleReadError,
            CodeMissing, Exchanged, TokenRead, Seen, EmailViewed, KeyViewed, AddUnknown,
            Read, Checked, Edited, Conflict, Listed, Destroyed

LEMMA JobStepTyped ==
  ASSUME Typed, NEW j \in jobs, JobStep(j)
  PROVE  TypeOK'
<1>1. jobs' \in SUBSET Job
  BY StepContinues, JobIs DEF Continues, Onward, TypeOK
<1>2. asked' \in Seq(Requests) /\ Len(asked') <= MaxCalls
  BY StepStores, JobIs DEF TypeOK
<1>3. answers' \in [Calls -> {"none", "yes", "no"}]
  BY StepSays DEF Says
<1>4. over' \in SUBSET (Calls \X Calls)
  BY StepStores, JobIs DEF TypeOK
<1> QED BY <1>1, <1>2, <1>3, <1>4, DocsTyped, RedisTyped, ReissuedTyped, LifeTyped, JobIs
        DEF TypeOK

LEMMA JobStepCalls ==
  ASSUME Typed, NEW j \in jobs, JobStep(j)
  PROVE  CallsOK'
<1>1. asked' = asked /\ over' = over
  BY StepStores
<1>2. ASSUME NEW i \in jobs'
      PROVE  /\ Staged(i) /\ Addressed(i) /\ i.by <= Len(asked) /\ asked[i.by] = i.req
             /\ i \in jobs \ {j} \/ (i.by = j.by /\ (Several(j) => Several(i)))
             /\ \A k \in Calls : i.by < k /\ k <= Len(asked) => <<i.by, k>> \in over
  BY StepContinues, JobIs DEF Continues, Onward, Typed, CallsOK
<1>3. ASSUME NEW i \in jobs', NEW l \in jobs', i.by = l.by
      PROVE  i = l \/ (Several(i) /\ Several(l))
  <2>1. CASE i \in jobs \ {j} /\ l \in jobs \ {j}
    BY <1>3, <2>1 DEF Typed, CallsOK
  <2>2. ASSUME NEW h \in jobs \ {j}, NEW n, h.by = j.by,
               Several(j) => Several(n)
        PROVE  Several(h) /\ Several(n)
    BY <2>2 DEF Typed, CallsOK
  <2> QED BY <1>2, <1>3, <2>1, <2>2, StepContinues DEF Continues
<1>4. \A k \in Calls : answers'[k] = "yes" => k <= Len(asked)
  BY StepSays, JobIs DEF Says, Typed, CallsOK, FromGithub
<1>5. \A k \in listeners' : FromGithub(k)
  BY LifeTyped DEF Typed, CallsOK
<1> QED BY <1>1, <1>2, <1>3, <1>4, <1>5 DEF CallsOK, Addressed, FromGithub

(* A call that is made: it is the only new one, and overlaps what waits.    *)
LEMMA CallIs ==
  ASSUME Typed, NEW r \in Requests, Call(r)
  PROVE  /\ Len(asked) \in Nat /\ Len(asked) + 1 \in Calls
         /\ asked' \in Seq(Requests) /\ Len(asked') = Len(asked) + 1
         /\ asked'[Len(asked) + 1] = r
         /\ \A k \in 1..Len(asked) : asked'[k] = asked[k]
         /\ over \subseteq over'
         /\ \A i \in jobs : <<i.by, Len(asked) + 1>> \in over'
         /\ \E i \in Job :
              /\ jobs' = jobs \cup {i} /\ i.by = Len(asked) + 1 /\ i.req = r /\ Staged(i)
              /\ i.to = i.by /\ i.at \in {"view", "get", "edit", "exchange"}
              /\ i.at = "get" => ~Op(i, {"forgot"})
              /\ i.at = "edit" => Op(i, {"delete"}) /\ i.rev = rev[i.owner]
<1>1. /\ Len(asked) \in Nat /\ Len(asked) + 1 \in Calls
      /\ asked' \in Seq(Requests) /\ Len(asked') = Len(asked) + 1
      /\ asked'[Len(asked) + 1] = r
      /\ \A k \in 1..Len(asked) : asked'[k] = asked[k]
  BY CallsAreIds DEF Call, Typed, TypeOK, Calls
<1>2. over \subseteq over' /\ \A i \in jobs : <<i.by, Len(asked) + 1>> \in over'
  BY DEF Call
<1> DEFINE o == IF r.op \in {"set", "login"} THEN None ELSE r.owner
           v == IF First(r) = "edit" THEN rev[r.owner] ELSE 0
           i == [by |-> Len(asked) + 1, to |-> Len(asked) + 1, at |-> First(r),
                 req |-> r, owner |-> o, sent |-> None, rev |-> v, found |-> FALSE]
<1>3. jobs' = jobs \cup {i}
  BY DEF Call
<1>4. /\ First(r) \in {"view", "get", "edit", "exchange"}
      /\ First(r) = "view" <=> r.op \in {"create", "forgot", "set", "login"}
      /\ First(r) = "edit" <=> r.op = "delete"
      /\ First(r) = "exchange" <=> r.op = "github"
  <2>1. CASE r.op \in {"create", "forgot", "set", "login"}
    <3>1. First(r) = "view" /\ r.op # "delete" /\ r.op # "github"
      BY <2>1, Zenon DEF First
    <3> QED BY <2>1, <3>1
  <2>2. CASE r.op = "delete"
    <3>1. First(r) = "edit"
      BY <2>2, Zenon DEF First
    <3> QED BY <2>2, <3>1
  <2>3. CASE r.op \notin {"create", "forgot", "set", "login", "delete", "github"}
    <3>1. First(r) = "get"
      BY <2>3, Zenon DEF First
    <3> QED BY <2>3, <3>1
  <2>4. CASE r.op = "github"
    <3>1. First(r) = "exchange"
      BY <2>4, Zenon DEF First
    <3> QED BY <2>4, <3>1
  <2> QED BY <2>1, <2>2, <2>3, <2>4
<1>5. o \in Owners \cup {None} /\ (r.op \notin {"set", "login"} => o = r.owner)
  BY RequestFields
<1>6. v \in Nat /\ (First(r) = "edit" => v = rev[o])
  BY <1>4, RequestFields DEF Typed, TypeOK
<1> HIDE DEF o, v
<1>7. i \in Job
  BY <1>1, <1>4, <1>5, <1>6 DEF Job, Stage
<1>8. /\ i.by = Len(asked) + 1 /\ i.to = i.by /\ i.req = r /\ i.at = First(r) /\ i.owner = o
      /\ i.rev = v
  OBVIOUS
<1> HIDE DEF i
<1>9. r.op \in KindsAt(First(r))
  BY <1>4, RequestFields DEF KindsAt, Creators, Editors
<1>10. Staged(i)
  BY <1>4, <1>5, <1>8, <1>9 DEF Staged, HasSent, Op
<1> QED BY <1>1, <1>2, <1>3, <1>4, <1>6, <1>7, <1>8, <1>10 DEF Op

LEMMA CallTyped ==
  ASSUME Typed, NEW r \in Requests, Call(r)
  PROVE  Typed'
<1>0. TypeOK /\ UNCHANGED <<doc, rev, keys, expiring, answers, reissued, born, disturbed>>
  BY DEF Call, Typed, redis
<1>1. PICK i \in Job :
        /\ jobs' = jobs \cup {i} /\ i.by = Len(asked) + 1 /\ i.to = i.by
        /\ i.req = r /\ Staged(i)
  BY CallIs
<1>2. over' \in SUBSET (Calls \X Calls) /\ listeners' \in SUBSET Calls
  BY <1>0, CallIs DEF Call, TypeOK, Job
<1>3. TypeOK'
  <2>1. MaxCalls \in Nat
    BY CallsAreIds
  <2> QED BY <1>0, <1>1, <1>2, <2>1, CallIs DEF TypeOK, Calls
<1>4. \A l \in jobs : l.by \in 1..Len(asked) /\ l.by <= Len(asked)
  BY JobIs
<1>9. \A k \in Calls : FromGithub(k) => FromGithub(k)'
  BY CallIs DEF FromGithub, Calls
<1>5. \A l \in jobs' : /\ Staged(l) /\ Addressed(l)' /\ l.by <= Len(asked')
                       /\ asked'[l.by] = l.req
  <2>1. \A l \in jobs : Addressed(l)'
    BY <1>9, JobIs DEF Addressed
  <2> QED BY <1>1, <1>4, <2>1, CallIs DEF Typed, CallsOK, Addressed
<1>6. \A h, l \in jobs' : h.by = l.by => h = l \/ (Several(h) /\ Several(l))
  <2>1. \A h \in jobs : h.by # i.by
    BY <1>1, <1>4, CallIs
  <2> QED BY <1>1, <2>1 DEF Typed, CallsOK
<1>7. ASSUME NEW l \in jobs', NEW k \in Calls, l.by < k, k <= Len(asked')
      PROVE  <<l.by, k>> \in over'
  <2>1. l \in jobs
    BY <1>1, <1>7, CallIs DEF Calls
  <2>2. CASE k <= Len(asked)
    BY <1>7, <2>1, <2>2, CallIs DEF Typed, CallsOK
  <2>3. CASE k = Len(asked) + 1
    BY <2>1, <2>3, CallIs
  <2> QED BY <1>7, <2>2, <2>3, CallIs DEF Calls
<1>8. \A k \in Calls : answers'[k] = "yes" => k <= Len(asked')
  BY <1>0, CallIs DEF Typed, CallsOK, Calls
<1>10. \A k \in listeners' : FromGithub(k)'
  <2>1. \A k \in listeners : FromGithub(k)'
    BY <1>0, <1>9 DEF Typed, CallsOK, TypeOK
  <2>2. \A k \in listeners' : k \in listeners \/ (k = Len(asked) + 1 /\ r.op = "github")
    BY DEF Call
  <2> QED BY <2>1, <2>2, CallIs DEF FromGithub
<1> QED BY <1>3, <1>5, <1>6, <1>7, <1>8, <1>10 DEF Typed, CallsOK

(* What else there is: keys that expire, and the end of the process.        *)
LEMMA OtherTyped ==
  ASSUME Typed, UNCHANGED vars \/ Crash \/ \E o \in Owners : KeysExpire(o)
  PROVE  /\ Typed' /\ UNCHANGED <<doc, rev, asked, answers, over, reissued, born>>
         /\ jobs' \subseteq jobs /\ (disturbed => disturbed')
<1>0. TypeOK /\ CallsOK
  BY DEF Typed
<1>1. CASE UNCHANGED vars
  BY <1>0, <1>1 DEF vars, TypeOK, CallsOK, Typed, Addressed, FromGithub
<1>2. CASE Crash
  <2>1. /\ UNCHANGED <<doc, rev, keys, expiring, asked, answers, over, reissued, born>>
        /\ disturbed' = TRUE /\ jobs' = {} /\ listeners' = {}
    BY <1>2 DEF Crash, redis, history
  <2>2. TypeOK'
    BY <1>0, <2>1 DEF TypeOK
  <2>3. CallsOK'
    BY <1>0, <2>1 DEF CallsOK
  <2> QED BY <2>1, <2>2, <2>3 DEF Typed
<1>3. ASSUME NEW o \in Owners, KeysExpire(o)
      PROVE  /\ Typed' /\ UNCHANGED <<doc, rev, asked, answers, over, reissued, born>>
             /\ jobs' \subseteq jobs /\ (disturbed => disturbed')
  <2>1. UNCHANGED <<doc, rev, jobs, asked, answers, over, reissued, born, disturbed,
                  listeners>>
    BY <1>3 DEF KeysExpire, history, life
  <2>2. keys' \in [Owners -> ApiKeys] /\ expiring' \in SUBSET Owners
    BY <1>0, <1>3 DEF KeysExpire, TypeOK, ApiKeys
  <2>3. TypeOK'
    BY <1>0, <2>1, <2>2 DEF TypeOK
  <2>4. CallsOK'
    BY <1>0, <2>1 DEF CallsOK, Addressed, FromGithub
  <2> QED BY <2>1, <2>3, <2>4 DEF Typed
<1> QED BY <1>1, <1>2, <1>3

(* The steps there are. *)
LEMMA Steps ==
  ASSUME [Next]_vars
  PROVE  \/ \E r \in Requests : Call(r)
         \/ \E j \in jobs : JobStep(j)
         \/ UNCHANGED vars \/ Crash \/ \E o \in Owners : KeysExpire(o)
BY DEF Next, JobStep

LEMMA TypedStep == ASSUME Typed, [Next]_vars PROVE Typed'
<1>1. ASSUME NEW j \in jobs, JobStep(j) PROVE Typed'
  BY <1>1, JobStepTyped, JobStepCalls DEF Typed
<1> QED BY <1>1, Steps, CallTyped, OtherTyped

LEMMA TypedInit == ASSUME Init PROVE Typed
<1>1. PICK k \in Known : doc = k.doc /\ keys = k.keys
  BY DEF Init
<1>2. doc \in [Owners -> Account \cup {None}] /\ keys \in [Owners -> ApiKeys]
  BY <1>1, AccountsAssumption
<1>3. TypeOK
  <2>1. asked \in Seq(Requests) /\ Len(asked) <= MaxCalls
    BY CallsAreIds DEF Init
  <2>2. rev \in [Owners -> Nat] /\ answers \in [Calls -> {"none", "yes", "no"}]
    BY DEF Init
  <2>3. disturbed \in BOOLEAN /\ doc \in [Owners -> Account \cup {None, Gone}]
    BY <1>2 DEF Init
  <2> QED BY <1>2, <2>1, <2>2, <2>3 DEF Init, TypeOK
<1>4. CallsOK
  BY DEF Init, CallsOK
<1> QED BY <1>3, <1>4 DEF Typed

LEMMA TypedHolds == Spec => []Typed
BY TypedInit, TypedStep, PTL DEF Spec

(* Every state of documents, keys and calls is well typed, for any owners,  *)
(* first documents, requests and bounds (owner.js, sources.js, gdpr.js).    *)
THEOREM AccountsTypeCorrect == Spec => []TypeOK
<1>1. Typed => TypeOK
  BY DEF Typed
<1> QED BY <1>1, TypedHolds, PTL
-----------------------------------------------------------------------------
(* What was saved stays. *)

LEMMA JobsOverlap ==
  ASSUME Typed, NEW j \in jobs, NEW k \in Calls, k <= Len(asked), k # j.by,
         k < j.by => \E i \in jobs : i.by = k
  PROVE  Pair(j.by, k) /\ Pair(k, j.by)
<1>1. j.by \in Nat /\ k \in Nat /\ j.by \in Calls /\ j.by <= Len(asked)
  BY JobIs DEF Calls
<1>2. CASE j.by < k
  BY <1>2 DEF Typed, CallsOK, Pair
<1>3. CASE k < j.by
  <2>1. PICK i \in jobs : i.by = k
    BY <1>3
  <2>2. <<k, j.by>> \in over
    BY <1>1, <1>3, <2>1 DEF Typed, CallsOK
  <2> QED BY <2>2 DEF Pair
<1> QED BY <1>1, <1>2, <1>3

LEMMA TwoOverlap ==
  ASSUME Typed, NEW i \in jobs, NEW j \in jobs, i.by # j.by
  PROVE  Pair(i.by, j.by)
BY JobIs, JobsOverlap

(* A document is there until it is destroyed.                               *)
LEMMA DocStays ==
  ASSUME Typed, NEW j \in jobs, JobStep(j), NEW o \in Owners, IsDoc(o)
  PROVE  (IsDoc(o)' \/ o \in born') /\ born \subseteq born'
<1>1. CASE Still
  BY <1>1 DEF Still, IsDoc
<1>2. CASE Edited(j)
  <2>1. PICK e \in Account : Write(j.owner, e)
    BY <1>2, EditedStores
  <2> QED BY <1>2, <2>1, EditedStores, WriteTyped, JobIs, NoneIsNone DEF IsDoc
<1>3. CASE Seen(j)
  BY <1>3, SeenStores DEF IsDoc
<1>4. CASE Inserted(j)
  BY <1>4, InsertedStores, WriteTyped, JobIs DEF IsDoc
<1>5. CASE Destroyed(j)
  BY <1>5, DestroyedStores, WriteTyped, JobIs DEF IsDoc
<1> QED BY <1>1, <1>2, <1>3, <1>4, <1>5, StepStores

LEMMA BornStays ==
  ASSUME Typed, NEW j \in jobs, JobStep(j)
  PROVE  born \subseteq born'
<1>1. CASE Still
  BY <1>1 DEF Still
<1> QED BY <1>1, StepStores, EditedStores, SeenStores, InsertedStores, DestroyedStores

LEMMA EditsStep ==
  ASSUME Typed, EditsOK, NEW j \in jobs, JobStep(j)
  PROVE  EditsOK'
<1> SUFFICES ASSUME NEW i \in jobs', i.at = "edit"
             PROVE  /\ Op(i, {"delete"}) \/ IsDoc(i.owner)' \/ i.owner \in born'
                    /\ rev'[i.owner] = i.rev \/ Overlapped(i.by)'
  BY DEF EditsOK, Op
<1>1. CASE i \in jobs \ {j}
  <2>1. i.owner \in Owners
    BY <1>1, JobIs, OwnerKnown
  <2>2. Op(i, {"delete"}) \/ IsDoc(i.owner)' \/ i.owner \in born'
    BY <1>1, <2>1, DocStays, BornStays DEF EditsOK
  <2>3. i.by # j.by
    BY <1>1 DEF Typed, CallsOK, Several, Twofold
  <2>4. Pair(i.by, j.by) /\ j.by \in Calls
    BY <1>1, <2>3, TwoOverlap, JobIs
  <2>5. Overlapped(i.by)'
    BY <2>4, StepStores DEF Overlapped, Pair
  <2> QED BY <2>2, <2>5
<1>2. CASE Onward(j, i)
  BY <1>2 DEF Onward, IsDoc
<1> QED BY <1>1, <1>2, StepContinues DEF Continues

(* A later or overlapping call about the same.                              *)
LEMMA OtherIsLater ==
  ASSUME Typed, NEW j \in jobs, NEW k \in Calls, k <= Len(asked), k # j.by
  PROVE  /\ \A ops : Op(j, ops) => ~Last(k, ops)
         /\ Pair(k, j.by) \/ j.by > k
         /\ j.by \in Calls /\ j.by <= Len(asked) /\ asked[j.by] = j.req
<1>1. j.by \in Nat /\ k \in Nat /\ j.by \in Calls /\ j.by \in 1..Len(asked)
      /\ asked[j.by] = j.req
  BY JobIs DEF Calls
<1>2. Pair(k, j.by) \/ j.by > k
  BY <1>1, JobsOverlap
<1>3. ASSUME NEW ops, Op(j, ops), Last(k, ops) PROVE FALSE
  BY <1>1, <1>2, <1>3 DEF Last, Op
<1> QED BY <1>1, <1>2, <1>3

Promised(k) == Done(k) /\ asked[k].op \in Promises

LEMMA PromisedIs ==
  ASSUME TypeOK, NEW k \in Calls, k <= Len(asked), asked[k].op \in Promises
  PROVE  /\ asked[k] \in Requests /\ asked[k].owner \in Owners
         /\ asked[k].op = "tag" => asked[k].id \in Ids
         /\ k \in Ids /\ k # None
<1>1. asked[k] \in Requests
  BY DEF TypeOK, Calls
<1>2. k \in Ids /\ k # None
  BY CallsAreIds, NoneIsNone
<1> QED BY <1>1, <1>2, RequestFields DEF Promises

(* An edit keeps what was saved before.                                     *)
LEMMA EditKeeps ==
  ASSUME Typed, NEW j \in jobs, Edited(j), NEW k \in Calls, k <= Len(asked),
         asked[k].op \in Promises, NEW d \in Account, NEW e \in Account,
         Edits(j, d, e), Does(j, e), Has(k, d)
  PROVE  Has(k, e)
<1> DEFINE r == asked[k]
<1>0. /\ r \in Requests /\ (r.op = "tag" => r.id \in Ids) /\ k \in Ids /\ k # None
      /\ Staged(j) /\ j.at = "edit" /\ asked[j.by] = j.req
  BY PromisedIs, JobIs DEF Edited, At
<1>1. CASE r.op = "add"
  <2>1. d.repos[k] # None
    BY <1>1 DEF Has
  <2>2. e.repos[k] # None
    BY <1>0, <2>1 DEF Edits
  <2> QED BY <1>1, <2>2 DEF Has
<1>2. CASE r.op = "tag"
  <2>1. CASE e.repos = d.repos
    BY <1>2, <2>1 DEF Has
  <2>2. CASE j.req.op \in Repos /\ j.by = k
    <3>1. j.sent.repos[r.id] = k
      BY <1>0, <1>2, <2>2 DEF Staged, HasSent, Carries, Op
    <3>2. e.repos[r.id] = k
      BY <1>0, <1>2, <2>2, <3>1 DEF Does
    <3> QED BY <1>2, <3>2 DEF Has
  <2>3. CASE j.req.op \in Repos /\ j.by # k
    <3>1. ~Last(k, {"tag", "add", "remove"})
      BY <2>3, OtherIsLater DEF Op, Repos
    <3> QED BY <1>2, <3>1 DEF Has
  <2> QED BY <2>1, <2>2, <2>3 DEF Edits
<1>3. CASE r.op \in {"mesh", "unmesh"}
  <2>1. CASE e.meshes = d.meshes
    BY <1>3, <2>1 DEF Has
  <2>2. CASE j.req.op \in {"mesh", "unmesh"} /\ j.by = k
    <3>1. /\ r.op = "mesh" => r.mesh \in e.meshes
          /\ r.op = "unmesh" => r.mesh \notin e.meshes
      BY <1>0, <2>2 DEF Staged, HasSent, Carries, Op, Does
    <3> QED BY <1>3, <3>1 DEF Has
  <2>3. CASE j.req.op \in {"mesh", "unmesh"} /\ j.by # k
    <3>1. ~Last(k, {"mesh", "unmesh"})
      BY <2>3, OtherIsLater DEF Op
    <3> QED BY <1>3, <3>1 DEF Has
  <2> QED BY <2>1, <2>2, <2>3 DEF Edits
<1>4. CASE r.op = "update"
  <2>1. CASE e.consent = d.consent
    BY <1>4, <2>1 DEF Has
  <2>2. CASE j.req.op = "update" /\ j.by = k
    BY <1>0, <1>4, <2>2 DEF Has, Does
  <2>3. CASE j.req.op = "update" /\ j.by # k
    BY <1>4, <2>3, OtherIsLater DEF Has
  <2> QED BY <2>1, <2>2, <2>3 DEF Edits
<1>5. CASE r.op = "delete"
  BY <1>5 DEF Has, Edits
<1> QED BY <1>1, <1>2, <1>3, <1>4, <1>5 DEF Promises

(* An edit saves what it is for. *)
LEMMA EditSaves ==
  ASSUME Typed, NEW j \in jobs, Edited(j), j.req.op \in Promises, NEW e, Does(j, e)
  PROVE  Has(j.by, e)
<1>0. /\ j.by \in Ids /\ j.by # None /\ Staged(j) /\ j.at = "edit"
      /\ j.req \in Requests /\ (j.req.op = "tag" => j.req.id \in Ids)
      /\ asked[j.by] = j.req
  BY JobIs, CallsAreIds, NoneIsNone, RequestFields DEF Edited, At
<1>1. CASE j.req.op \in {"add", "tag"}
  <2>1. /\ j.req.op = "add" => j.sent.repos[j.by] = j.by
        /\ j.req.op = "tag" => j.sent.repos[j.req.id] = j.by
    BY <1>0, <1>1 DEF Staged, HasSent, Carries, Op
  <2>2. /\ j.req.op = "add" => e.repos[j.by] = j.by
        /\ j.req.op = "tag" => e.repos[j.req.id] = j.by
    BY <1>0, <1>1, <2>1 DEF Does, Repos
  <2> QED BY <1>0, <1>1, <2>2 DEF Has
<1>2. CASE j.req.op \in {"mesh", "unmesh"}
  BY <1>0, <1>2 DEF Has, Does, Staged, HasSent, Carries, Op
<1>3. CASE j.req.op \in {"update", "delete"}
  BY <1>0, <1>3 DEF Has, Does
<1> QED BY <1>1, <1>2, <1>3 DEF Promises

(* What the call k was answered as saved is there, or no longer asked for.  *)
Saved(k) ==
  \/ asked[k].owner \in born
  \/ IsDoc(asked[k].owner) /\ Has(k, doc[asked[k].owner])

LEMMA SavedIs ==
  SavedStays <=> \A k \in Calls : Promised(k) => Saved(k)
BY DEF SavedStays, Promised, Promises, Saved

(* A step of another kind, or an edit of another document, changes nothing. *)
LEMMA SameSaved ==
  ASSUME NEW k \in Calls, asked' = asked, over' = over, disturbed => disturbed',
         born \subseteq born',
         asked[k].owner \in born' \/ doc'[asked[k].owner] = doc[asked[k].owner],
         Saved(k)
  PROVE  Saved(k)'
BY DEF Saved, IsDoc, Has, Last, Pair

LEMMA HasSame ==
  ASSUME NEW k \in Calls, asked' = asked, over' = over, disturbed => disturbed',
         NEW d, Has(k, d)
  PROVE  Has(k, d)'
BY DEF Has, Last, Pair

LEMMA SavedStep ==
  ASSUME Typed, SavedInv, NEW j \in jobs, JobStep(j)
  PROVE  SavedStays'
<1> SUFFICES ASSUME NEW k \in Calls, Promised(k)' PROVE Saved(k)'
  BY SavedIs DEF SavedStays, Promised, Promises, Saved
<1>0. PICK o : o = asked[k].owner
  OBVIOUS
<1>1. /\ asked' = asked /\ over' = over /\ (disturbed => disturbed')
      /\ born \subseteq born' /\ k <= Len(asked) /\ asked[k].op \in Promises
  BY StepStores, LifeTyped, BornStays DEF Promised, Done
<1>2. Promised(k) \/ (k = j.by /\ YesTo(j))
  BY <1>1, StepSays DEF Says, Promised, Done, FromGithub, Promises
<1>3. o \in Owners
  BY <1>0, <1>1, JobIs, PromisedIs
<1>4. ASSUME NEW e \in Account, Write(j.owner, e), o = j.owner, Has(k, e)
      PROVE  Saved(k)'
  <2>1. doc'[o] = e /\ Has(k, e)'
    BY <1>1, <1>3, <1>4, WriteTyped, JobIs, HasSame
  <2>2. asked'[k].owner = o /\ IsDoc(o)'
    BY <1>0, <1>1, <2>1, NoneIsNone DEF IsDoc
  <2> QED BY <2>1, <2>2 DEF Saved
<1>5. CASE Promised(k)
  <2>1. Saved(k)
    BY <1>5, SavedIs DEF SavedInv
  <2>2. CASE o \in born' \/ doc'[o] = doc[o]
    BY <1>0, <1>1, <2>1, <2>2, SameSaved
  <2>3. CASE Edited(j) /\ o \notin born'
    <3>1. PICK e \in Account : Edits(j, doc[j.owner], e) /\ Does(j, e) /\ Write(j.owner, e)
      BY <2>3, EditedStores
    <3>2. CASE o # j.owner
      BY <1>3, <2>2, <2>3, <3>1, <3>2, WriteTyped, EditedStores, JobIs
    <3>3. CASE o = j.owner
      <4>1. IsDoc(o) /\ Has(k, doc[o]) /\ doc[o] \in Account
        BY <1>0, <1>1, <1>3, <2>1, <2>3, DocTyped, JobIs DEF Saved
      <4>2. Has(k, e)
        BY <1>1, <2>3, <3>1, <3>3, <4>1, EditKeeps
      <4> QED BY <1>4, <3>1, <3>3, <4>2
    <3> QED BY <3>2, <3>3
  <2>4. Still \/ Seen(j) \/ Inserted(j) \/ Destroyed(j) => o \in born' \/ doc'[o] = doc[o]
    BY <1>3, SeenStores, InsertedStores, DestroyedStores, WriteTyped, JobIs DEF Still
  <2> QED BY <2>2, <2>3, <2>4, StepStores
<1>6. CASE k = j.by /\ YesTo(j)
  <2>1. asked[k] = j.req /\ Staged(j) /\ j.req.op \in Promises
    BY <1>1, <1>6, JobIs
  <2>2. o = j.owner
    BY <1>0, <2>1 DEF Staged, Op, Promises
  <2>3. CASE Edited(j)
    BY <1>4, <1>6, <2>1, <2>2, <2>3, EditedStores, EditSaves
  <2>4. CASE /\ Op(j, {"update"}) /\ j.at = "edit" /\ Still
             /\ disturbed' \/ ~IsDoc(j.owner) \/ Overtaken(j)
    <3>1. IsDoc(o) \/ o \in born
      BY <2>2, <2>4 DEF SavedInv, EditsOK, Op
    <3>2. Overlapped(k) \/ disturbed' \/ o \in born
      BY <1>6, <2>2, <2>4, <3>1 DEF SavedInv, EditsOK, Overtaken
    <3>3. asked[k].op = "update"
      BY <2>1, <2>4 DEF Op
    <3> QED BY <1>0, <1>1, <2>4, <3>1, <3>2, <3>3
            DEF Saved, Has, Still, IsDoc, Overlapped, Pair
  <2> QED BY <1>6, <2>1, <2>3, <2>4 DEF YesTo, Op, Promises
<1> QED BY <1>2, <1>5, <1>6

(* A new call changes nothing that was saved.                               *)
LEMMA CallSaved ==
  ASSUME Typed, SavedInv, NEW r \in Requests, Call(r)
  PROVE  SavedInv'
<1>1. UNCHANGED <<doc, rev, answers, born, disturbed>> /\ over \subseteq over'
  BY CallIs DEF Call
<1>2. EditsOK'
  <2>1. PICK i \in Job :
          jobs' = jobs \cup {i} /\ (i.at = "edit" => Op(i, {"delete"}) /\ i.rev = rev[i.owner])
    BY CallIs
  <2> QED BY <1>1, <2>1 DEF SavedInv, EditsOK, IsDoc, Op, Overlapped, Pair
<1>3. ASSUME NEW k \in Calls, Promised(k)'
      PROVE  Saved(k)'
  <2>1. k <= Len(asked) /\ k \in 1..Len(asked)
    BY <1>1, <1>3, CallIs DEF Promised, Done, Typed, CallsOK
  <2>2. asked'[k] = asked[k] /\ Promised(k) /\ Saved(k)
    BY <1>1, <1>3, <2>1, CallIs, SavedIs DEF Promised, Done, SavedInv
  <2>3. \A ops : ~Last(k, ops) => ~Last(k, ops)'
    BY <1>1, CallIs DEF Last, Pair
  <2>4. ASSUME NEW d, Has(k, d) PROVE Has(k, d)'
    <3>1. asked[k].op \in Promises
      BY <2>2 DEF Promised
    <3>2. CASE asked[k].op = "update"
      <4>1. \A m \in Calls : Pair(k, m) => Pair(k, m)'
        BY <1>1 DEF Pair
      <4>2. \A m \in Calls : m <= Len(asked) => m <= Len(asked') /\ asked'[m] = asked[m]
        BY CallIs DEF Calls
      <4>3. \/ d.consent = asked[k].value \/ disturbed
            \/ \E m \in Calls :
                 Pair(k, m) \/ (m > k /\ m <= Len(asked) /\ asked[m].op = "update")
        BY <2>4, <3>2 DEF Has
      <4>4. disturbed => disturbed'
        BY <1>1
      <4> QED BY <2>2, <3>2, <4>1, <4>2, <4>3, <4>4 DEF Has
    <3>3. CASE asked[k].op # "update"
      BY <1>1, <2>2, <2>3, <2>4, <3>3 DEF Has
    <3> QED BY <3>2, <3>3
  <2> QED BY <1>1, <2>2, <2>4 DEF Saved, IsDoc
<1> QED BY <1>2, <1>3, SavedIs DEF SavedInv, SavedStays, Promised, Promises, Saved

LEMMA OtherSaved ==
  ASSUME Typed, SavedInv, UNCHANGED vars \/ Crash \/ \E o \in Owners : KeysExpire(o)
  PROVE  SavedInv'
<1>1. /\ UNCHANGED <<doc, rev, asked, answers, over, born>> /\ jobs' \subseteq jobs
      /\ (disturbed => disturbed')
  BY OtherTyped
<1>2. EditsOK'
  BY <1>1 DEF SavedInv, EditsOK, IsDoc, Overlapped, Pair
<1>3. ASSUME NEW k \in Calls, Promised(k)'
      PROVE  Saved(k)'
  <2>1. Saved(k)
    BY <1>1, <1>3, SavedIs DEF Promised, Done, SavedInv
  <2> QED BY <1>1, <2>1, SameSaved
<1> QED BY <1>2, <1>3 DEF SavedInv, SavedStays, Promised, Promises, Saved

LEMMA SavedHolds == Spec => []SavedInv
<1>1. Init => SavedInv
  <2> SUFFICES ASSUME Init PROVE SavedInv
    OBVIOUS
  <2>1. \A k \in Calls : ~Done(k)
    BY DEF Init, Done
  <2> QED BY <2>1 DEF Init, SavedInv, EditsOK, SavedStays
<1>2. Typed /\ SavedInv /\ [Next]_vars => SavedInv'
  <2>1. ASSUME Typed, SavedInv, NEW j \in jobs, JobStep(j) PROVE SavedInv'
    BY <2>1, EditsStep, SavedStep DEF SavedInv
  <2> QED BY <2>1, Steps, CallSaved, OtherSaved
<1> QED BY <1>1, <1>2, TypedHolds, PTL DEF Spec

(* What was answered as saved stays in the document, a source even when     *)
(* another call writes back the map it had read before (owner.js:483,       *)
(* sources.js:65-100).                                                      *)
THEOREM WhatIsSavedStays == Spec => []SavedStays
<1>1. SavedInv => SavedStays
  BY DEF SavedInv
<1> QED BY <1>1, SavedHolds, PTL
-----------------------------------------------------------------------------
(* A key sets one password. *)

LEMMA AskedStays ==
  ASSUME Typed, [Next]_vars, NEW k \in 1..Len(asked)
  PROVE  asked'[k] = asked[k] /\ k \in 1..Len(asked')
<1>1. ASSUME NEW r \in Requests, Call(r) PROVE asked'[k] = asked[k] /\ k \in 1..Len(asked')
  BY <1>1, CallIs
<1>2. ASSUME NEW j \in jobs, JobStep(j) PROVE asked' = asked
  BY <1>2, StepStores
<1> QED BY <1>1, <1>2, OtherTyped, Steps

(* A key that is stored stays so: no other call can store it.               *)
LEMMA StoredStays ==
  ASSUME Typed, [Next]_vars, NEW key \in 1..Len(asked), StoredBy(key)
  PROVE  StoredBy(key)'
<1>1. ASSUME NEW r \in Requests, Call(r) PROVE StoredBy(key)'
  <2>1. PICK i \in Job : jobs' = jobs \cup {i} /\ i.by = Len(asked) + 1
    BY <1>1, CallIs
  <2>2. i.by # key /\ reissued' = reissued
    BY <1>1, <2>1, CallIs DEF Call
  <2> QED BY <2>1, <2>2 DEF StoredBy
<1>2. ASSUME NEW j \in jobs, JobStep(j) PROVE StoredBy(key)'
  BY <1>2, StepContinues, ReissuedTyped DEF Continues, Onward, StoredBy
<1> QED BY <1>1, <1>2, OtherTyped, Steps DEF StoredBy

LEMMA GivenStays ==
  ASSUME Typed, [Next]_vars, NEW o, NEW via, NEW key \in Ids, GivenTo(o, via, key)
  PROVE  GivenTo(o, via, key)'
<1>1. CASE key = 0
  BY <1>1 DEF GivenTo
<1>2. CASE key # 0
  <2>1. key \in 1..Len(asked)
    BY <1>2, CallsAreIds DEF GivenTo, Ids, Typed, TypeOK
  <2> QED BY <1>2, <2>1, AskedStays, StoredStays DEF GivenTo
<1> QED BY <1>1, <1>2

(* Who holds a key held it, or was given it by the step.                    *)
Mails(j) == jobs' = (jobs \ {j}) \cup Next1(j, "mail")
Gives(j, o, via, key) ==
  /\ o = j.owner /\ Mails(j)
  /\ \/ j.at = "edit" /\ Op(j, {"forgot"}) /\ via = "reset" /\ key = j.sent.reset
     \/ j.at = "insert" /\ Mail(j) /\ via = "activation" /\ key = j.by

LEMMA HeldBefore ==
  ASSUME Typed, NEW j \in jobs, JobStep(j), NEW o \in Owners, NEW via \in Vias,
         NEW key \in Ids, Holds(o, via, key)'
  PROVE  Holds(o, via, key) \/ Gives(j, o, via, key)
<1>0. key # None
  BY NoneIsNone
<1>1. CASE doc'[o] = doc[o]
  BY <1>1 DEF Holds, IsDoc
<1>2. CASE Edited(j) /\ o = j.owner
  <2>1. PICK e \in Account : Edits(j, doc[j.owner], e) /\ Write(j.owner, e)
    BY <1>2, EditedStores
  <2>2. doc'[o] = e /\ IsDoc(o) /\ j.at = "edit"
    BY <1>2, <2>1, EditedStores, WriteTyped, JobIs
  <2>3. KeyOf(e, via) = key
    BY <2>2 DEF Holds
  <2>4. CASE KeyOf(e, via) = KeyOf(doc[o], via)
    BY <2>2, <2>3, <2>4 DEF Holds
  <2>5. CASE KeyOf(e, via) # KeyOf(doc[o], via)
    <3>1. Op(j, {"forgot"}) /\ via = "reset" /\ key = j.sent.reset
      BY <1>0, <1>2, <2>1, <2>3, <2>5 DEF Edits, KeyOf, Vias, Op
    <3> QED BY <1>2, <2>2, <3>1 DEF Edited, Goto, Gives, Mails
  <2> QED BY <2>4, <2>5
<1>3. CASE Inserted(j) /\ o = j.owner /\ doc'[o] # doc[o]
  <2>1. doc'[o] = NewAccount(j) /\ j.at = "insert"
    BY <1>3, InsertedStores, WriteTyped, JobIs
  <2>2. KeyOf(NewAccount(j), via) = key
    BY <2>1 DEF Holds
  <2>3. via = "activation" /\ Mail(j) /\ key = j.by
    BY <1>0, <1>3, <2>2, JobIs, InsertedStores, NewAccountIs DEF KeyOf, Vias
  <2>4. Mails(j)
    BY <1>3, <2>3 DEF Inserted, Goto, Mails
  <2> QED BY <1>3, <2>1, <2>3, <2>4 DEF Gives
<1>4. CASE Destroyed(j) /\ o = j.owner
  BY <1>1, <1>4, DestroyedStores, WriteTyped, JobIs DEF Holds, IsDoc
<1>5. CASE o # j.owner
  BY <1>1, <1>5, StepStores, EditedStores, SeenStores, InsertedStores, DestroyedStores,
     WriteTyped, JobIs DEF Still
<1>6. Still \/ Seen(j) => doc' = doc
  BY SeenStores DEF Still
<1> QED BY <1>1, <1>2, <1>3, <1>4, <1>5, <1>6, StepStores

(* A key that a step gives is the call's own, or was made twice.            *)
LEMMA GivesOwn ==
  ASSUME Typed, ForgotKeys, NEW j \in jobs, JobStep(j), NEW o, NEW via, NEW key,
         Gives(j, o, via, key)
  PROVE  /\ key # 0 /\ GivenTo(o, via, key)'
         /\ key \in reissued \/ (key = j.by /\ j.at # "mail")
<1>1. /\ key \in 1..Len(asked) /\ asked[key].op \in Makers(via) /\ asked[key].owner = o
      /\ key \in reissued \/ (key = j.by /\ j.at # "mail")
  <2>1. CASE key = j.by
    BY <2>1, JobIs DEF Gives, Mail, Op, Makers, Staged
  <2>2. CASE key # j.by
    <3>1. /\ j.at = "edit" /\ Op(j, {"forgot"}) /\ via = "reset" /\ key = j.sent.reset
          /\ o = j.owner
      BY <2>2 DEF Gives
    <3>2. key \in reissued /\ key \in 1..(j.by - 1) /\ asked[key] = j.req
      BY <2>2, <3>1 DEF ForgotKeys
    <3>3. key \in 1..Len(asked)
      BY <3>2, JobIs DEF TypeOK
    <3> QED BY <3>1, <3>2, <3>3, JobIs DEF Makers, Op, Staged
  <2> QED BY <2>1, <2>2
<1>2. \A i \in jobs' : i.by = j.by => i.at = "mail"
  <2>1. \A i \in jobs \ {j} : i.by # j.by
    BY DEF Typed, CallsOK, Gives, Several, Twofold
  <2>2. \A i \in Next1(j, "mail") : i.at = "mail"
    BY Next1Is, JobIs DEF Stage, Writes
  <2> QED BY <2>1, <2>2 DEF Gives, Mails
<1>3. StoredBy(key)'
  BY <1>1, <1>2, ReissuedTyped DEF StoredBy
<1> QED BY <1>1, <1>3, StepStores DEF GivenTo

(* What the call k, that sets a password, asks for. *)
LEMMA SetKnown ==
  ASSUME TypeOK, NEW k \in 1..Len(asked), asked[k].op = "set"
  PROVE  asked[k].via \in Vias /\ asked[k].key \in Ids
<1>1. asked[k] \in Requests
  BY DEF TypeOK
<1> QED BY <1>1, RequestFields

LEMMA HeldStep ==
  ASSUME Typed, KeysInv, NEW j \in jobs, JobStep(j)
  PROVE  HeldIsGiven' /\ FirstHeldOnce'
<1>0. [Next]_vars
  BY DEF JobStep, Next
<1>1. ASSUME NEW o \in Owners, NEW via \in Vias, NEW key \in Ids, Holds(o, via, key)'
      PROVE  GivenTo(o, via, key)' /\ (key = 0 => Holds(o, via, key))
  <2>1. CASE Holds(o, via, key)
    BY <1>0, <2>1, GivenStays DEF KeysInv, HeldIsGiven
  <2>2. CASE Gives(j, o, via, key)
    BY <2>2, GivesOwn DEF KeysInv
  <2> QED BY <1>1, <2>1, <2>2, HeldBefore
<1>2. HeldIsGiven'
  BY <1>1 DEF HeldIsGiven
<1>3. FirstHeldOnce'
  BY <1>1, CallsAreIds DEF FirstHeldOnce, KeysInv
<1> QED BY <1>2, <1>3

LEMMA ForgotStep ==
  ASSUME Typed, KeysInv, NEW j \in jobs, JobStep(j)
  PROVE  ForgotKeys'
<1> SUFFICES ASSUME NEW i \in jobs', Op(i, {"forgot"}), i.at \in {"get", "edit"}
             PROVE  NewKey(i)
  BY StepStores DEF ForgotKeys, NewKey, Op
<1>1. CASE i \in jobs \ {j}
  BY <1>1, ReissuedTyped DEF KeysInv, ForgotKeys, NewKey
<1>2. CASE Onward(j, i)
  <2>1. CASE j.at = "get" /\ i.sent = j.sent
    BY <1>2, <2>1, ReissuedTyped DEF KeysInv, ForgotKeys, NewKey, Onward, Op
  <2> QED BY <1>2, <2>1 DEF Onward
<1> QED BY <1>1, <1>2, StepContinues DEF Continues

(* Who is about to set a password has found itself to hold the key.         *)
LEMMA SettersStep ==
  ASSUME Typed, KeysInv, NEW j \in jobs, JobStep(j)
  PROVE  SettersHold'
<1> SUFFICES ASSUME NEW i \in jobs', Op(i, {"set"}), i.at = "edit"
             PROVE  /\ GivenTo(i.owner, i.req.via, i.req.key)'
                    /\ \A o \in Owners :
                         Holds(o, i.req.via, 0)' /\ i.req.key = 0 => o = i.owner
  BY DEF SettersHold, Op
<1>0. [Next]_vars
  BY DEF JobStep, Next
<1>1. i \in Job /\ i.req \in Requests /\ Staged(i)
  BY StepContinues, JobIs DEF Continues, Onward, Job
<1>2. i.req.via \in Vias /\ i.req.key \in Ids /\ i.owner \in Owners
  BY <1>1, RequestFields, OwnerKnown DEF Op
<1>3. /\ GivenTo(i.owner, i.req.via, i.req.key)
      /\ \A o \in Owners : Holds(o, i.req.via, 0) /\ i.req.key = 0 => o = i.owner
  <2>1. CASE i \in jobs \ {j}
    BY <2>1 DEF KeysInv, SettersHold
  <2>2. CASE Onward(j, i)
    <3>1. Holds(i.owner, i.req.via, i.req.key)
      BY <2>2 DEF Onward
    <3> QED BY <1>2, <3>1 DEF KeysInv, HeldIsGiven, FirstHeldOnce
  <2> QED BY <2>1, <2>2, StepContinues DEF Continues
<1>4. GivenTo(i.owner, i.req.via, i.req.key)'
  <2>1. PICK o, via, key : o = i.owner /\ via = i.req.via /\ key = i.req.key
    OBVIOUS
  <2>2. GivenTo(o, via, key)'
    BY <1>0, <1>2, <1>3, <2>1, GivenStays
  <2> QED BY <2>1, <2>2
<1>5. ASSUME NEW o \in Owners, Holds(o, i.req.via, 0)'
      PROVE  Holds(o, i.req.via, 0)
  BY <1>2, <1>5, CallsAreIds, HeldBefore, GivesOwn DEF KeysInv
<1> QED BY <1>3, <1>4, <1>5

(* The password that a step sets is one call's only.                        *)
LEMMA NewlySet ==
  ASSUME Typed, NEW j \in jobs, JobStep(j), ~disturbed', NEW k \in Calls, Done(k)',
         asked[k].op = "set"
  PROVE  Done(k) \/ (k = j.by /\ Edited(j) /\ Op(j, {"set"}) /\ asked[k] = j.req)
<1>1. k \in 1..Len(asked) /\ (answers[k] = "yes" \/ (k = j.by /\ YesTo(j)))
  BY StepStores, StepSays DEF Done, Says, FromGithub
<1>2. CASE k = j.by /\ YesTo(j)
  BY <1>2, JobIs DEF YesTo, Op
<1> QED BY <1>1, <1>2 DEF Done

LEMMA SpentStays ==
  ASSUME Typed, KeysInv, NEW j \in jobs, JobStep(j), NEW k \in 1..Len(asked),
         asked[k].op = "set", asked[k].key \notin reissued', Spent(k)
  PROVE  Spent(k)'
<1>0. [Next]_vars /\ asked' = asked /\ over' = over
  BY StepStores DEF JobStep, Next
<1>1. PICK via, key : via = asked[k].via /\ key = asked[k].key
  OBVIOUS
<1>2. via \in Vias /\ key \in Ids /\ key \notin reissued
  BY <1>1, SetKnown, ReissuedTyped, JobIs
<1>3. PICK p \in Owners : GivenTo(p, via, key)
  BY <1>1 DEF Spent
<1>4. GivenTo(p, via, key)'
  BY <1>0, <1>2, <1>3, GivenStays
<1>5. ASSUME NEW o \in Owners, Holds(o, via, key)' PROVE FALSE
  <2>1. Gives(j, o, via, key)
    BY <1>1, <1>2, <1>5, HeldBefore DEF Spent
  <2>2. key = j.by /\ j.at # "mail" /\ key # 0
    BY <1>2, <2>1, GivesOwn DEF KeysInv
  <2> QED BY <1>2, <1>3, <2>2 DEF GivenTo, StoredBy
<1>6. ASSUME NEW i \in jobs', i.at = "edit", i.req = asked[k], i.by # k
      PROVE  Pair(k, i.by)
  <2>1. CASE Onward(j, i)
    <3>1. Holds(i.owner, i.req.via, i.req.key) /\ i.owner \in Owners
      BY <1>6, <2>1, OwnerKnown DEF Onward, Op
    <3> QED BY <1>6, <3>1 DEF Spent
  <2>2. CASE i \in jobs \ {j}
    BY <1>6, <2>2 DEF Spent
  <2> QED BY <2>1, <2>2, StepContinues DEF Continues
<1> QED BY <1>0, <1>1, <1>4, <1>5, <1>6 DEF Spent, Pair

(* Who sets a password takes the key away from the only holder.             *)
LEMMA SpentNow ==
  ASSUME Typed, KeysInv, NEW j \in jobs, JobStep(j), Edited(j), Op(j, {"set"}),
         NEW k, k = j.by, asked[k] = j.req
  PROVE  Spent(k)'
<1>0. [Next]_vars /\ asked' = asked /\ over' = over
  BY StepStores DEF JobStep, Next
<1>1. PICK via, key : via = asked[k].via /\ key = asked[k].key
  OBVIOUS
<1>2. via \in Vias /\ key \in Ids /\ key # None
  BY <1>1, RequestFields, JobIs, NoneIsNone DEF Op
<1>3. j.at = "edit" /\ j.owner \in Owners
  BY EditedStores
<1>4. GivenTo(j.owner, via, key)
  BY <1>1, <1>3 DEF KeysInv, SettersHold
<1>5. PICK p \in Owners : p = j.owner /\ GivenTo(p, via, key)'
  <2>1. PICK p \in Owners : p = j.owner /\ GivenTo(p, via, key)
    BY <1>3, <1>4
  <2>2. GivenTo(p, via, key)'
    BY <1>0, <1>2, <2>1, GivenStays
  <2> QED BY <2>1, <2>2
<1>6. ASSUME NEW o \in Owners, Holds(o, via, key)' PROVE FALSE
  <2>1. Holds(o, via, key)
    BY <1>2, <1>3, <1>6, HeldBefore DEF Gives, Op
  <2>2. o = j.owner
    <3>1. CASE key = 0
      BY <1>1, <1>3, <2>1, <3>1 DEF KeysInv, SettersHold
    <3>2. CASE key # 0
      BY <1>2, <1>4, <2>1, <3>2 DEF KeysInv, HeldIsGiven, GivenTo
    <3> QED BY <3>1, <3>2
  <2>3. PICK e \in Account : Does(j, e) /\ Write(j.owner, e)
    BY EditedStores
  <2>4. doc'[o] = e
    BY <1>3, <2>2, <2>3, WriteTyped, JobIs
  <2>5. KeyOf(e, via) = None
    BY <1>1, <2>3 DEF Does, Op
  <2> QED BY <1>2, <1>6, <2>4, <2>5 DEF Holds
<1>7. ASSUME NEW i \in jobs', i.at = "edit", i.by # k
      PROVE  Pair(k, i.by)
  <2>1. i \in jobs
    BY <1>7, StepContinues DEF Continues, Onward
  <2> QED BY <1>7, <2>1, TwoOverlap
<1> QED BY <1>0, <1>1, <1>5, <1>6, <1>7 DEF Spent, Pair

LEMMA UsedStep ==
  ASSUME Typed, KeysInv, NEW j \in jobs, JobStep(j)
  PROVE  UsedIsSpent'
<1> SUFFICES ASSUME ~disturbed', NEW k \in Calls, Done(k)', asked'[k].op = "set",
                    asked'[k].key \notin reissued'
             PROVE  Spent(k)'
  BY DEF UsedIsSpent
<1>1. asked' = asked /\ ~disturbed /\ k \in 1..Len(asked) /\ asked[k].key \notin reissued
  BY StepStores, LifeTyped, ReissuedTyped DEF Done
<1>2. CASE Done(k)
  BY <1>1, <1>2, SpentStays DEF KeysInv, UsedIsSpent
<1>3. CASE ~Done(k)
  BY <1>1, <1>3, NewlySet, SpentNow
<1> QED BY <1>2, <1>3

LEMMA OnceStep ==
  ASSUME Typed, KeysInv, NEW j \in jobs, JobStep(j)
  PROVE  KeyUsedOnce'
<1> SUFFICES ASSUME NEW k \in Calls, NEW m \in Calls, k < m, Done(k)', Done(m)',
                    asked'[k] = asked'[m], asked'[k].op = "set", ~disturbed',
                    asked'[k].key \notin reissued'
             PROVE  Pair(k, m)'
  BY DEF KeyUsedOnce
<1>1. asked' = asked /\ over' = over /\ ~disturbed /\ asked[k].key \notin reissued
  BY StepStores, LifeTyped, ReissuedTyped
<1>2. ASSUME NEW a \in Calls, NEW b \in Calls, asked[a] = asked[b], a # b, Done(a),
             asked[a].op = "set", asked[a].key \notin reissued,
             b = j.by /\ Edited(j) /\ asked[b] = j.req
      PROVE  Pair(a, b)
  BY <1>1, <1>2, EditedStores DEF KeysInv, UsedIsSpent, Spent
<1>3. /\ Done(k) \/ (k = j.by /\ Edited(j) /\ asked[k] = j.req)
      /\ Done(m) \/ (m = j.by /\ Edited(j) /\ asked[m] = j.req)
  BY <1>1, NewlySet
<1>4. k # m
  BY DEF Calls
<1>5. Pair(k, m)
  <2>1. CASE Done(k) /\ Done(m)
    BY <1>1, <2>1 DEF KeysInv, KeyUsedOnce
  <2>2. CASE Done(k) /\ m = j.by /\ Edited(j) /\ asked[m] = j.req
    BY <1>1, <1>2, <1>4, <2>2
  <2>3. CASE Done(m) /\ k = j.by /\ Edited(j) /\ asked[k] = j.req
    BY <1>1, <1>2, <1>4, <2>3 DEF Pair
  <2> QED BY <1>3, <1>4, <2>1, <2>2, <2>3
<1> QED BY <1>1, <1>5 DEF Pair

LEMMA CallKeys ==
  ASSUME Typed, KeysInv, NEW r \in Requests, Call(r)
  PROVE  KeysInv'
<1>0. [Next]_vars
  BY DEF Next
<1>1. /\ UNCHANGED <<doc, answers, reissued, disturbed>> /\ over \subseteq over'
      /\ Len(asked) \in Nat
  BY CallIs DEF Call
<1>2. PICK i \in Job :
        /\ jobs' = jobs \cup {i} /\ i.by = Len(asked) + 1 /\ i.req = r
        /\ i.at = "get" => ~Op(i, {"forgot"})
        /\ i.at = "edit" => Op(i, {"delete"})
  BY CallIs
<1>3. \A o \in Owners, via \in Vias, key \in Ids : Holds(o, via, key)' <=> Holds(o, via, key)
  BY <1>1 DEF Holds, IsDoc
<1>4. HeldIsGiven' /\ FirstHeldOnce'
  BY <1>0, <1>3, CallsAreIds, GivenStays DEF KeysInv, HeldIsGiven, FirstHeldOnce
<1>5. ForgotKeys'
  <2> SUFFICES ASSUME NEW l \in jobs', Op(l, {"forgot"}), l.at \in {"get", "edit"},
                      l.sent.reset # l.by
               PROVE  /\ l.sent.reset \in reissued /\ l.sent.reset \in 1..(l.by - 1)
                      /\ asked'[l.sent.reset] = l.req
    BY <1>1 DEF ForgotKeys, Op
  <2>1. l \in jobs
    BY <1>2 DEF Op
  <2>2. /\ l.sent.reset \in reissued /\ l.sent.reset \in 1..(l.by - 1)
        /\ asked[l.sent.reset] = l.req
    BY <2>1 DEF KeysInv, ForgotKeys
  <2>3. l.sent.reset \in 1..Len(asked)
    BY <1>1, <2>1, <2>2, JobIs
  <2> QED BY <1>0, <2>2, <2>3, AskedStays
<1>6. SettersHold'
  <2> SUFFICES ASSUME NEW l \in jobs', Op(l, {"set"}), l.at = "edit"
               PROVE  /\ GivenTo(l.owner, l.req.via, l.req.key)'
                      /\ \A o \in Owners :
                           Holds(o, l.req.via, 0)' /\ l.req.key = 0 => o = l.owner
    BY DEF SettersHold, Op
  <2>1. l \in jobs
    BY <1>2 DEF Op
  <2>2. PICK p, via, key : p = l.owner /\ via = l.req.via /\ key = l.req.key
    OBVIOUS
  <2>3. via \in Vias /\ key \in Ids
    BY <2>1, <2>2, RequestFields, JobIs DEF Op
  <2>4. GivenTo(p, via, key)'
    BY <1>0, <2>1, <2>2, <2>3, GivenStays DEF KeysInv, SettersHold
  <2>5. \A o \in Owners : Holds(o, via, 0)' => Holds(o, via, 0)
    BY <1>3, <2>3, CallsAreIds
  <2> QED BY <2>1, <2>2, <2>4, <2>5 DEF KeysInv, SettersHold
<1>7. ASSUME NEW k \in Calls, Done(k)'
      PROVE  k \in 1..Len(asked) /\ Done(k) /\ asked'[k] = asked[k]
  <2>1. k \in 1..Len(asked)
    BY <1>1, <1>7 DEF Done, Typed, CallsOK, Calls
  <2> QED BY <1>0, <1>1, <1>7, <2>1, AskedStays DEF Done
<1>8. UsedIsSpent'
  <2> SUFFICES ASSUME ~disturbed', NEW k \in Calls, Done(k)', asked'[k].op = "set",
                      asked'[k].key \notin reissued'
               PROVE  Spent(k)'
    BY DEF UsedIsSpent
  <2>1. PICK via, key : via = asked[k].via /\ key = asked[k].key
    OBVIOUS
  <2>2. /\ asked'[k] = asked[k] /\ k \in 1..Len(asked) /\ Spent(k)
        /\ via \in Vias /\ key \in Ids
    BY <1>1, <1>7, <2>1, SetKnown DEF KeysInv, UsedIsSpent, Typed
  <2>3. \E o \in Owners : GivenTo(o, via, key)'
    BY <1>0, <2>1, <2>2, GivenStays DEF Spent
  <2>4. \A o \in Owners : ~Holds(o, via, key)'
    BY <1>3, <2>1, <2>2 DEF Spent
  <2>5. ASSUME NEW l \in jobs', l.at = "edit", l.req = asked[k], l.by # k
        PROVE  Pair(k, l.by)'
    <3>1. l \in jobs
      BY <1>2, <2>2, <2>5 DEF Op
    <3> QED BY <1>1, <2>2, <2>5, <3>1 DEF Spent, Pair
  <2> QED BY <2>1, <2>2, <2>3, <2>4, <2>5 DEF Spent
<1>9. KeyUsedOnce'
  BY <1>1, <1>7 DEF KeysInv, KeyUsedOnce, Pair
<1> QED BY <1>4, <1>5, <1>6, <1>8, <1>9 DEF KeysInv

LEMMA OtherKeys ==
  ASSUME Typed, KeysInv, [Next]_vars,
         UNCHANGED vars \/ Crash \/ \E o \in Owners : KeysExpire(o)
  PROVE  KeysInv'
<1>1. /\ UNCHANGED <<doc, asked, answers, over, reissued>> /\ jobs' \subseteq jobs
      /\ (disturbed => disturbed')
  BY OtherTyped
<1>2. ASSUME NEW o, NEW via, NEW key
      PROVE  /\ Holds(o, via, key)' <=> Holds(o, via, key)
             /\ GivenTo(o, via, key) => GivenTo(o, via, key)'
  BY <1>1 DEF Holds, IsDoc, GivenTo, StoredBy
<1>3. HeldIsGiven' /\ FirstHeldOnce'
  BY <1>2 DEF KeysInv, HeldIsGiven, FirstHeldOnce
<1>4. ForgotKeys'
  BY <1>1 DEF KeysInv, ForgotKeys, Op
<1>5. SettersHold'
  BY <1>1 DEF KeysInv, SettersHold, Op, GivenTo, StoredBy, Holds, IsDoc
<1>6. UsedIsSpent'
  BY <1>1 DEF KeysInv, UsedIsSpent, Spent, Done, Pair, GivenTo, StoredBy, Holds, IsDoc
<1>7. KeyUsedOnce'
  BY <1>1 DEF KeysInv, KeyUsedOnce, Done, Pair
<1> QED BY <1>3, <1>4, <1>5, <1>6, <1>7 DEF KeysInv

(* At first the accounts hold no keys but the first ones, one each.         *)
LEMMA KeysInit == ASSUME Init PROVE KeysInv
<1>1. PICK k \in Known : doc = k.doc /\ KeysApart(doc)
  BY AccountsAssumption DEF Init
<1>2. ASSUME NEW o \in Owners, NEW via \in Vias, NEW key \in Ids, Holds(o, via, key)
      PROVE  key = 0
  BY <1>1, <1>2, NoneIsNone DEF KeysApart, Holds, IsDoc, Vias
<1>3. HeldIsGiven
  BY <1>2 DEF HeldIsGiven, GivenTo
<1>4. FirstHeldOnce
  BY <1>1 DEF FirstHeldOnce, KeysApart, Holds, IsDoc, Vias
<1>5. \A n \in Calls : ~Done(n)
  BY DEF Init, Done
<1> QED BY <1>3, <1>4, <1>5
        DEF Init, KeysInv, ForgotKeys, SettersHold, UsedIsSpent, KeyUsedOnce

LEMMA KeysHold == Spec => []KeysInv
<1>1. Typed /\ KeysInv /\ [Next]_vars => KeysInv'
  <2>1. ASSUME Typed, KeysInv, NEW j \in jobs, JobStep(j) PROVE KeysInv'
    BY <2>1, HeldStep, ForgotStep, SettersStep, UsedStep, OnceStep DEF KeysInv
  <2> QED BY <2>1, Steps, CallKeys, OtherKeys
<1> QED BY <1>1, KeysInit, TypedHolds, PTL DEF Spec

(* A key sets one password, but for calls that overlapped, a key made twice *)
(* in one second and a process that has exited (owner.js:558-630).          *)
THEOREM AKeySetsOnePassword == Spec => []KeyUsedOnce
<1>1. KeysInv => KeyUsedOnce
  BY DEF KeysInv
<1> QED BY <1>1, KeysHold, PTL
=============================================================================
