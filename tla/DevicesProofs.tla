----------------------------- MODULE DevicesProofs -----------------------------
(***************************************************************************)
(* What the devices keep to, for any owners, devices, sources, meshes,      *)
(* requests and bounds, whatever the database fails and the process dies.   *)
(***************************************************************************)
EXTENDS Devices, TLAPS
-----------------------------------------------------------------------------
(* Requests, documents and calls. *)

LEMMA RequestFields ==
  ASSUME NEW r \in Request
  PROVE  /\ r.op \in {"register", "edit", "push", "detach", "attach", "mesh",
                      "unmesh", "revoke", "drop", "run"}
         /\ r.op \notin {"revoke", "drop"} => r.udid \in Udids
         /\ r.op \in {"register", "mesh", "unmesh", "revoke", "drop", "run"}
              => r.owner \in Owners
         /\ r.op = "register" => /\ r.mac \in Macs /\ r.version \in Versions
                                 /\ r.ack \in BOOLEAN /\ r.goal \in BOOLEAN
         /\ r.op = "edit" => \/ r.field = "owner" /\ r.value \in Owners
                             \/ r.field = "jobs" /\ r.value \in Jobs
         /\ r.op \in {"attach", "drop"} => r.source \in Sources
         /\ r.op \in {"mesh", "unmesh"} => r.mesh \in Meshes
         /\ r.op = "revoke" => r.udids \subseteq Udids
BY DEF Request

(* The stages of a call of each kind, and what it has read by then. *)
Staged(i) ==
  /\ i.at \in {"mac", "insert", "profile", "goal", "lambda"} => i.req.op = "register"
  /\ i.at = "user" => i.req.op = "run"
  /\ i.at = "destroy" => i.req.op = "revoke"
  /\ i.at = "modify" => i.req.op \notin {"revoke", "unmesh"}
  /\ i.at \notin {"get", "mac", "insert"} <=> i.copy # None
  /\ i.at # "get" \/ i.req.op \notin {"revoke", "drop"} => i.udid \in Udids
  /\ i.req.op \in Changes => i.udid = i.req.udid
  /\ i.at = "destroy" => i.udid \in i.req.udids
  /\ i.at = "modify" /\ i.req.op = "drop" => i.copy.source = i.req.source
  /\ i.by \in {0, i.no}

(* Every call under way is at a stage of its kind. *)
StagesOK == \A i \in jobs : Staged(i)

Typed == TypeOK /\ StagesOK

LEMMA NoneIsNone ==
  None \notin Device /\ None \notin Owners /\ None \notin Sources
BY DevicesAssumption

LEMMA JobRequest ==
  ASSUME NEW j \in Job
  PROVE  j.req \in Request
BY DevicesAssumption DEF Job

LEMMA NewDeviceTyped ==
  ASSUME NEW r \in Request, r.op = "register"
  PROVE  NewDevice(r) \in Device
<1>1. r.owner \in Owners /\ r.mac \in Macs /\ r.version \in Versions
  BY RequestFields
<1> QED BY <1>1 DEF NewDevice, Device, Jobs

LEMMA TopicsTyped ==
  ASSUME NEW d \in Device
  PROVE  TopicsOf(d) \in SUBSET Topic
BY DEF TopicsOf, Topic, Device

LEMMA ChangeTyped ==
  ASSUME NEW j \in Job, j.at = "modify", Staged(j), NEW d \in Device, NEW c \in Device
  PROVE  Change(j, d, c) \in Device
<1> DEFINE r == j.req
<1>1. r \in Request
  BY JobRequest
<1>2. CASE r.op = "edit"
  <2>1. Change(j, d, c) = [d EXCEPT ![r.field] = r.value]
    BY <1>2 DEF Change, Op
  <2>2. CASE r.field = "owner" /\ r.value \in Owners
    <3>1. [d EXCEPT !.owner = r.value] \in Device
      BY <2>2 DEF Device
    <3> QED BY <2>1, <2>2, <3>1
  <2>3. CASE r.field = "jobs" /\ r.value \in Jobs
    <3>1. [d EXCEPT !.jobs = r.value] \in Device
      BY <2>3 DEF Device
    <3> QED BY <2>1, <2>3, <3>1
  <2> QED BY <1>1, <1>2, <2>2, <2>3, RequestFields
<1>3. CASE r.op = "detach"
  BY <1>3 DEF Change, Op, Device
<1>4. CASE r.op = "drop"
  BY <1>4 DEF Change, Op, Device
<1>5. CASE r.op = "attach"
  BY <1>1, <1>5, RequestFields DEF Change, Op, Device
<1>6. CASE r.op = "mesh"
  BY <1>1, <1>6, RequestFields DEF Change, Op, Device
<1>7. CASE r.op \notin {"edit", "detach", "drop", "attach", "mesh"}
  BY <1>7 DEF Change, Op
<1> QED BY <1>2, <1>3, <1>4, <1>5, <1>6, <1>7
-----------------------------------------------------------------------------
(* What follows a step of a call. *)

(* k is the call j at any stage, whether its caller still waits or not.     *)
Same(k, j) ==
  /\ k \in Job /\ k.no = j.no /\ k.by \in {0, j.by}
  /\ k.req = j.req /\ k.udid = j.udid /\ k.copy = j.copy /\ k.rev = j.rev

LEMMA SameAsItself ==
  ASSUME NEW j \in Job
  PROVE  Same(j, j)
BY DEF Same

LEMMA Next1Is ==
  ASSUME NEW j \in Job, NEW s \in Stage, NEW i \in Next1(j, s)
  PROVE  Same(i, j) /\ i.at = s
BY DEF Next1, Job, Same

LEMMA UnowedIs ==
  ASSUME NEW j \in Job, NEW i, i = [j EXCEPT !.by = 0]
  PROVE  Same(i, j) /\ i.at = j.at /\ i.by = 0
<1>1. MaxCalls \in Nat
  BY DevicesAssumption
<1> QED BY <1>1 DEF Job, Same

LEMMA ReadIs ==
  ASSUME TypeOK, NEW j \in Job, NEW u \in Udids, NEW s \in Stage,
         NEW i \in Read([j EXCEPT !.udid = u], s)
  PROVE  /\ i \in Job /\ i.at = s /\ i.req = j.req /\ i.udid = u
         /\ i.copy = doc[u] /\ i.rev = rev[u] /\ i.no = j.no /\ i.by = j.by
BY DEF Read, Job, TypeOK

LEMMA ReadOwnIs ==
  ASSUME TypeOK, NEW j \in Job, j.udid \in Udids, NEW s \in Stage,
         NEW i \in Read(j, s)
  PROVE  /\ i \in Job /\ i.at = s /\ i.req = j.req /\ i.udid = j.udid
         /\ i.copy = doc[j.udid] /\ i.rev = rev[j.udid] /\ i.no = j.no /\ i.by = j.by
BY DEF Read, Job, TypeOK

(* i follows j: it has read nothing yet, or has what j has read, or has     *)
(* just read; it inserts a document when the credentials are on their way,  *)
(* and adds a mesh when the topic is there.                                 *)
Derived(i, j) ==
  /\ i \in Job /\ Staged(i) /\ i.req = j.req /\ i.no = j.no /\ i.by \in {0, j.by}
  /\ \/ i.copy = None
     \/ i.copy = j.copy /\ i.rev = j.rev /\ i.udid = j.udid
     \/ i.copy = doc[i.udid] /\ i.rev = rev[i.udid]
  /\ i.at = "insert" => disturbed' \/ \E g \in grants' : g.udid = i.udid
  /\ i.at = "modify" /\ i.req.op = "mesh"
       => <<i.req.owner, i.req.mesh>> \in topics'[i.udid]
Continues(j) == \A i \in jobs' : i \in jobs \/ Derived(i, j)

LEMMA Ends ==
  ASSUME NEW j, Goto(j, {})
  PROVE  Continues(j)
BY DEF Goto, Continues

LEMMA GoesOn ==
  ASSUME NEW j, NEW js, Goto(j, js), \A i \in js : Derived(i, j)
  PROVE  Continues(j)
BY DEF Goto, Continues

LEMMA CheckinContinues ==
  ASSUME Typed, NEW j \in jobs, Op(j, {"register"}), NEW u \in Udids,
         doc[u] # None, Checkin(j, u)
  PROVE  Continues(j)
<1> DEFINE js == Read([j EXCEPT !.udid = u], "profile")
<1>1. j \in Job /\ Goto(j, js)
  BY DEF Typed, TypeOK, Checkin
<1>2. ASSUME NEW i \in js PROVE Derived(i, j)
  <2>1. /\ i \in Job /\ i.at = "profile" /\ i.req = j.req /\ i.udid = u
        /\ i.copy = doc[u] /\ i.rev = rev[u] /\ i.no = j.no /\ i.by = j.by
    BY <1>1, <1>2, ReadIs DEF Typed, Stage
  <2>2. Staged(j) /\ j.req.op = "register"
    BY DEF Typed, StagesOK, Op
  <2> HIDE DEF js
  <2> QED BY <2>1, <2>2 DEF Derived, Staged, Changes
<1> QED BY <1>1, <1>2, GoesOn

LEMMA AuthorizeGrants ==
  ASSUME NEW u, NEW o, NEW d, Authorize(u, o, d)
  PROVE  \E g \in grants' : g.udid = u
<1> DEFINE g == [udid |-> u, owner |-> o, topics |-> TopicsOf(d)]
<1>1. g \in grants'
  BY DEF Authorize
<1>2. g.udid = u
  OBVIOUS
<1> QED BY <1>1, <1>2

LEMMA NewContinues ==
  ASSUME Typed, NEW j \in jobs, j.at = "mac", Authorize(j.udid, j.req.owner, NewDevice(j.req)),
         \/ Goto(j, Next1([j EXCEPT !.by = 0], "insert"))
         \/ Goto(j, Next1(j, "insert"))
  PROVE  Continues(j)
<1>1. j \in Job /\ Staged(j)
  BY DEF Typed, TypeOK, StagesOK
<1>2. PICK k : /\ k = j \/ k = [j EXCEPT !.by = 0]
               /\ Goto(j, Next1(k, "insert"))
  OBVIOUS
<1>3. Same(k, j)
  BY <1>1, <1>2, UnowedIs DEF Same
<1>4. ASSUME NEW i \in Next1(k, "insert") PROVE Derived(i, j)
  <2>1. Same(i, k) /\ i.at = "insert"
    BY <1>3, <1>4, Next1Is DEF Stage, Same
  <2>2. \E g \in grants' : g.udid = i.udid
    BY <1>3, <2>1, AuthorizeGrants DEF Same
  <2> QED BY <1>1, <1>3, <2>1, <2>2 DEF Derived, Staged, Same, Changes
<1> QED BY <1>2, <1>4, GoesOn

LEMMA RestagedIs ==
  ASSUME NEW j \in Job, Staged(j), NEW k, Same(k, j),
         NEW s \in Stage, NEW i \in Next1(k, s),
         \/ j.req.op = "register" /\ s = "mac" /\ j.copy = None
         \/ j.req.op = "register" /\ s \in {"goal", "lambda", "modify"} /\ j.copy # None
         \/ j.at = "user" /\ s = "modify"
  PROVE  Derived(i, j)
<1>1. Same(i, k) /\ i.at = s
  BY Next1Is DEF Same
<1> QED BY <1>1 DEF Derived, Staged, Same, Changes

LEMMA TransformContinues ==
  ASSUME NEW j \in Job, Staged(j), j.at \in {"profile", "user"}, NEW k, Same(k, j),
         NEW js \in Transform(k), NEW i \in js, i.at # "lambda" \/ j.at = "profile"
  PROVE  Derived(i, j)
<1>1. i \in Next1(k, "modify") \/ i \in Next1(k, "lambda")
  BY DEF Transform
<1>2. i \in Next1(k, "lambda") => i.at = "lambda"
  BY Next1Is DEF Stage, Same
<1>3. j.copy # None /\ (j.at = "profile" => j.req.op = "register")
  BY DEF Staged
<1> QED BY <1>1, <1>2, <1>3, RestagedIs DEF Stage

LEMMA RegisterContinues ==
  ASSUME Typed, NEW j \in jobs,
         \/ KeyRefused(j) \/ ByUdid(j) \/ NotByUdid(j) \/ ByMac(j) \/ Inserted(j)
         \/ Profile(j) \/ GoalMarked(j) \/ Transformed(j)
  PROVE  Continues(j)
<1>1. j \in Job /\ Staged(j)
  BY DEF Typed, TypeOK, StagesOK
<1>2. CASE KeyRefused(j) \/ Inserted(j) \/ GoalMarked(j)
  BY <1>2, Ends DEF KeyRefused, Inserted, GoalMarked
<1>3. CASE ByUdid(j)
  <2>1. j.udid \in Udids
    BY <1>1, <1>3 DEF ByUdid, Staged, Op
  <2> QED BY <1>3, <2>1, CheckinContinues DEF ByUdid, Mine
<1>4. CASE NotByUdid(j)
  <2>1. Goto(j, Next1(j, "mac")) /\ j.req.op = "register" /\ j.copy = None
    BY <1>1, <1>4 DEF NotByUdid, Op, At, Staged
  <2>2. ASSUME NEW i \in Next1(j, "mac") PROVE Derived(i, j)
    BY <1>1, <2>1, SameAsItself, RestagedIs DEF Stage
  <2> QED BY <2>1, <2>2, GoesOn
<1>5. CASE ByMac(j)
  <2>1. j.at = "mac" /\ Op(j, {"register"})
    BY <1>1, <1>5 DEF ByMac, At, Staged, Op
  <2>2. CASE New(j)
    BY <2>1, <2>2, NewContinues DEF New
  <2>3. CASE ~New(j)
    <3>1. PICK u \in SameMac(j.req.mac) : Checkin(j, u)
      BY <1>5, <2>3 DEF ByMac
    <3>2. u \in Udids /\ doc[u] # None
      BY <3>1 DEF SameMac
    <3> QED BY <2>1, <3>1, <3>2, CheckinContinues
  <2> QED BY <2>2, <2>3
<1>6. CASE Profile(j)
  <2> DEFINE k == IF j.req.ack THEN [j EXCEPT !.by = 0] ELSE j
  <2>1. PICK js \in Transform(k), build \in SUBSET Next1(j, "goal") :
           Goto(j, js \cup build)
    BY <1>6 DEF Profile
  <2>2. Same(k, j)
    BY <1>1, UnowedIs, SameAsItself
  <2>3. j.at = "profile" /\ j.req.op = "register" /\ j.copy # None
    BY <1>1, <1>6 DEF Profile, At, Staged
  <2> HIDE DEF k
  <2>4. ASSUME NEW i \in js PROVE Derived(i, j)
    BY <1>1, <2>2, <2>3, TransformContinues
  <2>5. ASSUME NEW i \in build PROVE Derived(i, j)
    BY <1>1, <2>3, SameAsItself, RestagedIs DEF Stage
  <2> QED BY <2>1, <2>4, <2>5, GoesOn
<1>7. CASE Transformed(j)
  <2>1. PICK js \in {Next1(j, "modify"), {}} : Goto(j, js)
    BY <1>7 DEF Transformed
  <2>2. j.req.op = "register" /\ j.copy # None
    BY <1>1, <1>7 DEF Transformed, At, Staged
  <2>3. ASSUME NEW i \in Next1(j, "modify") PROVE Derived(i, j)
    BY <1>1, <2>2, SameAsItself, RestagedIs DEF Stage
  <2> QED BY <2>1, <2>3, GoesOn
<1> QED BY <1>2, <1>3, <1>4, <1>5, <1>6, <1>7

LEMMA OwnersContinue ==
  ASSUME Typed, NEW j \in jobs,
         \/ Missing(j) \/ Found(j) \/ DropFound(j) \/ MeshFound(j)
         \/ UnmeshFound(j) \/ Modified(j) \/ Revoke(j) \/ Destroyed(j)
         \/ RunFound(j) \/ Run(j)
  PROVE  Continues(j)
<1>1. j \in Job /\ Staged(j) /\ j.req \in Request
  BY JobRequest DEF Typed, TypeOK, StagesOK
<1>2. CASE Missing(j) \/ UnmeshFound(j) \/ Modified(j) \/ Destroyed(j)
  BY <1>2, Ends DEF Missing, UnmeshFound, Modified, Destroyed
<1>3. CASE Found(j)
  <2>1. /\ Goto(j, Read(j, "modify")) /\ doc[j.udid] # None
        /\ j.req.op \in {"edit", "push", "detach", "attach"}
    BY <1>3 DEF Found, Op, Simple
  <2>2. j.udid \in Udids
    BY <1>1, <2>1 DEF Staged
  <2>3. ASSUME NEW i \in Read(j, "modify") PROVE Derived(i, j)
    <3>1. /\ i \in Job /\ i.at = "modify" /\ i.req = j.req /\ i.udid = j.udid
          /\ i.copy = doc[j.udid] /\ i.rev = rev[j.udid] /\ i.no = j.no /\ i.by = j.by
      BY <1>1, <2>2, ReadOwnIs DEF Typed, Stage
    <3> QED BY <1>1, <2>1, <2>2, <3>1 DEF Derived, Staged, Changes
  <2> QED BY <2>1, <2>3, GoesOn
<1>4. CASE DropFound(j)
  <2> DEFINE U == {u \in Udids : /\ doc[u] # None /\ doc[u].owner = j.req.owner
                                 /\ doc[u].source = j.req.source}
             js == UNION {Read([j EXCEPT !.udid = u, !.by = 0], "modify") : u \in U}
  <2>1. Goto(j, js) /\ j.req.op = "drop"
    BY <1>4 DEF DropFound, Op
  <2>2. ASSUME NEW i \in js PROVE Derived(i, j)
    <3>1. PICK u \in U : i \in Read([j EXCEPT !.udid = u, !.by = 0], "modify")
      OBVIOUS
    <3>2. u \in Udids /\ doc[u] # None /\ doc[u].source = j.req.source
      OBVIOUS
    <3> DEFINE k == [j EXCEPT !.udid = u, !.by = 0]
    <3>3. i \in Read(k, "modify")
      BY <3>1
    <3> HIDE DEF js, U
    <3>4. k \in Job /\ k.req = j.req /\ k.udid = u /\ k.no = j.no /\ k.by = 0
      <4>1. 0 \in 0..MaxCalls
        BY DevicesAssumption
      <4> QED BY <1>1, <3>2, <4>1 DEF Job
    <3> HIDE DEF k
    <3>5. /\ i \in Job /\ i.at = "modify" /\ i.req = k.req /\ i.udid = u
          /\ i.copy = doc[u] /\ i.rev = rev[u] /\ i.no = k.no /\ i.by = k.by
      BY <3>2, <3>3, <3>4, ReadOwnIs DEF Typed, Stage
    <3> QED BY <2>1, <3>2, <3>4, <3>5 DEF Derived, Staged, Changes
  <2> HIDE DEF js
  <2> QED BY <2>1, <2>2, GoesOn
<1>5. CASE MeshFound(j)
  <2>1. /\ Goto(j, Read(j, "modify")) /\ doc[j.udid] # None /\ j.req.op = "mesh"
        /\ topics' = [topics EXCEPT ![j.udid] = @ \cup {<<j.req.owner, j.req.mesh>>}]
    BY <1>5 DEF MeshFound, Op
  <2>2. j.udid \in Udids
    BY <1>1, <2>1 DEF Staged
  <2>3. <<j.req.owner, j.req.mesh>> \in topics'[j.udid]
    BY <2>1, <2>2 DEF Typed, TypeOK
  <2>4. ASSUME NEW i \in Read(j, "modify") PROVE Derived(i, j)
    <3>1. /\ i \in Job /\ i.at = "modify" /\ i.req = j.req /\ i.udid = j.udid
          /\ i.copy = doc[j.udid] /\ i.rev = rev[j.udid] /\ i.no = j.no /\ i.by = j.by
      BY <1>1, <2>2, ReadOwnIs DEF Typed, Stage
    <3> QED BY <1>1, <2>1, <2>2, <2>3, <3>1 DEF Derived, Staged, Changes
  <2> QED BY <2>1, <2>4, GoesOn
<1>6. CASE Revoke(j)
  <2>1. CASE Goto(j, {})
    BY <2>1, Ends
  <2>2. CASE ~Goto(j, {})
    <3> DEFINE U == {u \in j.req.udids : doc[u] # None /\ doc[u].owner = j.req.owner}
    <3>1. PICK u \in U : Goto(j, Read([j EXCEPT !.udid = u], "destroy"))
      BY <1>6, <2>2 DEF Revoke
    <3>2. j.req.op = "revoke" /\ u \in Udids /\ u \in j.req.udids /\ doc[u] # None
      BY <1>1, <1>6, RequestFields DEF Revoke, Op
    <3>3. ASSUME NEW i \in Read([j EXCEPT !.udid = u], "destroy") PROVE Derived(i, j)
      <4>1. /\ i \in Job /\ i.at = "destroy" /\ i.req = j.req /\ i.udid = u
            /\ i.copy = doc[u] /\ i.rev = rev[u] /\ i.no = j.no /\ i.by = j.by
        BY <1>1, <3>2, ReadIs DEF Typed, Stage
      <4> QED BY <1>1, <3>2, <4>1 DEF Derived, Staged, Changes
    <3> QED BY <3>1, <3>3, GoesOn
  <2> QED BY <2>1, <2>2
<1>7. CASE RunFound(j)
  <2>1. CASE Goto(j, {})
    BY <2>1, Ends
  <2>2. CASE ~Goto(j, {})
    <3>1. Goto(j, Read(j, "user")) /\ doc[j.udid] # None /\ j.req.op = "run"
      BY <1>7, <2>2 DEF RunFound, Op, Mine
    <3>2. j.udid \in Udids
      BY <1>1, <3>1 DEF Staged
    <3>3. ASSUME NEW i \in Read(j, "user") PROVE Derived(i, j)
      <4>1. /\ i \in Job /\ i.at = "user" /\ i.req = j.req /\ i.udid = j.udid
            /\ i.copy = doc[j.udid] /\ i.rev = rev[j.udid] /\ i.no = j.no /\ i.by = j.by
        BY <1>1, <3>2, ReadOwnIs DEF Typed, Stage
      <4> QED BY <1>1, <3>1, <3>2, <4>1 DEF Derived, Staged, Changes
    <3> QED BY <3>1, <3>3, GoesOn
  <2> QED BY <2>1, <2>2
<1>8. CASE Run(j)
  <2>1. PICK js \in Transform(j) :
           Goto(j, IF \E i \in js : i.at = "lambda" THEN {} ELSE js)
    BY <1>8 DEF Run
  <2>2. CASE \E i \in js : i.at = "lambda"
    BY <2>1, <2>2, Ends
  <2>3. CASE \A i \in js : i.at # "lambda"
    <3>1. ASSUME NEW i \in js PROVE Derived(i, j)
      <4>1. j.at = "user"
        BY <1>8 DEF Run, At
      <4> QED BY <1>1, <2>3, <4>1, SameAsItself, TransformContinues
    <3> QED BY <2>1, <2>3, <3>1, GoesOn
  <2> QED BY <2>2, <2>3
<1> QED BY <1>2, <1>3, <1>4, <1>5, <1>6, <1>7, <1>8

LEMMA FailedContinues ==
  ASSUME Typed, NEW j \in jobs, Failed(j)
  PROVE  Continues(j)
<1>1. j \in Job /\ Staged(j)
  BY DEF Typed, TypeOK, StagesOK
<1>2. CASE Goto(j, {})
  BY <1>2, Ends
<1>3. CASE Goto(j, Next1(j, "mac")) /\ At(j, "get") /\ Op(j, {"register"})
  <2>1. j.req.op = "register" /\ j.copy = None
    BY <1>1, <1>3 DEF At, Op, Staged
  <2>2. ASSUME NEW i \in Next1(j, "mac") PROVE Derived(i, j)
    BY <1>1, <2>1, SameAsItself, RestagedIs DEF Stage
  <2> QED BY <1>3, <2>2, GoesOn
<1>4. CASE /\ At(j, "mac") /\ Authorize(j.udid, j.req.owner, NewDevice(j.req))
           /\ \/ Goto(j, Next1([j EXCEPT !.by = 0], "insert"))
              \/ Goto(j, Next1(j, "insert"))
  BY <1>4, NewContinues DEF At
<1>5. CASE /\ At(j, "profile")
           /\ Goto(j, Next1(IF j.req.ack THEN [j EXCEPT !.by = 0] ELSE j, "modify"))
  <2> DEFINE k == IF j.req.ack THEN [j EXCEPT !.by = 0] ELSE j
  <2>1. Same(k, j)
    BY <1>1, UnowedIs, SameAsItself
  <2>2. j.req.op = "register" /\ j.copy # None
    BY <1>1, <1>5 DEF At, Staged
  <2>3. Goto(j, Next1(k, "modify"))
    BY <1>5
  <2> HIDE DEF k
  <2>4. ASSUME NEW i \in Next1(k, "modify") PROVE Derived(i, j)
    BY <1>1, <2>1, <2>2, RestagedIs DEF Stage
  <2> QED BY <2>3, <2>4, GoesOn
<1> QED BY <1>2, <1>3, <1>4, <1>5 DEF Failed

(* Which of Redis and CouchDB a step of a call changes. *)
Quiet(j) == UNCHANGED redis /\ Reading /\ (Answer(j) \/ Silent) /\ Continues(j)
Authorizes(j) ==
  /\ \E u \in Udids, o \in Owners, d \in Device : Authorize(u, o, d)
  /\ UNCHANGED <<keys, topics, dels>> /\ Reading
  /\ Answer(j) \/ Silent
  /\ Continues(j)

LEMMA NewAuthorizes ==
  ASSUME Typed, NEW j \in jobs, j.at = "mac"
  PROVE  j.udid \in Udids /\ j.req.owner \in Owners /\ NewDevice(j.req) \in Device
<1>1. j \in Job /\ Staged(j) /\ j.req \in Request
  BY JobRequest DEF Typed, TypeOK, StagesOK
<1>2. j.req.op = "register"
  BY <1>1 DEF Staged
<1>3. j.req.owner \in Owners /\ j.udid \in Udids
  BY <1>1, <1>2, RequestFields DEF Staged
<1> QED BY <1>1, <1>2, <1>3, NewDeviceTyped

LEMMA CheckinAuthorizes ==
  ASSUME Typed, NEW j \in jobs, Op(j, {"register"}), NEW u \in Udids,
         doc[u] # None, Checkin(j, u)
  PROVE  Authorizes(j)
<1>1. j.req.owner \in Owners
  BY JobRequest, RequestFields DEF Typed, TypeOK, Op
<1>2. doc[u] \in Device
  BY DEF Typed, TypeOK
<1>3. Continues(j)
  BY CheckinContinues
<1> QED BY <1>1, <1>2, <1>3 DEF Checkin, Authorizes

LEMMA KindsOfStep ==
  ASSUME Typed, NEW j \in jobs, Callback(j) \/ Transformed(j)
  PROVE  \/ Quiet(j) \/ Authorizes(j) \/ MeshFound(j)
         \/ Inserted(j) \/ Modified(j) \/ Destroyed(j)
<1>1. CASE \/ KeyRefused(j) \/ NotByUdid(j) \/ Profile(j) \/ GoalMarked(j) \/ Transformed(j)
  <2>1. Continues(j)
    BY <1>1, RegisterContinues
  <2> QED BY <1>1, <2>1 DEF Quiet, KeyRefused, NotByUdid, Profile, GoalMarked, Transformed
<1>2. CASE \/ Missing(j) \/ Found(j) \/ DropFound(j) \/ UnmeshFound(j)
           \/ Revoke(j) \/ RunFound(j) \/ Run(j)
  <2>1. Continues(j)
    BY <1>2, OwnersContinue
  <2> QED BY <1>2, <2>1 DEF Quiet, Missing, Found, DropFound, UnmeshFound,
                          Revoke, RunFound, Run
<1>3. CASE ByUdid(j)
  <2>1. Op(j, {"register"}) /\ doc[j.udid] # None /\ Checkin(j, j.udid)
    BY <1>3 DEF ByUdid, Mine
  <2>2. j.udid \in Udids
    BY <2>1 DEF Typed, StagesOK, Staged, Op
  <2> QED BY <2>1, <2>2, CheckinAuthorizes
<1>4. CASE ByMac(j)
  <2>1. j.at = "mac" /\ Op(j, {"register"})
    BY <1>4 DEF ByMac, At, Typed, StagesOK, Staged, Op
  <2>2. CASE New(j)
    <3>1. Continues(j)
      BY <1>4, RegisterContinues
    <3> QED BY <2>1, <2>2, <3>1, NewAuthorizes DEF Authorizes, New
  <2>3. CASE ~New(j)
    <3>1. PICK u \in SameMac(j.req.mac) : Checkin(j, u)
      BY <1>4, <2>3 DEF ByMac
    <3>2. u \in Udids /\ doc[u] # None
      BY <3>1 DEF SameMac
    <3> QED BY <2>1, <3>1, <3>2, CheckinAuthorizes
  <2> QED BY <2>2, <2>3
<1> QED BY <1>1, <1>2, <1>3, <1>4 DEF Callback
-----------------------------------------------------------------------------
(* Types. *)

LEMMA JobsTyped ==
  ASSUME Typed, NEW j \in jobs, Continues(j)
  PROVE  jobs' \in SUBSET Job /\ \A i \in jobs' : Staged(i)
BY DEF Typed, TypeOK, StagesOK, Continues, Derived

LEMMA AnswersTyped ==
  ASSUME Typed, NEW j \in jobs, Answer(j) \/ Silent
  PROVE  answers' \in [Calls -> 0..2]
<1>1. answers \in [Calls -> 0..2] /\ j.by \in 0..MaxCalls
  BY DEF Typed, TypeOK, Job
<1>2. CASE j.by = 0 \/ Silent
  BY <1>1, <1>2 DEF Answer, Silent
<1>3. CASE j.by # 0 /\ Answer(j)
  <2>1. j.by \in Calls
    BY <1>1, <1>3, DevicesAssumption DEF Calls
  <2> QED BY <1>1, <1>3, <2>1 DEF Answer
<1> QED BY <1>2, <1>3

LEMMA AuthorizeTyped ==
  ASSUME Typed, NEW u \in Udids, NEW o \in Owners, NEW d \in Device,
         Authorize(u, o, d)
  PROVE  grants' \in SUBSET Grant
<1>1. [udid |-> u, owner |-> o, topics |-> TopicsOf(d)] \in Grant
  BY TopicsTyped DEF Grant
<1> QED BY <1>1 DEF Authorize, Typed, TypeOK

LEMMA QuietTyped ==
  ASSUME Typed, NEW j \in jobs, Quiet(j)
  PROVE  Typed'
<1>1. answers' \in [Calls -> 0..2]
  BY AnswersTyped DEF Quiet
<1>2. jobs' \in SUBSET Job /\ \A i \in jobs' : Staged(i)
  BY JobsTyped DEF Quiet
<1>3. TypeOK'
  BY <1>1, <1>2 DEF Quiet, Reading, redis, history, Typed, TypeOK
<1>4. StagesOK'
  BY <1>2 DEF Quiet, Reading, history, Typed, StagesOK, Staged
<1> QED BY <1>3, <1>4 DEF Typed

LEMMA AuthorizesTyped ==
  ASSUME Typed, NEW j \in jobs, Authorizes(j)
  PROVE  Typed'
<1>1. answers' \in [Calls -> 0..2]
  BY AnswersTyped DEF Authorizes
<1>2. jobs' \in SUBSET Job /\ \A i \in jobs' : Staged(i)
  BY JobsTyped DEF Authorizes
<1>3. grants' \in SUBSET Grant
  BY AuthorizeTyped DEF Authorizes
<1>4. TypeOK'
  BY <1>1, <1>2, <1>3 DEF Authorizes, Reading, history, Typed, TypeOK
<1>5. StagesOK'
  BY <1>2 DEF Authorizes, Reading, history, Typed, StagesOK, Staged
<1> QED BY <1>4, <1>5 DEF Typed

LEMMA MeshTyped ==
  ASSUME Typed, NEW j \in jobs, MeshFound(j)
  PROVE  Typed'
<1>1. answers' \in [Calls -> 0..2]
  BY AnswersTyped DEF MeshFound
<1>2. jobs' \in SUBSET Job /\ \A i \in jobs' : Staged(i)
  BY OwnersContinue, JobsTyped
<1>3. <<j.req.owner, j.req.mesh>> \in Topic
  BY JobRequest, RequestFields DEF MeshFound, Op, Typed, TypeOK, Topic
<1>4. topics' \in [Udids -> SUBSET Topic]
  BY <1>3 DEF MeshFound, Typed, TypeOK
<1>5. TypeOK'
  BY <1>1, <1>2, <1>4 DEF MeshFound, Reading, history, Typed, TypeOK
<1>6. StagesOK'
  BY <1>2 DEF MeshFound, Reading, history, Typed, StagesOK, Staged
<1> QED BY <1>5, <1>6 DEF Typed

(* What a modify finds. *)
LEMMA ModifyIs ==
  ASSUME Typed, NEW j \in jobs, Modified(j)
  PROVE  /\ j.udid \in Udids /\ j.copy \in Device
         /\ doc[j.udid] # None => doc[j.udid] \in Device /\ Sent(j) \in Device
<1>1. j \in Job /\ Staged(j) /\ j.at = "modify" /\ j.req \in Request
  BY JobRequest DEF Typed, TypeOK, StagesOK, Modified, At
<1>2. j.copy \in Device
  BY <1>1 DEF Staged, Job
<1>3. j.udid \in Udids
  BY <1>1 DEF Staged
<1>4. doc[j.udid] # None => doc[j.udid] \in Device
  BY <1>3 DEF Typed, TypeOK
<1> QED BY <1>1, <1>2, <1>3, <1>4, ChangeTyped DEF Sent

(* The document of u becomes x. *)
Stored(u, x) ==
  doc' = [doc EXCEPT ![u] = x] /\ rev' = [rev EXCEPT ![u] = @ + 1]

LEMMA StoredTyped ==
  ASSUME Typed, NEW u \in Udids, NEW x \in Device \cup {None},
         Stored(u, x) \/ UNCHANGED <<doc, rev>>
  PROVE  doc' \in [Udids -> Device \cup {None}] /\ rev' \in [Udids -> Nat]
<1>1. doc' \in [Udids -> Device \cup {None}]
  BY DEF Stored, Typed, TypeOK
<1>2. rev' \in [Udids -> Nat]
  <2>1. rev \in [Udids -> Nat] /\ rev[u] + 1 \in Nat
    BY DEF Typed, TypeOK
  <2> QED BY <2>1 DEF Stored
<1> QED BY <1>1, <1>2

LEMMA SavedTyped ==
  ASSUME Typed, NEW j \in jobs, Save(j) \/ UNCHANGED saved
  PROVE  saved' \in SUBSET Calls
<1>1. j.by \in {0, j.no} /\ j.no \in Calls
  BY DEF Typed, TypeOK, StagesOK, Staged, Job
<1> QED BY <1>1 DEF Save, Typed, TypeOK

(* A step that stores or removes documents. *)
LEMMA DocumentsTyped ==
  ASSUME Typed, NEW j \in jobs, Inserted(j) \/ Modified(j) \/ Destroyed(j)
  PROVE  Typed'
<1>1. answers' \in [Calls -> 0..2]
  BY AnswersTyped DEF Inserted, Modified, Destroyed
<1>2. jobs' \in SUBSET Job /\ \A i \in jobs' : Staged(i)
  BY RegisterContinues, OwnersContinue, JobsTyped
<1>3. j \in Job /\ Staged(j) /\ j.req \in Request
  BY JobRequest DEF Typed, TypeOK, StagesOK
<1>4. CASE Inserted(j)
  <2>1. j.req.op = "register" /\ j.udid \in Udids
    BY <1>3, <1>4 DEF Inserted, At, Staged
  <2>2. NewDevice(j.req) \in Device
    BY <1>3, <2>1, NewDeviceTyped
  <2>3. TypeOK'
    <3>1. doc' \in [Udids -> Device \cup {None}] /\ rev' \in [Udids -> Nat]
      <4>1. Stored(j.udid, NewDevice(j.req)) \/ UNCHANGED <<doc, rev>>
        BY <1>4 DEF Inserted, Stored
      <4> QED BY <2>1, <2>2, <4>1, StoredTyped
    <3>2. left' \in SUBSET Udids /\ saved' \in SUBSET Calls
      BY <1>4, SavedTyped DEF Inserted, Typed, TypeOK
    <3> QED BY <1>1, <1>2, <1>4, <3>1, <3>2 DEF Inserted, redis, Typed, TypeOK
  <2>4. StagesOK'
    BY <1>2 DEF StagesOK
  <2> QED BY <2>3, <2>4 DEF Typed
<1>5. CASE Modified(j)
  <2>1. j.udid \in Udids
    BY <1>5, ModifyIs
  <2>2. doc[j.udid] # None => Sent(j) \in Device
    BY <1>5, ModifyIs
  <2>3. special' \in BOOLEAN
    BY <1>5 DEF Modified, Typed, TypeOK
  <2>4. TypeOK'
    <3>1. doc' \in [Udids -> Device \cup {None}] /\ rev' \in [Udids -> Nat]
      <4>1. CASE doc[j.udid] # None
        <5>1. Stored(j.udid, Sent(j))
          BY <1>5, <4>1 DEF Modified, Stored
        <5> QED BY <2>1, <2>2, <4>1, <5>1, StoredTyped
      <4>2. CASE doc[j.udid] = None
        BY <1>5, <4>2 DEF Modified, Typed, TypeOK
      <4> QED BY <4>1, <4>2
    <3>2. saved' \in SUBSET Calls
      BY <1>5, SavedTyped DEF Modified
    <3> QED BY <1>1, <1>2, <1>5, <2>3, <3>1, <3>2 DEF Modified, redis, Typed, TypeOK
  <2>5. StagesOK'
    BY <1>2 DEF StagesOK
  <2> QED BY <2>4, <2>5 DEF Typed
<1>6. CASE Destroyed(j)
  <2>1. j.udid \in Udids
    BY <1>3, <1>6 DEF Destroyed, At, Staged
  <2>2. TypeOK'
    <3>1. doc' \in [Udids -> Device \cup {None}] /\ rev' \in [Udids -> Nat]
      <4>1. Stored(j.udid, None) \/ UNCHANGED <<doc, rev>>
        BY <1>6 DEF Destroyed, Stored
      <4> QED BY <2>1, <4>1, StoredTyped
    <3>2. left' \in SUBSET Udids /\ dels' \in SUBSET Udids
      BY <1>6, <2>1 DEF Destroyed, Typed, TypeOK
    <3> QED BY <1>1, <1>2, <1>6, <3>1, <3>2 DEF Destroyed, Typed, TypeOK
  <2>3. StagesOK'
    BY <1>2 DEF StagesOK
  <2> QED BY <2>2, <2>3 DEF Typed
<1> QED BY <1>4, <1>5, <1>6

LEMMA FailedTyped ==
  ASSUME Typed, NEW j \in jobs, Failed(j)
  PROVE  Typed'
<1>1. answers' \in [Calls -> 0..2]
  BY AnswersTyped DEF Failed
<1>2. jobs' \in SUBSET Job /\ \A i \in jobs' : Staged(i)
  BY FailedContinues, JobsTyped
<1>3. grants' \in SUBSET Grant
  <2>1. CASE At(j, "mac") /\ Authorize(j.udid, j.req.owner, NewDevice(j.req))
    BY <2>1, NewAuthorizes, AuthorizeTyped DEF At
  <2>2. CASE UNCHANGED grants
    BY <2>2 DEF Typed, TypeOK
  <2> QED BY <2>1, <2>2 DEF Failed
<1>4. TypeOK'
  BY <1>1, <1>2, <1>3 DEF Failed, history, Typed, TypeOK
<1>5. StagesOK'
  BY <1>2 DEF Failed, history, Typed, StagesOK
<1> QED BY <1>4, <1>5 DEF Typed

LEMMA CallTyped ==
  ASSUME Typed, NEW r \in Requests, Call(r)
  PROVE  Typed'
<1> DEFINE i == [no |-> Len(asked) + 1, by |-> Len(asked) + 1, at |-> "get", req |-> r,
                 udid |-> IF r.op \in {"revoke", "drop"} THEN None ELSE r.udid,
                 copy |-> None, rev |-> 0]
<1>1. asked \in Seq(Requests) /\ Len(asked) < MaxCalls /\ MaxCalls \in Nat
  BY DevicesAssumption DEF Call, Typed, TypeOK
<1>2. Len(asked) + 1 \in 0..MaxCalls /\ Len(asked) + 1 \in Calls
  BY <1>1 DEF Calls
<1>3. r.op \notin {"revoke", "drop"} => r.udid \in Udids
  BY RequestFields, DevicesAssumption
<1>4. i \in Job
  BY <1>2, <1>3 DEF Job, Stage
<1>5. Staged(i)
  BY <1>3 DEF Staged, Changes
<1>6. jobs' = jobs \cup {i} /\ asked' = Append(asked, r)
  BY DEF Call
<1> HIDE DEF i
<1>7. asked' \in Seq(Requests) /\ Len(asked') <= MaxCalls
  BY <1>1, <1>6
<1>8. jobs' \in SUBSET Job /\ \A k \in jobs' : Staged(k)
  BY <1>4, <1>5, <1>6 DEF Typed, TypeOK, StagesOK
<1>9. over' \in SUBSET (Calls \X Calls)
  <2>1. \A j \in jobs : j.no \in Calls
    BY DEF Typed, TypeOK, Job
  <2> QED BY <1>2, <2>1 DEF Call, Typed, TypeOK
<1>10. TypeOK'
  BY <1>7, <1>8, <1>9 DEF Call, redis, Typed, TypeOK
<1>11. StagesOK'
  BY <1>8 DEF StagesOK
<1> QED BY <1>10, <1>11 DEF Typed

(* The process exits and leaves what it has sent. *)
CrashLeaves ==
  \A i \in jobs' : \E j \in jobs : /\ j.at \in {"insert", "modify", "destroy", "goal"}
                                   /\ i = [j EXCEPT !.by = 0]
LEMMA CrashIs ==
  ASSUME Crash
  PROVE  CrashLeaves
BY DEF Crash, CrashLeaves

LEMMA CrashTyped ==
  ASSUME Typed, Crash
  PROVE  Typed'
<1>1. ASSUME NEW i \in jobs' PROVE i \in Job /\ Staged(i)
  <2>1. PICK j \in jobs : i = [j EXCEPT !.by = 0]
    BY <1>1, CrashIs DEF CrashLeaves
  <2>2. j \in Job /\ Staged(j)
    BY DEF Typed, TypeOK, StagesOK
  <2> QED BY <2>1, <2>2, UnowedIs DEF Staged, Same
<1>2. dels' \in SUBSET Udids /\ grants' \in SUBSET Grant
  BY DEF Crash, Typed, TypeOK
<1>3. TypeOK'
  BY <1>1, <1>2 DEF Crash, history, Typed, TypeOK
<1>4. StagesOK'
  BY <1>1 DEF Crash, history, Typed, StagesOK
<1> QED BY <1>3, <1>4 DEF Typed

LEMMA RedisTyped ==
  ASSUME Typed,
         (\E g \in grants : Authorized(g)) \/ (\E u \in dels : KeyDeleted(u))
  PROVE  Typed'
<1>1. CASE \E g \in grants : Authorized(g)
  <2>1. PICK g \in grants : Authorized(g)
    BY <1>1
  <2>2. g \in Grant
    BY DEF Typed, TypeOK
  <2>3. g.udid \in Udids /\ g.owner \in Owners /\ g.topics \in SUBSET Topic
    BY <2>2 DEF Grant
  <2>4. keys' \in [Udids -> Owners \cup {None}] /\ topics' \in [Udids -> SUBSET Topic]
    BY <2>1, <2>3 DEF Authorized, Typed, TypeOK
  <2>5. TypeOK'
    BY <2>1, <2>3, <2>4 DEF Authorized, Typed, TypeOK
  <2>6. StagesOK'
    BY <2>1 DEF Authorized, Typed, StagesOK
  <2> QED BY <2>5, <2>6 DEF Typed
<1>2. CASE \E u \in dels : KeyDeleted(u)
  <2>1. PICK u \in dels : KeyDeleted(u)
    BY <1>2
  <2>2. u \in Udids
    BY DEF Typed, TypeOK
  <2>3. TypeOK'
    BY <2>1, <2>2 DEF KeyDeleted, Typed, TypeOK
  <2>4. StagesOK'
    BY <2>1 DEF KeyDeleted, Typed, StagesOK
  <2> QED BY <2>3, <2>4 DEF Typed
<1> QED BY <1>1, <1>2

LEMMA InitTyped == Init => Typed
<1> SUFFICES ASSUME Init PROVE Typed
  OBVIOUS
<1>1. doc \in [Udids -> Device \cup {None}]
  BY DevicesAssumption DEF Init
<1>2. keys \in [Udids -> Owners \cup {None}]
  BY <1>1 DEF Init, Device
<1>3. topics \in [Udids -> SUBSET Topic]
  BY <1>1, TopicsTyped DEF Init
<1>4. asked \in Seq(Requests) /\ Len(asked) <= MaxCalls
  BY DevicesAssumption DEF Init
<1>5. special \in BOOLEAN
  BY DEF Init
<1>6. rev \in [Udids -> Nat] /\ answers \in [Calls -> 0..2]
  BY DEF Init
<1>7. TypeOK
  BY <1>1, <1>2, <1>3, <1>4, <1>5, <1>6 DEF Init, TypeOK
<1>8. StagesOK
  BY DEF Init, StagesOK
<1> QED BY <1>7, <1>8 DEF Typed

(* A step of the model, by what it is. *)
LEMMA Steps ==
  ASSUME Typed, Next
  PROVE  \/ \E r \in Requests : Call(r)
         \/ \E j \in jobs : \/ Quiet(j) \/ Authorizes(j) \/ MeshFound(j)
                            \/ Inserted(j) \/ Modified(j) \/ Destroyed(j) \/ Failed(j)
         \/ \E g \in grants : Authorized(g)
         \/ \E u \in dels : KeyDeleted(u)
         \/ Crash
BY KindsOfStep DEF Next, Couch, Redis

LEMMA NextTyped ==
  ASSUME Typed, [Next]_vars
  PROVE  Typed'
<1>1. CASE UNCHANGED vars
  BY <1>1 DEF vars, Typed, TypeOK, StagesOK, Staged
<1>2. CASE Next
  BY <1>2, Steps, CallTyped, QuietTyped, AuthorizesTyped, MeshTyped, DocumentsTyped,
     FailedTyped, RedisTyped, CrashTyped
<1> QED BY <1>1, <1>2

(* Every state of the devices is well typed, and each request is at a stage *)
(* of its kind with a document it has read.                                 *)
THEOREM StagesHold == Spec => []Typed
BY InitTyped, NextTyped, PTL DEF Spec

(* Every state of the devices is well typed. *)
THEOREM DevicesTypeCorrect == Spec => []TypeOK
<1>1. Typed => TypeOK
  BY DEF Typed
<1> QED BY <1>1, StagesHold, PTL
-----------------------------------------------------------------------------
(* What calls have changed stays. *)

(* A call that is under way, or saved, has been made.                       *)
CallsKnown ==
  /\ \A i \in jobs : i.no <= Len(asked) /\ asked[i.no] = i.req
  /\ saved \subseteq 1..Len(asked)

(* It overlaps every later one. *)
OverKnown ==
  \A i \in jobs, k \in Calls : i.no < k /\ k <= Len(asked) => <<i.no, k>> \in over

(* A document that was read shows what a call saved had changed, unless     *)
(* the calls overlapped.                                                    *)
CopiesShow ==
  \A i \in jobs, k \in saved :
    i.copy # None /\ asked[k].op \in Changes /\ asked[k].udid = i.udid =>
      \/ i.no = k \/ Pair(k, i.no)
      \/ Shows(asked[k], i.copy) \/ Outdone(k)

ChangesInv == CallsKnown /\ OverKnown /\ CopiesShow /\ ChangesStay

LEMMA CallOfNone ==
  ASSUME NEW r \in Requests, Call(r)
  PROVE  \A i \in jobs' : i \in jobs \/ (i.copy = None /\ i.at = "get")
BY DEF Call

LEMMA AskedTyped ==
  ASSUME Typed
  PROVE  /\ \A k \in 1..Len(asked) : asked[k] \in Request
         /\ Len(asked) \in Nat
         /\ \A i \in jobs : i.no \in Calls /\ i.no \in Nat /\ i.by \in {0, i.no}
BY DevicesAssumption DEF Typed, TypeOK, StagesOK, Staged, Job, Calls

LEMMA OutdoneStays ==
  ASSUME Typed, NEW r \in Requests, Call(r), NEW k \in 1..Len(asked)
  PROVE  /\ asked'[k] = asked[k]
         /\ Outdone(k) => Outdone(k)'
         /\ \A m : Pair(k, m) => Pair(k, m)'
<1>1. /\ asked' = Append(asked, r) /\ over \subseteq over'
      /\ asked \in Seq(Requests)
  BY DEF Call, Typed, TypeOK
<1>2. \A m \in 1..Len(asked) : asked'[m] = asked[m] /\ m \in 1..Len(asked')
  BY <1>1
<1>3. \A m : Pair(k, m) => Pair(k, m)'
  BY <1>1 DEF Pair
<1>4. ASSUME Outdone(k) PROVE Outdone(k)'
  <2>1. PICK m \in 1..Len(asked) :
           \/ Pair(k, m) /\ asked[m].op \in Whole
           \/ (m > k \/ Pair(k, m)) /\ Rival(asked[k], asked[m])
    BY <1>4 DEF Outdone
  <2>2. asked'[m] = asked[m] /\ asked'[k] = asked[k] /\ m \in 1..Len(asked')
    BY <1>2
  <2>3. Pair(k, m) => Pair(k, m)'
    BY <1>3
  <2>4. \/ Pair(k, m)' /\ asked'[m].op \in Whole
        \/ (m > k \/ Pair(k, m)') /\ Rival(asked'[k], asked'[m])
    BY <2>1, <2>2, <2>3
  <2> QED BY <2>2, <2>4 DEF Outdone
<1> QED BY <1>2, <1>3, <1>4

LEMMA CallKeepsChanges ==
  ASSUME Typed, ChangesInv, NEW r \in Requests, Call(r)
  PROVE  ChangesInv'
<1> DEFINE n == Len(asked) + 1
<1>1. /\ asked' = Append(asked, r) /\ asked \in Seq(Requests) /\ Len(asked) \in Nat
      /\ over' = over \cup {<<j.no, n>> : j \in jobs}
      /\ UNCHANGED <<doc, saved>>
  BY AskedTyped DEF Call, Typed, TypeOK
<1>2. \A i \in jobs' : i \in jobs \/ (i.copy = None /\ i.no = n /\ i.req = r)
  BY DEF Call
<1>3. /\ Len(asked') = n /\ asked'[n] = r
      /\ \A k \in 1..Len(asked) : asked'[k] = asked[k]
  BY <1>1
<1>4. \A i \in jobs : i.no \in 1..Len(asked) /\ i.no \in Nat
  BY AskedTyped, DevicesAssumption DEF ChangesInv, CallsKnown, Calls
<1>5. CallsKnown'
  BY <1>1, <1>2, <1>3, <1>4 DEF ChangesInv, CallsKnown
<1>6. OverKnown'
  <2>1. ASSUME NEW i \in jobs', NEW k \in Calls, i.no < k, k <= n
        PROVE  <<i.no, k>> \in over'
    <3>1. k \in Nat
      BY DevicesAssumption DEF Calls
    <3>2. i \in jobs
      BY <1>2, <2>1, <3>1, <1>1
    <3>3. CASE k = n
      BY <1>1, <3>2, <3>3
    <3>4. CASE k # n
      BY <1>1, <2>1, <3>1, <3>2, <3>4 DEF ChangesInv, OverKnown
    <3> QED BY <3>3, <3>4
  <2> QED BY <1>3, <2>1 DEF OverKnown
<1>7. \A k \in saved : k \in 1..Len(asked)
  BY DEF ChangesInv, CallsKnown
<1>8. CopiesShow'
  <2>1. ASSUME NEW i \in jobs', NEW k \in saved, i.copy # None,
               asked'[k].op \in Changes, asked'[k].udid = i.udid
        PROVE  \/ i.no = k \/ Pair(k, i.no)'
               \/ Shows(asked'[k], i.copy) \/ Outdone(k)'
    <3>1. i \in jobs /\ asked'[k] = asked[k]
      BY <1>2, <1>3, <1>7, <2>1
    <3>2. \/ i.no = k \/ Pair(k, i.no)
          \/ Shows(asked[k], i.copy) \/ Outdone(k)
      BY <2>1, <3>1 DEF ChangesInv, CopiesShow
    <3> QED BY <1>7, <3>1, <3>2, OutdoneStays
  <2> QED BY <1>1, <2>1 DEF CopiesShow
<1>9. ChangesStay'
  <2>1. ASSUME NEW k \in saved, asked'[k].op \in Changes
        PROVE  Shows(asked'[k], doc[asked'[k].udid]) \/ Outdone(k)'
    <3>1. asked'[k] = asked[k]
      BY <1>3, <1>7
    <3>2. Shows(asked[k], doc[asked[k].udid]) \/ Outdone(k)
      BY <2>1, <3>1 DEF ChangesInv, ChangesStay
    <3> QED BY <1>7, <3>1, <3>2, OutdoneStays
  <2> QED BY <1>1, <2>1 DEF ChangesStay
<1> QED BY <1>5, <1>6, <1>8, <1>9 DEF ChangesInv

(* A step of the call j that writes no document.                            *)
LEMMA RestKeepsChanges ==
  ASSUME Typed, ChangesInv, NEW j \in jobs, Continues(j),
         UNCHANGED <<doc, rev, asked, over, saved>>
  PROVE  ChangesInv'
<1>1. \A i \in jobs' : \E h \in jobs : i.no = h.no /\ i.req = h.req
  BY DEF Continues, Derived
<1>2. CallsKnown'
  BY <1>1 DEF ChangesInv, CallsKnown
<1>3. OverKnown'
  BY <1>1 DEF ChangesInv, OverKnown
<1>4. ChangesStay' /\ \A k : Outdone(k)' <=> Outdone(k)
  BY DEF ChangesInv, ChangesStay, Outdone, Pair
<1>5. CopiesShow'
  <2>1. ASSUME NEW i \in jobs', NEW k \in saved, i.copy # None,
               asked[k].op \in Changes, asked[k].udid = i.udid
        PROVE  \/ i.no = k \/ Pair(k, i.no)
               \/ Shows(asked[k], i.copy) \/ Outdone(k)
    <3>1. CASE i \in jobs
      BY <2>1, <3>1 DEF ChangesInv, CopiesShow
    <3>2. CASE i.copy = doc[i.udid]
      BY <2>1, <3>2 DEF ChangesInv, ChangesStay
    <3>3. CASE i.copy = j.copy /\ i.udid = j.udid /\ i.no = j.no
      BY <2>1, <3>3 DEF ChangesInv, CopiesShow
    <3> QED BY <2>1, <3>1, <3>2, <3>3 DEF Continues, Derived
  <2>2. \A k, m : Pair(k, m)' <=> Pair(k, m)
    BY DEF Pair
  <2> QED BY <1>4, <2>1, <2>2 DEF CopiesShow
<1> QED BY <1>2, <1>3, <1>4, <1>5 DEF ChangesInv

(* What a modify has changed, the document shows.                           *)
LEMMA ChangeShows ==
  ASSUME NEW j \in Job, j.req.op \in Changes, NEW d \in Device, NEW c \in Device
  PROVE  Shows(j.req, Change(j, d, c))
<1> DEFINE r == j.req
<1>1. r \in Request /\ d # None /\ c # None
  BY JobRequest, NoneIsNone
<1>2. CASE r.op = "edit"
  <2>1. Change(j, d, c) = [d EXCEPT ![r.field] = r.value]
    BY <1>2 DEF Change, Op
  <2>2. CASE r.field = "owner" /\ r.value \in Owners
    <3>1. [d EXCEPT !.owner = r.value] \in Device /\ [d EXCEPT !.owner = r.value].owner = r.value
      BY <2>2 DEF Device
    <3> QED BY <1>2, <2>1, <2>2, <3>1, NoneIsNone DEF Shows
  <2>3. CASE r.field = "jobs" /\ r.value \in Jobs
    <3>1. [d EXCEPT !.jobs = r.value] \in Device /\ [d EXCEPT !.jobs = r.value].jobs = r.value
      BY <2>3 DEF Device
    <3> QED BY <1>2, <2>1, <2>3, <3>1, NoneIsNone DEF Shows
  <2> QED BY <1>1, <1>2, <2>2, <2>3, RequestFields
<1>3. CASE r.op = "detach"
  <2>1. Change(j, d, c) = [d EXCEPT !.source = None]
    BY <1>3 DEF Change, Op
  <2>2. [d EXCEPT !.source = None] \in Device /\ [d EXCEPT !.source = None].source = None
    BY DEF Device
  <2> QED BY <1>3, <2>1, <2>2, NoneIsNone DEF Shows
<1>4. CASE r.op = "attach"
  <2>1. Change(j, d, c) = [c EXCEPT !.source = r.source] /\ r.source \in Sources
    BY <1>1, <1>4, RequestFields DEF Change, Op
  <2>2. [c EXCEPT !.source = r.source] \in Device /\ [c EXCEPT !.source = r.source].source = r.source
    BY <2>1 DEF Device
  <2> QED BY <1>4, <2>1, <2>2, NoneIsNone DEF Shows
<1>5. CASE r.op = "mesh"
  <2>1. Change(j, d, c) = [c EXCEPT !.meshes = @ \cup {r.mesh}] /\ r.mesh \in Meshes
    BY <1>1, <1>5, RequestFields DEF Change, Op
  <2>2. /\ [c EXCEPT !.meshes = @ \cup {r.mesh}] \in Device
        /\ r.mesh \in [c EXCEPT !.meshes = @ \cup {r.mesh}].meshes
    BY <2>1 DEF Device
  <2> QED BY <1>5, <2>1, <2>2, NoneIsNone DEF Shows
<1> QED BY <1>2, <1>3, <1>4, <1>5 DEF Changes

(* What it writes, the document there is or the one it has read.            *)
Base(j, d, c) == IF j.req.op \in Whole THEN c ELSE d

(* What another call had changed is still there, when it is no rival.       *)
LEMMA RestStays ==
  ASSUME NEW j \in Job, j.at = "modify", Staged(j),
         NEW d \in Device, NEW c \in Device, c = j.copy,
         NEW r \in Request, r.op \in Changes, r.udid = j.udid,
         Shows(r, Base(j, d, c)), ~Rival(r, j.req)
  PROVE  Shows(r, Change(j, d, c))
<1> DEFINE q == j.req
           e == Change(j, d, c)
<1> SUFFICES Shows(r, e)
  OBVIOUS
<1>1. q \in Request /\ e \in Device /\ e # None
  BY JobRequest, ChangeTyped, NoneIsNone
<1>2. q.op \in Changes => q.udid = r.udid
  BY DEF Staged
<1> HIDE DEF e
<1>3. CASE q.op = "edit"
  <2>1. e = [d EXCEPT ![q.field] = q.value] /\ Shows(r, d)
    BY <1>3 DEF Change, Op, Base, Whole, e
  <2>2. r.op = "edit" => r.field # q.field
    BY <1>2, <1>3 DEF Rival, Changes
  <2>3. q.field \in {"owner", "jobs"} /\ (r.op = "edit" => r.field \in {"owner", "jobs"})
    BY <1>1, <1>3, RequestFields
  <2>4. CASE q.field = "owner"
    <3>1. e = [d EXCEPT !.owner = q.value]
      BY <2>1, <2>4
    <3>2. e.jobs = d.jobs /\ e.source = d.source /\ e.meshes = d.meshes
      BY <3>1 DEF Device
    <3>3. r.op = "edit" => r.field = "jobs"
      BY <2>2, <2>3, <2>4
    <3> QED BY <1>1, <2>1, <3>2, <3>3 DEF Shows
  <2>5. CASE q.field = "jobs"
    <3>1. e = [d EXCEPT !.jobs = q.value]
      BY <2>1, <2>5
    <3>2. e.owner = d.owner /\ e.source = d.source /\ e.meshes = d.meshes
      BY <3>1 DEF Device
    <3>3. r.op = "edit" => r.field = "owner"
      BY <2>2, <2>3, <2>5
    <3> QED BY <1>1, <2>1, <3>2, <3>3 DEF Shows
  <2> QED BY <2>3, <2>4, <2>5
<1>4. CASE q.op \in {"attach", "detach", "drop"}
  <2>1. PICK b \in Device, x \in Sources \cup {None} : e = [b EXCEPT !.source = x] /\ Shows(r, b)
    <3>1. q.op \in {"attach", "drop"} => Shows(r, c) /\ q.source \in Sources
      BY <1>1, RequestFields DEF Base, Whole
    <3>2. q.op = "detach" => Shows(r, d) /\ e = [d EXCEPT !.source = None]
      BY DEF Base, Whole, Change, Op, e
    <3>3. q.op = "drop" => e = [c EXCEPT !.source = None]
      BY DEF Change, Op, e
    <3>4. q.op = "attach" => e = [c EXCEPT !.source = q.source]
      BY DEF Change, Op, e
    <3> QED BY <1>4, <3>1, <3>2, <3>3, <3>4
  <2>2. e.owner = b.owner /\ e.jobs = b.jobs /\ e.meshes = b.meshes
    BY <2>1 DEF Device
  <2>3. r.op \in {"edit", "mesh"} => Shows(r, e)
    <3>1. r.op = "edit" => r.field \in {"owner", "jobs"}
      BY RequestFields
    <3> QED BY <1>1, <2>1, <2>2, <3>1 DEF Shows
  <2>4. CASE q.op \in {"attach", "detach"}
    <3>1. r.op \notin {"attach", "detach"}
      BY <1>2, <2>4 DEF Rival, Changes
    <3> QED BY <2>3, <3>1 DEF Changes
  <2>5. CASE q.op = "drop"
    <3>1. c.source = q.source /\ Shows(r, c) /\ e = [c EXCEPT !.source = None]
      BY <2>5 DEF Staged, Base, Whole, Change, Op, e
    <3>2. r.op # "attach"
      BY <2>5, <3>1 DEF Rival, Shows
    <3>3. e.source = None
      BY <3>1 DEF Device
    <3>4. r.op = "detach" => Shows(r, e)
      <4> QED BY <1>1, <3>3 DEF Shows
    <3> QED BY <2>3, <3>2, <3>4 DEF Changes
  <2> QED BY <1>4, <2>4, <2>5
<1>5. CASE q.op = "mesh"
  <2>1. e = [c EXCEPT !.meshes = @ \cup {q.mesh}] /\ Shows(r, c)
    BY <1>5 DEF Change, Op, Base, Whole, e
  <2>2. /\ e.owner = c.owner /\ e.jobs = c.jobs /\ e.source = c.source
        /\ c.meshes \subseteq e.meshes
    BY <2>1 DEF Device
  <2>3. r.op = "edit" => r.field \in {"owner", "jobs"}
    BY RequestFields
  <2> QED BY <1>1, <2>1, <2>2, <2>3 DEF Shows
<1>6. CASE q.op \notin {"edit", "attach", "detach", "drop", "mesh"}
  BY <1>6 DEF Change, Op, Base, Whole, e
<1> QED BY <1>3, <1>4, <1>5, <1>6
LEMMA DocumentsKeepChanges ==
  ASSUME Typed, ChangesInv, NEW j \in jobs, Inserted(j) \/ Modified(j) \/ Destroyed(j)
  PROVE  ChangesInv'
<1> DEFINE m == j.no
           u == j.udid
<1>1. /\ j \in Job /\ Staged(j) /\ j.req \in Request /\ m \in 1..Len(asked) /\ m \in Calls
      /\ asked[m] = j.req /\ Len(asked) \in Nat
  BY AskedTyped, JobRequest, DevicesAssumption
     DEF Typed, TypeOK, StagesOK, ChangesInv, CallsKnown, Calls
<1>2. UNCHANGED <<asked, over>> /\ jobs' \subseteq jobs
  BY DEF Inserted, Modified, Destroyed, Goto
<1>3. saved' \subseteq saved \cup {m}
  BY <1>1 DEF Staged, Inserted, Modified, Destroyed, Save
<1>4. (\A k : Outdone(k)' <=> Outdone(k)) /\ (\A k, n : Pair(k, n)' <=> Pair(k, n))
  BY <1>2 DEF Outdone, Pair
<1>5. CallsKnown' /\ OverKnown'
  BY <1>1, <1>2, <1>3 DEF ChangesInv, CallsKnown, OverKnown
<1>6. saved \subseteq 1..Len(asked) /\ saved \subseteq Calls
  BY DEF ChangesInv, CallsKnown, Typed, TypeOK
<1>7. CopiesShow'
  <2>1. ASSUME NEW i \in jobs, NEW k \in saved', i.copy # None,
               asked[k].op \in Changes, asked[k].udid = i.udid
        PROVE  \/ i.no = k \/ Pair(k, i.no)
               \/ Shows(asked[k], i.copy) \/ Outdone(k)
    <3>1. CASE k \in saved
      BY <2>1, <3>1 DEF ChangesInv, CopiesShow
    <3>2. CASE k = m
      <4>1. i.no \in Calls /\ i.no \in Nat /\ i.no <= Len(asked) /\ m \in Nat
        BY <1>1, AskedTyped DEF ChangesInv, CallsKnown
      <4>2. i.no < m => <<i.no, m>> \in over
        BY <1>1 DEF ChangesInv, OverKnown
      <4>3. m < i.no => <<m, i.no>> \in over
        BY <4>1 DEF ChangesInv, OverKnown
      <4> QED BY <3>2, <4>1, <4>2, <4>3 DEF Pair
    <3> QED BY <1>3, <3>1, <3>2
  <2> QED BY <1>2, <1>4, <2>1 DEF CopiesShow
(* A call saved before, other than j, is earlier than j or overlapped it.   *)
<1>8. ASSUME NEW k \in saved, k # m PROVE m > k \/ Pair(k, m)
  <2>1. k \in Nat /\ m \in Nat /\ k \in Calls /\ k <= Len(asked)
    BY <1>1, <1>6
  <2>2. m < k => <<m, k>> \in over
    BY <2>1 DEF ChangesInv, OverKnown
  <2> QED BY <1>8, <2>1, <2>2 DEF Pair
<1>9. \A k \in saved : asked[k].op \in Changes =>
        Shows(asked[k], doc[asked[k].udid]) \/ Outdone(k)
  BY DEF ChangesInv, ChangesStay
<1>10. ASSUME NEW k \in saved', asked[k].op \in Changes
       PROVE  Shows(asked[k], doc'[asked[k].udid]) \/ Outdone(k)
  <2> DEFINE r == asked[k]
  <2>1. r \in Request /\ r.udid \in Udids
    <3>1. k \in 1..Len(asked)
      BY <1>1, <1>3, <1>6
    <3>2. r \in Request
      BY <3>1, AskedTyped
    <3> QED BY <1>10, <3>2, RequestFields DEF Changes
  <2>2. doc \in [Udids -> Device \cup {None}]
    BY DEF Typed, TypeOK
  <2>3. CASE Inserted(j)
    <3>1. k \in saved
      <4>1. j.req.op = "register"
        BY <1>1, <2>3 DEF Inserted, At, Staged
      <4> QED BY <1>1, <1>3, <1>10, <4>1 DEF Changes
    <3>2. CASE doc'[r.udid] = doc[r.udid]
      BY <1>9, <1>10, <3>1, <3>2
    <3>3. CASE doc[r.udid] = None
      BY <1>9, <1>10, <3>1, <3>3 DEF Shows
    <3> QED BY <2>1, <2>2, <2>3, <3>2, <3>3 DEF Inserted
  <2>4. CASE Destroyed(j)
    <3>1. k \in saved
      BY <2>4 DEF Destroyed
    <3>2. CASE doc'[r.udid] = doc[r.udid]
      BY <1>9, <1>10, <3>1, <3>2
    <3>3. CASE doc'[r.udid] # doc[r.udid]
      <4>1. r.udid = u
        BY <2>1, <2>2, <2>4, <3>3 DEF Destroyed
      <4>2. j.req.op = "revoke" /\ u \in j.req.udids
        BY <1>1, <2>4 DEF Destroyed, At, Staged
      <4>3. Rival(r, asked[m])
        BY <1>1, <4>1, <4>2 DEF Rival
      <4>4. k # m
        BY <1>1, <1>10, <4>2 DEF Changes
      <4> QED BY <1>1, <1>8, <3>1, <4>3, <4>4 DEF Outdone
    <3> QED BY <3>2, <3>3
  <2>5. CASE Modified(j) /\ doc[u] = None
    <3>1. k \in saved /\ UNCHANGED doc
      BY <2>5 DEF Modified
    <3> QED BY <1>9, <1>10, <3>1
  <2>6. CASE Modified(j) /\ doc[u] # None
    <3>1. /\ j.at = "modify" /\ u \in Udids /\ j.copy \in Device /\ doc[u] \in Device
          /\ doc' = [doc EXCEPT ![u] = Change(j, doc[u], j.copy)]
      BY <2>6, ModifyIs DEF Modified, At, Sent
    <3>2. CASE k = m
      <4>1. r = j.req /\ r.udid = u
        BY <1>1, <1>10, <3>2 DEF Staged
      <4>2. Shows(r, Change(j, doc[u], j.copy))
        BY <1>1, <1>10, <3>1, <4>1, ChangeShows
      <4> QED BY <2>2, <3>1, <4>1, <4>2
    <3>3. CASE k # m /\ r.udid # u
      BY <1>3, <1>9, <1>10, <2>2, <3>1, <3>3
    <3>4. CASE k # m /\ r.udid = u
      <4>1. k \in saved /\ (m > k \/ Pair(k, m))
        BY <1>3, <1>8, <3>4
      <4>2. CASE Rival(r, j.req)
        BY <1>1, <4>1, <4>2 DEF Outdone
      <4>3. CASE j.req.op \in Whole /\ Pair(k, m)
        BY <1>1, <4>3 DEF Outdone
      <4>4. CASE ~Rival(r, j.req) /\ ~(j.req.op \in Whole /\ Pair(k, m)) /\ ~Outdone(k)
        <5>1. Shows(r, doc[u])
          BY <1>9, <1>10, <3>4, <4>1, <4>4
        <5>2. j.req.op \in Whole => Shows(r, j.copy)
          BY <1>10, <3>1, <3>4, <4>1, <4>4, NoneIsNone DEF ChangesInv, CopiesShow
        <5>3. Shows(r, Base(j, doc[u], j.copy))
          BY <5>1, <5>2 DEF Base
        <5>4. Shows(r, Change(j, doc[u], j.copy))
          BY <1>1, <1>10, <2>1, <3>1, <3>4, <4>4, <5>3, RestStays
        <5> QED BY <2>2, <3>1, <3>4, <5>4
      <4> QED BY <4>2, <4>3, <4>4
    <3> QED BY <3>2, <3>3, <3>4
  <2> QED BY <2>3, <2>4, <2>5, <2>6
<1>11. ChangesStay'
  BY <1>2, <1>4, <1>10 DEF ChangesStay
<1> QED BY <1>5, <1>7, <1>11 DEF ChangesInv

LEMMA CrashKeepsChanges ==
  ASSUME Typed, ChangesInv, Crash
  PROVE  ChangesInv'
<1>1. UNCHANGED <<doc, asked, over, saved>>
  BY DEF Crash, history
<1>2. \A i \in jobs' : \E h \in jobs : /\ i.no = h.no /\ i.req = h.req
                                       /\ i.copy = h.copy /\ i.udid = h.udid
  <2>1. ASSUME NEW i \in jobs'
        PROVE  \E h \in jobs : /\ i.no = h.no /\ i.req = h.req
                               /\ i.copy = h.copy /\ i.udid = h.udid
    <3>1. PICK h \in jobs : i = [h EXCEPT !.by = 0]
      BY <2>1, CrashIs DEF CrashLeaves
    <3>2. Same(i, h)
      BY <3>1, UnowedIs DEF Typed, TypeOK
    <3> QED BY <3>2 DEF Same
  <2> QED BY <2>1
<1>3. CallsKnown' /\ OverKnown' /\ ChangesStay'
  BY <1>1, <1>2 DEF ChangesInv, CallsKnown, OverKnown, ChangesStay, Outdone, Pair
<1>4. CopiesShow'
  BY <1>1, <1>2 DEF ChangesInv, CopiesShow, Outdone, Pair
<1> QED BY <1>3, <1>4 DEF ChangesInv

LEMMA NextKeepsChanges ==
  ASSUME Typed, ChangesInv, [Next]_vars
  PROVE  ChangesInv'
<1>1. CASE UNCHANGED <<doc, jobs, asked, over, saved>>
  BY <1>1 DEF ChangesInv, CallsKnown, OverKnown, CopiesShow, ChangesStay, Outdone, Pair
<1>2. CASE UNCHANGED vars
  BY <1>1, <1>2 DEF vars
<1>3. ASSUME NEW j \in jobs, Quiet(j) \/ Authorizes(j) \/ MeshFound(j) \/ Failed(j)
      PROVE  ChangesInv'
  <2>1. Continues(j)
    BY <1>3, OwnersContinue, FailedContinues DEF Quiet, Authorizes
  <2>2. UNCHANGED <<doc, rev, asked, over, saved>>
    BY <1>3 DEF Quiet, Authorizes, MeshFound, Failed, Reading, history
  <2> QED BY <2>1, <2>2, RestKeepsChanges
<1>4. CASE (\E g \in grants : Authorized(g)) \/ (\E u \in dels : KeyDeleted(u))
  BY <1>1, <1>4 DEF Authorized, KeyDeleted
<1>5. CASE Next
  BY <1>3, <1>4, <1>5, Steps, CallKeepsChanges, DocumentsKeepChanges, CrashKeepsChanges
<1> QED BY <1>2, <1>5

(* What a call that was answered as done has changed of a document stays    *)
(* there, however calls overlap and whatever fails, unless a later or       *)
(* overlapping call was to change the same, or attach, mesh or the removal  *)
(* of a source overlapped it: a check-in, an edit and detach write nothing  *)
(* they have read.                                                          *)
THEOREM ChangesAreKept == Spec => []ChangesStay
<1>1. Init => ChangesInv
  BY DEF Init, ChangesInv, CallsKnown, OverKnown, CopiesShow, ChangesStay
<1>2. ChangesInv => ChangesStay
  BY DEF ChangesInv
<1> QED BY <1>1, <1>2, NextKeepsChanges, StagesHold, PTL DEF Spec
-----------------------------------------------------------------------------
(* Topics. *)

(* A device has a topic of each mesh. *)
Covered(d, M) == \A m \in M : \E o \in Owners : <<o, m>> \in topics[d]

(* So has each that a document names, or one that was read and may be       *)
(* written again, or is about to name.                                      *)
TopicsInv ==
  /\ \A d \in Udids : doc[d] # None => Covered(d, doc[d].meshes)
  /\ \A i \in jobs :
       /\ i.copy # None => Covered(i.udid, i.copy.meshes)
       /\ i.at = "modify" /\ i.req.op = "mesh" => Covered(i.udid, {i.req.mesh})

TopicsStay == \A d \in Udids : topics[d] \subseteq topics'[d]

LEMMA NextAddsTopics ==
  ASSUME Typed, [Next]_vars
  PROVE  TopicsStay
<1>1. CASE UNCHANGED topics
  BY <1>1 DEF TopicsStay
<1>2. CASE \E j \in jobs : MeshFound(j)
  BY <1>2 DEF MeshFound, Typed, TypeOK, TopicsStay
<1>3. CASE \E g \in grants : Authorized(g)
  BY <1>3 DEF Authorized, Typed, TypeOK, TopicsStay
<1>4. CASE UNCHANGED vars
  BY <1>1, <1>4 DEF vars
<1>5. CASE Next
  <2>1. ASSUME NEW j \in jobs, \/ Quiet(j) \/ Authorizes(j) \/ Inserted(j)
                               \/ Modified(j) \/ Destroyed(j) \/ Failed(j)
        PROVE  UNCHANGED topics
    BY <2>1 DEF Quiet, Authorizes, Inserted, Modified, Destroyed, Failed, redis
  <2>2. (\E r \in Requests : Call(r)) \/ Crash \/ (\E u \in dels : KeyDeleted(u))
          => UNCHANGED topics
    BY DEF Call, Crash, KeyDeleted, redis
  <2> QED BY <1>1, <1>2, <1>3, <1>5, <2>1, <2>2, Steps
<1> QED BY <1>4, <1>5

LEMMA StillCovered ==
  ASSUME TopicsStay, NEW d \in Udids, NEW M, Covered(d, M)
  PROVE  Covered(d, M)'
BY DEF TopicsStay, Covered

(* What a modify leaves names the meshes of what it found, of what it had   *)
(* read, and the one it adds.                                               *)
LEMMA ChangedMeshes ==
  ASSUME NEW j \in Job, j.at = "modify", Staged(j), NEW d \in Device, NEW c \in Device,
         NEW m \in Change(j, d, c).meshes
  PROVE  m \in d.meshes \/ m \in c.meshes \/ (j.req.op = "mesh" /\ m = j.req.mesh)
<1> DEFINE r == j.req
<1>1. r \in Request
  BY JobRequest
<1>2. CASE r.op = "edit"
  <2>1. Change(j, d, c) = [d EXCEPT ![r.field] = r.value]
    BY <1>2 DEF Change, Op
  <2>2. CASE r.field = "owner"
    <3>1. [d EXCEPT !.owner = r.value].meshes = d.meshes
      BY DEF Device
    <3> QED BY <2>1, <2>2, <3>1
  <2>3. CASE r.field = "jobs"
    <3>1. [d EXCEPT !.jobs = r.value].meshes = d.meshes
      BY DEF Device
    <3> QED BY <2>1, <2>3, <3>1
  <2> QED BY <1>1, <1>2, <2>2, <2>3, RequestFields
<1>3. CASE r.op = "detach"
  BY <1>3 DEF Change, Op, Device
<1>4. CASE r.op = "drop"
  BY <1>4 DEF Change, Op, Device
<1>5. CASE r.op = "attach"
  BY <1>5 DEF Change, Op, Device
<1>6. CASE r.op = "mesh"
  BY <1>6 DEF Change, Op, Device
<1>7. CASE r.op \notin {"edit", "detach", "drop", "attach", "mesh"}
  BY <1>7 DEF Change, Op
<1> QED BY <1>2, <1>3, <1>4, <1>5, <1>6, <1>7

LEMMA DocumentsCovered ==
  ASSUME Typed, TopicsInv, TopicsStay, NEW j \in jobs,
         Inserted(j) \/ Modified(j) \/ Destroyed(j)
  PROVE  \A d \in Udids : doc'[d] # None => Covered(d, doc'[d].meshes)
<1> SUFFICES ASSUME NEW d \in Udids, doc'[d] # None
             PROVE  Covered(d, doc'[d].meshes)
  OBVIOUS
<1>1. doc[d] # None => Covered(d, doc[d].meshes)
  BY DEF TopicsInv
<1>2. doc \in [Udids -> Device \cup {None}]
  BY DEF Typed, TypeOK
<1>3. CASE doc'[d] = doc[d]
  BY <1>1, <1>3
<1>4. CASE doc'[d] # doc[d]
  <2>1. CASE Inserted(j)
    <3>1. doc'[d] = NewDevice(j.req)
      BY <1>2, <1>4, <2>1 DEF Inserted
    <3>2. NewDevice(j.req).meshes = {}
      BY DEF NewDevice
    <3> QED BY <3>1, <3>2 DEF Covered
  <2>2. CASE Modified(j)
    <3>1. doc'[d] = Sent(j) /\ d = j.udid /\ doc[j.udid] # None
      BY <1>2, <1>4, <2>2 DEF Modified
    <3>2. doc[d] \in Device /\ j.copy \in Device /\ j.copy # None
      BY <2>2, <3>1, ModifyIs, NoneIsNone
    <3>3. j \in Job /\ Staged(j) /\ j.at = "modify"
      BY <2>2 DEF Modified, At, Typed, TypeOK, StagesOK
    <3>4. ASSUME NEW m \in Sent(j).meshes
          PROVE  \E o \in Owners : <<o, m>> \in topics[d]
      <4>1. \/ m \in doc[d].meshes \/ m \in j.copy.meshes
            \/ j.req.op = "mesh" /\ m = j.req.mesh
        BY <3>1, <3>2, <3>3, <3>4, ChangedMeshes DEF Sent
      <4> QED BY <1>1, <3>1, <3>2, <3>3, <4>1 DEF TopicsInv, Covered
    <3> QED BY <3>1, <3>4 DEF Covered
  <2>3. CASE Destroyed(j)
    BY <1>2, <1>4, <2>3 DEF Destroyed
  <2> QED BY <2>1, <2>2, <2>3
<1> QED BY <1>3, <1>4

LEMMA UnderwayCovered ==
  ASSUME Typed, TopicsInv, TopicsStay, NEW j \in jobs, Continues(j), NEW i \in jobs'
  PROVE  /\ i.copy # None => Covered(i.udid, i.copy.meshes)'
         /\ i.at = "modify" /\ i.req.op = "mesh" => Covered(i.udid, {i.req.mesh})'
<1>1. CASE i \in jobs
  <2>1. Staged(i)
    BY <1>1 DEF Typed, StagesOK
  <2>2. i.copy # None => i.udid \in Udids
    BY <2>1 DEF Staged
  <2>3. i.at = "modify" => i.udid \in Udids
    BY <2>1 DEF Staged
  <2> QED BY <1>1, <2>2, <2>3, StillCovered DEF TopicsInv
<1>2. CASE Derived(i, j)
  <2>1. i.copy # None => i.udid \in Udids /\ Covered(i.udid, i.copy.meshes)
    BY <1>2 DEF Derived, Staged, TopicsInv
  <2>2. i.at = "modify" /\ i.req.op = "mesh" => Covered(i.udid, {i.req.mesh})'
    <3>1. i.at = "modify" /\ i.req.op = "mesh" => i.req.owner \in Owners
      BY <1>2, JobRequest, RequestFields DEF Derived
    <3> QED BY <1>2, <3>1 DEF Derived, Covered
  <2> QED BY <2>1, <2>2, StillCovered
<1> QED BY <1>1, <1>2 DEF Continues

LEMMA NextKeepsTopics ==
  ASSUME Typed, TopicsInv, [Next]_vars
  PROVE  TopicsInv'
<1>0. TopicsStay
  BY NextAddsTopics
<1>1. ASSUME NEW d \in Udids, doc'[d] # None PROVE Covered(d, doc[d].meshes)'
  <2>1. Covered(d, doc'[d].meshes)
    <3>1. CASE UNCHANGED doc
      BY <1>1, <3>1 DEF TopicsInv
    <3>2. CASE \E j \in jobs : Inserted(j) \/ Modified(j) \/ Destroyed(j)
      BY <1>0, <1>1, <3>2, DocumentsCovered
    <3>3. CASE UNCHANGED vars
      BY <3>1, <3>3 DEF vars
    <3>4. CASE Next
      <4>1. ASSUME NEW j \in jobs, Quiet(j) \/ Authorizes(j) \/ MeshFound(j) \/ Failed(j)
            PROVE  UNCHANGED doc
        BY <4>1 DEF Quiet, Authorizes, MeshFound, Failed, Reading
      <4>2. ASSUME \/ \E r \in Requests : Call(r)
                   \/ \E g \in grants : Authorized(g)
                   \/ \E u \in dels : KeyDeleted(u)
                   \/ Crash
            PROVE  UNCHANGED doc
        BY <4>2 DEF Call, Authorized, KeyDeleted, Crash
      <4> QED BY <3>1, <3>2, <3>4, <4>1, <4>2, Steps
    <3> QED BY <3>3, <3>4
  <2> QED BY <1>0, <2>1 DEF TopicsStay, Covered
<1>2. ASSUME NEW i \in jobs'
      PROVE  /\ i.copy # None => Covered(i.udid, i.copy.meshes)'
             /\ i.at = "modify" /\ i.req.op = "mesh" => Covered(i.udid, {i.req.mesh})'
  <2>1. CASE i \in jobs
    <3>1. i.copy # None \/ i.at = "modify" => i.udid \in Udids
      BY <2>1 DEF Typed, StagesOK, Staged
    <3> QED BY <1>0, <2>1, <3>1, StillCovered DEF TopicsInv
  <2>2. CASE \E j \in jobs : Continues(j)
    BY <1>0, <1>2, <2>2, UnderwayCovered
  <2>3. CASE UNCHANGED jobs
    BY <1>2, <2>1, <2>3
  <2>4. CASE Crash
    <3>1. PICK j \in jobs : i = [j EXCEPT !.by = 0]
      BY <1>2, <2>4, CrashIs DEF CrashLeaves
    <3>2. /\ j.copy = i.copy /\ j.udid = i.udid /\ j.at = i.at /\ j.req = i.req
      BY <3>1, UnowedIs DEF Typed, TypeOK, Same
    <3>3. i.copy # None \/ i.at = "modify" => i.udid \in Udids
      BY <3>2 DEF Typed, StagesOK, Staged
    <3>4. /\ i.copy # None => Covered(i.udid, i.copy.meshes)
          /\ i.at = "modify" /\ i.req.op = "mesh" => Covered(i.udid, {i.req.mesh})
      BY <3>2 DEF TopicsInv
    <3> QED BY <1>0, <3>3, <3>4, StillCovered
  <2>5. CASE \E r \in Requests : Call(r)
    BY <1>2, <2>1, <2>5, CallOfNone
  <2>6. CASE UNCHANGED vars
    BY <2>3, <2>6 DEF vars
  <2>7. CASE Next
    <3>1. ASSUME NEW j \in jobs, \/ Quiet(j) \/ Authorizes(j) \/ MeshFound(j)
                                 \/ Inserted(j) \/ Modified(j) \/ Destroyed(j) \/ Failed(j)
          PROVE  Continues(j)
      BY <3>1, RegisterContinues, OwnersContinue, FailedContinues DEF Quiet, Authorizes
    <3>2. (\E g \in grants : Authorized(g)) \/ (\E u \in dels : KeyDeleted(u))
            => UNCHANGED jobs
      BY DEF Authorized, KeyDeleted
    <3> QED BY <2>2, <2>3, <2>4, <2>5, <2>7, <3>1, <3>2, Steps
  <2> QED BY <2>6, <2>7
<1> QED BY <1>1, <1>2 DEF TopicsInv

LEMMA InitTopics == Init => TopicsInv
<1> SUFFICES ASSUME Init, NEW d \in Udids, doc[d] # None
             PROVE  Covered(d, doc[d].meshes)
  BY DEF Init, TopicsInv
<1>1. doc[d] \in Device /\ topics[d] = TopicsOf(doc[d])
  BY DevicesAssumption DEF Init
<1> QED BY <1>1 DEF Covered, TopicsOf, Device
-----------------------------------------------------------------------------
(* Credentials. *)

(* While the process runs, a device with a document, or one that is being   *)
(* stored, has a password or one on its way, unless it registered while it  *)
(* was being revoked.                                                       *)
Expected(d) ==
  doc[d] # None \/ \E i \in jobs : i.at = "insert" /\ i.udid = d
KeysInv ==
  ~disturbed => \A d \in Udids : d \notin raced /\ Expected(d)
                  => keys[d] # None \/ \E g \in grants : g.udid = d

(* A device that was revoked has none, or one that is being deleted, unless *)
(* a registration stored it later.                                          *)
GoneInv ==
  ~disturbed => \A d \in left : d \notin late => d \in dels \/ keys[d] = None

LEMMA NextKeepsGone ==
  ASSUME Typed, GoneInv, [Next]_vars
  PROVE  GoneInv'
<1>1. CASE UNCHANGED <<left, late, dels, keys, disturbed>>
  BY <1>1 DEF GoneInv
<1>2. CASE disturbed'
  BY <1>2 DEF GoneInv
<1>3. CASE \E g \in grants : Authorized(g)
  <2>1. PICK g \in grants : Authorized(g)
    BY <1>3
  <2>2. keys \in [Udids -> Owners \cup {None}] /\ left \subseteq Udids
    BY DEF Typed, TypeOK
  <2> QED BY <2>1, <2>2 DEF Authorized, GoneInv
<1>4. CASE \E u \in dels : KeyDeleted(u)
  <2>1. PICK u \in dels : KeyDeleted(u)
    BY <1>4
  <2>2. keys \in [Udids -> Owners \cup {None}] /\ left \subseteq Udids
    BY DEF Typed, TypeOK
  <2> QED BY <2>1, <2>2 DEF KeyDeleted, GoneInv
<1>5. CASE \E j \in jobs : Inserted(j)
  BY <1>5 DEF Inserted, redis, GoneInv
<1>6. CASE \E j \in jobs : Destroyed(j)
  BY <1>6 DEF Destroyed, GoneInv
<1>7. CASE UNCHANGED vars
  BY <1>1, <1>7 DEF vars
<1>8. CASE Next
  <2>1. ASSUME NEW j \in jobs, Quiet(j) \/ Authorizes(j) \/ MeshFound(j) \/ Modified(j)
        PROVE  UNCHANGED <<left, late, dels, keys, disturbed>>
    BY <2>1 DEF Quiet, Authorizes, MeshFound, Modified, Reading, redis, history
  <2>2. (\E r \in Requests : Call(r)) => UNCHANGED <<left, late, dels, keys, disturbed>>
    BY DEF Call, redis, history
  <2>3. (\E j \in jobs : Failed(j)) \/ Crash => disturbed'
    BY DEF Failed, Crash
  <2> QED BY <1>1, <1>2, <1>3, <1>4, <1>5, <1>6, <1>8, <2>1, <2>2, <2>3, Steps
<1> QED BY <1>7, <1>8

(* A device that is revoked keeps no password, unless a registration stored *)
(* one after it was gone, or the process or CouchDB failed.                 *)
THEOREM RevokedLoseCredentials == Spec => []CredsGone
<1>1. Init => GoneInv
  BY DEF Init, GoneInv
<1>2. GoneInv => CredsGone
  BY DEF GoneInv, CredsGone, Settled
<1> QED BY <1>1, <1>2, NextKeepsGone, StagesHold, PTL DEF Spec

(* Steps that add no document to store, and take no password.               *)
LEMMA ExpectsNoMore ==
  ASSUME KeysInv, UNCHANGED disturbed, UNCHANGED raced,
         \A d \in Udids : Expected(d)' => Expected(d) \/ \E g \in grants' : g.udid = d,
         grants \subseteq grants', UNCHANGED keys
  PROVE  KeysInv'
<1> SUFFICES ASSUME ~disturbed, NEW d \in Udids, d \notin raced, Expected(d)'
             PROVE  keys[d] # None \/ \E g \in grants' : g.udid = d
  BY DEF KeysInv
<1>1. CASE Expected(d)
  BY <1>1 DEF KeysInv
<1> QED BY <1>1

LEMMA InsertsExpected ==
  ASSUME Typed, NEW j \in jobs, Continues(j), ~disturbed',
         NEW i \in jobs', i.at = "insert"
  PROVE  i \in jobs \/ \E g \in grants' : g.udid = i.udid
BY DEF Continues, Derived

LEMMA CallbackKeepsKeys ==
  ASSUME Typed, KeysInv, NEW j \in jobs,
         \/ Quiet(j) \/ Authorizes(j) \/ MeshFound(j)
         \/ Inserted(j) \/ Modified(j) \/ Destroyed(j)
  PROVE  KeysInv'
<1>1. Continues(j) /\ UNCHANGED <<disturbed, raced, keys>> /\ grants \subseteq grants'
  BY RegisterContinues, OwnersContinue
     DEF Quiet, Authorizes, MeshFound, Inserted, Modified, Destroyed, Reading, redis,
         history, Authorize
<1>2. ASSUME NEW d \in Udids, ~disturbed, Expected(d)'
      PROVE  Expected(d) \/ \E g \in grants' : g.udid = d
  <2>1. CASE doc'[d] # None
    <3>1. CASE doc[d] # None
      BY <3>1 DEF Expected
    <3>2. CASE doc[d] = None
      <4>1. Inserted(j) /\ d = j.udid
        BY <2>1, <3>2 DEF Quiet, Authorizes, MeshFound, Inserted, Modified, Destroyed,
                          Reading, Typed, TypeOK
      <4> QED BY <4>1 DEF Inserted, At, Expected
    <3> QED BY <3>1, <3>2
  <2>2. CASE \E i \in jobs' : i.at = "insert" /\ i.udid = d
    BY <1>1, <1>2, <2>2, InsertsExpected DEF Expected
  <2> QED BY <1>2, <2>1, <2>2 DEF Expected
<1>3. CASE ~disturbed
  BY <1>1, <1>2, <1>3, ExpectsNoMore
<1>4. CASE disturbed
  BY <1>1, <1>4 DEF KeysInv
<1> QED BY <1>3, <1>4

LEMMA NextKeepsKeys ==
  ASSUME Typed, KeysInv, [Next]_vars
  PROVE  KeysInv'
<1>1. CASE disturbed'
  BY <1>1 DEF KeysInv
<1>2. CASE \E g \in grants : Authorized(g)
  <2>1. PICK g \in grants : Authorized(g)
    BY <1>2
  <2>2. g.udid \in Udids /\ g.owner # None /\ keys \in [Udids -> Owners \cup {None}]
    BY NoneIsNone DEF Typed, TypeOK, Grant
  <2>3. UNCHANGED <<doc, jobs, disturbed>>
    BY <2>1 DEF Authorized
  <2> SUFFICES ASSUME ~disturbed, NEW d \in Udids, d \notin raced', Expected(d)
               PROVE  keys'[d] # None \/ \E h \in grants' : h.udid = d
    BY <2>3 DEF KeysInv, Expected
  <2>4. CASE d = g.udid
    BY <2>1, <2>2, <2>4 DEF Authorized
  <2>5. CASE d # g.udid
    BY <2>1, <2>2, <2>5 DEF Authorized, KeysInv
  <2> QED BY <2>4, <2>5
<1>3. CASE \E u \in dels : KeyDeleted(u)
  <2>1. PICK u \in dels : KeyDeleted(u)
    BY <1>3
  <2>2. keys \in [Udids -> Owners \cup {None}]
    BY DEF Typed, TypeOK
  <2>3. UNCHANGED <<doc, jobs, disturbed, grants>>
    BY <2>1 DEF KeyDeleted
  <2> SUFFICES ASSUME ~disturbed, NEW d \in Udids, d \notin raced', Expected(d)
               PROVE  keys'[d] # None \/ \E h \in grants : h.udid = d
    BY <2>3 DEF KeysInv, Expected
  <2>4. CASE d = u
    BY <2>1, <2>4 DEF KeyDeleted, Expected, At
  <2>5. CASE d # u
    BY <2>1, <2>2, <2>5 DEF KeyDeleted, KeysInv
  <2> QED BY <2>4, <2>5
<1>4. CASE UNCHANGED vars
  BY <1>4 DEF vars, redis, history, KeysInv, Expected
<1>5. CASE \E r \in Requests : Call(r)
  BY <1>5, CallOfNone DEF Call, redis, history, KeysInv, Expected
<1>6. CASE Next
  <2>1. (\E j \in jobs : Failed(j)) \/ Crash => disturbed'
    BY DEF Failed, Crash
  <2> QED BY <1>1, <1>2, <1>3, <1>5, <1>6, <2>1, Steps, CallbackKeepsKeys
<1> QED BY <1>4, <1>6

LEMMA InitKeys == Init => KeysInv
<1> SUFFICES ASSUME Init, NEW d \in Udids, Expected(d)
             PROVE  keys[d] # None
  BY DEF KeysInv
<1>1. doc[d] \in Device
  BY DevicesAssumption DEF Init, Expected
<1> QED BY <1>1, NoneIsNone DEF Init, Device

(* A device with a document has a password once none is being hashed or     *)
(* deleted, unless it registered while it was being revoked, and a topic of *)
(* each of its meshes.                                                      *)
THEOREM DevicesCanConnect == Spec => []CanConnect
<1>1. TopicsInv /\ KeysInv => CanConnect
  BY DEF TopicsInv, KeysInv, CanConnect, Covered, Expected, Settled
<1>2. Typed /\ TopicsInv /\ KeysInv /\ [Next]_vars => TopicsInv' /\ KeysInv'
  BY NextKeepsTopics, NextKeepsKeys
<1> QED BY <1>1, <1>2, InitTopics, InitKeys, StagesHold, PTL DEF Spec
=============================================================================
