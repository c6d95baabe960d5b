--------------------------- MODULE RemoteBuildProofs ---------------------------
(* Proofs about RemoteBuild, for every value of its constants. *)
EXTENDS RemoteBuild, TLAPS

(* TypeOK in two halves, of the calls and of everything else. *)
CallsOK ==
  /\ stage \in [Builds -> Stages]
  /\ call \in [Builds -> Call \cup {None}]
  /\ \A b \in Builds : stage[b] \in Preparing => call[b] \in Call
  /\ \A b \in Builds : stage[b] \in Preparing \ {"view"} => call[b].device \in Udids
  /\ answer \in [Builds -> {"none", "refused", "started", "again"}]

LogOK ==
  /\ record \in [Builds -> States \cup {None}]
  /\ pending \in SUBSET Request
  /\ expected \in [Builds -> States \cup {None, "lost"}]

SocketsOK ==
  /\ jobs \in [Sockets -> [Builds -> {"none", "running", "logged"}]]
  /\ listeners \in [Sockets -> SUBSET Builds]

DevicesOK == marked \in [Udids -> Builds \cup {None}]

JobsSentOK == sent \in SUBSET Builds

LEMMA TypeParts ==
  TypeOK <=> CallsOK /\ LogOK /\ SocketsOK /\ DevicesOK /\ JobsSentOK
BY DEF TypeOK, CallsOK, LogOK, SocketsOK, DevicesOK, JobsSentOK

(* A call that has not ended has not been answered. *)
Unanswered ==
  \A b \in Builds : stage[b] \in Preparing \cup {"new"} => answer[b] = "none"

IInv == TypeOK /\ Unanswered
-----------------------------------------------------------------------------
(* The building blocks of the actions. *)

LEMMA LogType ==
  ASSUME LogOK, NEW C \in SUBSET Builds, NEW s \in States,
         NEW by \in (Sockets \cup {None}) \X Builds, Log(C, s, by)
  PROVE  LogOK'
<1>1. pending' \in SUBSET Request
  BY DEF LogOK, Log, Request
<1>2. expected' \in [Builds -> States \cup {None, "lost"}]
  BY DEF LogOK, Log, Lose
<1> QED BY <1>1, <1>2 DEF LogOK, Log

LEMMA LogSame == ASSUME LogOK, UNCHANGED logVars PROVE LogOK'
BY DEF LogOK, logVars

LEMMA SocketsSame == ASSUME SocketsOK, UNCHANGED socketVars PROVE SocketsOK'
BY DEF SocketsOK, socketVars

LEMMA PassesType ==
  ASSUME CallsOK, NEW b \in Builds, NEW s \in Preparing \ {"view"},
         NEW t \in Preparing, Passes(b, s, t)
  PROVE  CallsOK'
BY DEF CallsOK, Passes, Stages, Preparing

LEMMA LeavesType ==
  ASSUME CallsOK, NEW b \in Builds, NEW s \in Preparing, Leaves(b, s),
         answer' \in [Builds -> {"none", "refused", "started", "again"}]
  PROVE  CallsOK'
<1>1. stage' \in [Builds -> Stages] /\ call' \in [Builds -> Call \cup {None}]
  BY DEF CallsOK, Leaves, Stages
<1>2. stage'[b] = "over"
  BY DEF CallsOK, Leaves
<1>3. \A c \in Builds \ {b} : stage'[c] = stage[c] /\ call'[c] = call[c]
  BY DEF CallsOK, Leaves
<1> QED BY <1>1, <1>2, <1>3 DEF CallsOK, Preparing

LEMMA AnsweredType ==
  ASSUME CallsOK, NEW b \in Builds, NEW a \in {"refused", "started"},
         Answered(b, a)
  PROVE  answer' \in [Builds -> {"none", "refused", "started", "again"}]
BY DEF CallsOK, Answered

LEMMA RefusesType ==
  ASSUME CallsOK, NEW b \in Builds, NEW s \in Preparing, Refuses(b, s)
  PROVE  CallsOK'
BY LeavesType, AnsweredType DEF Refuses

LEMMA QuitsType ==
  ASSUME CallsOK, NEW b \in Builds, NEW s \in Preparing, Quits(b, s)
  PROVE  CallsOK'
BY LeavesType DEF Quits, CallsOK

LEMMA MarkType ==
  ASSUME DevicesOK, NEW b \in Builds
  PROVE  Mark(b) \in [Udids -> Builds \cup {None}]
BY DEF DevicesOK, Mark
-----------------------------------------------------------------------------
(* The actions preserve TypeOK. *)

LEMMA BuildType ==
  ASSUME TypeOK, NEW b \in Builds, NEW u \in Udids, NEW s \in Sockets,
         Build(b, u, s)
  PROVE  TypeOK'
<1>1. CallsOK'
  <2> DEFINE new == [udid |-> u, device |-> None, worker |-> s]
  <2>1. new \in Call
    BY DEF Call
  <2>2. stage' = [stage EXCEPT ![b] = "view"] /\ call' = [call EXCEPT ![b] = new]
    BY DEF Build
  <2> HIDE DEF new
  <2>3. stage' \in [Builds -> Stages] /\ call' \in [Builds -> Call \cup {None}]
    BY <2>1, <2>2 DEF TypeOK, Stages, Preparing
  <2>4. stage'[b] = "view" /\ call'[b] = new
    BY <2>2 DEF TypeOK
  <2>5. \A c \in Builds \ {b} : stage'[c] = stage[c] /\ call'[c] = call[c]
    BY <2>2 DEF TypeOK
  <2>6. answer' = answer
    BY DEF Build
  <2> QED BY <2>1, <2>3, <2>4, <2>5, <2>6 DEF TypeOK, CallsOK
<1>2. LogOK' /\ SocketsOK'
  BY LogSame, SocketsSame, TypeParts DEF Build
<1>3. DevicesOK' /\ JobsSentOK'
  BY DEF Build, TypeOK, DevicesOK, JobsSentOK
<1> QED BY <1>1, <1>2, <1>3, TypeParts DEF TypeOK, CallsOK, LogOK, SocketsOK, DevicesOK, JobsSentOK

LEMMA ViewType ==
  ASSUME CallsOK, NEW b \in Builds, NEW Listed \in SUBSET Udids,
         ViewAnswered(b, Listed)
  PROVE  CallsOK'
<1>1. PICK d \in Listed : call' = [call EXCEPT ![b].device = d]
  BY DEF ViewAnswered
<1>2. stage[b] = "view" /\ stage' = [stage EXCEPT ![b] = "user"] /\ answer' = answer
  BY DEF ViewAnswered
<1>3. call[b] \in Call
  BY <1>2 DEF CallsOK, Preparing
<1>4. call'[b] \in Call /\ call'[b].device = d
  BY <1>1, <1>3 DEF CallsOK, Call
<1>5. \A c \in Builds \ {b} : call'[c] = call[c] /\ stage'[c] = stage[c]
  BY <1>1, <1>2 DEF CallsOK
<1>6. stage' \in [Builds -> Stages] /\ stage'[b] = "user"
  BY <1>2 DEF CallsOK, Stages, Preparing
<1>7. call' \in [Builds -> Call \cup {None}]
  BY <1>1, <1>4, <1>5 DEF CallsOK
<1> QED BY <1>2, <1>4, <1>5, <1>6, <1>7 DEF CallsOK

LEMMA IdentifyType ==
  ASSUME TypeOK, NEW b \in Builds, Identify(b)
  PROVE  TypeOK'
<1>1. CallsOK'
  <2>0. CallsOK
    BY TypeParts
  <2>1. CASE \E Listed \in SUBSET Udids : ViewAnswered(b, Listed)
    BY <2>0, <2>1, ViewType
  <2>2. CASE Refuses(b, "view") \/ Refuses(b, "user")
    BY <2>0, <2>2, RefusesType DEF Preparing
  <2>3. CASE Quits(b, "view")
    BY <2>0, <2>3, QuitsType DEF Preparing
  <2>4. CASE Passes(b, "user", "modify")
    BY <2>0, <2>4, PassesType DEF Preparing
  <2> QED BY <2>1, <2>2, <2>3, <2>4 DEF Identify
<1>2. LogOK' /\ SocketsOK'
  BY LogSame, SocketsSame, TypeParts DEF Identify
<1> QED BY <1>1, <1>2 DEF Identify, TypeOK, CallsOK, LogOK, SocketsOK

LEMMA ModifyType ==
  ASSUME TypeOK, NEW b \in Builds, Modified(b) \/ ModifyFailed(b)
  PROVE  TypeOK'
<1>1. CallsOK'
  BY PassesType, RefusesType, TypeParts DEF Modified, ModifyFailed, Preparing
<1>2. LogOK'
  BY LogType, LogSame, TypeParts DEF Modified, ModifyFailed, States
<1>3. marked' \in [Udids -> Builds \cup {None}]
  BY MarkType, TypeParts DEF Modified, ModifyFailed, DevicesOK
<1>4. SocketsOK' /\ sent' = sent
  BY SocketsSame, TypeParts DEF Modified, ModifyFailed
<1> QED BY <1>1, <1>2, <1>3, <1>4 DEF TypeOK, CallsOK, LogOK, SocketsOK

LEMMA ConfigureType ==
  ASSUME TypeOK, NEW b \in Builds, Configure(b)
  PROVE  TypeOK'
<1>1. CallsOK'
  <2>0. CallsOK
    BY TypeParts
  <2>1. CASE \/ Passes(b, "device", "keys") \/ Passes(b, "keys", "platform")
             \/ Passes(b, "platform", "env")
    BY <2>0, <2>1, PassesType DEF Preparing
  <2>2. CASE Refuses(b, "device") \/ Quits(b, "keys")
    BY <2>0, <2>2, RefusesType, QuitsType DEF Preparing
  <2> QED BY <2>1, <2>2 DEF Configure
<1>2. LogOK' /\ SocketsOK'
  BY LogSame, SocketsSame, TypeParts DEF Configure
<1> QED BY <1>1, <1>2 DEF Configure, TypeOK, CallsOK, LogOK, SocketsOK

(* The ends of a call in which an error may be logged. *)
LEMMA EndType ==
  ASSUME TypeOK, NEW b \in Builds,
         Reject(b) \/ EnvRejected(b) \/ TemplateFailed(b)
  PROVE  TypeOK'
<1>1. CallsOK'
  BY RefusesType, QuitsType, TypeParts
     DEF Reject, EnvRejected, TemplateFailed, Preparing
<1>2. LogOK'
  BY LogType, LogSame, TypeParts DEF Reject, EnvRejected, TemplateFailed, States
<1>3. SocketsOK' /\ sent' = sent /\ marked' = marked
  BY SocketsSame, TypeParts DEF Reject, EnvRejected, TemplateFailed
<1> QED BY <1>1, <1>2, <1>3 DEF TypeOK, CallsOK, LogOK, SocketsOK

LEMMA StartType ==
  ASSUME TypeOK, NEW b \in Builds, Start(b)
  PROVE  TypeOK'
<1>1. CallsOK'
  BY LeavesType, AnsweredType, TypeParts DEF Start, Preparing
<1>2. LogOK'
  BY LogType, LogSame, TypeParts DEF Start, Header, States
<1>3. SocketsOK' /\ sent' \in SUBSET Builds
  <2>1. CASE Broadcast(b)
    BY <2>1 DEF Broadcast, TypeOK, SocketsOK
  <2>2. CASE UNCHANGED <<sent, socketVars>>
    BY <2>2, SocketsSame, TypeParts DEF TypeOK
  <2> QED BY <2>1, <2>2 DEF Start
<1> QED BY <1>1, <1>2, <1>3 DEF Start, TypeOK, CallsOK, LogOK, SocketsOK

LEMMA BuildLogType ==
  ASSUME TypeOK, BuildLog
  PROVE  TypeOK'
<1>1. PICK r \in pending :
        Got(r) \/ GetFailed(r) \/ Written(r) \/ WriteFailed(r)
  BY DEF BuildLog
<1>2. r \in Request /\ r.build \in Builds /\ r.state \in States
  BY DEF TypeOK, Request
<1>3. Followed(r, TRUE) \in Request /\ Followed(r, FALSE) \in Request
  BY <1>2 DEF Followed, Request
<1>4. expected' \in [Builds -> States \cup {None, "lost"}]
  BY <1>1 DEF TypeOK, Lose, Got, GetFailed, Written, WriteFailed
<1>5. pending' \in SUBSET Request
  BY <1>1, <1>3 DEF TypeOK, Got, GetFailed, Written, WriteFailed
<1>6. Executed(r) \in States \cup {None}
  BY <1>2 DEF TypeOK, Executed, Request
<1>7. record' \in [Builds -> States \cup {None}]
  BY <1>1, <1>6 DEF TypeOK, Got, GetFailed, Written, WriteFailed
<1>8. UNCHANGED <<stage, call, answer, marked, sent, jobs, listeners>>
  BY DEF BuildLog, socketVars
<1> QED BY <1>4, <1>5, <1>7, <1>8 DEF TypeOK

LEMMA ReportType ==
  ASSUME TypeOK, NEW s \in Sockets, NEW b \in Builds, Report(s, b)
  PROVE  TypeOK'
<1>1. LogOK'
  <2>1. listeners[s] \in SUBSET Builds
        /\ <<s, b>> \in (Sockets \cup {None}) \X Builds
    BY DEF TypeOK
  <2> QED BY <2>1, LogType, LogSame, TypeParts
          DEF Report, LogLine, JobStatus, States
<1>2. jobs' \in [Sockets -> [Builds -> {"none", "running", "logged"}]]
  <2>1. PICK j \in {"none", "logged"} : jobs' = [jobs EXCEPT ![s][b] = j]
    BY DEF Report, LogLine, JobStatus
  <2> QED BY <2>1 DEF TypeOK
<1>3. UNCHANGED <<stage, call, answer, marked, sent, listeners>>
  BY DEF Report
<1> QED BY <1>1, <1>2, <1>3 DEF TypeOK, LogOK

LEMMA NoJobsType ==
  NoJobs \in [Sockets -> [Builds -> {"none", "running", "logged"}]]
BY DEF NoJobs

LEMMA DisconnectType ==
  ASSUME TypeOK, NEW s \in Sockets, Disconnect(s)
  PROVE  TypeOK'
<1>1. CallsOK'
  <2>1. ASSUME NEW b \in Builds, call[b] # None
        PROVE  /\ [call[b] EXCEPT !.worker = None] \in Call
               /\ [call[b] EXCEPT !.worker = None].device = call[b].device
    BY <2>1 DEF TypeOK, Call
  <2>2. \A b \in Builds :
          \/ call'[b] = call[b]
          \/ call[b] # None /\ call'[b] = [call[b] EXCEPT !.worker = None]
    BY DEF Disconnect
  <2>3. call' \in [Builds -> Call \cup {None}]
    <3>1. \A b \in Builds : call'[b] \in Call \cup {None}
      BY <2>1, <2>2 DEF TypeOK
    <3> QED BY <3>1 DEF Disconnect
  <2>4. \A b \in Builds : call[b] \in Call =>
          call'[b] \in Call /\ call'[b].device = call[b].device
    BY <2>1, <2>2
  <2> QED BY <2>3, <2>4 DEF Disconnect, TypeOK, CallsOK
<1>2. SocketsOK'
  BY NoJobsType DEF Disconnect, TypeOK, SocketsOK
<1>3. LogOK' /\ UNCHANGED <<marked, sent>>
  BY LogSame, TypeParts DEF Disconnect
<1> QED BY <1>1, <1>2, <1>3 DEF TypeOK, CallsOK, LogOK, SocketsOK

LEMMA ExitType ==
  ASSUME TypeOK, Exit
  PROVE  TypeOK'
<1>1. stage' \in [Builds -> Stages] /\ \A b \in Builds : stage'[b] \notin Preparing
  BY DEF Exit, TypeOK, Stages, Preparing
<1>2. call' \in [Builds -> Call \cup {None}] /\ answer' = answer /\ sent' = sent
  BY DEF Exit
<1>3. expected' \in [Builds -> States \cup {None, "lost"}]
  BY DEF Exit, TypeOK, Lose
<1>4. SocketsOK'
  BY NoJobsType DEF Exit, SocketsOK
<1>5. marked' \in [Udids -> Builds \cup {None}]
  BY DEF Exit
<1>6. pending' = {} /\ record' = record
  BY DEF Exit
<1> QED BY <1>1, <1>2, <1>3, <1>4, <1>5, <1>6 DEF TypeOK, SocketsOK
-----------------------------------------------------------------------------
(* What the actions do to the calls: the steps of the contract. *)

Ended(b, a) ==
  /\ stage[b] \in Preparing
  /\ stage' = [stage EXCEPT ![b] = "over"]
  /\ answer' = [answer EXCEPT ![b] = a]

GivenUp ==
  /\ stage' \in [Builds -> Stages]
  /\ \A b \in Builds : stage'[b] # stage[b] =>
       stage[b] \in Preparing /\ (stage'[b] \in Preparing \/ stage'[b] = "over")
  /\ UNCHANGED answer

LEMMA PassesGivesUp ==
  ASSUME CallsOK, NEW b \in Builds, NEW s \in Preparing, NEW t \in Preparing,
         Passes(b, s, t)
  PROVE  GivenUp
BY DEF CallsOK, Passes, GivenUp, Stages

LEMMA QuitsGivesUp ==
  ASSUME CallsOK, NEW b \in Builds, NEW s \in Preparing, Quits(b, s)
  PROVE  GivenUp
BY DEF CallsOK, Quits, Leaves, GivenUp, Stages

LEMMA RefusesEnds ==
  ASSUME CallsOK, Unanswered, NEW b \in Builds, NEW s \in Preparing,
         Refuses(b, s)
  PROVE  Ended(b, "refused")
BY DEF CallsOK, Unanswered, Refuses, Leaves, Answered, Ended

(* Every step is one of five kinds. *)
LEMMA Kinds ==
  ASSUME IInv, Next
  PROVE  \/ GivenUp /\ UNCHANGED sent
         \/ \E b \in Builds :
              /\ stage[b] = "new" /\ stage' = [stage EXCEPT ![b] = "view"]
              /\ UNCHANGED <<answer, sent>>
         \/ \E b \in Builds : Ended(b, "refused") /\ UNCHANGED sent
         \/ \E b \in Builds :
              Ended(b, "started") /\ sent' \in {sent, sent \cup {b}}
<1>0. CallsOK /\ Unanswered
  BY TypeParts DEF IInv
<1>1. ASSUME UNCHANGED <<stage, answer>> PROVE GivenUp
  BY <1>0, <1>1 DEF GivenUp, CallsOK
<1>2. ASSUME NEW b \in Builds, NEW u \in Udids, NEW s \in Sockets, Build(b, u, s)
      PROVE  /\ stage[b] = "new" /\ stage' = [stage EXCEPT ![b] = "view"]
             /\ UNCHANGED <<answer, sent>>
  BY <1>2 DEF Build
<1>3. ASSUME NEW b \in Builds, Identify(b)
      PROVE  (GivenUp \/ Ended(b, "refused")) /\ UNCHANGED sent
  <2>1. ASSUME NEW Listed \in SUBSET Udids, ViewAnswered(b, Listed)
        PROVE  GivenUp
    BY <1>0, <2>1 DEF ViewAnswered, GivenUp, CallsOK, Stages, Preparing
  <2>2. CASE Refuses(b, "view") \/ Refuses(b, "user")
    BY <1>0, <1>3, <2>2, RefusesEnds DEF Identify, Preparing
  <2>3. CASE Quits(b, "view") \/ Passes(b, "user", "modify")
    BY <1>0, <1>3, <2>3, QuitsGivesUp, PassesGivesUp DEF Identify, Preparing
  <2> QED BY <1>3, <2>1, <2>2, <2>3 DEF Identify
<1>4. ASSUME NEW b \in Builds, Modified(b) \/ ModifyFailed(b)
      PROVE  (GivenUp \/ Ended(b, "refused")) /\ UNCHANGED sent
  BY <1>0, <1>4, PassesGivesUp, RefusesEnds DEF Modified, ModifyFailed, Preparing
<1>5. ASSUME NEW b \in Builds, Configure(b)
      PROVE  (GivenUp \/ Ended(b, "refused")) /\ UNCHANGED sent
  <2>1. CASE \/ Passes(b, "device", "keys") \/ Passes(b, "keys", "platform")
             \/ Passes(b, "platform", "env")
    BY <1>0, <1>5, <2>1, PassesGivesUp DEF Configure, Preparing
  <2>2. CASE Refuses(b, "device") \/ Quits(b, "keys")
    BY <1>0, <1>5, <2>2, RefusesEnds, QuitsGivesUp DEF Configure, Preparing
  <2> QED BY <1>5, <2>1, <2>2 DEF Configure
<1>6. ASSUME NEW b \in Builds, Reject(b) \/ EnvRejected(b) \/ TemplateFailed(b)
      PROVE  (GivenUp \/ Ended(b, "refused")) /\ UNCHANGED sent
  BY <1>0, <1>6, RefusesEnds, QuitsGivesUp
     DEF Reject, EnvRejected, TemplateFailed, Preparing
<1>7. ASSUME NEW b \in Builds, Start(b)
      PROVE  Ended(b, "started") /\ sent' \in {sent, sent \cup {b}}
  BY <1>0, <1>7
     DEF Start, Broadcast, Leaves, Answered, Ended, Unanswered, CallsOK, Preparing
<1>8. ASSUME Exit PROVE GivenUp /\ UNCHANGED sent
  BY <1>0, <1>8 DEF Exit, GivenUp, CallsOK, Stages
<1>9. ASSUME BuildLog PROVE GivenUp /\ UNCHANGED sent
  BY <1>1, <1>9 DEF BuildLog
<1>10. ASSUME NEW s \in Sockets, NEW b \in Builds, Report(s, b)
       PROVE  GivenUp /\ UNCHANGED sent
  BY <1>1, <1>10 DEF Report
<1>11. ASSUME NEW s \in Sockets, Disconnect(s) PROVE GivenUp /\ UNCHANGED sent
  BY <1>1, <1>11 DEF Disconnect
<1> QED BY <1>2, <1>3, <1>4, <1>5, <1>6, <1>7, <1>8, <1>9, <1>10, <1>11
        DEF Next, Prepare, Crash
-----------------------------------------------------------------------------
(* The inductive invariant. *)

LEMMA InitInv == ASSUME Init PROVE IInv
<1>1. TypeOK
  BY NoJobsType DEF Init, TypeOK, Stages, Preparing
<1> QED BY <1>1 DEF Init, IInv, Unanswered

LEMMA NextType == ASSUME TypeOK, Next PROVE TypeOK'
<1>1. ASSUME NEW b \in Builds, Prepare(b) PROVE TypeOK'
  BY <1>1, BuildType, IdentifyType, ModifyType, ConfigureType, EndType, StartType
     DEF Prepare
<1> QED BY <1>1, BuildLogType, ReportType, DisconnectType, ExitType DEF Next, Crash

LEMMA NextUnanswered == ASSUME IInv, Next PROVE Unanswered'
<1>0. CallsOK /\ Unanswered
  BY TypeParts DEF IInv
<1>1. CASE GivenUp
  BY <1>0, <1>1 DEF GivenUp, Unanswered, Preparing
<1>2. ASSUME NEW b \in Builds, stage[b] = "new",
             stage' = [stage EXCEPT ![b] = "view"], UNCHANGED answer
      PROVE  Unanswered'
  BY <1>0, <1>2 DEF Unanswered, CallsOK, Preparing
<1>3. ASSUME NEW b \in Builds, NEW a, Ended(b, a) PROVE Unanswered'
  BY <1>0, <1>3 DEF Ended, Unanswered, CallsOK, Preparing
<1> QED BY Kinds, <1>1, <1>2, <1>3

LEMMA Invariance == Spec => []IInv
<1>1. IInv /\ [Next]_vars => IInv'
  <2>1. IInv /\ Next => IInv'
    BY NextType, NextUnanswered DEF IInv
  <2>2. IInv /\ UNCHANGED vars => IInv'
    BY DEF IInv, TypeOK, Unanswered, vars, logVars, socketVars
  <2> QED BY <2>1, <2>2
<1> QED BY InitInv, <1>1, PTL DEF Spec

(* Every variable keeps its type; a call has its closure while builder.build  *)
(* and run_build prepare it, and a device once the owner's devices are known. *)
THEOREM TypeCorrect == Spec => []TypeOK
BY Invariance, PTL DEF IInv

(* A call of builder.build is answered at most once and its job is broadcast  *)
(* at most once, in the step that answers "started": RemoteBuild implements   *)
(* BuilderContract.                                                         *)
THEOREM Refinement == Spec => HonoursContract
<1>1. Init => Contract!Init
  BY DEF Init, Contract!Init, Phase, Preparing
<1>2. IInv /\ IInv' /\ [Next]_vars
        => [Contract!Next]_<<[b \in Builds |-> Phase(b)], answer, sent>>
  <2> SUFFICES ASSUME IInv, IInv', [Next]_vars
               PROVE  [Contract!Next]_<<[b \in Builds |-> Phase(b)], answer, sent>>
    OBVIOUS
  <2>0. CallsOK /\ Unanswered
    BY TypeParts DEF IInv
  <2>1. CASE UNCHANGED vars
    BY <2>1 DEF vars, Phase
  <2>2. CASE GivenUp /\ UNCHANGED sent
    <3>1. \A b \in Builds : Phase(b)' \in Contract!Phases
      BY <2>0, <2>2 DEF GivenUp, Phase, Contract!Phases, Stages, Preparing
    <3>2. \A b \in Builds : Phase(b)' # Phase(b) =>
            Phase(b) = "asked" /\ Phase(b)' = "over"
      BY <2>2 DEF GivenUp, Phase, Preparing
    <3>3. Contract!Abandon
      BY <2>2, <3>1, <3>2 DEF GivenUp, Contract!Abandon
    <3> QED BY <3>3 DEF Contract!Next
  <2>3. ASSUME NEW b \in Builds, stage[b] = "new",
               stage' = [stage EXCEPT ![b] = "view"], UNCHANGED <<answer, sent>>
        PROVE  Contract!Next
    <3>1. Contract!Ask(b)
      BY <2>0, <2>3 DEF Contract!Ask, Phase, Preparing, CallsOK
    <3> QED BY <3>1 DEF Contract!Next
  <2>4. ASSUME NEW b \in Builds, NEW a, Ended(b, a) PROVE Contract!Answer(b, a)
    BY <2>0, <2>4 DEF Ended, Contract!Answer, Phase, Preparing, CallsOK, Unanswered
  <2>5. ASSUME NEW b \in Builds, Ended(b, "refused"), UNCHANGED sent
        PROVE  Contract!Next
    BY <2>4, <2>5 DEF Contract!Next, Contract!Refuse
  <2>6. ASSUME NEW b \in Builds, Ended(b, "started"),
               sent' \in {sent, sent \cup {b}}
        PROVE  Contract!Next
    BY <2>4, <2>6 DEF Contract!Next, Contract!Start
  <2> QED BY Kinds, <2>1, <2>2, <2>3, <2>5, <2>6
<1> QED BY <1>1, <1>2, Invariance, PTL DEF Spec, HonoursContract, Contract!Spec
-----------------------------------------------------------------------------
(* What the build log writes. *)

(* The stages before anything is logged. *)
Early == {"new", "view", "user", "modify"}

Unlogged ==
  \A b \in Builds : stage[b] \in Early =>
    /\ expected[b] = None
    /\ \A s \in Sockets : b \notin listeners[s]

(* The inductive invariant: unless its state is lost, the state a build was  *)
(* last given is in its record or on the way to it, nothing else on the way   *)
(* writes another, and only a missing record has an insert, and one only.     *)
OnTheWay(b, P, e) ==
  \A r \in P : r.build = b =>
    /\ r.state \in {"created", e}
    /\ r.op = "append" => r.state = "created"
    /\ r.op = "update" => r.state # "created"
    /\ r.op \in {"append", "update"} => record[b] # None
    /\ r.op = "insert" =>
         /\ record[b] = None
         /\ \A q \in P : q.build = b /\ q.op = "insert" => q = r

Follows(b) ==
  expected[b] # "lost" =>
    /\ expected[b] = None =>
         record[b] = None /\ \A r \in pending : r.build # b
    /\ expected[b] = "created" => record[b] \in {None, "created"}
    /\ expected[b] # None =>
         \/ record[b] = expected[b]
         \/ \E r \in pending : r.build = b /\ r.state = expected[b]
    /\ OnTheWay(b, pending, expected[b])

LogInv == Unlogged /\ \A b \in Builds : Follows(b)

LEMMA NoneIsNoState == None \notin States /\ None # "lost" /\ "lost" \notin States
BY RemoteAssumption DEF States

LEMMA LogSameFollows ==
  ASSUME UNCHANGED logVars, NEW c \in Builds, Follows(c)
  PROVE  Follows(c)'
BY DEF Follows, OnTheWay, logVars

(* A state handed over.                                                     *)
LEMMA LogFollows ==
  ASSUME LogOK, NEW C \in SUBSET Builds, NEW s \in States,
         NEW by \in (Sockets \cup {None}) \X Builds, Log(C, s, by),
         NEW c \in Builds, Follows(c),
         c \in C /\ s = "created" => expected[c] = None
  PROVE  Follows(c)'
<1> SUFFICES ASSUME expected'[c] # "lost" PROVE Follows(c)'
  BY DEF Follows
<1> DEFINE new(b) == [op |-> "get", build |-> b, state |-> s, by |-> by]
<1>1. /\ record' = record
      /\ \A r \in pending' : r \in pending \/ \E b \in C : r = new(b)
      /\ pending \subseteq pending' /\ \A b \in C : new(b) \in pending'
  BY DEF Log
<1>2. expected[c] # "lost" /\ expected[c] \in States \cup {None}
  BY DEF Log, Lose, LogOK
<1>3. \A b \in C : new(b).op = "get" /\ new(b).build = b /\ new(b).state = s
  OBVIOUS
<1> HIDE DEF new
<1>4. CASE c \in C
  <2>1. expected'[c] = s
    BY <1>4 DEF Log, Lose
  <2>2. \A r \in pending : r.build = c => r.state = "created"
    BY <1>4 DEF Log, Lose, Racing
  <2>3. OnTheWay(c, pending, expected[c])
    BY <1>2 DEF Follows
  <2>4. \A r \in pending' : r.build = c => r \in pending \/ r = new(c)
    BY <1>1, <1>3
  <2>5. OnTheWay(c, pending, expected[c])'
    BY <1>1, <1>3, <1>4, <2>1, <2>2, <2>3, <2>4 DEF OnTheWay
  <2>6. s # None
    BY NoneIsNoState
  <2>7. s = "created" => record'[c] \in {None, "created"}
    BY <1>1, <1>2, <1>4, NoneIsNoState DEF Follows
  <2> QED BY <1>1, <1>3, <1>4, <2>1, <2>5, <2>6, <2>7 DEF Follows
<1>5. CASE c \notin C
  <2>1. expected'[c] = expected[c]
    BY <1>5 DEF Log, Lose
  <2>2. \A r \in pending' : r.build = c => r \in pending
    BY <1>1, <1>3, <1>5
  <2>3. OnTheWay(c, pending, expected[c])'
    BY <1>1, <1>2, <2>1, <2>2 DEF Follows, OnTheWay
  <2> QED BY <1>1, <1>2, <2>1, <2>2, <2>3 DEF Follows
<1> QED BY <1>4, <1>5

(* A GET answered.                                                          *)
LEMMA FollowedIs ==
  ASSUME NEW r \in Request, NEW m \in BOOLEAN
  PROVE  /\ Followed(r, m).build = r.build /\ Followed(r, m).state = r.state
         /\ m => Followed(r, m).op = "insert"
         /\ ~m => Followed(r, m).op = IF r.state = "created" THEN "append" ELSE "update"
BY DEF Followed, Request

LEMMA GotFollows ==
  ASSUME LogOK, NEW r \in pending, Got(r), NEW c \in Builds, Follows(c)
  PROVE  Follows(c)'
<1> SUFFICES ASSUME expected'[c] # "lost" PROVE Follows(c)'
  BY DEF Follows
<1> DEFINE missing == record[r.build] = None
<1>1. PICK f : f = Followed(r, missing)
  OBVIOUS
<1>2. r \in Request /\ r.build \in Builds
  BY DEF LogOK, Request
<1>3. /\ f.build = r.build /\ f.state = r.state
      /\ missing => f.op = "insert"
      /\ ~missing => f.op = IF r.state = "created" THEN "append" ELSE "update"
  BY <1>1, <1>2, FollowedIs
<1>4. /\ pending' = (pending \ {r}) \cup {f} /\ record' = record /\ r.op = "get"
  BY <1>1 DEF Got
<1>5. expected[c] # "lost" /\ expected'[c] = expected[c]
  BY DEF Got, Lose, LogOK
<1>6. OnTheWay(c, pending, expected[c])
  BY <1>5 DEF Follows
<1>7. CASE r.build = c
  <2>1. missing => \A q \in pending : q.build = c => q.op # "insert"
    <3>1. SUFFICES ASSUME missing, NEW q \in pending, q.build = c, q.op = "insert"
                   PROVE  FALSE
      OBVIOUS
    <3>2. q # r
      BY <1>4, <3>1
    <3>3. InsertsAnother(r)
      BY <1>7, <3>1, <3>2 DEF InsertsAnother
    <3>4. expected'[c] = "lost"
      BY <1>7, <3>1, <3>3 DEF Got, Lose
    <3> QED BY <3>4
  <2>2. OnTheWay(c, pending, expected[c])'
    BY <1>3, <1>4, <1>5, <1>6, <1>7, <2>1 DEF OnTheWay
  <2> QED BY <1>3, <1>4, <1>5, <1>7, <2>2 DEF Follows
<1>8. CASE r.build # c
  <2>1. \A q : q.build = c => (q \in pending <=> q \in pending')
    BY <1>3, <1>4, <1>8
  <2>2. OnTheWay(c, pending, expected[c])'
    BY <1>4, <1>5, <1>6, <2>1 DEF OnTheWay
  <2> QED BY <1>4, <1>5, <2>1, <2>2 DEF Follows
<1> QED BY <1>7, <1>8

(* A request that touches only another build, or one that loses the state.   *)
LEMMA ElsewhereFollows ==
  ASSUME NEW c \in Builds, Follows(c),
         record'[c] = record[c], expected'[c] = expected[c],
         \A q : q.build = c => (q \in pending <=> q \in pending')
  PROVE  Follows(c)'
<1>1. OnTheWay(c, pending, expected[c]) => OnTheWay(c, pending, expected[c])'
  BY DEF OnTheWay
<1> QED BY <1>1 DEF Follows

LEMMA GetFailedFollows ==
  ASSUME LogOK, NEW r \in pending, GetFailed(r), NEW c \in Builds, Follows(c)
  PROVE  Follows(c)'
<1>1. CASE r.build = c
  BY <1>1 DEF GetFailed, Lose, Follows
<1>2. CASE r.build # c
  <2>1. PICK f : f = Followed(r, TRUE)
    OBVIOUS
  <2>2. f.build = r.build
    BY <2>1, FollowedIs DEF LogOK
  <2>3. pending' = (pending \ {r}) \cup {f}
    BY <2>1 DEF GetFailed
  <2>4. expected'[c] = expected[c] /\ record' = record
    BY <1>2 DEF GetFailed, Lose, LogOK
  <2> QED BY <1>2, <2>2, <2>3, <2>4, ElsewhereFollows
<1> QED BY <1>1, <1>2

(* A write executed.                                                        *)
LEMMA WrittenFollows ==
  ASSUME LogOK, NEW r \in pending, Written(r), NEW c \in Builds, Follows(c)
  PROVE  Follows(c)'
<1>1. /\ r.build \in Builds /\ r.op \in {"insert", "update", "append"}
      /\ r.state \in States
  BY DEF LogOK, Request, Written
<1>2. /\ pending' = pending \ {r} /\ expected' = expected
      /\ record' = [record EXCEPT ![r.build] = Executed(r)]
  BY DEF Written
<1>3. CASE r.build # c
  BY <1>1, <1>2, <1>3, ElsewhereFollows DEF LogOK
<1>4. CASE r.build = c
  <2> SUFFICES ASSUME expected[c] # "lost" PROVE Follows(c)'
    BY <1>2 DEF Follows
  <2>1. OnTheWay(c, pending, expected[c]) /\ expected[c] # None
    BY <1>4 DEF Follows
  <2>2. record'[c] = IF r.op = "append" THEN record[c] ELSE r.state
    BY <1>1, <1>2, <1>4, <2>1 DEF Executed, OnTheWay, LogOK
  <2>3. record'[c] # None
    BY <1>1, <1>4, <2>1, <2>2, NoneIsNoState DEF OnTheWay
  <2>4. OnTheWay(c, pending, expected[c])'
    BY <1>1, <1>2, <1>4, <2>1, <2>3 DEF OnTheWay
  <2>5. expected[c] = "created" => record'[c] \in {None, "created"}
    BY <1>4, <2>1, <2>2 DEF Follows, OnTheWay
  <2>6. ASSUME record'[c] # expected[c]
        PROVE  \E q \in pending' : q.build = c /\ q.state = expected[c]
    <3>1. CASE record[c] = expected[c]
      <4>1. r.op = "update"
        BY <1>1, <1>4, <2>1, <2>2, <2>6, <3>1 DEF OnTheWay
      <4> QED BY <1>4, <2>1, <2>2, <2>6, <4>1, <3>1 DEF OnTheWay
    <3>2. CASE record[c] # expected[c]
      <4>1. PICK q \in pending : q.build = c /\ q.state = expected[c]
        BY <2>1, <3>2 DEF Follows
      <4>2. q # r
        <5>1. SUFFICES ASSUME q = r PROVE FALSE
          OBVIOUS
        <5>2. r.op = "append" /\ r.state = "created"
          BY <1>1, <1>4, <2>1, <2>2, <2>6, <4>1, <5>1 DEF OnTheWay
        <5> QED BY <1>4, <2>1, <3>2, <4>1, <5>1, <5>2 DEF Follows, OnTheWay
      <4> QED BY <1>2, <4>1, <4>2
    <3> QED BY <3>1, <3>2
  <2> QED BY <1>2, <2>1, <2>4, <2>5, <2>6 DEF Follows
<1> QED BY <1>3, <1>4

LEMMA WriteFailedFollows ==
  ASSUME LogOK, NEW r \in pending, WriteFailed(r), NEW c \in Builds, Follows(c)
  PROVE  Follows(c)'
<1>1. CASE r.build = c
  BY <1>1 DEF WriteFailed, Lose, Follows
<1>2. CASE r.build # c
  <2>1. r.build \in Builds /\ pending' = pending \ {r}
    BY DEF LogOK, Request, WriteFailed
  <2>2. expected'[c] = expected[c] /\ record'[c] = record[c]
    BY <1>2, <2>1 DEF WriteFailed, Lose, LogOK
  <2> QED BY <1>2, <2>1, <2>2, ElsewhereFollows
<1> QED BY <1>1, <1>2

LEMMA ExitFollows ==
  ASSUME Exit, NEW c \in Builds, Follows(c)
  PROVE  Follows(c)'
<1>1. CASE \E r \in pending : r.build = c
  BY <1>1 DEF Exit, Lose, Follows
<1>2. CASE \A r \in pending : r.build # c
  BY <1>2, ElsewhereFollows DEF Exit, Lose
<1> QED BY <1>1, <1>2

(* Before its document is marked, nothing is logged for a build.            *)
LEMMA UnloggedKept ==
  ASSUME Unlogged, \A b \in Builds : stage'[b] \in Early =>
            /\ stage[b] \in Early /\ expected'[b] = expected[b]
            /\ \A s \in Sockets : b \in listeners'[s] => b \in listeners[s]
  PROVE  Unlogged'
BY DEF Unlogged

LEMMA LogKeeps ==
  ASSUME LogOK, NEW C, NEW s, NEW by, Log(C, s, by), NEW b \in Builds, b \notin C
  PROVE  expected'[b] = expected[b]
BY DEF Log, Lose, Racing, LogOK

LEMMA LogInvStep == ASSUME IInv, LogInv, [Next]_vars PROVE LogInv'
<1>0. CallsOK /\ LogOK /\ SocketsOK /\ Unlogged /\ \A b \in Builds : Follows(b)
  BY TypeParts DEF IInv, LogInv
<1>1. \A b : b \in Early => b \notin {"device", "keys", "platform", "env", "over"}
  BY DEF Early
<1>2. ASSUME UNCHANGED <<logVars, listeners>>,
             \A b \in Builds : stage'[b] \in Early => stage[b] \in Early
      PROVE  LogInv'
  <2>1. Unlogged'
    BY <1>0, <1>2, UnloggedKept DEF logVars
  <2> QED BY <1>0, <1>2, <2>1, LogSameFollows DEF LogInv
<1>3. ASSUME NEW b \in Builds, NEW s \in States, Log({b}, s, <<None, b>>),
             UNCHANGED listeners, s = "created" => stage[b] \in Early,
             \A c \in Builds : stage'[c] \in Early => stage[c] \in Early /\ c # b
      PROVE  LogInv'
  <2>1. Unlogged'
    BY <1>0, <1>3, LogKeeps, UnloggedKept
  <2>2. s = "created" => expected[b] = None
    BY <1>0, <1>3 DEF Unlogged
  <2> QED BY <1>0, <1>3, <2>1, <2>2, LogFollows DEF LogInv
<1>4. ASSUME NEW b \in Builds, NEW u \in Udids, NEW s \in Sockets, Build(b, u, s)
      PROVE  LogInv'
  <2>1. \A c \in Builds : stage'[c] \in Early => stage[c] \in Early
    BY <1>0, <1>4 DEF Build, CallsOK, Early
  <2> QED BY <1>2, <1>4, <2>1 DEF Build, socketVars
<1>5. ASSUME NEW b \in Builds, Identify(b) PROVE LogInv'
  <2>1. \A c \in Builds : stage'[c] \in Early => stage[c] \in Early
    BY <1>0, <1>5
       DEF Identify, ViewAnswered, Refuses, Quits, Leaves, Passes, CallsOK, Early
  <2> QED BY <1>2, <1>5, <2>1 DEF Identify, socketVars
<1>6. ASSUME NEW b \in Builds, Modified(b) PROVE LogInv'
  <2>1. \A c \in Builds : stage'[c] \in Early => stage[c] \in Early /\ c # b
    BY <1>0, <1>6 DEF Modified, Passes, CallsOK, Early
  <2>2. stage[b] \in Early
    BY <1>6 DEF Modified, Passes, Early
  <2> QED BY <1>3, <1>6, <2>1, <2>2 DEF Modified, socketVars, States
<1>7. ASSUME NEW b \in Builds, ModifyFailed(b) \/ Configure(b) \/ EnvRejected(b)
      PROVE  LogInv'
  <2>1. \A c \in Builds : stage'[c] \in Early => stage[c] \in Early
    BY <1>0, <1>7
       DEF ModifyFailed, Configure, EnvRejected, Refuses, Quits, Leaves, Passes,
           CallsOK, Early
  <2> QED BY <1>2, <1>7, <2>1 DEF ModifyFailed, Configure, EnvRejected, socketVars
<1>8. ASSUME NEW b \in Builds, Reject(b) \/ TemplateFailed(b) PROVE LogInv'
  <2>1. \A c \in Builds : stage'[c] \in Early => stage[c] \in Early /\ c # b
    BY <1>0, <1>8
       DEF Reject, TemplateFailed, Refuses, Quits, Leaves, CallsOK, Early
  <2> QED BY <1>3, <1>8, <2>1 DEF Reject, TemplateFailed, socketVars, States
<1>9. ASSUME NEW b \in Builds, Start(b) PROVE LogInv'
  <2>1. /\ stage[b] = "env"
        /\ \A c \in Builds : stage'[c] \in Early => stage[c] \in Early /\ c # b
    BY <1>0, <1>9 DEF Start, Leaves, CallsOK, Early
  <2>2. \A c \in Builds, s \in Sockets :
          c # b /\ c \in listeners'[s] => c \in listeners[s]
    BY <1>9 DEF Start, Broadcast, socketVars
  <2>3. CASE UNCHANGED logVars
    <3>1. Unlogged'
      BY <1>0, <2>1, <2>2, <2>3, UnloggedKept DEF logVars
    <3> QED BY <1>0, <2>3, <3>1, LogSameFollows DEF LogInv
  <2>4. CASE Log({b}, "error", <<None, b>>)
    <3>1. Unlogged'
      BY <1>0, <2>1, <2>2, <2>4, LogKeeps, UnloggedKept
    <3> QED BY <1>0, <2>4, <3>1, LogFollows DEF LogInv, States
  <2> QED BY <1>9, <2>3, <2>4 DEF Start, Header
<1>10. ASSUME NEW r \in pending, UNCHANGED <<stage, listeners>>,
              Got(r) \/ GetFailed(r) \/ Written(r) \/ WriteFailed(r)
       PROVE  LogInv'
  <2>1. \A c \in Builds : r.build # c => expected'[c] = expected[c]
    BY <1>0, <1>10 DEF Got, GetFailed, Written, WriteFailed, Lose, LogOK
  <2>2. \A c \in Builds : expected[c] = None => r.build # c
    BY <1>0, <1>10, NoneIsNoState DEF Follows
  <2>3. Unlogged'
    BY <1>0, <1>10, <2>1, <2>2, UnloggedKept DEF Unlogged
  <2> QED BY <1>0, <1>10, <2>3, GotFollows, GetFailedFollows, WrittenFollows,
             WriteFailedFollows DEF LogInv
<1>11. ASSUME NEW s \in Sockets, NEW b \in Builds, Report(s, b) PROVE LogInv'
  <2>1. UNCHANGED <<stage, listeners>>
    BY <1>11 DEF Report
  <2>2. CASE UNCHANGED logVars
    BY <1>2, <2>1, <2>2
  <2>3. ASSUME NEW m \in {"Success", "FAILED"}, Log(listeners[s], m, <<s, b>>)
        PROVE  LogInv'
    <3>1. PICK C \in SUBSET Builds : C = listeners[s]
      BY <1>0 DEF SocketsOK
    <3>2. \A c \in Builds : stage'[c] \in Early => stage[c] \in Early /\ c \notin C
      BY <1>0, <2>1, <3>1 DEF Unlogged
    <3>3. Unlogged'
      BY <1>0, <2>1, <2>3, <3>1, <3>2, LogKeeps, UnloggedKept
    <3>4. m \in States /\ m # "created"
      BY DEF States
    <3> QED BY <1>0, <2>3, <3>1, <3>3, <3>4, LogFollows DEF LogInv
  <2> QED BY <1>11, <2>2, <2>3 DEF Report, LogLine, JobStatus
<1>12. ASSUME NEW s \in Sockets, Disconnect(s) PROVE LogInv'
  <2>1. \A c \in Builds, v \in Sockets : c \in listeners'[v] => c \in listeners[v]
    BY <1>0, <1>12 DEF Disconnect, SocketsOK
  <2>2. Unlogged'
    BY <1>0, <1>12, <2>1, UnloggedKept DEF Disconnect, logVars
  <2> QED BY <1>0, <1>12, <2>2, LogSameFollows DEF Disconnect, LogInv
<1>13. ASSUME Exit PROVE LogInv'
  <2>1. \A c \in Builds : stage'[c] \in Early => stage[c] \in Early
    BY <1>13 DEF Exit, Early
  <2>2. \A c \in Builds : expected[c] = None => expected'[c] = expected[c]
    BY <1>0, <1>13, NoneIsNoState DEF Exit, Lose, Follows
  <2>3. Unlogged'
    BY <1>0, <1>13, <2>1, <2>2, UnloggedKept DEF Exit, Unlogged
  <2> QED BY <1>0, <1>13, <2>3, ExitFollows DEF LogInv
<1>14. CASE UNCHANGED vars
  BY <1>2, <1>14 DEF vars, socketVars
<1> QED
  BY <1>4, <1>5, <1>6, <1>7, <1>8, <1>9, <1>10, <1>11, <1>12, <1>13, <1>14
  DEF Next, Prepare, BuildLog, socketVars, Crash

(* buildlog.js:96-146, 184-221.  Once the build log has answered, the record *)
(* of a build shows the state last given to it unless that state is lost, for *)
(* any builds, sockets, failures, crashes and orders of CouchDB's answers.    *)
THEOREM RecordShowsLast == Spec => []LastStateShown
<1>1. Init => LogInv
  BY NoneIsNoState DEF Init, LogInv, Unlogged, Follows, OnTheWay
<1>2. IInv /\ LogInv /\ [Next]_vars => LogInv'
  BY LogInvStep
<1>3. LogInv => LastStateShown
  BY DEF LogInv, Follows, LastStateShown, Settled
<1> QED BY <1>1, <1>2, <1>3, Invariance, PTL DEF Spec
=============================================================================
