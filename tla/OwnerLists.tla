------------------------------ MODULE OwnerLists ------------------------------
(***************************************************************************)
(* The two lists an owner keeps in Redis: API keys under "ak:<owner>"       *)
(* (lib/thinx/apikey.js) and environment variables under "env:<owner>"      *)
(* (lib/thinx/apienv.js).  Every change reads the whole list, computes a    *)
(* new one in the callback and writes it back, and nothing keeps two        *)
(* changes of one list apart.                                               *)
(*                                                                          *)
(* As in BuildQueue all commands go over one connection: `pipe' is what was *)
(* issued and not yet answered, in order, and executing a command and       *)
(* running its callback is one step.  The order of a list is left out: no   *)
(* change depends on it, but for which of two variables with one name       *)
(* revoke takes, and there any will do.                                     *)
(***************************************************************************)
EXTENDS Integers, Sequences, FiniteSets

CONSTANTS
  KeyLists,       \* lists of API keys, one per owner
  EnvLists,       \* lists of environment variables, one per owner
  Names,          \* names of environment variables
  Contains,       \* pairs <<a, b>>: the text of name a contains that of b
  Requests,       \* calls of `create'
  MaxTime,        \* bound: seconds the clock counts
  MaxPipe,        \* bound: commands in the pipe when a call is made
  CanFail,        \* Redis commands can be rejected
  CanCrash,       \* the process can be killed at any time
  RejectionExits  \* an unhandled rejection ends the process (no Rollbar)

Lists == KeyLists \cup EnvLists

(* An API key is drawn from the owner and the current SECOND (create_key),  *)
(* so that second names its text.                                           *)
Seconds == 0..MaxTime
Texts == Names \cup Seconds
TextsOf(l) == IF l \in KeyLists THEN Seconds ELSE Names

(* What a call of `create' puts into a list.  `by' tells apart two entries  *)
(* with the same text.                                                      *)
Item == [list : Lists, text : Texts, by : Requests]

ASSUME ListsAssumption ==
  /\ KeyLists \cap EnvLists = {}
  /\ Contains \subseteq Names \X Names
  /\ \A n \in Names : <<n, n>> \in Contains
  /\ MaxTime \in Nat /\ MaxPipe \in Nat
  /\ CanFail \in BOOLEAN /\ CanCrash \in BOOLEAN /\ RejectionExits \in BOOLEAN

VARIABLES
  stored,   \* Redis: each list; a missing key is an empty list
  pipe,     \* commands issued to Redis and not yet answered
  now,      \* the clock, in seconds
  used,     \* requests made
  created,  \* items whose caller was told they exist
  dropped,  \* items a callback left out of the list it wrote, on purpose
  revoked,  \* items whose caller was told they are gone
  overlapped, \* lists on which a call was made while another's GET waited
  failed,   \* a command has been rejected
  died      \* the process has exited at least once

vars == <<stored, pipe, now, used, created, dropped, revoked, overlapped,
          failed, died>>
-----------------------------------------------------------------------------
(* A GET carries the call whose callback it runs; a SET carries what its    *)
(* callback tells the caller (nothing, for environment variables).          *)
CreateCall == [do : {"create"}, item : Item]
RevokeCall == [do : {"revoke"}, texts : SUBSET Texts]
GetCmd == [op : {"get"}, list : Lists, call : CreateCall \cup RevokeCall]
SetCmd == [op : {"set"}, list : Lists, value : SUBSET Item,
           new : SUBSET Item, gone : SUBSET Item]
Command == GetCmd \cup SetCmd

Get(l, c) == [op |-> "get", list |-> l, call |-> c]
Set(l, v, new, gone) ==
  [op |-> "set", list |-> l, value |-> v, new |-> new, gone |-> gone]

TypeOK ==
  /\ stored \in [Lists -> SUBSET Item]
  /\ pipe \in Seq(Command)
  /\ now \in Seconds
  /\ used \in SUBSET Requests
  /\ created \in SUBSET Item
  /\ dropped \in SUBSET Item
  /\ revoked \in SUBSET Item
  /\ overlapped \in SUBSET Lists
  /\ failed \in BOOLEAN /\ died \in BOOLEAN

Init ==
  /\ stored = [l \in Lists |-> {}]
  /\ pipe = <<>>
  /\ now = 0
  /\ used = {}
  /\ created = {} /\ dropped = {} /\ revoked = {} /\ overlapped = {}
  /\ failed = FALSE /\ died = FALSE
-----------------------------------------------------------------------------
(* Calls, up to their GET. *)

Reading(l) == \E i \in 1..Len(pipe) : pipe[i].op = "get" /\ pipe[i].list = l

Call(l, c) ==
  /\ Len(pipe) < MaxPipe
  /\ pipe' = Append(pipe, Get(l, c))
  /\ overlapped' = IF Reading(l) THEN overlapped \cup {l} ELSE overlapped
  /\ UNCHANGED <<stored, now, created, dropped, revoked, failed, died>>

Create(l, r, n) ==
  /\ r \notin used
  /\ used' = used \cup {r}
  /\ n \in IF l \in KeyLists THEN {now} ELSE Names
  /\ Call(l, [do |-> "create", item |-> [list |-> l, text |-> n, by |-> r]])

Revoke(l, T) ==
  /\ Call(l, [do |-> "revoke", texts |-> T])
  /\ UNCHANGED used

Tick ==
  /\ now < MaxTime
  /\ now' = now + 1
  /\ UNCHANGED <<stored, pipe, used, created, dropped, revoked, overlapped,
                 failed, died>>
-----------------------------------------------------------------------------
(* The callbacks of GET. *)

Answering(op) == pipe # <<>> /\ Head(pipe).op = op
List == Head(pipe).list
Listed == stored[List]
Creating == Answering("get") /\ Head(pipe).call.do = "create"
Revoking == Answering("get") /\ Head(pipe).call.do = "revoke"
NewItem == Head(pipe).call.item
Issue(c) == pipe' = Append(Tail(pipe), c)

(* Faulty variants of some definitions stand before them, for the runs that *)
(* show what each property would catch; no specification uses them.         *)

(* What create does for a missing key, done for any list. *)
KeyCreatedAlone ==
  /\ Creating /\ List \in KeyLists
  /\ Issue(Set(List, {NewItem}, {NewItem}, {}))
  /\ UNCHANGED <<stored, now, used, created, dropped, revoked, overlapped,
                 failed, died>>

(* APIKey.create.  The loop that looks for the key or the alias walks over  *)
(* the characters of the JSON text, finds neither field, rejects nothing.   *)
KeyCreated ==
  /\ Creating /\ List \in KeyLists
  /\ Issue(Set(List, Listed \cup {NewItem}, {NewItem}, {}))
  /\ UNCHANGED <<stored, now, used, created, dropped, revoked, overlapped,
                 failed, died>>

(* The variable to be replaced is kept beside the new one. *)
EnvCreatedBeside ==
  /\ Creating /\ List \in EnvLists
  /\ Issue(Set(List, Listed \cup {NewItem}, {}, {}))
  /\ created' = created \cup {NewItem}
  /\ UNCHANGED <<stored, now, used, dropped, revoked, overlapped, failed, died>>

(* The list is written under the name of the variable and not of its owner. *)
EnvCreatedUnderName ==
  /\ Creating /\ List \in EnvLists
  /\ Issue(Set(NewItem.text, (Listed \ {i \in Listed : i.text = NewItem.text})
                               \cup {NewItem}, {}, {}))
  /\ created' = created \cup {NewItem}
  /\ UNCHANGED <<stored, now, used, dropped, revoked, overlapped, failed, died>>

(* APIEnv.create leaves out every variable whose name CONTAINS the new one, *)
(* and answers before the SET is executed.                                  *)
Replaced == {i \in Listed : <<i.text, NewItem.text>> \in Contains}

EnvCreated ==
  /\ Creating /\ List \in EnvLists
  /\ Issue(Set(List, (Listed \ Replaced) \cup {NewItem}, {}, {}))
  /\ created' = created \cup {NewItem}
  /\ dropped' = dropped \cup Replaced
  /\ UNCHANGED <<stored, now, used, revoked, overlapped, failed, died>>

Named == {i \in Listed : i.text \in Head(pipe).call.texts}

(* The caller is told before the SET is executed. *)
KeysRevokedEarly ==
  /\ Revoking /\ List \in KeyLists
  /\ Issue(Set(List, Listed \ Named, {}, {}))
  /\ dropped' = dropped \cup Named
  /\ revoked' = revoked \cup Named
  /\ UNCHANGED <<stored, now, used, created, overlapped, failed, died>>

(* APIKey.revoke writes the list back even when nothing was named, but not  *)
(* when Redis has no such key (NothingToRevoke); an empty list may be       *)
(* either.                                                                  *)
KeysRevoked ==
  /\ Revoking /\ List \in KeyLists
  /\ Issue(Set(List, Listed \ Named, {}, Named))
  /\ dropped' = dropped \cup Named
  /\ UNCHANGED <<stored, now, used, created, revoked, overlapped, failed, died>>

(* APIEnv.revoke deletes ONE variable of each name, and answers before the  *)
(* SET is executed.                                                         *)
OneOfEach(F) ==
  /\ F \subseteq Named
  /\ \A i \in Named : \E j \in F : j.text = i.text
  /\ \A i, j \in F : i.text = j.text => i = j

EnvRevoked ==
  /\ Revoking /\ List \in EnvLists
  /\ Named # {}
  /\ \E F \in SUBSET Named :
       /\ OneOfEach(F)
       /\ Issue(Set(List, Listed \ F, {}, {}))
       /\ dropped' = dropped \cup F
       /\ revoked' = revoked \cup F
  /\ UNCHANGED <<stored, now, used, created, overlapped, failed, died>>

(* nothing_to_revoke, and owner_not_found if Redis has no such key. *)
NothingToRevoke ==
  /\ Revoking
  /\ IF List \in KeyLists THEN Listed = {} ELSE Named = {}
  /\ pipe' = Tail(pipe)
  /\ UNCHANGED <<stored, now, used, created, dropped, revoked, overlapped,
                 failed, died>>

(* SET, and what its callback tells. *)
Written ==
  /\ Answering("set")
  /\ stored' = [stored EXCEPT ![List] = Head(pipe).value]
  /\ created' = created \cup Head(pipe).new
  /\ revoked' = revoked \cup Head(pipe).gone
  /\ pipe' = Tail(pipe)
  /\ UNCHANGED <<now, used, dropped, overlapped, failed, died>>
-----------------------------------------------------------------------------
(* Failures. *)

(* What Redis holds after the commands from k + 1 to n of the pipe. *)
LastSet(k, n, l) ==
  {i \in (k + 1)..n :
     /\ pipe[i].op = "set" /\ pipe[i].list = l
     /\ \A j \in (i + 1)..n : ~(pipe[j].op = "set" /\ pipe[j].list = l)}

StoredAfter(k, n, l) ==
  IF LastSet(k, n, l) = {} THEN stored[l]
  ELSE pipe[CHOOSE i \in LastSet(k, n, l) : TRUE].value

(* The process exits: Redis executes some of the commands already sent, but *)
(* not the first k, and nobody runs their callbacks.                        *)
Exit(k) ==
  /\ \E n \in k..Len(pipe) :
       stored' = [l \in Lists |-> StoredAfter(k, n, l)]
  /\ pipe' = <<>>
  /\ died' = TRUE

Crash ==
  /\ CanCrash
  /\ Exit(0)
  /\ UNCHANGED <<now, used, created, dropped, revoked, overlapped, failed>>

(* The head is rejected (the connection broke, or Redis refused); k says    *)
(* whether it was executed (0) or not (1).  Nobody catches it.              *)
Unhandled(k) ==
  /\ IF RejectionExits
     THEN Exit(k)
     ELSE /\ stored' = [l \in Lists |-> StoredAfter(k, 1, l)]
          /\ pipe' = Tail(pipe)
          /\ died' = died
  /\ failed' = TRUE
  /\ UNCHANGED <<now, used, created, dropped, revoked, overlapped>>

SetRejected ==
  /\ CanFail /\ Answering("set")
  /\ \E k \in {0, 1} : Unhandled(k)

(* apienv.js catches nothing. *)
EnvGetRejected ==
  /\ CanFail /\ Answering("get") /\ List \in EnvLists
  /\ Unhandled(1)

(* APIKey.create saves its key anyway, as the only one. *)
KeyCreatedAnyway ==
  /\ CanFail /\ Creating /\ List \in KeyLists
  /\ Issue(Set(List, {NewItem}, {NewItem}, {}))
  /\ failed' = TRUE
  /\ UNCHANGED <<stored, now, used, created, dropped, revoked, overlapped,
                 died>>

RevokeRejected ==
  /\ CanFail /\ Revoking /\ List \in KeyLists
  /\ pipe' = Tail(pipe)
  /\ failed' = TRUE
  /\ UNCHANGED <<stored, now, used, created, dropped, revoked, overlapped,
                 died>>
-----------------------------------------------------------------------------
Redis ==
  \/ KeyCreated \/ EnvCreated
  \/ KeysRevoked \/ EnvRevoked \/ NothingToRevoke
  \/ Written
  \/ SetRejected \/ EnvGetRejected \/ KeyCreatedAnyway \/ RevokeRejected

Next ==
  \/ Redis
  \/ Tick
  \/ Crash
  \/ \E l \in Lists :
       \/ \E r \in Requests, n \in TextsOf(l) : Create(l, r, n)
       \/ \E T \in SUBSET TextsOf(l) : Revoke(l, T)

Spec == Init /\ [][Next]_vars
-----------------------------------------------------------------------------
(* Properties. *)

(* The list as it will be once everything issued has been executed. *)
Effective(l) == StoredAfter(0, Len(pipe), l)

(* apienv.js:18-47, 95-107.  No list of variables ever holds a name twice,  *)
(* whatever calls overlap and whatever fails: so revoke, which deletes one  *)
(* variable of a name only, deletes all there is.                           *)
Unique(v) == \A i, j \in v : i.text = j.text => i = j

EnvNamesUnique == \A l \in EnvLists : Unique(stored[l])

(* apikey.js:43-86.  An API key its owner was told of stays in the list     *)
(* until a revocation takes it out, if calls on the list did not overlap    *)
(* and no command was rejected; crashes change nothing.  The same holds of  *)
(* an environment variable, counting the SET on its way, while the process  *)
(* lives, until a call replaces or revokes it.                              *)
CreatedIsKept ==
  ~failed => \A i \in created :
    i.list \notin overlapped =>
      \/ i \in dropped
      \/ i.list \in KeyLists /\ i \in stored[i.list]
      \/ i.list \in EnvLists /\ (died \/ i \in Effective(i.list))

(* apikey.js:167-212.  A key whose owner was told it is revoked never comes *)
(* back, if calls on the list did not overlap: no rejected or late command, *)
(* and no crash, revives it.                                                *)
RevokedStaysGone ==
  \A i \in revoked :
    i.list \in KeyLists \ overlapped => i \notin stored[i.list]

(* Why they hold. *)
Issued == {pipe[i] : i \in 1..Len(pipe)}
SetsOn(l) == {c \in Issued : c.op = "set" /\ c.list = l}
IsCreate(c) == c.op = "get" /\ c.call.do = "create"

(* Every item belongs to its list and to a request that was made. *)
Belongs(i, l) == i.list = l /\ i.text \in TextsOf(l) /\ i.by \in used

ItemsBelong ==
  /\ \A l \in Lists, i \in Item : i \in stored[l] => Belongs(i, l)
  /\ \A l \in Lists : \A c \in SetsOn(l) :
       \A i \in c.value \cup c.new \cup c.gone : Belongs(i, l)
  /\ \A c \in Issued : IsCreate(c) => Belongs(c.call.item, c.list)
  /\ \A i \in revoked : i.by \in used

(* What a pending create will add is nowhere yet. *)
PendingIsNew ==
  \A a \in 1..Len(pipe) : IsCreate(pipe[a]) =>
    LET i == pipe[a].call.item IN
      /\ i \notin revoked
      /\ \A l \in Lists : i \notin stored[l]
      /\ \A c \in Issued : c.op = "set" => i \notin c.value \cup c.gone
      /\ \A b \in 1..Len(pipe) :
           IsCreate(pipe[b]) /\ pipe[b].call.item = i => b = a

(* Without overlapping calls a list has at most a SET and after it a GET.   *)
ReadsAfterWrites ==
  \A a, b \in 1..Len(pipe) :
    a < b /\ pipe[a].list = pipe[b].list /\ pipe[a].list \notin overlapped
      => pipe[a].op = "set" /\ pipe[b].op = "get"

WritesAreUnique ==
  \A l \in EnvLists : \A c \in SetsOn(l) : Unique(c.value)

RevokedNotWritten ==
  /\ \A c \in Issued : c.op = "set" => c.gone \cap c.value = {}
  /\ \A i \in revoked : i.list \in KeyLists \ overlapped =>
       \A c \in SetsOn(i.list) : i \notin c.value

CreatedIsWritten ==
  ~failed => \A l \in Lists \ overlapped, i \in Item :
    /\ i \in created /\ i.list = l =>
         \/ i \in dropped \/ i \in stored[l]
         \/ l \in EnvLists /\ (died \/ SetsOn(l) # {})
    /\ \A c \in SetsOn(l) : i \in created \cup c.new /\ i.list = l =>
         i \in dropped \/ i \in c.value \/ (l \in EnvLists /\ died)

ListsInv ==
  /\ ItemsBelong /\ PendingIsNew /\ ReadsAfterWrites
  /\ EnvNamesUnique /\ WritesAreUnique
  /\ RevokedStaysGone /\ RevokedNotWritten
  /\ CreatedIsWritten
=============================================================================
