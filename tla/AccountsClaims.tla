---------------------------- MODULE AccountsClaims ----------------------------
(* What the repository says of accounts and the code does not do.           *)
EXTENDS MCAccounts

(* sources.js:323-328.  A source whose removal was answered as done is no   *)
(* longer in its owner's document, if no later or overlapping call wrote    *)
(* sources.                                                                 *)
RemovedIsGone ==
  \A k \in Calls :
    (Done(k) /\ asked[k].op = "remove" /\ Last(k, {"add", "tag"})) =>
      \/ asked[k].owner \in born
      \/ doc[asked[k].owner].repos[asked[k].id] = None

(* router.github.js:161-223, 280-285.  A callback of GitHub that was        *)
(* answered as logged in is of an owner who has an account.                 *)
LoggedInAsOneself ==
  \A k \in Calls :
    (Done(k) /\ asked[k].op = "github") => LET o == asked[k].owner IN
      IsDoc(o) \/ o \in born
=============================================================================
