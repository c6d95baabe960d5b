------------------------------- MODULE MCTokens -------------------------------
(* A user's link, which logins share, and one of a provider.                *)
EXTENDS Tokens

CONSTANTS user, provider

TheLinks == {user, provider}
TheRequests ==
  {[op |-> "login", link |-> user],
   [op |-> "oauth", link |-> provider, chained |-> TRUE],
   [op |-> "oauth", link |-> provider, chained |-> FALSE],
   [op |-> "use", link |-> user], [op |-> "use", link |-> provider],
   [op |-> "verify", of |-> 1]}
=============================================================================
