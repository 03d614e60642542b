------------------------------- MODULE MCAccounts -------------------------------
(* Small instances of an account and of chat rooms.  They share nothing a  *)
(* request could change (chat looks at the account in require_auth only),  *)
(* so a behaviour follows one of them, chosen at the start.                *)
EXTENDS Accounts, Chat

VARIABLE part

peopleVars == <<accountVars, chatVars, part>>

PeopleInit == AccountInit /\ ChatInit /\ part \in {"account", "chat"}

PeopleNext ==
  /\ UNCHANGED part
  /\ \/ part = "account" /\ AccountNext /\ UNCHANGED chatVars
     \/ part = "chat" /\ ChatNext /\ UNCHANGED accountVars

PeopleSpec == PeopleInit /\ [][PeopleNext]_peopleVars

\* Web threads are alike in both.
Threads == Permutations(Web) \cup Permutations(ChatThreads)
=============================================================================
