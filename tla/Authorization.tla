---------------------------- MODULE Authorization ----------------------------
(***************************************************************************)
(* What the OAuth server promises about one "Allow" click: it is redeemed  *)
(* at most once, and from then on the connector holds at most one access   *)
(* token and one refresh token, each new pair only after the previous one  *)
(* is retired.  No token ever comes back.  Grants implements this, killed  *)
(* process included.                                                       *)
(***************************************************************************)
CONSTANTS
  Auths,        \* authorizations: one per code issued on the consent page
  Tokens        \* access and refresh tokens

VARIABLES
  opened,       \* authorizations that have been redeemed
  access,       \* authorization -> live access tokens
  refresh,      \* authorization -> live refresh tokens
  retired       \* tokens that were live once and are not any more

avars == <<opened, access, refresh, retired>>

Init ==
  /\ opened = {}
  /\ access = [a \in Auths |-> {}]
  /\ refresh = [a \in Auths |-> {}]
  /\ retired = {}

\* The code is redeemed; it never can be again.
Open(a) ==
  /\ a \notin opened
  /\ opened' = opened \cup {a}
  /\ UNCHANGED <<access, refresh, retired>>

\* A new pair starts with its access token, when nothing of the old one is left.
IssueAccess(a, t) ==
  /\ a \in opened /\ t \notin retired
  /\ access[a] = {} /\ refresh[a] = {}
  /\ access' = [access EXCEPT ![a] = {t}]
  /\ UNCHANGED <<opened, refresh, retired>>

\* The refresh token completes the pair.
IssueRefresh(a, t) ==
  /\ a \in opened /\ t \notin retired
  /\ access[a] # {} /\ refresh[a] = {}
  /\ refresh' = [refresh EXCEPT ![a] = {t}]
  /\ UNCHANGED <<opened, access, retired>>

\* Tokens die: by rotation, by revocation, with the account, or by expiring.
Retire ==
  /\ \A a \in Auths : access'[a] \subseteq access[a] /\ refresh'[a] \subseteq refresh[a]
  /\ retired' = retired \cup UNION {(access[a] \ access'[a]) \cup (refresh[a] \ refresh'[a]) :
                                      a \in Auths}
  /\ UNCHANGED opened

Next ==
  \/ \E a \in Auths : Open(a)
  \/ \E a \in Auths, t \in Tokens : IssueAccess(a, t) \/ IssueRefresh(a, t)
  \/ Retire

Spec == Init /\ [][Next]_avars
==============================================================================
