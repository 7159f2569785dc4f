---------------------------- MODULE UserSessions ----------------------------
(***************************************************************************)
(* What a user who waits for one refresh before the next can rely on: no   *)
(* requests, no rows and no awaits, only the sessions and the token each   *)
(* of them is held with.  A session is named for its first token.          *)
(***************************************************************************)
CONSTANTS
  Tokens,
  Users,
  NoUser

VARIABLES
  issued,   \* the tokens ever handed out
  owner,    \* the user of a session, NoUser before its login
  valid,    \* the tokens a session can be refreshed with
  phase     \* "absent", "open", "renewing" (a token is due) or "over"

vars == <<issued, owner, valid, phase>>

Init ==
  /\ issued = {}
  /\ owner = [s \in Tokens |-> NoUser]
  /\ valid = [s \in Tokens |-> {}]
  /\ phase = [s \in Tokens |-> "absent"]

\* A login.
Begin(s, u) ==
  /\ phase[s] = "absent"
  /\ s \notin issued
  /\ issued' = issued \cup {s}
  /\ owner' = [owner EXCEPT ![s] = u]
  /\ valid' = [valid EXCEPT ![s] = {s}]
  /\ phase' = [phase EXCEPT ![s] = "open"]

\* A refresh takes the old token back; when it stops there, that was it.
Withdraw(s) ==
  /\ phase[s] = "open"
  /\ valid' = [valid EXCEPT ![s] = {}]
  /\ \E next \in {"renewing", "over"} : phase' = [phase EXCEPT ![s] = next]
  /\ UNCHANGED <<issued, owner>>

\* It hands out a token that never was one.
Renew(s) ==
  /\ phase[s] = "renewing"
  /\ \E t \in Tokens \ issued :
       /\ issued' = issued \cup {t}
       /\ valid' = [valid EXCEPT ![s] = {t}]
  /\ phase' = [phase EXCEPT ![s] = "open"]
  /\ UNCHANGED owner

\* Or it stops.
Lapse(s) ==
  /\ phase[s] = "renewing"
  /\ phase' = [phase EXCEPT ![s] = "over"]
  /\ UNCHANGED <<issued, owner, valid>>

\* Every session of a user ends at once, but for those that have a refresh
\* under way, which may still hand out its token.
EndAll(u) ==
  /\ valid' = [s \in Tokens |-> IF owner[s] = u THEN {} ELSE valid[s]]
  /\ \E due \in SUBSET Tokens :
       phase' = [s \in Tokens |->
                   IF owner[s] = u /\ phase[s] = "open"
                   THEN IF s \in due THEN "renewing" ELSE "over"
                   ELSE phase[s]]
  /\ UNCHANGED <<issued, owner>>

Next ==
  \/ \E s \in Tokens : \/ \E u \in Users : Begin(s, u)
                       \/ Withdraw(s) \/ Renew(s) \/ Lapse(s)
  \/ \E u \in Users : EndAll(u)

Spec == Init /\ [][Next]_vars
=============================================================================
