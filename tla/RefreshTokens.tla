---------------------------- MODULE RefreshTokens ----------------------------
(***************************************************************************)
(* The refresh_tokens table and the handlers that work on it: login, token *)
(* refresh with rotation and reuse detection, logout and logout of all     *)
(* sessions.  Each action is the code of one handler between two awaits.   *)
(*                                                                         *)
(* The token that request r issues is named r: its row's userId is the     *)
(* user of r, and its predecessor is the token r presented.                *)
(***************************************************************************)
EXTENDS Integers

CONSTANTS
  Requests,     \* the calls of the API; a bound on their number
  Users,
  NoToken,      \* no token, or a string the server never issued
  NoUser,
  Faults,       \* {} or {"abort"}: a call fails or the process stops
  ClientWaits   \* a client has one refresh of a session under way at most

ASSUME TokensAssumption ==
  /\ NoToken \notin Requests
  /\ NoUser \notin Users
  /\ Faults \subseteq {"abort"}
  /\ ClientWaits \in BOOLEAN

VARIABLES
  req,       \* the state of each request
  created,   \* refresh_tokens: the tokens that have a row
  revoked,   \* the rows with revokedAt set
  expired,   \* the rows with expiresAt in the past
  closed     \* history: the sessions an answered logoutAll met at rest

vars == <<req, created, revoked, expired, closed>>

Kinds == {"none", "login", "refresh", "logout", "logoutAll"}

Active == {"check", "find", "revokeAll", "revoke", "issue", "answer",
           "logout"}
Ended  == {"answered", "denied", "reused", "aborted"}

Unsent == [kind |-> "none", pc |-> "unsent", user |-> NoUser,
           token |-> NoToken, session |-> NoToken, stale |-> FALSE]

RequestRecords == [kind    : Kinds,
                   pc      : {"unsent"} \cup Active \cup Ended,
                   user    : Users \cup {NoUser},
                   token   : Requests \cup {NoToken},
                   session : Requests \cup {NoToken},
                   stale   : BOOLEAN]

TypeOK ==
  /\ req \in [Requests -> RequestRecords]
  /\ created \subseteq Requests
  /\ revoked \subseteq created
  /\ expired \subseteq created
  /\ closed \subseteq Requests

Init ==
  /\ req = [r \in Requests |-> Unsent]
  /\ created = {}
  /\ revoked = {}
  /\ expired = {}
  /\ closed = {}

-----------------------------------------------------------------------------
(* The table. *)

\* Slip: the tokens of requests that have not inserted theirs count too.
IssuedOrNot(u) == {t \in Requests : req[t].user = u}

TokensOf(u) == {t \in created : req[t].user = u}

Live == created \ revoked

\* The column tokenHash of the row of token t.
hashToken(t) == [sha256 |-> t]

FindByTokenHash(value) == {t \in created : hashToken(t) = value}

Goto(r, label) == req' = [req EXCEPT ![r].pc = label]

-----------------------------------------------------------------------------
(* What clients send.  A session is named for the token of its login.  A   *)
(* client presents a token it was answered with, however old, or none the  *)
(* server knows.  `stale` records that the token was dead when it was sent. *)

Known == {t \in created : req[t].pc = "answered"}

SessionOf(t) == IF t = NoToken THEN NoToken ELSE req[t].session

Busy(s) == /\ s # NoToken
           /\ \E q \in Requests : /\ req[q].kind = "refresh"
                                  /\ req[q].session = s
                                  /\ req[q].pc \in Active

\* The sessions of these tokens that have no refresh under way.
Quiet(tokens) == {s \in {req[t].session : t \in tokens} : ~Busy(s)}

Dispatch(r, kind, label, u, t) ==
  /\ req[r].pc = "unsent"
  /\ req' = [req EXCEPT ![r] =
       [kind |-> kind, pc |-> label, user |-> u, token |-> t,
        session |-> IF kind = "login" THEN r ELSE SessionOf(t),
        stale |-> t \in revoked \cup expired]]
  /\ UNCHANGED <<created, revoked, expired, closed>>

Send(r) ==
  \/ \E u \in Users :
       \/ Dispatch(r, "login", "check", u, NoToken)
       \/ Dispatch(r, "logoutAll", "revokeAll", u, NoToken)
  \/ \E t \in Known \cup {NoToken} :
       \/ /\ ClientWaits => ~Busy(SessionOf(t))
          /\ Dispatch(r, "refresh", "find", NoUser, t)
       \/ Dispatch(r, "logout", "logout", NoUser, t)

-----------------------------------------------------------------------------
(* The handlers. *)

\* login: the user's row is read; the password and the email are in order or
\* the login is denied.
Check(r) ==
  /\ req[r].pc = "check"
  /\ Goto(r, "issue") \/ Goto(r, "denied")
  /\ UNCHANGED <<created, revoked, expired, closed>>

\* Slip: the row's revokedAt is not looked at.
IgnoreRevoked(t) == FALSE

\* if (existingToken.revokedAt)
WasRevoked(t) == t \in revoked

\* validateAndRotate reads the row and decides, before it writes anything.
Find(r) ==
  /\ req[r].pc = "find"
  /\ \/ /\ FindByTokenHash(hashToken(req[r].token)) = {}
        /\ Goto(r, "denied")
     \/ \E t \in FindByTokenHash(hashToken(req[r].token)) :
          req' = [req EXCEPT
            ![r].user = req[t].user,
            ![r].pc = IF WasRevoked(t) THEN "revokeAll"
                      ELSE IF t \in expired THEN "denied"
                      ELSE "revoke"]
  /\ UNCHANGED <<created, revoked, expired, closed>>

\* Slip: the where clause asks for expired rows.
RevokeExpired(u) == revoked' = revoked \cup (TokensOf(u) \cap expired)

RevokeAllForUser(u) == revoked' = revoked \cup TokensOf(u)

\* A refresh that met a revoked token is answered 'reused', a logoutAll 201.
RevokeAll(r) ==
  /\ req[r].pc = "revokeAll"
  /\ RevokeAllForUser(req[r].user)
  /\ \/ /\ req[r].kind = "refresh"
        /\ Goto(r, "reused")
        /\ UNCHANGED closed
     \/ /\ req[r].kind = "logoutAll"
        /\ Goto(r, "answered")
        /\ closed' = closed \cup Quiet(TokensOf(req[r].user))
  /\ UNCHANGED <<created, expired>>

\* Slip: revoke is not awaited, and the process stops before it runs.
RevokeLater(t) == UNCHANGED revoked

\* repository.revoke writes revokedAt whatever it was.
RevokeToken(t) == revoked' = revoked \cup {t}

Revoke(r) ==
  /\ req[r].pc = "revoke"
  /\ RevokeToken(req[r].token)
  /\ Goto(r, "issue")
  /\ UNCHANGED <<created, expired, closed>>

InsertToken(r) == created' = created \cup {r}

Issue(r) ==
  /\ req[r].pc = "issue"
  /\ InsertToken(r)
  /\ Goto(r, "answer")
  /\ UNCHANGED <<revoked, expired, closed>>

\* refresh still reads the user before it answers; login answers at once.
Answer(r) ==
  /\ req[r].pc = "answer"
  /\ Goto(r, "answered")
  /\ UNCHANGED <<created, revoked, expired, closed>>

\* logout looks the raw token up as if it were a hash, and revokes the row it
\* finds; revoke asks nothing of the row, so the two calls are one step.
Logout(r) ==
  /\ req[r].pc = "logout"
  /\ revoked' = revoked \cup FindByTokenHash(req[r].token)
  /\ Goto(r, "answered")
  /\ UNCHANGED <<created, expired, closed>>

\* The awaited call fails, with or without effect, or the process stops.
Abort(r) ==
  /\ "abort" \in Faults
  /\ req[r].pc \in Active
  /\ \/ UNCHANGED <<created, revoked>>
     \/ req[r].pc = "revokeAll" /\ RevokeAllForUser(req[r].user) /\ UNCHANGED created
     \/ req[r].pc = "revoke" /\ RevokeToken(req[r].token) /\ UNCHANGED created
     \/ req[r].pc = "issue" /\ InsertToken(r) /\ UNCHANGED revoked
  /\ Goto(r, "aborted")
  /\ UNCHANGED <<expired, closed>>

\* Seven days pass.
Expire(t) ==
  /\ t \in created \ expired
  /\ expired' = expired \cup {t}
  /\ UNCHANGED <<req, created, revoked, closed>>

Handle(r) ==
  \/ Check(r) \/ Find(r) \/ RevokeAll(r) \/ Revoke(r) \/ Issue(r) \/ Answer(r)
  \/ Logout(r)

\* Every request of the bound is spent.
Terminating == (\A r \in Requests : req[r].pc \in Ended) /\ UNCHANGED vars

Next ==
  \/ \E r \in Requests : Send(r) \/ Handle(r) \/ Abort(r) \/ Expire(r)
  \/ Terminating

Spec == Init /\ [][Next]_vars

-----------------------------------------------------------------------------
(* Properties. *)

\* A token never lives beside its successor: rotation revokes the old row
\* before it inserts the new one, whatever overlaps or stops in between.
RotatedIsRevoked ==
  \A t \in created : req[t].kind = "refresh" => req[t].token \in revoked

\* A token that was revoked or expired when it was sent is never rotated.
StaleIsNotRotated ==
  \A r \in Requests :
    req[r].kind = "refresh" /\ req[r].stale =>
      req[r].pc \notin {"revoke", "issue", "answer", "answered"}

\* A session has one live token at most.
OneLiveTokenPerSession ==
  \A s, t \in Live : req[s].session = req[t].session => s = t

\* Once a reuse has been answered, no token of that session is live, nor
\* will be: the theft signal ends the session (README).
ReuseEndsSession ==
  \A r \in Requests : req[r].pc = "reused" =>
    \A t \in Live : req[t].session # req[r].session

\* "Log out of the current session": the token of an answered logout is dead.
LogoutEndsSession ==
  \A r \in Requests :
    /\ req[r].kind = "logout"
    /\ req[r].pc = "answered"
    => req[r].token \notin Live

\* "All sessions logged out": a session that an answered logoutAll met with no
\* refresh of it under way has no live token, then or later.
LogoutAllEndsSessions ==
  \A t \in Live : req[t].session \notin closed
=============================================================================
