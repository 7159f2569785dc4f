------------------------- MODULE SessionsRefinement -------------------------
(* RefreshTokens implements UserSessions, for clients that wait. *)
EXTENDS RefreshTokens

TokensIn(s) == {t \in created : req[t].session = s}

ValidIn(s) == TokensIn(s) \ revoked

\* A refresh has found the token of its session alive, and may insert one.
Renewing(s) ==
  \E r \in Requests : /\ req[r].kind = "refresh" /\ req[r].session = s
                      /\ req[r].pc \in {"revoke", "issue"}

PhaseOf(s) ==
  IF TokensIn(s) = {} THEN "absent"
  ELSE IF ValidIn(s) # {} THEN "open"
  ELSE IF Renewing(s) THEN "renewing" ELSE "over"

OwnerOf(s) == IF TokensIn(s) = {} THEN NoUser ELSE req[s].user

Held == INSTANCE UserSessions WITH
          Tokens <- Requests,
          issued <- created,
          owner  <- [s \in Requests |-> OwnerOf(s)],
          valid  <- [s \in Requests |-> ValidIn(s)],
          phase  <- [s \in Requests |-> PhaseOf(s)]

\* Whatever overlaps, fails or stops, a session has one valid token at a time,
\* loses it before it gets the next, gets none that any session had before,
\* and never comes back once it is over; and a reuse or a logoutAll takes the
\* tokens of all the sessions of its user at once.
ImplementsSessions == Held!Spec
=============================================================================
