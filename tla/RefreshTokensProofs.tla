------------------------- MODULE RefreshTokensProofs -------------------------
(***************************************************************************)
(* Proofs about RefreshTokens, for every set of requests and users, with   *)
(* and without faults, and however clients overlap their requests; where a *)
(* theorem holds of clients that wait for an answer only, it says so.      *)
(***************************************************************************)
EXTENDS SessionsRefinement, TLAPS

\* A refresh that is about to revoke presents a token that has a row; one that
\* is past that point has revoked it; a token has the row its request inserted.
RotationInOrder ==
  \A r \in Requests :
    /\ req[r].pc = "revoke" => req[r].token \in created
    /\ req[r].kind = "refresh" /\ (req[r].pc \in {"issue", "answer"} \/ r \in created)
         => req[r].token \in revoked
    /\ req[r].pc = "unsent" => r \notin created

\* What was dead when it was sent is dead.
StaleIsDead ==
  \A r \in Requests : req[r].stale => req[r].token \in revoked \cup expired

\* login and logout do not rotate.
OnlyRefreshRotates ==
  \A r \in Requests : req[r].pc \in {"check", "logout"} => req[r].kind # "refresh"

\* A request that has a session to carry on, or starts one, has its name.
SessionsNamed ==
  \A r \in Requests :
    \/ req[r].kind = "login" \/ req[r].token # NoToken
    \/ r \in created \/ req[r].pc \in {"check", "revoke", "issue"}
    => req[r].session \in Requests

TokensInv == /\ TypeOK
             /\ SessionsNamed
             /\ RotationInOrder
             /\ OnlyRefreshRotates
             /\ StaleIsDead
             /\ StaleIsNotRotated

LEMMA InitTokens == Init => TokensInv
<1>. SUFFICES ASSUME Init PROVE TokensInv
  OBVIOUS
<1>1. Unsent \in RequestRecords
  BY DEF Unsent, RequestRecords, Kinds
<1>2. TypeOK
  BY <1>1 DEF Init, TypeOK
<1>3. /\ RotationInOrder /\ OnlyRefreshRotates /\ SessionsNamed
      /\ StaleIsDead /\ StaleIsNotRotated
  BY DEF Init, Unsent, RotationInOrder, OnlyRefreshRotates, SessionsNamed,
         StaleIsDead, StaleIsNotRotated
<1>. QED  BY <1>2, <1>3 DEF TokensInv

\* The record of one request moves to another label.
LEMMA GotoType ==
  ASSUME req \in [Requests -> RequestRecords], NEW r \in Requests,
         NEW label \in Active \cup Ended, Goto(r, label)
  PROVE  req' \in [Requests -> RequestRecords]
BY DEF RequestRecords, Goto

LEMMA SendTokens ==
  ASSUME TokensInv, NEW r \in Requests, Send(r)
  PROVE  TokensInv'
<1>. USE DEF TokensInv
<1>1. PICK kind \in Kinds, label \in {"check", "find", "logout", "revokeAll"},
           u \in Users \cup {NoUser}, t \in Known \cup {NoToken} :
        /\ Dispatch(r, kind, label, u, t)
        /\ kind = "refresh" => label = "find"
        /\ label = "check" => kind = "login"
  BY DEF Send, Kinds
<1>. DEFINE sent == [kind |-> kind, pc |-> label, user |-> u, token |-> t,
                     session |-> IF kind = "login" THEN r ELSE SessionOf(t),
                     stale |-> t \in revoked \cup expired]
<1>2. /\ req' = [req EXCEPT ![r] = sent]
      /\ req[r].pc = "unsent"
      /\ UNCHANGED <<created, revoked, expired, closed>>
  BY <1>1 DEF Dispatch
<1>3. t \in Requests \cup {NoToken}
  BY DEF Known, TypeOK
<1>4. sent \in RequestRecords
  <2>1. SessionOf(t) \in Requests \cup {NoToken}
    BY <1>3 DEF SessionOf, TypeOK, RequestRecords
  <2>. QED  BY <1>3, <2>1 DEF RequestRecords, Active
<1>5. TypeOK'
  BY <1>2, <1>4 DEF TypeOK
<1>6. r \notin created
  BY <1>2 DEF RotationInOrder
<1>. USE DEF TypeOK
<1>7. RotationInOrder'
  BY <1>2, <1>6 DEF RotationInOrder
<1>8. StaleIsDead'
  BY <1>2 DEF StaleIsDead
<1>9. OnlyRefreshRotates' /\ StaleIsNotRotated'
  BY <1>1, <1>2 DEF OnlyRefreshRotates, StaleIsNotRotated
<1>10. SessionsNamed'
  <2>1. \A q \in Requests \ {r} : req'[q] = req[q]
    BY <1>2
  <2>2. req'[r] = sent
    BY <1>2
  <2>3. kind = "login" \/ t # NoToken => sent.session \in Requests
    <3>1. t # NoToken => SessionOf(t) \in Requests
      BY DEF SessionOf, Known, SessionsNamed
    <3>. QED  BY <3>1
  <2>4. sent.kind = kind /\ sent.token = t /\ sent.pc = label
    OBVIOUS
  <2>. HIDE DEF sent
  <2>. QED  BY <1>1, <1>2, <1>6, <2>1, <2>2, <2>3, <2>4 DEF SessionsNamed
<1>. QED  BY <1>5, <1>7, <1>8, <1>9, <1>10

LEMMA FindTokens ==
  ASSUME TokensInv, NEW r \in Requests, Find(r)
  PROVE  TokensInv'
<1>. USE DEF TokensInv
<1>1. UNCHANGED <<created, revoked, expired, closed>>
  BY DEF Find
<1>2. CASE Goto(r, "denied")
  <2>1. TypeOK'
    BY <1>1, <1>2, GotoType DEF TypeOK, Ended
  <2>. USE DEF TypeOK, RequestRecords
  <2>2. RotationInOrder'
    <3>1. \A q \in Requests \ {r} : req'[q] = req[q]
      BY <1>2 DEF Goto
    <3>2. /\ req'[r].kind = req[r].kind
          /\ req'[r].token = req[r].token
          /\ req'[r].pc = "denied"
      BY <1>2 DEF Goto
    <3>. QED  BY <1>1, <3>1, <3>2 DEF RotationInOrder
  <2>3. OnlyRefreshRotates' /\ StaleIsDead' /\ StaleIsNotRotated'
    BY <1>1, <1>2 DEF OnlyRefreshRotates, StaleIsDead, StaleIsNotRotated, Goto
  <2>4. SessionsNamed'
    BY <1>1, <1>2 DEF SessionsNamed, Goto
  <2>. QED  BY <2>1, <2>2, <2>3, <2>4
<1>3. ASSUME NEW t \in FindByTokenHash(hashToken(req[r].token)),
             req' = [req EXCEPT
               ![r].user = req[t].user,
               ![r].pc = IF WasRevoked(t) THEN "revokeAll"
                         ELSE IF t \in expired THEN "denied"
                         ELSE "revoke"]
      PROVE  TokensInv'
  <2>. DEFINE label == IF WasRevoked(t) THEN "revokeAll"
                       ELSE IF t \in expired THEN "denied"
                       ELSE "revoke"
  <2>1. t = req[r].token /\ t \in created
    BY DEF FindByTokenHash, hashToken
  <2>2. label \in Active \cup Ended
    BY DEF Active, Ended
  <2>3. TypeOK'
    <3>. HIDE DEF label
    <3>1. req' = [req EXCEPT ![r].user = req[t].user, ![r].pc = label]
      BY <1>3 DEF label
    <3>2. req[t].user \in Users \cup {NoUser}
      BY <2>1 DEF TypeOK, RequestRecords
    <3>3. req' \in [Requests -> RequestRecords]
      <4>. HIDE DEF TokensInv
      <4>1. req \in [Requests -> RequestRecords]
        BY DEF TokensInv, TypeOK
      <4>. QED  BY <2>2, <3>1, <3>2, <4>1 DEF RequestRecords
    <3>. QED  BY <1>1, <3>3 DEF TypeOK
  <2>. USE DEF TypeOK, RequestRecords
  <2>4. RotationInOrder'
    <3>1. \A q \in Requests \ {r} : req'[q] = req[q]
      BY <1>3
    <3>2. /\ req'[r].kind = req[r].kind
          /\ req'[r].token = req[r].token
          /\ req'[r].pc \in {"revokeAll", "denied", "revoke"}
      BY <1>3
    <3>. QED  BY <1>1, <2>1, <3>1, <3>2 DEF RotationInOrder
  <2>5. StaleIsDead'
    BY <1>1, <1>3, <2>1 DEF StaleIsDead
  <2>6. StaleIsNotRotated'
    BY <1>1, <1>3, <2>1 DEF StaleIsNotRotated, StaleIsDead, WasRevoked
  <2>7. OnlyRefreshRotates'
    BY <1>1, <1>3 DEF OnlyRefreshRotates
  <2>8. SessionsNamed'
    <3>1. \A q \in Requests \ {r} : req'[q] = req[q]
      BY <1>3
    <3>2. /\ req'[r].kind = req[r].kind
          /\ req'[r].token = req[r].token
          /\ req'[r].session = req[r].session
      BY <1>3
    <3>3. req[r].session \in Requests
      BY <2>1, TokensAssumption DEF SessionsNamed
    <3>. QED  BY <1>1, <3>1, <3>2, <3>3 DEF SessionsNamed
  <2>. QED  BY <2>3, <2>4, <2>5, <2>6, <2>7, <2>8
<1>. QED  BY <1>2, <1>3 DEF Find

-----------------------------------------------------------------------------
\* What the other handlers have in common: request r moves to another label,
\* tokens are only ever revoked, and r's own is the only one inserted.
LEMMA MoveTokens ==
  ASSUME TokensInv, NEW r \in Requests,
         NEW label \in (Active \cup Ended) \ {"check", "logout", "revoke"},
         Goto(r, label),
         created \subseteq created', created' \subseteq created \cup {r},
         revoked \subseteq revoked', revoked' \subseteq created',
         expired' = expired,
         closed' \subseteq Requests,
         /\ req[r].kind = "refresh"
         /\ label \in {"issue", "answer"} \/ r \in created'
         => req[r].token \in revoked',
         req[r].kind = "refresh" /\ req[r].stale =>
           label \notin {"issue", "answer", "answered"},
         label = "issue" \/ r \in created' => req[r].session \in Requests,
         req[r].pc # "unsent"
  PROVE  TokensInv'
<1>1. req \in [Requests -> RequestRecords]
  BY DEF TokensInv, TypeOK
<1>2. \A q \in Requests \ {r} : req'[q] = req[q]
  BY <1>1 DEF Goto
<1>3. /\ req'[r].kind = req[r].kind
      /\ req'[r].token = req[r].token
      /\ req'[r].stale = req[r].stale
      /\ req'[r].session = req[r].session
      /\ req'[r].pc = label
  BY <1>1 DEF Goto, RequestRecords
<1>4. label # "unsent"
  BY DEF Active, Ended
<1>5. TypeOK'
  <2>1. req' \in [Requests -> RequestRecords]
    BY <1>1, GotoType
  <2>. QED  BY <2>1 DEF TokensInv, TypeOK
<1>6. RotationInOrder'
  BY <1>2, <1>3, <1>4 DEF TokensInv, RotationInOrder
<1>7. OnlyRefreshRotates'
  BY <1>2, <1>3 DEF TokensInv, OnlyRefreshRotates
<1>8. StaleIsDead'
  BY <1>2, <1>3 DEF TokensInv, StaleIsDead
<1>9. StaleIsNotRotated'
  BY <1>2, <1>3 DEF TokensInv, StaleIsNotRotated
<1>10. SessionsNamed'
  BY <1>2, <1>3 DEF TokensInv, SessionsNamed
<1>. QED  BY <1>5, <1>6, <1>7, <1>8, <1>9, <1>10 DEF TokensInv

\* Every token a query returns has a row.
LEMMA RevokedHaveRows ==
  ASSUME TokensInv, NEW r \in Requests
  PROVE  /\ revoked \subseteq created
         /\ closed \subseteq Requests
         /\ FindByTokenHash(req[r].token) \subseteq created
         /\ \A u : TokensOf(u) \subseteq created
         /\ req[r].pc = "revoke" => req[r].token \in created
         /\ r \in created \/ req[r].pc \in {"check", "revoke", "issue"}
              => req[r].session \in Requests
BY DEF TokensInv, TypeOK, FindByTokenHash, TokensOf, RotationInOrder, SessionsNamed

\* A refresh that is not past its revocation has no row of its own, or has
\* revoked what it rotates; so has every request once it is over.
LEMMA OwnRow ==
  ASSUME TokensInv, NEW r \in Requests, req[r].kind = "refresh",
         req[r].pc \in {"issue", "answer"} \/ r \in created
  PROVE  req[r].token \in revoked
BY DEF TokensInv, RotationInOrder

LEMMA CheckTokens ==
  ASSUME TokensInv, NEW r \in Requests, Check(r)
  PROVE  TokensInv'
<1>1. PICK label \in {"issue", "denied"} : Goto(r, label)
  BY DEF Check
<1>2. label \in (Active \cup Ended) \ {"check", "logout", "revoke"}
  BY DEF Active, Ended
<1>3. req[r].kind # "refresh" /\ req[r].pc # "unsent"
  BY DEF Check, TokensInv, OnlyRefreshRotates
<1>4. UNCHANGED <<created, revoked, expired, closed>>
  BY DEF Check
<1>. QED  BY <1>1, <1>2, <1>3, <1>4, RevokedHaveRows, MoveTokens DEF Check

LEMMA RevokeAllTokens ==
  ASSUME TokensInv, NEW r \in Requests, RevokeAll(r)
  PROVE  TokensInv'
<1>1. /\ created' = created /\ expired' = expired
      /\ revoked' = revoked \cup TokensOf(req[r].user)
      /\ req[r].pc = "revokeAll"
  BY DEF RevokeAll, RevokeAllForUser
<1>2. revoked' \subseteq created
  BY <1>1, RevokedHaveRows
<1>3. CASE req[r].kind = "refresh" /\ Goto(r, "reused") /\ UNCHANGED closed
  <2>1. "reused" \in (Active \cup Ended) \ {"check", "logout", "revoke"}
    BY DEF Ended
  <2>. QED  BY <1>1, <1>2, <1>3, <2>1, RevokedHaveRows, OwnRow, MoveTokens
<1>4. CASE /\ req[r].kind = "logoutAll" /\ Goto(r, "answered")
           /\ closed' = closed \cup Quiet(TokensOf(req[r].user))
  <2>1. "answered" \in (Active \cup Ended) \ {"check", "logout", "revoke"}
    BY DEF Ended
  <2>2. closed' \subseteq Requests
    BY <1>4 DEF TokensInv, SessionsNamed, TokensOf, Quiet, TypeOK
  <2>. QED  BY <1>1, <1>2, <1>4, <2>1, <2>2, RevokedHaveRows, MoveTokens
<1>. QED  BY <1>3, <1>4 DEF RevokeAll

LEMMA RevokeTokens ==
  ASSUME TokensInv, NEW r \in Requests, Revoke(r)
  PROVE  TokensInv'
<1>1. /\ created' = created /\ expired' = expired /\ closed' = closed
      /\ revoked' = revoked \cup {req[r].token}
      /\ req[r].pc = "revoke" /\ Goto(r, "issue")
  BY DEF Revoke, RevokeToken
<1>2. revoked' \subseteq created
  BY <1>1, RevokedHaveRows
<1>3. "issue" \in (Active \cup Ended) \ {"check", "logout", "revoke"}
  BY DEF Active
<1>4. ~(req[r].kind = "refresh" /\ req[r].stale)
  BY <1>1 DEF TokensInv, StaleIsNotRotated
<1>. QED  BY <1>1, <1>2, <1>3, <1>4, RevokedHaveRows, MoveTokens

LEMMA IssueTokens ==
  ASSUME TokensInv, NEW r \in Requests, Issue(r)
  PROVE  TokensInv'
<1>1. /\ created' = created \cup {r} /\ UNCHANGED <<revoked, expired, closed>>
      /\ req[r].pc = "issue" /\ Goto(r, "answer")
  BY DEF Issue, InsertToken
<1>2. "answer" \in (Active \cup Ended) \ {"check", "logout", "revoke"}
  BY DEF Active
<1>3. ~(req[r].kind = "refresh" /\ req[r].stale)
  BY <1>1 DEF TokensInv, StaleIsNotRotated
<1>. QED  BY <1>1, <1>2, <1>3, RevokedHaveRows, OwnRow, MoveTokens

LEMMA AnswerTokens ==
  ASSUME TokensInv, NEW r \in Requests, Answer(r)
  PROVE  TokensInv'
<1>1. /\ UNCHANGED <<created, revoked, expired, closed>>
      /\ req[r].pc = "answer" /\ Goto(r, "answered")
  BY DEF Answer
<1>2. "answered" \in (Active \cup Ended) \ {"check", "logout", "revoke"}
  BY DEF Ended
<1>3. ~(req[r].kind = "refresh" /\ req[r].stale)
  BY <1>1 DEF TokensInv, StaleIsNotRotated
<1>. QED  BY <1>1, <1>2, <1>3, RevokedHaveRows, OwnRow, MoveTokens

LEMMA LogoutTokens ==
  ASSUME TokensInv, NEW r \in Requests, Logout(r)
  PROVE  TokensInv'
<1>1. /\ UNCHANGED <<created, expired, closed>>
      /\ revoked' = revoked \cup FindByTokenHash(req[r].token)
      /\ req[r].pc = "logout" /\ Goto(r, "answered")
  BY DEF Logout
<1>2. "answered" \in (Active \cup Ended) \ {"check", "logout", "revoke"}
  BY DEF Ended
<1>3. req[r].kind # "refresh"
  BY <1>1 DEF TokensInv, OnlyRefreshRotates
<1>. QED  BY <1>1, <1>2, <1>3, RevokedHaveRows, MoveTokens

LEMMA AbortTokens ==
  ASSUME TokensInv, NEW r \in Requests, Abort(r)
  PROVE  TokensInv'
<1>1. /\ UNCHANGED <<expired, closed>>
      /\ req[r].pc \in Active /\ Goto(r, "aborted")
  BY DEF Abort
<1>2. "aborted" \in (Active \cup Ended) \ {"check", "logout", "revoke"}
  BY DEF Ended
<1>3. req[r].pc # "unsent"
  BY <1>1 DEF Active
<1>4. CASE UNCHANGED <<created, revoked>>
  BY <1>1, <1>2, <1>3, <1>4, RevokedHaveRows, OwnRow, MoveTokens
<1>5. CASE created' = created /\ revoked' = revoked \cup TokensOf(req[r].user)
  BY <1>1, <1>2, <1>3, <1>5, RevokedHaveRows, OwnRow, MoveTokens
<1>6. CASE /\ req[r].pc = "revoke" /\ created' = created
           /\ revoked' = revoked \cup {req[r].token}
  BY <1>1, <1>2, <1>3, <1>6, RevokedHaveRows, OwnRow, MoveTokens
<1>7. CASE req[r].pc = "issue" /\ created' = created \cup {r} /\ revoked' = revoked
  BY <1>1, <1>2, <1>3, <1>7, RevokedHaveRows, OwnRow, MoveTokens
<1>. QED  BY <1>4, <1>5, <1>6, <1>7 DEF Abort, RevokeAllForUser, RevokeToken, InsertToken

LEMMA ExpireTokens ==
  ASSUME TokensInv, NEW t, Expire(t)
  PROVE  TokensInv'
BY DEF TokensInv, Expire, TypeOK, RotationInOrder, OnlyRefreshRotates,
       StaleIsDead, StaleIsNotRotated, SessionsNamed

LEMMA IdleTokens ==
  ASSUME TokensInv, UNCHANGED vars
  PROVE  TokensInv'
BY DEF TokensInv, vars, TypeOK, RotationInOrder, OnlyRefreshRotates,
       StaleIsDead, StaleIsNotRotated, SessionsNamed

\* Every step of every handler, fault or clock keeps the invariant.
LEMMA TokensStep == TokensInv /\ [Next]_vars => TokensInv'
<1>. SUFFICES ASSUME TokensInv, [Next]_vars PROVE TokensInv'
  OBVIOUS
<1>1. CASE UNCHANGED vars
  BY <1>1, IdleTokens
<1>2. ASSUME NEW r \in Requests, Send(r) \/ Abort(r) \/ Expire(r)
      PROVE  TokensInv'
  BY <1>2, SendTokens, AbortTokens, ExpireTokens
<1>3. ASSUME NEW r \in Requests, Handle(r)
      PROVE  TokensInv'
  BY <1>3, CheckTokens, FindTokens, RevokeAllTokens, RevokeTokens,
     IssueTokens, AnswerTokens, LogoutTokens DEF Handle
<1>. QED  BY <1>1, <1>2, <1>3 DEF Next, Terminating

LEMMA TokensInvariant == Spec => []TokensInv
BY InitTokens, TokensStep, PTL DEF Spec

-----------------------------------------------------------------------------
\* The five variables of the refresh-token table keep their types, and a row
\* is revoked or expired only if it exists.
THEOREM TypeCorrect == Spec => []TypeOK
<1>1. TokensInv => TypeOK
  BY DEF TokensInv
<1>. QED  BY <1>1, TokensInvariant, PTL

\* validateAndRotate never leaves a token alive beside its successor, for any
\* number of overlapping refreshes and wherever one of them stops.
THEOREM RotationRevokesFirst == Spec => []RotatedIsRevoked
<1>1. TokensInv => RotatedIsRevoked
  BY DEF TokensInv, TypeOK, RotationInOrder, RotatedIsRevoked
<1>. QED  BY <1>1, TokensInvariant, PTL

\* A refresh with a token that was revoked or expired when it was sent never
\* gets as far as revoking or issuing one.
THEOREM StaleTokensAreRefused == Spec => []StaleIsNotRotated
<1>1. TokensInv => StaleIsNotRotated
  BY DEF TokensInv
<1>. QED  BY <1>1, TokensInvariant, PTL

-----------------------------------------------------------------------------
(* Sessions.  A session is a login and the refreshes that descend from its  *)
(* token; it is over when none of its tokens is live and no refresh of it   *)
(* can insert one.                                                          *)

\* Each token's row belongs to the user, and to the session, of a login that
\* has its row; a refresh acts for the user of the token it found.
Lineage ==
  \A r \in Requests :
    /\ req[r].kind = "login" => req[r].session = r
    /\ req[r].kind \in {"refresh", "logout"} /\ req[r].token # NoToken
         => /\ req[r].token \in created
            /\ req[r].session = req[req[r].token].session
    /\ r \in created => /\ req[r].session \in created
                        /\ req[req[r].session].kind = "login"
                        /\ req[r].user = req[req[r].session].user
    /\ req[r].kind = "refresh" /\ req[r].pc \in {"revokeAll", "revoke", "issue"}
         => /\ req[r].token \in created
            /\ req[r].user = req[req[r].token].user

\* Where each handler's requests can be.
Labels ==
  \A r \in Requests :
    /\ r \in created => /\ req[r].pc \in {"answer", "answered", "aborted"}
                        /\ req[r].kind \in {"login", "refresh"}
    /\ req[r].pc \in {"find", "revoke", "reused"} => req[r].kind = "refresh"
    /\ req[r].pc = "check" => req[r].kind = "login"
    /\ req[r].pc = "issue" => req[r].kind \in {"login", "refresh"}
    /\ req[r].pc = "revokeAll" => req[r].kind \in {"refresh", "logoutAll"}
    /\ req[r].pc = "logout" => req[r].kind = "logout"
    /\ req[r].kind \in {"login", "logoutAll"} => req[r].user \in Users

Finished(s) ==
  /\ \A t \in Live : req[t].session # s
  /\ \A r \in Requests : req[r].kind = "refresh" /\ req[r].session = s
                           => req[r].pc \notin {"revoke", "issue"}

SessionsInv == TokensInv /\ Lineage /\ Labels

-----------------------------------------------------------------------------
\* What a client's call does: a request that was never sent begins.
SendMove(r) ==
  /\ req[r].pc = "unsent"
  /\ UNCHANGED <<created, revoked, expired, closed>>
  /\ \A q \in Requests \ {r} : req'[q] = req[q]
  /\ req'[r].token \in Known \cup {NoToken}
  /\ req'[r].session = IF req'[r].kind = "login" THEN r ELSE SessionOf(req'[r].token)
  /\ req'[r].pc \in {"check", "find", "logout", "revokeAll"}
  /\ req'[r].pc = "check" <=> req'[r].kind = "login"
  /\ req'[r].pc = "find" <=> req'[r].kind = "refresh"
  /\ ClientWaits /\ req'[r].kind = "refresh" => ~Busy(req'[r].session)
  /\ req'[r].pc = "revokeAll" => req'[r].kind = "logoutAll"
  /\ req'[r].pc = "logout" => req'[r].kind = "logout"
  /\ req'[r].kind \in {"login", "logoutAll"} => req'[r].user \in Users

\* What a step of a handler, or its end by a fault, does: the request moves on
\* and keeps its token and session; rows are revoked, and its own is inserted.
HandlerMove(r) ==
  /\ \A q \in Requests \ {r} : req'[q] = req[q]
  /\ req'[r].kind = req[r].kind
  /\ req'[r].token = req[r].token
  /\ req'[r].session = req[r].session
  /\ \/ req'[r].user = req[r].user
     \/ /\ req[r].pc = "find"
        /\ req[r].token \in created
        /\ req'[r].user = req[req[r].token].user
  /\ req[r].pc \in Active
  /\ revoked \subseteq revoked'
  /\ \/ revoked' = revoked
     \/ /\ created' = created
        /\ \E t : /\ revoked' = revoked \cup {t}
                  /\ t = req[r].token \/ req[r].pc = "logout"
     \/ /\ created' = created
        /\ req[r].pc = "revokeAll" /\ req'[r].pc \in Ended
        /\ revoked' = revoked \cup TokensOf(req[r].user)
  /\ \/ created' = created
     \/ /\ req[r].pc = "issue"
        /\ created' = created \cup {r}
        /\ req'[r].pc \in {"answer", "aborted"}
  /\ req[r].pc = "answer" => req'[r].pc \in {"answered", "aborted"}
  /\ req'[r].pc \notin {"check", "find", "logout"}
  /\ req'[r].pc = "revoke" =>
       /\ req[r].pc = "find"
       /\ req[r].token \in created \ revoked
       /\ req'[r].user = req[req[r].token].user
  /\ req'[r].pc = "revokeAll" =>
       /\ req[r].pc = "find"
       /\ req[r].token \in created
       /\ req'[r].user = req[req[r].token].user
  /\ req'[r].pc = "issue" =>
       /\ req'[r].user = req[r].user
       /\ \/ req[r].pc = "check"
          \/ req[r].pc = "revoke" /\ req[r].token \in revoked'
  /\ req'[r].pc = "reused" =>
       /\ req[r].pc = "revokeAll"
       /\ req[r].kind = "refresh"
       /\ created' = created
       /\ TokensOf(req[r].user) \subseteq revoked'
  /\ \/ closed' = closed
     \/ /\ created' = created
        /\ TokensOf(req[r].user) \subseteq revoked'
        /\ closed' = closed \cup Quiet(TokensOf(req[r].user))
        /\ req'[r].pc = "answered"

LEMMA SendMoves ==
  ASSUME TokensInv, NEW r \in Requests, Send(r)
  PROVE  SendMove(r)
<1>1. PICK kind \in Kinds, label \in {"check", "find", "logout", "revokeAll"},
           u \in Users \cup {NoUser}, t \in Known \cup {NoToken} :
        /\ Dispatch(r, kind, label, u, t)
        /\ label = "check" <=> kind = "login"
        /\ label = "find" <=> kind = "refresh"
        /\ ClientWaits /\ kind = "refresh" => ~Busy(SessionOf(t))
        /\ label = "revokeAll" => kind = "logoutAll"
        /\ label = "logout" => kind = "logout"
        /\ kind \in {"login", "logoutAll"} => u \in Users
  BY DEF Send, Kinds
<1>. DEFINE sent == [kind |-> kind, pc |-> label, user |-> u, token |-> t,
                     session |-> IF kind = "login" THEN r ELSE SessionOf(t),
                     stale |-> t \in revoked \cup expired]
<1>2. /\ req' = [req EXCEPT ![r] = sent]
      /\ req[r].pc = "unsent"
      /\ UNCHANGED <<created, revoked, expired, closed>>
  BY <1>1 DEF Dispatch
<1>3. req'[r] = sent /\ \A q \in Requests \ {r} : req'[q] = req[q]
  BY <1>2 DEF TokensInv, TypeOK
<1>4. /\ req'[r].kind = kind /\ req'[r].pc = label /\ req'[r].token = t
      /\ req'[r].user = u
      /\ req'[r].session = IF kind = "login" THEN r ELSE SessionOf(t)
  BY <1>3
<1>. HIDE DEF sent
<1>5. kind = "refresh" => req'[r].session = SessionOf(t)
  BY <1>4
<1>6. ClientWaits /\ kind = "refresh" => ~Busy(req'[r].session)
  BY <1>1, <1>5
<1>. QED  BY <1>1, <1>2, <1>3, <1>4, <1>6 DEF SendMove

\* A request that moves by Goto keeps everything but its label.
LEMMA GotoKeeps ==
  ASSUME TypeOK, NEW r \in Requests, NEW label, Goto(r, label)
  PROVE  /\ \A q \in Requests \ {r} : req'[q] = req[q]
         /\ req'[r].kind = req[r].kind
         /\ req'[r].token = req[r].token
         /\ req'[r].session = req[r].session
         /\ req'[r].user = req[r].user
         /\ req'[r].pc = label
BY DEF TypeOK, RequestRecords, Goto

LEMMA HandlerMoves ==
  ASSUME TokensInv, NEW r \in Requests, Handle(r) \/ Abort(r)
  PROVE  HandlerMove(r)
<1>. USE DEF HandlerMove
<1>0. TypeOK
  BY DEF TokensInv
<1>1. CASE Check(r)
  <2>1. PICK label \in {"issue", "denied"} : Goto(r, label)
    BY <1>1 DEF Check
  <2>2. req[r].pc = "check" /\ UNCHANGED <<created, revoked, expired, closed>>
    BY <1>1 DEF Check
  <2>. QED  BY <1>0, <2>1, <2>2, GotoKeeps DEF Active
<1>2. CASE Find(r)
  <2>1. req[r].pc = "find" /\ UNCHANGED <<created, revoked, expired, closed>>
    BY <1>2 DEF Find
  <2>2. CASE Goto(r, "denied")
    BY <1>0, <2>1, <2>2, GotoKeeps DEF Active
  <2>3. ASSUME NEW t \in FindByTokenHash(hashToken(req[r].token)),
               req' = [req EXCEPT
                 ![r].user = req[t].user,
                 ![r].pc = IF WasRevoked(t) THEN "revokeAll"
                           ELSE IF t \in expired THEN "denied"
                           ELSE "revoke"]
        PROVE  HandlerMove(r)
    <3>1. t = req[r].token /\ t \in created
      BY DEF FindByTokenHash, hashToken
    <3>2. /\ \A q \in Requests \ {r} : req'[q] = req[q]
          /\ req'[r].kind = req[r].kind
          /\ req'[r].token = req[r].token
          /\ req'[r].session = req[r].session
          /\ req'[r].user = req[t].user
          /\ req'[r].pc \in {"revokeAll", "denied", "revoke"}
          /\ req'[r].pc = "revoke" => t \notin revoked
      BY <1>0, <2>3 DEF TypeOK, RequestRecords, WasRevoked
    <3>. QED  BY <2>1, <3>1, <3>2 DEF Active
  <2>. QED  BY <1>2, <2>2, <2>3 DEF Find
<1>3. CASE RevokeAll(r)
  <2>1. /\ created' = created /\ expired' = expired
        /\ revoked' = revoked \cup TokensOf(req[r].user)
        /\ req[r].pc = "revokeAll"
    BY <1>3 DEF RevokeAll, RevokeAllForUser
  <2>2. CASE req[r].kind = "refresh" /\ Goto(r, "reused") /\ UNCHANGED closed
    BY <1>0, <2>1, <2>2, GotoKeeps DEF Active, Ended
  <2>3. CASE /\ Goto(r, "answered")
             /\ closed' = closed \cup Quiet(TokensOf(req[r].user))
    BY <1>0, <2>1, <2>3, GotoKeeps DEF Active, Ended
  <2>. QED  BY <1>3, <2>2, <2>3 DEF RevokeAll
<1>4. CASE Revoke(r)
  <2>1. /\ created' = created /\ closed' = closed
        /\ revoked' = revoked \cup {req[r].token}
        /\ req[r].pc = "revoke" /\ Goto(r, "issue")
    BY <1>4 DEF Revoke, RevokeToken
  <2>. QED  BY <1>0, <2>1, GotoKeeps DEF Active
<1>5. CASE Issue(r)
  <2>1. /\ created' = created \cup {r} /\ UNCHANGED <<revoked, closed>>
        /\ req[r].pc = "issue" /\ Goto(r, "answer")
    BY <1>5 DEF Issue, InsertToken
  <2>. QED  BY <1>0, <2>1, GotoKeeps DEF Active
<1>6. CASE Answer(r)
  <2>1. /\ UNCHANGED <<created, revoked, closed>>
        /\ req[r].pc = "answer" /\ Goto(r, "answered")
    BY <1>6 DEF Answer
  <2>. QED  BY <1>0, <2>1, GotoKeeps DEF Active
<1>7. CASE Logout(r)
  <2>1. /\ UNCHANGED <<created, closed>>
        /\ revoked' = revoked \cup FindByTokenHash(req[r].token)
        /\ req[r].pc = "logout" /\ Goto(r, "answered")
    BY <1>7 DEF Logout
  <2>2. \/ revoked' = revoked
        \/ \E t : revoked' = revoked \cup {t}
    <3>1. \A s, t \in FindByTokenHash(req[r].token) : s = t
      <4>1. ASSUME NEW s \in FindByTokenHash(req[r].token),
                   NEW t \in FindByTokenHash(req[r].token)
            PROVE  s = t
        <5>1. hashToken(s) = hashToken(t)
          BY DEF FindByTokenHash
        <5>. QED  BY <5>1 DEF hashToken
      <4>. QED  BY <4>1
    <3>. QED  BY <2>1, <3>1
  <2>. QED  BY <1>0, <2>1, <2>2, GotoKeeps DEF Active
<1>8. CASE Abort(r)
  <2>1. closed' = closed /\ req[r].pc \in Active /\ Goto(r, "aborted")
    BY <1>8 DEF Abort
  <2>2. /\ revoked \subseteq revoked'
        /\ \/ created' = created
           \/ req[r].pc = "issue" /\ created' = created \cup {r}
        /\ \/ revoked' = revoked
           \/ /\ created' = created
              /\ \/ /\ req[r].pc = "revoke"
                    /\ revoked' = revoked \cup {req[r].token}
                 \/ /\ req[r].pc = "revokeAll"
                    /\ revoked' = revoked \cup TokensOf(req[r].user)
    BY <1>8 DEF Abort, RevokeAllForUser, RevokeToken, InsertToken
  <2>. QED  BY <1>0, <2>1, <2>2, GotoKeeps DEF Ended
<1>. QED  BY <1>1, <1>2, <1>3, <1>4, <1>5, <1>6, <1>7, <1>8 DEF Handle

\* Every step is a client's call, a step of a handler or its end, a token's
\* expiry, or no step.
LEMMA StepMoves ==
  ASSUME TokensInv, [Next]_vars
  PROVE  \/ \E r \in Requests : SendMove(r) \/ HandlerMove(r)
         \/ UNCHANGED <<req, created, revoked, closed>>
<1>1. CASE UNCHANGED vars
  BY <1>1 DEF vars
<1>2. ASSUME NEW r \in Requests, Expire(r)
      PROVE  UNCHANGED <<req, created, revoked, closed>>
  BY <1>2 DEF Expire
<1>. QED  BY <1>1, <1>2, SendMoves, HandlerMoves DEF Next, Terminating

-----------------------------------------------------------------------------
\* A row's owner, session and kind never change.
LEMMA RowsKeep ==
  ASSUME SessionsInv, NEW r \in Requests, SendMove(r) \/ HandlerMove(r)
  PROVE  /\ created \subseteq created'
         /\ created' \subseteq Requests
         /\ \A t \in created : /\ req'[t].kind = req[t].kind
                               /\ req'[t].session = req[t].session
                               /\ req'[t].user = req[t].user
<1>0. created \subseteq Requests
  BY DEF SessionsInv, TokensInv, TypeOK
<1>1. CASE SendMove(r)
  <2>1. r \notin created
    BY <1>1 DEF SendMove, SessionsInv, TokensInv, RotationInOrder
  <2>. QED  BY <1>0, <1>1, <2>1 DEF SendMove
<1>2. CASE HandlerMove(r)
  <2>1. r \in created => req[r].pc # "find"
    BY DEF SessionsInv, Labels
  <2>. QED  BY <1>0, <1>2, <2>1 DEF HandlerMove
<1>. QED  BY <1>1, <1>2

LEMMA InitSessions == Init => SessionsInv
<1>. SUFFICES ASSUME Init PROVE SessionsInv
  OBVIOUS
<1>1. Lineage /\ Labels
  BY DEF Init, Unsent, Lineage, Labels
<1>. QED  BY <1>1, InitTokens DEF SessionsInv

LEMMA SendSessions ==
  ASSUME SessionsInv, NEW r \in Requests, SendMove(r)
  PROVE  Lineage' /\ Labels'
<1>1. /\ created' = created
      /\ r \notin created
      /\ created \subseteq Requests
      /\ \A q \in Requests \ {r} : req'[q] = req[q]
  BY DEF SendMove, SessionsInv, TokensInv, TypeOK, RotationInOrder
<1>2. Labels'
  BY <1>1 DEF SendMove, SessionsInv, Labels
<1>3. ASSUME NEW q \in Requests \ {r}
      PROVE  /\ req[q].kind = "login" => req'[q].session = q
             /\ req'[q].kind \in {"refresh", "logout"} /\ req'[q].token # NoToken
                  => /\ req'[q].token \in created'
                     /\ req'[q].session = req'[req'[q].token].session
             /\ q \in created' => /\ req'[q].session \in created'
                                  /\ req'[req'[q].session].kind = "login"
                                  /\ req'[q].user = req'[req'[q].session].user
             /\ req'[q].kind = "refresh" /\ req'[q].pc \in {"revokeAll", "revoke", "issue"}
                  => /\ req'[q].token \in created'
                     /\ req'[q].user = req'[req'[q].token].user
  BY <1>1 DEF SessionsInv, Lineage
<1>4. /\ req'[r].kind = "login" => req'[r].session = r
      /\ req'[r].kind # "login" /\ req'[r].token # NoToken
           => /\ req'[r].token \in created'
              /\ req'[r].session = req'[req'[r].token].session
      /\ r \notin created'
      /\ ~(req'[r].kind = "refresh" /\ req'[r].pc \in {"revokeAll", "revoke", "issue"})
  BY <1>1 DEF SendMove, Known, SessionOf
<1>. QED  BY <1>1, <1>2, <1>3, <1>4 DEF Lineage

LEMMA HandlerSessions ==
  ASSUME SessionsInv, NEW r \in Requests, HandlerMove(r)
  PROVE  Lineage' /\ Labels'
<1>1. /\ created \subseteq created'
      /\ created' \subseteq Requests
      /\ \A t \in created : /\ req'[t].kind = req[t].kind
                            /\ req'[t].session = req[t].session
                            /\ req'[t].user = req[t].user
  BY RowsKeep
<1>2. /\ \A q \in Requests \ {r} : req'[q] = req[q]
      /\ created' \subseteq created \cup {r}
  BY DEF HandlerMove
<1>3. Lineage /\ Labels
  BY DEF SessionsInv
<1>4. Labels'
  <2>1. \A q \in Requests \ {r} : q \in created' => q \in created
    BY <1>2
  <2>2. r \in created' => /\ req'[r].pc \in {"answer", "answered", "aborted"}
                          /\ req'[r].kind \in {"login", "refresh"}
    <3>1. CASE r \in created
      BY <1>3, <3>1 DEF HandlerMove, Labels, Active
    <3>2. CASE r \notin created
      BY <1>3, <3>2 DEF HandlerMove, Labels
    <3>. QED  BY <3>1, <3>2
  <2>3. /\ req'[r].pc \in {"find", "revoke", "reused"} => req'[r].kind = "refresh"
        /\ req'[r].pc = "check" => req'[r].kind = "login"
        /\ req'[r].pc = "issue" => req'[r].kind \in {"login", "refresh"}
    BY <1>3 DEF HandlerMove, Labels
  <2>4. /\ req'[r].pc = "revokeAll" => req'[r].kind \in {"refresh", "logoutAll"}
        /\ req'[r].pc = "logout" => req'[r].kind = "logout"
        /\ req'[r].kind \in {"login", "logoutAll"} => req'[r].user \in Users
    BY <1>3 DEF HandlerMove, Labels
  <2>. QED  BY <1>2, <1>3, <2>1, <2>2, <2>3, <2>4 DEF Labels
<1>5. ASSUME NEW q \in Requests
      PROVE  /\ req'[q].kind = "login" => req'[q].session = q
             /\ req'[q].kind \in {"refresh", "logout"} /\ req'[q].token # NoToken
                  => /\ req'[q].token \in created'
                     /\ req'[q].session = req'[req'[q].token].session
  <2>1. req'[q].kind = req[q].kind /\ req'[q].token = req[q].token
        /\ req'[q].session = req[q].session
    BY <1>2 DEF HandlerMove
  <2>. QED  BY <1>1, <1>3, <2>1 DEF Lineage
<1>6. ASSUME NEW q \in Requests, req'[q].kind = "refresh",
             req'[q].pc \in {"revokeAll", "revoke", "issue"}
      PROVE  /\ req'[q].token \in created'
             /\ req'[q].user = req'[req'[q].token].user
  <2>1. CASE q # r
    BY <1>1, <1>2, <1>3, <1>6, <2>1 DEF Lineage
  <2>2. CASE q = r
    <3>1. req[r].token \in created /\ req'[r].user = req[req[r].token].user
      <4>1. CASE req'[r].pc \in {"revokeAll", "revoke"}
        BY <4>1 DEF HandlerMove
      <4>2. CASE req'[r].pc = "issue"
        <5>1. req[r].kind = "refresh" /\ req[r].pc = "revoke"
          BY <1>3, <1>6, <2>2, <4>2 DEF HandlerMove, Labels
        <5>. QED  BY <1>3, <4>2, <5>1 DEF Lineage, HandlerMove
      <4>. QED  BY <1>6, <2>2, <4>1, <4>2
    <3>. QED  BY <1>1, <2>2, <3>1 DEF HandlerMove
  <2>. QED  BY <2>1, <2>2
<1>7. ASSUME NEW q \in created'
      PROVE  /\ req'[q].session \in created'
             /\ req'[req'[q].session].kind = "login"
             /\ req'[q].user = req'[req'[q].session].user
  <2>1. CASE q \in created
    BY <1>1, <1>3, <2>1 DEF Lineage
  <2>2. CASE q \notin created
    <3>1. /\ q = r /\ r \in created' /\ req[r].pc = "issue" /\ r \in Requests
          /\ req'[r].user = req[r].user
          /\ req'[r].session = req[r].session
          /\ req'[r].kind = req[r].kind
      BY <1>2, <1>7, <2>2 DEF HandlerMove
    <3>2. CASE req[r].kind = "login"
      BY <1>3, <3>1, <3>2 DEF Lineage
    <3>3. CASE req[r].kind = "refresh"
      <4>1. /\ req[r].token \in created
            /\ req[r].user = req[req[r].token].user
        BY <1>3, <3>1, <3>3 DEF Lineage
      <4>2. /\ req[r].token \in Requests
            /\ req[r].token # NoToken
        BY <1>1, <4>1, TokensAssumption
      <4>3. req[r].session = req[req[r].token].session
        BY <1>3, <3>3, <4>2 DEF Lineage
      <4>4. /\ req[r].session \in created
            /\ req[req[r].session].kind = "login"
            /\ req[r].user = req[req[r].session].user
        BY <1>3, <4>1, <4>2, <4>3 DEF Lineage
      <4>. QED  BY <1>1, <3>1, <4>4
    <3>. QED  BY <1>3, <3>1, <3>2, <3>3 DEF Labels
  <2>. QED  BY <2>1, <2>2
<1>. QED  BY <1>1, <1>4, <1>5, <1>6, <1>7 DEF Lineage

LEMMA SessionsStep == SessionsInv /\ [Next]_vars => SessionsInv'
<1>. SUFFICES ASSUME SessionsInv, [Next]_vars PROVE Lineage' /\ Labels'
  BY TokensStep DEF SessionsInv
<1>1. CASE UNCHANGED <<req, created, revoked, closed>>
  BY <1>1 DEF SessionsInv, Lineage, Labels
<1>. QED  BY <1>1, StepMoves, SendSessions, HandlerSessions DEF SessionsInv

LEMMA SessionsInvariant == Spec => []SessionsInv
BY InitSessions, SessionsStep, PTL DEF Spec

-----------------------------------------------------------------------------
\* A session that is over stays over: what was inserted last descends from a
\* token of its own session that was live then.
LEMMA FinishedStays ==
  ASSUME SessionsInv, NEW r \in Requests, SendMove(r) \/ HandlerMove(r),
         NEW s \in created, Finished(s)
  PROVE  Finished(s)'
<1>1. /\ created \subseteq created'
      /\ created' \subseteq Requests
      /\ \A t \in created : req'[t].session = req[t].session
  BY RowsKeep
<1>2. Lineage /\ Labels
  BY DEF SessionsInv
<1>3. CASE SendMove(r)
  <2>1. /\ \A q \in Requests \ {r} : req'[q] = req[q]
        /\ req'[r].pc \notin {"revoke", "issue"}
        /\ Live' = Live
        /\ \A t \in Live : t \in created
    BY <1>3 DEF SendMove, Live
  <2>. QED  BY <1>1, <2>1 DEF Finished
<1>4. CASE HandlerMove(r)
  <2>1. /\ \A q \in Requests \ {r} : req'[q] = req[q]
        /\ req'[r].kind = req[r].kind
        /\ req'[r].token = req[r].token
        /\ req'[r].session = req[r].session
    BY <1>4 DEF HandlerMove
  <2>2. ASSUME NEW t \in Live'
        PROVE  req'[t].session # s
    <3>1. CASE t \in created
      BY <1>1, <1>4, <2>2, <3>1 DEF HandlerMove, Live, Finished
    <3>2. CASE t \notin created
      <4>1. t = r /\ req[r].pc = "issue"
        BY <1>4, <2>2, <3>2 DEF HandlerMove, Live
      <4>2. CASE req[r].kind = "login"
        BY <1>2, <2>1, <3>2, <4>1, <4>2 DEF Lineage
      <4>3. CASE req[r].kind = "refresh"
        BY <2>1, <4>1, <4>3 DEF Finished
      <4>. QED  BY <1>2, <4>1, <4>2, <4>3 DEF Labels
    <3>. QED  BY <3>1, <3>2
  <2>3. ASSUME req[r].kind = "refresh", req[r].session = s,
               req'[r].pc \in {"revoke", "issue"}
        PROVE  FALSE
    <3>1. CASE req'[r].pc = "revoke"
      <4>1. req[r].token \in Live /\ req[r].token \in Requests
        BY <1>1, <1>4, <3>1 DEF HandlerMove, Live
      <4>2. req[r].session = req[req[r].token].session
        BY <1>2, <2>3, <4>1, TokensAssumption DEF Lineage
      <4>. QED  BY <2>3, <4>1, <4>2 DEF Finished
    <3>2. CASE req'[r].pc = "issue"
      <4>1. req[r].pc = "revoke"
        BY <1>2, <1>4, <2>3, <3>2 DEF HandlerMove, Labels
      <4>. QED  BY <2>3, <4>1 DEF Finished
    <3>. QED  BY <2>3, <3>1, <3>2
  <2>. QED  BY <2>1, <2>2, <2>3 DEF Finished
<1>. QED  BY <1>3, <1>4

\* A session all of whose tokens are of a user whose tokens were just revoked,
\* and which has no refresh under way, is over.
LEMMA RevokedAllFinishes ==
  ASSUME SessionsInv, NEW r \in Requests, HandlerMove(r), created' = created,
         NEW s \in created, TokensOf(req[s].user) \subseteq revoked',
         req'[r].pc \notin {"revoke", "issue"},
         \A q \in Requests \ {r} : req[q].kind = "refresh" /\ req[q].session = s
                                     => req[q].pc \notin {"revoke", "issue"}
  PROVE  Finished(s)'
<1>1. \A t \in created : req'[t].session = req[t].session
  BY RowsKeep
<1>2. created \subseteq Requests
  BY DEF SessionsInv, TokensInv, TypeOK
<1>3. ASSUME NEW t \in created, req[t].session = s
      PROVE  t \in revoked'
  <2>1. req[t].user = req[s].user
    BY <1>2, <1>3 DEF SessionsInv, Lineage
  <2>. QED  BY <2>1 DEF TokensOf
<1>4. \A t \in Live' : req'[t].session # s
  BY <1>1, <1>3 DEF Live
<1>5. /\ \A q \in Requests \ {r} : req'[q] = req[q]
      /\ req'[r].pc \notin {"revoke", "issue"}
  BY DEF HandlerMove
<1>. QED  BY <1>4, <1>5 DEF Finished

-----------------------------------------------------------------------------
\* A session that an answered logoutAll met at rest is over.
ClosedAreOver == \A s \in closed : s \in created /\ Finished(s)

LEMMA ClosedStep ==
  SessionsInv /\ ClosedAreOver /\ [Next]_vars => ClosedAreOver'
<1>. SUFFICES ASSUME SessionsInv, ClosedAreOver, [Next]_vars,
                     NEW s \in closed'
              PROVE  s \in created' /\ Finished(s)'
  BY DEF ClosedAreOver
<1>1. CASE UNCHANGED <<req, created, revoked, closed>>
  BY <1>1 DEF ClosedAreOver, Finished, Live
<1>2. ASSUME NEW r \in Requests, SendMove(r) \/ HandlerMove(r)
      PROVE  s \in created' /\ Finished(s)'
  <2>1. CASE s \in closed
    BY <1>2, <2>1, FinishedStays, RowsKeep DEF ClosedAreOver
  <2>2. CASE s \notin closed
    <3>1. /\ HandlerMove(r)
          /\ created' = created
          /\ TokensOf(req[r].user) \subseteq revoked'
          /\ s \in Quiet(TokensOf(req[r].user))
          /\ req'[r].pc = "answered"
      BY <1>2, <2>2 DEF SendMove, HandlerMove
    <3>2. PICK t \in created : req[t].user = req[r].user /\ req[t].session = s
      BY <3>1 DEF Quiet, TokensOf
    <3>3. s \in created /\ req[s].user = req[r].user /\ s \in Requests
      BY <3>2 DEF SessionsInv, TokensInv, TypeOK, Lineage
    <3>4. \A q \in Requests : req[q].kind = "refresh" /\ req[q].session = s
                                => req[q].pc \notin {"revoke", "issue"}
      BY <3>1, <3>3, TokensAssumption DEF Quiet, Busy, Active
    <3>. QED  BY <3>1, <3>3, <3>4, RevokedAllFinishes
  <2>. QED  BY <2>1, <2>2
<1>. QED  BY <1>1, <1>2, StepMoves DEF SessionsInv

\* A session that an answered logoutAll met with no refresh under way has no
\* live token then or later, for any number of users, sessions and requests,
\* and however clients overlap theirs.
THEOREM LogoutAllIsFinal == Spec => []LogoutAllEndsSessions
<1>1. Init => ClosedAreOver
  BY DEF Init, ClosedAreOver
<1>2. Spec => []ClosedAreOver
  BY <1>1, ClosedStep, SessionsInvariant, PTL DEF Spec
<1>3. ClosedAreOver => LogoutAllEndsSessions
  BY DEF ClosedAreOver, Finished, LogoutAllEndsSessions
<1>. QED  BY <1>2, <1>3, PTL

-----------------------------------------------------------------------------
(* A client with one refresh of a session under way at most.                *)

\* The refreshes under way of one session are one.
OneRefresh ==
  \A q, r \in Requests :
    /\ req[q].kind = "refresh" /\ req[q].pc \in Active
    /\ req[r].kind = "refresh" /\ req[r].pc \in Active
    /\ req[q].session = req[r].session /\ req[r].session # NoToken
    => q = r

\* A session whose reuse was answered is over.
ReusedAreOver ==
  \A r \in Requests : req[r].pc = "reused" =>
    req[r].session \in created /\ Finished(req[r].session)

\* A refresh that has decided to rotate holds the live token of its session,
\* and once it has revoked it the session has none.
RotatesAlone ==
  \A r \in Requests : req[r].kind = "refresh" =>
    \A t \in Live : req[t].session = req[r].session =>
      /\ req[r].pc = "revoke" => t = req[r].token
      /\ req[r].pc # "issue"

PoliteInv == OneRefresh /\ ReusedAreOver /\ RotatesAlone /\ OneLiveTokenPerSession

LEMMA InitPolite == Init => PoliteInv
BY DEF Init, Unsent, Live, PoliteInv, OneRefresh, ReusedAreOver, RotatesAlone,
       OneLiveTokenPerSession

\* A refresh that inserts a token, or is about to, presented one that has a row,
\* of its own session.
LEMMA RotatesItsSession ==
  ASSUME SessionsInv, NEW r \in Requests, req[r].kind = "refresh",
         req[r].token \in created
  PROVE  /\ req[r].session = req[req[r].token].session
         /\ req[r].session \in created
         /\ req[r].session # NoToken
<1>1. req[r].token \in Requests /\ req[r].token # NoToken
  BY TokensAssumption DEF SessionsInv, TokensInv, TypeOK
<1>2. req[r].session = req[req[r].token].session
  BY <1>1 DEF SessionsInv, Lineage
<1>3. req[req[r].token].session \in created
  BY <1>1 DEF SessionsInv, Lineage
<1>4. created \subseteq Requests
  BY DEF SessionsInv, TokensInv, TypeOK
<1>. QED  BY <1>2, <1>3, <1>4, TokensAssumption

LEMMA OneRefreshMoves ==
  ASSUME SessionsInv, ClientWaits, OneRefresh,
         NEW r \in Requests, SendMove(r) \/ HandlerMove(r)
  PROVE  OneRefresh'
<1>1. \A q \in Requests \ {r} : req'[q] = req[q]
  BY DEF SendMove, HandlerMove
<1>2. CASE SendMove(r)
  <2>1. ASSUME NEW q \in Requests \ {r}, req[q].kind = "refresh", req[q].pc \in Active,
               req[q].session # NoToken, req'[r].kind = "refresh",
               req'[r].session = req[q].session
        PROVE  FALSE
    BY <1>2, <2>1 DEF SendMove, Busy
  <2>. QED  BY <1>1, <2>1 DEF OneRefresh
<1>3. CASE HandlerMove(r)
  BY <1>1, <1>3 DEF HandlerMove, OneRefresh
<1>. QED  BY <1>2, <1>3

LEMMA ReusedMoves ==
  ASSUME SessionsInv, OneRefresh, ReusedAreOver,
         NEW r \in Requests, SendMove(r) \/ HandlerMove(r)
  PROVE  ReusedAreOver'
<1>1. \A q \in Requests \ {r} : req'[q] = req[q]
  BY DEF SendMove, HandlerMove
<1>. SUFFICES ASSUME NEW q \in Requests, req'[q].pc = "reused"
              PROVE  \E s \in created' : s = req'[q].session /\ Finished(s)'
  BY DEF ReusedAreOver, Finished
<1>2. CASE req[q].pc = "reused" /\ req'[q].session = req[q].session
  BY <1>2, FinishedStays, RowsKeep DEF ReusedAreOver
<1>3. CASE ~(req[q].pc = "reused" /\ req'[q].session = req[q].session)
  <2>1. /\ q = r /\ HandlerMove(r)
        /\ req[r].pc = "revokeAll"
        /\ req[r].kind = "refresh"
        /\ created' = created
        /\ TokensOf(req[r].user) \subseteq revoked'
        /\ req'[r].session = req[r].session
        /\ req'[r].pc \notin {"revoke", "issue"}
    BY <1>1, <1>3 DEF SendMove, HandlerMove
  <2>2. /\ req[r].token \in created
        /\ req[r].user = req[req[r].token].user
        /\ req[r].token \in Requests
    BY <2>1 DEF SessionsInv, Lineage, TokensInv, TypeOK
  <2>3. /\ req[r].session = req[req[r].token].session
        /\ req[r].session \in created
        /\ req[r].session # NoToken
    BY <2>1, <2>2, RotatesItsSession
  <2>4. req[req[r].session].user = req[r].user
    BY <2>2, <2>3 DEF SessionsInv, Lineage
  <2>5. \A p \in Requests \ {r} : req[p].kind = "refresh" /\ req[p].session = req[r].session
                                    => req[p].pc \notin {"revoke", "issue"}
    BY <2>1, <2>3 DEF OneRefresh, Active
  <2>. QED  BY <2>1, <2>3, <2>4, <2>5, RevokedAllFinishes
<1>. QED  BY <1>2, <1>3

\* What a step can add to the live tokens.
LEMMA LiveMoves ==
  ASSUME SessionsInv, NEW r \in Requests, SendMove(r) \/ HandlerMove(r),
         NEW t \in Live'
  PROVE  /\ t \in Requests
         /\ \/ t \in Live /\ req'[t].session = req[t].session
            \/ /\ t = r /\ HandlerMove(r)
               /\ req[r].pc = "issue" /\ r \notin created
               /\ req'[r].pc \in {"answer", "aborted"}
               /\ req'[r].session = req[r].session
<1>1. /\ created' \subseteq Requests
      /\ \A q \in created : req'[q].session = req[q].session
  BY RowsKeep
<1>. QED  BY <1>1 DEF SendMove, HandlerMove, Live

\* The session of a request that inserts a token has no live token.
LEMMA IssuesAlone ==
  ASSUME SessionsInv, RotatesAlone, NEW r \in Requests, req[r].pc = "issue",
         r \notin created, NEW t \in Live
  PROVE  req[t].session # req[r].session
<1>1. CASE req[r].kind = "login"
  <2>1. req[r].session = r
    BY <1>1 DEF SessionsInv, Lineage
  <2>2. t \in Requests /\ t \in created
    BY DEF Live, SessionsInv, TokensInv, TypeOK
  <2>3. req[t].session \in created
    BY <2>2 DEF SessionsInv, Lineage
  <2>. QED  BY <2>1, <2>3
<1>2. CASE req[r].kind = "refresh"
  BY <1>2 DEF RotatesAlone
<1>. QED  BY <1>1, <1>2 DEF SessionsInv, Labels

LEMMA RotatesMoves ==
  ASSUME SessionsInv, PoliteInv,
         NEW r \in Requests, SendMove(r) \/ HandlerMove(r)
  PROVE  RotatesAlone'
<1>1. \A q \in Requests \ {r} : req'[q] = req[q]
  BY DEF SendMove, HandlerMove
<1>. SUFFICES ASSUME NEW q \in Requests, req'[q].kind = "refresh",
                     NEW t \in Live', req'[t].session = req'[q].session,
                     \/ req'[q].pc = "revoke" /\ t # req'[q].token
                     \/ req'[q].pc = "issue"
              PROVE  FALSE
  BY DEF RotatesAlone
<1>2. /\ HandlerMove(q) \/ req'[q] = req[q]
      /\ req[q].kind = "refresh"
      /\ req'[q].token = req[q].token
      /\ req'[q].session = req[q].session
  BY <1>1 DEF SendMove, HandlerMove
<1>3. CASE t \in Live /\ req'[t].session = req[t].session
  <2>1. CASE req'[q].pc = "revoke"
    <3>1. CASE req[q].pc = "revoke"
      BY <1>2, <1>3, <2>1, <3>1 DEF PoliteInv, RotatesAlone
    <3>2. CASE req[q].pc # "revoke"
      <4>1. req[q].token \in Live
        BY <1>2, <2>1, <3>2 DEF HandlerMove, Live
      <4>2. req[q].session = req[req[q].token].session
        BY <1>2, <4>1, RotatesItsSession DEF Live
      <4>. QED  BY <1>2, <1>3, <2>1, <4>1, <4>2 DEF PoliteInv, OneLiveTokenPerSession
    <3>. QED  BY <3>1, <3>2
  <2>2. CASE req'[q].pc = "issue"
    <3>1. CASE req[q].pc = "issue"
      BY <1>2, <1>3, <3>1 DEF PoliteInv, RotatesAlone
    <3>2. CASE req[q].pc # "issue"
      <4>1. req[q].pc = "revoke" /\ req[q].token \in revoked'
        BY <1>2, <2>2, <3>2 DEF HandlerMove, SessionsInv, Labels
      <4>2. t # req[q].token
        BY <4>1 DEF Live
      <4>. QED  BY <1>2, <1>3, <4>1, <4>2 DEF PoliteInv, RotatesAlone
    <3>. QED  BY <3>1, <3>2
  <2>. QED  BY <2>1, <2>2
<1>4. CASE /\ t = r /\ HandlerMove(r)
           /\ req[r].pc = "issue" /\ r \notin created
           /\ req'[r].pc \in {"answer", "aborted"}
           /\ req'[r].session = req[r].session
  <2>1. q # r /\ req'[q] = req[q]
    BY <1>1, <1>4
  <2>2. CASE req[r].kind = "login"
    <3>1. req[q].session = r
      BY <1>2, <1>4, <2>2 DEF SessionsInv, Lineage
    <3>2. req[q].token \in created
      BY <1>2, <2>1 DEF SessionsInv, Lineage, TokensInv, RotationInOrder
    <3>. QED  BY <1>2, <1>4, <3>1, <3>2, RotatesItsSession
  <2>3. CASE req[r].kind = "refresh"
    <3>1. req[r].token \in created
      BY <1>4, <2>3 DEF SessionsInv, Lineage
    <3>2. req[r].session # NoToken
      BY <2>3, <3>1, RotatesItsSession
    <3>. QED  BY <1>2, <1>4, <2>1, <2>3, <3>2 DEF PoliteInv, OneRefresh, Active
  <2>. QED  BY <1>4, <2>2, <2>3 DEF SessionsInv, Labels
<1>. QED  BY <1>3, <1>4, LiveMoves

LEMMA OneLiveMoves ==
  ASSUME SessionsInv, PoliteInv,
         NEW r \in Requests, SendMove(r) \/ HandlerMove(r)
  PROVE  OneLiveTokenPerSession'
<1>. SUFFICES ASSUME NEW s \in Live', NEW t \in Live', s # t,
                     req'[s].session = req'[t].session
              PROVE  FALSE
  BY DEF OneLiveTokenPerSession
<1>1. CASE s # r /\ t # r
  BY <1>1, LiveMoves DEF PoliteInv, OneLiveTokenPerSession
<1>2. CASE s = r
  BY <1>2, LiveMoves, IssuesAlone DEF PoliteInv, OneLiveTokenPerSession
<1>3. CASE t = r
  BY <1>3, LiveMoves, IssuesAlone DEF PoliteInv, OneLiveTokenPerSession
<1>. QED  BY <1>1, <1>2, <1>3

LEMMA PoliteStep ==
  ClientWaits /\ SessionsInv /\ PoliteInv /\ [Next]_vars => PoliteInv'
<1>. SUFFICES ASSUME ClientWaits, SessionsInv, PoliteInv, [Next]_vars
              PROVE  PoliteInv'
  OBVIOUS
<1>1. CASE UNCHANGED <<req, created, revoked, closed>>
  BY <1>1 DEF PoliteInv, OneRefresh, ReusedAreOver, RotatesAlone,
              OneLiveTokenPerSession, Finished, Live
<1>2. ASSUME NEW r \in Requests, SendMove(r) \/ HandlerMove(r)
      PROVE  PoliteInv'
  BY <1>2, OneRefreshMoves, ReusedMoves, RotatesMoves, OneLiveMoves DEF PoliteInv
<1>. QED  BY <1>1, <1>2, StepMoves DEF SessionsInv

LEMMA PoliteInvariant == Spec => [](ClientWaits => PoliteInv)
<1>1. Init => (ClientWaits => PoliteInv)
  BY InitPolite
<1>2. SessionsInv /\ (ClientWaits => PoliteInv) /\ [Next]_vars
        => (ClientWaits => PoliteInv)'
  BY PoliteStep
<1>. QED  BY <1>1, <1>2, SessionsInvariant, PTL DEF Spec

\* When clients wait for the answer to a refresh before they send the next, a
\* session has one live token at most, wherever a handler or the process stops:
\* what validateAndRotate needs of its callers, since it reads the row, revokes
\* it and inserts the next in three statements that no transaction holds.
THEOREM OneLiveToken ==
  ASSUME ClientWaits
  PROVE  Spec => []OneLiveTokenPerSession
<1>1. (ClientWaits => PoliteInv) => OneLiveTokenPerSession
  BY DEF PoliteInv
<1>. QED  BY <1>1, PoliteInvariant, PTL

\* For such clients a reuse that was answered has ended the session: no token
\* of it is live, nor will be.
THEOREM ReuseIsFinal ==
  ASSUME ClientWaits
  PROVE  Spec => []ReuseEndsSession
<1>1. (ClientWaits => PoliteInv) => ReuseEndsSession
  BY DEF PoliteInv, ReusedAreOver, Finished, ReuseEndsSession
<1>. QED  BY <1>1, PoliteInvariant, PTL

-----------------------------------------------------------------------------
(* Clients that wait are held to UserSessions. *)

HeldStep == [Held!Next]_(Held!vars)

\* A token is of a session whose login has its row, and of the same user.
LEMMA TokensOfLogin ==
  ASSUME SessionsInv, NEW s, NEW t \in TokensIn(s)
  PROVE  /\ t \in created /\ t \in Requests /\ req[t].session = s
         /\ s \in created /\ s \in Requests
         /\ req[s].kind = "login" /\ req[t].user = req[s].user
         /\ req[s].user \in Users
<1>1. t \in created /\ t \in Requests /\ req[t].session = s
  BY DEF TokensIn, SessionsInv, TokensInv, TypeOK
<1>2. s \in created /\ req[s].kind = "login" /\ req[t].user = req[s].user
  BY <1>1 DEF SessionsInv, Lineage
<1>3. s \in Requests
  BY <1>2 DEF SessionsInv, TokensInv, TypeOK
<1>. QED  BY <1>1, <1>2, <1>3 DEF SessionsInv, Labels

\* A step that inserts no row leaves the sessions their tokens and users.
LEMMA SameTokens ==
  ASSUME SessionsInv, NEW r \in Requests, SendMove(r) \/ HandlerMove(r),
         created' = created, NEW s \in Requests
  PROVE  TokensIn(s)' = TokensIn(s) /\ OwnerOf(s)' = OwnerOf(s)
<1>1. TokensIn(s)' = TokensIn(s)
  BY RowsKeep DEF TokensIn
<1>2. TokensIn(s) # {} => req'[s].user = req[s].user
  BY TokensOfLogin, RowsKeep
<1>. QED  BY <1>1, <1>2 DEF OwnerOf

\* Only a step of one of its refreshes changes whether a session is renewing:
\* one that has found its token alive, or one that ends.
LEMMA RenewingMoves ==
  ASSUME SessionsInv, NEW r \in Requests, SendMove(r) \/ HandlerMove(r),
         NEW s \in Requests
  PROVE  \/ Renewing(s)' = Renewing(s)
         \/ /\ HandlerMove(r) /\ req[r].kind = "refresh" /\ req[r].session = s
            /\ \/ /\ ~Renewing(s)
                  /\ req'[r].pc = "revoke" /\ req[r].pc = "find"
                  /\ req[r].token \in created \ revoked
               \/ /\ Renewing(s) /\ ~Renewing(s)'
                  /\ req[r].pc \in {"revoke", "issue"}
<1>1. \A q \in Requests \ {r} : req'[q] = req[q]
  BY DEF SendMove, HandlerMove
<1>. DEFINE Here  == /\ req[r].kind = "refresh" /\ req[r].session = s
                     /\ req[r].pc \in {"revoke", "issue"}
            There == /\ req'[r].kind = "refresh" /\ req'[r].session = s
                     /\ req'[r].pc \in {"revoke", "issue"}
            Other == \E q \in Requests \ {r} :
                       /\ req[q].kind = "refresh" /\ req[q].session = s
                       /\ req[q].pc \in {"revoke", "issue"}
<1>2. /\ Renewing(s) <=> Here \/ Other
      /\ Renewing(s)' <=> There \/ Other
  BY <1>1 DEF Renewing
<1>3. Renewing(s) \in BOOLEAN /\ Renewing(s)' \in BOOLEAN
  BY DEF Renewing
<1>4. CASE SendMove(r)
  <2>1. ~Here /\ ~There
    BY <1>4 DEF SendMove
  <2>. QED  BY <1>2, <1>3, <2>1
<1>5. CASE HandlerMove(r)
  <2>1. There /\ ~Here =>
          /\ req[r].kind = "refresh" /\ req[r].session = s
          /\ req'[r].pc = "revoke" /\ req[r].pc = "find"
          /\ req[r].token \in created \ revoked
    BY <1>5 DEF HandlerMove, SessionsInv, Labels
  <2>. HIDE DEF Other
  <2>. QED  BY <1>2, <1>3, <1>5, <2>1
<1>. QED  BY <1>4, <1>5

LEMMA HeldStutters ==
  ASSUME created' = created,
         \A s \in Requests : /\ OwnerOf(s)' = OwnerOf(s)
                             /\ ValidIn(s)' = ValidIn(s)
                             /\ PhaseOf(s)' = PhaseOf(s)
  PROVE  HeldStep
BY DEF HeldStep, Held!vars

\* A refresh whose token is alive is of a session that is open.
LEMMA LiveIsOpen ==
  ASSUME SessionsInv, NEW r \in Requests, req[r].kind = "refresh",
         req[r].token \in created \ revoked
  PROVE  /\ req[r].session \in Requests
         /\ req[r].token \in ValidIn(req[r].session)
         /\ PhaseOf(req[r].session) = "open"
<1>1. /\ req[r].session = req[req[r].token].session
      /\ req[r].session \in created
  BY RotatesItsSession
<1>2. created \subseteq Requests
  BY DEF SessionsInv, TokensInv, TypeOK
<1>. QED  BY <1>1, <1>2 DEF ValidIn, TokensIn, PhaseOf

LEMMA SendImplements ==
  ASSUME SessionsInv, NEW r \in Requests, SendMove(r)
  PROVE  HeldStep
<1>1. created' = created /\ revoked' = revoked
  BY DEF SendMove
<1>2. ASSUME NEW s \in Requests
      PROVE  /\ OwnerOf(s)' = OwnerOf(s)
             /\ ValidIn(s)' = ValidIn(s)
             /\ PhaseOf(s)' = PhaseOf(s)
  <2>1. TokensIn(s)' = TokensIn(s) /\ OwnerOf(s)' = OwnerOf(s)
    BY <1>1, SameTokens
  <2>2. Renewing(s)' = Renewing(s)
    BY RenewingMoves DEF SendMove, HandlerMove, Active
  <2>. QED  BY <1>1, <2>1, <2>2 DEF ValidIn, PhaseOf
<1>. QED  BY <1>1, <1>2, HeldStutters

\* One session changes its valid tokens and its phase, and no row is inserted.
OnlyMoves(s) ==
  /\ created' = created
  /\ \A x \in Requests : OwnerOf(x)' = OwnerOf(x)
  /\ \A x \in Requests \ {s} : ValidIn(x)' = ValidIn(x) /\ PhaseOf(x)' = PhaseOf(x)

LEMMA WithdrawHeld ==
  ASSUME NEW s \in Requests, OnlyMoves(s), PhaseOf(s) = "open",
         ValidIn(s)' = {}, PhaseOf(s)' \in {"renewing", "over"}
  PROVE  HeldStep
<1>1. Held!Withdraw(s)
  BY DEF Held!Withdraw, OnlyMoves
<1>. QED  BY <1>1 DEF HeldStep, Held!Next

LEMMA LapseHeld ==
  ASSUME NEW s \in Requests, OnlyMoves(s), PhaseOf(s) = "renewing",
         ValidIn(s)' = ValidIn(s), PhaseOf(s)' = "over"
  PROVE  HeldStep
<1>1. Held!Lapse(s)
  BY DEF Held!Lapse, OnlyMoves
<1>. QED  BY <1>1 DEF HeldStep, Held!Next

\* Nothing is revoked or inserted: at most a refresh ends that was to insert.
LEMMA MoveImplements ==
  ASSUME SessionsInv, NEW r \in Requests, HandlerMove(r),
         created' = created, revoked' = revoked
  PROVE  HeldStep
<1>1. ASSUME NEW s \in Requests
      PROVE  /\ TokensIn(s)' = TokensIn(s) /\ OwnerOf(s)' = OwnerOf(s)
             /\ ValidIn(s)' = ValidIn(s)
  BY SameTokens DEF ValidIn
<1>2. ASSUME NEW s \in Requests, Renewing(s)' = Renewing(s)
      PROVE  PhaseOf(s)' = PhaseOf(s)
  BY <1>1, <1>2 DEF PhaseOf
<1>3. CASE \A s \in Requests : PhaseOf(s)' = PhaseOf(s)
  BY <1>1, <1>3, HeldStutters
<1>4. ASSUME NEW s \in Requests, PhaseOf(s)' # PhaseOf(s)
      PROVE  HeldStep
  <2>1. req[r].kind = "refresh" /\ req[r].session = s
    BY <1>2, <1>4, RenewingMoves
  <2>2. ASSUME NEW x \in Requests \ {s} PROVE PhaseOf(x)' = PhaseOf(x)
    BY <1>2, <2>1, RenewingMoves
  <2>3. OnlyMoves(s)
    BY <1>1, <2>2 DEF OnlyMoves
  <2>4. ~(req[r].token \in created \ revoked)
    <3>1. SUFFICES ASSUME req[r].token \in created \ revoked
                   PROVE  PhaseOf(s)' = PhaseOf(s)
      BY <1>4
    <3>2. PhaseOf(s) = "open"
      BY <2>1, <3>1, LiveIsOpen
    <3>. QED  BY <1>1, <3>2 DEF PhaseOf
  <2>5. Renewing(s) /\ ~Renewing(s)'
    BY <1>2, <1>4, <2>4, RenewingMoves
  <2>6. PhaseOf(s) = "renewing" /\ PhaseOf(s)' = "over"
    BY <1>1, <1>4, <2>5 DEF PhaseOf
  <2>. QED  BY <1>1, <2>3, <2>6, LapseHeld
<1>. QED  BY <1>3, <1>4

\* One token is revoked, by the refresh that presents it or by a logout.
LEMMA RevokeImplements ==
  ASSUME SessionsInv, OneLiveTokenPerSession, NEW r \in Requests, HandlerMove(r),
         created' = created, NEW t, revoked' = revoked \cup {t},
         t = req[r].token \/ req[r].pc = "logout", t \in created \ revoked
  PROVE  HeldStep
<1>1. PICK s \in Requests : s = req[t].session /\ t \in ValidIn(s)
  <2>1. t \in Requests /\ created \subseteq Requests
    BY DEF SessionsInv, TokensInv, TypeOK
  <2>2. req[t].session \in created
    BY <2>1 DEF SessionsInv, Lineage
  <2>. QED  BY <2>1, <2>2 DEF ValidIn, TokensIn
<1>2. req[r].kind = "refresh" => req[r].session = s
  <2>1. SUFFICES ASSUME req[r].kind = "refresh" PROVE req[r].session = s
    OBVIOUS
  <2>2. req[r].token = t
    BY <2>1 DEF SessionsInv, Labels
  <2>. QED  BY <1>1, <2>1, <2>2, RotatesItsSession
<1>3. ASSUME NEW x \in Requests
      PROVE  /\ TokensIn(x)' = TokensIn(x) /\ OwnerOf(x)' = OwnerOf(x)
             /\ ValidIn(x)' = ValidIn(x) \ {t}
  BY SameTokens DEF ValidIn
<1>4. ASSUME NEW x \in Requests \ {s}
      PROVE  ValidIn(x)' = ValidIn(x) /\ PhaseOf(x)' = PhaseOf(x)
  <2>1. t \notin ValidIn(x)
    BY <1>1 DEF ValidIn, TokensIn
  <2>2. Renewing(x)' = Renewing(x)
    BY <1>2, RenewingMoves
  <2>. QED  BY <1>3, <2>1, <2>2 DEF PhaseOf
<1>5. ValidIn(s) = {t}
  BY <1>1 DEF ValidIn, TokensIn, OneLiveTokenPerSession, Live
<1>6. PhaseOf(s) = "open" /\ TokensIn(s) # {}
  BY <1>1 DEF PhaseOf, ValidIn
<1>7. ValidIn(s)' = {} /\ PhaseOf(s)' \in {"renewing", "over"}
  BY <1>1, <1>3, <1>5, <1>6 DEF PhaseOf
<1>8. OnlyMoves(s)
  BY <1>3, <1>4 DEF OnlyMoves
<1>. QED  BY <1>1, <1>6, <1>7, <1>8, WithdrawHeld

\* All the rows of a user are revoked: the sessions of this user end, but for
\* those that have a refresh under way.
LEMMA RevokeAllImplements ==
  ASSUME SessionsInv, NEW r \in Requests, HandlerMove(r),
         created' = created, req[r].pc = "revokeAll", req'[r].pc \in Ended,
         revoked' = revoked \cup TokensOf(req[r].user)
  PROVE  HeldStep
<1>1. PICK u \in Users : u = req[r].user
  <2>1. CASE req[r].kind = "logoutAll"
    BY <2>1 DEF SessionsInv, Labels
  <2>2. CASE req[r].kind = "refresh"
    <3>1. /\ req[r].token \in created
          /\ req[r].user = req[req[r].token].user
      BY <2>2 DEF SessionsInv, Lineage
    <3>2. req[r].token \in TokensIn(req[r].session)
      BY <2>2, <3>1, RotatesItsSession DEF TokensIn
    <3>. QED  BY <3>1, <3>2, TokensOfLogin
  <2>. QED  BY <2>1, <2>2 DEF SessionsInv, Labels
<1>2. ASSUME NEW s \in Requests
      PROVE  /\ TokensIn(s)' = TokensIn(s) /\ OwnerOf(s)' = OwnerOf(s)
             /\ Renewing(s)' = Renewing(s)
  <2>1. req[r].pc \notin {"find", "revoke", "issue"}
    OBVIOUS
  <2>. QED  BY <2>1, SameTokens, RenewingMoves
<1>3. ASSUME NEW s \in Requests, OwnerOf(s) = u
      PROVE  ValidIn(s)' = {}
  <2>1. \A t \in TokensIn(s) : t \in created /\ req[t].user = u
    BY <1>3, TokensOfLogin DEF OwnerOf
  <2>. QED  BY <1>1, <1>2, <2>1 DEF ValidIn, TokensOf
<1>4. ASSUME NEW s \in Requests, OwnerOf(s) # u
      PROVE  ValidIn(s)' = ValidIn(s) /\ PhaseOf(s)' = PhaseOf(s)
  <2>1. \A t \in TokensIn(s) : req[t].user # u
    BY <1>4, TokensOfLogin DEF OwnerOf
  <2>2. ValidIn(s)' = ValidIn(s)
    BY <1>1, <1>2, <2>1 DEF ValidIn, TokensOf
  <2>. QED  BY <1>2, <2>2 DEF PhaseOf
<1>. DEFINE due == {s \in Requests : Renewing(s)}
<1>5. ASSUME NEW s \in Requests, OwnerOf(s) = u
      PROVE  PhaseOf(s)' = IF PhaseOf(s) = "open"
                           THEN IF s \in due THEN "renewing" ELSE "over"
                           ELSE PhaseOf(s)
  <2>1. ValidIn(s) # {} => TokensIn(s) # {}
    BY DEF ValidIn
  <2>. QED  BY <1>2, <1>3, <1>5, <2>1 DEF PhaseOf
<1>6. due \in SUBSET Requests
  OBVIOUS
<1>. HIDE DEF due
<1>7. /\ [s \in Requests |-> ValidIn(s)]'
            = [s \in Requests |-> IF OwnerOf(s) = u THEN {} ELSE ValidIn(s)]
      /\ [s \in Requests |-> PhaseOf(s)]'
            = [s \in Requests |->
                 IF OwnerOf(s) = u /\ PhaseOf(s) = "open"
                 THEN IF s \in due THEN "renewing" ELSE "over"
                 ELSE PhaseOf(s)]
      /\ [s \in Requests |-> OwnerOf(s)]' = [s \in Requests |-> OwnerOf(s)]
  BY <1>2, <1>3, <1>4, <1>5
<1>8. Held!EndAll(u)
  BY <1>6, <1>7 DEF Held!EndAll
<1>. QED  BY <1>8 DEF HeldStep, Held!Next

\* A row is inserted: that of a login, or the next of a session that is due one.
LEMMA IssueImplements ==
  ASSUME SessionsInv, RotatesAlone, NEW r \in Requests, HandlerMove(r),
         created' # created
  PROVE  HeldStep
<1>1. /\ req[r].pc = "issue" /\ created' = created \cup {r} /\ revoked' = revoked
      /\ req'[r].kind = req[r].kind /\ req'[r].session = req[r].session
      /\ req'[r].user = req[r].user
      /\ req'[r].pc \in {"answer", "aborted"}
      /\ \A q \in Requests \ {r} : req'[q] = req[q]
  BY DEF HandlerMove
<1>2. r \notin created /\ r \notin revoked /\ req[r].kind \in {"login", "refresh"}
  BY <1>1 DEF SessionsInv, Labels, TokensInv, TypeOK
<1>3. PICK s \in Requests :
        /\ s = req[r].session
        /\ req[r].kind = "login" => s = r
        /\ req[r].kind = "refresh" => s \in created
  <2>1. CASE req[r].kind = "login"
    BY <2>1 DEF SessionsInv, Lineage
  <2>2. CASE req[r].kind = "refresh"
    <3>1. req[r].token \in created
      BY <1>1, <2>2 DEF SessionsInv, Lineage
    <3>. QED  BY <2>2, <3>1, RotatesItsSession DEF SessionsInv, Lineage, TokensInv, TypeOK
  <2>. QED  BY <1>2, <2>1, <2>2
<1>4. ASSUME NEW x \in Requests
      PROVE  TokensIn(x)' = IF x = s THEN TokensIn(x) \cup {r} ELSE TokensIn(x)
  <2>1. created \subseteq Requests
    BY DEF SessionsInv, TokensInv, TypeOK
  <2>. QED  BY <1>1, <1>2, <1>3, <2>1 DEF TokensIn
<1>5. ASSUME NEW x \in Requests, TokensIn(x) # {}
      PROVE  OwnerOf(x)' = OwnerOf(x)
  <2>1. x \in created
    BY <1>5, TokensOfLogin
  <2>2. TokensIn(x)' # {} /\ req'[x] = req[x]
    BY <1>1, <1>2, <1>4, <1>5, <2>1
  <2>. QED  BY <1>5, <2>2 DEF OwnerOf
<1>6. ASSUME NEW x \in Requests \ {s}
      PROVE  /\ OwnerOf(x)' = OwnerOf(x) /\ ValidIn(x)' = ValidIn(x)
             /\ PhaseOf(x)' = PhaseOf(x)
  <2>1. TokensIn(x)' = TokensIn(x)
    BY <1>4
  <2>2. OwnerOf(x)' = OwnerOf(x)
    BY <1>5, <2>1 DEF OwnerOf
  <2>3. Renewing(x)' = Renewing(x)
    BY <1>3, RenewingMoves
  <2>. QED  BY <1>1, <2>1, <2>2, <2>3 DEF ValidIn, PhaseOf
<1>7. ValidIn(s) = {}
  <2>1. \A t \in Live : req[t].session # s
    BY <1>1, <1>2, <1>3, IssuesAlone
  <2>. QED  BY <2>1 DEF ValidIn, TokensIn, Live
<1>8. ValidIn(s)' = {r} /\ PhaseOf(s)' = "open"
  <2>1. TokensIn(s)' = TokensIn(s) \cup {r}
    BY <1>4
  <2>2. ValidIn(s)' = {r}
    BY <1>1, <1>2, <1>7, <2>1 DEF ValidIn
  <2>. QED  BY <2>1, <2>2 DEF PhaseOf
<1>9. CASE req[r].kind = "login"
  <2>1. TokensIn(s) = {}
    BY <1>2, <1>3, <1>9, TokensOfLogin
  <2>2. PhaseOf(s) = "absent"
    BY <2>1 DEF PhaseOf
  <2>3. PICK u \in Users : u = req[r].user
    BY <1>9 DEF SessionsInv, Labels
  <2>4. OwnerOf(s)' = u
    <3>1. TokensIn(s)' # {}
      BY <1>4
    <3>. QED  BY <1>1, <1>3, <1>9, <2>3, <3>1 DEF OwnerOf
  <2>5. Held!Begin(s, u)
    BY <1>1, <1>2, <1>3, <1>6, <1>8, <1>9, <2>2, <2>4 DEF Held!Begin
  <2>. QED  BY <2>5 DEF HeldStep, Held!Next
<1>10. CASE req[r].kind = "refresh"
  <2>1. TokensIn(s) # {}
    <3>1. req[r].token \in created
      BY <1>1, <1>10 DEF SessionsInv, Lineage
    <3>2. req[req[r].token].session = s
      BY <1>3, <1>10, <3>1, RotatesItsSession
    <3>. QED  BY <3>1, <3>2 DEF TokensIn
  <2>2. PhaseOf(s) = "renewing"
    BY <1>1, <1>3, <1>7, <1>10, <2>1 DEF PhaseOf, Renewing
  <2>3. Held!Renew(s)
    <3>1. r \in Requests \ created
      BY <1>2
    <3>2. OwnerOf(s)' = OwnerOf(s)
      BY <1>5, <2>1
    <3>. QED  BY <1>1, <1>6, <1>8, <2>2, <3>1, <3>2 DEF Held!Renew
  <2>. QED  BY <2>3 DEF HeldStep, Held!Next
<1>. QED  BY <1>2, <1>9, <1>10

LEMMA StepImplements ==
  ASSUME SessionsInv, PoliteInv, [Next]_vars
  PROVE  HeldStep
<1>1. CASE UNCHANGED <<req, created, revoked, closed>>
  <2>1. ASSUME NEW s \in Requests
        PROVE  /\ OwnerOf(s)' = OwnerOf(s)
               /\ ValidIn(s)' = ValidIn(s)
               /\ PhaseOf(s)' = PhaseOf(s)
    BY <1>1 DEF OwnerOf, ValidIn, PhaseOf, TokensIn, Renewing
  <2>. QED  BY <1>1, <2>1, HeldStutters
<1>2. ASSUME NEW r \in Requests, SendMove(r) PROVE HeldStep
  BY <1>2, SendImplements
<1>3. ASSUME NEW r \in Requests, HandlerMove(r) PROVE HeldStep
  <2>1. CASE created' # created
    BY <1>3, <2>1, IssueImplements DEF PoliteInv
  <2>2. CASE created' = created /\ revoked' = revoked
    BY <1>3, <2>2, MoveImplements
  <2>3. ASSUME created' = created, revoked' # revoked,
               NEW t, revoked' = revoked \cup {t},
               t = req[r].token \/ req[r].pc = "logout"
        PROVE  HeldStep
    <3>1. t \in created \ revoked
      BY <2>3, TokensStep DEF SessionsInv, TokensInv, TypeOK
    <3>. QED  BY <1>3, <2>3, <3>1, RevokeImplements DEF PoliteInv
  <2>4. CASE /\ created' = created
             /\ req[r].pc = "revokeAll" /\ req'[r].pc \in Ended
             /\ revoked' = revoked \cup TokensOf(req[r].user)
    BY <1>3, <2>4, RevokeAllImplements
  <2>. QED  BY <1>3, <2>1, <2>2, <2>3, <2>4 DEF HandlerMove
<1>. QED  BY <1>1, <1>2, <1>3, StepMoves DEF SessionsInv

LEMMA InitImplements == Init => Held!Init
BY DEF Init, Held!Init, TokensIn, ValidIn, PhaseOf, OwnerOf

\* For clients that wait, every step of the handlers, whatever overlaps, fails
\* or stops, is a step of UserSessions or none of it: a session has one valid
\* token, loses it before it gets the next, and never comes back once it is
\* over; a reuse or a logoutAll takes the tokens of all the sessions of a user
\* at once.
THEOREM SessionsAreImplemented ==
  ASSUME ClientWaits
  PROVE  Spec => ImplementsSessions
<1>1. SessionsInv /\ (ClientWaits => PoliteInv) /\ [Next]_vars
        => [Held!Next]_(Held!vars)
  BY StepImplements DEF HeldStep
<1>. QED  BY <1>1, InitImplements, SessionsInvariant, PoliteInvariant, PTL
             DEF Spec, ImplementsSessions, Held!Spec
=============================================================================
