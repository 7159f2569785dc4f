---------------------------- MODULE OneTimeCodes ----------------------------
(***************************************************************************)
(* Accounts and the one-time codes that are mailed for them: registration, *)
(* login up to its token, resend, verify, forgot and reset.  Each action   *)
(* is the code of a handler between two awaits.                            *)
(*                                                                         *)
(* The code row that request r creates is named r, and so are the refresh  *)
(* token it creates and the password it sets.  A row belongs to req[r].email *)
(* and holds req[r].value; its table follows from the kind of r.           *)
(***************************************************************************)
EXTENDS Integers

CONSTANTS
  Requests,   \* the calls of the API; a bound on their number
  Emails,     \* the addresses, and the users registered with them
  Values,     \* the six-digit codes
  NoValue,    \* no code, or one that matches no row
  NoRequest,
  MaxTries,   \* how often a code is drawn before issue gives up
  Faults      \* {} or {"abort"}: a call fails or the process stops

ASSUME CodesAssumption ==
  /\ NoValue \notin Values
  /\ NoRequest \notin Requests
  /\ MaxTries \in Nat \ {0}
  /\ Faults \subseteq {"abort"}

VARIABLES
  req,       \* the state of each request
  account,   \* users, by email
  codes,     \* the code rows of both tables
  used,      \* the rows with usedAt set
  expired,   \* the rows with expiresAt in the past
  mailed,    \* the rows whose value reached the mailbox of req[_].email
  tokens,    \* refresh_tokens, by the login that inserted them
  revoked    \* the tokens with revokedAt set

tables == <<account, codes, used, expired, mailed, tokens, revoked>>
vars == <<req, tables>>

Issuers    == {"register", "login", "resend", "forgot"}
Presenters == {"verify", "reset"}

Active == {"lookup", "createUser", "invalidate", "create", "mail", "token",
           "find", "markUsed", "markVerified", "invalidateOthers",
           "updatePassword", "revokeAll"}
Over   == {"answered", "failed"}
Ended  == Over \cup {"denied"}

Unsent == [kind |-> "none", pc |-> "unsent", email |-> NoRequest,
           value |-> NoValue, tries |-> 0, row |-> NoRequest, seen |-> {}]

RequestRecords == [kind  : {"none"} \cup Issuers \cup Presenters,
                   pc    : {"unsent"} \cup Active \cup Ended,
                   email : Emails \cup {NoRequest},
                   value : Values \cup {NoValue},
                   tries : 0..MaxTries,
                   row   : Requests \cup {NoRequest},
                   seen  : SUBSET Requests]

Accounts == [state    : {"absent", "unverified", "verified"},
             password : Requests \cup {NoRequest}]

TypeOK ==
  /\ req \in [Requests -> RequestRecords]
  /\ account \in [Emails -> Accounts]
  /\ codes \subseteq Requests
  /\ used \subseteq codes
  /\ expired \subseteq codes
  /\ mailed \subseteq codes
  /\ tokens \subseteq Requests
  /\ revoked \subseteq tokens

\* Accounts may have been registered, and verified, before.
Init ==
  /\ req = [r \in Requests |-> Unsent]
  /\ account \in [Emails -> [state    : {"absent", "unverified", "verified"},
                             password : {NoRequest}]]
  /\ codes = {}
  /\ used = {}
  /\ expired = {}
  /\ mailed = {}
  /\ tokens = {}
  /\ revoked = {}

Goto(r, label) == req' = [req EXCEPT ![r].pc = label]

\* The request ends with an error and no row or password of its own: it can
\* be forgotten.
Refuse(r) == req' = [req EXCEPT ![r] = [Unsent EXCEPT !.pc = "denied"]]

\* The last call of a handler took effect: it is answered, or its answer is
\* lost.
Finish(r) ==
  \/ Goto(r, "answered")
  \/ "abort" \in Faults /\ Goto(r, "failed")

-----------------------------------------------------------------------------
(* What clients send.  A code is read in a mailbox, whatever became of it  *)
(* since, or mistyped into one that no row holds.  `seen` records which    *)
(* requests for the same address were over when this one was sent.         *)

Table(r) == IF req[r].kind \in {"forgot", "reset"}
            THEN "password_reset_tokens" ELSE "email_verification_tokens"

Dispatch(r, kind, label, e, v) ==
  /\ req[r].pc = "unsent"
  /\ req' = [req EXCEPT ![r] =
       [kind |-> kind, pc |-> label, email |-> e, value |-> v, tries |-> 0,
        row |-> NoRequest, seen |-> {q \in Requests :
                                    req[q].email = e /\ req[q].pc \in Over}]]
  /\ UNCHANGED tables

Send(r) ==
  \E e \in Emails :
    \/ \E kind \in Issuers : Dispatch(r, kind, "lookup", e, NoValue)
    \/ \E kind \in Presenters : Dispatch(r, kind, "find", e, NoValue)
    \/ \E c \in {c \in mailed : req[c].email = e} :
         Dispatch(r, IF Table(c) = "password_reset_tokens" THEN "reset"
                     ELSE "verify", "find", e, req[c].value)

-----------------------------------------------------------------------------
(* Accounts. *)

\* Slip: the login does not ask whether the email was verified.
AnyAccount(state) == state # "absent"

\* if (!user.emailVerifiedAt)
EmailVerified(state) == state = "verified"

\* The handlers that begin with findByEmail, up to their next write; a login
\* also compares the password.
Lookup(r) ==
  /\ req[r].pc = "lookup"
  /\ LET kind  == req[r].kind
         state == account[req[r].email].state
     IN \/ kind = "register" /\ state # "absent" /\ Refuse(r)
        \/ kind = "register" /\ state = "absent" /\ Goto(r, "createUser")
        \/ kind = "login" /\ Refuse(r)
        \/ kind = "login" /\ EmailVerified(state) /\ Goto(r, "token")
        \/ /\ kind = "login" /\ state # "absent" /\ ~EmailVerified(state)
           /\ Goto(r, "invalidate")
        \/ kind = "resend" /\ state = "unverified" /\ Goto(r, "invalidate")
        \/ kind = "resend" /\ state # "unverified" /\ Goto(r, "answered")
        \/ kind = "forgot" /\ state = "absent" /\ Goto(r, "answered")
        \/ kind = "forgot" /\ state # "absent" /\ Goto(r, "create")
  /\ UNCHANGED tables

\* Slip: there is no unique index on the email.
AlwaysCreateUser(e) == TRUE

\* User.email @unique
CanCreateUser(e) == account[e].state = "absent"

CreateUser(r) ==
  /\ req[r].pc = "createUser"
  /\ \/ /\ CanCreateUser(req[r].email)
        /\ account' = [account EXCEPT ![req[r].email] =
             [state |-> "unverified", password |-> r]]
        /\ Goto(r, "invalidate")
     \/ /\ ~CanCreateUser(req[r].email)
        /\ Refuse(r)
        /\ UNCHANGED account
  /\ UNCHANGED <<codes, used, expired, mailed, tokens, revoked>>

\* refreshTokensService.issue
InsertToken(r) ==
  /\ req[r].pc = "token"
  /\ tokens' = tokens \cup {r}
  /\ Finish(r)
  /\ UNCHANGED <<account, codes, used, expired, mailed, revoked>>

-----------------------------------------------------------------------------
(* Issuing a code. *)

CodesOf(table, e) == {c \in codes : Table(c) = table /\ req[c].email = e}

\* Slip: the codes issued before stay as they are.
InvalidateNothing(table, e) == used' = used

\* usedAt is set in every row of the user where it is null.  The reset's
\* version excludes the code presented, which is marked already.
InvalidateActiveForUser(table, e) == used' = used \cup CodesOf(table, e)

Invalidate(r) ==
  /\ req[r].pc = "invalidate"
  /\ InvalidateActiveForUser("email_verification_tokens", req[r].email)
  /\ Goto(r, "create")
  /\ UNCHANGED <<account, codes, expired, mailed, tokens, revoked>>

\* Slip: the index is on (userId, tokenHash).
TakenByUser(r, v) ==
  \E c \in CodesOf(Table(r), req[r].email) : req[c].value = v

\* tokenHash @unique, over the rows of every user, used and expired ones too.
Taken(r, v) == \E c \in codes : Table(c) = Table(r) /\ req[c].value = v

\* Slip: one more turn of the loop.
TriedTooOften(tries) == tries > MaxTries

\* attempt < MAX_ISSUE_ATTEMPTS fails
GivesUp(tries) == tries = MaxTries

Create(r) ==
  /\ req[r].pc = "create"
  /\ \E v \in Values :
       \/ /\ ~Taken(r, v)
          /\ codes' = codes \cup {r}
          /\ req' = [req EXCEPT ![r].value = v, ![r].tries = 0,
                                ![r].pc = "mail"]
       \/ /\ Taken(r, v)
          /\ LET tries == req[r].tries + 1 IN
               req' = [req EXCEPT ![r].tries = tries,
                 ![r].pc = IF GivesUp(tries) THEN "failed" ELSE "create"]
          /\ UNCHANGED codes
  /\ UNCHANGED <<account, used, expired, mailed, tokens, revoked>>

\* A mail that is refused or lost, of which the handler hears nothing, is one
\* that nobody reads.
Mail(r) ==
  /\ req[r].pc = "mail"
  /\ mailed' = mailed \cup {r}
  /\ Finish(r)
  /\ UNCHANGED <<account, codes, used, expired, tokens, revoked>>

-----------------------------------------------------------------------------
(* Presenting a code. *)

FindByTokenHash(table, value) ==
  {c \in codes : Table(c) = table /\ req[c].value = value}

\* Slip: usedAt is not looked at.
Unexpired(c) == c \notin expired

\* existing.usedAt || existing.expiresAt < new Date()
Valid(c) == c \notin used \cup expired

Find(r) ==
  /\ req[r].pc = "find"
  /\ LET rows == FindByTokenHash(Table(r), req[r].value) IN
       \/ /\ \A c \in rows : ~Valid(c)
          /\ Refuse(r)
       \/ \E c \in rows :
            /\ Valid(c)
            /\ req' = [req EXCEPT ![r].row = c, ![r].value = NoValue,
                                  ![r].pc = "markUsed"]
  /\ UNCHANGED tables

\* The user of the row that a presented code was found in.
Owner(r) == req[req[r].row].email

MarkUsed(r) ==
  /\ req[r].pc = "markUsed"
  /\ used' = used \cup {req[r].row}
  /\ Goto(r, IF req[r].kind = "verify" THEN "markVerified"
             ELSE "invalidateOthers")
  /\ UNCHANGED <<account, codes, expired, mailed, tokens, revoked>>

MarkVerified(r) ==
  /\ req[r].pc = "markVerified"
  /\ account' = [account EXCEPT ![Owner(r)].state = "verified"]
  /\ Finish(r)
  /\ UNCHANGED <<codes, used, expired, mailed, tokens, revoked>>

InvalidateOthers(r) ==
  /\ req[r].pc = "invalidateOthers"
  /\ InvalidateActiveForUser("password_reset_tokens", Owner(r))
  /\ Goto(r, "updatePassword")
  /\ UNCHANGED <<account, codes, expired, mailed, tokens, revoked>>

\* Slip: the update is not awaited, and the process stops before it runs.
UpdatePasswordLater(e, r) == account' = account

SetPassword(e, r) == account' = [account EXCEPT ![e].password = r]

UpdatePassword(r) ==
  /\ req[r].pc = "updatePassword"
  /\ SetPassword(Owner(r), r)
  /\ Goto(r, "revokeAll")
  /\ UNCHANGED <<codes, used, expired, mailed, tokens, revoked>>

TokensOf(e) == {t \in tokens : req[t].email = e}

\* Slip: the call is given the id of the code, which no token has.
RevokeNothing(e) == revoked' = revoked

RevokeAllForUser(e) == revoked' = revoked \cup TokensOf(e)

RevokeAll(r) ==
  /\ req[r].pc = "revokeAll"
  /\ RevokeAllForUser(Owner(r))
  /\ Finish(r)
  /\ UNCHANGED <<account, codes, used, expired, mailed, tokens>>

-----------------------------------------------------------------------------

\* The next awaited call fails, or the process stops.  A call that fails after
\* it took effect is one that succeeds, followed by this.
Abort(r) ==
  /\ "abort" \in Faults
  /\ req[r].pc \in Active
  /\ IF \/ req[r].pc \in {"mail", "revokeAll"}
        \/ req[r].kind = "register" /\ req[r].pc \in {"invalidate", "create"}
     THEN Goto(r, "failed") ELSE Refuse(r)
  /\ UNCHANGED tables

\* A day passes, or a quarter of an hour.  Of a row with usedAt set nobody asks
\* when it expires.
Expire(c) ==
  /\ c \in codes \ (used \cup expired)
  /\ expired' = expired \cup {c}
  /\ UNCHANGED <<req, account, codes, used, mailed, tokens, revoked>>

Handle(r) ==
  \/ Lookup(r) \/ CreateUser(r) \/ InsertToken(r)
  \/ Invalidate(r) \/ Create(r) \/ Mail(r)
  \/ Find(r) \/ MarkUsed(r) \/ MarkVerified(r)
  \/ InvalidateOthers(r) \/ UpdatePassword(r) \/ RevokeAll(r)

\* Every request of the bound is spent.
Terminating == (\A r \in Requests : req[r].pc \in Ended) /\ UNCHANGED vars

Next ==
  \/ \E r \in Requests : Send(r) \/ Handle(r) \/ Abort(r) \/ Expire(r)
  \/ Terminating

Spec == Init /\ [][Next]_vars

-----------------------------------------------------------------------------
(* Properties. *)

\* A code acts for the user in whose mailbox it was read and for no other,
\* although it is looked up by its value alone: values are never reused.
CodeActsForItsOwner ==
  \A r \in Requests : req[r].row # NoRequest => Owner(r) = req[r].email

\* A code that one answered request has used is refused to every request sent
\* afterwards.
CodeWorksOnce ==
  \A q, r \in Requests :
    /\ q \in req[r].seen
    /\ req[q].pc = "answered"
    /\ req[q].row # NoRequest
    => req[r].row # req[q].row

\* Of two verification codes of a user, the one whose request was over before
\* the other's was sent can no longer be used.
NewerCodeReplacesOlder ==
  \A q, r \in codes :
    /\ Table(q) = "email_verification_tokens"
    /\ Table(r) = Table(q)
    /\ req[r].email = req[q].email
    /\ q \in req[r].seen
    => q \in used

\* When a reset changes the password, no reset code that the user was sent
\* before can be used again.
ResetSpendsEarlierCodes ==
  \A r \in Requests :
    /\ req[r].kind = "reset"
    /\ req[r].pc \in {"updatePassword", "revokeAll", "answered"}
    => CodesOf("password_reset_tokens", Owner(r)) \cap req[r].seen \subseteq used

\* A session whose login was over before an answered reset was sent is dead.
ResetEndsEarlierSessions ==
  \A r \in Requests :
    /\ req[r].kind = "reset"
    /\ req[r].pc = "answered"
    => TokensOf(Owner(r)) \cap req[r].seen \subseteq revoked

\* After an answered reset the password is that of this reset, or of a request
\* that was not over when it was sent.
AnsweredResetTookEffect ==
  \A r \in Requests :
    /\ req[r].kind = "reset"
    /\ req[r].pc = "answered"
    => account[Owner(r)].password \notin req[r].seen \cup {NoRequest}

\* Nobody is logged in to an account whose email was not verified.
SessionsAreVerified ==
  \A t \in tokens : account[req[t].email].state = "verified"

\* The password of an account that exists changes by a reset with a code from
\* its own mailbox, never by a registration that raced with another.
OnlyResetChangesPassword ==
  [][\A e \in Emails :
       /\ account[e].state # "absent"
       /\ account'[e].password # account[e].password
       => \E r \in Requests : /\ req[r].kind = "reset"
                              /\ req[r].email = e
                              /\ account'[e].password = r]_vars
=============================================================================
