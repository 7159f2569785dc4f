------------------------- MODULE OneTimeCodesProofs -------------------------
(***************************************************************************)
(* Proofs about OneTimeCodes, for every set of requests, addresses and     *)
(* values, with and without faults.                                        *)
(***************************************************************************)
EXTENDS OneTimeCodes, TLAPS

Presenting == {"find", "markUsed", "markVerified", "invalidateOthers",
               "updatePassword", "revokeAll"}

TableFor(kind) == IF kind \in {"forgot", "reset"}
                  THEN "password_reset_tokens" ELSE "email_verification_tokens"

\* What the label of a request's record says of its other fields.
StageOK(x) ==
  /\ x.pc \notin {"unsent", "denied"} => x.email \in Emails
  /\ x.pc \in Presenting => x.kind \in Presenters
  /\ x.pc \in Presenting \ {"find"} => x.row \in Requests
  /\ x.pc \in {"invalidateOthers", "updatePassword", "revokeAll"} =>
       x.kind = "reset"
  /\ x.pc \in Active \ Presenting => x.kind \in Issuers
  /\ x.pc \in {"lookup", "createUser", "invalidate", "create"} =>
       x.tries < MaxTries
  /\ x.pc \in {"lookup", "createUser", "invalidate"} => x.tries = 0
  /\ x.pc = "createUser" => x.kind = "register"
  /\ x.pc = "token" => x.kind = "login"

Stages == \A r \in Requests : StageOK(req[r])

\* A request that has a code row is past the insert and holds its value.
RowsInOrder ==
  \A c \in codes : /\ req[c].kind \in Issuers
                   /\ req[c].pc \in Over \cup {"mail"}
                   /\ req[c].value \in Values

\* A request that is about to mail a code has its row.
MailHasRow == \A r \in Requests : req[r].pc = "mail" => r \in codes

\* A request that has a token is a login that is over.
TokensInOrder ==
  \A t \in tokens : req[t].kind = "login" /\ req[t].pc \in Over

\* No two rows of a table hold the same value.
UniqueValues ==
  \A c, d \in codes : Table(c) = Table(d) /\ req[c].value = req[d].value => c = d

\* A code that is presented was read in the mailbox of a row that holds it.
ReadInMailbox ==
  \A r \in Requests :
    req[r].pc = "find" /\ req[r].value # NoValue =>
      \E c \in codes : /\ Table(c) = Table(r)
                       /\ req[c].value = req[r].value
                       /\ req[c].email = req[r].email

\* The row in which a code was found exists and is its reader's.
RowsAreOwn ==
  \A r \in Requests : req[r].row # NoRequest =>
    req[r].row \in codes /\ Owner(r) = req[r].email

\* Who is about to be logged in has been verified.
LoginsAreVerified ==
  \A r \in Requests : req[r].pc = "token" \/ r \in tokens =>
    account[req[r].email].state = "verified"

CodesInv ==
  /\ TypeOK
  /\ Stages
  /\ RowsInOrder
  /\ MailHasRow
  /\ TokensInOrder
  /\ UniqueValues
  /\ ReadInMailbox
  /\ RowsAreOwn
  /\ LoginsAreVerified

LEMMA TableIsForKind ==
  ASSUME NEW r \in Requests
  PROVE  Table(r) = TableFor(req[r].kind)
BY DEF Table, TableFor

LEMMA InitCodes == Init => CodesInv
<1>. SUFFICES ASSUME Init PROVE CodesInv
  OBVIOUS
<1>1. Unsent \in RequestRecords
  BY CodesAssumption DEF Unsent, RequestRecords
<1>2. TypeOK
  BY <1>1 DEF Init, TypeOK, Accounts
<1>3. \A r \in Requests : req[r] = Unsent
  BY DEF Init
<1>4. StageOK(Unsent)
  BY DEF StageOK, Unsent, Presenting, Active
<1>5. Stages
  BY <1>3, <1>4 DEF Stages
<1>6. RowsInOrder /\ TokensInOrder /\ UniqueValues
  BY DEF Init, RowsInOrder, TokensInOrder, UniqueValues
<1>7. MailHasRow /\ ReadInMailbox /\ RowsAreOwn /\ LoginsAreVerified
  BY <1>3 DEF Init, Unsent, MailHasRow, ReadInMailbox, RowsAreOwn, LoginsAreVerified
<1>. QED  BY <1>2, <1>5, <1>6, <1>7 DEF CodesInv

-----------------------------------------------------------------------------
\* What every step of a request keeps: the record of r becomes n, rows and
\* tokens are only added by r, and what belongs to r's row stays.
LEMMA StepCodes ==
  ASSUME CodesInv,
         NEW r \in Requests, NEW n \in RequestRecords,
         req' = [req EXCEPT ![r] = n],
         StageOK(n),
         account' \in [Emails -> Accounts],
         \A e \in Emails : account[e].state = "verified" =>
                           account'[e].state = "verified",
         codes \subseteq codes', codes' \subseteq codes \cup {r},
         used' \subseteq codes', expired' \subseteq codes',
         mailed' \subseteq codes',
         tokens \subseteq tokens', tokens' \subseteq tokens \cup {r},
         revoked' \subseteq tokens',
         r \in codes' => /\ n.kind = req[r].kind
                         /\ n.email = req[r].email
                         /\ n.kind \in Issuers
                         /\ n.pc \in Over \cup {"mail"}
                         /\ n.value \in Values,
         r \in codes => n.value = req[r].value,
         n.pc = "mail" => r \in codes',
         r \in codes' \ codes => ~Taken(r, n.value),
         r \in tokens' => n.kind = "login" /\ n.pc \in Over,
         n.pc = "token" \/ r \in tokens' =>
           account'[n.email].state = "verified",
         n.pc = "find" /\ n.value # NoValue =>
           \E c \in codes : /\ Table(c) = TableFor(n.kind)
                            /\ req[c].value = n.value
                            /\ req[c].email = n.email,
         n.row # NoRequest => n.row \in codes /\ req[n.row].email = n.email
  PROVE  CodesInv'
<1>. USE DEF CodesInv
<1>1. \A q \in Requests \ {r} : req'[q] = req[q]
  OBVIOUS
<1>2. req'[r] = n
  BY DEF TypeOK
<1>3. codes \subseteq Requests /\ tokens \subseteq Requests
  BY DEF TypeOK
<1>4. TypeOK'
  BY <1>3 DEF TypeOK
<1>5. Stages'
  BY <1>1, <1>2 DEF Stages, StageOK
<1>6. RowsInOrder'
  BY <1>1, <1>2, <1>3 DEF RowsInOrder
<1>7. TokensInOrder'
  BY <1>1, <1>2, <1>3 DEF TokensInOrder
<1>8. \A c \in codes : /\ req'[c].kind = req[c].kind
                       /\ req'[c].email = req[c].email
                       /\ req'[c].value = req[c].value
                       /\ Table(c)' = Table(c)
  BY <1>1, <1>2, <1>3 DEF Table
<1>9. UniqueValues'
  <2>1. r \in codes' => Table(r)' = Table(r)
    BY <1>2 DEF Table
  <2>. SUFFICES ASSUME NEW c \in codes', NEW d \in codes',
                       Table(c)' = Table(d)', req'[c].value = req'[d].value,
                       c # d
                PROVE  FALSE
    BY DEF UniqueValues
  <2>2. CASE c \in codes /\ d \in codes
    BY <1>8, <2>2 DEF UniqueValues
  <2>3. CASE c \notin codes
    BY <1>2, <1>8, <2>1, <2>3 DEF Taken
  <2>4. CASE d \notin codes
    BY <1>2, <1>8, <2>1, <2>4 DEF Taken
  <2>. QED  BY <2>2, <2>3, <2>4
<1>10. ReadInMailbox'
  <2>. SUFFICES ASSUME NEW q \in Requests,
                       req'[q].pc = "find", req'[q].value # NoValue
                PROVE  \E c \in codes' : /\ Table(c)' = Table(q)'
                                         /\ req'[c].value = req'[q].value
                                         /\ req'[c].email = req'[q].email
    BY DEF ReadInMailbox
  <2>1. CASE q = r
    <3>1. Table(r)' = TableFor(n.kind)
      BY <1>2 DEF Table, TableFor
    <3>. QED  BY <1>2, <1>8, <2>1, <3>1
  <2>2. CASE q # r
    <3>1. req'[q] = req[q]
      BY <1>1, <2>2
    <3>2. Table(q)' = Table(q)
      BY <3>1 DEF Table
    <3>. QED  BY <1>8, <3>1, <3>2 DEF ReadInMailbox
  <2>. QED  BY <2>1, <2>2
<1>11. RowsAreOwn'
  <2>. SUFFICES ASSUME NEW q \in Requests, req'[q].row # NoRequest
                PROVE  /\ req'[q].row \in codes'
                       /\ req'[req'[q].row].email = req'[q].email
    BY DEF RowsAreOwn, Owner
  <2>1. CASE q = r
    BY <1>2, <1>8, <2>1
  <2>2. CASE q # r
    BY <1>1, <1>8, <2>2 DEF RowsAreOwn, Owner
  <2>. QED  BY <2>1, <2>2
<1>12. LoginsAreVerified'
  <2>. SUFFICES ASSUME NEW q \in Requests,
                       req'[q].pc = "token" \/ q \in tokens'
                PROVE  account'[req'[q].email].state = "verified"
    BY DEF LoginsAreVerified
  <2>1. CASE q = r
    BY <1>2, <2>1
  <2>2. CASE q # r
    <3>1. req'[q] = req[q] /\ (q \in tokens' => q \in tokens)
      BY <1>1, <2>2
    <3>2. account[req[q].email].state = "verified"
      BY <3>1 DEF LoginsAreVerified
    <3>3. req[q].email \in Emails
      BY <3>1 DEF Stages, StageOK, TokensInOrder, Over
    <3>. QED  BY <3>1, <3>2, <3>3
  <2>. QED  BY <2>1, <2>2
<1>13. MailHasRow'
  BY <1>1, <1>2 DEF MailHasRow
<1>. QED  BY <1>4, <1>5, <1>6, <1>7, <1>9, <1>10, <1>11, <1>12, <1>13

\* The record of r moves to another label, and the accounts that are verified
\* stay so.
LEMMA GotoCodes ==
  ASSUME CodesInv,
         NEW r \in Requests, NEW label \in (Active \cup Ended) \ {"find", "mail"},
         Goto(r, label),
         StageOK([req[r] EXCEPT !.pc = label]),
         account' \in [Emails -> Accounts],
         \A e \in Emails : account[e].state = "verified" =>
                           account'[e].state = "verified",
         codes' = codes, used' \subseteq codes, expired' \subseteq codes,
         mailed' \subseteq codes,
         tokens \subseteq tokens', tokens' \subseteq tokens \cup {r},
         revoked' \subseteq tokens',
         r \in codes => label \in Over,
         r \in tokens' => req[r].kind = "login" /\ label \in Over,
         label = "token" \/ r \in tokens' =>
           account'[req[r].email].state = "verified"
  PROVE  CodesInv'
<1>. DEFINE n == [req[r] EXCEPT !.pc = label]
<1>. USE DEF CodesInv
<1>1. req' = [req EXCEPT ![r] = n]
  BY DEF Goto
<1>2. req[r] \in RequestRecords
  BY DEF TypeOK
<1>3. n \in RequestRecords
  BY <1>2 DEF RequestRecords
<1>4. /\ n.kind = req[r].kind /\ n.email = req[r].email
      /\ n.value = req[r].value /\ n.row = req[r].row /\ n.pc = label
  BY <1>2 DEF RequestRecords
<1>5. r \in codes => req[r].kind \in Issuers /\ req[r].value \in Values
  BY DEF RowsInOrder
<1>6. req[r].row # NoRequest =>
        req[r].row \in codes /\ req[req[r].row].email = req[r].email
  BY DEF RowsAreOwn, Owner
<1>7. StageOK(n)
  OBVIOUS
<1>. HIDE DEF n, CodesInv
<1>. QED  BY <1>1, <1>3, <1>4, <1>5, <1>6, <1>7, StepCodes

\* The record of a request without a row or a token is forgotten.
LEMMA RefuseCodes ==
  ASSUME CodesInv, NEW r \in Requests \ (codes \cup tokens), Refuse(r),
         UNCHANGED tables
  PROVE  CodesInv'
<1>. DEFINE n == [Unsent EXCEPT !.pc = "denied"]
<1>1. req' = [req EXCEPT ![r] = n]
  BY DEF Refuse
<1>2. n \in RequestRecords
  BY CodesAssumption DEF Unsent, RequestRecords, Ended
<1>3. n.pc = "denied" /\ n.row = NoRequest
  BY DEF Unsent
<1>4. StageOK(n)
  BY <1>3 DEF StageOK, Presenting, Active
<1>5. TypeOK
  BY DEF CodesInv
<1>. HIDE DEF n
<1>. QED  BY <1>1, <1>2, <1>3, <1>4, <1>5, StepCodes DEF tables, TypeOK

\* What has a row or a token is over, or about to mail its code.
LEMMA ActiveHasNoRow ==
  ASSUME CodesInv, NEW r \in Requests, req[r].pc \notin Over \cup {"mail"}
  PROVE  r \notin codes /\ r \notin tokens
BY DEF CodesInv, RowsInOrder, TokensInOrder

\* What the invariant says of a request at work.
LEMMA AtWork ==
  ASSUME CodesInv, NEW r \in Requests
  PROVE  /\ StageOK(req[r])
         /\ req[r] \in RequestRecords
         /\ req[r].pc \in Active => req[r].email \in Emails
         /\ req[r].pc \in Presenting \ {"find"} =>
              /\ req[r].row \in codes
              /\ Owner(r) = req[r].email
              /\ Owner(r) \in Emails
         /\ codes \subseteq Requests
<1>. USE DEF CodesInv
<1>1. StageOK(req[r])
  BY DEF Stages
<1>2. req[r] \in RequestRecords /\ codes \subseteq Requests
  BY DEF TypeOK
<1>3. req[r].pc \in Active => req[r].email \in Emails
  BY <1>1 DEF StageOK, Active
<1>4. req[r].pc \in Presenting \ {"find"} =>
        /\ req[r].row \in codes
        /\ Owner(r) = req[r].email
        /\ Owner(r) \in Emails
  BY <1>1, <1>3, CodesAssumption DEF StageOK, RowsAreOwn, Presenting, Active
<1>. QED  BY <1>1, <1>2, <1>3, <1>4

LEMMA DispatchCodes ==
  ASSUME CodesInv, NEW r \in Requests, NEW e \in Emails,
         NEW kind \in Issuers \cup Presenters, NEW label \in {"lookup", "find"},
         NEW v \in Values \cup {NoValue},
         (label = "find") <=> (kind \in Presenters),
         v # NoValue => \E c \in codes : /\ Table(c) = TableFor(kind)
                                         /\ req[c].value = v
                                         /\ req[c].email = e,
         Dispatch(r, kind, label, e, v)
  PROVE  CodesInv'
<1>. DEFINE n == [kind |-> kind, pc |-> label, email |-> e, value |-> v,
                  tries |-> 0, row |-> NoRequest,
                  seen |-> {q \in Requests :
                              req[q].email = e /\ req[q].pc \in Over}]
<1>1. req' = [req EXCEPT ![r] = n] /\ req[r].pc = "unsent" /\ UNCHANGED tables
  BY DEF Dispatch
<1>2. n \in RequestRecords
  BY CodesAssumption DEF RequestRecords, Active
<1>3. /\ n.kind = kind /\ n.pc = label /\ n.email = e /\ n.value = v
      /\ n.tries = 0 /\ n.row = NoRequest
  OBVIOUS
<1>. HIDE DEF n
<1>4. StageOK(n)
  BY <1>3, CodesAssumption DEF StageOK, Presenting, Active, Issuers, Presenters
<1>5. r \notin codes /\ r \notin tokens
  BY <1>1, ActiveHasNoRow DEF Over
<1>6. TypeOK
  BY DEF CodesInv
<1>. QED  BY <1>1, <1>2, <1>3, <1>4, <1>5, <1>6, StepCodes DEF tables, TypeOK

LEMMA SendCodes ==
  ASSUME CodesInv, NEW r \in Requests, Send(r)
  PROVE  CodesInv'
<1>1. PICK e \in Emails :
        \/ \E kind \in Issuers : Dispatch(r, kind, "lookup", e, NoValue)
        \/ \E kind \in Presenters : Dispatch(r, kind, "find", e, NoValue)
        \/ \E c \in {c \in mailed : req[c].email = e} :
             Dispatch(r, IF Table(c) = "password_reset_tokens" THEN "reset"
                         ELSE "verify", "find", e, req[c].value)
  BY DEF Send
<1>2. CASE \E kind \in Issuers : Dispatch(r, kind, "lookup", e, NoValue)
  BY <1>2, DispatchCodes DEF Issuers, Presenters
<1>3. CASE \E kind \in Presenters : Dispatch(r, kind, "find", e, NoValue)
  BY <1>3, DispatchCodes
<1>4. ASSUME NEW c \in mailed, req[c].email = e,
             Dispatch(r, IF Table(c) = "password_reset_tokens" THEN "reset"
                         ELSE "verify", "find", e, req[c].value)
      PROVE  CodesInv'
  <2>. DEFINE kind == IF Table(c) = "password_reset_tokens" THEN "reset"
                      ELSE "verify"
  <2>1. c \in codes /\ req[c].value \in Values
    BY DEF CodesInv, TypeOK, RowsInOrder
  <2>2. Table(c) = TableFor(kind) /\ kind \in Presenters
    BY DEF Table, TableFor, Presenters
  <2>. HIDE DEF kind
  <2>3. Dispatch(r, kind, "find", e, req[c].value)
    BY <1>4 DEF kind
  <2>. QED  BY <1>4, <2>1, <2>2, <2>3, DispatchCodes
<1>. QED  BY <1>1, <1>2, <1>3, <1>4

-----------------------------------------------------------------------------
(* One lemma per handler. *)

LEMMA LookupCodes ==
  ASSUME CodesInv, NEW r \in Requests, Lookup(r)
  PROVE  CodesInv'
<1>1. /\ StageOK(req[r]) /\ req[r] \in RequestRecords
      /\ req[r].pc = "lookup" /\ req[r].email \in Emails
      /\ UNCHANGED tables
  BY AtWork DEF Lookup, Active
<1>2. r \notin codes /\ r \notin tokens
  BY <1>1, ActiveHasNoRow DEF Over
<1>3. CASE Refuse(r)
  BY <1>1, <1>2, <1>3, RefuseCodes
<1>4. ASSUME NEW label \in {"createUser", "token", "invalidate", "create",
                            "answered"},
             Goto(r, label),
             label = "createUser" => req[r].kind = "register",
             label = "token" => /\ req[r].kind = "login"
                                /\ account[req[r].email].state = "verified"
      PROVE  CodesInv'
  <2>1. StageOK([req[r] EXCEPT !.pc = label])
    BY <1>1, <1>4 DEF StageOK, RequestRecords, Presenting, Active
  <2>2. label \in (Active \cup Ended) \ {"find", "mail"}
    BY DEF Active, Ended, Over
  <2>. QED  BY <1>1, <1>2, <1>4, <2>1, <2>2, GotoCodes
            DEF CodesInv, TypeOK, tables
<1>. QED  BY <1>1, <1>3, <1>4 DEF Lookup, EmailVerified

LEMMA CreateUserCodes ==
  ASSUME CodesInv, NEW r \in Requests, CreateUser(r)
  PROVE  CodesInv'
<1>1. /\ StageOK(req[r]) /\ req[r] \in RequestRecords
      /\ req[r].pc = "createUser" /\ req[r].email \in Emails
      /\ UNCHANGED <<codes, used, expired, mailed, tokens, revoked>>
  BY AtWork DEF CreateUser, Active
<1>2. r \notin codes /\ r \notin tokens
  BY <1>1, ActiveHasNoRow DEF Over
<1>3. CASE Refuse(r) /\ UNCHANGED account
  BY <1>1, <1>2, <1>3, RefuseCodes DEF tables
<1>4. CASE /\ CanCreateUser(req[r].email)
           /\ account' = [account EXCEPT ![req[r].email] =
                [state |-> "unverified", password |-> r]]
           /\ Goto(r, "invalidate")
  <2>1. StageOK([req[r] EXCEPT !.pc = "invalidate"])
    BY <1>1 DEF StageOK, RequestRecords, Presenting, Active, Issuers
  <2>2. account' \in [Emails -> Accounts]
    BY <1>4 DEF CodesInv, TypeOK, Accounts
  <2>3. \A e \in Emails : account[e].state = "verified" =>
                          account'[e].state = "verified"
    BY <1>1, <1>4 DEF CanCreateUser, CodesInv, TypeOK
  <2>4. TypeOK
    BY DEF CodesInv
  <2>. QED  BY <1>1, <1>2, <1>4, <2>1, <2>2, <2>3, <2>4, GotoCodes
            DEF TypeOK, Active, Ended
<1>. QED  BY <1>3, <1>4 DEF CreateUser

\* A handler's last write was made: it is answered or fails.
LEMMA FinishCodes ==
  ASSUME CodesInv,
         NEW r \in Requests, req[r].pc \in Active,
         Finish(r),
         account' \in [Emails -> Accounts],
         \A e \in Emails : account[e].state = "verified" =>
                           account'[e].state = "verified",
         codes' = codes, used' \subseteq codes, expired' \subseteq codes,
         mailed' \subseteq codes,
         tokens \subseteq tokens', tokens' \subseteq tokens \cup {r},
         revoked' \subseteq tokens',
         r \in tokens' => req[r].kind = "login" /\ req[r].pc = "token"
  PROVE  CodesInv'
<1>1. /\ StageOK(req[r]) /\ req[r] \in RequestRecords
      /\ req[r].email \in Emails
  BY AtWork
<1>2. PICK label \in {"answered", "failed"} : Goto(r, label)
  BY DEF Finish
<1>3. StageOK([req[r] EXCEPT !.pc = label])
  BY <1>1 DEF StageOK, RequestRecords, Presenting, Active
<1>4. r \in tokens' => account'[req[r].email].state = "verified"
  BY <1>1 DEF CodesInv, LoginsAreVerified
<1>. QED  BY <1>2, <1>3, <1>4, GotoCodes DEF Ended, Over

LEMMA InsertTokenCodes ==
  ASSUME CodesInv, NEW r \in Requests, InsertToken(r)
  PROVE  CodesInv'
<1>1. req[r].kind = "login" /\ req[r].pc = "token"
  BY AtWork DEF InsertToken, StageOK
<1>. QED  BY <1>1, FinishCodes DEF InsertToken, CodesInv, TypeOK, Active

LEMMA InvalidateCodes ==
  ASSUME CodesInv, NEW r \in Requests, Invalidate(r)
  PROVE  CodesInv'
<1>1. /\ StageOK(req[r]) /\ req[r] \in RequestRecords
      /\ req[r].pc = "invalidate"
  BY AtWork DEF Invalidate
<1>2. r \notin codes /\ r \notin tokens
  BY <1>1, ActiveHasNoRow DEF Over
<1>3. StageOK([req[r] EXCEPT !.pc = "create"])
  BY <1>1 DEF StageOK, RequestRecords, Presenting, Active
<1>4. used' \subseteq codes
  BY DEF Invalidate, InvalidateActiveForUser, CodesOf, CodesInv, TypeOK
<1>. QED  BY <1>2, <1>3, <1>4, GotoCodes
          DEF Invalidate, CodesInv, TypeOK, Active

LEMMA CreateCodes ==
  ASSUME CodesInv, NEW r \in Requests, Create(r)
  PROVE  CodesInv'
<1>1. /\ StageOK(req[r]) /\ req[r] \in RequestRecords
      /\ req[r].pc = "create" /\ req[r].email \in Emails
      /\ UNCHANGED <<account, used, expired, mailed, tokens, revoked>>
  BY AtWork DEF Create, Active
<1>2. r \notin codes /\ r \notin tokens
  BY <1>1, ActiveHasNoRow DEF Over
<1>3. TypeOK
  BY DEF CodesInv
<1>4. /\ req[r].kind \in Issuers /\ req[r].tries \in 0..MaxTries
      /\ req[r].tries < MaxTries
  BY <1>1 DEF StageOK, RequestRecords, Active, Presenting
<1>5. req[r].row # NoRequest =>
        req[r].row \in codes /\ req[req[r].row].email = req[r].email
  BY DEF CodesInv, RowsAreOwn, Owner
<1>6. ASSUME NEW v \in Values, ~Taken(r, v), codes' = codes \cup {r},
             req' = [req EXCEPT ![r].value = v, ![r].tries = 0,
                                ![r].pc = "mail"]
      PROVE  CodesInv'
  <2>. DEFINE n == [req[r] EXCEPT !.value = v, !.tries = 0, !.pc = "mail"]
  <2>1. req' = [req EXCEPT ![r] = n]
    BY <1>3, <1>6 DEF TypeOK
  <2>2. n \in RequestRecords
    <3>1. 0 \in 0..MaxTries /\ "mail" \in Active
      BY CodesAssumption DEF Active
    <3>. QED  BY <1>1, <3>1 DEF RequestRecords
  <2>3. /\ n.kind = req[r].kind /\ n.email = req[r].email
        /\ n.value = v /\ n.row = req[r].row /\ n.pc = "mail"
    BY <1>1 DEF RequestRecords
  <2>. HIDE DEF n
  <2>4. StageOK(n)
    BY <1>1, <1>4, <2>3 DEF StageOK, Presenting, Active
  <2>. QED  BY <1>1, <1>2, <1>3, <1>4, <1>5, <1>6, <2>1, <2>2, <2>3, <2>4,
               StepCodes DEF TypeOK
<1>7. ASSUME UNCHANGED codes,
             req' = [req EXCEPT ![r].tries = req[r].tries + 1,
               ![r].pc = IF GivesUp(req[r].tries + 1) THEN "failed" ELSE "create"]
      PROVE  CodesInv'
  <2>. DEFINE label == IF GivesUp(req[r].tries + 1) THEN "failed" ELSE "create"
              n == [req[r] EXCEPT !.tries = req[r].tries + 1, !.pc = label]
  <2>1. req' = [req EXCEPT ![r] = n]
    BY <1>3, <1>7 DEF TypeOK
  <2>2. /\ label \in {"failed", "create"}
        /\ label = "create" => req[r].tries + 1 < MaxTries
    BY <1>4, CodesAssumption DEF GivesUp
  <2>. HIDE DEF label
  <2>3. n \in RequestRecords
    <3>1. /\ req[r].tries + 1 \in 0..MaxTries
          /\ label \in Active \cup Ended
      BY <1>4, <2>2, CodesAssumption DEF Active, Ended, Over
    <3>. QED  BY <1>1, <3>1 DEF RequestRecords
  <2>4. /\ n.kind = req[r].kind /\ n.email = req[r].email
        /\ n.row = req[r].row /\ n.pc = label /\ n.tries = req[r].tries + 1
    BY <1>1 DEF RequestRecords
  <2>. HIDE DEF n
  <2>5. StageOK(n)
    BY <1>1, <1>4, <2>2, <2>4 DEF StageOK, Presenting, Active
  <2>. QED  BY <1>1, <1>2, <1>3, <1>5, <1>7, <2>1, <2>2, <2>3, <2>4, <2>5,
               StepCodes DEF TypeOK
<1>. QED  BY <1>6, <1>7 DEF Create

LEMMA MailCodes ==
  ASSUME CodesInv, NEW r \in Requests, Mail(r)
  PROVE  CodesInv'
<1>1. req[r].kind \in Issuers /\ r \notin tokens
  BY AtWork DEF Mail, StageOK, Active, Presenting, CodesInv, TokensInOrder, Over
<1>2. r \in codes
  BY DEF Mail, CodesInv, MailHasRow
<1>. QED  BY <1>1, <1>2, FinishCodes DEF Mail, CodesInv, TypeOK, Active

LEMMA FindCodes ==
  ASSUME CodesInv, NEW r \in Requests, Find(r)
  PROVE  CodesInv'
<1>1. /\ StageOK(req[r]) /\ req[r] \in RequestRecords
      /\ req[r].pc = "find" /\ req[r].email \in Emails
      /\ UNCHANGED tables
  BY AtWork DEF Find, Active
<1>2. r \notin codes /\ r \notin tokens
  BY <1>1, ActiveHasNoRow DEF Over
<1>3. CASE Refuse(r)
  BY <1>1, <1>2, <1>3, RefuseCodes
<1>4. ASSUME NEW c \in FindByTokenHash(Table(r), req[r].value),
             req' = [req EXCEPT ![r].row = c, ![r].value = NoValue,
                                ![r].pc = "markUsed"]
      PROVE  CodesInv'
  <2>. DEFINE n == [req[r] EXCEPT !.row = c, !.value = NoValue,
                                  !.pc = "markUsed"]
  <2>1. TypeOK
    BY DEF CodesInv
  <2>2. /\ c \in codes /\ c \in Requests
        /\ Table(c) = Table(r) /\ req[c].value = req[r].value
    BY <2>1 DEF FindByTokenHash, TypeOK
  <2>3. req[c].email = req[r].email
    <3>1. req[r].value # NoValue
      BY <2>2, CodesAssumption DEF CodesInv, RowsInOrder
    <3>2. PICK d \in codes : /\ Table(d) = Table(r)
                             /\ req[d].value = req[r].value
                             /\ req[d].email = req[r].email
      BY <1>1, <3>1 DEF CodesInv, ReadInMailbox
    <3>3. c = d
      BY <2>2, <3>2 DEF CodesInv, UniqueValues
    <3>. QED  BY <3>2, <3>3
  <2>4. req' = [req EXCEPT ![r] = n]
    BY <1>4, <2>1 DEF TypeOK
  <2>5. n \in RequestRecords
    BY <1>1, <2>2 DEF RequestRecords, Active
  <2>6. /\ n.kind = req[r].kind /\ n.email = req[r].email
        /\ n.row = c /\ n.pc = "markUsed"
    BY <1>1 DEF RequestRecords
  <2>. HIDE DEF n
  <2>7. StageOK(n)
    BY <1>1, <2>2, <2>6 DEF StageOK, Presenting, Active
  <2>. QED  BY <1>1, <1>2, <2>1, <2>2, <2>3, <2>4, <2>5, <2>6, <2>7,
               StepCodes DEF TypeOK, tables
<1>. QED  BY <1>1, <1>3, <1>4 DEF Find

LEMMA MarkUsedCodes ==
  ASSUME CodesInv, NEW r \in Requests, MarkUsed(r)
  PROVE  CodesInv'
<1>1. /\ StageOK(req[r]) /\ req[r] \in RequestRecords
      /\ req[r].pc = "markUsed" /\ req[r].email \in Emails
      /\ req[r].row \in codes
  BY AtWork DEF MarkUsed, Active, Presenting
<1>2. r \notin codes /\ r \notin tokens
  BY <1>1, ActiveHasNoRow DEF Over
<1>3. PICK label \in {"markVerified", "invalidateOthers"} :
        /\ Goto(r, label)
        /\ label = "invalidateOthers" => req[r].kind = "reset"
  BY <1>1 DEF MarkUsed, StageOK, Presenting, Presenters
<1>4. StageOK([req[r] EXCEPT !.pc = label])
  BY <1>1, <1>3 DEF StageOK, RequestRecords, Presenting, Active
<1>. QED  BY <1>1, <1>2, <1>3, <1>4, GotoCodes
          DEF MarkUsed, CodesInv, TypeOK, Active

LEMMA MarkVerifiedCodes ==
  ASSUME CodesInv, NEW r \in Requests, MarkVerified(r)
  PROVE  CodesInv'
<1>1. req[r].pc = "markVerified" /\ Owner(r) \in Emails
  BY AtWork DEF MarkVerified, Presenting
<1>2. r \notin codes /\ r \notin tokens
  BY <1>1, ActiveHasNoRow DEF Over
<1>3. account' = [account EXCEPT ![Owner(r)].state = "verified"]
  BY DEF MarkVerified
<1>4. /\ account' \in [Emails -> Accounts]
      /\ \A e \in Emails : account[e].state = "verified" =>
                           account'[e].state = "verified"
  BY <1>1, <1>3 DEF CodesInv, TypeOK, Accounts
<1>. QED  BY <1>1, <1>2, <1>4, FinishCodes
          DEF MarkVerified, CodesInv, TypeOK, Active

LEMMA InvalidateOthersCodes ==
  ASSUME CodesInv, NEW r \in Requests, InvalidateOthers(r)
  PROVE  CodesInv'
<1>1. /\ StageOK(req[r]) /\ req[r] \in RequestRecords
      /\ req[r].pc = "invalidateOthers"
  BY AtWork DEF InvalidateOthers
<1>2. r \notin codes /\ r \notin tokens
  BY <1>1, ActiveHasNoRow DEF Over
<1>3. StageOK([req[r] EXCEPT !.pc = "updatePassword"])
  BY <1>1 DEF StageOK, RequestRecords, Presenting, Active
<1>4. used' \subseteq codes
  BY DEF InvalidateOthers, InvalidateActiveForUser, CodesOf, CodesInv, TypeOK
<1>. QED  BY <1>2, <1>3, <1>4, GotoCodes
          DEF InvalidateOthers, CodesInv, TypeOK, Active

LEMMA UpdatePasswordCodes ==
  ASSUME CodesInv, NEW r \in Requests, UpdatePassword(r)
  PROVE  CodesInv'
<1>1. /\ StageOK(req[r]) /\ req[r] \in RequestRecords
      /\ req[r].pc = "updatePassword" /\ Owner(r) \in Emails
  BY AtWork DEF UpdatePassword, Presenting
<1>2. r \notin codes /\ r \notin tokens
  BY <1>1, ActiveHasNoRow DEF Over
<1>3. StageOK([req[r] EXCEPT !.pc = "revokeAll"])
  BY <1>1 DEF StageOK, RequestRecords, Presenting, Active
<1>4. account' = [account EXCEPT ![Owner(r)].password = r]
  BY DEF UpdatePassword, SetPassword
<1>5. /\ account' \in [Emails -> Accounts]
      /\ \A e \in Emails : account[e].state = "verified" =>
                           account'[e].state = "verified"
  BY <1>1, <1>4 DEF CodesInv, TypeOK, Accounts
<1>. QED  BY <1>2, <1>3, <1>5, GotoCodes
          DEF UpdatePassword, CodesInv, TypeOK, Active

LEMMA RevokeAllCodes ==
  ASSUME CodesInv, NEW r \in Requests, RevokeAll(r)
  PROVE  CodesInv'
<1>1. r \notin codes /\ r \notin tokens
  BY ActiveHasNoRow DEF RevokeAll, Over
<1>2. revoked' \subseteq tokens
  BY DEF RevokeAll, RevokeAllForUser, TokensOf, CodesInv, TypeOK
<1>. QED  BY <1>1, <1>2, FinishCodes DEF RevokeAll, CodesInv, TypeOK, Active

LEMMA AbortCodes ==
  ASSUME CodesInv, NEW r \in Requests, Abort(r)
  PROVE  CodesInv'
<1>1. StageOK(req[r]) /\ req[r] \in RequestRecords /\ req[r].email \in Emails
  BY AtWork DEF Abort
<1>2. r \notin tokens
  BY DEF Abort, Active, Over, CodesInv, TokensInOrder
<1>3. CASE Goto(r, "failed")
  <2>1. StageOK([req[r] EXCEPT !.pc = "failed"])
    BY <1>1 DEF StageOK, RequestRecords, Presenting, Active
  <2>. QED  BY <1>2, <1>3, <2>1, GotoCodes
            DEF Abort, CodesInv, TypeOK, tables, Ended, Over
<1>4. CASE Refuse(r) /\ req[r].pc # "mail"
  <2>1. r \notin codes
    BY <1>4, ActiveHasNoRow DEF Abort, Active, Over
  <2>. QED  BY <1>2, <1>4, <2>1, RefuseCodes DEF Abort
<1>. QED  BY <1>3, <1>4 DEF Abort

LEMMA ExpireCodes ==
  ASSUME CodesInv, NEW c \in Requests, Expire(c)
  PROVE  CodesInv'
<1>1. TypeOK'
  BY DEF CodesInv, TypeOK, Expire
<1>2. /\ UNCHANGED <<req, account, codes, tokens>>
      /\ \A r : Table(r)' = Table(r)
  BY DEF Expire, Table
<1>. QED  BY <1>1, <1>2
          DEF CodesInv, Stages, RowsInOrder, MailHasRow, TokensInOrder,
              UniqueValues, ReadInMailbox, RowsAreOwn, LoginsAreVerified, Owner

-----------------------------------------------------------------------------

LEMMA NextCodes == CodesInv /\ [Next]_vars => CodesInv'
<1>. SUFFICES ASSUME CodesInv, [Next]_vars PROVE CodesInv'
  OBVIOUS
<1>1. CASE UNCHANGED vars
  <2>1. /\ UNCHANGED <<req, account, codes, used, expired, mailed, tokens, revoked>>
        /\ \A r : Table(r)' = Table(r)
    BY <1>1 DEF vars, tables, Table
  <2>. QED  BY <2>1
            DEF CodesInv, TypeOK, Stages, RowsInOrder, MailHasRow, TokensInOrder,
                UniqueValues, ReadInMailbox, RowsAreOwn, LoginsAreVerified, Owner
<1>2. ASSUME NEW r \in Requests, Handle(r) PROVE CodesInv'
  BY <1>2, LookupCodes, CreateUserCodes, InsertTokenCodes, InvalidateCodes,
     CreateCodes, MailCodes, FindCodes, MarkUsedCodes, MarkVerifiedCodes,
     InvalidateOthersCodes, UpdatePasswordCodes, RevokeAllCodes DEF Handle
<1>. QED  BY <1>1, <1>2, SendCodes, AbortCodes, ExpireCodes
          DEF Next, Terminating

LEMMA CodesInvariant == Spec => []CodesInv
BY InitCodes, NextCodes, PTL DEF Spec

\* The variables keep their types: no handler draws a code more often than the
\* code allows, and only rows and tokens that exist are used, expired, mailed
\* or revoked.
THEOREM TypeCorrect == Spec => []TypeOK
BY CodesInvariant, PTL DEF CodesInv

\* A code found by its value alone belongs to the user in whose mailbox it was
\* read, for any number of users and values, because values are never reused.
THEOREM CodesAreOwn == Spec => []CodeActsForItsOwner
<1>1. CodesInv => CodeActsForItsOwner
  BY DEF CodesInv, RowsAreOwn, CodeActsForItsOwner
<1>. QED  BY <1>1, CodesInvariant, PTL

\* No token is issued for an account whose email was not verified.
THEOREM OnlyVerifiedLogIn == Spec => []SessionsAreVerified
<1>1. CodesInv => SessionsAreVerified
  BY DEF CodesInv, TypeOK, LoginsAreVerified, SessionsAreVerified
<1>. QED  BY <1>1, CodesInvariant, PTL

\* An existing account's password changes by a reset with a code from its own
\* mailbox, and by nothing else.
THEOREM PasswordsAreGuarded == Spec => OnlyResetChangesPassword
<1>. DEFINE Guarded ==
       \A e \in Emails :
         /\ account[e].state # "absent"
         /\ account'[e].password # account[e].password
         => \E r \in Requests : /\ req[r].kind = "reset"
                                /\ req[r].email = e
                                /\ account'[e].password = r
<1>1. CodesInv /\ [Next]_vars => [Guarded]_vars
  <2>. SUFFICES ASSUME CodesInv, Next PROVE Guarded
    OBVIOUS
  <2>1. CASE account' = account
    BY <2>1
  <2>2. ASSUME NEW r \in Requests, CreateUser(r) PROVE Guarded
    <3>1. account' # account => account[req[r].email].state = "absent"
      BY <2>2 DEF CreateUser, CanCreateUser
    <3>2. \A e \in Emails \ {req[r].email} : account'[e] = account[e]
      BY <2>2 DEF CreateUser, CodesInv, TypeOK
    <3>. QED  BY <3>1, <3>2
  <2>3. ASSUME NEW r \in Requests, MarkVerified(r) PROVE Guarded
    <3>1. \A e \in Emails : account'[e].password = account[e].password
      BY <2>3 DEF MarkVerified, CodesInv, TypeOK, Accounts
    <3>. QED  BY <3>1
  <2>4. ASSUME NEW r \in Requests, UpdatePassword(r) PROVE Guarded
    <3>1. /\ req[r].kind = "reset" /\ Owner(r) = req[r].email
          /\ Owner(r) \in Emails
      BY <2>4, AtWork DEF UpdatePassword, StageOK, Presenting
    <3>2. account' = [account EXCEPT ![Owner(r)].password = r]
      BY <2>4 DEF UpdatePassword, SetPassword
    <3>3. /\ account'[Owner(r)].password = r
          /\ \A e \in Emails \ {Owner(r)} : account'[e] = account[e]
      BY <3>1, <3>2 DEF CodesInv, TypeOK, Accounts
    <3>. QED  BY <3>1, <3>3
  <2>5. \/ account' = account
        \/ \E r \in Requests : CreateUser(r) \/ MarkVerified(r) \/ UpdatePassword(r)
    BY DEF Next, Send, Dispatch, Handle, Abort, Expire, Terminating, vars, tables,
           Lookup, InsertToken, Invalidate, Create, Mail, Find, MarkUsed,
           InvalidateOthers, RevokeAll
  <2>. QED  BY <2>1, <2>2, <2>3, <2>4, <2>5
<1>. QED  BY <1>1, CodesInvariant, PTL DEF Spec, OnlyResetChangesPassword

-----------------------------------------------------------------------------
(* Properties that compare a request with those that were over when it was  *)
(* sent.                                                                     *)

\* What a request counts as over when it was sent is over, and of its address.
SeenAreOver ==
  \A r \in Requests : \A q \in req[r].seen :
    req[q].pc \in Over /\ req[q].email = req[r].email

\* Between the row a request found and the row marked used there is one label.
FoundIsUsed ==
  \A r \in Requests :
    req[r].row # NoRequest /\ req[r].pc # "markUsed" => req[r].row \in used

\* What a label says of the kind of its request, and an answer of its row.
PresenterStages ==
  \A r \in Requests :
    /\ req[r].pc = "markVerified" => req[r].kind = "verify"
    /\ req[r].kind = "reset" /\ req[r].pc = "answered" => req[r].row # NoRequest

\* A request that may insert a verification code has spent the earlier ones.
EarlierCodesSpent ==
  \A r \in Requests :
    /\ r \in codes \/ req[r].pc \in {"create", "mail"}
    /\ Table(r) = "email_verification_tokens"
    => \A q \in codes \cap req[r].seen :
         Table(q) = "email_verification_tokens" => q \in used

\* What a reset has done by the label it has reached.
ResetProgress ==
  \A r \in Requests : req[r].kind = "reset" =>
    /\ req[r].pc \in {"updatePassword", "revokeAll", "answered"} =>
         CodesOf("password_reset_tokens", req[r].email) \cap req[r].seen \subseteq used
    /\ req[r].pc \in {"revokeAll", "answered"} =>
         account[req[r].email].password \notin req[r].seen \cup {NoRequest}
    /\ req[r].pc = "answered" =>
         TokensOf(req[r].email) \cap req[r].seen \subseteq revoked

InTimeInv == /\ CodesInv
             /\ SeenAreOver
             /\ FoundIsUsed
             /\ PresenterStages
             /\ EarlierCodesSpent
             /\ ResetProgress
             /\ CodeWorksOnce

LEMMA InitInTime == Init => InTimeInv
<1>. SUFFICES ASSUME Init PROVE InTimeInv
  OBVIOUS
<1>1. \A r \in Requests : req[r] = Unsent
  BY DEF Init
<1>2. SeenAreOver /\ FoundIsUsed /\ PresenterStages /\ ResetProgress /\ CodeWorksOnce
  BY <1>1 DEF Unsent, SeenAreOver, FoundIsUsed, PresenterStages, ResetProgress,
              CodeWorksOnce
<1>3. EarlierCodesSpent
  BY DEF Init, EarlierCodesSpent
<1>. QED  BY <1>2, <1>3, InitCodes DEF InTimeInv

-----------------------------------------------------------------------------
(* What a step does, as far as the order of requests goes.                  *)

\* A client's call begins a request that was never sent.
BeginMove(r) ==
  /\ req[r].pc = "unsent"
  /\ UNCHANGED tables
  /\ req'[r].pc \in {"lookup", "find"}
  /\ req'[r].row = NoRequest
  /\ \A q \in req'[r].seen : req[q].pc \in Over /\ req[q].email = req'[r].email

\* A request that is refused is forgotten.
RefuseMove(r) ==
  /\ req[r].pc \notin Over \cup {"mail"}
  /\ UNCHANGED tables
  /\ req'[r].pc = "denied"
  /\ req'[r].kind = "none"
  /\ req'[r].row = NoRequest
  /\ req'[r].seen = {}

\* A step of a handler, or its end by a fault: the tables only grow, and a
\* label is reached after the call that precedes it took effect.
WorkMove(r) ==
  /\ req[r].pc \in Active
  /\ req'[r].kind = req[r].kind
  /\ req'[r].email = req[r].email
  /\ req'[r].seen = req[r].seen
  /\ used \subseteq used'
  /\ revoked \subseteq revoked'
  /\ codes' = codes \/ (req[r].pc = "create" /\ codes' = codes \cup {r})
  /\ tokens' = tokens \/ (req[r].pc = "token" /\ tokens' = tokens \cup {r})
  /\ \A e \in Emails : account'[e].password \in {account[e].password, r}
  /\ \/ req'[r].row = req[r].row /\ (req[r].pc = "markUsed" => req[r].row \in used')
     \/ req'[r].row \notin used /\ req'[r].pc = "markUsed"
  /\ req'[r].pc = "create" =>
       \/ req[r].pc = "create" \/ req[r].kind = "forgot"
       \/ CodesOf("email_verification_tokens", req[r].email) \subseteq used'
  /\ req'[r].pc = "mail" => req[r].pc = "create"
  /\ req'[r].pc = "markVerified" => req[r].kind = "verify"
  /\ req'[r].pc = "updatePassword" =>
       /\ req[r].pc = "invalidateOthers"
       /\ CodesOf("password_reset_tokens", Owner(r)) \subseteq used'
  /\ req'[r].pc = "revokeAll" =>
       req[r].pc = "updatePassword" /\ account'[Owner(r)].password = r
  /\ req[r].kind = "reset" /\ req'[r].pc = "answered" =>
       \/ req[r].pc = "markVerified"
       \/ req[r].pc = "revokeAll" /\ TokensOf(Owner(r)) \subseteq revoked'

Move(r) == /\ \A q \in Requests \ {r} : req'[q] = req[q]
           /\ BeginMove(r) \/ RefuseMove(r) \/ WorkMove(r)

LEMMA BeginMoves ==
  ASSUME CodesInv, NEW r \in Requests, Send(r)
  PROVE  Move(r)
<1>1. PICK e \in Emails, kind \in Issuers \cup Presenters,
           label \in {"lookup", "find"}, v \in Values \cup {NoValue} :
        Dispatch(r, kind, label, e, v)
  BY DEF Send, CodesInv, TypeOK, RowsInOrder, Presenters
<1>. DEFINE n == [kind |-> kind, pc |-> label, email |-> e, value |-> v,
                  tries |-> 0, row |-> NoRequest,
                  seen |-> {q \in Requests :
                              req[q].email = e /\ req[q].pc \in Over}]
<1>2. req' = [req EXCEPT ![r] = n] /\ req[r].pc = "unsent" /\ UNCHANGED tables
  BY <1>1 DEF Dispatch
<1>3. req'[r] = n /\ \A q \in Requests \ {r} : req'[q] = req[q]
  BY <1>2 DEF CodesInv, TypeOK
<1>4. /\ req'[r].pc = label /\ req'[r].row = NoRequest /\ req'[r].email = e
      /\ req'[r].seen = {q \in Requests : req[q].email = e /\ req[q].pc \in Over}
  BY <1>3
<1>. HIDE DEF n
<1>5. BeginMove(r)
  BY <1>2, <1>4 DEF BeginMove
<1>. QED  BY <1>3, <1>5 DEF Move

LEMMA RefuseMoves ==
  ASSUME CodesInv, NEW r \in Requests, Refuse(r), UNCHANGED tables,
         req[r].pc \notin Over \cup {"mail"}
  PROVE  Move(r)
<1>1. req'[r] = [Unsent EXCEPT !.pc = "denied"] /\ \A q \in Requests \ {r} : req'[q] = req[q]
  BY DEF CodesInv, TypeOK, Refuse
<1>. QED  BY <1>1 DEF Move, RefuseMove, Unsent

LEMMA GotoKeeps ==
  ASSUME CodesInv, NEW r \in Requests, NEW label, Goto(r, label)
  PROVE  /\ \A q \in Requests \ {r} : req'[q] = req[q]
         /\ req'[r].kind = req[r].kind
         /\ req'[r].email = req[r].email
         /\ req'[r].seen = req[r].seen
         /\ req'[r].row = req[r].row
         /\ req'[r].pc = label
BY DEF CodesInv, TypeOK, RequestRecords, Goto

LEMMA FinishKeeps ==
  ASSUME CodesInv, NEW r \in Requests, Finish(r)
  PROVE  /\ \A q \in Requests \ {r} : req'[q] = req[q]
         /\ req'[r].kind = req[r].kind
         /\ req'[r].email = req[r].email
         /\ req'[r].seen = req[r].seen
         /\ req'[r].row = req[r].row
         /\ req'[r].pc \in Over
BY GotoKeeps DEF Finish, Over

LEMMA WorkMoves ==
  ASSUME CodesInv, NEW r \in Requests, Handle(r) \/ Abort(r)
  PROVE  Move(r)
<1>. USE DEF WorkMove
<1>0. StageOK(req[r])
  BY AtWork
<1>1. CASE Lookup(r)
  <2>1. req[r].pc = "lookup" /\ UNCHANGED tables
    BY <1>1 DEF Lookup
  <2>2. CASE Refuse(r)
    BY <2>1, <2>2, RefuseMoves DEF Over
  <2>3. ASSUME NEW label \in {"createUser", "token", "invalidate", "create", "answered"},
               Goto(r, label), label = "create" => req[r].kind = "forgot",
               label = "answered" => req[r].kind # "reset"
        PROVE  Move(r)
    <3>1. WorkMove(r)
      BY <2>1, <2>3, GotoKeeps DEF tables, Active
    <3>. QED  BY <2>3, <3>1, GotoKeeps DEF Move
  <2>. QED  BY <1>1, <2>2, <2>3 DEF Lookup
<1>2. CASE CreateUser(r)
  <2>1. req[r].pc = "createUser" /\ UNCHANGED <<codes, used, expired, mailed, tokens, revoked>>
    BY <1>2 DEF CreateUser
  <2>2. CASE Refuse(r) /\ UNCHANGED account
    BY <2>1, <2>2, RefuseMoves DEF Over, tables
  <2>3. CASE /\ account' = [account EXCEPT ![req[r].email] =
                  [state |-> "unverified", password |-> r]]
             /\ Goto(r, "invalidate")
    <3>1. \A e \in Emails : account'[e].password \in {account[e].password, r}
      BY <2>3 DEF CodesInv, TypeOK
    <3>2. WorkMove(r)
      BY <2>1, <2>3, <3>1, GotoKeeps DEF Active
    <3>. QED  BY <2>3, <3>2, GotoKeeps DEF Move
  <2>. QED  BY <1>2, <2>2, <2>3 DEF CreateUser
<1>3. CASE InsertToken(r)
  <2>1. /\ req[r].pc = "token" /\ tokens' = tokens \cup {r} /\ Finish(r)
        /\ UNCHANGED <<account, codes, used, revoked>>
    BY <1>3 DEF InsertToken
  <2>2. req[r].kind = "login"
    BY <1>0, <2>1 DEF StageOK
  <2>3. WorkMove(r)
    BY <2>1, <2>2, FinishKeeps DEF Active, Over
  <2>. QED  BY <2>1, <2>3, FinishKeeps DEF Move
<1>4. CASE Invalidate(r)
  <2>1. /\ req[r].pc = "invalidate" /\ Goto(r, "create")
        /\ used' = used \cup CodesOf("email_verification_tokens", req[r].email)
        /\ UNCHANGED <<account, codes, tokens, revoked>>
    BY <1>4 DEF Invalidate, InvalidateActiveForUser
  <2>2. WorkMove(r)
    BY <2>1, GotoKeeps DEF Active
  <2>. QED  BY <2>1, <2>2, GotoKeeps DEF Move
<1>5. CASE Create(r)
  <2>1. /\ req[r].pc = "create" /\ UNCHANGED <<account, used, tokens, revoked>>
        /\ codes' = codes \/ codes' = codes \cup {r}
    BY <1>5 DEF Create
  <2>2. PICK v \in Values, tries \in {req[r].tries + 1}, label \in {"mail", "failed", "create"} :
          \/ req' = [req EXCEPT ![r].value = v, ![r].tries = 0, ![r].pc = "mail"]
          \/ req' = [req EXCEPT ![r].tries = tries, ![r].pc = label]
    <3>1. \/ \E v \in Values :
               req' = [req EXCEPT ![r].value = v, ![r].tries = 0, ![r].pc = "mail"]
          \/ req' = [req EXCEPT ![r].tries = req[r].tries + 1,
               ![r].pc = IF GivesUp(req[r].tries + 1) THEN "failed" ELSE "create"]
      BY <1>5 DEF Create
    <3>2. Values # {}
      BY <1>5 DEF Create
    <3>. QED  BY <3>1, <3>2
  <2>3. /\ \A q \in Requests \ {r} : req'[q] = req[q]
        /\ req'[r].kind = req[r].kind
        /\ req'[r].email = req[r].email
        /\ req'[r].seen = req[r].seen
        /\ req'[r].row = req[r].row
        /\ req'[r].pc \in {"mail", "failed", "create"}
    BY <2>2 DEF CodesInv, TypeOK, RequestRecords
  <2>4. WorkMove(r)
    BY <2>1, <2>3 DEF Active
  <2>. QED  BY <2>3, <2>4 DEF Move
<1>6. CASE Mail(r)
  <2>1. req[r].pc = "mail" /\ Finish(r) /\ UNCHANGED <<account, codes, used, tokens, revoked>>
    BY <1>6 DEF Mail
  <2>2. req[r].kind # "reset"
    BY <1>0, <2>1 DEF StageOK, Active, Presenting, Issuers
  <2>3. WorkMove(r)
    BY <2>1, <2>2, FinishKeeps DEF Active, Over
  <2>. QED  BY <2>1, <2>3, FinishKeeps DEF Move
<1>7. CASE Find(r)
  <2>1. req[r].pc = "find" /\ UNCHANGED tables
    BY <1>7 DEF Find
  <2>2. CASE Refuse(r)
    BY <2>1, <2>2, RefuseMoves DEF Over
  <2>3. ASSUME NEW c, Valid(c),
               req' = [req EXCEPT ![r].row = c, ![r].value = NoValue,
                                  ![r].pc = "markUsed"]
        PROVE  Move(r)
    <3>1. /\ \A q \in Requests \ {r} : req'[q] = req[q]
          /\ req'[r].kind = req[r].kind
          /\ req'[r].email = req[r].email
          /\ req'[r].seen = req[r].seen
          /\ req'[r].row = c
          /\ req'[r].pc = "markUsed"
      BY <2>3 DEF CodesInv, TypeOK, RequestRecords
    <3>2. WorkMove(r)
      BY <2>1, <2>3, <3>1 DEF Active, Valid, tables
    <3>. QED  BY <3>1, <3>2 DEF Move
  <2>. QED  BY <1>7, <2>2, <2>3 DEF Find
<1>8. CASE MarkUsed(r)
  <2>1. /\ req[r].pc = "markUsed" /\ used' = used \cup {req[r].row}
        /\ UNCHANGED <<account, codes, tokens, revoked>>
    BY <1>8 DEF MarkUsed
  <2>2. PICK label \in {"markVerified", "invalidateOthers"} :
          Goto(r, label) /\ (label = "markVerified" => req[r].kind = "verify")
    BY <1>8 DEF MarkUsed
  <2>3. WorkMove(r)
    BY <2>1, <2>2, GotoKeeps DEF Active
  <2>. QED  BY <2>2, <2>3, GotoKeeps DEF Move
<1>9. CASE MarkVerified(r)
  <2>1. /\ req[r].pc = "markVerified" /\ Finish(r)
        /\ account' = [account EXCEPT ![Owner(r)].state = "verified"]
        /\ UNCHANGED <<codes, used, tokens, revoked>>
    BY <1>9 DEF MarkVerified
  <2>2. \A e \in Emails : account'[e].password = account[e].password
    BY <2>1 DEF CodesInv, TypeOK, Accounts
  <2>3. WorkMove(r)
    BY <2>1, <2>2, FinishKeeps DEF Active, Over
  <2>. QED  BY <2>1, <2>3, FinishKeeps DEF Move
<1>10. CASE InvalidateOthers(r)
  <2>1. /\ req[r].pc = "invalidateOthers" /\ Goto(r, "updatePassword")
        /\ used' = used \cup CodesOf("password_reset_tokens", Owner(r))
        /\ UNCHANGED <<account, codes, tokens, revoked>>
    BY <1>10 DEF InvalidateOthers, InvalidateActiveForUser
  <2>2. WorkMove(r)
    BY <2>1, GotoKeeps DEF Active
  <2>. QED  BY <2>1, <2>2, GotoKeeps DEF Move
<1>11. CASE UpdatePassword(r)
  <2>1. /\ req[r].pc = "updatePassword" /\ Goto(r, "revokeAll")
        /\ account' = [account EXCEPT ![Owner(r)].password = r]
        /\ UNCHANGED <<codes, used, tokens, revoked>>
    BY <1>11 DEF UpdatePassword, SetPassword
  <2>2. Owner(r) \in Emails
    BY <2>1, AtWork DEF Presenting
  <2>3. /\ \A e \in Emails : account'[e].password \in {account[e].password, r}
        /\ account'[Owner(r)].password = r
    BY <2>1, <2>2 DEF CodesInv, TypeOK, Accounts
  <2>4. WorkMove(r)
    BY <2>1, <2>3, GotoKeeps DEF Active
  <2>. QED  BY <2>1, <2>4, GotoKeeps DEF Move
<1>12. CASE RevokeAll(r)
  <2>1. /\ req[r].pc = "revokeAll" /\ Finish(r)
        /\ revoked' = revoked \cup TokensOf(Owner(r))
        /\ UNCHANGED <<account, codes, used, tokens>>
    BY <1>12 DEF RevokeAll, RevokeAllForUser
  <2>2. WorkMove(r)
    BY <2>1, FinishKeeps DEF Active, Over
  <2>. QED  BY <2>1, <2>2, FinishKeeps DEF Move
<1>13. CASE Abort(r)
  <2>1. req[r].pc \in Active /\ UNCHANGED tables
    BY <1>13 DEF Abort
  <2>2. CASE Refuse(r) /\ req[r].pc # "mail"
    BY <2>1, <2>2, RefuseMoves DEF Over, Active
  <2>3. CASE Goto(r, "failed") /\ req[r].pc # "markUsed"
    <3>1. WorkMove(r)
      BY <2>1, <2>3, GotoKeeps DEF tables
    <3>. QED  BY <2>3, <3>1, GotoKeeps DEF Move
  <2>4. \/ Refuse(r) /\ req[r].pc # "mail"
        \/ Goto(r, "failed") /\ req[r].pc # "markUsed"
    BY <1>0, <1>13 DEF Abort, StageOK, Presenting, Presenters
  <2>. QED  BY <2>2, <2>3, <2>4
<1>. QED  BY <1>1, <1>2, <1>3, <1>4, <1>5, <1>6, <1>7, <1>8, <1>9, <1>10, <1>11,
             <1>12, <1>13 DEF Handle

-----------------------------------------------------------------------------
\* Whoever moves is not over; what is over keeps its record, what has a row
\* its owner and table, and nothing is taken out of a table.
LEMMA MoveKeeps ==
  ASSUME CodesInv, NEW r \in Requests, Move(r)
  PROVE  /\ req[r].pc \notin Over
         /\ \A q \in Requests \ {r} : req'[q] = req[q]
         /\ \A q \in Requests : req[q].pc \in Over => req'[q] = req[q]
         /\ codes \subseteq codes' /\ codes' \subseteq codes \cup {r}
         /\ tokens \subseteq tokens' /\ tokens' \subseteq tokens \cup {r}
         /\ codes' \subseteq Requests /\ tokens' \subseteq Requests
         /\ used \subseteq used' /\ revoked \subseteq revoked'
         /\ \A c \in codes \cup tokens : /\ req'[c].email = req[c].email
                                         /\ req'[c].kind = req[c].kind
                                         /\ req'[c].seen = req[c].seen
                                         /\ Table(c)' = Table(c)
         /\ \A e \in Emails : account'[e].password \in {account[e].password, r}
<1>1. req[r].pc \notin Over
  BY DEF Move, BeginMove, RefuseMove, WorkMove, Active, Over
<1>2. \A q \in Requests \ {r} : req'[q] = req[q]
  BY DEF Move
<1>3. /\ codes \subseteq codes' /\ codes' \subseteq codes \cup {r}
      /\ tokens \subseteq tokens' /\ tokens' \subseteq tokens \cup {r}
      /\ used \subseteq used' /\ revoked \subseteq revoked'
      /\ \A e \in Emails : account'[e].password \in {account[e].password, r}
  BY DEF Move, BeginMove, RefuseMove, WorkMove, tables
<1>4. codes \subseteq Requests /\ tokens \subseteq Requests
  BY DEF CodesInv, TypeOK
<1>5. ASSUME NEW c \in codes \cup tokens
      PROVE  /\ req'[c].email = req[c].email
             /\ req'[c].kind = req[c].kind
             /\ req'[c].seen = req[c].seen
  <2>1. CASE c # r
    BY <1>2, <1>4, <2>1
  <2>2. CASE c = r
    <3>1. WorkMove(r)
      BY <2>2, ActiveHasNoRow DEF Move, BeginMove, RefuseMove, Over
    <3>. QED  BY <2>2, <3>1 DEF WorkMove
  <2>. QED  BY <2>1, <2>2
<1>6. \A c \in codes \cup tokens : Table(c)' = Table(c)
  BY <1>5 DEF Table
<1>. QED  BY <1>1, <1>2, <1>3, <1>4, <1>5, <1>6

LEMMA SeenMoves ==
  ASSUME InTimeInv, CodesInv', NEW r \in Requests, Move(r)
  PROVE  SeenAreOver'
<1>1. /\ req[r].pc \notin Over
      /\ \A q \in Requests \ {r} : req'[q] = req[q]
      /\ \A q \in Requests : req[q].pc \in Over => req'[q] = req[q]
  BY MoveKeeps DEF InTimeInv
<1>2. \A q \in Requests : req'[q].seen \subseteq Requests
  BY DEF CodesInv, TypeOK, RequestRecords
<1>. SUFFICES ASSUME NEW p \in Requests, NEW q \in req'[p].seen
              PROVE  req'[q].pc \in Over /\ req'[q].email = req'[p].email
  BY DEF SeenAreOver
<1>3. req[q].pc \in Over /\ req[q].email = req'[p].email
  BY <1>1 DEF InTimeInv, SeenAreOver, Move, BeginMove, RefuseMove, WorkMove
<1>. QED  BY <1>1, <1>2, <1>3

LEMMA FoundMoves ==
  ASSUME InTimeInv, NEW r \in Requests, Move(r)
  PROVE  FoundIsUsed' /\ PresenterStages'
<1>1. /\ \A q \in Requests \ {r} : req'[q] = req[q]
      /\ used \subseteq used'
  BY MoveKeeps DEF InTimeInv
<1>2. /\ req'[r].row # NoRequest /\ req'[r].pc # "markUsed" => req'[r].row \in used'
      /\ req'[r].pc = "markVerified" => req'[r].kind = "verify"
  BY <1>1 DEF InTimeInv, FoundIsUsed, PresenterStages, Move, BeginMove, RefuseMove,
              WorkMove
<1>3. req'[r].kind = "reset" /\ req'[r].pc = "answered" => req'[r].row # NoRequest
  <2>. SUFFICES ASSUME req'[r].kind = "reset", req'[r].pc = "answered"
                PROVE  req'[r].row # NoRequest
    OBVIOUS
  <2>1. WorkMove(r) /\ req[r].kind = "reset"
    BY DEF Move, BeginMove, RefuseMove, WorkMove
  <2>2. req[r].pc = "revokeAll" /\ req'[r].row = req[r].row
    BY <2>1 DEF InTimeInv, PresenterStages, WorkMove
  <2>3. req[r].row \in Requests
    BY <2>2, AtWork DEF InTimeInv, StageOK, Presenting
  <2>. QED  BY <2>2, <2>3, CodesAssumption
<1>. QED  BY <1>1, <1>2, <1>3 DEF InTimeInv, FoundIsUsed, PresenterStages

LEMMA WorksOnceMoves ==
  ASSUME InTimeInv, CodesInv', NEW r \in Requests, Move(r)
  PROVE  CodeWorksOnce'
<1>1. /\ req[r].pc \notin Over
      /\ \A q \in Requests \ {r} : req'[q] = req[q]
      /\ \A q \in Requests : req[q].pc \in Over => req'[q] = req[q]
  BY MoveKeeps DEF InTimeInv
<1>. SUFFICES ASSUME NEW q \in Requests, NEW p \in Requests,
                     q \in req'[p].seen, req'[q].pc = "answered",
                     req'[q].row # NoRequest, req'[p].row = req'[q].row
              PROVE  FALSE
  BY DEF CodeWorksOnce
<1>2. CASE p # r
  <2>1. req[q].pc \in Over /\ req'[q] = req[q] /\ req'[p] = req[p]
    BY <1>1, <1>2 DEF InTimeInv, SeenAreOver
  <2>. QED  BY <2>1 DEF InTimeInv, CodeWorksOnce
<1>3. CASE p = r
  <2>1. WorkMove(r) /\ req'[r].seen = req[r].seen
    BY <1>3 DEF Move, BeginMove, RefuseMove, WorkMove
  <2>2. req[q].pc \in Over /\ req'[q] = req[q]
    BY <1>1, <1>3, <2>1 DEF InTimeInv, SeenAreOver
  <2>3. CASE req'[r].row = req[r].row
    BY <1>3, <2>1, <2>2, <2>3 DEF InTimeInv, CodeWorksOnce
  <2>4. CASE req'[r].row \notin used
    BY <1>3, <2>2, <2>4 DEF InTimeInv, FoundIsUsed
  <2>. QED  BY <2>1, <2>3, <2>4 DEF WorkMove
<1>. QED  BY <1>2, <1>3

\* A request that was over before another was sent inserts no row after it.
LEMMA SeenInsertNothing ==
  ASSUME InTimeInv, NEW r \in Requests, Move(r), NEW p \in Requests
  PROVE  /\ codes' \cap req[p].seen \subseteq codes
         /\ tokens' \cap req[p].seen \subseteq tokens
         /\ r \notin req[p].seen
BY MoveKeeps DEF InTimeInv, SeenAreOver

LEMMA EarlierMoves ==
  ASSUME InTimeInv, NEW r \in Requests, Move(r)
  PROVE  EarlierCodesSpent'
<1>1. /\ \A q \in Requests \ {r} : req'[q] = req[q]
      /\ codes' \subseteq codes \cup {r} /\ codes' \subseteq Requests
      /\ used \subseteq used'
      /\ \A c \in codes : Table(c)' = Table(c) /\ req'[c].email = req[c].email
  BY MoveKeeps DEF InTimeInv
<1>. SUFFICES ASSUME NEW p \in Requests,
                     p \in codes' \/ req'[p].pc \in {"create", "mail"},
                     Table(p)' = "email_verification_tokens",
                     NEW q \in codes' \cap req'[p].seen,
                     Table(q)' = "email_verification_tokens"
              PROVE  q \in used'
  BY DEF EarlierCodesSpent
<1>2. CASE p # r
  <2>1. /\ req'[p] = req[p] /\ Table(p)' = Table(p)
        /\ p \in codes' => p \in codes
    BY <1>1, <1>2 DEF Table
  <2>2. q \in codes /\ q \in req[p].seen
    BY <2>1, SeenInsertNothing
  <2>. QED  BY <1>1, <2>1, <2>2 DEF InTimeInv, EarlierCodesSpent
<1>3. CASE p = r
  <2>1. WorkMove(r)
    <3>1. CASE BeginMove(r)
      <4>1. r \notin codes /\ codes' = codes
        BY <3>1, ActiveHasNoRow DEF BeginMove, tables, Over, InTimeInv
      <4>. QED  BY <1>3, <3>1, <4>1 DEF BeginMove
    <3>2. CASE RefuseMove(r)
      BY <1>3, <3>2 DEF RefuseMove
    <3>. QED  BY <3>1, <3>2 DEF Move
  <2>2. /\ req'[r].seen = req[r].seen /\ req'[r].kind = req[r].kind
        /\ Table(r)' = Table(r)
    BY <2>1 DEF WorkMove, Table
  <2>3. q \in codes /\ q \in req[r].seen /\ Table(q) = "email_verification_tokens"
    BY <1>1, <1>3, <2>2, SeenInsertNothing
  <2>4. CASE r \in codes \/ req[r].pc \in {"create", "mail"}
    BY <1>1, <1>3, <2>2, <2>3, <2>4 DEF InTimeInv, EarlierCodesSpent
  <2>5. CASE ~(r \in codes \/ req[r].pc \in {"create", "mail"})
    <3>1. req'[r].pc = "create" /\ req[r].kind # "forgot"
      BY <1>3, <2>1, <2>2, <2>5 DEF WorkMove, Table
    <3>2. CodesOf("email_verification_tokens", req[r].email) \subseteq used'
      BY <2>1, <2>5, <3>1 DEF WorkMove
    <3>3. req[q].email = req[r].email
      BY <2>3 DEF InTimeInv, SeenAreOver
    <3>. QED  BY <2>3, <3>2, <3>3 DEF CodesOf
  <2>. QED  BY <2>4, <2>5
<1>. QED  BY <1>2, <1>3

\* A request at work that presents a code acts for the address it was sent for.
LEMMA OwnerIsSender ==
  ASSUME InTimeInv, NEW r \in Requests, req[r].pc \in Presenting \ {"find"}
  PROVE  Owner(r) = req[r].email /\ req[r].email \in Emails
BY AtWork DEF InTimeInv, Presenting, Active

LEMMA ResetMoves ==
  ASSUME InTimeInv, NEW r \in Requests, Move(r)
  PROVE  ResetProgress'
<1>1. /\ \A q \in Requests \ {r} : req'[q] = req[q]
      /\ used \subseteq used' /\ revoked \subseteq revoked'
      /\ \A c \in codes \cup tokens : Table(c)' = Table(c) /\ req'[c].email = req[c].email
      /\ \A e \in Emails : account'[e].password \in {account[e].password, r}
  BY MoveKeeps DEF InTimeInv
<1>. SUFFICES ASSUME NEW p \in Requests, req'[p].kind = "reset", NEW e, e = req'[p].email
     PROVE
       /\ req'[p].pc \in {"updatePassword", "revokeAll", "answered"} =>
            CodesOf("password_reset_tokens", e)' \cap req'[p].seen \subseteq used'
       /\ req'[p].pc \in {"revokeAll", "answered"} =>
            account'[e].password \notin req'[p].seen \cup {NoRequest}
       /\ req'[p].pc = "answered" =>
            TokensOf(e)' \cap req'[p].seen \subseteq revoked'
  BY DEF ResetProgress, CodesOf, TokensOf
<1>2. /\ CodesOf("password_reset_tokens", e)' \cap req[p].seen
           \subseteq CodesOf("password_reset_tokens", e) \cap req[p].seen
      /\ TokensOf(e)' \cap req[p].seen \subseteq TokensOf(e) \cap req[p].seen
      /\ r \notin req[p].seen
  BY <1>1, SeenInsertNothing DEF CodesOf, TokensOf
<1>3. CASE p # r
  <2>1. req'[p] = req[p]
    BY <1>1, <1>3
  <2>2. req[p].pc \in {"revokeAll", "answered"} => req[p].email \in Emails
    BY AtWork DEF InTimeInv, CodesInv, Stages, StageOK
  <2>. QED  BY <1>1, <1>2, <2>1, <2>2, CodesAssumption DEF InTimeInv, ResetProgress
<1>4. CASE p = r
  <2>1. CASE ~WorkMove(r)
    BY <1>4, <2>1 DEF Move, BeginMove, RefuseMove
  <2>2. CASE WorkMove(r)
    <3>1. /\ req'[r].seen = req[r].seen /\ e = req[r].email
          /\ req[r].kind = "reset"
      BY <1>4, <2>2 DEF WorkMove
    <3>2. req'[r].pc = "updatePassword" =>
            /\ req[r].pc = "invalidateOthers" /\ Owner(r) = e
            /\ CodesOf("password_reset_tokens", e) \subseteq used'
      BY <2>2, <3>1, OwnerIsSender DEF WorkMove, Presenting
    <3>3. req'[r].pc = "revokeAll" =>
            /\ req[r].pc = "updatePassword" /\ Owner(r) = e
            /\ account'[e].password = r
      BY <2>2, <3>1, OwnerIsSender DEF WorkMove, Presenting
    <3>4. req'[r].pc = "answered" =>
            /\ req[r].pc = "revokeAll" /\ Owner(r) = e /\ e \in Emails
            /\ TokensOf(e) \subseteq revoked'
      BY <2>2, <3>1, OwnerIsSender DEF WorkMove, Presenting, InTimeInv, PresenterStages
    <3>5. req'[r].pc \in {"updatePassword", "revokeAll", "answered"} =>
            CodesOf("password_reset_tokens", e)' \cap req'[r].seen \subseteq used'
      BY <1>1, <1>2, <1>4, <3>1, <3>2, <3>3, <3>4 DEF InTimeInv, ResetProgress
    <3>6. req'[r].pc \in {"revokeAll", "answered"} =>
            account'[e].password \notin req'[r].seen \cup {NoRequest}
      BY <1>1, <1>2, <1>4, <3>1, <3>3, <3>4, CodesAssumption DEF InTimeInv, ResetProgress
    <3>. QED  BY <1>2, <1>4, <3>1, <3>4, <3>5, <3>6
  <2>. QED  BY <2>1, <2>2
<1>. QED  BY <1>3, <1>4

LEMMA InTimeStep == InTimeInv /\ [Next]_vars => InTimeInv'
<1>. SUFFICES ASSUME InTimeInv, [Next]_vars PROVE InTimeInv'
  OBVIOUS
<1>1. CodesInv /\ CodesInv'
  BY NextCodes DEF InTimeInv
<1>2. CASE UNCHANGED <<req, account, codes, used, tokens, revoked>>
  <2>1. \A r : Table(r)' = Table(r)
    BY <1>2 DEF Table
  <2>. QED  BY <1>1, <1>2, <2>1
            DEF InTimeInv, SeenAreOver, FoundIsUsed, PresenterStages, EarlierCodesSpent,
                ResetProgress, CodeWorksOnce, CodesOf, TokensOf
<1>3. ASSUME NEW r \in Requests, Move(r) PROVE InTimeInv'
  <2>1. SeenAreOver' /\ FoundIsUsed' /\ PresenterStages'
    BY <1>1, <1>3, SeenMoves, FoundMoves
  <2>2. CodeWorksOnce' /\ EarlierCodesSpent' /\ ResetProgress'
    BY <1>1, <1>3, WorksOnceMoves, EarlierMoves, ResetMoves
  <2>. QED  BY <1>1, <2>1, <2>2 DEF InTimeInv
<1>4. \/ \E r \in Requests : Move(r)
      \/ UNCHANGED <<req, account, codes, used, tokens, revoked>>
  BY <1>1, BeginMoves, WorkMoves DEF Next, Terminating, Expire, vars, tables
<1>. QED  BY <1>2, <1>3, <1>4

LEMMA InTimeInvariant == Spec => []InTimeInv
BY InitInTime, InTimeStep, PTL DEF Spec

-----------------------------------------------------------------------------
\* A code that an answered request used is refused to every request sent after
\* the answer, for any number of requests and however they overlap: the row is
\* marked before anything else is written, and stays marked.
THEOREM CodesWorkOnce == Spec => []CodeWorksOnce
BY InTimeInvariant, PTL DEF InTimeInv

\* Of two verification codes of a user, the earlier is used up when the later
\* has its row, whatever other requests do between them.
THEOREM NewerReplaces == Spec => []NewerCodeReplacesOlder
<1>1. InTimeInv => NewerCodeReplacesOlder
  BY DEF InTimeInv, CodesInv, TypeOK, EarlierCodesSpent, NewerCodeReplacesOlder
<1>. QED  BY <1>1, InTimeInvariant, PTL

\* The row a reset found is its sender's, at every label the properties name.
LEMMA ResetOwner ==
  ASSUME InTimeInv, NEW r \in Requests, req[r].kind = "reset",
         req[r].pc \in {"updatePassword", "revokeAll", "answered"}
  PROVE  Owner(r) = req[r].email
<1>1. CASE req[r].pc = "answered"
  BY <1>1 DEF InTimeInv, PresenterStages, CodesInv, RowsAreOwn
<1>2. CASE req[r].pc \in {"updatePassword", "revokeAll"}
  BY <1>2, OwnerIsSender DEF Presenting
<1>. QED  BY <1>1, <1>2

\* Once a reset has reached the password, no reset code that its user was sent
\* before is left unused.
THEOREM ResetsSpendCodes == Spec => []ResetSpendsEarlierCodes
<1>1. InTimeInv => ResetSpendsEarlierCodes
  BY ResetOwner DEF InTimeInv, ResetProgress, ResetSpendsEarlierCodes
<1>. QED  BY <1>1, InTimeInvariant, PTL

\* A reset that was answered has revoked every session that was open when it
\* was sent, and none of them comes back.
THEOREM ResetsEndSessions == Spec => []ResetEndsEarlierSessions
<1>1. InTimeInv => ResetEndsEarlierSessions
  BY ResetOwner DEF InTimeInv, ResetProgress, ResetEndsEarlierSessions
<1>. QED  BY <1>1, InTimeInvariant, PTL

\* After an answered reset the password is never again one that was set by a
\* request that was over when the reset was sent.
THEOREM ResetsTakeEffect == Spec => []AnsweredResetTookEffect
<1>1. InTimeInv => AnsweredResetTookEffect
  BY ResetOwner DEF InTimeInv, ResetProgress, AnsweredResetTookEffect
<1>. QED  BY <1>1, InTimeInvariant, PTL
=============================================================================
