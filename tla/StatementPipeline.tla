-------------------------- MODULE StatementPipeline --------------------------
(***************************************************************************)
(* From an uploaded PDF to its transactions: StatementsService.upload, the *)
(* StatementsProcessor that BullMQ workers run, and the tables, the object *)
(* store and the queue they share.  Each action is the code between two    *)
(* awaits, so requests and workers interleave at every external call.      *)
(*                                                                         *)
(* The statement row, the stored object and the job that upload request r  *)
(* creates are all named r.  A file stands for its bytes: the content hash *)
(* tells any two apart.                                                    *)
(***************************************************************************)
EXTENDS JobQueue

CONSTANTS
  Users, Files,
  NoText,        \* the files that are PDFs without extractable text
  NoStatement,   \* "no row": the job of an idle worker, an answer not given
  Faults         \* what may go wrong in this instance

FaultKinds == {"crash",     \* a process stops between two awaits
               "lockloss",  \* a worker keeps running but loses its job lock
               "db",        \* a PostgreSQL call fails, committed or not
               "storage",   \* an object store call fails, applied or not
               "redis",     \* a queue call of this process fails
               "gemini"}    \* the extraction fails or its result is invalid

ASSUME PipelineAssumption ==
  /\ NoStatement \notin Statements
  /\ NoText \subseteq Files
  /\ Faults \subseteq FaultKinds

VARIABLES
  upload,    \* what each request uploads; fixed by Init
  pc,        \* how far each request is
  answer,    \* the statement each request was answered with
  status,    \* upload_statements.status, "absent" when there is no row
  reason,    \* upload_statements.failureReason
  objects,   \* the stored objects
  batches,   \* transactions: the runs of each job whose createMany committed
  workers,   \* what each BullMQ worker is doing
  notices    \* 'failed' handlers that still have to write their outcome

requests == <<upload, pc, answer>>
rows     == <<status, reason>>
vars     == <<jobs, requests, rows, objects, batches, workers, notices>>

-----------------------------------------------------------------------------
(* Errors, told apart by what the code does with them. *)

\* Thrown by process(), by the awaited call or check that throws them.
Thrown == {"db", "storage", "notFound", "noText",
           "rate",           \* a transient Gemini error
           "quota",          \* a Gemini error that mentions 'per day'
           "invalid",        \* INVALID_GEMINI_TRANSACTION: <the errors as JSON>
           "invalidPerDay"}  \* the same, the quoted description having 'per day'
Errors == Thrown \cup {"stalled"}   \* BullMQ's own, for a doomed job

ExtractErrors == {"rate", "quota", "invalid", "invalidPerDay"}

\* Slip: every Gemini error fails fast.
AnyGeminiError == ExtractErrors

\* error.message.includes('per day')
MentionsPerDay == {"quota", "invalidPerDay"}

\* Instances of UnrecoverableError, as the queue and the handler see them.
Unrecoverable(err) == err \in MentionsPerDay \cup {"stalled"}

Statuses == {"absent", "pending", "processing", "parsed", "failed"}

RequestPcs == {"received", "storing", "creating", "enqueueing",
               "answered", "rejected", "conflict", "aborted"}
Finished   == {"answered", "rejected", "conflict", "aborted"}

WorkerPcs == {"idle", "begin", "load", "extract", "insert", "mark",
              "ack", "nack"}

Idle == [pc |-> "idle", job |-> NoStatement, run |-> 0, err |-> "none"]

Uploads == [user : Users, file : Files, mimetype : {"pdf", "other"}]

WorkerRecords == [pc  : WorkerPcs,
                  job : Statements \cup {NoStatement},
                  run : RunNumbers,
                  err : Errors \cup {"none"}]

NoticeRecords == [worker : Workers, job : Statements, err : Errors]

TypeOK ==
  /\ QueueTypeOK
  /\ upload \in [Statements -> Uploads]
  /\ pc \in [Statements -> RequestPcs]
  /\ answer \in [Statements -> Statements \cup {NoStatement}]
  /\ status \in [Statements -> Statuses]
  /\ reason \in [Statements -> Errors \cup {"none"}]
  /\ objects \subseteq Statements
  /\ batches \in [Statements -> SUBSET RunNumbers]
  /\ workers \in [Workers -> WorkerRecords]
  /\ notices \subseteq NoticeRecords

Init ==
  /\ QueueInit
  /\ upload \in [Statements -> Uploads]
  /\ pc = [r \in Statements |-> "received"]
  /\ answer = [r \in Statements |-> NoStatement]
  /\ status = [s \in Statements |-> "absent"]
  /\ reason = [s \in Statements |-> "none"]
  /\ objects = {}
  /\ batches = [s \in Statements |-> {}]
  /\ workers = [w \in Workers |-> Idle]
  /\ notices = {}

-----------------------------------------------------------------------------
(* The upload handler. *)

Exists(s) == status[s] # "absent"

\* Slip: the lookup and the index forget the user.
SameBytes(r, s) == upload[r].file = upload[s].file

\* The key of upload_statements' unique index on (userId, contentHash).
SameKey(r, s) == /\ upload[r].user = upload[s].user
                 /\ upload[r].file = upload[s].file

Matches(r) == {s \in Statements : Exists(s) /\ SameKey(r, s)}

Goto(r, label) == pc' = [pc EXCEPT ![r] = label]

Reject(r) ==
  /\ pc[r] = "received"
  /\ upload[r].mimetype # "pdf"
  /\ Goto(r, "rejected")
  /\ UNCHANGED <<jobs, upload, answer, rows, objects, batches, workers, notices>>

Lookup(r) ==
  /\ pc[r] = "received"
  /\ upload[r].mimetype = "pdf"
  /\ \/ /\ Matches(r) = {}
        /\ Goto(r, "storing")
        /\ UNCHANGED answer
     \/ \E s \in Matches(r) :
          /\ Goto(r, "answered")
          /\ answer' = [answer EXCEPT ![r] = s]
  /\ UNCHANGED <<jobs, upload, rows, objects, batches, workers, notices>>

\* Slip: the object is not stored before the row is created.
PutNothing(r) == UNCHANGED objects

PutObject(r) == objects' = objects \cup {r}

Store(r) ==
  /\ pc[r] = "storing"
  /\ PutObject(r)
  /\ Goto(r, "creating")
  /\ UNCHANGED <<jobs, upload, answer, rows, batches, workers, notices>>

\* Slip: the unique index is dropped.
AlwaysInsertRow(r) == pc[r] = "creating"

\* create() fails when the unique index already has the key.
CanInsertRow(r) == Matches(r) = {}

InsertRow(r) == status' = [status EXCEPT ![r] = "pending"]

Create(r) ==
  /\ pc[r] = "creating"
  /\ \/ /\ CanInsertRow(r)
        /\ InsertRow(r)
        /\ Goto(r, "enqueueing")
     \/ /\ ~CanInsertRow(r)
        /\ Goto(r, "conflict")
        /\ UNCHANGED status
  /\ UNCHANGED <<jobs, upload, answer, reason, objects, batches, workers, notices>>

Enqueue(r) ==
  /\ pc[r] = "enqueueing"
  /\ AddJob(r)
  /\ Goto(r, "answered")
  /\ answer' = [answer EXCEPT ![r] = r]
  /\ UNCHANGED <<upload, rows, objects, batches, workers, notices>>

\* The call the handler awaits fails, or its process stops there; the call
\* may have taken effect all the same.  The client gets a 500 or no answer.
Abort(r) ==
  /\ \/ /\ pc[r] = "received"
        /\ {"db", "crash"} \cap Faults # {}
        /\ UNCHANGED <<jobs, status, objects>>
     \/ /\ pc[r] = "storing"
        /\ {"storage", "crash"} \cap Faults # {}
        /\ PutObject(r) \/ UNCHANGED objects
        /\ UNCHANGED <<jobs, status>>
     \/ /\ pc[r] = "creating"
        /\ {"db", "crash"} \cap Faults # {}
        /\ (CanInsertRow(r) /\ InsertRow(r)) \/ UNCHANGED status
        /\ UNCHANGED <<jobs, objects>>
     \/ /\ pc[r] = "enqueueing"
        /\ {"redis", "crash"} \cap Faults # {}
        /\ AddJob(r) \/ UNCHANGED jobs
        /\ UNCHANGED <<status, objects>>
  /\ Goto(r, "aborted")
  /\ UNCHANGED <<upload, answer, reason, batches, workers, notices>>

UploadStep(r) == Reject(r) \/ Lookup(r) \/ Store(r) \/ Create(r) \/ Enqueue(r)

-----------------------------------------------------------------------------
(* The worker: process(job), between taking the job and answering the queue. *)

Job(w) == workers[w].job

At(w, label) == workers[w].pc = label

Advance(w, label) == workers' = [workers EXCEPT ![w].pc = label]

\* Slip: the catch block logs the error and lets process() return.
SwallowError(w, err) ==
  workers' = [workers EXCEPT ![w].pc = "ack", ![w].err = err]

\* process() throws err; BullMQ's next call is moveToFailed.
Throw(w, err) ==
  workers' = [workers EXCEPT ![w].pc = "nack", ![w].err = err]

Rest(w) == workers' = [workers EXCEPT ![w] = Idle]

\* updateStatus writes the status and, without a reason, clears the reason.
SetStatus(s, new, why) ==
  /\ status' = [status EXCEPT ![s] = new]
  /\ reason' = [reason EXCEPT ![s] = why]

Take(w, s) ==
  /\ At(w, "idle")
  /\ TakeJob(w, s)
  /\ workers' = [workers EXCEPT ![w] =
       IF Doomed(s)
       THEN [pc |-> "nack", job |-> s, run |-> 0, err |-> "stalled"]
       ELSE [pc |-> "begin", job |-> s, run |-> RunNumber(s), err |-> "none"]]
  /\ UNCHANGED <<requests, rows, objects, batches, notices>>

\* await updateStatus(statementId, 'processing')
Begin(w) ==
  /\ At(w, "begin")
  /\ \/ /\ Exists(Job(w))
        /\ SetStatus(Job(w), "processing", "none")
        /\ Advance(w, "load") \/ ("db" \in Faults /\ Throw(w, "db"))
     \/ /\ "db" \in Faults \/ ~Exists(Job(w))
        /\ Throw(w, "db")
        /\ UNCHANGED rows
  /\ UNCHANGED <<jobs, requests, objects, batches, notices>>

\* What findById, download and getText come to: the name of the error, or
\* "none".  They read what no step changes.
LoadError(s) ==
  IF ~Exists(s) THEN "notFound"
  ELSE IF s \notin objects THEN "storage"
  ELSE IF upload[s].file \in NoText THEN "noText"
  ELSE "none"

Load(w) ==
  /\ At(w, "load")
  /\ \/ LoadError(Job(w)) = "none" /\ Advance(w, "extract")
     \/ LoadError(Job(w)) # "none" /\ Throw(w, LoadError(Job(w)))
     \/ \E err \in {"db", "storage"} \cap Faults : Throw(w, err)
  /\ UNCHANGED <<jobs, requests, rows, objects, batches, notices>>

\* Slip: items are inserted as they are validated, so one that is invalid
\* comes too late.
InsertWhileValidating(w) ==
  /\ At(w, "extract")
  /\ batches' = [batches EXCEPT ![Job(w)] = @ \cup {workers[w].run}]
  /\ Advance(w, "mark") \/ \E err \in ExtractErrors : Throw(w, err)
  /\ UNCHANGED <<jobs, requests, rows, objects, notices>>

\* extractTransactions, the validation of every item and the mapping to rows.
Extract(w) ==
  /\ At(w, "extract")
  /\ \/ Advance(w, "insert")
     \/ "gemini" \in Faults /\ \E err \in ExtractErrors : Throw(w, err)
  /\ UNCHANGED <<jobs, requests, rows, objects, batches, notices>>

\* Slip: createMany is not awaited, and the process stops before it runs.
InsertLater(w) == UNCHANGED batches

InsertBatch(w) ==
  batches' = [batches EXCEPT ![Job(w)] = @ \cup {workers[w].run}]

\* createMany: one INSERT, so all the rows of the batch or none.
Insert(w) ==
  /\ At(w, "insert")
  /\ \/ InsertBatch(w) /\ Advance(w, "mark")
     \/ /\ "db" \in Faults
        /\ Throw(w, "db")
        /\ InsertBatch(w) \/ UNCHANGED batches
  /\ UNCHANGED <<jobs, requests, rows, objects, notices>>

\* await updateStatus(statementId, 'parsed')
Mark(w) ==
  /\ At(w, "mark")
  /\ \/ /\ SetStatus(Job(w), "parsed", "none")
        /\ Advance(w, "ack") \/ ("db" \in Faults /\ Throw(w, "db"))
     \/ /\ "db" \in Faults
        /\ Throw(w, "db")
        /\ UNCHANGED rows
  /\ UNCHANGED <<jobs, requests, objects, batches, notices>>

\* process() returned: moveToCompleted.
Ack(w) ==
  /\ At(w, "ack")
  /\ CompleteJob(w, Job(w))
  /\ Rest(w)
  /\ UNCHANGED <<requests, rows, objects, batches, notices>>

\* Slip: the test runs as if the event came before attemptsMade was counted.
IsNextToLast(err, attemptsMade) ==
  Unrecoverable(err) \/ attemptsMade + 1 >= Attempts

\* Slip: > for >=.
IsBeyondLast(err, attemptsMade) ==
  Unrecoverable(err) \/ attemptsMade > Attempts

\* onFailed's test, of the job as the queue left it: attemptsMade already
\* counts the attempt that failed.
IsPermanent(err, attemptsMade) ==
  Unrecoverable(err) \/ attemptsMade >= Attempts

\* Slip: error.message is not passed on.
NoticeWithoutReason(w) == [worker |-> w, job |-> Job(w), err |-> "none"]

Notice(w) == [worker |-> w, job |-> Job(w), err |-> workers[w].err]

\* process() threw: moveToFailed, then the 'failed' event.  onFailed runs
\* unawaited; all that is left of it is its write, when it is permanent.
\* A worker that lost its lock gets an error from the queue and no event.
Nack(w) ==
  /\ At(w, "nack")
  /\ FailJob(w, Job(w), Unrecoverable(workers[w].err))
  /\ notices' =
       IF /\ Holds(w, Job(w))
          /\ IsPermanent(workers[w].err, jobs'[Job(w)].attemptsMade)
       THEN notices \cup {Notice(w)} ELSE notices
  /\ Rest(w)
  /\ UNCHANGED <<requests, rows, objects, batches>>

\* await updateStatus(statementId, 'failed', error.message)
OnFailed(n) ==
  /\ n \in notices
  /\ notices' = notices \ {n}
  /\ \/ SetStatus(n.job, "failed", n.err)
     \/ "db" \in Faults /\ UNCHANGED rows
  /\ UNCHANGED <<jobs, requests, objects, batches, workers>>

-----------------------------------------------------------------------------
(* The faults of a worker, and the queue's stalled check. *)

\* The answer never reaches the queue: the job stays active, and stalls.
LoseAnswer(w) ==
  /\ "redis" \in Faults
  /\ At(w, "ack") \/ At(w, "nack")
  /\ Rest(w)
  /\ UNCHANGED <<jobs, requests, rows, objects, batches, notices>>

\* The process stops: its worker's run and its handlers are gone.
Crash(w) ==
  /\ "crash" \in Faults
  /\ ~At(w, "idle") \/ \E n \in notices : n.worker = w
  /\ Rest(w)
  /\ notices' = {n \in notices : n.worker # w}
  /\ UNCHANGED <<jobs, requests, rows, objects, batches>>

\* Nothing renews the lock of a job whose holder is not running it; under
\* "lockloss" the lock of a job that is running can run out too.  A doomed
\* job is failed at once, so its lock does not run out while it is held.
Running(s) == \E w \in Workers : Holds(w, s) /\ Job(w) = s

Stall(s) ==
  /\ StallJob(s)
  /\ ~Running(s) \/ ("lockloss" \in Faults /\ ~Doomed(s))
  /\ UNCHANGED <<requests, rows, objects, batches, workers, notices>>

WorkerStep(w) ==
  Begin(w) \/ Load(w) \/ Extract(w) \/ Insert(w) \/ Mark(w) \/ Ack(w) \/ Nack(w)

-----------------------------------------------------------------------------
\* Nothing is left to do.
Quiet ==
  /\ \A r \in Statements : pc[r] \in Finished
  /\ \A s \in Statements : jobs[s].state \notin {"wait", "active"}
  /\ \A w \in Workers : At(w, "idle")
  /\ notices = {}

Terminating == Quiet /\ UNCHANGED vars

Next ==
  \/ \E r \in Statements : UploadStep(r) \/ Abort(r)
  \/ \E w \in Workers, s \in Statements : Take(w, s)
  \/ \E w \in Workers : WorkerStep(w) \/ LoseAnswer(w) \/ Crash(w)
  \/ \E n \in notices : OnFailed(n)
  \/ \E s \in Statements : Stall(s)
  \/ Terminating

Spec == Init /\ [][Next]_vars

\* Node's event loop and PostgreSQL answer every call, BullMQ's workers poll
\* the queue and its stalled check runs every 30 seconds.  The fault actions
\* and the failing branches are never owed; a failing branch of a step counts
\* as that step.
Fairness ==
  /\ \A r \in Statements : WF_vars(UploadStep(r))
  /\ \A w \in Workers : WF_vars(WorkerStep(w))
  /\ \A s \in Statements : WF_vars(\E w \in Workers : Take(w, s))
  /\ \A s \in Statements : WF_vars(~Running(s) /\ Stall(s))
  /\ WF_vars(\E n \in notices : OnFailed(n))

FairSpec == Spec /\ Fairness

-----------------------------------------------------------------------------
(* Properties that hold whatever goes wrong. *)

\* However uploads race, two uploads of one user's file never both get a row
\* or a job: the lookup, which they can all pass, is backed by the unique
\* index, and a job follows only from a row (README: no duplicate processing).
OneStatementPerFile ==
  \A r, s \in Statements :
    /\ upload[r].user = upload[s].user /\ upload[r].file = upload[s].file
    /\ Exists(r) \/ jobs[r].state # "absent"
    /\ Exists(s) \/ jobs[s].state # "absent"
    => r = s

\* A job is only queued for a statement that has its row and its object, so a
\* worker that loads it can only meet a failing call, never a missing piece.
QueuedIsReady ==
  \A s \in Statements :
    jobs[s].state # "absent" => Exists(s) /\ s \in objects

\* A request is answered with a row that is there, of the same user and bytes.
AnsweredWithOwnStatement ==
  \A r \in Statements : pc[r] = "answered" =>
    /\ answer[r] # NoStatement
    /\ Exists(answer[r])
    /\ upload[answer[r]].user = upload[r].user
    /\ upload[answer[r]].file = upload[r].file

\* A statement shown as parsed has had a batch of transactions committed, also
\* when a worker that lost its lock wrote the status.
ParsedHasBatch ==
  \A s \in Statements : status[s] = "parsed" => batches[s] # {}

\* A statement is shown as failed only when the queue has given its job up:
\* onFailed and the queue agree on which attempt was the last.
FailedIsFinal ==
  \A s \in Statements : status[s] = "failed" => jobs[s].state = "failed"

-----------------------------------------------------------------------------
(* Properties of workers that keep their locks ("lockloss" \notin Faults). *)

\* A completed job leaves its statement parsed, with its transactions there.
CompletedIsParsed ==
  \A s \in Statements :
    jobs[s].state = "completed" => status[s] = "parsed" /\ batches[s] # {}

\* A statement the user sees as failed, or whose job is completed, is never
\* touched again: no late write, no late batch.
SettledIsFinal ==
  [][\A s \in Statements :
       status[s] = "failed" \/ jobs[s].state = "completed" =>
         status'[s] = status[s] /\ batches'[s] = batches[s]]_vars

\* A failure the queue may retry is reported only after every attempt.
RetriedToTheEnd ==
  \A s \in Statements :
    status[s] = "failed" /\ reason[s] \notin {"quota", "invalidPerDay", "stalled"} =>
      jobs[s].attemptsMade = Attempts

-----------------------------------------------------------------------------
(* Properties that need a database and a queue that do not fail. *)

\* A statement's transactions are committed at most once, and a statement
\* shown as failed has none.
NoDuplicateTransactions ==
  \A s \in Statements :
    /\ \A m, n \in batches[s] : m = n
    /\ status[s] = "failed" => batches[s] = {}

\* The statement of every queued job ends up parsed or failed, and stays so.
QueuedSettles ==
  \A s \in Statements :
    jobs[s].state = "wait" ~> [](status[s] \in {"parsed", "failed"})

\* Every statement the user is shown is picked up and processed: "A background
\* worker (BullMQ) picks it up" (README).
ListedSettles ==
  \A s \in Statements :
    status[s] = "pending" ~> status[s] \in {"parsed", "failed"}
=============================================================================
