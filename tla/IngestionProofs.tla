--------------------------- MODULE IngestionProofs ---------------------------
(***************************************************************************)
(* StatementPipeline implements Ingestion when its workers keep their      *)
(* locks, for every set of statements, workers, users and files and every  *)
(* other fault; and what follows for statements that have settled.         *)
(***************************************************************************)
EXTENDS IngestionRefinement, StatementPipelineProofs

KeepsLocks == "lockloss" \notin Faults

Busy(w) == ~At(w, "idle")

-----------------------------------------------------------------------------
(* A failure is told with its reason; locks do not matter here. *)

FastErrors == {"quota", "invalidPerDay", "stalled"}

\* A handler that still owes its write was told of an error that ends the
\* retries, or of the last attempt.
NoticesTell ==
  \A n \in notices :
    n.err \in FastErrors \/ jobs[n.job].attemptsMade = Attempts

ReasonInv == NoticesTell /\ RetriedToTheEnd

\* A job that the queue has given up is left alone.
LEMMA GivenUpJobs ==
  ASSUME TypeInv, [Next]_vars, NEW s \in Statements,
         jobs[s].state \in {"failed", "completed"}
  PROVE  jobs'[s] = jobs[s]
<1>. USE DEF TypeInv, TypeOK, QueueTypeOK, JobRecords
<1>1. ASSUME NEW t \in Statements, AddJob(t) PROVE jobs'[s] = jobs[s]
  BY <1>1 DEF AddJob
<1>2. ASSUME NEW w \in Workers, NEW t \in Statements, TakeJob(w, t)
      PROVE  jobs'[s] = jobs[s]
  BY <1>2 DEF TakeJob
<1>3. ASSUME NEW w \in Workers, Ack(w) \/ Nack(w) PROVE jobs'[s] = jobs[s]
  <2>1. Job(w) \in Statements
    BY <1>3 DEF Ack, Nack, WorkersBusy, At
  <2>2. \/ UNCHANGED jobs
        \/ /\ jobs[Job(w)].state = "active"
           /\ \E state \in {"completed", "failed", "wait"} : Finish(Job(w), state)
    BY <1>3 DEF Ack, Nack, CompleteJob, FailJob, Holds
  <2>. QED  BY <2>1, <2>2 DEF Finish
<1>4. ASSUME NEW t \in Statements, StallJob(t) PROVE jobs'[s] = jobs[s]
  BY <1>4 DEF StallJob
<1>5. \/ UNCHANGED jobs
      \/ \E t \in Statements : AddJob(t)
      \/ \E w \in Workers, t \in Statements : TakeJob(w, t)
      \/ \E w \in Workers : Ack(w) \/ Nack(w)
      \/ \E t \in Statements : StallJob(t)
  BY DEF Next, UploadStep, Abort, Reject, Lookup, Store, Create, Enqueue, Take,
         WorkerStep, Begin, Load, Extract, Insert, Mark, LoseAnswer, Crash,
         OnFailed, Stall, Terminating, vars
<1>. QED  BY <1>1, <1>2, <1>3, <1>4, <1>5

\* Only onFailed writes 'failed'.
LEMMA FailedByHandler ==
  ASSUME TypeInv, [Next]_vars, NEW s \in Statements, status'[s] = "failed"
  PROVE  \/ status[s] = "failed" /\ reason'[s] = reason[s]
         \/ \E n \in notices : n.job = s /\ reason'[s] = n.err
<1>. USE DEF TypeInv, TypeOK
<1>1. CASE UNCHANGED rows
  BY <1>1 DEF rows
<1>2. ASSUME NEW r \in Statements, UploadStep(r) \/ Abort(r)
      PROVE  status[s] = "failed" /\ reason'[s] = reason[s]
  BY <1>2 DEF UploadStep, Abort, Reject, Lookup, Store, Create, Enqueue, rows,
              InsertRow
<1>3. ASSUME NEW w \in Workers, Begin(w) \/ Mark(w)
      PROVE  status[s] = "failed" /\ reason'[s] = reason[s]
  BY <1>3 DEF Begin, Mark, SetStatus, rows
<1>4. ASSUME NEW n \in notices, OnFailed(n)
      PROVE  \/ status[s] = "failed" /\ reason'[s] = reason[s]
             \/ n.job = s /\ reason'[s] = n.err
  BY <1>4 DEF OnFailed, SetStatus, rows
<1>5. \/ UNCHANGED rows
      \/ \E r \in Statements : UploadStep(r) \/ Abort(r)
      \/ \E w \in Workers : Begin(w) \/ Mark(w)
      \/ \E n \in notices : OnFailed(n)
  BY DEF Next, Take, WorkerStep, Load, Extract, Insert, Ack, Nack, LoseAnswer,
         Crash, Stall, Terminating, vars
<1>. QED  BY <1>1, <1>2, <1>3, <1>4, <1>5

LEMMA NewNotices ==
  ASSUME TypeInv, [Next]_vars, NEW n \in notices', n \notin notices
  PROVE  n.err \in FastErrors \/ jobs'[n.job].attemptsMade = Attempts
<1>. USE DEF TypeInv, TypeOK
<1>1. PICK w \in Workers :
        /\ Nack(w)
        /\ IsPermanent(workers[w].err, jobs'[Job(w)].attemptsMade)
        /\ n = Notice(w)
  BY DEF Next, UploadStep, Abort, Reject, Lookup, Store, Create, Enqueue, Take,
         WorkerStep, Begin, Load, Extract, Insert, Mark, Ack, Nack, LoseAnswer,
         Crash, OnFailed, Stall, Terminating, vars
<1>2. n.job = Job(w) /\ n.err = workers[w].err
  BY <1>1 DEF Notice
<1>3. Job(w) \in Statements
  BY <1>1 DEF Nack, WorkersBusy, At
<1>4. jobs'[Job(w)].attemptsMade \in 0..Attempts
  BY <1>3, TypeStep DEF QueueTypeOK, JobRecords
<1>5. CASE Unrecoverable(workers[w].err)
  BY <1>2, <1>5 DEF Unrecoverable, MentionsPerDay, FastErrors
<1>6. CASE jobs'[Job(w)].attemptsMade >= Attempts
  BY <1>2, <1>4, <1>6, QueueAssumption
<1>. QED  BY <1>1, <1>5, <1>6 DEF IsPermanent

LEMMA ReasonStep ==
  TypeInv /\ TablesInv /\ ReasonInv /\ [Next]_vars => ReasonInv'
<1>. SUFFICES ASSUME TypeInv, TablesInv, ReasonInv, [Next]_vars PROVE ReasonInv'
  OBVIOUS
<1>. USE DEF ReasonInv
<1>1. NoticesTell'
  <2>. SUFFICES ASSUME NEW n \in notices'
                PROVE  n.err \in FastErrors \/ jobs'[n.job].attemptsMade = Attempts
    BY DEF NoticesTell
  <2>1. CASE n \in notices
    <3>1. n.job \in Statements /\ jobs[n.job].state = "failed"
      BY <2>1 DEF TypeInv, TypeOK, NoticeRecords, TablesInv, NoticesFinal
    <3>. QED  BY <2>1, <3>1, GivenUpJobs DEF NoticesTell
  <2>2. CASE n \notin notices
    BY <2>2, NewNotices
  <2>. QED  BY <2>1, <2>2
<1>2. RetriedToTheEnd'
  <2>. SUFFICES ASSUME NEW s \in Statements, status'[s] = "failed",
                       reason'[s] \notin FastErrors
                PROVE  jobs'[s].attemptsMade = Attempts
    BY DEF RetriedToTheEnd, FastErrors
  <2>1. CASE status[s] = "failed" /\ reason'[s] = reason[s]
    <3>1. jobs[s].state = "failed" /\ jobs[s].attemptsMade = Attempts
      BY <2>1 DEF TablesInv, FailedIsFinal, RetriedToTheEnd, FastErrors
    <3>. QED  BY <3>1, GivenUpJobs
  <2>2. CASE \E n \in notices : n.job = s /\ reason'[s] = n.err
    <3>1. jobs[s].state = "failed" /\ jobs[s].attemptsMade = Attempts
      BY <2>2 DEF TablesInv, NoticesFinal, NoticesTell
    <3>. QED  BY <3>1, GivenUpJobs
  <2>. QED  BY <2>1, <2>2, FailedByHandler
<1>. QED  BY <1>1, <1>2

LEMMA ReasonInvariant == Spec => []ReasonInv
<1>1. Init => ReasonInv
  BY DEF Init, ReasonInv, NoticesTell, RetriedToTheEnd
<1>. QED  BY <1>1, TypeInvariant, TablesInvariant, ReasonStep, PTL DEF Spec

\* A statement is failed before its last attempt only for an error that says
\* 'per day' or one of BullMQ's own, whatever faults are on.
THEOREM FailuresWereRetried == Spec => []RetriedToTheEnd
<1>1. ReasonInv => RetriedToTheEnd
  BY DEF ReasonInv
<1>. QED  BY <1>1, ReasonInvariant, PTL

-----------------------------------------------------------------------------
(* Workers that keep their locks. *)

BusyHolds == \A w \in Workers : Busy(w) => Holds(w, Job(w))

\* Nobody but its worker writes the status of a job that is being run.
StatusInOrder ==
  \A w \in Workers :
    /\ workers[w].pc \in {"load", "extract", "insert", "mark"} =>
         status[Job(w)] = "processing"
    /\ At(w, "ack") => status[Job(w)] = "parsed"

LockInv == BusyHolds /\ StatusInOrder /\ CompletedIsParsed

LEMMA SoleHolder ==
  ASSUME BusyHolds, NEW v \in Workers, NEW w \in Workers, v # w,
         Busy(v), Busy(w)
  PROVE  Job(v) # Job(w)
BY DEF BusyHolds, Holds

\* A step about one statement s, of the workers W or of none, keeps LockInv
\* when it keeps it for s and W and the other workers run other jobs.
LEMMA LockStep ==
  ASSUME TypeInv, LockInv, NEW s \in Statements, NEW W \in SUBSET Workers,
         \A v \in Workers \ W :
           workers'[v] = workers[v] /\ (Busy(v) => Job(v) # s),
         \A w \in W : Busy(w)' =>
           /\ Job(w)' = s
           /\ Holds(w, s)'
           /\ (workers[w].pc)' \in {"load", "extract", "insert", "mark"} =>
                status'[s] = "processing"
           /\ At(w, "ack")' => status'[s] = "parsed",
         \A t \in Statements \ {s} :
           jobs'[t] = jobs[t] /\ status'[t] = status[t],
         \A t \in Statements : batches[t] \subseteq batches'[t],
         jobs'[s].state = "completed" => status'[s] = "parsed" /\ batches'[s] # {}
  PROVE  LockInv'
<1>. USE DEF LockInv
<1>1. ASSUME NEW v \in Workers \ W, Busy(v)'
      PROVE  /\ Busy(v) /\ Job(v)' = Job(v) /\ (workers[v].pc)' = workers[v].pc
             /\ jobs'[Job(v)] = jobs[Job(v)]
             /\ status'[Job(v)] = status[Job(v)]
  <2>1. workers'[v] = workers[v]
    OBVIOUS
  <2>2. Busy(v) /\ Job(v)' = Job(v)
    BY <1>1, <2>1 DEF Busy, At, Job
  <2>3. Job(v) \in Statements \ {s}
    BY <2>2 DEF TypeInv, WorkersBusy, Busy
  <2>. QED  BY <2>1, <2>2, <2>3
<1>2. BusyHolds'
  <2>. SUFFICES ASSUME NEW v \in Workers, Busy(v)' PROVE Holds(v, Job(v))'
    BY DEF BusyHolds
  <2>1. CASE v \in W
    BY <2>1 DEF Holds
  <2>2. CASE v \notin W
    BY <1>1, <2>2 DEF BusyHolds, Holds
  <2>. QED  BY <2>1, <2>2
<1>3. StatusInOrder'
  <2>. SUFFICES ASSUME NEW v \in Workers, Busy(v)'
                PROVE  /\ (workers[v].pc)' \in {"load", "extract", "insert", "mark"} =>
                            (status[Job(v)] = "processing")'
                       /\ At(v, "ack")' => (status[Job(v)] = "parsed")'
    BY DEF StatusInOrder, Busy, At
  <2>1. CASE v \in W
    BY <2>1
  <2>2. CASE v \notin W
    BY <1>1, <2>2 DEF StatusInOrder, At
  <2>. QED  BY <2>1, <2>2
<1>4. CompletedIsParsed'
  <2>. SUFFICES ASSUME NEW t \in Statements, jobs'[t].state = "completed"
                PROVE  status'[t] = "parsed" /\ batches'[t] # {}
    BY DEF CompletedIsParsed
  <2>1. CASE t = s
    BY <2>1
  <2>2. CASE t # s
    BY <2>2 DEF CompletedIsParsed
  <2>. QED  BY <2>1, <2>2
<1>. QED  BY <1>2, <1>3, <1>4

LEMMA UploadLocks ==
  ASSUME TypeInv, TablesInv, LockInv, NEW r \in Statements,
         UploadStep(r) \/ Abort(r)
  PROVE  LockInv'
<1>. USE DEF TypeInv, TypeOK, QueueTypeOK, JobRecords
<1>1. UNCHANGED <<workers, batches>>
  BY DEF UploadStep, Abort, Reject, Lookup, Store, Create, Enqueue
<1>2. \/ UNCHANGED <<jobs, status>>
      \/ /\ jobs[r].state = "absent"
         /\ jobs'[r].state # "completed"
         /\ \A t \in Statements \ {r} :
              jobs'[t] = jobs[t] /\ status'[t] = status[t]
  <2>1. \/ UNCHANGED status
        \/ /\ pc[r] = "creating"
           /\ status' = [status EXCEPT ![r] = "pending"]
           /\ UNCHANGED jobs
    BY DEF UploadStep, Abort, Reject, Lookup, Store, Create, Enqueue, rows,
           InsertRow
  <2>2. UNCHANGED jobs \/ (AddJob(r) /\ UNCHANGED status)
    BY DEF UploadStep, Abort, Reject, Lookup, Store, Create, Enqueue, rows
  <2>3. CASE pc[r] = "creating" /\ UNCHANGED jobs
             /\ status' = [status EXCEPT ![r] = "pending"]
    BY <2>3 DEF TablesInv, RequestsInOrder
  <2>4. CASE AddJob(r) /\ UNCHANGED status
    BY <2>4 DEF AddJob
  <2>. QED  BY <2>1, <2>2, <2>3, <2>4
<1>3. CASE UNCHANGED <<jobs, status>>
  BY <1>1, <1>3 DEF LockInv, BusyHolds, StatusInOrder, CompletedIsParsed, Busy, At,
                    Job, Holds
<1>4. CASE /\ jobs[r].state = "absent"
           /\ jobs'[r].state # "completed"
           /\ \A t \in Statements \ {r} :
                jobs'[t] = jobs[t] /\ status'[t] = status[t]
  <2>1. \A v \in Workers : Busy(v) => Job(v) # r
    BY <1>4 DEF WorkersBusy, Busy
  <2>2. {} \in SUBSET Workers
    OBVIOUS
  <2>. QED  BY <1>1, <1>4, <2>1, <2>2, LockStep
<1>. QED  BY <1>2, <1>3, <1>4

LEMMA TakeLocks ==
  ASSUME TypeInv, TablesInv, LockInv, NEW w \in Workers, NEW s \in Statements,
         Take(w, s)
  PROVE  LockInv'
<1>. USE DEF TypeInv, TypeOK, QueueTypeOK, JobRecords
<1>1. UNCHANGED <<status, batches>> /\ jobs[s].state = "wait"
  BY DEF Take, TakeJob, rows
<1>2. \A v \in Workers : Busy(v) => Job(v) # s
  BY <1>1 DEF LockInv, BusyHolds, Holds
<1>3. /\ \A t \in Statements \ {s} : jobs'[t] = jobs[t]
      /\ jobs'[s].state = "active" /\ jobs'[s].holder = w
  BY DEF Take, TakeJob
<1>4. /\ \A v \in Workers \ {w} : workers'[v] = workers[v]
      /\ workers'[w].pc \in {"begin", "nack"}
      /\ workers'[w].job = s
  BY DEF Take
<1>5. Job(w)' = s /\ Holds(w, s)' /\ ~At(w, "ack")'
  BY <1>3, <1>4 DEF Job, Holds, At
<1>6. {w} \in SUBSET Workers
  OBVIOUS
<1>7. \A v \in Workers \ {w} :
        workers'[v] = workers[v] /\ (Busy(v) => Job(v) # s)
  BY <1>2, <1>4
<1>8. \A v \in {w} : Busy(v)' =>
        /\ Job(v)' = s
        /\ Holds(v, s)'
        /\ (workers[v].pc)' \in {"load", "extract", "insert", "mark"} =>
             status'[s] = "processing"
        /\ At(v, "ack")' => status'[s] = "parsed"
  BY <1>4, <1>5
<1>9. \A t \in Statements \ {s} :
        jobs'[t] = jobs[t] /\ status'[t] = status[t]
  BY <1>1, <1>3
<1>10. \A t \in Statements : batches[t] \subseteq batches'[t]
  BY <1>1
<1>11. jobs'[s].state # "completed"
  BY <1>3
<1>. QED  BY <1>6, <1>7, <1>8, <1>9, <1>10, <1>11, LockStep

\* Where a worker is after an await, and what it still works on.
LEMMA WorkerMoves ==
  ASSUME TypeInv, NEW w \in Workers,
         Begin(w) \/ Load(w) \/ Extract(w) \/ Insert(w) \/ Mark(w)
  PROVE  /\ workers'[w].job = workers[w].job
         /\ Begin(w) => workers'[w].pc \in {"load", "nack"}
         /\ Load(w) => workers'[w].pc \in {"extract", "nack"}
         /\ Extract(w) => workers'[w].pc \in {"insert", "nack"}
         /\ Insert(w) => workers'[w].pc \in {"mark", "nack"}
         /\ Mark(w) => workers'[w].pc \in {"ack", "nack"}
<1>1. workers \in [Workers -> WorkerRecords]
  BY DEF TypeInv, TypeOK
<1>2. ASSUME NEW label, Advance(w, label)
      PROVE  workers'[w].pc = label /\ workers'[w].job = workers[w].job
  BY <1>1, <1>2 DEF Advance, WorkerRecords
<1>3. ASSUME NEW err, Throw(w, err)
      PROVE  workers'[w].pc = "nack" /\ workers'[w].job = workers[w].job
  BY <1>1, <1>3 DEF Throw, WorkerRecords
<1>4. CASE Begin(w)
  BY <1>2, <1>3, <1>4 DEF Begin, Load, Extract, Insert, Mark, At
<1>5. CASE Load(w)
  BY <1>2, <1>3, <1>5 DEF Begin, Load, Extract, Insert, Mark, At
<1>6. CASE Extract(w)
  BY <1>2, <1>3, <1>6 DEF Begin, Load, Extract, Insert, Mark, At
<1>7. CASE Insert(w)
  BY <1>2, <1>3, <1>7 DEF Begin, Load, Extract, Insert, Mark, At
<1>8. CASE Mark(w)
  BY <1>2, <1>3, <1>8 DEF Begin, Load, Extract, Insert, Mark, At
<1>. QED  BY <1>4, <1>5, <1>6, <1>7, <1>8

\* What a worker's step does to its own job.
LEMMA WorkerOwn ==
  ASSUME TypeInv, TablesInv, LockInv, NEW w \in Workers, Busy(w),
         WorkerStep(w) \/ LoseAnswer(w) \/ Crash(w)
  PROVE  /\ Job(w) \in Statements
         /\ \A v \in Workers \ {w} :
              workers'[v] = workers[v] /\ (Busy(v) => Job(v) # Job(w))
         /\ Busy(w)' =>
              /\ Job(w)' = Job(w)
              /\ Holds(w, Job(w))'
              /\ (workers[w].pc)' \in {"load", "extract", "insert", "mark"} =>
                   status'[Job(w)] = "processing"
              /\ At(w, "ack")' => status'[Job(w)] = "parsed"
         /\ \A t \in Statements \ {Job(w)} :
              /\ jobs'[t] = jobs[t] /\ status'[t] = status[t]
              /\ batches'[t] = batches[t]
         /\ jobs'[Job(w)].state = "completed" =>
              status'[Job(w)] = "parsed" /\ batches'[Job(w)] # {}
<1>. USE DEF TypeInv, TypeOK, QueueTypeOK, JobRecords
<1>. DEFINE s == Job(w)
<1>1. s \in Statements /\ Holds(w, s)
  BY DEF WorkersBusy, Busy, LockInv, BusyHolds
<1>2. \A v \in Workers \ {w} : Busy(v) => Job(v) # s
  BY SoleHolder DEF LockInv
<1>3. \A v \in Workers \ {w} : workers'[v] = workers[v]
  BY DEF WorkerStep, LoseAnswer, Crash, Begin, Load, Extract, Insert, Mark, Ack,
         Nack, Advance, Throw, Rest
<1>4. \A t \in Statements \ {s} :
        jobs'[t] = jobs[t] /\ status'[t] = status[t] /\ batches'[t] = batches[t]
  <2>1. \A t \in Statements \ {s} : jobs'[t] = jobs[t]
    BY DEF WorkerStep, LoseAnswer, Crash, Begin, Load, Extract, Insert, Mark, Ack,
           Nack, CompleteJob, FailJob, Finish
  <2>2. \A t \in Statements \ {s} : status'[t] = status[t]
    BY DEF WorkerStep, LoseAnswer, Crash, Begin, Load, Extract, Insert, Mark, Ack,
           Nack, SetStatus, rows
  <2>3. \A t \in Statements \ {s} : batches'[t] = batches[t]
    BY DEF WorkerStep, LoseAnswer, Crash, Begin, Load, Extract, Insert, Mark, Ack,
           Nack, InsertBatch
  <2>. QED  BY <2>1, <2>2, <2>3
<1>5. CASE Begin(w) \/ Load(w) \/ Extract(w) \/ Insert(w) \/ Mark(w)
  <2>1. UNCHANGED jobs
    BY <1>5 DEF Begin, Load, Extract, Insert, Mark
  <2>2. workers'[w].job = workers[w].job
    BY <1>5, WorkerMoves
  <2>3. Job(w)' = s /\ Holds(w, s)'
    BY <1>1, <2>1, <2>2 DEF Job, Holds
  <2>4. workers'[w].pc \in {"load", "extract", "insert", "mark"} =>
          status'[s] = "processing"
    <3>1. CASE Begin(w)
      <4>1. CASE SetStatus(s, "processing", "none")
        BY <1>1, <4>1 DEF SetStatus
      <4>2. CASE Throw(w, "db")
        BY <4>2 DEF Throw, WorkerRecords
      <4>. QED  BY <3>1, <4>1, <4>2 DEF Begin
    <3>2. CASE Load(w) \/ Extract(w) \/ Insert(w)
      BY <3>2 DEF Load, Extract, Insert, LockInv, StatusInOrder, At, rows
    <3>3. CASE Mark(w)
      BY <3>3, WorkerMoves
    <3>. QED  BY <1>5, <3>1, <3>2, <3>3
  <2>5. workers'[w].pc = "ack" => status'[s] = "parsed"
    <3>1. CASE Mark(w)
      <4>1. CASE SetStatus(s, "parsed", "none")
        BY <1>1, <4>1 DEF SetStatus
      <4>2. CASE Throw(w, "db")
        BY <4>2 DEF Throw, WorkerRecords
      <4>. QED  BY <3>1, <4>1, <4>2 DEF Mark
    <3>2. CASE ~Mark(w)
      BY <1>5, <3>2, WorkerMoves
    <3>. QED  BY <3>1, <3>2
  <2>6. jobs'[s].state # "completed"
    BY <1>1, <2>1 DEF Holds
  <2>. QED  BY <1>1, <1>2, <1>3, <1>4, <2>3, <2>4, <2>5, <2>6 DEF At
<1>6. CASE Ack(w) \/ Nack(w) \/ LoseAnswer(w) \/ Crash(w)
  <2>1. ~Busy(w)'
    BY <1>6 DEF Ack, Nack, LoseAnswer, Crash, Rest, Idle, Busy, At
  <2>2. jobs'[s].state = "completed" => status'[s] = "parsed" /\ batches'[s] # {}
    <3>1. CASE Ack(w)
      <4>1. status[s] = "parsed"
        BY <3>1 DEF Ack, LockInv, StatusInOrder
      <4>2. batches[s] # {}
        BY <1>1, <4>1 DEF TablesInv, ParsedHasBatch
      <4>. QED  BY <3>1, <4>1, <4>2 DEF Ack, rows
    <3>2. CASE Nack(w)
      BY <1>1, <3>2 DEF Nack, FailJob, Finish
    <3>3. CASE LoseAnswer(w) \/ Crash(w)
      BY <1>1, <3>3 DEF LoseAnswer, Crash, Holds
    <3>. QED  BY <1>6, <3>1, <3>2, <3>3
  <2>. QED  BY <1>1, <1>2, <1>3, <1>4, <2>1, <2>2
<1>. QED  BY <1>5, <1>6 DEF WorkerStep

LEMMA WorkerLocks ==
  ASSUME TypeInv, TablesInv, LockInv, NEW w \in Workers,
         WorkerStep(w) \/ LoseAnswer(w) \/ Crash(w)
  PROVE  LockInv'
<1>1. \A t \in Statements : batches[t] \subseteq batches'[t]
  BY WorkOnRows DEF Work
<1>2. CASE Busy(w)
  <2>1. {w} \in SUBSET Workers
    OBVIOUS
  <2>2. Job(w) \in Statements
    BY <1>2, WorkerOwn
  <2>3. \A v \in Workers \ {w} :
          workers'[v] = workers[v] /\ (Busy(v) => Job(v) # Job(w))
    BY <1>2, WorkerOwn
  <2>4. Busy(w)' =>
          /\ Job(w)' = Job(w)
          /\ Holds(w, Job(w))'
          /\ (workers[w].pc)' \in {"load", "extract", "insert", "mark"} =>
               status'[Job(w)] = "processing"
          /\ At(w, "ack")' => status'[Job(w)] = "parsed"
    BY <1>2, WorkerOwn
  <2>5. \A t \in Statements \ {Job(w)} :
          jobs'[t] = jobs[t] /\ status'[t] = status[t]
    BY <1>2, WorkerOwn
  <2>6. jobs'[Job(w)].state = "completed" =>
          status'[Job(w)] = "parsed" /\ batches'[Job(w)] # {}
    BY <1>2, WorkerOwn
  <2>. QED  BY <1>1, <2>1, <2>2, <2>3, <2>4, <2>5, <2>6, LockStep
<1>3. CASE ~Busy(w)
  <2>1. Crash(w)
    BY <1>3 DEF Busy, WorkerStep, LoseAnswer, Begin, Load, Extract, Insert, Mark,
                Ack, Nack, At
  <2>2. UNCHANGED <<jobs, status, batches>>
    BY <2>1 DEF Crash, rows
  <2>3. \A v \in Workers : Busy(v)' => Busy(v) /\ workers'[v] = workers[v]
    BY <2>1 DEF Crash, Rest, Busy, At, Idle, TypeInv, TypeOK
  <2>. QED  BY <2>2, <2>3 DEF LockInv, BusyHolds, StatusInOrder, CompletedIsParsed,
                              Busy, At, Job, Holds
<1>. QED  BY <1>2, <1>3

LEMMA HandlerLocks ==
  ASSUME TypeInv, TablesInv, LockInv, NEW n \in notices, OnFailed(n)
  PROVE  LockInv'
<1>1. n.job \in Statements /\ jobs[n.job].state = "failed"
  BY DEF TypeInv, TypeOK, NoticeRecords, TablesInv, NoticesFinal
<1>2. UNCHANGED <<jobs, workers, batches>>
  BY DEF OnFailed
<1>3. \A t \in Statements \ {n.job} : status'[t] = status[t]
  BY DEF OnFailed, SetStatus, rows, TypeInv, TypeOK
<1>4. \A v \in Workers : Busy(v) => Job(v) # n.job
  BY <1>1 DEF LockInv, BusyHolds, Holds
<1>5. {} \in SUBSET Workers
  OBVIOUS
<1>. QED  BY <1>1, <1>2, <1>3, <1>4, <1>5, LockStep

LEMMA StallLocks ==
  ASSUME KeepsLocks, TypeInv, LockInv, NEW s \in Statements, Stall(s)
  PROVE  LockInv'
<1>1. UNCHANGED <<status, workers, batches>>
  BY DEF Stall, rows
<1>2. /\ \A t \in Statements \ {s} : jobs'[t] = jobs[t]
      /\ jobs'[s].state = "wait"
  BY DEF Stall, StallJob, TypeInv, TypeOK, QueueTypeOK, JobRecords
<1>3. \A v \in Workers : Busy(v) => Job(v) # s
  BY DEF Stall, Running, KeepsLocks, LockInv, BusyHolds
<1>4. {} \in SUBSET Workers
  OBVIOUS
<1>. QED  BY <1>1, <1>2, <1>3, <1>4, LockStep

LEMMA LocksStep ==
  ASSUME KeepsLocks
  PROVE  TypeInv /\ TablesInv /\ LockInv /\ [Next]_vars => LockInv'
<1>. SUFFICES ASSUME TypeInv, TablesInv, LockInv, [Next]_vars PROVE LockInv'
  OBVIOUS
<1>1. ASSUME NEW r \in Statements, UploadStep(r) \/ Abort(r) PROVE LockInv'
  BY <1>1, UploadLocks
<1>2. ASSUME NEW w \in Workers, NEW s \in Statements, Take(w, s) PROVE LockInv'
  BY <1>2, TakeLocks
<1>3. ASSUME NEW w \in Workers, WorkerStep(w) \/ LoseAnswer(w) \/ Crash(w)
      PROVE  LockInv'
  BY <1>3, WorkerLocks
<1>4. ASSUME NEW n \in notices, OnFailed(n) PROVE LockInv'
  BY <1>4, HandlerLocks
<1>5. ASSUME NEW s \in Statements, Stall(s) PROVE LockInv'
  BY <1>5, StallLocks
<1>6. CASE UNCHANGED vars
  BY <1>6 DEF vars, rows, LockInv, BusyHolds, StatusInOrder, CompletedIsParsed,
              Busy, At, Job, Holds
<1>. QED  BY <1>1, <1>2, <1>3, <1>4, <1>5, <1>6 DEF Next, Terminating

\* The induction is made under the assumption, which is about a constant.
LEMMA LocksInvariant == Spec => [](KeepsLocks => LockInv)
<1>1. Init => LockInv
  BY DEF Init, QueueInit, LockInv, BusyHolds, StatusInOrder, CompletedIsParsed,
         Busy, At, Idle
<1>2. TypeInv /\ TablesInv /\ (KeepsLocks => LockInv) /\ [Next]_vars =>
        (KeepsLocks => LockInv)'
  BY LocksStep DEF KeepsLocks
<1>. QED  BY <1>1, <1>2, TypeInvariant, TablesInvariant, PTL DEF Spec

\* With workers that keep their locks a completed job leaves its statement
\* parsed with its transactions, whatever else fails and wherever they stop.
THEOREM CompletionIsParsing ==
  ASSUME KeepsLocks
  PROVE  Spec => []CompletedIsParsed
<1>1. (KeepsLocks => LockInv) => CompletedIsParsed
  BY DEF LockInv
<1>. QED  BY <1>1, LocksInvariant, PTL

\* A statement that is failed, or whose job is completed, keeps its status and
\* its transactions: nothing that runs late reaches it.
THEOREM SettledStays ==
  ASSUME KeepsLocks
  PROVE  Spec => SettledIsFinal
<1>. DEFINE Stays ==
       \A s \in Statements :
         status[s] = "failed" \/ jobs[s].state = "completed" =>
           status'[s] = status[s] /\ batches'[s] = batches[s]
<1>1. ASSUME TypeInv, TablesInv, LockInv, [Next]_vars PROVE Stays
  <2>. SUFFICES ASSUME NEW s \in Statements,
                       status[s] = "failed" \/ jobs[s].state = "completed"
                PROVE  status'[s] = status[s] /\ batches'[s] = batches[s]
    OBVIOUS
  <2>1. jobs[s].state \in {"failed", "completed"} /\ Exists(s)
    BY <1>1 DEF TablesInv, FailedIsFinal, RequestsInOrder
  <2>2. \A w \in Workers : Busy(w) => Job(w) # s
    BY <1>1, <2>1 DEF LockInv, BusyHolds, Holds
  <2>3. ASSUME NEW r \in Statements, UploadStep(r) \/ Abort(r)
        PROVE  status'[s] = status[s] /\ batches'[s] = batches[s]
    <3>1. \/ UNCHANGED status
          \/ pc[r] = "creating" /\ status' = [status EXCEPT ![r] = "pending"]
      BY <2>3 DEF UploadStep, Abort, Reject, Lookup, Store, Create, Enqueue, rows,
                  InsertRow
    <3>2. UNCHANGED batches
      BY <2>3 DEF UploadStep, Abort, Reject, Lookup, Store, Create, Enqueue
    <3>3. pc[r] = "creating" => r # s
      BY <1>1, <2>1 DEF TablesInv, RequestsInOrder
    <3>4. status'[s] = status[s]
      BY <1>1, <3>1, <3>3 DEF TypeInv, TypeOK
    <3>. QED  BY <3>2, <3>4
  <2>4. ASSUME NEW w \in Workers, WorkerStep(w) \/ LoseAnswer(w) \/ Crash(w)
        PROVE  status'[s] = status[s] /\ batches'[s] = batches[s]
    <3>1. CASE Busy(w)
      BY <1>1, <2>2, <2>4, <3>1, WorkerOwn
    <3>2. CASE ~Busy(w)
      BY <2>4, <3>2 DEF Busy, At, WorkerStep, LoseAnswer, Crash, Begin, Load,
                        Extract, Insert, Mark, Ack, Nack, rows
    <3>. QED  BY <3>1, <3>2
  <2>5. ASSUME NEW n \in notices, OnFailed(n)
        PROVE  status'[s] = status[s] /\ batches'[s] = batches[s]
    <3>1. jobs[n.job].state = "failed"
      BY <1>1 DEF TablesInv, NoticesFinal
    <3>2. n.job = s => status[s] = "failed"
      BY <2>1, <3>1
    <3>. QED  BY <1>1, <2>5, <3>2 DEF OnFailed, SetStatus, rows, TypeInv, TypeOK
  <2>6. CASE \/ \E w \in Workers, t \in Statements : Take(w, t)
             \/ \E t \in Statements : Stall(t)
             \/ UNCHANGED vars
    BY <2>6 DEF Take, Stall, vars, rows
  <2>. QED  BY <1>1, <2>3, <2>4, <2>5, <2>6 DEF Next, Terminating
<1>2. TypeInv /\ TablesInv /\ (KeepsLocks => LockInv) /\ [Next]_vars =>
        [Stays]_vars
  BY <1>1
<1>. QED  BY <1>2, TypeInvariant, TablesInvariant, LocksInvariant, PTL
          DEF Spec, SettledIsFinal

-----------------------------------------------------------------------------
(* Calls that answer for what they did. *)

\* Transactions are there only while their worker finishes, or when it has.
BatchesHeld ==
  \A s \in Statements : batches[s] # {} =>
    \/ jobs[s].state = "completed"
    \/ \E w \in Workers : Job(w) = s /\ workers[w].pc \in {"mark", "ack"}

OneBatch == \A s \in Statements : \A m, n \in batches[s] : m = n

OnceInv == BatchesHeld /\ OneBatch

LEMMA NoBatchYet ==
  ASSUME TypeInv, LockInv, BatchesHeld, NEW w \in Workers, Busy(w),
         workers[w].pc \notin {"mark", "ack"}
  PROVE  batches[Job(w)] = {}
<1>1. Job(w) \in Statements /\ jobs[Job(w)].state = "active"
  BY DEF TypeInv, WorkersBusy, Busy, LockInv, BusyHolds, Holds
<1>2. ASSUME NEW v \in Workers, Job(v) = Job(w), workers[v].pc \in {"mark", "ack"}
      PROVE  FALSE
  <2>1. Busy(v) /\ v # w
    BY <1>2 DEF Busy, At
  <2>. QED  BY <1>2, <2>1, SoleHolder DEF LockInv
<1>. QED  BY <1>1, <1>2 DEF BatchesHeld

\* A step of nobody, or of one worker about its statement s.
LEMMA OnceStep ==
  ASSUME TypeInv, OnceInv, [Next]_vars, NEW W \in SUBSET Workers,
         NEW S \in SUBSET Statements,
         \A v \in Workers \ W : workers'[v] = workers[v],
         \A w \in W : workers[w].pc \in {"mark", "ack"} => Job(w) \in S,
         \A t \in Statements \ S : batches'[t] = batches[t],
         \A s \in S : batches'[s] # {} =>
           \/ jobs'[s].state = "completed"
           \/ \E w \in Workers :
                Job(w)' = s /\ (workers[w].pc)' \in {"mark", "ack"},
         \A s \in S : \A m, n \in batches'[s] : m = n
  PROVE  OnceInv'
<1>1. BatchesHeld'
  <2>. SUFFICES ASSUME NEW t \in Statements, batches'[t] # {}
                PROVE  \/ jobs'[t].state = "completed"
                       \/ \E w \in Workers :
                            Job(w)' = t /\ (workers[w].pc)' \in {"mark", "ack"}
    BY DEF BatchesHeld
  <2>1. CASE t \in S
    BY <2>1
  <2>2. CASE t \notin S
    <3>1. CASE jobs[t].state = "completed"
      BY <3>1, GivenUpJobs
    <3>2. ASSUME NEW w \in Workers, Job(w) = t, workers[w].pc \in {"mark", "ack"}
          PROVE  Job(w)' = t /\ (workers[w].pc)' \in {"mark", "ack"}
      BY <2>2, <3>2 DEF Job
    <3>. QED  BY <2>2, <3>1, <3>2 DEF OnceInv, BatchesHeld
  <2>. QED  BY <2>1, <2>2
<1>2. OneBatch'
  BY DEF OnceInv, OneBatch
<1>. QED  BY <1>1, <1>2 DEF OnceInv

LEMMA WorkerOnce ==
  ASSUME AnswersForCalls, TypeInv, TablesInv, LockInv, OnceInv, [Next]_vars,
         NEW w \in Workers, WorkerStep(w)
  PROVE  OnceInv'
<1>. USE DEF OnceInv
<1>. DEFINE s == Job(w)
<1>1. Busy(w) /\ s \in Statements /\ "db" \notin Faults
  BY DEF WorkerStep, Begin, Load, Extract, Insert, Mark, Ack, Nack, Busy, At,
         AnswersForCalls, TypeInv, WorkersBusy
<1>2. /\ \A v \in Workers \ {w} : workers'[v] = workers[v]
      /\ \A t \in Statements \ {s} : batches'[t] = batches[t]
  BY <1>1, WorkerOwn
<1>3. workers'[w].pc \in {"mark", "ack"} => Job(w)' = s
  <2>1. CASE Ack(w) \/ Nack(w)
    BY <2>1 DEF Ack, Nack, Rest, Idle, TypeInv, TypeOK
  <2>2. CASE Begin(w) \/ Load(w) \/ Extract(w) \/ Insert(w) \/ Mark(w)
    BY <2>2, WorkerMoves DEF Job
  <2>. QED  BY <2>1, <2>2 DEF WorkerStep
<1>4. /\ batches'[s] # {} =>
           jobs'[s].state = "completed" \/ workers'[w].pc \in {"mark", "ack"}
      /\ \A m, n \in batches'[s] : m = n
  <2>1. CASE Begin(w) \/ Load(w) \/ Extract(w) \/ Nack(w)
    <3>1. batches[s] = {}
      BY <1>1, <2>1, NoBatchYet DEF Begin, Load, Extract, Nack, At
    <3>. QED  BY <2>1, <3>1 DEF Begin, Load, Extract, Nack
  <2>2. CASE Insert(w)
    <3>1. batches[s] = {}
      BY <1>1, <2>2, NoBatchYet DEF Insert, At
    <3>2. InsertBatch(w) /\ Advance(w, "mark")
      BY <1>1, <2>2 DEF Insert
    <3>3. batches'[s] = {workers[w].run}
      BY <1>1, <3>1, <3>2 DEF InsertBatch, TypeInv, TypeOK
    <3>4. workers'[w].pc = "mark"
      BY <3>2 DEF Advance, TypeInv, TypeOK, WorkerRecords
    <3>. QED  BY <3>3, <3>4
  <2>3. CASE Mark(w)
    <3>1. UNCHANGED batches /\ Advance(w, "ack")
      BY <1>1, <2>3 DEF Mark
    <3>2. workers'[w].pc = "ack"
      BY <3>1 DEF Advance, TypeInv, TypeOK, WorkerRecords
    <3>. QED  BY <1>1, <3>1, <3>2 DEF OneBatch
  <2>4. CASE Ack(w)
    <3>1. Holds(w, s) /\ UNCHANGED batches
      BY <1>1, <2>4 DEF LockInv, BusyHolds, Ack
    <3>2. jobs'[s].state = "completed"
      BY <1>1, <2>4, <3>1 DEF Ack, CompleteJob, Finish, TypeInv, TypeOK,
                              QueueTypeOK, JobRecords
    <3>. QED  BY <1>1, <3>1, <3>2 DEF OneBatch
  <2>. QED  BY <2>1, <2>2, <2>3, <2>4 DEF WorkerStep
<1>5. {w} \in SUBSET Workers /\ {s} \in SUBSET Statements
  BY <1>1
<1>. HIDE DEF s, OnceInv
<1>6. \A v \in {w} : workers[v].pc \in {"mark", "ack"} => Job(v) \in {s}
  BY DEF s
<1>7. \A t \in {s} : batches'[t] # {} =>
        \/ jobs'[t].state = "completed"
        \/ \E v \in Workers :
             Job(v)' = t /\ (workers[v].pc)' \in {"mark", "ack"}
  BY <1>3, <1>4
<1>8. \A t \in {s} : \A m, n \in batches'[t] : m = n
  BY <1>4
<1>. QED  BY <1>2, <1>5, <1>6, <1>7, <1>8, OnceStep

LEMMA OnceNext ==
  ASSUME AnswersForCalls, TypeInv, TablesInv, LockInv, OnceInv, [Next]_vars
  PROVE  OnceInv'
<1>0. {} \in SUBSET Workers /\ {} \in SUBSET Statements
  OBVIOUS
<1>1. CASE UNCHANGED <<workers, batches>>
  BY <1>0, <1>1, OnceStep
<1>2. ASSUME NEW w \in Workers, NEW s \in Statements, Take(w, s) PROVE OnceInv'
  <2>1. /\ UNCHANGED batches
        /\ \A v \in Workers \ {w} : workers'[v] = workers[v]
        /\ workers[w].pc = "idle"
    BY <1>2 DEF Take, At
  <2>2. {w} \in SUBSET Workers
    OBVIOUS
  <2>. QED  BY <1>0, <2>1, <2>2, OnceStep
<1>3. ASSUME NEW w \in Workers, WorkerStep(w) PROVE OnceInv'
  BY <1>3, WorkerOnce
<1>4. \A w \in Workers : ~LoseAnswer(w) /\ ~Crash(w)
  BY DEF LoseAnswer, Crash, AnswersForCalls
<1>5. ASSUME NEW r \in Statements, UploadStep(r) \/ Abort(r)
      PROVE  UNCHANGED <<workers, batches>>
  BY <1>5 DEF UploadStep, Abort, Reject, Lookup, Store, Create, Enqueue
<1>6. CASE \/ \E n \in notices : OnFailed(n)
           \/ \E s \in Statements : Stall(s)
           \/ UNCHANGED vars
  BY <1>1, <1>6 DEF OnFailed, Stall, vars
<1>. QED  BY <1>1, <1>2, <1>3, <1>4, <1>5, <1>6 DEF Next, Terminating

LEMMA OnceInvariant == Spec => [](AnswersForCalls => OnceInv)
<1>1. Init => OnceInv
  BY DEF Init, OnceInv, BatchesHeld, OneBatch
<1>2. TypeInv /\ TablesInv /\ (KeepsLocks => LockInv)
        /\ (AnswersForCalls => OnceInv) /\ [Next]_vars =>
        (AnswersForCalls => OnceInv)'
  BY OnceNext DEF KeepsLocks, AnswersForCalls
<1>. QED  BY <1>1, <1>2, TypeInvariant, TablesInvariant, LocksInvariant, PTL
          DEF Spec

\* When only the object store and the extraction can fail, retries never
\* repeat a statement's transactions, and a failed statement has none.
THEOREM RetriesInsertOnce ==
  ASSUME AnswersForCalls
  PROVE  Spec => []NoDuplicateTransactions
<1>1. ASSUME TypeInv, TablesInv, LockInv, OnceInv PROVE NoDuplicateTransactions
  <2>1. ASSUME NEW s \in Statements, status[s] = "failed", batches[s] # {}
        PROVE  FALSE
    <3>1. jobs[s].state = "failed"
      BY <1>1, <2>1 DEF TablesInv, FailedIsFinal
    <3>2. PICK w \in Workers : Job(w) = s /\ workers[w].pc \in {"mark", "ack"}
      BY <1>1, <2>1, <3>1 DEF OnceInv, BatchesHeld
    <3>3. Busy(w)
      BY <3>2 DEF Busy, At
    <3>. QED  BY <1>1, <3>1, <3>2, <3>3 DEF LockInv, BusyHolds, Holds
  <2>. QED  BY <1>1, <2>1 DEF OnceInv, OneBatch, NoDuplicateTransactions
<1>2. TypeInv /\ TablesInv /\ (KeepsLocks => LockInv)
        /\ (AnswersForCalls => OnceInv) => NoDuplicateTransactions
  BY <1>1 DEF KeepsLocks, AnswersForCalls
<1>. QED  BY <1>2, TypeInvariant, TablesInvariant, LocksInvariant, OnceInvariant, PTL

-----------------------------------------------------------------------------
(* The refinement. *)

\* A new row is one that Ingestion may accept.
LEMMA UploadImplements ==
  ASSUME TypeInv, TablesInv, NEW r \in Statements, UploadStep(r) \/ Abort(r)
  PROVE  [Listed!Next]_(Listed!vars)
<1>1. UNCHANGED <<upload, batches>>
  BY DEF UploadStep, Abort, Reject, Lookup, Store, Create, Enqueue
<1>2. \/ UNCHANGED status
      \/ pc[r] = "creating" /\ CanInsertRow(r) /\ InsertRow(r)
  BY DEF UploadStep, Abort, Reject, Lookup, Store, Create, Enqueue, rows
<1>3. CASE pc[r] = "creating" /\ CanInsertRow(r) /\ InsertRow(r)
  <2>1. status[r] = "absent"
    BY <1>3 DEF TablesInv, RequestsInOrder, Exists
  <2>2. \A t \in Statements :
          upload[t].user = upload[r].user /\ upload[t].file = upload[r].file =>
            status[t] = "absent"
    BY <1>3 DEF CanInsertRow, Matches, SameKey, Exists
  <2>3. Listed!Accept(r)
    BY <1>1, <1>3, <2>1, <2>2 DEF Listed!Accept, Listed!Show, InsertRow
  <2>. QED  BY <2>3 DEF Listed!Next
<1>4. CASE UNCHANGED status
  BY <1>1, <1>4 DEF Listed!vars
<1>. QED  BY <1>2, <1>3, <1>4

LEMMA WorkerImplements ==
  ASSUME TypeInv, TablesInv, LockInv, AnswersForCalls => OnceInv,
         NEW w \in Workers, WorkerStep(w)
  PROVE  [Listed!Next]_(Listed!vars)
<1>. DEFINE s == Job(w)
<1>1. /\ Busy(w) /\ s \in Statements
      /\ Exists(s) /\ jobs[s].state = "active"
  BY DEF WorkerStep, Begin, Load, Extract, Insert, Mark, Ack, Nack, Busy, At,
         TypeInv, WorkersBusy, TablesInv, RequestsInOrder, LockInv, BusyHolds, Holds
<1>2. UNCHANGED upload
  BY DEF WorkerStep, Begin, Load, Extract, Insert, Mark, Ack, Nack, requests
<1>3. AnswersForCalls /\ ~(At(w, "mark") \/ At(w, "ack")) => batches[s] = {}
  BY <1>1, NoBatchYet DEF OnceInv, At
<1>4. CASE UNCHANGED <<status, batches>>
  BY <1>2, <1>4 DEF Listed!vars
<1>5. CASE Begin(w) /\ SetStatus(s, "processing", "none")
  <2>1. status[s] \in {"pending", "processing", "parsed"}
    BY <1>1 DEF TypeInv, TypeOK, Statuses, Exists, TablesInv, FailedIsFinal
  <2>2. CASE status[s] = "processing"
    <3>1. UNCHANGED <<status, batches>>
      BY <1>1, <1>5, <2>2 DEF SetStatus, Begin, TypeInv, TypeOK
    <3>. QED  BY <1>4, <3>1
  <2>3. CASE status[s] # "processing"
    <3>1. AnswersForCalls => status[s] # "parsed"
      BY <1>1, <1>3, <1>5 DEF Begin, At, TablesInv, ParsedHasBatch
    <3>2. Listed!Start(s)
      BY <1>2, <1>5, <2>1, <2>3, <3>1
         DEF Listed!Start, Listed!Show, SetStatus, Begin
    <3>. QED  BY <1>1, <3>2 DEF Listed!Next
  <2>. QED  BY <2>2, <2>3
<1>6. CASE Insert(w) /\ InsertBatch(w)
  <2>1. status[s] = "processing"
    BY <1>6 DEF Insert, At, LockInv, StatusInOrder
  <2>2. AnswersForCalls => batches[s] = {}
    BY <1>3, <1>6 DEF Insert, At
  <2>3. workers[w].run \in RunNumbers
    BY DEF TypeInv, TypeOK, WorkerRecords
  <2>4. UNCHANGED status
    BY <1>6 DEF Insert, rows
  <2>5. Listed!Record(s)
    BY <1>2, <1>6, <2>1, <2>2, <2>3, <2>4 DEF Listed!Record, InsertBatch
  <2>. QED  BY <1>1, <2>5 DEF Listed!Next
<1>7. CASE Mark(w) /\ SetStatus(s, "parsed", "none")
  <2>1. status[s] = "processing" /\ batches[s] # {}
    BY <1>7 DEF Mark, At, LockInv, StatusInOrder, TypeInv, WorkersBusy
  <2>2. Listed!Finish(s)
    BY <1>2, <1>7, <2>1 DEF Listed!Finish, Listed!Show, SetStatus, Mark
  <2>. QED  BY <1>1, <2>2 DEF Listed!Next
<1>8. \/ UNCHANGED <<status, batches>>
      \/ Begin(w) /\ SetStatus(s, "processing", "none")
      \/ Insert(w) /\ InsertBatch(w)
      \/ Mark(w) /\ SetStatus(s, "parsed", "none")
  BY DEF WorkerStep, Begin, Load, Extract, Insert, Mark, Ack, Nack, rows
<1>. QED  BY <1>4, <1>5, <1>6, <1>7, <1>8

LEMMA HandlerImplements ==
  ASSUME TypeInv, TablesInv, LockInv, AnswersForCalls => OnceInv,
         NEW n \in notices, OnFailed(n)
  PROVE  [Listed!Next]_(Listed!vars)
<1>. DEFINE s == n.job
<1>1. s \in Statements /\ jobs[s].state = "failed" /\ Exists(s)
  BY DEF TypeInv, TypeOK, NoticeRecords, TablesInv, NoticesFinal, RequestsInOrder
<1>2. UNCHANGED <<upload, batches>>
  BY DEF OnFailed, requests
<1>3. CASE UNCHANGED status
  BY <1>2, <1>3 DEF Listed!vars
<1>4. CASE SetStatus(s, "failed", n.err) /\ status[s] # "failed"
  <2>1. AnswersForCalls => batches[s] = {}
    <3>1. ASSUME NEW w \in Workers, Job(w) = s, workers[w].pc \in {"mark", "ack"}
          PROVE  FALSE
      BY <1>1, <3>1 DEF Busy, At, LockInv, BusyHolds, Holds
    <3>. QED  BY <1>1, <3>1 DEF OnceInv, BatchesHeld
  <2>2. status[s] \in {"pending", "processing", "parsed"}
    BY <1>1, <1>4 DEF TypeInv, TypeOK, Statuses, Exists
  <2>3. AnswersForCalls => status[s] # "parsed"
    BY <1>1, <2>1 DEF TablesInv, ParsedHasBatch
  <2>4. Listed!GiveUp(s)
    BY <1>2, <1>4, <2>1, <2>2, <2>3 DEF Listed!GiveUp, Listed!Show, SetStatus
  <2>. QED  BY <1>1, <2>4 DEF Listed!Next
<1>5. CASE SetStatus(s, "failed", n.err) /\ status[s] = "failed"
  <2>1. UNCHANGED status
    BY <1>1, <1>5 DEF SetStatus, TypeInv, TypeOK
  <2>. QED  BY <1>3, <2>1
<1>. QED  BY <1>3, <1>4, <1>5 DEF OnFailed, rows

\* Every step of the pipeline is one of Ingestion, or changes nothing that is
\* listed.
LEMMA StepImplements ==
  ASSUME TypeInv, TablesInv, LockInv, AnswersForCalls => OnceInv, [Next]_vars
  PROVE  [Listed!Next]_(Listed!vars)
<1>1. ASSUME NEW r \in Statements, UploadStep(r) \/ Abort(r)
      PROVE  [Listed!Next]_(Listed!vars)
  BY <1>1, UploadImplements
<1>2. ASSUME NEW w \in Workers, WorkerStep(w) PROVE [Listed!Next]_(Listed!vars)
  BY <1>2, WorkerImplements
<1>3. ASSUME NEW n \in notices, OnFailed(n) PROVE [Listed!Next]_(Listed!vars)
  BY <1>3, HandlerImplements
<1>4. CASE \/ \E w \in Workers, s \in Statements : Take(w, s)
           \/ \E w \in Workers : LoseAnswer(w) \/ Crash(w)
           \/ \E s \in Statements : Stall(s)
           \/ UNCHANGED vars
  BY <1>4 DEF Take, LoseAnswer, Crash, Stall, vars, requests, rows, Listed!vars
<1>. QED  BY <1>1, <1>2, <1>3, <1>4 DEF Next, Terminating

\* With workers that keep their locks, what a user is shown of a statement
\* goes from pending through processing to parsed or failed, with every other
\* fault and for any number of statements, workers, attempts and stalls.
THEOREM PipelineImplementsIngestion ==
  ASSUME KeepsLocks
  PROVE  Spec => ImplementsIngestion
<1>1. Init => Listed!Init
  BY DEF Init, Listed!Init
<1>2. TypeInv /\ TablesInv /\ (KeepsLocks => LockInv)
        /\ (AnswersForCalls => OnceInv) /\ [Next]_vars =>
        [Listed!Next]_(Listed!vars)
  BY StepImplements
<1>. QED  BY <1>1, <1>2, TypeInvariant, TablesInvariant, LocksInvariant,
             OnceInvariant, PTL DEF Spec, ImplementsIngestion, Listed!Spec
=============================================================================
