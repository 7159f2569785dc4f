----------------------- MODULE StatementPipelineProofs -----------------------
(***************************************************************************)
(* Proofs about StatementPipeline, for every set of statements, workers,   *)
(* users, files and faults and every number of attempts and stalls.        *)
(***************************************************************************)
EXTENDS StatementPipeline, TLAPS

\* A job that is not settled still has an attempt to make.
AttemptLeft ==
  \A s \in Statements :
    jobs[s].state \notin {"completed", "failed"} =>
      jobs[s].attemptsMade < Attempts

-----------------------------------------------------------------------------
(* The operations of the queue keep the types of its jobs. *)

LEMMA AddJobType ==
  ASSUME QueueTypeOK, AttemptLeft, NEW s \in Statements, AddJob(s)
  PROVE  QueueTypeOK' /\ AttemptLeft'
<1>1. QueueTypeOK'
  BY DEF QueueTypeOK, JobRecords, JobStates, AddJob
<1>2. AttemptLeft'
  BY DEF QueueTypeOK, JobRecords, AttemptLeft, AddJob
<1>. QED  BY <1>1, <1>2

LEMMA TakeJobType ==
  ASSUME QueueTypeOK, AttemptLeft, NEW s \in Statements, NEW w \in Workers,
         TakeJob(w, s)
  PROVE  QueueTypeOK' /\ AttemptLeft'
<1>1. QueueTypeOK'
  BY DEF QueueTypeOK, JobRecords, JobStates, TakeJob
<1>2. AttemptLeft'
  BY DEF QueueTypeOK, JobRecords, AttemptLeft, TakeJob
<1>. QED  BY <1>1, <1>2

LEMMA FinishType ==
  ASSUME QueueTypeOK, AttemptLeft, NEW s \in Statements,
         jobs[s].attemptsMade < Attempts,
         NEW state \in {"completed", "failed", "wait"}, Finish(s, state),
         state = "wait" => jobs[s].attemptsMade + 1 < Attempts
  PROVE  QueueTypeOK' /\ AttemptLeft'
<1>1. jobs[s].attemptsMade + 1 \in 0..Attempts
  BY QueueAssumption DEF QueueTypeOK, JobRecords
<1>2. QueueTypeOK'
  BY <1>1 DEF QueueTypeOK, JobRecords, JobStates, Finish
<1>3. AttemptLeft'
  BY DEF QueueTypeOK, JobRecords, AttemptLeft, Finish
<1>. QED  BY <1>2, <1>3

LEMMA AnswerJobType ==
  ASSUME QueueTypeOK, AttemptLeft, NEW s \in Statements, NEW w \in Workers,
         \/ CompleteJob(w, s)
         \/ \E unrecoverable \in BOOLEAN : FailJob(w, s, unrecoverable)
  PROVE  QueueTypeOK' /\ AttemptLeft'
<1>1. CASE Holds(w, s)
  <2>1. jobs[s].attemptsMade < Attempts
    BY <1>1 DEF AttemptLeft, Holds
  <2>2. CASE CompleteJob(w, s)
    BY <1>1, <2>1, <2>2, FinishType DEF CompleteJob
  <2>3. CASE \E unrecoverable \in BOOLEAN : FailJob(w, s, unrecoverable)
    <3>1. PICK state \in {"failed", "wait"} :
            /\ Finish(s, state)
            /\ state = "wait" => ~(jobs[s].attemptsMade + 1 >= Attempts)
      BY <1>1, <2>3 DEF FailJob
    <3>2. state = "wait" => jobs[s].attemptsMade + 1 < Attempts
      BY <3>1, QueueAssumption DEF QueueTypeOK, JobRecords
    <3>. QED  BY <2>1, <3>1, <3>2, FinishType
  <2>. QED  BY <2>2, <2>3
<1>2. CASE ~Holds(w, s)
  <2>1. UNCHANGED jobs
    BY <1>2 DEF CompleteJob, FailJob
  <2>. QED  BY <2>1 DEF QueueTypeOK, AttemptLeft
<1>. QED  BY <1>1, <1>2

LEMMA StallJobType ==
  ASSUME QueueTypeOK, AttemptLeft, NEW s \in Statements, StallJob(s)
  PROVE  QueueTypeOK' /\ AttemptLeft'
<1>. DEFINE count == IF Doomed(s) THEN jobs[s].stalled ELSE jobs[s].stalled + 1
<1>0. count \in 0..(MaxStalled + 1)
  BY QueueAssumption DEF QueueTypeOK, JobRecords, Doomed
<1>1. QueueTypeOK'
  <2>. HIDE DEF count
  <2>1. jobs' = [jobs EXCEPT ![s].state = "wait", ![s].stalled = count,
                             ![s].holder = NoWorker]
    BY DEF StallJob, count
  <2>. QED  BY <1>0, <2>1 DEF QueueTypeOK, JobRecords, JobStates
<1>2. AttemptLeft'
  BY DEF QueueTypeOK, JobRecords, AttemptLeft, StallJob
<1>. QED  BY <1>1, <1>2

-----------------------------------------------------------------------------
(* What the steps of a worker do to its record. *)

WorkersTypeOK == workers \in [Workers -> WorkerRecords]

LEMMA AdvanceType ==
  ASSUME WorkersTypeOK, NEW w \in Workers, NEW label \in WorkerPcs,
         Advance(w, label)
  PROVE  WorkersTypeOK'
BY DEF WorkersTypeOK, WorkerRecords, Advance

LEMMA ThrowType ==
  ASSUME WorkersTypeOK, NEW w \in Workers, NEW err \in Errors, Throw(w, err)
  PROVE  WorkersTypeOK'
<1>1. "nack" \in WorkerPcs
  BY DEF WorkerPcs
<1>. QED  BY <1>1 DEF WorkersTypeOK, WorkerRecords, Throw

LEMMA RestType ==
  ASSUME WorkersTypeOK, NEW w \in Workers, Rest(w)
  PROVE  WorkersTypeOK'
<1>1. Idle \in WorkerRecords
  BY QueueAssumption DEF Idle, WorkerRecords, WorkerPcs, RunNumbers
<1>. QED  BY <1>1 DEF WorkersTypeOK, Rest

LEMMA SetStatusType ==
  ASSUME status \in [Statements -> Statuses],
         reason \in [Statements -> Errors \cup {"none"}],
         NEW s \in Statements, NEW new \in Statuses,
         NEW why \in Errors \cup {"none"}, SetStatus(s, new, why)
  PROVE  /\ status' \in [Statements -> Statuses]
         /\ reason' \in [Statements -> Errors \cup {"none"}]
BY DEF SetStatus

-----------------------------------------------------------------------------
(* Type correctness. *)

\* A worker that is not idle has a queued job; one about to answer with a
\* failure has its error; one about to mark has committed its batch.
WorkersBusy ==
  \A w \in Workers : ~At(w, "idle") =>
    /\ Job(w) \in Statements
    /\ jobs[Job(w)].state # "absent"
    /\ At(w, "nack") => workers[w].err \in Errors
    /\ At(w, "mark") => batches[Job(w)] # {}

TypeInv == TypeOK /\ AttemptLeft /\ WorkersBusy

LEMMA InitType == Init => TypeInv
<1>. SUFFICES ASSUME Init PROVE TypeInv
  OBVIOUS
<1>. USE DEF Init, QueueInit
<1>1. QueueTypeOK
  BY QueueAssumption DEF QueueTypeOK, JobRecords, JobStates
<1>2. WorkersTypeOK
  <2>1. Idle \in WorkerRecords
    BY QueueAssumption DEF Idle, WorkerRecords, WorkerPcs, RunNumbers
  <2>. QED  BY <2>1 DEF WorkersTypeOK
<1>3. TypeOK
  BY <1>1, <1>2 DEF TypeOK, WorkersTypeOK, RequestPcs, Statuses, NoticeRecords
<1>4. AttemptLeft
  BY QueueAssumption DEF AttemptLeft
<1>5. WorkersBusy
  BY DEF WorkersBusy, At, Idle
<1>. QED  BY <1>3, <1>4, <1>5 DEF TypeInv

LEMMA UploadType ==
  ASSUME TypeInv, NEW r \in Statements, UploadStep(r) \/ Abort(r)
  PROVE  TypeInv'
<1>. USE DEF TypeInv, TypeOK
<1>1. UNCHANGED <<upload, reason, batches, workers, notices>>
  BY DEF UploadStep, Abort, Reject, Lookup, Store, Create, Enqueue, rows
<1>2. UNCHANGED jobs \/ AddJob(r)
  BY DEF UploadStep, Abort, Reject, Lookup, Store, Create, Enqueue
<1>3. QueueTypeOK' /\ AttemptLeft'
  <2>1. CASE UNCHANGED jobs
    BY <2>1 DEF QueueTypeOK, AttemptLeft
  <2>2. CASE AddJob(r)
    BY <2>2, AddJobType
  <2>. QED  BY <1>2, <2>1, <2>2
<1>4. pc' \in [Statements -> RequestPcs]
  <2>1. PICK label \in RequestPcs : Goto(r, label)
    BY DEF UploadStep, Abort, Reject, Lookup, Store, Create, Enqueue, RequestPcs
  <2>. QED  BY <2>1 DEF Goto
<1>5. answer' \in [Statements -> Statements \cup {NoStatement}]
  BY DEF UploadStep, Abort, Reject, Lookup, Store, Create, Enqueue, Matches
<1>6. status' \in [Statements -> Statuses]
  BY DEF UploadStep, Abort, Reject, Lookup, Store, Create, Enqueue, rows,
         InsertRow, Statuses
<1>7. objects' \subseteq Statements
  BY DEF UploadStep, Abort, Reject, Lookup, Store, Create, Enqueue, PutObject
<1>8. WorkersBusy'
  <2>1. \A s \in Statements : jobs[s].state # "absent" => jobs'[s].state # "absent"
    BY <1>2 DEF AddJob, QueueTypeOK, JobRecords
  <2>. QED  BY <1>1, <2>1 DEF WorkersBusy, At, Job
<1>. QED  BY <1>1, <1>3, <1>4, <1>5, <1>6, <1>7, <1>8

LEMMA TakeType ==
  ASSUME TypeInv, NEW w \in Workers, NEW s \in Statements, Take(w, s)
  PROVE  TypeInv'
<1>. USE DEF TypeInv, TypeOK
<1>1. UNCHANGED <<upload, pc, answer, status, reason, objects, batches, notices>>
  BY DEF Take, requests, rows
<1>2. QueueTypeOK' /\ AttemptLeft'
  BY TakeJobType DEF Take
<1>. DEFINE taken == IF Doomed(s)
       THEN [pc |-> "nack", job |-> s, run |-> 0, err |-> "stalled"]
       ELSE [pc |-> "begin", job |-> s, run |-> RunNumber(s), err |-> "none"]
<1>3. taken \in WorkerRecords
  <2>1. 0 \in RunNumbers
    BY QueueAssumption DEF RunNumbers
  <2>2. ~Doomed(s) => RunNumber(s) \in RunNumbers
    BY QueueAssumption DEF Take, TakeJob, AttemptLeft, Doomed, RunNumber, RunNumbers,
                           QueueTypeOK, JobRecords
  <2>. QED  BY <2>1, <2>2 DEF WorkerRecords, WorkerPcs, Errors
<1>4. workers' = [workers EXCEPT ![w] = taken]
  BY DEF Take
<1>5. workers' \in [Workers -> WorkerRecords]
  BY <1>3, <1>4
<1>6. WorkersBusy'
  <2>1. \A t \in Statements : jobs[t].state # "absent" => jobs'[t].state # "absent"
    BY DEF Take, TakeJob, QueueTypeOK, JobRecords
  <2>2. jobs'[s].state # "absent"
    BY DEF Take, TakeJob, QueueTypeOK, JobRecords
  <2>. SUFFICES ASSUME NEW v \in Workers, ~At(v, "idle")'
                PROVE  /\ Job(v)' \in Statements
                       /\ (jobs[Job(v)].state # "absent")'
                       /\ At(v, "nack")' => (workers[v].err \in Errors)'
                       /\ At(v, "mark")' => (batches[Job(v)] # {})'
    BY DEF WorkersBusy
  <2>3. CASE v = w
    <3>1. workers'[v] = taken
      BY <1>4, <2>3
    <3>. QED  BY <2>2, <3>1 DEF At, Job, Errors
  <2>4. CASE v # w
    <3>1. workers'[v] = workers[v]
      BY <1>4, <2>4
    <3>. QED  BY <1>1, <2>1, <3>1 DEF WorkersBusy, At, Job
  <2>. QED  BY <2>3, <2>4
<1>. QED  BY <1>1, <1>2, <1>5, <1>6

\* A step of one worker keeps WorkersBusy when it keeps it for that worker and
\* takes neither jobs nor batches away from the others.
LEMMA BusyStep ==
  ASSUME TypeInv, NEW w \in Workers,
         \A v \in Workers \ {w} : workers'[v] = workers[v],
         \A s \in Statements : jobs[s].state # "absent" => jobs'[s].state # "absent",
         \A s \in Statements : batches[s] \subseteq batches'[s],
         ~At(w, "idle")' =>
           /\ Job(w)' = Job(w)
           /\ ~At(w, "idle")
           /\ At(w, "nack")' => (workers[w].err \in Errors)'
           /\ At(w, "mark")' => (batches[Job(w)] # {})'
  PROVE  WorkersBusy'
<1>. SUFFICES ASSUME NEW v \in Workers, ~At(v, "idle")'
              PROVE  /\ Job(v)' \in Statements
                     /\ (jobs[Job(v)].state # "absent")'
                     /\ At(v, "nack")' => (workers[v].err \in Errors)'
                     /\ At(v, "mark")' => (batches[Job(v)] # {})'
  BY DEF WorkersBusy
<1>1. CASE v = w
  BY <1>1 DEF TypeInv, WorkersBusy, Job
<1>2. CASE v # w
  BY <1>2 DEF TypeInv, WorkersBusy, At, Job
<1>. QED  BY <1>1, <1>2

LEMMA WorkerType ==
  ASSUME TypeInv, NEW w \in Workers, WorkerStep(w) \/ LoseAnswer(w) \/ Crash(w)
  PROVE  TypeInv'
<1>. USE DEF TypeInv, TypeOK
<1>0. WorkersTypeOK
  BY DEF WorkersTypeOK
<1>1. UNCHANGED <<upload, pc, answer, objects>>
  BY DEF WorkerStep, LoseAnswer, Crash, Begin, Load, Extract, Insert, Mark,
         Ack, Nack, requests
<1>2. ASSUME Begin(w) \/ Load(w) \/ Extract(w) \/ Insert(w) \/ Mark(w)
      PROVE  TypeInv'
  <2>. USE DEF Begin, Load, Extract, Insert, Mark
  <2>1. Job(w) \in Statements
    BY <1>2 DEF WorkersBusy, At
  <2>2. UNCHANGED <<jobs, notices>>
    BY <1>2
  <2>3. \/ \E label \in WorkerPcs \ {"idle", "nack"} :
             Advance(w, label) /\ (label = "mark" => InsertBatch(w))
        \/ \E err \in Errors : Throw(w, err)
    BY <1>2 DEF WorkerPcs, Errors, Thrown, ExtractErrors, LoadError
  <2>4. /\ status' \in [Statements -> Statuses]
        /\ reason' \in [Statements -> Errors \cup {"none"}]
    <3>1. CASE \E new \in Statuses : SetStatus(Job(w), new, "none")
      BY <2>1, <3>1, SetStatusType
    <3>2. CASE UNCHANGED rows
      BY <3>2 DEF rows
    <3>. QED  BY <1>2, <3>1, <3>2 DEF Statuses
  <2>5. UNCHANGED batches \/ InsertBatch(w)
    BY <1>2
  <2>6. batches' \in [Statements -> SUBSET RunNumbers]
    BY <2>1, <2>5 DEF InsertBatch, WorkerRecords
  <2>7. WorkersTypeOK'
    BY <1>0, <2>3, AdvanceType, ThrowType
  <2>8. WorkersBusy'
    <3>1. \A v \in Workers \ {w} : workers'[v] = workers[v]
      BY <2>3 DEF Advance, Throw
    <3>2. \A s \in Statements : batches[s] \subseteq batches'[s]
      BY <2>5, <2>1 DEF InsertBatch
    <3>3. Job(w)' = Job(w) /\ ~At(w, "idle")
      BY <1>2, <2>3 DEF Advance, Throw, Job, At, WorkerRecords
    <3>4. At(w, "nack")' => (workers[w].err \in Errors)'
      BY <2>3 DEF Advance, Throw, At, WorkerRecords
    <3>5. At(w, "mark")' => (batches[Job(w)] # {})'
      <4>1. At(w, "mark")' => InsertBatch(w)
        BY <2>3 DEF Advance, Throw, At, WorkerRecords
      <4>. QED  BY <2>1, <3>3, <4>1 DEF InsertBatch
    <3>. QED  BY <2>2, <3>1, <3>2, <3>3, <3>4, <3>5, BusyStep
  <2>. QED  BY <1>1, <2>2, <2>4, <2>6, <2>7, <2>8
            DEF QueueTypeOK, AttemptLeft, WorkersTypeOK
<1>3. ASSUME Ack(w) \/ Nack(w)
      PROVE  TypeInv'
  <2>. USE DEF Ack, Nack
  <2>1. Job(w) \in Statements /\ jobs[Job(w)].state # "absent"
    BY <1>3 DEF WorkersBusy, At
  <2>2. UNCHANGED <<status, reason, batches>> /\ Rest(w)
    BY <1>3 DEF rows
  <2>3. \/ CompleteJob(w, Job(w))
        \/ \E unrecoverable \in BOOLEAN : FailJob(w, Job(w), unrecoverable)
    <3>1. Unrecoverable(workers[w].err) \in BOOLEAN
      BY DEF Unrecoverable
    <3>. QED  BY <1>3, <3>1
  <2>4. QueueTypeOK' /\ AttemptLeft'
    BY <2>1, <2>3, AnswerJobType
  <2>5. notices' \subseteq NoticeRecords
    <3>1. At(w, "nack") => Notice(w) \in NoticeRecords
      BY <2>1 DEF WorkersBusy, At, Notice, NoticeRecords
    <3>. QED  BY <1>3, <3>1
  <2>6. WorkersTypeOK'
    BY <1>0, <2>2, RestType
  <2>7. WorkersBusy'
    <3>1. \A v \in Workers \ {w} : workers'[v] = workers[v]
      BY <2>2 DEF Rest
    <3>2. At(w, "idle")'
      BY <2>2 DEF Rest, At, Idle
    <3>3. \A s \in Statements : jobs[s].state # "absent" => jobs'[s].state # "absent"
      <4>1. \/ UNCHANGED jobs
            \/ \E state \in {"completed", "failed", "wait"} : Finish(Job(w), state)
        BY <2>3 DEF CompleteJob, FailJob
      <4>. QED  BY <2>1, <4>1 DEF Finish, QueueTypeOK, JobRecords
    <3>. QED  BY <2>2, <3>1, <3>2, <3>3, BusyStep
  <2>. QED  BY <1>1, <2>2, <2>4, <2>5, <2>6, <2>7 DEF WorkersTypeOK
<1>4. ASSUME LoseAnswer(w) \/ Crash(w)
      PROVE  TypeInv'
  <2>1. UNCHANGED <<jobs, status, reason, batches>> /\ Rest(w)
    BY <1>4 DEF LoseAnswer, Crash, rows
  <2>2. notices' \subseteq notices
    BY <1>4 DEF LoseAnswer, Crash
  <2>3. WorkersTypeOK'
    BY <1>0, <2>1, RestType
  <2>4. WorkersBusy'
    BY <2>1, BusyStep DEF Rest, At, Idle
  <2>. QED  BY <1>1, <2>1, <2>2, <2>3, <2>4
            DEF QueueTypeOK, AttemptLeft, WorkersTypeOK
<1>. QED  BY <1>2, <1>3, <1>4 DEF WorkerStep

LEMMA HandlerType ==
  ASSUME TypeInv, NEW n \in notices, OnFailed(n)
  PROVE  TypeInv'
<1>. USE DEF TypeInv, TypeOK
<1>1. UNCHANGED <<jobs, upload, pc, answer, objects, batches, workers>>
  BY DEF OnFailed, requests
<1>2. n.job \in Statements /\ n.err \in Errors
  BY DEF NoticeRecords
<1>3. /\ status' \in [Statements -> Statuses]
      /\ reason' \in [Statements -> Errors \cup {"none"}]
  <2>1. CASE SetStatus(n.job, "failed", n.err)
    BY <1>2, <2>1, SetStatusType DEF Statuses
  <2>2. CASE UNCHANGED rows
    BY <2>2 DEF rows
  <2>. QED  BY <2>1, <2>2 DEF OnFailed
<1>4. notices' \subseteq NoticeRecords
  BY DEF OnFailed
<1>5. WorkersBusy'
  BY <1>1 DEF WorkersBusy, At, Job
<1>. QED  BY <1>1, <1>3, <1>4, <1>5 DEF QueueTypeOK, AttemptLeft

LEMMA StallType ==
  ASSUME TypeInv, NEW s \in Statements, Stall(s)
  PROVE  TypeInv'
<1>. USE DEF TypeInv, TypeOK
<1>1. UNCHANGED <<upload, pc, answer, status, reason, objects, batches, workers, notices>>
  BY DEF Stall, requests, rows
<1>2. QueueTypeOK' /\ AttemptLeft'
  BY StallJobType DEF Stall
<1>3. \A t \in Statements : jobs[t].state # "absent" => jobs'[t].state # "absent"
  BY DEF Stall, StallJob, QueueTypeOK, JobRecords
<1>4. WorkersBusy'
  BY <1>1, <1>3 DEF WorkersBusy, At, Job
<1>. QED  BY <1>1, <1>2, <1>4

LEMMA TypeStep == TypeInv /\ [Next]_vars => TypeInv'
<1>. SUFFICES ASSUME TypeInv, [Next]_vars PROVE TypeInv'
  OBVIOUS
<1>1. ASSUME NEW r \in Statements, UploadStep(r) \/ Abort(r) PROVE TypeInv'
  BY <1>1, UploadType
<1>2. ASSUME NEW w \in Workers, NEW s \in Statements, Take(w, s) PROVE TypeInv'
  BY <1>2, TakeType
<1>3. ASSUME NEW w \in Workers, WorkerStep(w) \/ LoseAnswer(w) \/ Crash(w)
      PROVE  TypeInv'
  BY <1>3, WorkerType
<1>4. ASSUME NEW n \in notices, OnFailed(n) PROVE TypeInv'
  BY <1>4, HandlerType
<1>5. ASSUME NEW s \in Statements, Stall(s) PROVE TypeInv'
  BY <1>5, StallType
<1>6. CASE UNCHANGED vars
  BY <1>6 DEF vars, requests, rows, TypeInv, TypeOK, QueueTypeOK, AttemptLeft,
              WorkersBusy, At, Job
<1>. QED  BY <1>1, <1>2, <1>3, <1>4, <1>5, <1>6 DEF Next, Terminating

LEMMA TypeInvariant == Spec => []TypeInv
BY InitType, TypeStep, PTL DEF Spec

\* Every state the pipeline reaches is well typed, whatever faults are on: a
\* job never has more attempts than it is allowed, and the batches of a
\* statement are numbered by at most Attempts + MaxStalled runs.
THEOREM TypeCorrect == Spec => []TypeOK
<1>1. TypeInv => TypeOK
  BY DEF TypeInv
<1>. QED  BY <1>1, TypeInvariant, PTL

-----------------------------------------------------------------------------
(* The tables, the object store and the queue agree. *)

\* How far a request is tells what it has left behind.
RequestsInOrder ==
  \A r \in Statements :
    /\ pc[r] \in {"received", "storing", "creating"} => ~Exists(r)
    /\ pc[r] = "creating" \/ Exists(r) => r \in objects
    /\ pc[r] = "enqueueing" => Exists(r)
    /\ jobs[r].state # "absent" => Exists(r)

\* The unique index on (userId, contentHash).
OneRowPerFile ==
  \A r, s \in Statements : Exists(r) /\ Exists(s) /\ SameKey(r, s) => r = s

\* onFailed writes only for a job the queue has given up.
NoticesFinal == \A n \in notices : jobs[n.job].state = "failed"

TablesInv ==
  /\ RequestsInOrder
  /\ OneRowPerFile
  /\ AnsweredWithOwnStatement
  /\ NoticesFinal
  /\ FailedIsFinal
  /\ ParsedHasBatch

LEMMA InitTables == Init => TablesInv
BY DEF Init, QueueInit, TablesInv, RequestsInOrder, OneRowPerFile, Exists,
       AnsweredWithOwnStatement, NoticesFinal, FailedIsFinal, ParsedHasBatch

LEMMA UploadTables ==
  ASSUME TypeInv, TablesInv, NEW r \in Statements, UploadStep(r) \/ Abort(r)
  PROVE  TablesInv'
<1>. USE DEF TypeInv, TypeOK, TablesInv
<1>1. UNCHANGED <<upload, batches, notices>>
  BY DEF UploadStep, Abort, Reject, Lookup, Store, Create, Enqueue, rows
<1>2. \/ UNCHANGED status
      \/ /\ pc[r] = "creating"
         /\ CanInsertRow(r)
         /\ status' = [status EXCEPT ![r] = "pending"]
         /\ pc'[r] \in {"enqueueing", "aborted"}
  BY DEF UploadStep, Abort, Reject, Lookup, Store, Create, Enqueue, rows,
         InsertRow, Goto
<1>3. \/ UNCHANGED jobs
      \/ pc[r] = "enqueueing" /\ AddJob(r)
  BY DEF UploadStep, Abort, Reject, Lookup, Store, Create, Enqueue
<1>4. /\ objects \subseteq objects'
      /\ pc'[r] = "creating" => r \in objects'
  BY DEF UploadStep, Abort, Reject, Lookup, Store, Create, Enqueue, PutObject, Goto
<1>5. \A s \in Statements \ {r} : pc'[s] = pc[s] /\ answer'[s] = answer[s]
  BY DEF UploadStep, Abort, Reject, Lookup, Store, Create, Enqueue, Goto
<1>6. \A s \in Statements : Exists(s) => status'[s] = status[s]
  BY <1>2 DEF RequestsInOrder, Exists
<1>7. \A s \in Statements : jobs[s].state = "failed" => jobs'[s].state = "failed"
  BY <1>3 DEF AddJob, QueueTypeOK, JobRecords
<1>8. RequestsInOrder'
  <2>1. \A s \in Statements : jobs'[s].state # "absent" => Exists(s)'
    BY <1>3, <1>6 DEF RequestsInOrder, Exists, AddJob, QueueTypeOK, JobRecords
  <2>2. \A s \in Statements \ {r} : Exists(s)' = Exists(s)
    BY <1>2 DEF Exists
  <2>3. pc'[r] \in {"received", "storing", "creating"} => ~Exists(r)'
    BY <1>2 DEF UploadStep, Abort, Reject, Lookup, Store, Create, Enqueue, Goto,
                RequestsInOrder, Exists, rows
  <2>4. pc'[r] = "enqueueing" => Exists(r)'
    BY DEF UploadStep, Abort, Reject, Lookup, Store, Create, Enqueue, Goto,
           InsertRow, Exists
  <2>5. Exists(r)' => r \in objects'
    BY <1>2, <1>4 DEF RequestsInOrder, Exists
  <2>. QED  BY <1>4, <1>5, <2>1, <2>2, <2>3, <2>4, <2>5 DEF RequestsInOrder
<1>9. OneRowPerFile'
  BY <1>1, <1>2 DEF OneRowPerFile, CanInsertRow, Matches, Exists, SameKey
<1>10. AnsweredWithOwnStatement'
  <2>1. pc'[r] = "answered" =>
          /\ answer'[r] \in Statements
          /\ status[answer'[r]] # "absent"
          /\ SameKey(r, answer'[r])
    <3>1. CASE Lookup(r)
      BY <3>1 DEF Lookup, Goto, Matches, Exists
    <3>2. CASE Enqueue(r)
      BY <3>2 DEF Enqueue, Goto, SameKey, RequestsInOrder, Exists
    <3>3. CASE Reject(r) \/ Store(r) \/ Create(r) \/ Abort(r)
      BY <3>3 DEF Reject, Store, Create, Abort, Goto
    <3>. QED  BY <3>1, <3>2, <3>3 DEF UploadStep
  <2>2. \A s \in Statements \ {r} : pc'[s] = "answered" =>
          /\ answer'[s] \in Statements
          /\ status[answer'[s]] # "absent"
          /\ SameKey(s, answer'[s])
    BY <1>5 DEF AnsweredWithOwnStatement, Exists, SameKey
  <2>. QED  BY <1>1, <1>6, <2>1, <2>2, PipelineAssumption
            DEF AnsweredWithOwnStatement, Exists, SameKey
<1>11. NoticesFinal'
  BY <1>1, <1>7 DEF NoticesFinal, NoticeRecords
<1>12. FailedIsFinal'
  BY <1>2, <1>7 DEF FailedIsFinal
<1>13. ParsedHasBatch'
  BY <1>1, <1>2 DEF ParsedHasBatch
<1>. QED  BY <1>8, <1>9, <1>10, <1>11, <1>12, <1>13

\* Everything but an upload.
Work ==
  \/ \E w \in Workers, s \in Statements : Take(w, s)
  \/ \E w \in Workers : WorkerStep(w) \/ LoseAnswer(w) \/ Crash(w)
  \/ \E n \in notices : OnFailed(n)
  \/ \E s \in Statements : Stall(s)

\* Work neither adds a job nor revives one that was given up.
LEMMA WorkOnJobs ==
  ASSUME TypeInv, Work, NEW s \in Statements
  PROVE  /\ jobs'[s].state = "absent" <=> jobs[s].state = "absent"
         /\ jobs[s].state = "failed" => jobs'[s].state = "failed"
<1>. USE DEF TypeInv, TypeOK, QueueTypeOK, JobRecords
<1>1. ASSUME NEW w \in Workers, NEW t \in Statements, TakeJob(w, t)
      PROVE  /\ jobs'[s].state = "absent" <=> jobs[s].state = "absent"
             /\ jobs[s].state = "failed" => jobs'[s].state = "failed"
  BY <1>1 DEF TakeJob
<1>2. ASSUME NEW w \in Workers, Ack(w) \/ Nack(w)
      PROVE  /\ jobs'[s].state = "absent" <=> jobs[s].state = "absent"
             /\ jobs[s].state = "failed" => jobs'[s].state = "failed"
  <2>1. Job(w) \in Statements
    BY <1>2 DEF Ack, Nack, WorkersBusy, At
  <2>2. \/ UNCHANGED jobs
        \/ /\ jobs[Job(w)].state = "active"
           /\ \E state \in {"completed", "failed", "wait"} : Finish(Job(w), state)
    BY <1>2 DEF Ack, Nack, CompleteJob, FailJob, Holds
  <2>. QED  BY <2>1, <2>2 DEF Finish
<1>3. ASSUME NEW t \in Statements, StallJob(t)
      PROVE  /\ jobs'[s].state = "absent" <=> jobs[s].state = "absent"
             /\ jobs[s].state = "failed" => jobs'[s].state = "failed"
  BY <1>3 DEF StallJob
<1>4. \/ UNCHANGED jobs
      \/ \E w \in Workers, t \in Statements : TakeJob(w, t)
      \/ \E w \in Workers : Ack(w) \/ Nack(w)
      \/ \E t \in Statements : StallJob(t)
  BY DEF Work, Take, WorkerStep, Begin, Load, Extract, Insert, Mark, LoseAnswer,
         Crash, OnFailed, Stall
<1>. QED  BY <1>1, <1>2, <1>3, <1>4

\* Work writes the status of rows that exist, and writes 'parsed' and 'failed'
\* only where they are due.
LEMMA WorkOnRows ==
  ASSUME TypeInv, TablesInv, Work, NEW s \in Statements
  PROVE  /\ UNCHANGED <<upload, pc, answer, objects>>
         /\ batches[s] \subseteq batches'[s]
         /\ \/ status'[s] = status[s]
            \/ Exists(s) /\ status'[s] = "processing"
            \/ Exists(s) /\ status'[s] = "parsed" /\ batches[s] # {}
            \/ Exists(s) /\ status'[s] = "failed" /\ jobs[s].state = "failed"
<1>. USE DEF TypeInv, TypeOK, TablesInv
<1>1. UNCHANGED <<upload, pc, answer, objects>>
  BY DEF Work, Take, WorkerStep, Begin, Load, Extract, Insert, Mark, Ack, Nack,
         LoseAnswer, Crash, OnFailed, Stall, requests
<1>2. \/ UNCHANGED batches
      \/ \E w \in Workers : Insert(w) /\ InsertBatch(w)
  BY DEF Work, Take, WorkerStep, Begin, Load, Extract, Insert, Mark, Ack, Nack,
         LoseAnswer, Crash, OnFailed, Stall
<1>3. batches[s] \subseteq batches'[s]
  BY <1>2 DEF Insert, InsertBatch, WorkersBusy, At
<1>4. \/ UNCHANGED status
      \/ \E w \in Workers : Begin(w) \/ Mark(w)
      \/ \E n \in notices : OnFailed(n)
  BY DEF Work, Take, WorkerStep, Load, Extract, Insert, Ack, Nack,
         LoseAnswer, Crash, Stall, rows
<1>5. ASSUME NEW w \in Workers, Begin(w)
      PROVE  status'[s] = status[s] \/ (Exists(s) /\ status'[s] = "processing")
  BY <1>5 DEF Begin, SetStatus, rows
<1>6. ASSUME NEW w \in Workers, Mark(w)
      PROVE  \/ status'[s] = status[s]
             \/ Exists(s) /\ status'[s] = "parsed" /\ batches[s] # {}
  <2>1. /\ Job(w) \in Statements
        /\ Exists(Job(w))
        /\ batches[Job(w)] # {}
    BY <1>6 DEF Mark, At, WorkersBusy, RequestsInOrder
  <2>. QED  BY <1>6, <2>1 DEF Mark, SetStatus, rows
<1>7. ASSUME NEW n \in notices, OnFailed(n)
      PROVE  \/ status'[s] = status[s]
             \/ Exists(s) /\ status'[s] = "failed" /\ jobs[s].state = "failed"
  <2>1. /\ n.job \in Statements
        /\ jobs[n.job].state = "failed"
        /\ Exists(n.job)
    BY DEF NoticeRecords, NoticesFinal, RequestsInOrder
  <2>. QED  BY <1>7, <2>1 DEF OnFailed, SetStatus, rows
<1>. QED  BY <1>1, <1>3, <1>4, <1>5, <1>6, <1>7

LEMMA WorkNotices ==
  ASSUME TypeInv, NoticesFinal, Work
  PROVE  NoticesFinal'
<1>. USE DEF TypeInv, TypeOK
<1>1. \A n \in notices : jobs'[n.job].state = "failed"
  BY WorkOnJobs DEF NoticesFinal, NoticeRecords
<1>2. \/ notices' \subseteq notices
      \/ \E w \in Workers :
           /\ Nack(w)
           /\ Holds(w, Job(w))
           /\ IsPermanent(workers[w].err, jobs'[Job(w)].attemptsMade)
           /\ notices' = notices \cup {Notice(w)}
  BY DEF Work, Take, WorkerStep, Begin, Load, Extract, Insert, Mark, Ack, Nack,
         LoseAnswer, Crash, OnFailed, Stall
<1>3. ASSUME NEW w \in Workers, Nack(w), Holds(w, Job(w)),
             IsPermanent(workers[w].err, jobs'[Job(w)].attemptsMade)
      PROVE  jobs'[Job(w)].state = "failed"
  <2>1. Job(w) \in Statements
    BY <1>3 DEF Nack, WorkersBusy, At
  <2>2. jobs'[Job(w)].attemptsMade = jobs[Job(w)].attemptsMade + 1
    BY <1>3, <2>1 DEF Nack, FailJob, Finish, QueueTypeOK, JobRecords
  <2>3. \/ Unrecoverable(workers[w].err)
        \/ jobs[Job(w)].attemptsMade + 1 >= Attempts
    BY <1>3, <2>2 DEF IsPermanent
  <2>. QED  BY <1>3, <2>1, <2>3 DEF Nack, FailJob, Finish, QueueTypeOK, JobRecords
<1>. QED  BY <1>1, <1>2, <1>3 DEF NoticesFinal, Notice

LEMMA WorkTables ==
  ASSUME TypeInv, TablesInv, Work
  PROVE  TablesInv'
<1>1. UNCHANGED <<upload, pc, answer, objects>>
  BY WorkOnRows DEF Work, Take, WorkerStep, Begin, Load, Extract, Insert, Mark,
     Ack, Nack, LoseAnswer, Crash, OnFailed, Stall, requests
<1>2. \A s \in Statements : Exists(s)' <=> Exists(s)
  BY WorkOnRows DEF Exists
<1>3. RequestsInOrder'
  BY <1>1, <1>2, WorkOnJobs DEF TablesInv, RequestsInOrder
<1>4. OneRowPerFile'
  BY <1>1, <1>2 DEF TablesInv, OneRowPerFile, SameKey
<1>5. AnsweredWithOwnStatement'
  <2>1. \A r \in Statements : pc[r] = "answered" => answer[r] \in Statements
    BY DEF TypeInv, TypeOK, TablesInv, AnsweredWithOwnStatement
  <2>. QED  BY <1>1, <1>2, <2>1 DEF TablesInv, AnsweredWithOwnStatement, Exists
<1>6. NoticesFinal'
  BY WorkNotices DEF TablesInv
<1>7. FailedIsFinal'
  BY WorkOnRows, WorkOnJobs DEF TablesInv, FailedIsFinal
<1>8. ParsedHasBatch'
  BY WorkOnRows DEF TablesInv, ParsedHasBatch
<1>. QED  BY <1>3, <1>4, <1>5, <1>6, <1>7, <1>8 DEF TablesInv

LEMMA TablesStep == TypeInv /\ TablesInv /\ [Next]_vars => TablesInv'
<1>. SUFFICES ASSUME TypeInv, TablesInv, [Next]_vars PROVE TablesInv'
  OBVIOUS
<1>1. ASSUME NEW r \in Statements, UploadStep(r) \/ Abort(r) PROVE TablesInv'
  BY <1>1, UploadTables
<1>2. CASE Work
  BY <1>2, WorkTables
<1>3. CASE UNCHANGED vars
  BY <1>3 DEF vars, requests, rows, TablesInv, RequestsInOrder, OneRowPerFile,
     Exists, SameKey, AnsweredWithOwnStatement, NoticesFinal, FailedIsFinal,
     ParsedHasBatch
<1>. QED  BY <1>1, <1>2, <1>3 DEF Next, Work, Terminating

LEMMA TablesInvariant == Spec => []TablesInv
BY InitType, TypeStep, InitTables, TablesStep, PTL DEF Spec

\* However uploads of one user's file race, and whatever calls fail, at most
\* one of them gets a row or a job.
THEOREM NoDuplicateProcessing == Spec => []OneStatementPerFile
<1>1. TablesInv => OneStatementPerFile
  BY DEF TablesInv, RequestsInOrder, OneRowPerFile, SameKey, OneStatementPerFile
<1>. QED  BY <1>1, TablesInvariant, PTL

\* A worker never meets a job without its row or its object.
THEOREM WorkIsReady == Spec => []QueuedIsReady
<1>1. TablesInv => QueuedIsReady
  BY DEF TablesInv, RequestsInOrder, QueuedIsReady
<1>. QED  BY <1>1, TablesInvariant, PTL

\* An answered request names a row of its own user and bytes.
THEOREM AnswersAreOwn == Spec => []AnsweredWithOwnStatement
<1>1. TablesInv => AnsweredWithOwnStatement
  BY DEF TablesInv
<1>. QED  BY <1>1, TablesInvariant, PTL

\* A parsed statement has transactions committed for it, also when workers
\* lose their locks or stop.
THEOREM ParsedMeansInserted == Spec => []ParsedHasBatch
<1>1. TablesInv => ParsedHasBatch
  BY DEF TablesInv
<1>. QED  BY <1>1, TablesInvariant, PTL

\* A statement shown as failed is never one the queue will try again.
THEOREM FailedMeansGivenUp == Spec => []FailedIsFinal
<1>1. TablesInv => FailedIsFinal
  BY DEF TablesInv
<1>. QED  BY <1>1, TablesInvariant, PTL
=============================================================================
