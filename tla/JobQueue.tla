------------------------------ MODULE JobQueue ------------------------------
(***************************************************************************)
(* The BullMQ queue `process-statement`, as the code in src/ uses it: an   *)
(* external component.  A job carries one statement id and is added once,  *)
(* so a job is named for its statement.  A worker takes a waiting job      *)
(* under a lock, and completes or fails it only while it still holds that  *)
(* lock.  A job whose lock ran out is stalled: it goes back to waiting and *)
(* is run again, so delivery is at least once.  A job that stalled more    *)
(* than MaxStalled times is doomed: the worker that takes it fails it      *)
(* without calling the processor.  The delay of a retry is the time a job  *)
(* spends in "wait".                                                       *)
(***************************************************************************)
EXTENDS Integers

CONSTANTS
  Statements,   \* the statement ids that jobs carry
  Workers,      \* the BullMQ workers, each with concurrency 1
  NoWorker,     \* the holder of a job that is not active
  Attempts,     \* the `attempts` option of every job (3 in the code)
  MaxStalled    \* BullMQ's maxStalledCount (1 by default)

ASSUME QueueAssumption ==
  /\ NoWorker \notin Workers
  /\ Attempts \in Nat \ {0}
  /\ MaxStalled \in Nat

VARIABLE jobs

JobStates == {"absent", "wait", "active", "completed", "failed"}

JobRecords == [state        : JobStates,
               attemptsMade : 0..Attempts,
               stalled      : 0..(MaxStalled + 1),
               holder       : Workers \cup {NoWorker}]

QueueTypeOK == jobs \in [Statements -> JobRecords]

QueueInit ==
  jobs = [s \in Statements |->
            [state |-> "absent", attemptsMade |-> 0,
             stalled |-> 0, holder |-> NoWorker]]

Doomed(s) == jobs[s].stalled > MaxStalled

\* The number of the run a worker starts by taking job s now: the runs that
\* ended in an answer plus those that ended in a stall.
RunNumber(s) == jobs[s].attemptsMade + jobs[s].stalled

\* The run numbers a job that is not doomed can have.
RunNumbers == 0..(Attempts + MaxStalled - 1)

Holds(w, s) == jobs[s].state = "active" /\ jobs[s].holder = w

-----------------------------------------------------------------------------
AddJob(s) ==
  /\ jobs[s].state = "absent"
  /\ jobs' = [jobs EXCEPT ![s].state = "wait"]

TakeJob(w, s) ==
  /\ jobs[s].state = "wait"
  /\ jobs' = [jobs EXCEPT ![s].state = "active", ![s].holder = w]

Finish(s, state) ==
  jobs' = [jobs EXCEPT ![s].state = state,
                       ![s].attemptsMade = @ + 1,
                       ![s].holder = NoWorker]

\* The answer of a worker that lost its lock is refused: nothing changes.
CompleteJob(w, s) ==
  IF Holds(w, s) THEN Finish(s, "completed") ELSE UNCHANGED jobs

\* The queue retries unless the error is an UnrecoverableError or this was
\* the last attempt.
FailJob(w, s, unrecoverable) ==
  IF Holds(w, s)
  THEN Finish(s, IF unrecoverable \/ jobs[s].attemptsMade + 1 >= Attempts
                 THEN "failed" ELSE "wait")
  ELSE UNCHANGED jobs

\* The lock of job s ran out.  `stalled` saturates at MaxStalled + 1: what
\* a doomed job does no longer depends on the count.
StallJob(s) ==
  /\ jobs[s].state = "active"
  /\ jobs' = [jobs EXCEPT ![s].state = "wait",
                          ![s].stalled = IF Doomed(s) THEN @ ELSE @ + 1,
                          ![s].holder = NoWorker]
=============================================================================
