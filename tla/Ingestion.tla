------------------------------ MODULE Ingestion ------------------------------
(***************************************************************************)
(* What StatementPipeline promises to those who list statements and        *)
(* transactions: no queue, no workers, no attempts, only the rows.         *)
(***************************************************************************)
CONSTANTS
  Statements,
  Batches,    \* names for the batches of transactions of a statement
  Once        \* whether what the pipeline calls answers for what it did

VARIABLES
  upload,     \* [Statements -> [user, file, ...]], which never changes
  shown,      \* the status a statement is listed with, "absent" if it is not
  recorded    \* the batches of transactions of each statement

vars == <<upload, shown, recorded>>

Init ==
  /\ shown = [s \in Statements |-> "absent"]
  /\ recorded = [s \in Statements |-> {}]

Show(s, new) ==
  /\ shown' = [shown EXCEPT ![s] = new]
  /\ UNCHANGED <<upload, recorded>>

\* A user's file is listed at most once.
Accept(s) ==
  /\ shown[s] = "absent"
  /\ \A t \in Statements :
       upload[t].user = upload[s].user /\ upload[t].file = upload[s].file =>
         shown[t] = "absent"
  /\ Show(s, "pending")

\* An attempt begins; only when an earlier one could not tell that it was
\* done, with a statement that is shown as parsed.
Start(s) ==
  /\ shown[s] \in {"pending"} \cup (IF Once THEN {} ELSE {"parsed"})
  /\ Show(s, "processing")

Record(s) ==
  /\ shown[s] = "processing"
  /\ Once => recorded[s] = {}
  /\ \E b \in Batches : recorded' = [recorded EXCEPT ![s] = @ \cup {b}]
  /\ UNCHANGED <<upload, shown>>

Finish(s) ==
  /\ shown[s] = "processing"
  /\ recorded[s] # {}
  /\ Show(s, "parsed")

GiveUp(s) ==
  /\ shown[s] \in {"pending", "processing"} \cup (IF Once THEN {} ELSE {"parsed"})
  /\ Once => recorded[s] = {}
  /\ Show(s, "failed")

Next ==
  \E s \in Statements :
    Accept(s) \/ Start(s) \/ Record(s) \/ Finish(s) \/ GiveUp(s)

Spec == Init /\ [][Next]_vars

\* A listed statement does not stay pending or processing.
FairSpec == Spec /\ \A s \in Statements : WF_vars(Finish(s) \/ GiveUp(s))
=============================================================================
