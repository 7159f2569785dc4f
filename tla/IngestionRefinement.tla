------------------------- MODULE IngestionRefinement -------------------------
(* StatementPipeline implements Ingestion, with workers that keep their locks. *)
EXTENDS StatementPipeline

\* A failing object store or extraction leaves nothing behind that is not
\* known of; a failing database or queue, and a process that stops, may.
AnswersForCalls == Faults \subseteq {"storage", "gemini"}

Listed == INSTANCE Ingestion WITH
            Batches  <- RunNumbers,
            Once     <- AnswersForCalls,
            shown    <- status,
            recorded <- batches

\* Whatever fails, a statement moves from pending through processing to parsed
\* or failed: it is never failed and then anything else, never parsed or
\* processing without an attempt having begun, and gets transactions only while
\* an attempt is under way.
ImplementsIngestion == Listed!Spec

\* The same with its liveness: a statement that is listed settles.
ImplementsFairIngestion == Listed!FairSpec
=============================================================================
