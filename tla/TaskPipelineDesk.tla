-------------------------- MODULE TaskPipelineDesk --------------------------
(* TaskPipeline implements OrderDesk. *)
EXTENDS TaskPipeline

StageOfStatus(s) ==
    CASE s \in PendingStatus -> "queued"
      [] s = "ml_review" -> "triage"
      [] s = "materials_review" -> "asking"
      [] s = "completed" -> "done"
      [] s = "error" -> "failed"
      [] OTHER -> s

Desk == INSTANCE OrderDesk WITH
    stage <- [t \in Tasks |-> StageOfStatus(status[t])],
    files <- results,
    dictionary <- {p \in Parts : mapping[p] # "unknown"},
    answered <- {t \in Tasks : manual[t] # NoAnswers}

\* Every behaviour of the pipeline, with its stale snapshots, crashes and requests that
\* check a row before they write it, is one the abstract desk allows.
ImplementsDesk == Desk!Spec
=============================================================================
