------------------------- MODULE TaskPipelineClaims -------------------------
(***************************************************************************)
(* What the changelog, the error texts and the log messages of the         *)
(* repository say of the pipeline and the code does not keep.              *)
(***************************************************************************)
EXTENDS TaskPipeline

\* CHANGELOG.md 1.1.1: "the class of an email can be changed at any stage".  Once a
\* task is completed, its files are those of the class the email has.
ClassChangeHonoured ==
    \A t \in Tasks :
        /\ status[t] = "completed"
        /\ Sole(t)
        /\ decision[EmailOf[t]] = "calculation"
        => HasFile(t, "articles")

\* The refusal of archive_email: "archiving is available only for the statuses
\* question, error, completed".
ArchivedOnlyWhenFinished ==
    [][\A e \in Emails :
          ~archived[e] /\ archived'[e] =>
            \E t \in Tasks : IsLatest(t, e) /\ status[t] \in Archivable]_vars

\* README.md: "clarification of data by the operator".  An order whose documents are
\* all in order, and whose questions an operator answered, does not end in an error
\* when no call failed.
AnsweredOrderSucceeds ==
    \A t \in Tasks :
        /\ manual[t] # NoAnswers
        /\ \A d \in DocsOf[EmailOf[t]] : Content[d] = "sound"
        /\ faults = 0 /\ crashes = 0
        => status[t] # "error"

=============================================================================
