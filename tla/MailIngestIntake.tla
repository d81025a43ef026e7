-------------------------- MODULE MailIngestIntake --------------------------
(* MailIngest implements MailIntake. *)
EXTENDS MailIngestInvariants

Marking(w, m) == worker[w].pc = "mark" /\ worker[w].msg = m
Holding(w, m) == m \in worker[w].todo \/ (worker[w].pc = "save" /\ worker[w].msg = m)

HandOf(m) ==
    IF \E w \in Workers : Marking(w, m) THEN "settled"
    ELSE IF \E w \in Workers : Holding(w, m) THEN "listed"
    ELSE "free"
Hand == [m \in Messages |-> HandOf(m)]

Intake == INSTANCE MailIntake WITH
    inbox <- mailbox,
    read <- seen,
    hand <- Hand,
    orders <- tasks,
    attachments <- documents

\* Every behaviour of the agent, with its goroutines, broken connections, crashes and the
\* people who use the same mailbox, is one the abstract intake allows (worker.go:143,
\* repo.go:224): in particular no message is in two hands, and none is marked before its order
\* is complete.
ImplementsIntake == Intake!Spec

\* What was parsed of a message is all of its attachments, or none.
FilesAreParsed ==
    \A w \in Workers :
        worker[w].pc = "save" => worker[w].files \in {{}, FilesOf[worker[w].msg]}

IntakeInv == IngestInv /\ FilesAreParsed
=============================================================================
