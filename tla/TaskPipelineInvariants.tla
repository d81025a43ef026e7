----------------------- MODULE TaskPipelineInvariants -----------------------
(* What makes the safety properties of TaskPipeline inductive: the copies   *)
(* the processor and the operators' requests act on are justified by the    *)
(* rows, however old they are.                                              *)
EXTENDS TaskPipeline

\* The locals of a handler: the loop stays within the task's documents and parts,
\* "a file was saved" is true, the articles wait only for a document that has its
\* first file, answers come from the task's row, and a refused task has its message.
JobJustified ==
    pc # "idle" =>
        /\ job.todo \cup job.upload \subseteq DocsOf[EmailOf[job.task]]
        /\ job.parts \cup job.asks \subseteq PartsOfTask(job.task)
        /\ job.saved => HasFile(job.task, "main")
        /\ \A d \in job.upload : <<d, "main">> \in results
        /\ job.manual # NoAnswers => manual[job.task] # NoAnswers
        /\ pc = "refused" => message[job.task]

\* A snapshot with answers is one of a row that has answers.
BatchJustified ==
    \A s \in batch : s.manual # NoAnswers => manual[s.task] # NoAnswers

\* Nobody posts an empty answer: a chat that shows nothing posts nothing.
SessionsJustified ==
    \A o \in Operators :
        session[o].kind \in {"answering", "answer_checked"} =>
            session[o].answers # NoAnswers

\* What the processor and the requests in flight remember never says more than the
\* rows and the bucket do, whatever was written since they read them.
CopiesJustified == JobJustified /\ BatchJustified /\ SessionsJustified

PipelineInv ==
    /\ TypeOK
    /\ CopiesJustified
    /\ CompletedHasResult
    /\ ReviewAsksParts
    /\ ResultsResolved
    /\ ErrorsExplained

-----------------------------------------------------------------------------
(* What makes the two properties about decisions inductive.                  *)

\* The processor holds a task once, and as it was read unless somebody wrote it since.
HeldJustified ==
    /\ \A t \in Held : status[t] # "absent"
    /\ \A s, u \in batch : s.task = u.task => s = u
    /\ pc # "idle" => \A s \in batch : s.task # job.task
    /\ \A s \in batch : status[s.task] = s.status \/ s.task \in overtaken

\* An order that was sent to be learned has answers.
AnsweredHaveAnswers ==
    /\ \A t \in Tasks : status[t] = "manual_review_done" => manual[t] # NoAnswers
    /\ \A s \in batch : s.status = "manual_review_done" => manual[s.task] # NoAnswers
    /\ pc = "learned" => manual[job.task] # NoAnswers

\* A handler that looks for files has the class of the email, unless somebody chose another
\* meanwhile, and a file counts as saved only with the articles the class wants; without a
\* class it has nothing to look for.
LoopFollowsDecision ==
    pc \in {"docs", "articles"} =>
        \/ /\ job.class = "none" /\ ~job.saved
           /\ job.todo = {} /\ job.upload = {} /\ job.asks = {}
        \/ /\ job.class \in {"request", "calculation"}
           /\ decision[EmailOf[job.task]] \in Classes
           /\ decision[EmailOf[job.task]] = job.class \/ job.task \in overtaken
           /\ job.saved /\ job.class = "calculation" => HasFile(job.task, "articles")

\* So has the one that has just stored a label.
LabelStored ==
    pc = "labelled" =>
        /\ job.class \in Classes \cup {"review"}
        /\ decision[EmailOf[job.task]] \in Classes \cup {job.class}

\* Once an order has asked, it is answered or will be, and its email stays decided: it is
\* not classified again.
Asked(t) ==
    \/ status[t] = "materials_review"
    \/ manual[t] # NoAnswers
    \/ \E o \in Operators : /\ session[o].kind \in {"answering", "answer_checked"}
                            /\ session[o].task = t
AskedStaysDecided ==
    \A t \in Tasks :
        Sole(t) /\ Asked(t) =>
            /\ decision[EmailOf[t]] \in Classes
            /\ status[t] \notin {"absent", "new"}
            /\ \A s \in batch : s.task = t => s.status # "new"
            /\ pc # "idle" /\ job.task = t =>
                  pc # "labelled" /\ (pc = "route" => job.class = "question")

DecisionInv ==
    /\ PipelineInv
    /\ HeldJustified
    /\ AnsweredHaveAnswers
    /\ LoopFollowsDecision
    /\ LabelStored
    /\ AskedStaysDecided
    /\ DecisionDelivered
    /\ ClassifiedIsDecided

-----------------------------------------------------------------------------
(* What the refinement of OrderDesk needs besides.                           *)

\* The answers to an order, in its row, in a snapshot or on their way, are about the parts of
\* its own documents: the page can only answer what was asked.
AnswersWithinParts ==
    /\ \A t \in Tasks : DOMAIN manual[t] \subseteq PartsOfTask(t)
    /\ \A s \in batch : DOMAIN s.manual \subseteq PartsOfTask(s.task)
    /\ \A o \in Operators :
          session[o].kind \in {"answering", "answer_checked"} =>
              /\ DOMAIN session[o].answers \subseteq PartsOfTask(session[o].task)
              /\ status[session[o].task] # "absent"

DeskInv ==
    /\ PipelineInv
    /\ HeldJustified
    /\ AnswersWithinParts

=============================================================================
