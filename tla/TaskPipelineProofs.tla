------------------------- MODULE TaskPipelineProofs -------------------------
(* The types and the safety invariants of TaskPipeline, for every value of  *)
(* its constants.                                                           *)
EXTENDS TaskPipelineInvariants, TLAPS

-----------------------------------------------------------------------------
(* Types of the values the actions build                                    *)

LEMMA NoAnswersType == NoAnswers \in Answers
<1>1. NoAnswers \in [{} -> Answer]
  BY DEF NoAnswers
<1>2. {} \in SUBSET Parts
  OBVIOUS
<1>. QED
  BY <1>1, <1>2 DEF Answers

LEMMA AnswersType ==
    ASSUME NEW S \in SUBSET Parts, NEW a \in [S -> Answer]
    PROVE  a \in Answers
BY DEF Answers

LEMMA NoJobType == NoJob \in Jobs
BY NoAnswersType DEF NoJob, Jobs, Decisions

LEMMA InitType == Init => TypeOK
<1>. SUFFICES ASSUME Init PROVE TypeOK
  OBVIOUS
<1>1. manual \in [Tasks -> Answers]
  BY NoAnswersType DEF Init
<1>2. output \in [Tasks -> Outputs]
  BY DEF Init, NoOutput, Outputs
<1>3. job \in Jobs
  BY NoJobType DEF Init
<1>4. session \in [Operators -> Requests]
  BY DEF Init, NoRequest, Requests
<1>5. mapping \in [Parts -> Entries]
  BY ShapeAssumption DEF Init
<1>6. decision \in [Emails -> Decisions]
  BY DEF Init, Decisions
<1>7. status \in [Tasks -> TaskStatus \cup {"absent"}]
  BY DEF Init
<1>. QED
  BY <1>1, <1>2, <1>3, <1>4, <1>5, <1>6, <1>7 DEF Init, TypeOK, Phases

-----------------------------------------------------------------------------
(* TypeOK is inductive: one lemma per group of actions                      *)

LEMMA ReceiveType ==
    ASSUME TypeOK, NEW t \in Tasks, Receive(t)
    PROVE  TypeOK'
BY DEF TypeOK, Receive, SetStatus, TaskStatus, emailRows, local, bounds, history

LEMMA FetchType == TypeOK /\ Fetch => TypeOK'
<1>. SUFFICES ASSUME TypeOK, Fetch PROVE TypeOK'
  OBVIOUS
<1>1. \A t \in FirstPending : t \in Tasks /\ status[t] \in PendingStatus /\ manual[t] \in Answers
  BY DEF FirstPending, Pending, TypeOK
<1>2. batch' \subseteq Snapshots
  BY <1>1 DEF Fetch, Snapshots
<1>3. overtaken' \subseteq Tasks
  BY DEF Fetch, TypeOK
<1>. QED
  BY <1>2, <1>3 DEF TypeOK, Fetch, tables, bounds

\* What Take gives of the snapshot it takes.
LEMMA TakeFacts ==
    ASSUME TypeOK, NEW s \in batch, NEW st, Take(s, st)
    PROVE  /\ pc = "idle" /\ s \in Snapshots /\ s.status = st
           /\ s.task \in Tasks /\ EmailOf[s.task] \in Emails /\ s.manual \in Answers
           /\ batch' = batch \ {s}
           /\ batch' \subseteq Snapshots
BY ShapeAssumption DEF TypeOK, Take, Snapshots

LEMMA ClassifyEmailType ==
    ASSUME TypeOK, NEW s \in batch, NEW label \in Labels, ClassifyEmail(s, label)
    PROVE  TypeOK'
<1>1. /\ s.task \in Tasks /\ EmailOf[s.task] \in Emails /\ batch' \subseteq Snapshots
  BY TakeFacts DEF ClassifyEmail
<1>2. label \in Decisions
  BY ShapeAssumption DEF Decisions
<1>3. job' \in Jobs /\ job'.task \in Tasks
  BY <1>1, <1>2, NoJobType DEF ClassifyEmail, Goto, Jobs, NoJob
<1>. QED
  BY <1>1, <1>2, <1>3
     DEF TypeOK, ClassifyEmail, Goto, taskRows, bounds, history, Phases

LEMMA SaveLabelStatusType == TypeOK /\ SaveLabelStatus => TypeOK'
BY NoJobType
   DEF TypeOK, SaveLabelStatus, SetStatus, LabelStatus, Return, TaskStatus, emailRows,
       bounds, history, Phases

LEMMA StartClassifiedType ==
    ASSUME TypeOK, NEW s \in batch, StartClassified(s)
    PROVE  TypeOK'
<1>1. /\ s.task \in Tasks /\ EmailOf[s.task] \in Emails /\ batch' \subseteq Snapshots
      /\ s.manual \in Answers
  BY TakeFacts DEF StartClassified
<1>2. decision[EmailOf[s.task]] \in Decisions /\ DocsOf[EmailOf[s.task]] \in SUBSET Docs
  BY <1>1, ShapeAssumption DEF TypeOK
<1>3. job' \in Jobs /\ job'.task \in Tasks /\ pc' \in Phases
  BY <1>1, <1>2, NoJobType DEF StartClassified, Goto, Jobs, NoJob, Phases
<1>. QED
  BY <1>1, <1>3 DEF TypeOK, StartClassified, tables, bounds, history

LEMMA StatusStepType ==
    ASSUME TypeOK, Route \/ Refuse \/ Refused \/ Complete \/ GiveUp \/ Explain
    PROVE  TypeOK'
<1>1. pc # "idle" /\ job \in Jobs /\ job.task \in Tasks
  BY DEF TypeOK, Route, Refuse, Refused, Complete, MayComplete, GiveUp, Explain, LoopDone
<1>2. status' \in [Tasks -> TaskStatus \cup {"absent"}] /\ message' \in [Tasks -> BOOLEAN]
  BY <1>1 DEF TypeOK, Route, Refuse, Refused, Complete, GiveUp, Explain, MarkError,
              SetStatus, TaskStatus
<1>3. job' \in Jobs /\ pc' \in Phases /\ (pc' # "idle" => job'.task \in Tasks)
  BY <1>1, NoJobType DEF Route, Refuse, Refused, Complete, GiveUp, AfterGivingUp, Explain,
              Return, Goto, Phases
<1>. QED
  BY <1>2, <1>3 DEF TypeOK, Route, Refuse, Refused, Complete, GiveUp, Explain, emailRows,
                    bounds, history

\* The locals the loop over the documents leaves behind.
LEMMA InLoopFacts ==
    ASSUME TypeOK, NEW d \in Docs, InLoop(d)
    PROVE  /\ job \in Jobs /\ job.task \in Tasks
           /\ job.todo \in SUBSET Docs /\ d \in job.todo
           /\ PartsWith(d) \in SUBSET Parts
           /\ Unresolved(PartsWith(d)) \in SUBSET Parts
BY ShapeAssumption DEF TypeOK, InLoop, Jobs, PartsWith, Unresolved

LEMMA SkipType ==
    ASSUME job \in Jobs, job.task \in Tasks, NEW d, NEW parts \in SUBSET Parts,
           Skip(d, parts)
    PROVE  job' \in Jobs /\ job'.task \in Tasks /\ pc' \in Phases
BY DEF Skip, Goto, Jobs, Phases

LEMMA SkippingType ==
    ASSUME TypeOK, NEW d \in Docs,
           DocUnreadable(d) \/ DocNotFetched(d) \/ DocEmpty(d) \/ SaveMainFails(d)
    PROVE  TypeOK'
<1>1. InLoop(d)
  BY DEF DocUnreadable, DocNotFetched, DocEmpty, SaveMainFails, Parses
<1>2. /\ job \in Jobs /\ job.task \in Tasks /\ job.parts \in SUBSET Parts
      /\ PartsWith(d) \in SUBSET Parts
  BY <1>1, InLoopFacts DEF Jobs
<1>3. job' \in Jobs /\ job'.task \in Tasks /\ pc' \in Phases
  BY <1>2, SkipType DEF DocUnreadable, DocNotFetched, DocEmpty, SaveMainFails
<1>4. faults' \in Nat
  BY DEF TypeOK, DocUnreadable, DocNotFetched, DocEmpty, SaveMainFails, Fault, Faults, bounds,
         history
<1>. QED
  BY <1>3, <1>4 DEF TypeOK, DocUnreadable, DocNotFetched, DocEmpty, SaveMainFails, tables,
                    bounds, history

LEMMA DocRaisesType ==
    ASSUME TypeOK, NEW d \in Docs, DocRaises(d)
    PROVE  TypeOK'
<1>1. InLoop(d)
  BY DEF DocRaises, Parses
<1>2. job.task \in Tasks
  BY <1>1, InLoopFacts
<1>3. /\ MarkError(job.task) /\ Return
      /\ UNCHANGED <<manual, output, emailRows, mapping, results, batch, session, bounds,
                     history>>
  BY DEF DocRaises
<1>. QED
  BY <1>2, <1>3, NoJobType
     DEF TypeOK, MarkError, SetStatus, Return, TaskStatus, Phases, emailRows, bounds,
         history

LEMMA DocAsksType ==
    ASSUME TypeOK, NEW d \in Docs, DocAsks(d)
    PROVE  TypeOK'
<1>1. /\ job \in Jobs /\ job.task \in Tasks /\ PartsWith(d) \in SUBSET Parts
      /\ Unresolved(PartsWith(d)) \in SUBSET Parts
  BY InLoopFacts DEF DocAsks, Parses
<1>2. job' \in Jobs /\ job'.task \in Tasks /\ pc' \in Phases
  BY <1>1 DEF DocAsks, Goto, Jobs, Phases
<1>. QED
  BY <1>2 DEF TypeOK, DocAsks, tables, bounds, history

LEMMA SaveMainType ==
    ASSUME TypeOK, NEW d \in Docs, SaveMain(d)
    PROVE  TypeOK'
<1>1. job \in Jobs /\ job.task \in Tasks /\ PartsWith(d) \in SUBSET Parts
  BY InLoopFacts DEF SaveMain, Parses
<1>2. job' \in Jobs /\ job'.task \in Tasks /\ pc' \in Phases
  BY <1>1 DEF SaveMain, AfterMain, Goto, Jobs, Phases
<1>3. results' \subseteq Docs \X {"main", "articles"}
  BY DEF TypeOK, SaveMain, MainObject
<1>. QED
  BY <1>2, <1>3 DEF TypeOK, SaveMain, tables, bounds

LEMMA ArticlesType ==
    ASSUME TypeOK, NEW d \in Docs, SaveArticles(d) \/ SaveArticlesFails(d)
    PROVE  TypeOK'
<1>1. job \in Jobs /\ job.task \in Tasks
  BY DEF TypeOK, SaveArticles, SaveArticlesFails
<1>2. job' \in Jobs /\ job'.task \in Tasks /\ pc' \in Phases
  BY <1>1 DEF SaveArticles, SaveArticlesFails, Goto, Jobs, Phases
<1>3. /\ results' \subseteq Docs \X {"main", "articles"}
      /\ faults' \in Nat
  BY DEF TypeOK, SaveArticles, SaveArticlesFails, Fault, Faults, bounds, history
<1>. QED
  BY <1>2, <1>3 DEF TypeOK, SaveArticles, SaveArticlesFails, tables, bounds, history

LEMMA AskOperatorType == TypeOK /\ AskOperator => TypeOK'
<1>. SUFFICES ASSUME TypeOK, AskOperator PROVE TypeOK'
  OBVIOUS
<1>1. job.task \in Tasks /\ job.asks \in SUBSET Parts
  BY DEF TypeOK, AskOperator, LoopDone, Jobs
<1>2. output' \in [Tasks -> Outputs]
  BY <1>1 DEF TypeOK, AskOperator, Questions, Outputs
<1>. QED
  BY <1>1, <1>2, NoJobType
     DEF TypeOK, AskOperator, SetStatus, Return, TaskStatus, Phases, emailRows, bounds,
         history

LEMMA LearnAnswersType ==
    ASSUME TypeOK, NEW s \in batch, LearnAnswers(s)
    PROVE  TypeOK'
<1>1. /\ s.task \in Tasks /\ batch' \subseteq Snapshots /\ s.manual \in Answers
  BY TakeFacts DEF LearnAnswers, Learning
<1>2. job' \in Jobs /\ job'.task \in Tasks /\ pc' \in Phases
  BY <1>1, NoJobType DEF LearnAnswers, Goto, Jobs, NoJob, Phases
<1>3. PICK S \in SUBSET Parts : s.manual \in [S -> Answer]
  BY <1>1 DEF Answers
<1>4. Learn(s.manual) \in [Parts -> Entries]
  BY <1>3 DEF TypeOK, LearnAnswers, Fits, Answer, Learn, Entries
<1>5. mapping' \in [Parts -> Entries]
  BY <1>4 DEF TypeOK, LearnAnswers
<1>. QED
  BY <1>1, <1>2, <1>5 DEF TypeOK, LearnAnswers, taskRows, emailRows, bounds, history

LEMMA NothingToLearnType ==
    ASSUME TypeOK, NEW s \in batch, NothingToLearn(s)
    PROVE  TypeOK'
<1>1. s.task \in Tasks /\ batch' \subseteq Snapshots
  BY TakeFacts DEF NothingToLearn
<1>2. job' \in Jobs /\ job'.task \in Tasks /\ pc' \in Phases
  BY <1>1, NoJobType DEF NothingToLearn, Goto, Jobs, NoJob, Phases
<1>. QED
  BY <1>1, <1>2 DEF TypeOK, NothingToLearn, tables, bounds, history

LEMMA LearnFailsType ==
    ASSUME TypeOK, NEW s \in batch, LearnRefused(s) \/ LearnFails(s)
    PROVE  TypeOK'
<1>1. batch' \subseteq Snapshots
  BY TakeFacts DEF LearnRefused, LearnFails, Learning
<1>. QED
  BY <1>1, NoJobType DEF TypeOK, LearnRefused, LearnFails, Fault, Faults, Return, tables,
                         bounds, history, Phases

LEMMA SaveLearnedType == TypeOK /\ SaveLearned => TypeOK'
BY NoJobType
   DEF TypeOK, SaveLearned, LearnedStatus, SetStatus, Return, TaskStatus, Phases,
       emailRows, bounds, history

LEMMA HandlerFailsType ==
    ASSUME TypeOK, NEW t \in Tasks, HandlerFails(t)
    PROVE  TypeOK'
<1>1. batch' \subseteq Snapshots
  BY DEF TypeOK, HandlerFails
<1>2. /\ MarkError(t) /\ Return /\ faults' = faults + 1
      /\ UNCHANGED <<manual, output, emailRows, mapping, results, session, requests,
                     crashes, history>>
  BY DEF HandlerFails, Fault, Faults
<1>. QED
  BY <1>1, <1>2, NoJobType
     DEF TypeOK, MarkError, SetStatus, Return, TaskStatus, Phases, emailRows, history

LEMMA MarkingFailsType ==
    ASSUME TypeOK, NEW t \in Tasks, MarkingFails(t)
    PROVE  TypeOK'
<1>1. batch' \subseteq Snapshots
  BY DEF TypeOK, MarkingFails
<1>2. job' \in Jobs /\ job'.task \in Tasks /\ pc' \in Phases
  BY NoJobType DEF MarkingFails, Goto, Jobs, NoJob, Phases
<1>3. /\ SetStatus(t, "error") /\ faults' = faults + 2
      /\ UNCHANGED <<manual, output, message, emailRows, mapping, results, session,
                     requests, crashes, history>>
  BY DEF MarkingFails, Faults
<1>. QED
  BY <1>1, <1>2, <1>3 DEF TypeOK, SetStatus, TaskStatus, emailRows, history

LEMMA CrashType == TypeOK /\ Crash => TypeOK'
BY NoJobType DEF TypeOK, Crash, Return, tables, history, Phases

LEMMA PostDecisionType ==
    ASSUME TypeOK, NEW t \in Tasks, NEW class \in Classes, PostDecision(t, class)
    PROVE  TypeOK'
<1>1. output' \in [Tasks -> Outputs]
  BY DEF TypeOK, PostDecision, Outputs
<1>2. EmailOf[t] \in Emails /\ class \in Decisions
  BY ShapeAssumption DEF Decisions
<1>3. overtaken' \subseteq Tasks
  BY DEF TypeOK, PostDecision, Held, Snapshots
<1>. QED
  BY <1>1, <1>2, <1>3
     DEF TypeOK, PostDecision, Ask, SetStatus, TaskStatus, local

LEMMA SendAnswersType ==
    ASSUME TypeOK, NEW o \in Operators, NEW t \in Tasks, SendAnswers(o, t)
    PROVE  TypeOK'
<1>1. Shown(t) \in SUBSET Parts
  BY DEF TypeOK, Outputs, Shown
<1>2. PICK a \in [Shown(t) -> Answer] :
        session' = [session EXCEPT ![o] =
                      [kind |-> "answering", task |-> t, answers |-> a]]
  BY DEF SendAnswers
<1>3. a \in Answers
  BY <1>1, AnswersType
<1>4. [kind |-> "answering", task |-> t, answers |-> a] \in Requests
  BY <1>3 DEF Requests
<1>5. session' \in [Operators -> Requests]
  BY <1>2, <1>4 DEF TypeOK
<1>. QED
  BY <1>5 DEF TypeOK, SendAnswers, Ask, tables, local, history

\* A request that carries answers carries a task too.
LEMMA RequestFacts ==
    ASSUME TypeOK, NEW o \in Operators
    PROVE  /\ session[o] \in Requests /\ NoRequest \in Requests
           /\ session[o].kind \in {"answering", "answer_checked"} =>
                session[o].task \in Tasks /\ session[o].answers \in Answers
           /\ session[o].kind = "answering" =>
                [session[o] EXCEPT !.kind = "answer_checked"] \in Requests
           /\ session[o].kind = "archive_checked" => session[o].email \in Emails
BY DEF TypeOK, Requests, NoRequest

LEMMA CheckAnswersType ==
    ASSUME TypeOK, NEW o \in Operators, CheckAnswers(o)
    PROVE  TypeOK'
<1>1. session' \in [Operators -> Requests]
  BY RequestFacts DEF TypeOK, CheckAnswers
<1>. QED
  BY <1>1 DEF TypeOK, CheckAnswers, tables, local, bounds, history

LEMMA SaveAnswersType ==
    ASSUME TypeOK, NEW o \in Operators, SaveAnswers(o)
    PROVE  TypeOK'
<1>1. session[o].task \in Tasks /\ session[o].answers \in Answers
  BY RequestFacts DEF SaveAnswers
<1>2. session' \in [Operators -> Requests]
  BY RequestFacts DEF TypeOK, SaveAnswers
<1>3. overtaken' \subseteq Tasks
  BY <1>1 DEF TypeOK, SaveAnswers
<1>. QED
  BY <1>1, <1>2, <1>3
     DEF TypeOK, SaveAnswers, SetStatus, TaskStatus, emailRows, local, bounds

LEMMA ArchiveType ==
    ASSUME TypeOK, NEW o \in Operators, NEW e \in Emails, CheckArchive(o, e)
    PROVE  TypeOK'
<1>1. [kind |-> "archive_checked", email |-> e] \in Requests
  BY DEF Requests
<1>2. session' \in [Operators -> Requests]
  BY <1>1 DEF TypeOK, CheckArchive
<1>. QED
  BY <1>2 DEF TypeOK, CheckArchive, Ask, tables, local, history

LEMMA SaveArchiveType ==
    ASSUME TypeOK, NEW o \in Operators, SaveArchive(o)
    PROVE  TypeOK'
<1>1. session' \in [Operators -> Requests]
  BY RequestFacts DEF TypeOK, SaveArchive
<1>2. archived' \in [Emails -> BOOLEAN]
  BY DEF TypeOK, SaveArchive
<1>. QED
  BY <1>1, <1>2 DEF TypeOK, SaveArchive, taskRows, local, bounds, history

LEMMA UnarchiveType ==
    ASSUME TypeOK, NEW e \in Emails, Unarchive(e)
    PROVE  TypeOK'
BY DEF TypeOK, Unarchive, Ask, taskRows, local, history

LEMMA NextType == TypeOK /\ [Next]_vars => TypeOK'
<1>. SUFFICES ASSUME TypeOK, [Next]_vars PROVE TypeOK'
  OBVIOUS
<1>1. ASSUME NEW t \in Tasks, Receive(t) PROVE TypeOK'
  BY <1>1, ReceiveType
<1>2. CASE Work
  <2>1. CASE Document
    BY <2>1, SkippingType, DocRaisesType, DocAsksType, SaveMainType, ArticlesType
       DEF Document
  <2>. QED
    BY <1>2, <2>1, FetchType, ClassifyEmailType, SaveLabelStatusType, StartClassifiedType,
       StatusStepType, AskOperatorType, LearnAnswersType, NothingToLearnType, LearnFailsType,
       SaveLearnedType
       DEF Work
<1>3. CASE Failure
  BY <1>3, SkippingType, ArticlesType, LearnFailsType, HandlerFailsType, MarkingFailsType,
     CrashType
     DEF Failure
<1>4. ASSUME NEW t \in Tasks, NEW class \in Classes, PostDecision(t, class) PROVE TypeOK'
  BY <1>4, PostDecisionType
<1>5. ASSUME NEW o \in Operators, Operator(o) PROVE TypeOK'
  <2>1. ASSUME NEW e \in Emails, CheckArchive(o, e) PROVE TypeOK'
    BY <2>1, ArchiveType
  <2>2. CASE SaveArchive(o)
    BY <2>2, SaveArchiveType
  <2>. QED
    BY <1>5, <2>1, <2>2, SendAnswersType, CheckAnswersType, SaveAnswersType DEF Operator
<1>6. ASSUME NEW e \in Emails, Unarchive(e) PROVE TypeOK'
  BY <1>6, UnarchiveType
<1>7. CASE UNCHANGED vars
  BY <1>7 DEF TypeOK, vars, tables, local, bounds, history
<1>. QED
  BY <1>1, <1>2, <1>3, <1>4, <1>5, <1>6, <1>7 DEF Next

\* Every row, local and request of TaskPipeline keeps its type: no handler, failure or
\* request writes a status outside the database's enum or answers about something that
\* is not a part.
THEOREM TypeCorrect == Spec => []TypeOK
BY InitType, NextType, PTL DEF Spec

-----------------------------------------------------------------------------
(* What grows: files, answers and messages are never taken back             *)

Grows ==
    /\ results \subseteq results'
    /\ \A t \in Tasks : manual[t] # NoAnswers => manual'[t] # NoAnswers
    /\ \A t \in Tasks : message[t] => message'[t]

LEMMA DocumentGrows ==
    ASSUME TypeOK, NEW d \in Docs,
           \/ DocUnreadable(d) \/ DocNotFetched(d) \/ DocRaises(d) \/ DocAsks(d)
           \/ DocEmpty(d) \/ SaveMain(d) \/ SaveMainFails(d) \/ SaveArticles(d)
           \/ SaveArticlesFails(d)
    PROVE  Grows
<1>1. results \subseteq results' /\ manual' = manual
  BY DEF DocUnreadable, DocNotFetched, DocRaises, DocAsks, DocEmpty, SaveMain,
         SaveMainFails, SaveArticles, SaveArticlesFails, tables
<1>2. \A t \in Tasks : message[t] => message'[t]
  BY DEF DocUnreadable, DocNotFetched, DocRaises, DocAsks, DocEmpty, SaveMain,
         SaveMainFails, SaveArticles, SaveArticlesFails, tables, MarkError, TypeOK
<1>. QED
  BY <1>1, <1>2 DEF Grows

LEMMA SaveAnswersGrows ==
    ASSUME TypeOK, SessionsJustified, NEW o \in Operators, SaveAnswers(o)
    PROVE  Grows
BY RequestFacts DEF SaveAnswers, SessionsJustified, Grows, TypeOK

LEMMA StepGrows == TypeOK /\ SessionsJustified /\ [Next]_vars => Grows
<1>. SUFFICES ASSUME TypeOK, SessionsJustified, [Next]_vars PROVE Grows
  OBVIOUS
<1>1. ASSUME NEW t \in Tasks, Receive(t) PROVE Grows
  BY <1>1 DEF Receive, Grows
<1>2. CASE Work
  <2>1. CASE Fetch
    BY <2>1 DEF Fetch, tables, Grows
  <2>2. ASSUME NEW s \in batch, NEW label \in Labels, ClassifyEmail(s, label) PROVE Grows
    BY <2>2 DEF ClassifyEmail, taskRows, Grows
  <2>3. ASSUME NEW s \in batch, StartClassified(s) PROVE Grows
    BY <2>3 DEF StartClassified, tables, Grows
  <2>4. ASSUME NEW s \in batch, LearnAnswers(s) \/ NothingToLearn(s) \/ LearnRefused(s)
        PROVE  Grows
    BY <2>4 DEF LearnAnswers, NothingToLearn, LearnRefused, taskRows, tables, Grows
  <2>5. CASE Refuse \/ Explain
    BY <2>5 DEF Refuse, Explain, MarkError, Grows, TypeOK
  <2>6. CASE SaveLabelStatus \/ Route \/ Refused \/ AskOperator \/ Complete \/ GiveUp
                \/ SaveLearned
    BY <2>6 DEF SaveLabelStatus, Route, Refused, AskOperator, Complete, GiveUp,
                SaveLearned, Grows
  <2>7. CASE Document
    BY <2>7, DocumentGrows DEF Document
  <2>. QED
    BY <1>2, <2>1, <2>2, <2>3, <2>4, <2>5, <2>6, <2>7 DEF Work
<1>3. CASE Failure
  <2>1. ASSUME NEW s \in batch, LearnFails(s) PROVE Grows
    BY <2>1 DEF LearnFails, tables, Grows
  <2>2. ASSUME NEW t \in Tasks, HandlerFails(t) \/ MarkingFails(t) PROVE Grows
    BY <2>2 DEF HandlerFails, MarkingFails, MarkError, Grows, TypeOK
  <2>3. CASE Crash
    BY <2>3 DEF Crash, tables, Grows
  <2>. QED
    BY <1>3, <2>1, <2>2, <2>3, DocumentGrows DEF Failure
<1>4. ASSUME NEW t \in Tasks, NEW class \in Classes, PostDecision(t, class) PROVE Grows
  BY <1>4 DEF PostDecision, Grows
<1>5. ASSUME NEW o \in Operators, Operator(o) PROVE Grows
  <2>1. ASSUME NEW t \in Tasks, SendAnswers(o, t) PROVE Grows
    BY <2>1 DEF SendAnswers, tables, Grows
  <2>2. CASE CheckAnswers(o)
    BY <2>2 DEF CheckAnswers, tables, Grows
  <2>3. ASSUME NEW e \in Emails, CheckArchive(o, e) PROVE Grows
    BY <2>3 DEF CheckArchive, tables, Grows
  <2>4. CASE SaveArchive(o)
    BY <2>4 DEF SaveArchive, taskRows, Grows
  <2>. QED
    BY <1>5, <2>1, <2>2, <2>3, <2>4, SaveAnswersGrows DEF Operator
<1>6. ASSUME NEW e \in Emails, Unarchive(e) PROVE Grows
  BY <1>6 DEF Unarchive, taskRows, Grows
<1>7. CASE UNCHANGED vars
  BY <1>7 DEF vars, tables, Grows
<1>. QED
  BY <1>1, <1>2, <1>3, <1>4, <1>5, <1>6, <1>7 DEF Next

-----------------------------------------------------------------------------
(* CopiesJustified                                                          *)

LEMMA JobKept ==
    ASSUME TypeOK, JobJustified, Grows, UNCHANGED <<pc, job>>
    PROVE  JobJustified'
BY DEF TypeOK, JobJustified, Grows, HasFile, PartsOfTask

LEMMA JobOver ==
    ASSUME Return
    PROVE  JobJustified'
BY DEF Return, JobJustified

\* A handler that has just started remembers the task and perhaps its answers.
LEMMA JobStarts ==
    ASSUME Grows, NEW t \in Tasks, NEW a, a # NoAnswers => manual[t] # NoAnswers,
           job'.task = t, job'.manual = a, pc' # "refused",
           job'.todo \subseteq DocsOf[EmailOf[t]], job'.upload = {},
           job'.parts = {}, job'.asks = {}, ~job'.saved
    PROVE  JobJustified'
BY DEF JobJustified, Grows, HasFile, PartsOfTask

\* What the loop adds for document d is of the task.
LEMMA PartsAreOfTask ==
    ASSUME TypeOK, JobJustified, NEW d \in Docs, InLoop(d)
    PROVE  /\ d \in DocsOf[EmailOf[job.task]]
           /\ PartsOf[d] \subseteq PartsOfTask(job.task)
           /\ PartsWith(d) \subseteq PartsOfTask(job.task)
           /\ Unresolved(PartsWith(d)) \subseteq PartsOfTask(job.task)
<1>1. d \in DocsOf[EmailOf[job.task]] /\ job.parts \subseteq PartsOfTask(job.task)
  BY DEF JobJustified, InLoop
<1>2. PartsOf[d] \subseteq PartsOfTask(job.task)
  BY <1>1 DEF PartsOfTask
<1>. QED
  BY <1>1, <1>2 DEF PartsWith, Unresolved

LEMMA LoopGoesOn ==
    ASSUME TypeOK, JobJustified, Grows, pc # "idle", NEW d,
           NEW parts, parts \subseteq PartsOfTask(job.task),
           NEW asks, asks \subseteq PartsOfTask(job.task),
           Goto("docs", [job EXCEPT !.todo = @ \ {d}, !.parts = parts, !.asks = asks])
    PROVE  JobJustified'
<1>1. /\ job'.task = job.task /\ job'.todo \subseteq job.todo /\ job'.parts = parts
      /\ job'.asks = asks /\ job'.saved = job.saved /\ job'.upload = job.upload
      /\ job'.manual = job.manual /\ pc' = "docs" /\ job.task \in Tasks
  BY DEF Goto, TypeOK, Jobs
<1>2. HasFile(job.task, "main") => HasFile(job.task, "main")'
  BY <1>1 DEF Grows, HasFile
<1>. QED
  BY <1>1, <1>2 DEF JobJustified, Grows, HasFile, PartsOfTask

LEMMA DocumentJustified ==
    ASSUME TypeOK, JobJustified, Grows, NEW d \in Docs,
           \/ DocUnreadable(d) \/ DocNotFetched(d) \/ DocRaises(d) \/ DocAsks(d)
           \/ DocEmpty(d) \/ SaveMain(d) \/ SaveMainFails(d) \/ SaveArticles(d)
           \/ SaveArticlesFails(d)
    PROVE  JobJustified'
<1>0. /\ pc # "idle" => /\ job.parts \subseteq PartsOfTask(job.task)
                        /\ job.asks \subseteq PartsOfTask(job.task)
                        /\ job.task \in Tasks
      /\ job \in Jobs
  BY DEF JobJustified, TypeOK
<1>1. CASE DocUnreadable(d) \/ DocNotFetched(d) \/ DocEmpty(d) \/ SaveMainFails(d)
  <2>1. InLoop(d) /\ pc # "idle"
    BY <1>1 DEF DocUnreadable, DocNotFetched, DocEmpty, SaveMainFails, Parses, InLoop
  <2>2. PICK parts : parts \subseteq PartsOfTask(job.task) /\ Skip(d, parts)
    BY <1>0, <1>1, <2>1, PartsAreOfTask
       DEF DocUnreadable, DocNotFetched, DocEmpty, SaveMainFails
  <2>3. Goto("docs", [job EXCEPT !.todo = @ \ {d}, !.parts = parts, !.asks = job.asks])
    BY <1>0, <2>2 DEF Skip, Goto, Jobs
  <2>. QED
    BY <1>0, <2>1, <2>2, <2>3, LoopGoesOn
<1>2. CASE DocRaises(d)
  BY <1>2, JobOver DEF DocRaises
<1>3. CASE DocAsks(d)
  <2>1. InLoop(d) /\ pc # "idle"
    BY <1>3 DEF DocAsks, Parses, InLoop
  <2>2. Goto("docs", [job EXCEPT !.todo = @ \ {d}, !.parts = PartsWith(d),
                                 !.asks = job.asks \cup Unresolved(PartsWith(d))])
    BY <1>3 DEF DocAsks
  <2>. QED
    BY <1>0, <2>1, <2>2, PartsAreOfTask, LoopGoesOn
<1>4. CASE SaveMain(d)
  <2>1. InLoop(d) /\ pc # "idle"
    BY <1>4 DEF SaveMain, Parses, InLoop
  <2>2. /\ job' = AfterMain(d) /\ results' = results \cup {<<d, "main">>}
        /\ pc' \in {"docs", "articles"} /\ UNCHANGED manual
    BY <1>4 DEF SaveMain, Goto, MainObject, tables
  <2>3. /\ job'.task = job.task /\ job'.todo \subseteq job.todo
        /\ job'.parts = PartsWith(d) /\ job'.asks = job.asks
        /\ job'.upload \subseteq {d} /\ job'.manual = job.manual
    BY <1>0, <2>2 DEF AfterMain, Jobs
  <2>4. HasFile(job.task, "main")'
    BY <2>1, <2>2, <2>3, PartsAreOfTask DEF HasFile
  <2>. QED
    BY <2>1, <2>2, <2>3, <2>4, PartsAreOfTask DEF JobJustified, HasFile, PartsOfTask
<1>5. CASE SaveArticles(d) \/ SaveArticlesFails(d)
  <2>1. pc # "idle" /\ d \in job.upload
    BY <1>5 DEF SaveArticles, SaveArticlesFails
  <2>2. /\ job'.task = job.task /\ job'.todo = job.todo /\ job'.parts = job.parts
        /\ job'.asks = job.asks /\ job'.upload = {} /\ job'.manual = job.manual
        /\ pc' = "docs" /\ UNCHANGED manual
    BY <1>0, <1>5 DEF SaveArticles, SaveArticlesFails, Goto, Jobs, tables
  <2>3. HasFile(job.task, "main")'
    BY <2>1, <2>2 DEF JobJustified, HasFile, Grows
  <2>. QED
    BY <2>1, <2>2, <2>3 DEF JobJustified, HasFile, PartsOfTask
<1>. QED
  BY <1>1, <1>2, <1>3, <1>4, <1>5

LEMMA StepJustifiesJob ==
    TypeOK /\ CopiesJustified /\ Grows /\ [Next]_vars => JobJustified'
<1>. SUFFICES ASSUME TypeOK, CopiesJustified, Grows, [Next]_vars PROVE JobJustified'
  OBVIOUS
<1>0. JobJustified
  BY DEF CopiesJustified
<1>1. ASSUME NEW t \in Tasks, Receive(t) PROVE JobJustified'
  BY <1>0, <1>1, JobKept DEF Receive, local
<1>2. CASE Work
  <2>1. CASE Fetch
    BY <1>0, <2>1, JobKept DEF Fetch
  <2>2. ASSUME NEW s \in batch, NEW label \in Labels, ClassifyEmail(s, label)
        PROVE  JobJustified'
    <3>1. s.task \in Tasks
      BY <2>2, TakeFacts DEF ClassifyEmail
    <3>2. job' = [NoJob EXCEPT !.task = s.task, !.class = label] /\ pc' = "labelled"
      BY <2>2 DEF ClassifyEmail, Goto
    <3>. QED
      BY <3>1, <3>2, JobStarts DEF NoJob
  <2>3. ASSUME NEW s \in batch, StartClassified(s) PROVE JobJustified'
    <3>1. s.task \in Tasks
      BY <2>3, TakeFacts DEF StartClassified
    <3>2. s.manual # NoAnswers => manual[s.task] # NoAnswers
      BY DEF CopiesJustified, BatchJustified
    <3>3. /\ job'.task = s.task /\ job'.manual = s.manual /\ pc' # "refused"
          /\ job'.todo \subseteq DocsOf[EmailOf[s.task]] /\ job'.upload = {}
          /\ job'.parts = {} /\ job'.asks = {} /\ ~job'.saved
      BY <2>3 DEF StartClassified, Goto, NoJob
    <3>. QED
      BY <3>1, <3>2, <3>3, JobStarts
  <2>4. ASSUME NEW s \in batch, LearnAnswers(s) \/ NothingToLearn(s) PROVE JobJustified'
    <3>1. s.task \in Tasks
      BY <2>4, TakeFacts DEF LearnAnswers, Learning, NothingToLearn
    <3>2. job' = [NoJob EXCEPT !.task = s.task] /\ pc' # "refused"
      BY <2>4 DEF LearnAnswers, NothingToLearn, Goto
    <3>. QED
      BY <3>1, <3>2, JobStarts DEF NoJob
  <2>9. ASSUME NEW s \in batch, LearnRefused(s) PROVE JobJustified'
    BY <2>9, JobOver DEF LearnRefused
  <2>5. CASE Refuse
    <3>1. pc # "idle" /\ job.task \in Tasks
      BY <2>5 DEF Refuse, TypeOK
    <3>2. job' = job /\ message'[job.task] /\ UNCHANGED <<results, manual>>
      BY <2>5, <3>1 DEF Refuse, Goto, MarkError, TypeOK
    <3>. QED
      BY <1>0, <3>1, <3>2 DEF JobJustified, HasFile, PartsOfTask
  <2>6. CASE GiveUp
    <3>1. pc # "idle" /\ pc' = "explain" /\ job' = job /\ UNCHANGED <<results, manual>>
      BY <2>6 DEF GiveUp, LoopDone, AfterGivingUp, Goto
    <3>. QED
      BY <1>0, <3>1 DEF JobJustified, HasFile, PartsOfTask
  <2>7. CASE SaveLabelStatus \/ Route \/ Refused \/ AskOperator \/ Complete \/ Explain
                \/ SaveLearned
    BY <2>7, JobOver
       DEF SaveLabelStatus, Route, Refused, AskOperator, Complete, Explain, SaveLearned
  <2>8. CASE Document
    BY <1>0, <2>8, DocumentJustified DEF Document
  <2>. QED
    BY <1>2, <2>1, <2>2, <2>3, <2>4, <2>5, <2>6, <2>7, <2>8, <2>9 DEF Work
<1>3. CASE Failure
  <2>1. ASSUME NEW s \in batch, LearnFails(s) PROVE JobJustified'
    BY <2>1, JobOver DEF LearnFails
  <2>2. ASSUME NEW t \in Tasks, HandlerFails(t) PROVE JobJustified'
    BY <2>2, JobOver DEF HandlerFails
  <2>4. ASSUME NEW t \in Tasks, MarkingFails(t) PROVE JobJustified'
    <3>1. job' = [NoJob EXCEPT !.task = t] /\ pc' # "refused"
      BY <2>4 DEF MarkingFails, Goto
    <3>. QED
      BY <3>1, JobStarts DEF NoJob
  <2>3. CASE Crash
    BY <2>3, JobOver DEF Crash
  <2>. QED
    BY <1>0, <1>3, <2>1, <2>2, <2>3, <2>4, DocumentJustified DEF Failure
<1>4. ASSUME NEW t \in Tasks, NEW class \in Classes, PostDecision(t, class)
      PROVE  JobJustified'
  BY <1>0, <1>4, JobKept DEF PostDecision, local
<1>5. ASSUME NEW o \in Operators, Operator(o) PROVE JobJustified'
  BY <1>0, <1>5, JobKept
     DEF Operator, SendAnswers, CheckAnswers, SaveAnswers, CheckArchive, SaveArchive, local
<1>6. ASSUME NEW e \in Emails, Unarchive(e) PROVE JobJustified'
  BY <1>0, <1>6, JobKept DEF Unarchive, local
<1>7. CASE UNCHANGED vars
  BY <1>0, <1>7, JobKept DEF vars, local
<1>. QED
  BY <1>1, <1>2, <1>3, <1>4, <1>5, <1>6, <1>7 DEF Next

\* Only Fetch adds snapshots, and it reads them from the rows.
LEMMA BatchWritten ==
    [Next]_vars => batch' \subseteq batch
                   \/ Fetch
BY DEF Learning, Next, Receive, Work, ClassifyEmail, Take, SaveLabelStatus, StartClassified,
       Route, Refuse, Refused, Document, DocUnreadable, DocRaises, DocAsks, DocEmpty, SaveMain,
       SaveArticles, AskOperator, Complete, GiveUp, Explain, LearnAnswers, NothingToLearn,
       LearnRefused, SaveLearned, Failure, DocNotFetched, SaveMainFails, SaveArticlesFails,
       LearnFails, HandlerFails, MarkingFails, Crash, PostDecision, Operator, SendAnswers,
       CheckAnswers, SaveAnswers, CheckArchive, SaveArchive, Unarchive, vars, local

LEMMA StepJustifiesBatch ==
    TypeOK /\ CopiesJustified /\ Grows /\ [Next]_vars => BatchJustified'
<1>. SUFFICES ASSUME TypeOK, CopiesJustified, Grows, [Next]_vars PROVE BatchJustified'
  OBVIOUS
<1>1. CASE batch' \subseteq batch
  <2>1. \A s \in batch : s.task \in Tasks
    BY DEF TypeOK, Snapshots
  <2>. QED
    BY <1>1, <2>1 DEF CopiesJustified, BatchJustified, Grows
<1>2. CASE Fetch
  BY <1>2 DEF Fetch, BatchJustified, tables
<1>. QED
  BY <1>1, <1>2, BatchWritten

\* Only the operators' own actions touch the requests.
LEMMA SessionWritten ==
    [Next]_vars =>
        \/ UNCHANGED session
        \/ \E o \in Operators :
              \/ \E t \in Tasks : SendAnswers(o, t)
              \/ CheckAnswers(o) \/ SaveAnswers(o) \/ SaveArchive(o)
              \/ \E e \in Emails : CheckArchive(o, e)
BY DEF Next, Receive, Work, Fetch, ClassifyEmail, SaveLabelStatus, StartClassified, Route,
       Refuse, Refused, Document, DocUnreadable, DocRaises, DocAsks, DocEmpty, SaveMain,
       SaveArticles, AskOperator, Complete, GiveUp, Explain, LearnAnswers, NothingToLearn,
       LearnRefused, SaveLearned, Failure, DocNotFetched, SaveMainFails, SaveArticlesFails,
       LearnFails, HandlerFails, MarkingFails, Crash, PostDecision, Operator, Unarchive, vars

LEMMA StepJustifiesSessions ==
    TypeOK /\ SessionsJustified /\ [Next]_vars => SessionsJustified'
<1>. SUFFICES ASSUME TypeOK, SessionsJustified, [Next]_vars PROVE SessionsJustified'
  OBVIOUS
<1>1. ASSUME NEW o \in Operators, NEW t \in Tasks, SendAnswers(o, t)
      PROVE  SessionsJustified'
  <2>1. Shown(t) # {}
    BY <1>1 DEF SendAnswers
  <2>2. PICK a \in [Shown(t) -> Answer] :
          session' = [session EXCEPT ![o] =
                        [kind |-> "answering", task |-> t, answers |-> a]]
    BY <1>1 DEF SendAnswers
  <2>3. DOMAIN a # DOMAIN NoAnswers
    BY <2>1 DEF NoAnswers
  <2>. QED
    BY <2>2, <2>3 DEF SessionsJustified, TypeOK
<1>2. ASSUME NEW o \in Operators, CheckAnswers(o) PROVE SessionsJustified'
  <2>1. session[o].answers # NoAnswers
    BY <1>2 DEF CheckAnswers, SessionsJustified
  <2>2. /\ session[o] \in [kind : {"answering", "answer_checked"}, task : Tasks,
                           answers : Answers]
    BY <1>2 DEF CheckAnswers, TypeOK, Requests
  <2>3. session'[o].kind = "none" \/ session'[o].answers = session[o].answers
    BY <1>2, <2>2 DEF CheckAnswers, TypeOK, NoRequest
  <2>4. \A u \in Operators : u # o => session'[u] = session[u]
    BY <1>2 DEF CheckAnswers, TypeOK
  <2>. QED
    BY <2>1, <2>3, <2>4 DEF SessionsJustified
<1>3. ASSUME NEW o \in Operators, SaveAnswers(o) \/ SaveArchive(o)
      PROVE  SessionsJustified'
  BY <1>3 DEF SaveAnswers, SaveArchive, SessionsJustified, TypeOK, NoRequest
<1>4. ASSUME NEW o \in Operators, NEW e \in Emails, CheckArchive(o, e)
      PROVE  SessionsJustified'
  BY <1>4 DEF CheckArchive, SessionsJustified, TypeOK
<1>5. CASE UNCHANGED session
  BY <1>5 DEF SessionsJustified
<1>. QED
  BY <1>1, <1>2, <1>3, <1>4, <1>5, SessionWritten

-----------------------------------------------------------------------------
(* The properties themselves: what may be written, and by whom               *)

LEMMA ResultsWritten ==
    [Next]_vars => \/ UNCHANGED results
                   \/ \E d \in Docs : SaveMain(d) \/ SaveArticles(d)
BY DEF Next, Receive, Work, Fetch, ClassifyEmail, SaveLabelStatus, StartClassified, Route,
       Refuse, Refused, Document, DocUnreadable, DocRaises, DocAsks, DocEmpty, AskOperator,
       Complete, GiveUp, Explain, LearnAnswers, NothingToLearn, LearnRefused, SaveLearned,
       Failure, DocNotFetched, SaveMainFails, SaveArticlesFails, LearnFails, HandlerFails,
       MarkingFails, Crash, PostDecision, Operator, SendAnswers, CheckAnswers, SaveAnswers,
       CheckArchive, SaveArchive, Unarchive, vars

\* A document's file is published by SaveMain only; the articles are another object.
LEMMA MainWritten ==
    ASSUME [Next]_vars, NEW d \in Docs, <<d, "main">> \in results', <<d, "main">> \notin results
    PROVE  SaveMain(d)
<1>1. PICK c \in Docs : SaveMain(c) \/ SaveArticles(c)
  BY ResultsWritten
<1>2. CASE SaveMain(c)
  BY <1>2 DEF SaveMain, MainObject
<1>3. CASE SaveArticles(c)
  BY <1>3 DEF SaveArticles
<1>. QED
  BY <1>1, <1>2, <1>3

\* The dictionary is written by LearnAnswers only.
LEMMA MappingWritten ==
    [Next]_vars => \/ UNCHANGED mapping
                   \/ \E s \in batch : LearnAnswers(s)
BY DEF Next, Receive, Work, Fetch, ClassifyEmail, SaveLabelStatus, StartClassified, Route,
       Refuse, Refused, Document, DocUnreadable, DocRaises, DocAsks, DocEmpty, SaveMain,
       SaveArticles, AskOperator, Complete, GiveUp, Explain, LearnAnswers, NothingToLearn,
       LearnRefused, SaveLearned, Failure, DocNotFetched, SaveMainFails, SaveArticlesFails,
       LearnFails, HandlerFails, MarkingFails, Crash, PostDecision, Operator, SendAnswers,
       CheckAnswers, SaveAnswers, CheckArchive, SaveArchive, Unarchive, vars, tables

\* Who writes the statuses the properties speak of.
Harmless == TaskStatus \ {"completed", "materials_review", "error"}

StatusWrite(t) ==
    \/ status'[t] = status[t] /\ output'[t] = output[t]
    \/ status'[t] \in Harmless
    \/ AskOperator /\ t = job.task
    \/ Complete /\ t = job.task
    \/ status'[t] = "error" /\ (message'[t] \/ ((GiveUp \/ Refused) /\ t = job.task)
                              \/ MarkingFails(t))

LEMMA WorkWritesStatus ==
    ASSUME TypeOK, Work, NEW t \in Tasks
    PROVE  StatusWrite(t)
<1>1. CASE Fetch
  BY <1>1 DEF Fetch, tables, StatusWrite
<1>2. ASSUME NEW s \in batch, NEW label \in Labels, ClassifyEmail(s, label)
      PROVE  StatusWrite(t)
  BY <1>2 DEF ClassifyEmail, taskRows, StatusWrite
<1>3. ASSUME NEW s \in batch,
             \/ StartClassified(s) \/ LearnAnswers(s) \/ NothingToLearn(s) \/ LearnRefused(s)
      PROVE  StatusWrite(t)
  BY <1>3 DEF StartClassified, LearnAnswers, NothingToLearn, LearnRefused, taskRows, tables,
              StatusWrite
<1>4. CASE SaveLabelStatus \/ Route \/ SaveLearned
  <2>1. PICK s \in Harmless : SetStatus(job.task, s)
    BY <1>4 DEF SaveLabelStatus, Route, SaveLearned, LabelStatus, LearnedStatus, Harmless,
                TaskStatus
  <2>2. UNCHANGED output
    BY <1>4 DEF SaveLabelStatus, Route, SaveLearned
  <2>. QED
    BY <2>1, <2>2 DEF SetStatus, StatusWrite, TypeOK
<1>5. CASE Refuse \/ Explain
  BY <1>5 DEF Refuse, Explain, MarkError, SetStatus, StatusWrite, TypeOK
<1>6. CASE Refused \/ GiveUp
  BY <1>6 DEF Refused, GiveUp, SetStatus, StatusWrite, TypeOK
<1>7. CASE AskOperator
  BY <1>7 DEF AskOperator, SetStatus, StatusWrite, TypeOK
<1>8. CASE Complete
  BY <1>8 DEF Complete, SetStatus, StatusWrite, TypeOK
<1>9. ASSUME NEW d \in Docs,
             \/ DocUnreadable(d) \/ DocAsks(d) \/ DocEmpty(d) \/ SaveMain(d)
             \/ SaveArticles(d)
      PROVE  StatusWrite(t)
  BY <1>9 DEF DocUnreadable, DocAsks, DocEmpty, SaveMain, SaveArticles, tables, StatusWrite
<1>10. ASSUME NEW d \in Docs, DocRaises(d) PROVE StatusWrite(t)
  <2>1. MarkError(job.task) /\ UNCHANGED output
    BY <1>10 DEF DocRaises
  <2>. QED
    BY <2>1 DEF MarkError, SetStatus, StatusWrite, TypeOK
<1>. QED
  BY <1>1, <1>2, <1>3, <1>4, <1>5, <1>6, <1>7, <1>8, <1>9, <1>10 DEF Work, Document

LEMMA StatusWritten ==
    ASSUME TypeOK, [Next]_vars, NEW t \in Tasks
    PROVE  StatusWrite(t)
<1>1. ASSUME NEW u \in Tasks, Receive(u) PROVE StatusWrite(t)
  BY <1>1 DEF Receive, SetStatus, StatusWrite, Harmless, TaskStatus, TypeOK
<1>2. CASE Failure
  <2>1. ASSUME NEW d \in Docs, DocNotFetched(d) \/ SaveMainFails(d) \/ SaveArticlesFails(d)
        PROVE  StatusWrite(t)
    BY <2>1 DEF DocNotFetched, SaveMainFails, SaveArticlesFails, tables, StatusWrite
  <2>2. ASSUME NEW s \in batch, LearnFails(s) PROVE StatusWrite(t)
    BY <2>2 DEF LearnFails, tables, StatusWrite
  <2>3. ASSUME NEW u \in Tasks, HandlerFails(u) PROVE StatusWrite(t)
    BY <2>3 DEF HandlerFails, MarkError, SetStatus, StatusWrite, TypeOK
  <2>5. ASSUME NEW u \in Tasks, MarkingFails(u) PROVE StatusWrite(t)
    BY <2>5 DEF MarkingFails, SetStatus, StatusWrite, TypeOK
  <2>4. CASE Crash
    BY <2>4 DEF Crash, tables, StatusWrite
  <2>. QED
    BY <1>2, <2>1, <2>2, <2>3, <2>4, <2>5 DEF Failure
<1>3. ASSUME NEW u \in Tasks, NEW class \in Classes, PostDecision(u, class)
      PROVE  StatusWrite(t)
  BY <1>3 DEF PostDecision, SetStatus, StatusWrite, Harmless, TaskStatus, TypeOK
<1>4. ASSUME NEW o \in Operators, Operator(o) PROVE StatusWrite(t)
  <2>1. CASE SaveAnswers(o)
    BY <2>1 DEF SaveAnswers, SetStatus, StatusWrite, Harmless, TaskStatus, TypeOK
  <2>2. ASSUME NEW u \in Tasks, SendAnswers(o, u) PROVE StatusWrite(t)
    BY <2>2 DEF SendAnswers, tables, StatusWrite
  <2>3. CASE CheckAnswers(o) \/ SaveArchive(o)
    BY <2>3 DEF CheckAnswers, SaveArchive, tables, taskRows, StatusWrite
  <2>4. ASSUME NEW e \in Emails, CheckArchive(o, e) PROVE StatusWrite(t)
    BY <2>4 DEF CheckArchive, tables, StatusWrite
  <2>. QED
    BY <1>4, <2>1, <2>2, <2>3, <2>4 DEF Operator
<1>5. ASSUME NEW e \in Emails, Unarchive(e) PROVE StatusWrite(t)
  BY <1>5 DEF Unarchive, taskRows, StatusWrite
<1>6. CASE UNCHANGED vars
  BY <1>6 DEF vars, tables, StatusWrite
<1>. QED
  BY <1>1, <1>2, <1>3, <1>4, <1>5, <1>6, WorkWritesStatus DEF Next

-----------------------------------------------------------------------------
(* The properties are kept                                                  *)

LEMMA StepKeepsCompleted ==
    ASSUME TypeOK, JobJustified, Grows, CompletedHasResult, [Next]_vars
    PROVE  CompletedHasResult'
<1>. SUFFICES ASSUME NEW t \in Tasks, status'[t] = "completed" PROVE HasFile(t, "main")'
  BY DEF CompletedHasResult
<1>1. status[t] = "completed" \/ (Complete /\ t = job.task)
  BY StatusWritten DEF StatusWrite, Harmless, AskOperator, SetStatus, TypeOK
<1>2. CASE status[t] = "completed"
  BY <1>2 DEF CompletedHasResult, HasFile, Grows
<1>3. CASE Complete /\ t = job.task
  <2>1. pc # "idle" /\ job.saved
    BY <1>3 DEF Complete, MayComplete, LoopDone
  <2>. QED
    BY <1>3, <2>1 DEF JobJustified, HasFile, Grows
<1>. QED
  BY <1>1, <1>2, <1>3

LEMMA StepKeepsQuestions ==
    ASSUME TypeOK, JobJustified, ReviewAsksParts, [Next]_vars
    PROVE  ReviewAsksParts'
<1>. SUFFICES ASSUME NEW t \in Tasks, status'[t] = "materials_review"
              PROVE  /\ output'[t].asks # {}
                     /\ output'[t].asks \subseteq PartsOfTask(t)
                     /\ ~output'[t].meta
  BY DEF ReviewAsksParts, Shown, PartsOfTask
<1>1. \/ status[t] = "materials_review" /\ output'[t] = output[t]
      \/ AskOperator /\ t = job.task
  BY StatusWritten DEF StatusWrite, Harmless, Complete, SetStatus, TypeOK
<1>2. CASE status[t] = "materials_review" /\ output'[t] = output[t]
  BY <1>2 DEF ReviewAsksParts, Shown
<1>3. CASE AskOperator /\ t = job.task
  <2>1. pc # "idle" /\ job.asks # {} /\ output'[t] = [asks |-> job.asks, meta |-> FALSE]
    BY <1>3 DEF AskOperator, LoopDone, Questions, TypeOK
  <2>. QED
    BY <1>3, <2>1 DEF JobJustified
<1>. QED
  BY <1>1, <1>2, <1>3

LEMMA StepKeepsResolved ==
    ASSUME TypeOK, CopiesJustified, Grows, ResultsResolved, [Next]_vars
    PROVE  ResultsResolved'
<1>1. \A p \in Parts : mapping[p] # "unknown" => mapping'[p] # "unknown"
  <2>1. ASSUME NEW s \in batch, LearnAnswers(s), NEW p \in Parts, mapping[p] # "unknown"
        PROVE  mapping'[p] # "unknown"
    <3>1. PICK S \in SUBSET Parts : s.manual \in [S -> Answer]
      BY <2>1, TakeFacts DEF LearnAnswers, Learning, Answers
    <3>. QED
      BY <2>1, <3>1 DEF LearnAnswers, Fits, Answer, Learn
  <2>. QED
    BY <2>1, MappingWritten
<1>. SUFFICES ASSUME NEW d \in Docs, <<d, "main">> \in results', NEW p \in PartsOf[d]
              PROVE  \/ mapping'[p] # "unknown"
                     \/ \E t \in Tasks : d \in DocsOf[EmailOf[t]] /\ manual'[t] # NoAnswers
  BY DEF ResultsResolved
<1>2. p \in Parts
  BY ShapeAssumption
<1>3. CASE <<d, "main">> \in results
  BY <1>1, <1>2, <1>3 DEF ResultsResolved, Grows
<1>4. CASE SaveMain(d)
  <2>1. InLoop(d) /\ pc # "idle" /\ Resolved(d) /\ job.task \in Tasks
    BY <1>4 DEF SaveMain, Parses, InLoop, TypeOK
  <2>2. CASE job.manual = NoAnswers
    <3>1. mapping[p] = "known"
      BY <1>2, <2>1, <2>2 DEF Resolved, Unresolved, PartsWith
    <3>. QED
      BY <1>1, <1>2, <3>1
  <2>3. CASE job.manual # NoAnswers
    <3>1. manual[job.task] # NoAnswers /\ d \in DocsOf[EmailOf[job.task]]
      BY <2>1, <2>3 DEF CopiesJustified, JobJustified, InLoop
    <3>. QED
      BY <2>1, <3>1 DEF Grows
  <2>. QED
    BY <2>2, <2>3
<1>. QED
  BY <1>3, <1>4, MainWritten

Explaining == pc \in {"explain", "explain_again"}

\* Between update_status and mark_error a handler can only be stopped by a crash.
LEMMA ExplainEnds ==
    ASSUME TypeOK, [Next]_vars, Explaining, ~message'[job.task]
    PROVE  (Explaining' /\ job'.task = job.task) \/ crashes' > 0
<1>0. job.task \in Tasks /\ pc \in {"explain", "explain_again"}
  BY DEF TypeOK, Explaining
<1>1. CASE Work
  BY <1>0, <1>1 DEF Work, Fetch, ClassifyEmail, Take, SaveLabelStatus, StartClassified, Route,
       Refuse, Refused, Document, DocUnreadable, DocRaises, DocAsks, DocEmpty, SaveMain,
       SaveArticles, AskOperator, Complete, MayComplete, GiveUp, Explain, LearnAnswers,
       NothingToLearn, LearnRefused, SaveLearned, Learning, InLoop, LoopDone, Parses, MarkError,
       TypeOK
<1>2. CASE Failure
  <2>1. ASSUME NEW t \in Tasks, HandlerFails(t) PROVE FALSE
    BY <1>0, <2>1 DEF HandlerFails, Handling, MarkError, TypeOK
  <2>2. ASSUME NEW t \in Tasks, MarkingFails(t) PROVE Explaining' /\ job'.task = job.task
    BY <1>0, <2>2 DEF MarkingFails, Handling, Goto, NoJob, Explaining
  <2>3. CASE Crash
    BY <2>3 DEF Crash, TypeOK
  <2>. QED
    BY <1>0, <1>2, <2>1, <2>2, <2>3
       DEF Failure, DocNotFetched, SaveMainFails, SaveArticlesFails, LearnFails, Learning, Take,
           InLoop, Parses
<1>. QED
  BY <1>1, <1>2
     DEF Next, Receive, PostDecision, Operator, SendAnswers, CheckAnswers, SaveAnswers,
         CheckArchive, SaveArchive, Unarchive, vars, local, Explaining

LEMMA CrashesWritten == [Next]_vars => UNCHANGED crashes \/ Crash
<1>1. Work => UNCHANGED crashes
  BY DEF Work, Fetch, ClassifyEmail, SaveLabelStatus, StartClassified, Route, Refuse, Refused,
         Document, DocUnreadable, DocRaises, DocAsks, DocEmpty, SaveMain, SaveArticles,
         AskOperator, Complete, GiveUp, Explain, LearnAnswers, NothingToLearn, LearnRefused,
         SaveLearned, bounds
<1>2. Failure => UNCHANGED crashes \/ Crash
  BY DEF Failure, DocNotFetched, SaveMainFails, SaveArticlesFails, LearnFails, HandlerFails,
         MarkingFails
<1>3. ASSUME NEW o \in Operators, Operator(o) PROVE UNCHANGED crashes
  BY <1>3 DEF Operator, SendAnswers, CheckAnswers, SaveAnswers, CheckArchive, SaveArchive,
              bounds
<1>. QED
  BY <1>1, <1>2, <1>3 DEF Next, Receive, PostDecision, Unarchive, vars, bounds

LEMMA CrashesGrow == TypeOK /\ [Next]_vars => crashes' \in Nat /\ crashes <= crashes'
BY CrashesWritten DEF Crash, TypeOK

LEMMA StepKeepsExplained ==
    ASSUME TypeOK, JobJustified, Grows, ErrorsExplained, [Next]_vars
    PROVE  ErrorsExplained'
<1>. SUFFICES ASSUME NEW t \in Tasks, status'[t] = "error", ~message'[t]
              PROVE  (Explaining' /\ job'.task = t) \/ crashes' > 0
  BY DEF ErrorsExplained, Explaining
<1>1. ~message[t]
  BY DEF Grows
<1>2. \/ status[t] = "error"
      \/ GiveUp /\ t = job.task
      \/ Refused /\ t = job.task
      \/ MarkingFails(t)
  BY StatusWritten
     DEF StatusWrite, Harmless, AskOperator, Complete, SetStatus, TypeOK
<1>3. CASE status[t] = "error"
  <2>1. (Explaining /\ job.task = t) \/ crashes > 0
    BY <1>1, <1>3 DEF ErrorsExplained, Explaining
  <2>2. CASE Explaining /\ job.task = t
    BY <2>2, ExplainEnds
  <2>3. CASE crashes > 0
    BY <2>3, CrashesGrow DEF TypeOK
  <2>. QED
    BY <2>1, <2>2, <2>3
<1>4. CASE GiveUp /\ t = job.task
  BY <1>4 DEF GiveUp, AfterGivingUp, Goto, Explaining
<1>5. CASE Refused /\ t = job.task
  BY <1>1, <1>5 DEF Refused, JobJustified
<1>6. CASE MarkingFails(t)
  BY <1>6 DEF MarkingFails, Goto, NoJob, Explaining
<1>. QED
  BY <1>2, <1>3, <1>4, <1>5, <1>6

-----------------------------------------------------------------------------
(* The theorems                                                             *)

LEMMA InitInv == Init => PipelineInv
<1>. SUFFICES ASSUME Init PROVE PipelineInv
  OBVIOUS
<1>1. TypeOK
  BY InitType
<1>2. CopiesJustified
  BY DEF Init, CopiesJustified, JobJustified, BatchJustified, SessionsJustified, NoRequest
<1>3. CompletedHasResult /\ ReviewAsksParts /\ ResultsResolved /\ ErrorsExplained
  BY DEF Init, CompletedHasResult, ReviewAsksParts, ResultsResolved, ErrorsExplained
<1>. QED
  BY <1>1, <1>2, <1>3 DEF PipelineInv

LEMMA NextInv == PipelineInv /\ [Next]_vars => PipelineInv'
<1>. SUFFICES ASSUME PipelineInv, [Next]_vars PROVE PipelineInv'
  OBVIOUS
<1>1. /\ TypeOK /\ CopiesJustified /\ JobJustified /\ SessionsJustified
      /\ CompletedHasResult /\ ReviewAsksParts /\ ResultsResolved /\ ErrorsExplained
  BY DEF PipelineInv, CopiesJustified
<1>2. Grows
  BY <1>1, StepGrows
<1>3. TypeOK'
  BY <1>1, NextType
<1>4. CopiesJustified'
  BY <1>1, <1>2, StepJustifiesJob, StepJustifiesBatch, StepJustifiesSessions
     DEF CopiesJustified
<1>. QED
  BY <1>1, <1>2, <1>3, <1>4, StepKeepsCompleted, StepKeepsQuestions, StepKeepsResolved,
     StepKeepsExplained
     DEF PipelineInv

LEMMA PipelineInvariant == Spec => []PipelineInv
BY InitInv, NextInv, PTL DEF Spec

\* The snapshots, locals and requests in flight never claim more than the rows and the
\* bucket: the reason the four theorems below hold under stale reads.
THEOREM CopiesStayJustified == Spec => []CopiesJustified
<1>1. PipelineInv => CopiesJustified
  BY DEF PipelineInv
<1>. QED
  BY <1>1, PipelineInvariant, PTL

\* A task the page offers for download has a result file, whatever came between the
\* upload and the status.
THEOREM CompletedOrdersHaveResults == Spec => []CompletedHasResult
<1>1. PipelineInv => CompletedHasResult
  BY DEF PipelineInv
<1>. QED
  BY <1>1, PipelineInvariant, PTL

\* The chat of a task in materials_review shows a question unless the only one is the blank
\* part, and asks only about parts of its documents.
THEOREM ReviewsAskAboutParts == Spec => []ReviewAsksParts
<1>1. PipelineInv => ReviewAsksParts
  BY DEF PipelineInv
<1>. QED
  BY <1>1, PipelineInvariant, PTL

\* Each part of a document with a file has an entry or was asked about.
THEOREM FilesAreResolved == Spec => []ResultsResolved
<1>1. PipelineInv => ResultsResolved
  BY DEF PipelineInv
<1>. QED
  BY <1>1, PipelineInvariant, PTL

\* Only a crash leaves a task in error without a message.
THEOREM ErrorsHaveMessages == Spec => []ErrorsExplained
<1>1. PipelineInv => ErrorsExplained
  BY DEF PipelineInv
<1>. QED
  BY <1>1, PipelineInvariant, PTL

=============================================================================
