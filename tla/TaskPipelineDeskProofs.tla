------------------------ MODULE TaskPipelineDeskProofs ------------------------
(* What the pipeline promises to those outside of it.  It implements        *)
(* OrderDesk: initial states map to initial states, and every step to a     *)
(* step of the desk or to a stutter.  And the list of OrderList shows an    *)
(* operator every order that waits for an answer.                           *)
EXTENDS TaskPipelineDecisionProofs, TaskPipelineDesk, OrderList, WellFoundedInduction

-----------------------------------------------------------------------------
(* The answers are about the parts of the task                              *)

\* An answer that is not NoAnswers says something about some part.
LEMMA AnswersName ==
    ASSUME NEW a \in Answers, a # NoAnswers
    PROVE  DOMAIN a # {} /\ DOMAIN a \subseteq Parts /\ \A p \in DOMAIN a : a[p] # "unknown"
<1>1. PICK S \in SUBSET Parts : a \in [S -> Answer]
  BY DEF Answers
<1>2. ASSUME S = {} PROVE FALSE
  <2>1. a = [p \in {} |-> "known"]
    BY <1>1, <1>2
  <2>. QED
    BY <2>1 DEF NoAnswers
<1>. QED
  BY <1>1, <1>2 DEF Answer

LEMMA StepKeepsWithin ==
    ASSUME TypeOK, ReviewAsksParts, AnswersWithinParts, [Next]_vars
    PROVE  AnswersWithinParts'
<1>. DEFINE Kinds == {"answering", "answer_checked"}
<1>1. ASSUME NEW o \in Operators, session'[o].kind \in Kinds
      PROVE  /\ DOMAIN session'[o].answers \subseteq PartsOfTask(session'[o].task)
             /\ status'[session'[o].task] # "absent"
  <2>1. ASSUME session'[o] = session[o] PROVE
               /\ DOMAIN session'[o].answers \subseteq PartsOfTask(session'[o].task)
               /\ status[session'[o].task] # "absent" /\ session'[o].task \in Tasks
    <3>1. session[o] \in [kind : {"answering", "answer_checked"}, task : Tasks,
                          answers : Answers]
      BY <1>1, <2>1 DEF TypeOK, Requests
    <3>. QED
      BY <1>1, <2>1, <3>1 DEF AnswersWithinParts
  <2>2. ASSUME NEW u \in Operators, NEW t \in Tasks, SendAnswers(u, t), session'[o] # session[o]
        PROVE  /\ DOMAIN session'[o].answers \subseteq PartsOfTask(session'[o].task)
               /\ status[session'[o].task] # "absent" /\ session'[o].task \in Tasks
    <3>1. PICK a \in [Shown(t) -> Answer] :
            session' = [session EXCEPT ![u] =
                          [kind |-> "answering", task |-> t, answers |-> a]]
      BY <2>2 DEF SendAnswers
    <3>2. session'[o].answers = a /\ session'[o].task = t
      BY <2>2, <3>1 DEF TypeOK
    <3>3. Shown(t) \subseteq PartsOfTask(t) /\ status[t] # "absent"
      BY <2>2 DEF SendAnswers, ReviewAsksParts, Shown
    <3>. QED
      BY <3>1, <3>2, <3>3
  <2>3. ASSUME NEW u \in Operators, CheckAnswers(u), session'[o] # session[o]
        PROVE  /\ DOMAIN session'[o].answers \subseteq PartsOfTask(session'[o].task)
               /\ status[session'[o].task] # "absent" /\ session'[o].task \in Tasks
    <3>1. /\ session[u] \in [kind : {"answering", "answer_checked"}, task : Tasks,
                             answers : Answers]
          /\ u = o
      BY <2>3 DEF CheckAnswers, TypeOK, Requests
    <3>2. session'[o].task = session[o].task /\ session'[o].answers = session[o].answers
      BY <1>1, <2>3, <3>1 DEF CheckAnswers, TypeOK, NoRequest
    <3>. QED
      BY <3>1, <3>2 DEF AnswersWithinParts
  <2>4. ASSUME NEW u \in Operators, SaveAnswers(u) \/ SaveArchive(u)
        PROVE  session'[o] = session[o]
    BY <1>1, <2>4 DEF SaveAnswers, SaveArchive, NoRequest, TypeOK
  <2>5. ASSUME NEW u \in Operators, NEW e \in Emails, CheckArchive(u, e)
        PROVE  session'[o] = session[o]
    BY <1>1, <2>5 DEF CheckArchive, TypeOK
  <2>6. /\ DOMAIN session'[o].answers \subseteq PartsOfTask(session'[o].task)
        /\ status[session'[o].task] # "absent" /\ session'[o].task \in Tasks
    BY <2>1, <2>2, <2>3, <2>4, <2>5, SessionWritten
  <2>. QED
    BY <2>6, TasksStay
<1>2. ASSUME NEW t \in Tasks PROVE DOMAIN manual'[t] \subseteq PartsOfTask(t)
  <2>1. ASSUME NEW o \in Operators, SaveAnswers(o) PROVE DOMAIN manual'[t] \subseteq PartsOfTask(t)
    BY <2>1 DEF SaveAnswers, AnswersWithinParts, TypeOK
  <2>. QED
    BY <2>1, ManualWritten DEF AnswersWithinParts
<1>3. ASSUME NEW s \in batch' PROVE DOMAIN s.manual \subseteq PartsOfTask(s.task)
  <2>1. CASE Fetch
    <3>1. PICK t \in FirstPending : s.task = t /\ s.manual = manual[t]
      BY <2>1 DEF Fetch
    <3>. QED
      BY <3>1 DEF AnswersWithinParts, FirstPending, Pending
  <2>. QED
    BY <2>1, BatchWritten DEF AnswersWithinParts
<1>. QED
  BY <1>1, <1>2, <1>3 DEF AnswersWithinParts, PartsOfTask

LEMMA InitDeskInv == Init => DeskInv
<1>. SUFFICES ASSUME Init PROVE DeskInv
  OBVIOUS
<1>1. PipelineInv /\ HeldJustified
  BY InitDecision DEF DecisionInv
<1>2. AnswersWithinParts
  BY DEF Init, AnswersWithinParts, NoAnswers, NoRequest
<1>. QED
  BY <1>1, <1>2 DEF DeskInv

LEMMA NextDeskInv == DeskInv /\ [Next]_vars => DeskInv'
BY NextInv, StepJustifiesHeld, StepKeepsWithin DEF DeskInv, PipelineInv

-----------------------------------------------------------------------------
(* The variables of the desk                                                *)

Stage == [t \in Tasks |-> StageOfStatus(status[t])]
Dictionary == {p \in Parts : mapping[p] # "unknown"}
Answered == {t \in Tasks : manual[t] # NoAnswers}

DeskStutters == UNCHANGED <<Stage, results, Dictionary, Answered>>

LEMMA StatusKeepsStage == UNCHANGED status => UNCHANGED Stage
BY DEF Stage

LEMMA MappingKeepsDictionary == UNCHANGED mapping => UNCHANGED Dictionary
BY DEF Dictionary

LEMMA ManualKeepsAnswered == UNCHANGED manual => UNCHANGED Answered
BY DEF Answered

\* A status written to a row that exists is a move of the task on the desk.
LEMMA StatusMovesStage ==
    ASSUME TypeOK, NEW t \in Tasks, NEW st, SetStatus(t, st)
    PROVE  Stage' = [Stage EXCEPT ![t] = StageOfStatus(st)]
BY DEF SetStatus, Stage, TypeOK

LEMMA ArrivedStages ==
    ASSUME TypeOK, NEW t \in Tasks
    PROVE  Stage[t] = "absent" <=> status[t] = "absent"
BY DEF Stage, StageOfStatus, PendingStatus, TypeOK, TaskStatus

LEMMA StatusIsMove ==
    ASSUME TypeOK, NEW t \in Tasks, status[t] # "absent", NEW st, SetStatus(t, st)
    PROVE  Desk!Move(t, StageOfStatus(st))
BY StatusMovesStage, ArrivedStages DEF Desk!Move, Stage

LEMMA Stages ==
    /\ \A s \in PendingStatus : StageOfStatus(s) = "queued"
    /\ StageOfStatus("question") = "question" /\ StageOfStatus("ml_review") = "triage"
    /\ StageOfStatus("materials_review") = "asking" /\ StageOfStatus("completed") = "done"
    /\ StageOfStatus("error") = "failed" /\ StageOfStatus("absent") = "absent"
BY DEF StageOfStatus, PendingStatus

\* An action that writes a status the machine or an operator may send a task to, and nothing
\* else the desk sees.
LEMMA StatusIsRoute ==
    ASSUME TypeOK, NEW t \in Tasks, status[t] # "absent",
           NEW st \in PendingStatus \cup {"question", "ml_review", "error"}, SetStatus(t, st),
           UNCHANGED <<manual, mapping, results>>
    PROVE  Desk!Route(t)
<1>1. StageOfStatus(st) \in {"queued", "question", "triage", "failed"}
  BY Stages
<1>2. Desk!Move(t, StageOfStatus(st))
  BY StatusIsMove
<1>3. UNCHANGED <<Dictionary, Answered>>
  BY MappingKeepsDictionary, ManualKeepsAnswered
<1>. QED
  BY <1>1, <1>2, <1>3 DEF Desk!Route, Dictionary, Answered

LEMMA PartsOfTaskAgree == \A t \in Tasks : Desk!PartsOfTask(t) = PartsOfTask(t)
BY DEF Desk!PartsOfTask, Desk!DocsOfTask, PartsOfTask

-----------------------------------------------------------------------------
(* Every step of the pipeline is a step of the desk, or one it does not see *)

DeskStep == [Desk!Next]_(Desk!desk)

LEMMA UnseenStep ==
    ASSUME UNCHANGED <<status, manual, mapping, results>>
    PROVE  DeskStep
BY StatusKeepsStage, MappingKeepsDictionary, ManualKeepsAnswered
   DEF DeskStep, Desk!desk, Stage, Dictionary, Answered

LEMMA RouteStep ==
    ASSUME NEW t \in Tasks, Desk!Route(t)
    PROVE  DeskStep
BY DEF DeskStep, Desk!Next

\* A document whose parts are resolved for the handler is accounted for on the desk.
LEMMA ResolvedAreAccounted ==
    ASSUME TypeOK, JobJustified, NEW d \in Docs, InLoop(d), Resolved(d)
    PROVE  Desk!Accounted(d)
<1>1. /\ pc # "idle" /\ job.task \in Tasks /\ d \in DocsOf[EmailOf[job.task]]
      /\ PartsOf[d] \subseteq Parts
  BY ShapeAssumption DEF InLoop, JobJustified, TypeOK
<1>2. CASE job.manual = NoAnswers
  <2>1. \A p \in PartsOf[d] : mapping[p] = "known"
    BY <1>2 DEF Resolved, Unresolved, PartsWith
  <2>. QED
    BY <1>1, <2>1 DEF Desk!Accounted
<1>3. CASE job.manual # NoAnswers
  <2>1. manual[job.task] # NoAnswers
    BY <1>1, <1>3 DEF JobJustified
  <2>. QED
    BY <1>1, <2>1 DEF Desk!Accounted, Desk!DocsOfTask
<1>. QED
  BY <1>2, <1>3

LEMMA SaveMainStep ==
    ASSUME TypeOK, JobJustified, NEW d \in Docs, SaveMain(d)
    PROVE  DeskStep
<1>1. Desk!Accounted(d)
  BY ResolvedAreAccounted DEF SaveMain, Parses
<1>2. results' = results \cup {<<d, "main">>} /\ UNCHANGED <<status, mapping, manual>>
  BY DEF SaveMain, MainObject, tables
<1>3. UNCHANGED <<Stage, Dictionary, Answered>>
  BY <1>2, StatusKeepsStage, MappingKeepsDictionary, ManualKeepsAnswered
<1>4. Desk!DeliverMain(d)
  BY <1>1, <1>2, <1>3 DEF Desk!DeliverMain, Stage, Dictionary, Answered
<1>. QED
  BY <1>4 DEF DeskStep, Desk!Next

LEMMA SaveArticlesStep ==
    ASSUME TypeOK, JobJustified, NEW d \in Docs, SaveArticles(d)
    PROVE  DeskStep
<1>1. <<d, "main">> \in results
  BY DEF SaveArticles, JobJustified
<1>2. results' = results \cup {<<d, "articles">>} /\ UNCHANGED <<status, mapping, manual>>
  BY DEF SaveArticles, tables
<1>3. UNCHANGED <<Stage, Dictionary, Answered>>
  BY <1>2, StatusKeepsStage, MappingKeepsDictionary, ManualKeepsAnswered
<1>4. Desk!DeliverArticles(d)
  BY <1>1, <1>2, <1>3 DEF Desk!DeliverArticles, Stage, Dictionary, Answered
<1>. QED
  BY <1>4 DEF DeskStep, Desk!Next

\* What an operator answered about the task's parts enters the dictionary; nothing leaves it.
LEMMA LearnAnswersStep ==
    ASSUME TypeOK, BatchJustified, AnswersWithinParts, NEW s \in batch, LearnAnswers(s)
    PROVE  DeskStep
<1>1. s.task \in Tasks /\ s.manual \in Answers
  BY TakeFacts DEF LearnAnswers, Learning
<1>2. UNCHANGED <<status, manual, results>>
  BY DEF LearnAnswers, taskRows
<1>3. UNCHANGED <<Stage, Answered>>
  BY <1>2, StatusKeepsStage, ManualKeepsAnswered
<1>4. mapping' = Learn(s.manual) /\ s.manual # NoAnswers
  BY DEF LearnAnswers, Learning
<1>5. /\ DOMAIN s.manual \subseteq PartsOfTask(s.task) /\ DOMAIN s.manual \subseteq Parts
      /\ \A p \in DOMAIN s.manual : s.manual[p] # "unknown"
  BY <1>1, <1>4, AnswersName DEF AnswersWithinParts
<1>6. Dictionary' = Dictionary \cup DOMAIN s.manual
  BY <1>4, <1>5 DEF Dictionary, Learn
<1>7. s.task \in Answered
  BY <1>1, <1>4 DEF BatchJustified, Answered
<1>8. DOMAIN s.manual \in SUBSET Desk!PartsOfTask(s.task)
  BY <1>1, <1>5, PartsOfTaskAgree
<1>9. Desk!Learn(s.task)
  BY <1>2, <1>3, <1>6, <1>7, <1>8 DEF Desk!Learn, Stage, Dictionary, Answered
<1>. QED
  BY <1>1, <1>9 DEF DeskStep, Desk!Next

LEMMA SaveAnswersStep ==
    ASSUME TypeOK, SessionsJustified, AnswersWithinParts, NEW o \in Operators, SaveAnswers(o)
    PROVE  DeskStep
<1>0. PICK t \in Tasks : t = session[o].task
  BY DEF SaveAnswers, TypeOK, Requests
<1>1. session[o].answers \in Answers
  BY DEF SaveAnswers, TypeOK, Requests
<1>2. session[o].answers # NoAnswers /\ status[t] # "absent"
  BY <1>0 DEF SaveAnswers, SessionsJustified, AnswersWithinParts
<1>3. PartsOfTask(t) # {}
  BY <1>0, <1>1, <1>2, AnswersName DEF SaveAnswers, AnswersWithinParts
<1>4. /\ SetStatus(t, "manual_review_done")
      /\ manual' = [manual EXCEPT ![t] = session[o].answers]
      /\ UNCHANGED <<mapping, results>>
  BY <1>0 DEF SaveAnswers
<1>5. Desk!Move(t, "queued")
  BY <1>2, <1>4, StatusIsMove, Stages DEF PendingStatus
<1>6. Answered' = Answered \cup {t}
  BY <1>2, <1>4 DEF Answered, TypeOK
<1>7. UNCHANGED Dictionary
  BY <1>4, MappingKeepsDictionary
<1>8. Desk!PartsOfTask(t) # {}
  BY <1>3, PartsOfTaskAgree
<1>9. Desk!Answer(t)
  BY <1>4, <1>5, <1>6, <1>7, <1>8 DEF Desk!Answer, Dictionary, Answered
<1>. QED
  BY <1>9 DEF DeskStep, Desk!Next

\* The statuses a handler writes.
LEMMA HandlerStep ==
    ASSUME TypeOK, CopiesJustified, HeldJustified,
           \/ SaveLabelStatus \/ Route \/ Refuse \/ Refused \/ AskOperator \/ Complete
           \/ GiveUp \/ Explain \/ SaveLearned
    PROVE  DeskStep
<1>0. pc # "idle" /\ job.task \in Tasks /\ status[job.task] # "absent"
  <2>1. pc # "idle"
    BY DEF SaveLabelStatus, Route, Refuse, Refused, AskOperator, Complete, MayComplete,
           LoopDone, GiveUp, Explain, SaveLearned
  <2>. QED
    BY <2>1, HeldAreTasks DEF HeldJustified, TypeOK
<1>1. UNCHANGED <<manual, mapping, results>>
  BY DEF SaveLabelStatus, Route, Refuse, Refused, AskOperator, Complete, GiveUp, Explain,
         SaveLearned
<1>2. UNCHANGED <<Dictionary, Answered>>
  BY <1>1, MappingKeepsDictionary, ManualKeepsAnswered
<1>3. CASE SaveLabelStatus \/ Route \/ Refuse \/ Refused \/ GiveUp \/ Explain \/ SaveLearned
  <2>1. PICK st \in PendingStatus \cup {"question", "ml_review", "error"} :
          SetStatus(job.task, st)
    BY <1>3 DEF SaveLabelStatus, LabelStatus, Route, Refuse, Refused, GiveUp, Explain,
                MarkError, SaveLearned, LearnedStatus, PendingStatus
  <2>. QED
    BY <1>0, <1>1, <2>1, StatusIsRoute, RouteStep
<1>4. CASE AskOperator
  <2>1. Desk!Move(job.task, "asking")
    BY <1>0, <1>4, StatusIsMove, Stages DEF AskOperator
  <2>2. Desk!PartsOfTask(job.task) # {}
    BY <1>0, <1>4, PartsOfTaskAgree DEF AskOperator, CopiesJustified, JobJustified
  <2>3. Desk!Ask(job.task)
    BY <1>1, <1>2, <2>1, <2>2 DEF Desk!Ask, Dictionary, Answered
  <2>. QED
    BY <1>0, <2>3 DEF DeskStep, Desk!Next
<1>5. CASE Complete
  <2>1. Desk!Move(job.task, "done")
    BY <1>0, <1>5, StatusIsMove, Stages DEF Complete
  <2>2. \E d \in Desk!DocsOfTask(job.task) : <<d, "main">> \in results
    BY <1>0, <1>5 DEF Complete, MayComplete, CopiesJustified, JobJustified, HasFile,
                      Desk!DocsOfTask
  <2>3. Desk!Finish(job.task)
    BY <1>1, <1>2, <2>1, <2>2 DEF Desk!Finish, Dictionary, Answered
  <2>. QED
    BY <1>0, <2>3 DEF DeskStep, Desk!Next
<1>. QED
  BY <1>3, <1>4, <1>5

LEMMA ReceiveStep ==
    ASSUME TypeOK, NEW t \in Tasks, Receive(t)
    PROVE  DeskStep
<1>1. status[t] = "absent" /\ SetStatus(t, "new") /\ UNCHANGED <<manual, mapping, results>>
  BY DEF Receive
<1>2. Stage' = [Stage EXCEPT ![t] = "queued"]
  BY <1>1, StatusMovesStage, Stages DEF PendingStatus
<1>3. UNCHANGED <<Dictionary, Answered>>
  BY <1>1, MappingKeepsDictionary, ManualKeepsAnswered
<1>4. Stage[t] = "absent"
  BY <1>1, ArrivedStages
<1>5. Desk!Receive(t)
  BY <1>1, <1>2, <1>3, <1>4 DEF Desk!Receive, Stage, Dictionary, Answered
<1>. QED
  BY <1>5 DEF DeskStep, Desk!Next

LEMMA EveryStepMaps == DeskInv /\ [Next]_vars => DeskStep
<1>. SUFFICES ASSUME DeskInv, [Next]_vars PROVE DeskStep
  OBVIOUS
<1>0. /\ TypeOK /\ CopiesJustified /\ JobJustified /\ BatchJustified /\ SessionsJustified
      /\ HeldJustified /\ AnswersWithinParts
  BY DEF DeskInv, PipelineInv, CopiesJustified
<1>1. ASSUME NEW t \in Tasks, Receive(t) PROVE DeskStep
  BY <1>0, <1>1, ReceiveStep
<1>2. CASE Work
  <2>1. CASE Fetch
    BY <2>1, UnseenStep DEF Fetch, tables
  <2>2. ASSUME NEW s \in batch, NEW label \in Labels, ClassifyEmail(s, label) PROVE DeskStep
    BY <2>2, UnseenStep DEF ClassifyEmail, taskRows
  <2>3. ASSUME NEW s \in batch, StartClassified(s) PROVE DeskStep
    BY <2>3, UnseenStep DEF StartClassified, tables
  <2>4. ASSUME NEW s \in batch, LearnAnswers(s) PROVE DeskStep
    BY <1>0, <2>4, LearnAnswersStep
  <2>7. ASSUME NEW s \in batch, NothingToLearn(s) \/ LearnRefused(s) PROVE DeskStep
    BY <2>7, UnseenStep DEF NothingToLearn, LearnRefused, tables
  <2>5. ASSUME NEW d \in Docs, DocUnreadable(d) \/ DocAsks(d) \/ DocEmpty(d) PROVE DeskStep
    BY <2>5, UnseenStep DEF DocUnreadable, DocAsks, DocEmpty, tables
  <2>6. ASSUME NEW d \in Docs, DocRaises(d) PROVE DeskStep
    <3>1. pc # "idle" /\ SetStatus(job.task, "error") /\ UNCHANGED <<manual, mapping, results>>
      BY <2>6 DEF DocRaises, MarkError, Parses, InLoop
    <3>2. job.task \in Tasks /\ status[job.task] # "absent"
      BY <1>0, <3>1, HeldAreTasks DEF HeldJustified, TypeOK
    <3>. QED
      BY <1>0, <3>1, <3>2, StatusIsRoute, RouteStep
  <2>. QED
    BY <1>0, <1>2, <2>1, <2>2, <2>3, <2>4, <2>5, <2>6, <2>7, HandlerStep, SaveMainStep,
       SaveArticlesStep
       DEF Work, Document
<1>3. CASE Failure
  <2>1. ASSUME NEW d \in Docs, DocNotFetched(d) \/ SaveMainFails(d) \/ SaveArticlesFails(d)
        PROVE  DeskStep
    BY <2>1, UnseenStep DEF DocNotFetched, SaveMainFails, SaveArticlesFails, tables
  <2>2. ASSUME NEW s \in batch, LearnFails(s) PROVE DeskStep
    BY <2>2, UnseenStep DEF LearnFails, tables
  <2>3. ASSUME NEW t \in Tasks, HandlerFails(t) \/ MarkingFails(t) PROVE DeskStep
    <3>1. t \in Held /\ SetStatus(t, "error") /\ UNCHANGED <<manual, mapping, results>>
      BY <2>3 DEF HandlerFails, MarkingFails, Handling, MarkError, Held
    <3>2. status[t] # "absent"
      BY <1>0, <3>1 DEF HeldJustified
    <3>. QED
      BY <1>0, <3>1, <3>2, StatusIsRoute, RouteStep
  <2>4. CASE Crash
    BY <2>4, UnseenStep DEF Crash, tables
  <2>. QED
    BY <1>3, <2>1, <2>2, <2>3, <2>4 DEF Failure
<1>4. ASSUME NEW t \in Tasks, NEW class \in Classes, PostDecision(t, class) PROVE DeskStep
  <2>1. /\ status[t] # "absent" /\ UNCHANGED <<manual, mapping, results>>
        /\ SetStatus(t, IF class = "question" THEN "question" ELSE "ml_classified")
    BY <1>4 DEF PostDecision
  <2>. QED
    BY <1>0, <2>1, StatusIsRoute, RouteStep DEF PendingStatus
<1>5. ASSUME NEW o \in Operators, Operator(o) PROVE DeskStep
  <2>1. CASE SaveAnswers(o)
    BY <1>0, <2>1, SaveAnswersStep
  <2>2. CASE ~SaveAnswers(o)
    BY <1>5, <2>2, UnseenStep
       DEF Operator, SendAnswers, CheckAnswers, CheckArchive, SaveArchive, tables, taskRows
  <2>. QED
    BY <2>1, <2>2
<1>6. ASSUME NEW e \in Emails, Unarchive(e) PROVE DeskStep
  BY <1>6, UnseenStep DEF Unarchive, taskRows
<1>7. CASE UNCHANGED vars
  BY <1>7, UnseenStep DEF vars, tables
<1>. QED
  BY <1>1, <1>2, <1>3, <1>4, <1>5, <1>6, <1>7 DEF Next

LEMMA InitMaps == Init => Desk!Init
<1>. SUFFICES ASSUME Init PROVE Desk!Init
  OBVIOUS
<1>1. \A t \in Tasks : StageOfStatus(status[t]) = "absent"
  BY Stages DEF Init
<1>. QED
  BY <1>1 DEF Init, Desk!Init

-----------------------------------------------------------------------------
(* The list of orders                                                       *)

LEMMA SmallestNat ==
    ASSUME NEW T, T \subseteq Nat, T # {}
    PROVE  \E x \in T : \A y \in T : x <= y
<1>. DEFINE R == {ss \in Nat \X Nat : ss[1] < ss[2]}
<1>1. IsWellFoundedOn(R, Nat)
  BY NatLessThanWellFounded DEF OpToRel
<1>2. PICK x \in T : \A y \in T : <<y, x>> \notin R
  <2>. HIDE DEF R
  <2>. QED
    BY <1>1, WFMin
<1>3. ASSUME NEW y \in T PROVE x <= y
  <2>1. <<y, x>> \notin R /\ x \in Nat /\ y \in Nat
    BY <1>2
  <2>2. ~(y < x)
    BY <2>1
  <2>. QED
    BY <2>1, <2>2
<1>. QED
  BY <1>3

LEMMA RanksAreNumbers ==
    ASSUME TypeOK, NEW t \in Tasks, status[t] # "absent"
    PROVE  Rank[status[t]] \in Nat
BY DEF Rank, TypeOK, TaskStatus

\* The order of _task_status_order_sql has a first order for every email: the latest of those
\* with the smallest rank.  So the CHOOSE of Listed chooses that one.
LEMMA ListedIsFirst ==
    ASSUME TypeOK, NEW e, TasksOf(e) # {}
    PROVE  /\ Listed(e) \in TasksOf(e)
           /\ \A u \in TasksOf(e) \ {Listed(e)} : Before(Listed(e), u)
<1>. DEFINE Ranks == {Rank[status[t]] : t \in TasksOf(e)}
<1>0. /\ NumTasks \in Nat /\ \A t \in TasksOf(e) : t \in Tasks /\ t \in Nat /\ t <= NumTasks
      /\ \A t \in TasksOf(e) : Rank[status[t]] \in Nat
  BY RanksAreNumbers, ShapeAssumption DEF TasksOf, Tasks
<1>1. PICK r \in Ranks : \A q \in Ranks : r <= q
  <2>1. Ranks \subseteq Nat /\ Ranks # {}
    BY <1>0
  <2>. HIDE DEF Ranks
  <2>. QED
    BY <2>1, SmallestNat
<1>. DEFINE Best == {t \in TasksOf(e) : Rank[status[t]] = r}
<1>. DEFINE Ages == {NumTasks - t : t \in Best}
<1>2. PICK k \in Ages : \A j \in Ages : k <= j
  <2>1. Ages \subseteq Nat /\ Ages # {}
    BY <1>0, <1>1
  <2>. HIDE DEF Ages
  <2>. QED
    BY <2>1, SmallestNat
<1>3. PICK t \in Best : k = NumTasks - t
  BY <1>2
<1>4. ASSUME NEW u \in TasksOf(e) \ {t} PROVE Before(t, u)
  <2>1. r \in Nat /\ Rank[status[u]] \in Nat /\ r <= Rank[status[u]] /\ Rank[status[t]] = r
    BY <1>0, <1>1, <1>3
  <2>2. CASE Rank[status[u]] = r
    <3>1. NumTasks - u \in Ages
      BY <1>4, <2>2
    <3>2. NumTasks - t <= NumTasks - u
      BY <1>2, <1>3, <3>1
    <3>3. u \in Nat /\ t \in Nat /\ u # t /\ NumTasks \in Nat
      BY <1>0, <1>3, <1>4
    <3>. QED
      BY <2>1, <2>2, <3>2, <3>3 DEF Before
  <2>3. CASE Rank[status[u]] # r
    BY <2>1, <2>3 DEF Before
  <2>. QED
    BY <2>2, <2>3
<1>5. t \in TasksOf(e)
  BY <1>3
<1>. QED
  BY <1>4, <1>5 DEF Listed

\* An order that is listed before one that asks is in the queue, asks itself, or is completed.
LEMMA QuestionsAreListed ==
    ASSUME TypeOK, CompletedHasResult
    PROVE  QuestionsReachOperator
<1>. SUFFICES ASSUME NEW e \in Emails, NEW t \in TasksOf(e), status[t] = "materials_review"
              PROVE  \/ status[Listed(e)] \in PendingStatus \cup {"materials_review"}
                     \/ HasFile(Listed(e), "main")
  BY DEF QuestionsReachOperator, Inbox
<1>. DEFINE l == Listed(e)
<1>1. l \in TasksOf(e) /\ (l = t \/ Before(l, t))
  BY ListedIsFirst
<1>2. l \in Tasks /\ status[l] \in TaskStatus
  BY <1>1 DEF TasksOf, TypeOK
<1>3. l = t \/ Rank[status[l]] <= 3
  BY <1>1, <1>2, RanksAreNumbers DEF Before, Rank, TaskStatus
<1>4. status[l] \in PendingStatus \cup {"materials_review", "completed"}
  BY <1>2, <1>3 DEF Rank, TaskStatus, PendingStatus
<1>. HIDE DEF l
<1>5. \/ status[l] \in PendingStatus \cup {"materials_review"}
      \/ HasFile(l, "main")
  BY <1>2, <1>4 DEF CompletedHasResult
<1>. QED
  BY <1>5 DEF l

-----------------------------------------------------------------------------
(* The theorems                                                             *)

LEMMA DeskInvariant == Spec => []DeskInv
BY InitDeskInv, NextDeskInv, PTL DEF Spec

\* What an operator answers, however old the page was when it was sent, is about parts of the
\* documents of that order.
THEOREM AnswersStayWithinParts == Spec => []AnswersWithinParts
<1>1. DeskInv => AnswersWithinParts
  BY DEF DeskInv
<1>. QED
  BY <1>1, DeskInvariant, PTL

\* Every behaviour of the pipeline, with its batches of old snapshots, its crashes between two
\* transactions and its requests that check before they write, is one the desk allows.
THEOREM PipelineImplementsDesk == Spec => ImplementsDesk
<1>1. DeskInv /\ [Next]_vars => [Desk!Next]_(Desk!desk)
  BY EveryStepMaps DEF DeskStep
<1>. QED
  BY <1>1, InitMaps, DeskInvariant, PTL DEF Spec, ImplementsDesk, Desk!Spec

\* No order in error hides one that asks the operators: the email is listed with an order that
\* asks, one the processor has to fetch, or one that has its result.
THEOREM QuestionsAreSeen == Spec => []QuestionsReachOperator
<1>1. PipelineInv => QuestionsReachOperator
  BY QuestionsAreListed DEF PipelineInv
<1>. QED
  BY <1>1, PipelineInvariant, PTL

=============================================================================
