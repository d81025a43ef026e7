---------------------- MODULE TaskPipelineDecisionProofs ----------------------
(* The properties of TaskPipeline about decisions, from DecisionInv.        *)
EXTENDS TaskPipelineProofs

-----------------------------------------------------------------------------
(* Who writes what *)

\* The decision of an email is written by the classifier and by operators.
LEMMA DecisionWritten ==
    [Next]_vars => \/ UNCHANGED decision
                   \/ \E s \in batch, label \in Labels : ClassifyEmail(s, label)
                   \/ \E t \in Tasks, class \in Classes : PostDecision(t, class)
BY DEF Next, Receive, Work, Fetch, SaveLabelStatus, StartClassified, Route, Refuse, Refused,
       Document, DocUnreadable, DocRaises, DocAsks, DocEmpty, SaveMain, SaveArticles,
       AskOperator, Complete, GiveUp, Explain, LearnAnswers, NothingToLearn, LearnRefused,
       SaveLearned, Failure, DocNotFetched, SaveMainFails, SaveArticlesFails, LearnFails,
       HandlerFails, MarkingFails, Crash, Operator, SendAnswers, CheckAnswers, SaveAnswers,
       CheckArchive, SaveArchive, Unarchive, vars, tables, emailRows

LEMMA ManualWritten ==
    [Next]_vars => UNCHANGED manual \/ \E o \in Operators : SaveAnswers(o)
BY DEF Next, Receive, Work, Fetch, ClassifyEmail, SaveLabelStatus, StartClassified, Route,
       Refuse, Refused, Document, DocUnreadable, DocRaises, DocAsks, DocEmpty, SaveMain,
       SaveArticles, AskOperator, Complete, GiveUp, Explain, LearnAnswers, NothingToLearn,
       LearnRefused, SaveLearned, Failure, DocNotFetched, SaveMainFails, SaveArticlesFails,
       LearnFails, HandlerFails, MarkingFails, Crash, PostDecision, Operator, SendAnswers,
       CheckAnswers, CheckArchive, SaveArchive, Unarchive, vars, tables, taskRows

LEMMA OvertakenWritten ==
    [Next]_vars => \/ UNCHANGED overtaken
                   \/ Fetch
                   \/ \E t \in Tasks, class \in Classes : PostDecision(t, class)
                   \/ \E o \in Operators : SaveAnswers(o)
BY DEF Next, Receive, Work, ClassifyEmail, SaveLabelStatus, StartClassified, Route, Refuse,
       Refused, Document, DocUnreadable, DocRaises, DocAsks, DocEmpty, SaveMain, SaveArticles,
       AskOperator, Complete, GiveUp, Explain, LearnAnswers, NothingToLearn, LearnRefused,
       SaveLearned, Failure, DocNotFetched, SaveMainFails, SaveArticlesFails, LearnFails,
       HandlerFails, MarkingFails, Crash, Operator, SendAnswers, CheckAnswers, CheckArchive,
       SaveArchive, Unarchive, vars, history

\* Which handler runs, and what is left of the batch.
LEMMA HeldWritten ==
    ASSUME TypeOK, [Next]_vars
    PROVE  \/ Fetch
           \/ batch' \subseteq batch /\ pc' = "idle"
           \/ batch' \subseteq batch /\ pc # "idle" /\ job'.task = job.task
           \/ \E s \in batch : /\ pc = "idle" /\ pc' # "idle"
                               /\ batch' = batch \ {s} /\ job'.task = s.task
           \/ \E t \in Tasks : MarkingFails(t)
<1>. DEFINE Kept == \/ batch' \subseteq batch /\ pc' = "idle"
                    \/ batch' \subseteq batch /\ pc # "idle" /\ job'.task = job.task
<1>. DEFINE Taken(s) == /\ pc = "idle" /\ pc' # "idle"
                        /\ batch' = batch \ {s} /\ job'.task = s.task
<1>0. job \in Jobs
  BY DEF TypeOK
<1>1. UNCHANGED local => Kept
  BY DEF local
<1>2. CASE Work
  <2>1. ASSUME NEW s \in batch, NEW label \in Labels, ClassifyEmail(s, label) PROVE Taken(s)
    BY <2>1 DEF ClassifyEmail, Take, Goto, NoJob
  <2>2. ASSUME NEW s \in batch, StartClassified(s) PROVE Taken(s)
    BY <2>2 DEF StartClassified, Take, Goto, NoJob
  <2>3. ASSUME NEW s \in batch, LearnAnswers(s) \/ NothingToLearn(s) PROVE Taken(s)
    BY <2>3 DEF LearnAnswers, Learning, NothingToLearn, Take, Goto, NoJob
  <2>7. ASSUME NEW s \in batch, LearnRefused(s) PROVE Kept
    BY <2>7 DEF LearnRefused, Learning, Take, Return
  <2>4. CASE SaveLabelStatus \/ Route \/ Refused \/ AskOperator \/ Complete \/ Explain
             \/ SaveLearned
    BY <2>4 DEF SaveLabelStatus, Route, Refused, AskOperator, Complete, Explain, SaveLearned,
                Return
  <2>5. CASE Refuse \/ GiveUp
    BY <2>5 DEF Refuse, GiveUp, AfterGivingUp, LoopDone, Goto
  <2>6. CASE Document
    <3>1. PICK d \in Docs : \/ DocUnreadable(d) \/ DocRaises(d) \/ DocAsks(d) \/ DocEmpty(d)
                            \/ SaveMain(d) \/ SaveArticles(d)
      BY <2>6 DEF Document
    <3>2. CASE DocRaises(d)
      BY <3>2 DEF DocRaises, Return
    <3>3. CASE DocUnreadable(d) \/ DocAsks(d) \/ DocEmpty(d) \/ SaveArticles(d)
      BY <1>0, <3>3 DEF DocUnreadable, DocAsks, DocEmpty, SaveArticles, InLoop, Parses, Skip,
                        Goto, Jobs
    <3>4. CASE SaveMain(d)
      BY <1>0, <3>4 DEF SaveMain, InLoop, Parses, AfterMain, Goto, Jobs
    <3>. QED
      BY <3>1, <3>2, <3>3, <3>4
  <2>. QED
    BY <1>2, <2>1, <2>2, <2>3, <2>4, <2>5, <2>6, <2>7 DEF Work
<1>3. CASE Failure
  <2>1. ASSUME NEW d \in Docs, DocNotFetched(d) \/ SaveMainFails(d) \/ SaveArticlesFails(d)
        PROVE  Kept
    BY <1>0, <2>1 DEF DocNotFetched, SaveMainFails, SaveArticlesFails, InLoop, Parses, Skip,
                      Goto, Jobs
  <2>2. ASSUME NEW s \in batch, LearnFails(s) PROVE Kept
    BY <2>2 DEF LearnFails, Learning, Take, Return
  <2>3. ASSUME NEW t \in Tasks, HandlerFails(t) PROVE Kept
    BY <2>3 DEF HandlerFails, Return
  <2>4. CASE Crash
    BY <2>4 DEF Crash, Return
  <2>. QED
    BY <1>3, <2>1, <2>2, <2>3, <2>4 DEF Failure
<1>4. ASSUME NEW o \in Operators, Operator(o) PROVE UNCHANGED local
  BY <1>4 DEF Operator, SendAnswers, CheckAnswers, SaveAnswers, CheckArchive, SaveArchive
<1>. QED
  BY <1>1, <1>2, <1>3, <1>4 DEF Next, Receive, PostDecision, Unarchive, vars, local

\* Who writes the status of a task.
Moves(t) ==
    \/ status'[t] = status[t]
    \/ Receive(t)
    \/ pc # "idle" /\ t = job.task /\ status'[t] = "error"
    \/ t = job.task /\ (SaveLabelStatus \/ Route \/ AskOperator \/ Complete \/ SaveLearned)
    \/ HandlerFails(t)
    \/ MarkingFails(t)
    \/ \E class \in Classes : PostDecision(t, class)
    \/ \E o \in Operators : SaveAnswers(o) /\ session[o].task = t

LEMMA StatusMoves ==
    ASSUME TypeOK, [Next]_vars, NEW t \in Tasks
    PROVE  Moves(t)
<1>0. UNCHANGED status => Moves(t)
  BY DEF Moves
<1>1. ASSUME NEW u \in Tasks, Receive(u) PROVE Moves(t)
  BY <1>1 DEF Receive, SetStatus, Moves, TypeOK
<1>2. CASE Work
  <2>1. CASE Fetch
    BY <1>0, <2>1 DEF Fetch, tables
  <2>2. ASSUME NEW s \in batch, NEW label \in Labels, ClassifyEmail(s, label) PROVE Moves(t)
    BY <1>0, <2>2 DEF ClassifyEmail, taskRows
  <2>3. ASSUME NEW s \in batch,
               \/ StartClassified(s) \/ LearnAnswers(s) \/ NothingToLearn(s)
               \/ LearnRefused(s)
        PROVE  Moves(t)
    BY <1>0, <2>3 DEF StartClassified, LearnAnswers, NothingToLearn, LearnRefused, taskRows,
                      tables
  <2>4. CASE SaveLabelStatus \/ Route \/ AskOperator \/ Complete \/ SaveLearned
    <3>1. PICK st : SetStatus(job.task, st)
      BY <2>4 DEF SaveLabelStatus, Route, AskOperator, Complete, SaveLearned
    <3>. QED
      BY <2>4, <3>1 DEF SetStatus, Moves, TypeOK
  <2>5. CASE Refuse \/ Refused \/ GiveUp \/ Explain
    <3>1. SetStatus(job.task, "error") /\ pc # "idle"
      BY <2>5 DEF Refuse, Refused, GiveUp, LoopDone, Explain, MarkError
    <3>. QED
      BY <3>1 DEF SetStatus, Moves, TypeOK
  <2>6. ASSUME NEW d \in Docs,
               \/ DocUnreadable(d) \/ DocAsks(d) \/ DocEmpty(d) \/ SaveMain(d)
               \/ SaveArticles(d)
        PROVE  Moves(t)
    BY <1>0, <2>6 DEF DocUnreadable, DocAsks, DocEmpty, SaveMain, SaveArticles, tables
  <2>7. ASSUME NEW d \in Docs, DocRaises(d) PROVE Moves(t)
    <3>1. SetStatus(job.task, "error") /\ pc # "idle"
      BY <2>7 DEF DocRaises, MarkError, Parses, InLoop
    <3>. QED
      BY <3>1 DEF SetStatus, Moves, TypeOK
  <2>. QED
    BY <1>2, <2>1, <2>2, <2>3, <2>4, <2>5, <2>6, <2>7 DEF Work, Document
<1>3. CASE Failure
  <2>1. ASSUME NEW d \in Docs, DocNotFetched(d) \/ SaveMainFails(d) \/ SaveArticlesFails(d)
        PROVE  Moves(t)
    BY <1>0, <2>1 DEF DocNotFetched, SaveMainFails, SaveArticlesFails, tables
  <2>2. ASSUME NEW s \in batch, LearnFails(s) PROVE Moves(t)
    BY <1>0, <2>2 DEF LearnFails, tables
  <2>3. ASSUME NEW u \in Tasks, HandlerFails(u) PROVE Moves(t)
    BY <2>3 DEF HandlerFails, MarkError, SetStatus, Moves, TypeOK
  <2>4. ASSUME NEW u \in Tasks, MarkingFails(u) PROVE Moves(t)
    BY <2>4 DEF MarkingFails, SetStatus, Moves, TypeOK
  <2>5. CASE Crash
    BY <1>0, <2>5 DEF Crash, tables
  <2>. QED
    BY <1>3, <2>1, <2>2, <2>3, <2>4, <2>5 DEF Failure
<1>4. ASSUME NEW u \in Tasks, NEW class \in Classes, PostDecision(u, class) PROVE Moves(t)
  BY <1>4 DEF PostDecision, SetStatus, Moves, TypeOK
<1>5. ASSUME NEW o \in Operators, Operator(o) PROVE Moves(t)
  <2>1. CASE SaveAnswers(o)
    BY <2>1 DEF SaveAnswers, SetStatus, Moves, TypeOK
  <2>2. CASE ~SaveAnswers(o)
    BY <1>0, <1>5, <2>2
       DEF Operator, SendAnswers, CheckAnswers, CheckArchive, SaveArchive, tables, taskRows
  <2>. QED
    BY <2>1, <2>2
<1>6. ASSUME NEW e \in Emails, Unarchive(e) PROVE Moves(t)
  BY <1>0, <1>6 DEF Unarchive, taskRows
<1>7. CASE UNCHANGED vars
  BY <1>0, <1>7 DEF vars, tables
<1>. QED
  BY <1>1, <1>2, <1>3, <1>4, <1>5, <1>6, <1>7 DEF Next

\* A task never disappears: an email that is alone with its task was so before.
LEMMA TasksStay ==
    ASSUME TypeOK, [Next]_vars, NEW t \in Tasks, status[t] # "absent"
    PROVE  status'[t] # "absent"
<1>1. CASE t = job.task /\ (SaveLabelStatus \/ Route \/ AskOperator \/ Complete \/ SaveLearned)
  <2>1. PICK st : SetStatus(job.task, st) /\ st # "absent"
    BY <1>1 DEF SaveLabelStatus, LabelStatus, Route, AskOperator, Complete, SaveLearned,
                LearnedStatus
  <2>. QED
    BY <1>1, <2>1 DEF SetStatus, TypeOK
<1>2. CASE HandlerFails(t) \/ MarkingFails(t)
  BY <1>2 DEF HandlerFails, MarkingFails, MarkError, SetStatus, TypeOK
<1>3. ASSUME NEW class \in Classes, PostDecision(t, class) PROVE status'[t] # "absent"
  BY <1>3 DEF PostDecision, SetStatus, TypeOK
<1>4. ASSUME NEW o \in Operators, SaveAnswers(o), session[o].task = t
      PROVE  status'[t] # "absent"
  BY <1>4 DEF SaveAnswers, SetStatus, TypeOK
<1>. QED
  BY <1>1, <1>2, <1>3, <1>4, StatusMoves DEF Moves, Receive

LEMMA SoleBefore ==
    ASSUME TypeOK, [Next]_vars, NEW t \in Tasks, Sole(t)'
    PROVE  Sole(t)
BY TasksStay DEF Sole

-----------------------------------------------------------------------------
(* HeldJustified                                                            *)

LEMMA HeldAreTasks ==
    ASSUME TypeOK
    PROVE  /\ Held \subseteq Tasks
           /\ \A s \in batch : /\ s.task \in Held /\ s.status \in PendingStatus
                               /\ s.manual \in Answers
           /\ pc # "idle" => job.task \in Held
BY DEF Held, TypeOK, Snapshots

\* Nothing but Fetch adds to what the processor holds.
LEMMA HeldShrinks ==
    ASSUME TypeOK, [Next]_vars, ~Fetch
    PROVE  Held' \subseteq Held /\ batch' \subseteq batch
<1>1. ASSUME NEW t \in Tasks, MarkingFails(t) PROVE Held' \subseteq Held /\ batch' \subseteq batch
  <2>1. t \in Held
    BY <1>1 DEF MarkingFails, Handling, Held
  <2>2. batch' \subseteq batch /\ job'.task = t
    BY <1>1 DEF MarkingFails, Goto, NoJob
  <2>. QED
    BY <2>1, <2>2 DEF Held
<1>. QED
  BY <1>1, HeldWritten DEF Held

\* A task is overtaken until the processor reads it again.
LEMMA OvertakenStays ==
    ASSUME [Next]_vars
    PROVE  overtaken \subseteq overtaken' \/ (Fetch /\ overtaken' = overtaken \ FirstPending)
BY OvertakenWritten DEF Fetch, PostDecision, SaveAnswers

LEMMA FetchedAreRead ==
    ASSUME TypeOK, Fetch
    PROVE  HeldJustified'
<1>1. /\ batch' = {[task |-> t, status |-> status[t], manual |-> manual[t]] : t \in FirstPending}
      /\ UNCHANGED status /\ pc' = "idle"
  BY DEF Fetch, tables
<1>2. \A t \in FirstPending : status[t] # "absent"
  BY DEF FirstPending, Pending, PendingStatus
<1>3. \A s \in batch' : s.task \in FirstPending /\ status'[s.task] = s.status
  BY <1>1
<1>4. \A s, u \in batch' : s.task = u.task => s = u
  BY <1>1
<1>. QED
  BY <1>1, <1>2, <1>3, <1>4 DEF HeldJustified, Held

LEMMA StepJustifiesHeld ==
    ASSUME TypeOK, HeldJustified, [Next]_vars
    PROVE  HeldJustified'
<1>1. CASE Fetch
  BY <1>1, FetchedAreRead
<1>2. CASE ~Fetch
  <2>1. \A t \in Held' : status'[t] # "absent"
    BY <1>2, HeldShrinks, HeldAreTasks, TasksStay DEF HeldJustified
  <2>2. \A s, u \in batch' : s.task = u.task => s = u
    BY <1>2, HeldShrinks DEF HeldJustified
  <2>3. pc' # "idle" => \A s \in batch' : s.task # job'.task
    <3>1. ASSUME NEW t \in Tasks, MarkingFails(t) PROVE \A s \in batch' : s.task # job'.task
      BY <3>1 DEF MarkingFails, Goto, NoJob
    <3>. QED
      BY <1>2, <3>1, HeldWritten DEF HeldJustified
  <2>4. ASSUME NEW s \in batch' PROVE status'[s.task] = s.status \/ s.task \in overtaken'
    <3>1. s \in batch /\ s.task \in Held /\ s.task \in Tasks
      BY <1>2, HeldShrinks, HeldAreTasks
    <3>2. /\ status[s.task] # "absent" /\ (pc # "idle" => s.task # job.task)
          /\ status[s.task] = s.status \/ s.task \in overtaken
      BY <3>1 DEF HeldJustified
    <3>3. overtaken \subseteq overtaken'
      BY <1>2, OvertakenStays
    <3>4. ~(SaveLabelStatus \/ Route \/ AskOperator \/ Complete \/ SaveLearned) \/ pc # "idle"
      BY DEF SaveLabelStatus, Route, AskOperator, Complete, MayComplete, LoopDone, SaveLearned
    <3>5. ~HandlerFails(s.task) /\ ~MarkingFails(s.task)
      BY DEF HandlerFails, MarkingFails
    <3>6. ASSUME NEW class \in Classes, PostDecision(s.task, class)
          PROVE  s.task \in overtaken'
      BY <3>1, <3>6 DEF PostDecision
    <3>7. ASSUME NEW o \in Operators, SaveAnswers(o), session[o].task = s.task
          PROVE  s.task \in overtaken'
      BY <3>1, <3>7 DEF SaveAnswers
    <3>8. ~Receive(s.task)
      BY <3>2 DEF Receive
    <3>9. Moves(s.task)
      BY <3>1, StatusMoves
    <3>. QED
      BY <3>2, <3>3, <3>4, <3>5, <3>6, <3>7, <3>8, <3>9 DEF Moves
  <2>. QED
    BY <2>1, <2>2, <2>3, <2>4 DEF HeldJustified
<1>. QED
  BY <1>1, <1>2

-----------------------------------------------------------------------------
(* AnsweredHaveAnswers                                                      *)

\* Only SaveAnswers writes "manual_review_done".
LEMMA LearningWritten ==
    ASSUME TypeOK, [Next]_vars, NEW t \in Tasks, status'[t] = "manual_review_done"
    PROVE  \/ status[t] = "manual_review_done"
           \/ \E o \in Operators : SaveAnswers(o) /\ session[o].task = t
<1>1. ~Receive(t)
  BY DEF Receive, SetStatus, TypeOK
<1>2. ~(t = job.task /\ (SaveLabelStatus \/ Route \/ AskOperator \/ Complete \/ SaveLearned))
  BY DEF SaveLabelStatus, LabelStatus, Route, AskOperator, Complete, SaveLearned,
         LearnedStatus, SetStatus, TypeOK
<1>3. ~HandlerFails(t) /\ ~MarkingFails(t)
  BY DEF HandlerFails, MarkingFails, MarkError, SetStatus, TypeOK
<1>4. \A class \in Classes : ~PostDecision(t, class)
  BY DEF PostDecision, SetStatus, TypeOK
<1>. QED
  BY <1>1, <1>2, <1>3, <1>4, StatusMoves DEF Moves

\* Where the handlers that start, and do not end at once, come from.
LEMMA StartsWritten ==
    ASSUME [Next]_vars, pc' \in {"labelled", "route", "docs", "articles", "learned"}
    PROVE  \/ UNCHANGED <<pc, job>>
           \/ \E s \in batch, label \in Labels : ClassifyEmail(s, label)
           \/ \E s \in batch : StartClassified(s) \/ LearnAnswers(s) \/ NothingToLearn(s)
           \/ \E d \in Docs : /\ pc' \in {"docs", "articles"}
                              /\ \/ DocUnreadable(d) \/ DocNotFetched(d) \/ DocAsks(d)
                                 \/ DocEmpty(d) \/ SaveMain(d) \/ SaveMainFails(d)
                                 \/ SaveArticles(d) \/ SaveArticlesFails(d)
<1>1. CASE Work
  <2>1. Fetch => UNCHANGED <<pc, job>>
    BY DEF Fetch
  <2>2. ~(SaveLabelStatus \/ Route \/ Refused \/ AskOperator \/ Complete \/ Explain
          \/ SaveLearned)
    BY DEF SaveLabelStatus, Route, Refused, AskOperator, Complete, Explain, SaveLearned, Return
  <2>3. ~Refuse /\ ~GiveUp
    BY DEF Refuse, GiveUp, AfterGivingUp, Goto
  <2>4. (\A d \in Docs : ~DocRaises(d)) /\ (\A s \in batch : ~LearnRefused(s))
    BY DEF DocRaises, LearnRefused, Return
  <2>5. \A d \in Docs :
            DocUnreadable(d) \/ DocAsks(d) \/ DocEmpty(d) \/ SaveMain(d) \/ SaveArticles(d)
            => pc' \in {"docs", "articles"}
    BY DEF DocUnreadable, DocAsks, DocEmpty, SaveMain, SaveArticles, Skip, Goto
  <2>. QED
    BY <1>1, <2>1, <2>2, <2>3, <2>4, <2>5 DEF Work, Document
<1>2. CASE Failure
  <2>1. \A d \in Docs : DocNotFetched(d) \/ SaveMainFails(d) \/ SaveArticlesFails(d)
                        => pc' \in {"docs", "articles"}
    BY DEF DocNotFetched, SaveMainFails, SaveArticlesFails, Skip, Goto
  <2>2. \A s \in batch : ~LearnFails(s)
    BY DEF LearnFails, Return
  <2>3. \A t \in Tasks : ~HandlerFails(t) /\ ~MarkingFails(t)
    BY DEF HandlerFails, MarkingFails, Return, Goto
  <2>4. ~Crash
    BY DEF Crash, Return
  <2>. QED
    BY <1>2, <2>1, <2>2, <2>3, <2>4 DEF Failure
<1>3. ASSUME NEW o \in Operators, Operator(o) PROVE UNCHANGED local
  BY <1>3 DEF Operator, SendAnswers, CheckAnswers, SaveAnswers, CheckArchive, SaveArchive
<1>. QED
  BY <1>1, <1>2, <1>3 DEF Next, Receive, PostDecision, Unarchive, vars, local

LEMMA StepKeepsAnswered ==
    ASSUME TypeOK, CopiesJustified, Grows, AnsweredHaveAnswers, [Next]_vars
    PROVE  AnsweredHaveAnswers'
<1>1. ASSUME NEW t \in Tasks, status'[t] = "manual_review_done" PROVE manual'[t] # NoAnswers
  <2>1. ASSUME NEW o \in Operators, SaveAnswers(o), session[o].task = t
        PROVE  manual'[t] # NoAnswers
    BY <2>1 DEF SaveAnswers, CopiesJustified, SessionsJustified, TypeOK
  <2>. QED
    BY <1>1, <2>1, LearningWritten DEF AnsweredHaveAnswers, Grows
<1>2. ASSUME NEW s \in batch', s.status = "manual_review_done" PROVE manual'[s.task] # NoAnswers
  <2>1. CASE Fetch
    <3>0. PICK t \in FirstPending : s.task = t /\ s.status = status[t]
      BY <2>1 DEF Fetch
    <3>1. s.task \in Tasks /\ status'[s.task] = s.status
      BY <2>1, <3>0 DEF Fetch, FirstPending, Pending, tables
    <3>. QED
      BY <1>1, <1>2, <3>1
  <2>2. CASE batch' \subseteq batch
    BY <1>2, <2>2, HeldAreTasks DEF AnsweredHaveAnswers, Grows
  <2>. QED
    BY <2>1, <2>2, BatchWritten
<1>3. pc' = "learned" => manual'[job'.task] # NoAnswers
  <2>. SUFFICES ASSUME pc' = "learned" PROVE manual'[job'.task] # NoAnswers
    OBVIOUS
  <2>1. CASE UNCHANGED <<pc, job>>
    BY <2>1 DEF AnsweredHaveAnswers, Grows, TypeOK
  <2>2. ASSUME NEW s \in batch, NEW label \in Labels, ClassifyEmail(s, label) PROVE FALSE
    BY <2>2 DEF ClassifyEmail, Goto
  <2>3. ASSUME NEW s \in batch, StartClassified(s) PROVE FALSE
    BY <2>3 DEF StartClassified, Goto
  <2>4. ASSUME NEW s \in batch, LearnAnswers(s) PROVE manual'[job'.task] # NoAnswers
    <3>1. s.manual # NoAnswers /\ job'.task = s.task /\ UNCHANGED manual
      BY <2>4 DEF LearnAnswers, Learning, Goto, NoJob, taskRows
    <3>. QED
      BY <3>1 DEF CopiesJustified, BatchJustified
  <2>5. ASSUME NEW s \in batch, NothingToLearn(s) PROVE FALSE
    BY <2>5 DEF NothingToLearn, Goto
  <2>. QED
    BY <2>1, <2>2, <2>3, <2>4, <2>5, StartsWritten
<1>. QED
  BY <1>1, <1>2, <1>3 DEF AnsweredHaveAnswers

-----------------------------------------------------------------------------
(* LoopFollowsDecision and LabelStored                                      *)

\* A task the processor handles is overtaken when an operator decides its email.
LEMMA DecisionOvertakes ==
    ASSUME TypeOK, HeldJustified, [Next]_vars, pc # "idle",
           UNCHANGED job
    PROVE  \/ decision'[EmailOf[job.task]] = decision[EmailOf[job.task]]
           \/ /\ decision'[EmailOf[job.task]] \in Classes
              /\ job.task \in overtaken'
<1>0. job.task \in Tasks /\ EmailOf[job.task] \in Emails /\ job.task \in Held
  BY HeldAreTasks, ShapeAssumption DEF TypeOK
<1>1. \A s \in batch, label \in Labels : ~ClassifyEmail(s, label)
  BY DEF ClassifyEmail, Take
<1>2. ASSUME NEW t \in Tasks, NEW class \in Classes, PostDecision(t, class),
             EmailOf[t] = EmailOf[job.task]
      PROVE  decision'[EmailOf[job.task]] \in Classes /\ job.task \in overtaken'
  BY <1>0, <1>2 DEF PostDecision, TypeOK
<1>3. ASSUME NEW t \in Tasks, NEW class \in Classes, PostDecision(t, class),
             EmailOf[t] # EmailOf[job.task]
      PROVE  decision'[EmailOf[job.task]] = decision[EmailOf[job.task]]
  BY <1>0, <1>3 DEF PostDecision, TypeOK
<1>. QED
  BY <1>1, <1>2, <1>3, DecisionWritten

\* The loop looks at one document after the other, for the same task and class; what it
\* counts as saved has the articles its class wants.
LEMMA LoopStep ==
    ASSUME TypeOK, JobJustified, NEW d \in Docs,
           \/ DocUnreadable(d) \/ DocNotFetched(d) \/ DocAsks(d) \/ DocEmpty(d)
           \/ SaveMain(d) \/ SaveMainFails(d) \/ SaveArticles(d) \/ SaveArticlesFails(d)
    PROVE  /\ pc \in {"docs", "articles"} /\ job.task \in Tasks
           /\ d \in job.todo \cup job.upload
           /\ d \in DocsOf[EmailOf[job.task]]
           /\ job'.task = job.task /\ job'.class = job.class
           /\ UNCHANGED <<status, decision, overtaken>>
           /\ job'.saved => \/ job.saved
                            \/ job.class = "request"
                            \/ <<d, "articles">> \in results'
<1>1. /\ pc \in {"docs", "articles"} /\ d \in job.todo \cup job.upload
      /\ job \in Jobs /\ job.task \in Tasks
  BY DEF DocUnreadable, DocNotFetched, DocAsks, DocEmpty, SaveMain, SaveMainFails,
         SaveArticles, SaveArticlesFails, Parses, InLoop, TypeOK
<1>2. d \in DocsOf[EmailOf[job.task]]
  BY <1>1 DEF JobJustified
<1>3. UNCHANGED <<status, decision, overtaken>>
  BY DEF DocUnreadable, DocNotFetched, DocAsks, DocEmpty, SaveMain, SaveMainFails,
         SaveArticles, SaveArticlesFails, tables, history
<1>4. CASE DocUnreadable(d) \/ DocNotFetched(d) \/ DocEmpty(d) \/ SaveMainFails(d)
  <2>1. job'.task = job.task /\ job'.class = job.class /\ job'.saved = job.saved
    BY <1>1, <1>4 DEF DocUnreadable, DocNotFetched, DocEmpty, SaveMainFails, Skip, Goto, Jobs
  <2>. QED
    BY <1>1, <1>2, <1>3, <2>1
<1>5. CASE DocAsks(d) \/ SaveArticlesFails(d)
  <2>1. job'.task = job.task /\ job'.class = job.class /\ job'.saved = job.saved
    BY <1>1, <1>5 DEF DocAsks, SaveArticlesFails, Goto, Jobs
  <2>. QED
    BY <1>1, <1>2, <1>3, <2>1
<1>6. CASE SaveMain(d)
  <2>1. /\ job'.task = job.task /\ job'.class = job.class
        /\ job'.saved <=> (job.saved \/ job.class = "request")
    BY <1>1, <1>6 DEF SaveMain, AfterMain, Goto, Jobs
  <2>. QED
    BY <1>1, <1>2, <1>3, <2>1
<1>7. CASE SaveArticles(d)
  <2>1. job'.task = job.task /\ job'.class = job.class /\ <<d, "articles">> \in results'
    BY <1>1, <1>7 DEF SaveArticles, Goto, Jobs
  <2>. QED
    BY <1>1, <1>2, <1>3, <2>1
<1>. QED
  BY <1>4, <1>5, <1>6, <1>7

LEMMA StepFollowsDecision ==
    ASSUME TypeOK, CopiesJustified, Grows, HeldJustified, LoopFollowsDecision, [Next]_vars
    PROVE  LoopFollowsDecision'
<1>. DEFINE Follows == /\ job'.class \in {"request", "calculation"}
                       /\ decision'[EmailOf[job'.task]] \in Classes
                       /\ \/ decision'[EmailOf[job'.task]] = job'.class
                          \/ job'.task \in overtaken'
                       /\ job'.saved /\ job'.class = "calculation"
                             => HasFile(job.task, "articles")'
<1>. DEFINE Empty == /\ job'.class = "none" /\ ~job'.saved
                     /\ job'.todo = {} /\ job'.upload = {} /\ job'.asks = {}
<1>. SUFFICES ASSUME pc' \in {"docs", "articles"} PROVE Empty \/ Follows
  BY DEF LoopFollowsDecision
<1>1. CASE UNCHANGED <<pc, job>>
  <2>1. ~Fetch
    BY DEF Fetch
  <2>2. overtaken \subseteq overtaken'
    BY <2>1, OvertakenStays
  <2>3. HasFile(job.task, "articles") => HasFile(job.task, "articles")'
    BY <1>1 DEF HasFile, Grows
  <2>4. pc \in {"docs", "articles"} /\ job' = job
    BY <1>1
  <2>5. CASE job.class = "none" /\ ~job.saved /\ job.todo = {} /\ job.upload = {} /\ job.asks = {}
    BY <2>4, <2>5
  <2>6. CASE /\ job.class \in {"request", "calculation"}
             /\ decision[EmailOf[job.task]] \in Classes
             /\ decision[EmailOf[job.task]] = job.class \/ job.task \in overtaken
             /\ job.saved /\ job.class = "calculation" => HasFile(job.task, "articles")
    BY <2>2, <2>3, <2>4, <2>6, DecisionOvertakes
  <2>. QED
    BY <2>4, <2>5, <2>6 DEF LoopFollowsDecision
<1>2. ASSUME NEW s \in batch, NEW label \in Labels, ClassifyEmail(s, label) PROVE FALSE
  BY <1>2 DEF ClassifyEmail, Goto
<1>3. ASSUME NEW s \in batch, StartClassified(s) PROVE Follows
  <2>1. /\ decision[EmailOf[s.task]] \in {"request", "calculation"} /\ job'.task = s.task
        /\ job'.class = decision[EmailOf[s.task]] /\ ~job'.saved /\ UNCHANGED decision
    BY <1>3 DEF StartClassified, Goto, NoJob, tables
  <2>. QED
    BY <2>1 DEF Classes
<1>4. ASSUME NEW s \in batch, LearnAnswers(s) \/ NothingToLearn(s) PROVE Empty
  BY <1>4 DEF LearnAnswers, NothingToLearn, Goto, NoJob
<1>5. ASSUME NEW d \in Docs,
             \/ DocUnreadable(d) \/ DocNotFetched(d) \/ DocAsks(d) \/ DocEmpty(d)
             \/ SaveMain(d) \/ SaveMainFails(d) \/ SaveArticles(d) \/ SaveArticlesFails(d)
      PROVE  Follows
  <2>1. /\ pc \in {"docs", "articles"} /\ d \in job.todo \cup job.upload
        /\ d \in DocsOf[EmailOf[job.task]]
        /\ job'.task = job.task /\ job'.class = job.class
        /\ UNCHANGED <<decision, overtaken>>
        /\ job'.saved => \/ job.saved \/ job.class = "request"
                         \/ <<d, "articles">> \in results'
    BY <1>5, LoopStep DEF CopiesJustified
  <2>2. /\ job.class \in {"request", "calculation"}
        /\ decision[EmailOf[job.task]] \in Classes
        /\ decision[EmailOf[job.task]] = job.class \/ job.task \in overtaken
        /\ job.saved /\ job.class = "calculation" => HasFile(job.task, "articles")
    BY <2>1 DEF LoopFollowsDecision
  <2>3. job'.saved /\ job'.class = "calculation" => HasFile(job.task, "articles")'
    BY <2>1, <2>2 DEF HasFile, Grows
  <2>. QED
    BY <2>1, <2>2, <2>3
<1>. QED
  BY <1>1, <1>2, <1>3, <1>4, <1>5, StartsWritten

LEMMA StepKeepsLabel ==
    ASSUME TypeOK, HeldJustified, LabelStored, [Next]_vars
    PROVE  LabelStored'
<1>. SUFFICES ASSUME pc' = "labelled"
              PROVE  /\ job'.class \in Classes \cup {"review"}
                     /\ decision'[EmailOf[job'.task]] \in Classes \cup {job'.class}
  BY DEF LabelStored
<1>1. CASE UNCHANGED <<pc, job>>
  BY <1>1, DecisionOvertakes DEF LabelStored
<1>2. ASSUME NEW s \in batch, NEW label \in Labels, ClassifyEmail(s, label)
      PROVE  job'.class \in Classes \cup {"review"} /\ decision'[EmailOf[job'.task]] = job'.class
  <2>1. EmailOf[s.task] \in Emails
    BY <1>2, TakeFacts DEF ClassifyEmail
  <2>2. job'.class = label /\ job'.task = s.task
    BY <1>2 DEF ClassifyEmail, Goto, NoJob
  <2>. QED
    BY <1>2, <2>1, <2>2, ShapeAssumption DEF ClassifyEmail, TypeOK
<1>3. ASSUME NEW s \in batch, StartClassified(s) \/ LearnAnswers(s) \/ NothingToLearn(s)
      PROVE  FALSE
  BY <1>3 DEF StartClassified, LearnAnswers, NothingToLearn, Goto
<1>. QED
  BY <1>1, <1>2, <1>3, StartsWritten

-----------------------------------------------------------------------------
(* AskedStaysDecided                                                        *)

\* Snapshots and the current handler of a sole task are of that task.
LEMMA SoleHeld ==
    ASSUME TypeOK, HeldJustified, NEW t \in Tasks, Sole(t), NEW u \in Held,
           EmailOf[u] = EmailOf[t]
    PROVE  u = t
BY HeldAreTasks DEF HeldJustified, Sole

\* The decision of a task that is alone with its email changes when it is classified or
\* decided itself.
LEMMA SoleDecision ==
    ASSUME TypeOK, HeldJustified, [Next]_vars, NEW t \in Tasks, Sole(t)
    PROVE  \/ decision'[EmailOf[t]] = decision[EmailOf[t]]
           \/ \E s \in batch, label \in Labels : ClassifyEmail(s, label) /\ s.task = t
           \/ \E class \in Classes : PostDecision(t, class) /\ decision'[EmailOf[t]] = class
<1>0. EmailOf[t] \in Emails
  BY ShapeAssumption
<1>1. ASSUME NEW s \in batch, NEW label \in Labels, ClassifyEmail(s, label), s.task # t
      PROVE  decision'[EmailOf[t]] = decision[EmailOf[t]]
  <2>1. EmailOf[s.task] # EmailOf[t]
    BY <1>1, SoleHeld, HeldAreTasks
  <2>. QED
    BY <1>0, <1>1, <2>1 DEF ClassifyEmail, TypeOK
<1>2. ASSUME NEW u \in Tasks, NEW class \in Classes, PostDecision(u, class), u # t
      PROVE  decision'[EmailOf[t]] = decision[EmailOf[t]]
  <2>1. EmailOf[u] # EmailOf[t]
    BY <1>2 DEF PostDecision, Sole
  <2>. QED
    BY <1>0, <1>2, <2>1 DEF PostDecision, TypeOK
<1>3. ASSUME NEW class \in Classes, PostDecision(t, class) PROVE decision'[EmailOf[t]] = class
  BY <1>0, <1>3 DEF PostDecision, TypeOK
<1>. QED
  BY <1>1, <1>2, <1>3, DecisionWritten

\* A request about a task was sent when the task was asking.
LEMMA RequestsWritten ==
    ASSUME TypeOK, [Next]_vars, NEW o \in Operators,
           session'[o].kind \in {"answering", "answer_checked"}
    PROVE  \/ /\ session[o].kind \in {"answering", "answer_checked"}
              /\ session'[o].task = session[o].task
           \/ status[session'[o].task] = "materials_review"
<1>1. ASSUME NEW u \in Operators, NEW t \in Tasks, SendAnswers(u, t)
      PROVE  session'[o] = session[o] \/ session'[o].task = t
  BY <1>1 DEF SendAnswers, TypeOK
<1>2. ASSUME NEW u \in Operators, CheckAnswers(u)
      PROVE  \/ session'[o] = session[o]
             \/ /\ session[o].kind = "answering" /\ session'[o].task = session[o].task
  <2>1. session[u] \in [kind : {"answering", "answer_checked"}, task : Tasks,
                        answers : Answers]
    BY <1>2 DEF CheckAnswers, TypeOK, Requests
  <2>. QED
    BY <1>2, <2>1 DEF CheckAnswers, TypeOK, NoRequest
<1>3. ASSUME NEW u \in Operators, SaveAnswers(u) \/ SaveArchive(u)
      PROVE  session'[o] = session[o]
  BY <1>3 DEF SaveAnswers, SaveArchive, NoRequest, TypeOK
<1>4. ASSUME NEW u \in Operators, NEW e \in Emails, CheckArchive(u, e)
      PROVE  session'[o] = session[o]
  BY <1>4 DEF CheckArchive, TypeOK
<1>. QED
  BY <1>1, <1>2, <1>3, <1>4, SessionWritten DEF SendAnswers

\* Only AskOperator makes a task ask that did not.
LEMMA AskedWritten ==
    ASSUME TypeOK, [Next]_vars, NEW t \in Tasks, Asked(t)', ~Asked(t)
    PROVE  AskOperator /\ t = job.task
<1>1. CASE status'[t] = "materials_review"
  BY <1>1, StatusWritten DEF Asked, StatusWrite, Harmless, Complete, SetStatus, TypeOK
<1>2. CASE manual'[t] # NoAnswers
  BY <1>2, ManualWritten DEF Asked, SaveAnswers, TypeOK
<1>3. ASSUME NEW o \in Operators, session'[o].kind \in {"answering", "answer_checked"},
             session'[o].task = t
      PROVE  FALSE
  BY <1>3, RequestsWritten DEF Asked
<1>. QED
  BY <1>1, <1>2, <1>3 DEF Asked

\* An order whose loop has found something to ask has a class, and so has its email.
LEMMA AskingIsDecided ==
    ASSUME TypeOK, HeldJustified, LoopFollowsDecision, [Next]_vars, AskOperator
    PROVE  /\ decision'[EmailOf[job.task]] \in Classes
           /\ status'[job.task] = "materials_review"
           /\ \A s \in batch' : s.task # job.task
           /\ pc' = "idle"
BY DEF AskOperator, LoopDone, LoopFollowsDecision, HeldJustified, Return, SetStatus, TypeOK,
       emailRows

LEMMA StaysDecided ==
    ASSUME TypeOK, HeldJustified, AskedStaysDecided, [Next]_vars,
           NEW t \in Tasks, Sole(t), Asked(t)
    PROVE  /\ decision'[EmailOf[t]] \in Classes
           /\ status'[t] \notin {"absent", "new"}
           /\ \A s \in batch' : s.task = t => s.status # "new"
           /\ pc' # "idle" /\ job'.task = t =>
                 pc' # "labelled" /\ (pc' = "route" => job'.class = "question")
<1>1. /\ decision[EmailOf[t]] \in Classes /\ status[t] \notin {"absent", "new"}
      /\ \A s \in batch : s.task = t => s.status # "new"
      /\ pc # "idle" /\ job.task = t =>
            pc # "labelled" /\ (pc = "route" => job.class = "question")
  BY DEF AskedStaysDecided
<1>2. \A s \in batch, label \in Labels : ~(ClassifyEmail(s, label) /\ s.task = t)
  BY <1>1 DEF ClassifyEmail, Take
<1>3. decision'[EmailOf[t]] \in Classes
  BY <1>1, <1>2, SoleDecision
<1>4. status'[t] \notin {"absent", "new"}
  <2>1. status'[t] # "absent"
    BY <1>1, TasksStay
  <2>2. CASE t = job.task /\ (SaveLabelStatus \/ Route \/ AskOperator \/ Complete \/ SaveLearned)
    <3>1. pc # "idle" /\ (pc = "route" => job.class = "question")
      BY <1>1, <2>2
         DEF SaveLabelStatus, Route, AskOperator, Complete, MayComplete, LoopDone, SaveLearned
    <3>2. PICK st : SetStatus(job.task, st) /\ st # "new"
      BY <2>2, <3>1
         DEF SaveLabelStatus, LabelStatus, Route, AskOperator, Complete, SaveLearned,
             LearnedStatus
    <3>. QED
      BY <2>1, <2>2, <3>2 DEF SetStatus, TypeOK
  <2>3. CASE HandlerFails(t) \/ MarkingFails(t)
    <3>1. SetStatus(t, "error")
      BY <2>3 DEF HandlerFails, MarkingFails, MarkError
    <3>. QED
      BY <3>1 DEF SetStatus, TypeOK
  <2>4. ASSUME NEW class \in Classes, PostDecision(t, class) PROVE status'[t] # "new"
    BY <2>4 DEF PostDecision, SetStatus, TypeOK
  <2>5. ASSUME NEW o \in Operators, SaveAnswers(o), session[o].task = t
        PROVE  status'[t] # "new"
    BY <2>5 DEF SaveAnswers, SetStatus, TypeOK
  <2>. QED
    BY <1>1, <2>1, <2>2, <2>3, <2>4, <2>5, StatusMoves DEF Moves, Receive
<1>5. ASSUME NEW s \in batch', s.task = t PROVE s.status # "new"
  <2>1. CASE Fetch
    <3>1. PICK u \in FirstPending : s.task = u /\ s.status = status[u]
      BY <2>1 DEF Fetch
    <3>. QED
      BY <1>1, <1>5, <3>1
  <2>. QED
    BY <1>1, <1>5, <2>1, BatchWritten
<1>6. ASSUME pc' # "idle", job'.task = t
      PROVE  pc' # "labelled" /\ (pc' = "route" => job'.class = "question")
  <2>. SUFFICES ASSUME pc' \in {"labelled", "route"}
                PROVE  pc' = "route" /\ job'.class = "question"
    OBVIOUS
  <2>1. CASE UNCHANGED <<pc, job>>
    BY <1>1, <1>6, <2>1
  <2>2. ASSUME NEW s \in batch, NEW label \in Labels, ClassifyEmail(s, label) PROVE FALSE
    BY <1>2, <1>6, <2>2 DEF ClassifyEmail, Goto, NoJob
  <2>3. ASSUME NEW s \in batch, StartClassified(s)
        PROVE  pc' = "route" /\ job'.class = "question"
    <3>1. job'.task = s.task /\ job'.class = decision[EmailOf[s.task]]
      BY <2>3 DEF StartClassified, Goto, NoJob
    <3>2. job'.class \in Classes
      BY <1>1, <1>6, <3>1
    <3>. QED
      BY <2>3, <3>1, <3>2 DEF StartClassified, Goto, Classes
  <2>4. ASSUME NEW s \in batch, LearnAnswers(s) \/ NothingToLearn(s) PROVE FALSE
    <3>1. job'.task = s.task
      BY <2>4 DEF LearnAnswers, NothingToLearn, Goto, NoJob
    <3>2. decision[EmailOf[s.task]] # "none"
      BY <1>1, <1>6, <3>1 DEF Classes
    <3>. QED
      BY <2>4, <3>2 DEF LearnAnswers, NothingToLearn, Goto
  <2>. QED
    BY <2>1, <2>2, <2>3, <2>4, StartsWritten
<1>. QED
  BY <1>3, <1>4, <1>5, <1>6

LEMMA StepStaysDecided ==
    ASSUME TypeOK, HeldJustified, LoopFollowsDecision, AskedStaysDecided, [Next]_vars
    PROVE  AskedStaysDecided'
<1>. SUFFICES ASSUME NEW t \in Tasks, Sole(t)', Asked(t)'
              PROVE  /\ decision'[EmailOf[t]] \in Classes
                     /\ status'[t] \notin {"absent", "new"}
                     /\ \A s \in batch' : s.task = t => s.status # "new"
                     /\ pc' # "idle" /\ job'.task = t =>
                           pc' # "labelled" /\ (pc' = "route" => job'.class = "question")
  BY DEF AskedStaysDecided
<1>1. Sole(t)
  BY SoleBefore
<1>2. CASE Asked(t)
  BY <1>1, <1>2, StaysDecided
<1>3. CASE ~Asked(t)
  <2>1. AskOperator /\ t = job.task
    BY <1>3, AskedWritten
  <2>. QED
    BY <2>1, AskingIsDecided
<1>. QED
  BY <1>2, <1>3

-----------------------------------------------------------------------------
(* The two properties                                                       *)

\* Only Complete writes "completed".
LEMMA CompletedWritten ==
    ASSUME TypeOK, [Next]_vars, NEW t \in Tasks, status'[t] = "completed"
    PROVE  status[t] = "completed" \/ (Complete /\ t = job.task)
BY StatusWritten DEF StatusWrite, Harmless, AskOperator, SetStatus, TypeOK

LEMMA StepDelivers ==
    ASSUME TypeOK, Grows, HeldJustified, LoopFollowsDecision, DecisionDelivered, [Next]_vars
    PROVE  DecisionDelivered'
<1>. SUFFICES ASSUME NEW t \in Tasks, status'[t] = "completed", Sole(t)', t \notin overtaken'
              PROVE  /\ decision'[EmailOf[t]] \in {"request", "calculation"}
                     /\ decision'[EmailOf[t]] = "calculation" => HasFile(t, "articles")'
  BY DEF DecisionDelivered
<1>1. Sole(t)
  BY SoleBefore
<1>2. HasFile(t, "articles") => HasFile(t, "articles")'
  BY DEF HasFile, Grows
<1>3. CASE Complete /\ t = job.task
  <2>1. pc = "docs" /\ job.saved /\ UNCHANGED <<decision, overtaken>>
    BY <1>3 DEF Complete, MayComplete, LoopDone, emailRows, history
  <2>2. /\ job.class \in {"request", "calculation"} /\ decision[EmailOf[t]] = job.class
        /\ job.class = "calculation" => HasFile(t, "articles")
    BY <1>3, <2>1 DEF LoopFollowsDecision
  <2>. QED
    BY <1>2, <2>1, <2>2
<1>4. CASE status[t] = "completed"
  <2>1. t \notin overtaken
    BY <1>4, OvertakenStays DEF FirstPending, Pending, PendingStatus
  <2>2. ASSUME NEW s \in batch, NEW label \in Labels, ClassifyEmail(s, label), s.task = t
        PROVE  FALSE
    BY <1>4, <2>1, <2>2 DEF ClassifyEmail, Take, HeldJustified
  <2>3. ASSUME NEW class \in Classes, PostDecision(t, class) PROVE FALSE
    BY <2>3 DEF PostDecision, SetStatus, TypeOK
  <2>4. decision'[EmailOf[t]] = decision[EmailOf[t]]
    BY <1>1, <2>2, <2>3, SoleDecision
  <2>. QED
    BY <1>1, <1>2, <1>4, <2>1, <2>4 DEF DecisionDelivered
<1>. QED
  BY <1>3, <1>4, CompletedWritten

\* How a task becomes classified.
LEMMA ClassifiedWritten ==
    ASSUME TypeOK, [Next]_vars, NEW t \in Tasks, status'[t] = "ml_classified"
    PROVE  \/ status[t] = "ml_classified" /\ status'[t] = status[t]
           \/ t = job.task /\ job.class # "review" /\ SaveLabelStatus
           \/ t = job.task /\ SaveLearned
           \/ \E class \in Classes : PostDecision(t, class)
<1>1. ~Receive(t)
  BY DEF Receive, SetStatus, TypeOK
<1>2. ASSUME t = job.task PROVE ~Route /\ ~AskOperator /\ ~Complete
  BY <1>2 DEF Route, AskOperator, Complete, SetStatus, TypeOK
<1>3. t = job.task /\ SaveLabelStatus => job.class # "review"
  BY DEF SaveLabelStatus, LabelStatus, SetStatus, TypeOK
<1>4. ~HandlerFails(t) /\ ~MarkingFails(t)
  BY DEF HandlerFails, MarkingFails, MarkError, SetStatus, TypeOK
<1>5. \A o \in Operators : ~(SaveAnswers(o) /\ session[o].task = t)
  BY DEF SaveAnswers, SetStatus, TypeOK
<1>. QED
  BY <1>1, <1>2, <1>3, <1>4, <1>5, StatusMoves DEF Moves

\* Between the label and the status of a task only a failure or a crash comes.
LEMMA LabelledGoesOn ==
    ASSUME TypeOK, [Next]_vars, pc = "labelled", status'[job.task] = "ml_classified",
           crashes' = 0
    PROVE  UNCHANGED <<pc, job>> \/ SaveLabelStatus
<1>0. job.task \in Tasks /\ crashes \in Nat
  BY DEF TypeOK
<1>1. CASE Work
  BY <1>1 DEF Work, Fetch, ClassifyEmail, Take, StartClassified, Route, Refuse, Refused,
       Document, DocUnreadable, DocRaises, DocAsks, DocEmpty, SaveMain, SaveArticles,
       AskOperator, Complete, MayComplete, GiveUp, Explain, LearnAnswers, NothingToLearn,
       LearnRefused, SaveLearned, Learning, InLoop, LoopDone, Parses
<1>2. CASE Failure
  <2>1. ASSUME NEW t \in Tasks, HandlerFails(t) \/ MarkingFails(t) PROVE FALSE
    <3>1. t = job.task /\ SetStatus(t, "error")
      BY <2>1 DEF HandlerFails, MarkingFails, Handling, MarkError
    <3>. QED
      BY <1>0, <3>1 DEF SetStatus, TypeOK
  <2>2. ~Crash
    BY <1>0 DEF Crash
  <2>. QED
    BY <1>2, <2>1, <2>2
       DEF Failure, DocNotFetched, SaveMainFails, SaveArticlesFails, LearnFails, Learning, Take,
           InLoop, Parses
<1>3. ASSUME NEW o \in Operators, Operator(o) PROVE UNCHANGED local
  BY <1>3 DEF Operator, SendAnswers, CheckAnswers, SaveAnswers, CheckArchive, SaveArchive
<1>. QED
  BY <1>1, <1>2, <1>3 DEF Next, Receive, PostDecision, Unarchive, vars, local

LEMMA StepClassifies ==
    ASSUME TypeOK, HeldJustified, AnsweredHaveAnswers, LabelStored, AskedStaysDecided,
           ClassifiedIsDecided, [Next]_vars
    PROVE  ClassifiedIsDecided'
<1>. SUFFICES ASSUME NEW t \in Tasks, status'[t] = "ml_classified", Sole(t)', crashes' = 0
              PROVE  \/ decision'[EmailOf[t]] \in Classes
                     \/ pc' = "labelled" /\ job'.task = t
  BY DEF ClassifiedIsDecided
<1>1. Sole(t)
  BY SoleBefore
<1>2. crashes = 0
  BY CrashesWritten DEF Crash, TypeOK
<1>3. ASSUME NEW class \in Classes, PostDecision(t, class)
      PROVE  decision'[EmailOf[t]] \in Classes
  BY <1>3, ShapeAssumption DEF PostDecision, TypeOK
<1>4. ASSUME t = job.task, job.class # "review", SaveLabelStatus
      PROVE  decision'[EmailOf[t]] \in Classes
  BY <1>4 DEF SaveLabelStatus, LabelStored, emailRows
<1>5. ASSUME t = job.task, SaveLearned PROVE decision'[EmailOf[t]] \in Classes
  <2>1. manual[t] # NoAnswers /\ UNCHANGED decision
    BY <1>5 DEF SaveLearned, AnsweredHaveAnswers, emailRows
  <2>. QED
    BY <1>1, <2>1 DEF AskedStaysDecided, Asked
<1>6. CASE status[t] = "ml_classified" /\ status'[t] = status[t]
  <2>1. CASE decision[EmailOf[t]] \in Classes
    <3>1. ASSUME NEW s \in batch, NEW label \in Labels, ClassifyEmail(s, label), s.task = t
          PROVE  pc' = "labelled" /\ job'.task = t
      BY <3>1 DEF ClassifyEmail, Goto, NoJob
    <3>. QED
      BY <1>1, <2>1, <3>1, SoleDecision
  <2>2. CASE pc = "labelled" /\ job.task = t
    <3>1. UNCHANGED <<pc, job>> \/ SaveLabelStatus
      BY <2>2, LabelledGoesOn
    <3>2. SaveLabelStatus => job.class # "review"
      BY <2>2 DEF SaveLabelStatus, LabelStatus, SetStatus, TypeOK
    <3>. QED
      BY <1>4, <2>2, <3>1, <3>2
  <2>. QED
    BY <1>1, <1>2, <1>6, <2>1, <2>2 DEF ClassifiedIsDecided
<1>. QED
  BY <1>3, <1>4, <1>5, <1>6, ClassifiedWritten

-----------------------------------------------------------------------------
(* The theorems                                                             *)

LEMMA InitDecision == Init => DecisionInv
<1>. SUFFICES ASSUME Init PROVE DecisionInv
  OBVIOUS
<1>1. PipelineInv
  BY InitInv
<1>2. HeldJustified /\ AnsweredHaveAnswers /\ LoopFollowsDecision /\ LabelStored
  BY DEF Init, HeldJustified, Held, AnsweredHaveAnswers, LoopFollowsDecision, LabelStored
<1>3. AskedStaysDecided
  BY DEF Init, AskedStaysDecided, Asked, NoRequest
<1>4. DecisionDelivered /\ ClassifiedIsDecided
  BY DEF Init, DecisionDelivered, ClassifiedIsDecided
<1>. QED
  BY <1>1, <1>2, <1>3, <1>4 DEF DecisionInv

LEMMA NextDecision == DecisionInv /\ [Next]_vars => DecisionInv'
<1>. SUFFICES ASSUME DecisionInv, [Next]_vars PROVE DecisionInv'
  OBVIOUS
<1>1. /\ PipelineInv /\ HeldJustified /\ AnsweredHaveAnswers /\ LoopFollowsDecision
      /\ LabelStored /\ AskedStaysDecided /\ DecisionDelivered /\ ClassifiedIsDecided
  BY DEF DecisionInv
<1>2. TypeOK /\ CopiesJustified /\ SessionsJustified
  BY <1>1 DEF PipelineInv, CopiesJustified
<1>3. Grows
  BY <1>2, StepGrows
<1>4. PipelineInv'
  BY <1>1, NextInv
<1>. QED
  BY <1>1, <1>2, <1>3, <1>4, StepJustifiesHeld, StepKeepsAnswered, StepFollowsDecision,
     StepKeepsLabel, StepStaysDecided, StepDelivers, StepClassifies
     DEF DecisionInv

LEMMA DecisionInvariant == Spec => []DecisionInv
BY InitDecision, NextDecision, PTL DEF Spec

\* A completed task has the files of the class its email has now, unless an operator decided
\* it while the processor held the task, whichever snapshot it was completed from.
THEOREM DecisionsAreDelivered == Spec => []DecisionDelivered
<1>1. DecisionInv => DecisionDelivered
  BY DEF DecisionInv
<1>. QED
  BY <1>1, DecisionInvariant, PTL

\* Without a crash, no task is classified while its email is undecided: the two transactions
\* of process_new, the operators' decisions and the learned answers keep them together.
THEOREM ClassifiedEmailsAreDecided == Spec => []ClassifiedIsDecided
<1>1. DecisionInv => ClassifiedIsDecided
  BY DEF DecisionInv
<1>. QED
  BY <1>1, DecisionInvariant, PTL

\* An email with an order that asked its operators is never taken back to the classifier: the
\* order keeps a class, and no snapshot or handler of it is about to judge it anew.
THEOREM AskedOrdersStayDecided == Spec => []AskedStaysDecided
<1>1. DecisionInv => AskedStaysDecided
  BY DEF DecisionInv
<1>. QED
  BY <1>1, DecisionInvariant, PTL

=============================================================================
