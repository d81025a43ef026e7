---------------------------- MODULE TaskPipeline ----------------------------
(***************************************************************************)
(* The life of an order in OrdersAgent: the rows the processor and the web *)
(* frontend share (tasks, emails, mappings, the results bucket), the       *)
(* single-threaded processor of processors/main.py, which works on a batch *)
(* of task snapshots it read earlier, and the operators' requests handled  *)
(* by frontend/mail-client/app/routers/queue.py.  An action is one         *)
(* database transaction or one object-store call; everything between two   *)
(* of them is where another process, or a crash, can come in.              *)
(***************************************************************************)
EXTENDS Naturals, FiniteSets

CONSTANTS
    NumTasks,     \* tasks are 1..NumTasks, numbered in created_at order
    Emails,       \* rows of emails
    EmailOf,      \* tasks.email_id
    Docs,         \* attachments, by object key
    DocsOf,       \* the documents rows of an email
    Content,      \* what the file of a document is, see Contents
    Parts,        \* names of parts of materials
    PartsOf,      \* the parts ParserV2 finds in the materials of a document
    Blank,        \* the part without a letter it finds in a material like "-a-b"
    Labels,       \* what the classifier may answer in this instance
    Dictionaries, \* the contents the mappings table may start with
    Operators,    \* browser sessions of the managers
    BatchSize,    \* BATCH_SIZE
    MaxRequests,  \* bound: operator requests in a behaviour
    MaxFaults,    \* bound: database or object-store calls that fail
    MaxCrashes    \* bound: times the processor process dies

Tasks == 1..NumTasks

\* A label the operator may choose, and what emails.model_decision may hold.
Classes == {"request", "calculation", "question"}
Decisions == Classes \cup {"review", "none"}

\* "sound": a table with materials and sizes; "unreadable": open_and_clean or
\* simple_parser fails on it; "unbalanced": ParserV2.parse raises on one of its
\* materials; "empty": it parses, but no sheet of it yields an output row.
Contents == {"sound", "unreadable", "unbalanced", "empty"}

\* The row of a part in mappings: absent, usable, or on the black list.
Entries == {"unknown", "known", "black"}

\* What an operator says of a part; "long" if the part, its target or its article is longer
\* than the columns of mappings (01-schema.sql, VARCHAR(255)).
Answer == {"known", "black", "long"}
Answers == UNION {[S -> Answer] : S \in SUBSET Parts}

\* tasks.manual_decision IS NULL: the endpoint refuses an empty answer, so the
\* empty function is free to stand for it.
NoAnswers == [p \in {} |-> "known"]

ASSUME ShapeAssumption ==
    /\ NumTasks \in Nat \ {0}
    /\ EmailOf \in [Tasks -> Emails]
    /\ DocsOf \in [Emails -> SUBSET Docs]
    /\ Content \in [Docs -> Contents]
    /\ PartsOf \in [Docs -> SUBSET Parts]
    /\ Labels \subseteq Classes \cup {"review"}
    /\ Dictionaries \subseteq [Parts -> Entries]

ASSUME BoundAssumption ==
    /\ BatchSize \in Nat \ {0}
    /\ MaxRequests \in Nat
    /\ MaxFaults \in Nat
    /\ MaxCrashes \in Nat

VARIABLES
    status,    \* tasks.status, "absent" before the mail agent's insert commits
    manual,    \* tasks.manual_decision
    output,    \* tasks.output_data: questions asked, and whether metadata of a
               \* decision was merged into it
    message,   \* tasks.error_message IS NOT NULL
    decision,  \* emails.model_decision
    archived,  \* emails.archived
    mapping,   \* the mappings table
    results,   \* objects of the results bucket: <<document, variant>>
    pc,        \* where the processor is
    batch,     \* the snapshots fetch_pending returned and main_loop has not reached
    job,       \* the locals of the handler that is running
    session,   \* the request an operator's session has under way on the server
    requests, faults, crashes,  \* counters against the bounds
    overtaken  \* history: tasks an operator wrote while the processor held them

tables == <<status, manual, output, message, decision, archived, mapping>>
taskRows == <<status, manual, output, message>>
emailRows == <<decision, archived>>
local == <<pc, batch, job>>
bounds == <<requests, faults, crashes>>
history == <<overtaken>>
vars == <<tables, results, local, session, bounds, history>>

-----------------------------------------------------------------------------
(* Rows and values                                                          *)

TaskStatus == {"new", "ml_classified", "question", "ml_review",
               "materials_review", "manual_review_done", "completed", "error"}

\* The statuses fetch_pending selects that some code sets.
PendingStatus == {"new", "ml_classified", "manual_review_done"}

Pending == {t \in Tasks : status[t] \in PendingStatus}

Outputs == [asks : SUBSET Parts, meta : BOOLEAN]
NoOutput == [asks |-> {}, meta |-> FALSE]

Snapshots == [task : Tasks, status : PendingStatus, manual : Answers]

Jobs == [task : Tasks \cup {0}, manual : Answers, class : Decisions,
         todo : SUBSET Docs, parts : SUBSET Parts, asks : SUBSET Parts,
         saved : BOOLEAN, upload : SUBSET Docs]
NoJob == [task |-> 0, manual |-> NoAnswers, class |-> "none", todo |-> {},
          parts |-> {}, asks |-> {}, saved |-> FALSE, upload |-> {}]

Requests == [kind : {"none"}]
            \cup [kind : {"answering", "answer_checked"}, task : Tasks, answers : Answers]
            \cup [kind : {"archive_checked"}, email : Emails]
NoRequest == [kind |-> "none"]

\* The tasks the processor holds a snapshot of: what is written to their rows now
\* is not what it will act on.
Held == {s.task : s \in batch} \cup (IF pc = "idle" THEN {} ELSE {job.task})

SetStatus(t, s) == status' = [status EXCEPT ![t] = s]

\* TaskRepository.mark_error
MarkError(t) ==
    /\ SetStatus(t, "error")
    /\ message' = [message EXCEPT ![t] = TRUE]

\* The handler returns: main_loop goes on with the rest of the batch.
Return ==
    /\ pc' = "idle"
    /\ job' = NoJob

Goto(label, locals) ==
    /\ pc' = label
    /\ job' = locals

Faults(n) ==
    /\ faults + n <= MaxFaults
    /\ faults' = faults + n
Fault == Faults(1)

Ask ==
    /\ requests < MaxRequests
    /\ requests' = requests + 1

-----------------------------------------------------------------------------
(* The mail agent, as far as this module needs it: SaveOrder's transaction  *)
(* commits an email, its documents and a task.  A transaction that began    *)
(* earlier may commit later, so tasks appear in any order.                  *)

Receive(t) ==
    /\ status[t] = "absent"
    /\ SetStatus(t, "new")
    /\ UNCHANGED <<manual, output, message, emailRows, mapping, results, local,
                   session, bounds, history>>

-----------------------------------------------------------------------------
(* The processor: main_loop and the handlers                                *)

\* ORDER BY created_at LIMIT BATCH_SIZE
FirstPending ==
    {t \in Pending : Cardinality({u \in Pending : u < t}) < BatchSize}

\* fetch_pending: the batch is read in one query and never read again.
Fetch ==
    /\ pc = "idle"
    /\ batch = {}
    /\ Pending # {}
    /\ batch' = {[task |-> t, status |-> status[t], manual |-> manual[t]] :
                    t \in FirstPending}
    /\ overtaken' = overtaken \ FirstPending
    /\ UNCHANGED <<tables, results, pc, job, session, bounds>>

\* The handler of the snapshot's status (not of the row's) is called.
Take(s, st) ==
    /\ pc = "idle"
    /\ s \in batch
    /\ \A u \in batch : s.task <= u.task
    /\ s.status = st
    /\ batch' = batch \ {s}

(* process_new *)

\* The email, its documents and their names are read, the forest votes, and
\* EmailRepository.set_ml_result commits what it says.  The text it judges holds
\* the names of the documents, which a second copy of the email changes, so two
\* calls may answer differently.
ClassifyEmail(s, label) ==
    /\ Take(s, "new")
    /\ decision' = [decision EXCEPT ![EmailOf[s.task]] = label]
    /\ Goto("labelled", [NoJob EXCEPT !.task = s.task, !.class = label])
    /\ UNCHANGED <<taskRows, archived, mapping, results, session, bounds, history>>

\* decide_by_thresholds has a status of its own for every answer, which is not
\* one of the database.
ThresholdStatus(label) == IF label = "review" THEN "review" ELSE "classified"

\* predicted_class is None exactly when the label is "review".
LabelStatusUnchecked(label) == "ml_classified"
LabelStatus(label) == IF label = "review" THEN "ml_review" ELSE "ml_classified"

SaveLabelStatus ==
    /\ pc = "labelled"
    /\ SetStatus(job.task, LabelStatus(job.class))
    /\ Return
    /\ UNCHANGED <<manual, output, message, emailRows, mapping, results, batch,
                   session, bounds, history>>

(* process_classified_excel *)

\* The class comes from the row of the email, read now.
StartClassified(s) ==
    LET class == decision[EmailOf[s.task]]
        ofTask == [NoJob EXCEPT !.task = s.task, !.manual = s.manual, !.class = class]
    IN  /\ Take(s, "ml_classified")
        /\ IF class \in {"request", "calculation"}
           THEN Goto("docs", [ofTask EXCEPT !.todo = DocsOf[EmailOf[s.task]]])
           ELSE Goto(IF class = "review" THEN "refuse" ELSE "route", ofTask)
        /\ UNCHANGED <<tables, results, session, bounds, history>>

\* An email without a decision goes back to "new", a question to the operators.
Route ==
    /\ pc = "route"
    /\ SetStatus(job.task, IF job.class = "question" THEN "question" ELSE "new")
    /\ Return
    /\ UNCHANGED <<manual, output, message, emailRows, mapping, results, batch,
                   session, bounds, history>>

\* "Unsupported class": mark_error first, then update_status.
Refuse ==
    /\ pc = "refuse"
    /\ MarkError(job.task)
    /\ Goto("refused", job)
    /\ UNCHANGED <<manual, output, emailRows, mapping, results, batch, session,
                   bounds, history>>

Refused ==
    /\ pc = "refused"
    /\ SetStatus(job.task, "error")
    /\ Return
    /\ UNCHANGED <<manual, output, message, emailRows, mapping, results, batch,
                   session, bounds, history>>

(* process_request_excel and process_calculation_excel: the loop over the   *)
(* documents, which come in no order the query fixes (one transaction gives *)
(* them one created_at).                                                    *)

\* The document is given up: its name goes into file_errors, `continue`.
Skip(d, parts) ==
    Goto("docs", [job EXCEPT !.todo = @ \ {d}, !.parts = parts])

InLoop(d) ==
    /\ pc = "docs"
    /\ d \in job.todo

\* unique_parts and unique_materials_dict live outside the loop: they hold the
\* parts of every document parsed so far.
PartsWith(d) == job.parts \cup PartsOf[d]

Parses(d) == InLoop(d) /\ Content[d] \in {"sound", "empty"}

\* A part that has to be asked about: not in the dictionary, or black-listed.
UnresolvedAbsent(parts) == {p \in parts : mapping[p] = "black"}
Unresolved(parts) == {p \in parts : mapping[p] # "known"}

\* With a manual decision the dictionary is not consulted at all: matches holds
\* the answers and nothing else.
Resolved(d) ==
    IF job.manual = NoAnswers
    THEN Unresolved(PartsWith(d)) = {}
    ELSE PartsWith(d) \subseteq DOMAIN job.manual

DocUnreadable(d) ==
    /\ InLoop(d)
    /\ Content[d] = "unreadable"
    /\ Skip(d, job.parts)
    /\ UNCHANGED <<tables, results, batch, session, bounds, history>>

\* get_bytes_object returns None.
DocNotFetched(d) ==
    /\ InLoop(d)
    /\ Fault
    /\ Skip(d, job.parts)
    /\ UNCHANGED <<tables, results, batch, session, requests, crashes, history>>

\* A call outside the handler's own try blocks raises: process_single_task marks
\* the task, and the documents that are left are not looked at.
DocRaises(d) ==
    /\ \/ InLoop(d) /\ Content[d] = "unbalanced"
       \* matches[part]: an operator was asked about some parts only
       \/ /\ Parses(d)
          /\ job.manual # NoAnswers
          /\ ~Resolved(d)
    /\ MarkError(job.task)
    /\ Return
    /\ UNCHANGED <<manual, output, emailRows, mapping, results, batch, session,
                   bounds, history>>

DocAsks(d) ==
    /\ Parses(d)
    /\ job.manual = NoAnswers
    /\ ~Resolved(d)
    /\ Goto("docs", [job EXCEPT !.todo = @ \ {d}, !.parts = PartsWith(d),
                                !.asks = @ \cup Unresolved(PartsWith(d))])
    /\ UNCHANGED <<tables, results, batch, session, bounds, history>>

\* make_request_xlsx (or make_callculation_xlsx) returns None or raises.
DocEmpty(d) ==
    /\ Parses(d)
    /\ Resolved(d)
    /\ Content[d] = "empty"
    /\ Skip(d, PartsWith(d))
    /\ UNCHANGED <<tables, results, batch, session, bounds, history>>

\* at_leat_one_file_saved: a request needs one file per document, a calculation
\* the file with the articles as well.
AfterMainEarly(d) ==
    [job EXCEPT !.parts = PartsWith(d), !.saved = TRUE, !.todo = @ \ {d},
                !.upload = IF job.class = "request" THEN {} ELSE {d}]
AfterMain(d) ==
    [job EXCEPT !.parts = PartsWith(d), !.saved = @ \/ job.class = "request",
                !.todo = @ \ {d},
                !.upload = IF job.class = "request" THEN {} ELSE {d}]

\* The object key of the document itself; the articles get a suffix.
MainObjectMisnamed(d) == <<d, "articles">>
MainObject(d) == <<d, "main">>

SaveMain(d) ==
    /\ Parses(d)
    /\ Resolved(d)
    /\ Content[d] = "sound"
    /\ results' = results \cup {MainObject(d)}
    /\ Goto(IF job.class = "request" THEN "docs" ELSE "articles", AfterMain(d))
    /\ UNCHANGED <<tables, batch, session, bounds, overtaken>>

\* put_bytes_object returns an error: "retrying..." is logged, `continue`.
SaveMainFails(d) ==
    /\ Parses(d)
    /\ Resolved(d)
    /\ Content[d] = "sound"
    /\ Fault
    /\ Skip(d, PartsWith(d))
    /\ UNCHANGED <<tables, results, batch, session, requests, crashes, overtaken>>

SaveArticles(d) ==
    /\ pc = "articles"
    /\ d \in job.upload
    /\ results' = results \cup {<<d, "articles">>}
    /\ Goto("docs", [job EXCEPT !.saved = TRUE, !.upload = {}])
    /\ UNCHANGED <<tables, batch, session, bounds, history>>

SaveArticlesFails(d) ==
    /\ pc = "articles"
    /\ d \in job.upload
    /\ Fault
    /\ Goto("docs", [job EXCEPT !.upload = {}])
    /\ UNCHANGED <<tables, results, batch, session, requests, crashes, overtaken>>

(* The end of the loop *)

LoopDone == pc = "docs" /\ job.todo = {}

\* update_status(task.id, "materials_review", output_data=questions): the JSON of
\* the task is replaced, not merged.
QuestionsMerged(t) == [output[t] EXCEPT !.asks = @ \cup job.asks]
Questions(t) == [asks |-> job.asks, meta |-> FALSE]

AskOperator ==
    /\ LoopDone
    /\ job.asks # {}
    /\ SetStatus(job.task, "materials_review")
    /\ output' = [output EXCEPT ![job.task] = Questions(job.task)]
    /\ Return
    /\ UNCHANGED <<manual, message, emailRows, mapping, results, batch, session,
                   bounds, history>>

MayCompleteAnyway == LoopDone /\ job.asks = {}
MayComplete == LoopDone /\ job.asks = {} /\ job.saved

Complete ==
    /\ MayComplete
    /\ SetStatus(job.task, "completed")
    /\ Return
    /\ UNCHANGED <<manual, output, message, emailRows, mapping, results, batch,
                   session, bounds, history>>

\* No file was saved, or there was no document at all: update_status, and the
\* reason in a second transaction.
AfterGivingUpQuietly == Return
AfterGivingUp == Goto("explain", job)

GiveUp ==
    /\ LoopDone
    /\ job.asks = {}
    /\ ~job.saved
    /\ SetStatus(job.task, "error")
    /\ AfterGivingUp
    /\ UNCHANGED <<manual, output, message, emailRows, mapping, results, batch,
                   session, bounds, history>>

Explain ==
    /\ pc \in {"explain", "explain_again"}
    /\ MarkError(job.task)
    /\ Return
    /\ UNCHANGED <<manual, output, emailRows, mapping, results, batch, session,
                   bounds, history>>

(* process_manual_matching *)

\* batch_add inserts the answers or overwrites the entries.
Learn(answers) ==
    [p \in Parts |-> IF p \in DOMAIN answers THEN answers[p] ELSE mapping[p]]

\* No request and no model limits the length of an answer: mappings does.
Fits(answers) == \A p \in DOMAIN answers : answers[p] # "long"

\* The answers of a classified order reach batch_add.
Learning(s) ==
    /\ Take(s, "manual_review_done")
    /\ s.manual # NoAnswers
    /\ decision[EmailOf[s.task]] # "none"

LearnAnswers(s) ==
    /\ Learning(s)
    /\ Fits(s.manual)
    /\ mapping' = Learn(s.manual)
    /\ Goto("learned", [NoJob EXCEPT !.task = s.task])
    /\ UNCHANGED <<taskRows, emailRows, results, session, bounds, history>>

\* A missing answer ends like a task without files, an undecided email like one that was
\* never classified.
NothingToLearn(s) ==
    /\ Take(s, "manual_review_done")
    /\ \/ s.manual = NoAnswers /\ Goto("docs", [NoJob EXCEPT !.task = s.task])
       \/ /\ s.manual # NoAnswers
          /\ decision[EmailOf[s.task]] = "none"
          /\ Goto("route", [NoJob EXCEPT !.task = s.task])
    /\ UNCHANGED <<tables, results, session, bounds, history>>

\* batch_add raises: the handler returns without a word, and the task is fetched again at
\* once.  The database refuses an answer that does not fit every time ...
LearnRefused(s) ==
    /\ Learning(s)
    /\ ~Fits(s.manual)
    /\ Return
    /\ UNCHANGED <<tables, results, session, bounds, history>>

\* ... and any call may fail now and then.
LearnFails(s) ==
    /\ Learning(s)
    /\ Fault
    /\ Return
    /\ UNCHANGED <<tables, results, session, requests, crashes, history>>

LearnedStatusKept == status[job.task]
LearnedStatus == "ml_classified"

SaveLearned ==
    /\ pc = "learned"
    /\ SetStatus(job.task, LearnedStatus)
    /\ Return
    /\ UNCHANGED <<manual, output, message, emailRows, mapping, results, batch,
                   session, bounds, history>>

(* Failures of the processor *)

\* Where the handler of task t is about to use the database.
Handling(t) ==
    \/ /\ pc = "idle"
       /\ \E s \in batch : s.task = t /\ \A u \in batch : t <= u.task
    \/ /\ pc \notin {"idle", "articles", "explain_again"}
       /\ t = job.task

\* A database call of the handler raises: process_single_task marks the task.
HandlerFails(t) ==
    /\ Handling(t)
    /\ Fault
    /\ MarkError(t)
    /\ Return
    /\ batch' = {s \in batch : s.task # t}
    /\ UNCHANGED <<manual, output, emailRows, mapping, results, session, requests,
                   crashes, history>>

\* So does that mark_error: main_loop writes the status and then the message.  If it
\* fails as well, the batch is abandoned (Crash).
MarkingFails(t) ==
    /\ Handling(t)
    /\ Faults(2)
    /\ SetStatus(t, "error")
    /\ Goto("explain_again", [NoJob EXCEPT !.task = t])
    /\ batch' = {s \in batch : s.task # t}
    /\ UNCHANGED <<manual, output, message, emailRows, mapping, results, session,
                   requests, crashes, history>>

\* The container is restarted, or the database stays down and main_loop abandons
\* the batch: what the process knew is gone, what it committed is not.
Crash ==
    /\ crashes < MaxCrashes
    /\ batch # {} \/ pc # "idle"
    /\ crashes' = crashes + 1
    /\ Return
    /\ batch' = {}
    /\ UNCHANGED <<tables, results, session, requests, faults, history>>

-----------------------------------------------------------------------------
(* The operators: one action per transaction of routers/queue.py, two where *)
(* it reads the row and decides before it writes it.  No row is locked, so  *)
(* at READ COMMITTED another transaction may commit in between.             *)

\* update_queue_decision looks at no status: any class, any time.  The page sends
\* "question" or "ml_classified" with it.
PostDecision(t, class) ==
    /\ status[t] # "absent"
    /\ Ask
    /\ SetStatus(t, IF class = "question" THEN "question" ELSE "ml_classified")
    /\ output' = [output EXCEPT ![t].meta = TRUE]
    /\ decision' = [decision EXCEPT ![EmailOf[t]] = class]
    /\ overtaken' = overtaken \cup {u \in Held : EmailOf[u] = EmailOf[t]}
    /\ UNCHANGED <<manual, message, archived, mapping, results, local, session,
                   faults, crashes>>

\* The chat of a task shows a field per key of output_data that is not blank; the endpoint
\* would refuse a blank one.
Shown(t) == output[t].asks \ {Blank}

\* sendChatData posts all the chat shows, as the page last loaded it, and nothing if it
\* shows nothing.
SendAnswers(o, t) ==
    /\ session[o] = NoRequest
    /\ status[t] = "materials_review"
    /\ Shown(t) # {}
    /\ Ask
    /\ \E answers \in [Shown(t) -> Answer] :
          session' = [session EXCEPT ![o] =
                        [kind |-> "answering", task |-> t, answers |-> answers]]
    /\ UNCHANGED <<tables, results, local, faults, crashes, history>>

\* The SELECT of update_materials_manual_decision, and its refusal.
CheckAnswers(o) ==
    /\ session[o].kind = "answering"
    /\ session' = [session EXCEPT ![o] =
                     IF status[session[o].task] = "materials_review"
                     THEN [session[o] EXCEPT !.kind = "answer_checked"]
                     ELSE NoRequest]
    /\ UNCHANGED <<tables, results, local, bounds, history>>

SaveAnswers(o) ==
    LET t == session[o].task
    IN  /\ session[o].kind = "answer_checked"
        /\ SetStatus(t, "manual_review_done")
        /\ manual' = [manual EXCEPT ![t] = session[o].answers]
        /\ session' = [session EXCEPT ![o] = NoRequest]
        /\ overtaken' = overtaken \cup ({t} \cap Held)
        /\ UNCHANGED <<output, message, emailRows, mapping, results, local, bounds>>

TasksOf(e) == {t \in Tasks : EmailOf[t] = e /\ status[t] # "absent"}

\* ORDER BY t.created_at DESC LIMIT 1
IsLatest(t, e) == t \in TasksOf(e) /\ \A u \in TasksOf(e) : u <= t

Archivable == {"question", "error", "completed"}

\* The SELECT of archive_email; a task in another status, or an archived email,
\* ends the request there.
CheckArchive(o, e) ==
    /\ session[o] = NoRequest
    /\ ~archived[e]
    /\ \E t \in Tasks : IsLatest(t, e) /\ status[t] \in Archivable
    /\ Ask
    /\ session' = [session EXCEPT ![o] = [kind |-> "archive_checked", email |-> e]]
    /\ UNCHANGED <<tables, results, local, faults, crashes, history>>

SaveArchive(o) ==
    /\ session[o].kind = "archive_checked"
    /\ archived' = [archived EXCEPT ![session[o].email] = TRUE]
    /\ session' = [session EXCEPT ![o] = NoRequest]
    /\ UNCHANGED <<taskRows, decision, mapping, results, local, bounds, history>>

Unarchive(e) ==
    /\ archived[e]
    /\ Ask
    /\ archived' = [archived EXCEPT ![e] = FALSE]
    /\ UNCHANGED <<taskRows, decision, mapping, results, local, session, faults,
                   crashes, history>>

-----------------------------------------------------------------------------
(* The specification                                                        *)

Init ==
    /\ status = [t \in Tasks |-> "absent"]
    /\ manual = [t \in Tasks |-> NoAnswers]
    /\ output = [t \in Tasks |-> NoOutput]
    /\ message = [t \in Tasks |-> FALSE]
    /\ decision = [e \in Emails |-> "none"]
    /\ archived = [e \in Emails |-> FALSE]
    /\ mapping \in Dictionaries
    /\ results = {}
    /\ pc = "idle"
    /\ batch = {}
    /\ job = NoJob
    /\ session = [o \in Operators |-> NoRequest]
    /\ requests = 0
    /\ faults = 0
    /\ crashes = 0
    /\ overtaken = {}

Document ==
    \E d \in Docs :
        \/ DocUnreadable(d)
        \/ DocRaises(d)
        \/ DocAsks(d)
        \/ DocEmpty(d)
        \/ SaveMain(d)
        \/ SaveArticles(d)

\* What the processor does when nothing fails.
Work ==
    \/ Fetch
    \/ \E s \in batch, label \in Labels : ClassifyEmail(s, label)
    \/ SaveLabelStatus
    \/ \E s \in batch : StartClassified(s)
    \/ Route
    \/ Refuse
    \/ Refused
    \/ Document
    \/ AskOperator
    \/ Complete
    \/ GiveUp
    \/ Explain
    \/ \E s \in batch : LearnAnswers(s) \/ NothingToLearn(s) \/ LearnRefused(s)
    \/ SaveLearned

Failure ==
    \/ \E d \in Docs : DocNotFetched(d) \/ SaveMainFails(d) \/ SaveArticlesFails(d)
    \/ \E s \in batch : LearnFails(s)
    \/ \E t \in Tasks : HandlerFails(t) \/ MarkingFails(t)
    \/ Crash

Operator(o) ==
    \/ \E t \in Tasks : SendAnswers(o, t)
    \/ CheckAnswers(o)
    \/ SaveAnswers(o)
    \/ \E e \in Emails : CheckArchive(o, e)
    \/ SaveArchive(o)

Next ==
    \/ \E t \in Tasks : Receive(t)
    \/ Work
    \/ Failure
    \/ \E t \in Tasks, class \in Classes : PostDecision(t, class)
    \/ \E o \in Operators : Operator(o)
    \/ \E e \in Emails : Unarchive(e)

Spec == Init /\ [][Next]_vars

\* main_loop never ends and its container restarts; a request the server received
\* is carried through.  Nothing is assumed of the operators or of the mail.
Fairness ==
    /\ WF_vars(Work)
    /\ \A o \in Operators : WF_vars(CheckAnswers(o) \/ SaveAnswers(o) \/ SaveArchive(o))

FairSpec == Spec /\ Fairness

-----------------------------------------------------------------------------
(* Properties                                                               *)

Phases == {"idle", "labelled", "route", "refuse", "refused", "docs", "articles",
           "explain", "explain_again", "learned"}

\* Every row, local and request holds a value of its type; in particular no status
\* outside the database's enum is ever written, and the answers of a request are
\* about parts of materials.
TypeOK ==
    /\ status \in [Tasks -> TaskStatus \cup {"absent"}]
    /\ manual \in [Tasks -> Answers]
    /\ output \in [Tasks -> Outputs]
    /\ message \in [Tasks -> BOOLEAN]
    /\ decision \in [Emails -> Decisions]
    /\ archived \in [Emails -> BOOLEAN]
    /\ mapping \in [Parts -> Entries]
    /\ results \subseteq Docs \X {"main", "articles"}
    /\ pc \in Phases
    /\ batch \subseteq Snapshots
    /\ job \in Jobs
    /\ pc # "idle" => job.task \in Tasks
    /\ session \in [Operators -> Requests]
    /\ requests \in Nat /\ faults \in Nat /\ crashes \in Nat
    /\ overtaken \subseteq Tasks

HasFile(t, variant) == \E d \in DocsOf[EmailOf[t]] : <<d, variant>> \in results

PartsOfTask(t) == UNION {PartsOf[d] : d \in DocsOf[EmailOf[t]]}

\* No other task of the same email has arrived.
Sole(t) == \A u \in Tasks : EmailOf[u] = EmailOf[t] /\ status[u] # "absent" => u = t

\* A task the page offers for download ("completed") has a result file of at least
\* one of its documents, whatever snapshot, crash or operator's request came between
\* the upload and the status.
CompletedHasResult ==
    \A t \in Tasks : status[t] = "completed" => HasFile(t, "main")

\* The chat of a task in "materials_review" shows a question, unless the only one is the
\* blank part, which the page drops and the endpoint refuses: such an order waits for an
\* answer nobody can give.  All questions are about parts of its documents, and the metadata
\* a decision merges into the same JSON (predicted_class, manual_review...) never shows up
\* as a material to match.
ReviewAsksParts ==
    \A t \in Tasks :
        status[t] = "materials_review" =>
            /\ Shown(t) # {} \/ output[t].asks = {Blank}
            /\ output[t].asks \subseteq PartsOfTask(t)
            /\ ~output[t].meta

\* A file is produced only if each part of its document has an entry in the
\* dictionary or was answered by an operator for a task of that document.
ResultsResolved ==
    \A d \in Docs :
        <<d, "main">> \in results =>
            \A p \in PartsOf[d] :
                \/ mapping[p] # "unknown"
                \/ \E t \in Tasks : d \in DocsOf[EmailOf[t]] /\ manual[t] # NoAnswers

\* A task in "error" has a message for its tooltip, except between the two
\* transactions that write them; only a crash can leave it without one.
ErrorsExplained ==
    \A t \in Tasks :
        status[t] = "error" /\ ~message[t] =>
            \/ pc \in {"explain", "explain_again"} /\ job.task = t
            \/ crashes > 0

\* The class an operator chose decides which files a completed task has, unless the
\* choice was made while the processor held the task.
DecisionDelivered ==
    \A t \in Tasks :
        /\ status[t] = "completed"
        /\ Sole(t)
        /\ t \notin overtaken
        => /\ decision[EmailOf[t]] \in {"request", "calculation"}
           /\ decision[EmailOf[t]] = "calculation" => HasFile(t, "articles")

\* Without a crash no task is left classified while its email is undecided or "to be
\* reviewed", which the next round would refuse as an unsupported class: set_ml_result
\* and update_status are two transactions, and process_new writes both.
ClassifiedIsDecided ==
    \A t \in Tasks :
        /\ status[t] = "ml_classified"
        /\ Sole(t)
        /\ crashes = 0
        => \/ decision[EmailOf[t]] \in Classes
           \/ pc = "labelled" /\ job.task = t

\* The orders whose answers do not fit the dictionary: nothing but a new decision takes them
\* out of the queue.
Poisoned == {t \in Tasks : status[t] = "manual_review_done" /\ ~Fits(manual[t])}

\* As long as only finitely many requests, faults and crashes come, every task leaves the
\* statuses the processor polls for good, except the orders whose answers do not fit: these
\* are fetched again and again, and once they fill the oldest BATCH_SIZE places of the queue
\* (main.py:481, repositories.py fetch_pending) no other order has its turn.
Settles == <>[](FirstPending \subseteq Poisoned /\ (Pending = {} => pc = "idle"))

=============================================================================
