# Verification of OrdersAgent

OrdersAgent reads the mailboxes of a company's managers, turns each email into an
order, classifies it, reads the tables attached to it, replaces the names of
materials by those of a dictionary, asks an operator about the names it does not
know, and offers the resulting Excel files for download. This directory holds TLA+
models of its parts, the TLC instances that check them and TLAPS proofs of all their
safety properties and of two refinements.

    tlc -workers 2 -config TaskPipeline_orders.cfg MCTaskPipeline.tla
    tlapm TaskPipelineDeskProofs.tla

## 1. The system

| component | source | state it keeps | operations |
|---|---|---|---|
| mail agent: supervisor | `mail/cmd/mail-agent/main.go` | `activeWorkers`, `shuttingDown` | start a worker per user with tokens every 30 s; on SIGTERM close `stopChan` and wait |
| mail agent: worker | `mail/cmd/mail-agent/worker.go`, `internal/client`, `internal/parser`, `internal/storage/repo.go` | the cached IMAP client | every 30 s: list the unread, parse, `SaveOrder`, `MarkRead` |
| mail tokens, login | `frontend/.../routers/auth.py`, `services/users.py`, `internal/client/oauth.go` | token columns of `users`, sessions in memory | login, refresh before a connection |
| replies | `queue.py` reply, `main.go` reply handler, `internal/smtp`, `storage/sent.go` | none | forward, send by SMTP, append to Sent afterwards |
| processor loop | `processors/main.py` `main_loop` | a batch of task snapshots | fetch up to 10 pending tasks, run a handler for each, sleep |
| processor handlers | `processors/main.py`, `database/repositories.py` | locals of one handler | classify; build request or calculation files; learn an operator's answers |
| dictionary | `MappingRepository`, table `mappings` | part -> name, article, black list | `batch_find`, `batch_add` |
| parser of materials | `processors/materials/parser.py` | none | split a material's name into parts |
| tables and sheets | `processors/table/table_processer.py` | cell indexes | read an attachment, write result sheets |
| classifier | `processors/classify` | the trained model | label an email |
| operator API | `frontend/mail-client/app/routers/queue.py`, `services/queue.py` | none beyond the database | list, decide the class, answer questions, archive, read marks, download, reply |
| mail page | `frontend/.../static/js` | list, selection, unread counter, chat cache, reply forms | silent refresh every few seconds, optimistic updates |
| database, buckets | `storage/init`, MinIO | everything that survives a restart | |

The services are separate containers, restarted by Docker. They do not call each other
(except for replies, where the frontend calls the mail agent): they meet in the tables
and in the buckets. No row is ever locked; each repository call is one transaction at
READ COMMITTED.

**What is hard.**

- The processor works on *snapshots*: a batch is read once, and a handler may run
  minutes later on a row an operator has rewritten since. Its writes are blind.
- An operator's request reads a row, decides, and writes it in another statement.
- A handler consists of many calls (transactions, uploads, one per document); each may
  fail, and the process may die between any two.
- A handler's loop over documents keeps its locals from one document to the next:
  materials, parts and questions of all documents so far.
- The only memory of the ingest is the `\Seen` flag on a server that people use too. The
  commit of an order and its mark cannot be atomic.
- Connections break in the middle of a message, and a library reports that only as
  missing data, or as an error it repeats for ever.
- A login and a worker's refresh write the same token columns, and the provider takes each
  refresh token once.
- A reply may be sent although the browser was told that it failed.
- In the browser the whole list is replaced every few seconds under inputs, timers and calls
  that hold objects of the old one; guards that put a refresh off for an input in use may put
  it off for good.

**What makes each part correct.** Pipeline: a status a page shows is backed by files,
questions, messages and the class chosen, whatever came in between; every task settles.
Ingest: each message becomes an order with all its attachments, and one order only, as far
as `\Seen` can tell; one worker per mailbox; a shutdown ends. Sheets: nothing of an order
is lost, moved or doubled on the way from its rows to those of a result. Tokens: a refresh
does not undo a login, and the mailbox is connected again. Replies: no message goes out
twice without a reason the operator could see. Browser: drafts, focus and counter survive
refreshes, and the page comes into step with the server.

`PROJECT.json` lists the hazards line by line, with the properties that cover them.

## 2. Modules

| module | contents |
|---|---|
| `TaskPipeline` | tables, buckets, processor, operators: one action per transaction or object-store call; the properties |
| `TaskPipelineInvariants` | the three inductive invariants |
| `TaskPipelineClaims` | claims of the repository's texts that the code does not keep |
| `OrderDesk` | what is promised of an order, without processor and requests |
| `TaskPipelineDesk` | the refinement mapping of `TaskPipeline` to `OrderDesk` |
| `OrderList` | the list of the inbox over the rows of `TaskPipeline` |
| `MCTaskPipeline` | instances for TLC |
| `TaskPipelineProofs` | type correctness; what files, questions and messages promise |
| `TaskPipelineDecisionProofs` | what becomes of the class of an email |
| `TaskPipelineDeskProofs` | the refinement of `OrderDesk`, and the list of the inbox |
| `MailIngest` | mail server, supervisor, workers, storing and marking; the properties |
| `MailIngestInvariants`, `MCMailIngest` | its inductive invariant; instances for TLC |
| `MailIntake` | what is promised of a mailbox, without workers, connections and uploads |
| `MailIngestIntake` | the refinement mapping of `MailIngest` to `MailIntake` |
| `MailIngestProofs` | type correctness, the safety theorems, the refinement of `MailIntake` |
| `SortedSets` | a loop over positions that keeps some of them |
| `MaterialParser` | `ParserV2` as functions |
| `MaterialLines` | brackets, letters and delimiters of a line as a person reads them |
| `MaterialParserProofs` | what the parser makes of every line |
| `TableReader` | reading of headers and rows, writing of result sheets, as functions |
| `OrderSheets` | a handler's loop over the documents, composed of parser and reader |
| `OrderSheetsInvariants`, `MCOrderSheets` | its properties, with definitions of their own, and its inductive invariant; the orders for TLC |
| `OrderSheetsProofs` | the loop, the reading of sheets and the contents of the files |
| `MailTokens` | logins and the worker's `getConnectedClient` over one row of `users` |
| `ReplyFlow` | extends it by the reply form, the request, the handler and the agent's process |
| `ReplyFlowInvariants`, `MCReplyFlow`, `ReplyFlowProofs` | its properties and inductive invariant; an instance; the proofs |
| `MailPage` | the page of the inbox, its calls, and the rows they read and write |
| `MailPageInvariants`, `MCMailPage`, `MailPageProofs` | its properties and inductive invariant; an instance; the proofs |

### TaskPipeline and the code

`status, manual, output, message` are the columns of `tasks` that steer the program,
`decision, archived` those of `emails`; `mapping` is the dictionary, `results` the result
bucket. `batch` is `pending` in `main_loop`; `pc` and `job` are the point the running handler
has reached and its locals; `session` is a request under way in the frontend, between its
check and its write.

| actions | code |
|---|---|
| `Receive` | a task appears by `SaveOrder`'s commit (detailed in `MailIngest`) |
| `Fetch` | `fetch_pending` (`repositories.py`), the batch of `main_loop` |
| `ClassifyEmail`, `SaveLabelStatus` | `process_new`: `set_ml_result`, then `update_status`, two transactions |
| `StartClassified`, `Route`, `Refuse`, `Refused` | `process_classified_excel`: read the email, choose the handler or mark the task |
| `DocUnreadable`, `DocNotFetched`, `DocRaises`, `DocAsks`, `DocEmpty` | the ways an iteration over documents ends without a file, in `process_request_excel` and `process_calculation_excel` |
| `SaveMain`, `SaveArticles` and their `...Fails` | the uploads; a calculation uploads a second file |
| `AskOperator`, `Complete`, `GiveUp`, `Explain` | the three ends of a handler; the last writes status and message in two transactions |
| `LearnAnswers`, `NothingToLearn`, `LearnRefused`, `LearnFails`, `SaveLearned` | `process_manual_matching`: `batch_add` takes the answers, refuses one that is too long each time, or fails for another reason |
| `HandlerFails`, `MarkingFails` | the exception handlers of `process_single_task` and `main_loop` |
| `Crash` | the container restarts, or `main_loop` abandons its batch |
| `PostDecision`, `SendAnswers`, `CheckAnswers`, `SaveAnswers`, `CheckArchive`, `SaveArchive`, `Unarchive` | the requests of `queue.py`, split where another transaction may come in |

Abstractions. A document is its `Content` (sound, unreadable, unbalanced, empty) and the parts
its materials have: that is all the handlers' control flow depends on, and what `OrderSheets`
details. One part, `Blank`, may be the blank one the parser yields for "-a-b": the processor
asks for it, the chat drops its key (`mail-chat.js:9`) and the endpoint would refuse it
(`queue.py:709`), so `SendAnswers` answers `Shown` only. A dictionary entry is absent, usable or
black-listed; an answer is one of these or too long for its column (`01-schema.sql:44-46`). An
object of the result bucket is its document and variant. `update_status(..., output_data=...)`
replaces the column, a decision merges its metadata into it; `output.meta` tells the two apart.
The statuses `downloaded` and `files_saved` are selected by `fetch_pending` but set by no code,
so they do not occur. Document rows doubled by a second store of a message have the same object
key and count once. A commit whose outcome the client cannot know is not modelled.

`OrderList` adds no state: `Listed` is the order the lateral join of `services/queue.py`
picks for an email, `Inbox` what a page of orders that are not archived shows.

### MailIngest and the code

`agent` and `active` are the supervisor's process and `activeWorkers`; `worker` holds the
locals of `runUserWorker` and `ProcessEmails` per goroutine, `link` its cached client;
`mailbox` and `seen` are the IMAP server; `tasks`, `documents`, `authorised` the tables;
`bucket` the attachments. `refused`, `touched` and `interrupted` are history variables:
they record why a message may be missing or doubled.

| actions | code |
|---|---|
| `StartWorker`, `Shutdown`, `Exit` | `startNewWorkers`, the signal branch, `wg.Wait` |
| `Tick`, `Stop` | the `select` of `runUserWorker`; Go chooses at random if both are ready |
| `Connect`, `ConnectFails` | `getConnectedClient`: a cached client is returned unseen |
| `List`, `ListFails` | `FetchUnread`; a connection error drops the client |
| `Read`, `ReadFails`, `ReadTruncated`, `ReadEndless` | `FetchMessage` and `ParseMessage`: items missing behind the envelope are no error; `parseBody` does not come back from a multipart without its last boundary, whether it was sent so or cut off |
| `Upload`, `Commit`, `SaveFails` | `SaveOrder`: uploads happen as they are called, rows at the commit |
| `Mark`, `MarkFails`, `LoopEnds` | `MarkRead`, the end of the loop |
| `Arrive`, `PersonTouches`, `Disconnect` | the world: the mail server, people's mail programs, the network |

Abstractions. A message yields the attachments `FilesOf` says, cannot be parsed (`Broken`), or
keeps the parser for ever (`Endless`): the worker is "stuck" then, and only a crash frees its
mailbox. Every error of a broken connection is taken to be one `isReconnectableError`
knows. The refresh of tokens is in `MailTokens`; here a failed connection covers it. UIDs
are read in any order, where the code takes the listed one.

### OrderSheets and the code

`order` is the task with its documents and answers, `doc` and `step` the place of the loop;
`tables`, `elements`, `parts`, `questions`, `causes` are the locals `res`,
`unique_materials_dict`, `unique_parts`, `questions`, `file_errors`; `saved` is the bucket.
A run of the handler is deterministic but for uploads that are refused: the instance is in
the choice of the order.

| definitions | code |
|---|---|
| `Tree`, `Scan`, `Scanned`, `Closes`, `Innermost` | `_symbols_tree`: brackets and the block each delimiter belongs to |
| `MaxDelimiter`, `Split`, `SplitBlock` | `Block`, `DelimetersList`: what a block is split by |
| `Parse0`, `Candidates`, `Cleaned`, `Parse` | `ParserV2._parse`, `_find_candidates`, `_clean_last_p`, `parse` |
| `ColumnsOf`, `HeaderColumns`, `MatchedVariants`, `FullRow`, `ReadSheet` | `simple_parser`, `_parse_sheet` |
| `WithEntries`, `RequestRow`, `RequestBook`, `CalculationRow`, `CalculationBook` | `make_request_xlsx`, `make_callculation_xlsx` |
| `Open`, `ParseMaterials`, `Ask`, `Match`, `MakeFails`, `Save`, `SaveRefused`, `End` | an iteration over a document and the end of `process_request_excel` and `process_calculation_excel` |

Abstractions. A line is a sequence of symbols, a sheet a matrix of cells that are already
classified (the regular expressions of `classify` are its input). Numbers are in tenths, and
one value stands for a text `float()` refuses. The entry of a part says which part it is of
and where it comes from.

### MailTokens, ReplyFlow and the code

`user` is the row; tokens are numbers in the order the provider gives them out, 0 is NULL.
`issued`, `expired`, `dead` belong to the provider. `login[l]` is where `auth_callback` of one
login is, `worker` where `getConnectedClient` is, with its `mailAuth`. `form` has what the
page remembers of a reply (`kept`) and what the elements on the card have (`shown`, `busy`);
`replies[i]` what became of the i-th press of Send, for the browser (`web`), in the agent
(`at`) and at the SMTP server (`accepted`); `agent` is the process.

| actions | code |
|---|---|
| `GetTokens`, `LookUp`, `Insert`, `Store`, `LoginFails` | `auth_callback` with `get_or_create_user_by_email` and `update_user_mail_tokens`, three statements |
| `ReadTokens`, `Refresh`, `RefreshFails`, `SaveTokens`, `SaveTokensFails`, `Connect`, `ConnectFails` | `getConnectedClient`, `RefreshYandexToken`, `UpdateUserMailTokens` |
| `WriteReply`, `Cancel`, `Render`, `Press` | the reply form of `mail-render-card.js` |
| `Begin`, `SmtpAccepts`, `SmtpFails`, `Answer`, `TimesOut`, `CopyEnds` | the reply handlers of `queue.py` and `main.go`, `ReplyToEmail`, `appendToSent` |
| `Shutdown`, `ServerStops`, `Exit`, `Kill`, `Restart` | `main` of the mail agent, Docker |

Abstractions. One mailbox and one email: neither tokens nor replies of two meet anywhere.
A token is expired from the minute before its time on, as `getConnectedClient` counts it.
A rotation of the refresh token, and an answer without one, are choices of the provider.

### MailPage and the code

`emails, unread, selected, cache, pending` are `state.emails`, `unreadCount`,
`selectedEmailId`, `chatStorage` and `pendingSilentRefresh`; `tab`, `card`, `editing` the page
as it is shown, `header` what stands over the list. `chat` and `timer` are the objects of the list
that the inputs and the `setTimeout` of a click are bound to: an object is *live* as long as it is
the one in the list, and goes on with a text of its own when a newer list replaced it. `forms` is
`openReplyForms`, which holds ids of emails and is asked with that of a task: `EmailNo` says which
task has the number of an email. `reply` is the three flags of `isReplyInputProtected` together; it
is "stuck" when a card was rendered anew under the field and no blur came. `loads`, `marks`,
`post`, `closing` are the calls that are out. `server` has the rows, `archived` the emails out of
the inbox. A text is a number of keystrokes. `typed`, `atLoad`, `gone`, `skewed`, `shadowed` are
history.

| actions | code |
|---|---|
| `Tick`, `RefreshAfterBlur`, `ServerLists`, `Apply`, `LoadFails` | `refreshEmailsSilently` with both its guards, `loadEmailsFromApi`, and what is rendered after it |
| `SelectEmail`, `RenderSelected`, `CloseAndMarkUnread`, `SwitchTab` | a click, the render 300 ms later, closing, the tabs |
| `MarkDone`, `MarkFails` | `updateEmailReadStatus` and the rollback |
| `Focus`, `Type`, `Blur` | `bindMaterialInputEvents` |
| `Send`, `PostArrives`, `PostAnswered`, `PostFails` | `sendChatData` with the request |
| `OpenReply`, `UseReply`, `LeaveReply`, `CloseReply` | the reply form of the card, as far as it holds up refreshes |
| `CloseTask`, `ArchiveArrives`, `ArchiveAnswered`, `ArchiveFails` | the button of the card that archives its email, with the request |
| `OthersWrite` | the processor, another operator, another browser |

Abstractions. One field stands for the fields of all parts: the draft of a part the row no longer
asks for is dropped (`mail-chat.js:39`), which is left out. A composition of an input method
counts as editing. The statuses outside a review are one, so an archive request may be refused
for any of them. The page of archived emails runs the same code with another list, and shows no
counter (`mail-render-list.js:218`).

## 3. What the runs check

| run | instance | shows |
|---|---|---|
| `orders` | two orders in one batch, three sound documents with different parts, one of them with the blank part besides, a dictionary that knows one or both of the others, one operator; 2 requests, 2 faults, 1 crash | the eight invariants |
| `copies` | one email stored twice, documents sound, empty and unreadable, a black-listed part, two operators; batch of one, 3 requests | what two tasks of an email or two operators could break, and that the pipeline implements `OrderDesk` |
| `progress` | the two orders, the document of the second unbalanced, one batch of two, answers that may be too long; 2 requests, 1 fault, 1 crash | `Settles` |
| `class_change`, `archive`, `answers` | smaller ones | three claims of section 5, violated |
| `ingest` | two mailboxes, three messages (two attachments, none, unparseable), two goroutines; 2 faults, 1 crash or shutdown, 1 touch by a person | the safety properties |
| `ingest_progress` | two mailboxes, one with an order and an unparseable message, one with a message whose parsing never ends, two goroutines; 1 fault, which may cut the order's body too, 2 crashes | `EveryMessageHandled`, `ShutdownEnds`, and that the ingest implements `MailIntake` |
| `sheets` | every line of up to four symbols and the bracketed ones of six; every row of four headers, every row of four cells under an understood one, a second header, a column of marks; orders of up to three documents with shared, unknown and black-listed parts and answers; 1 refused upload | the splitting of names, the reading of rows and the contents of result files, each against a definition of its own |
| `page` | an unread email that asks and a read one that does not; the email of the first has the number of its task, so that its reply form counts; one keystroke, two lists under way at once, any number of posts, and 2 other clicks, failed lists or writes of others | what an operator may rely on, and `PageCatchesUp` |
| `typed_input` | the same with two keystrokes and one list at a time | the fourth claim of section 5, violated |
| `replies` | two logins, two presses of Send; 4 logins, presses, expiries, faults, stops or kills together | tokens, replies, `MailboxServed` |

The properties, by what they say:

- `CompletedHasResult`: a completed order has a file; no snapshot or request separates them.
- `ReviewAsksParts`: the chat of an order that waits for answers asks something, about its own
  parts, and never shows the metadata of a decision as materials. The exception is an order whose
  only open part is the blank one: it waits for an answer nobody can give.
- `ResultsResolved`: no file before each of its parts has an entry, or somebody answered for
  its email. It is deliberately no stronger: answers in an old snapshot may overwrite newer
  ones, and several documents share one answer.
- `ErrorsExplained`: an order in error has a message, or is about to get one; only a crash
  leaves it without.
- `DecisionDelivered`: the files are those of the class chosen, unless the choice fell while
  the processor held the task.
- `ClassifiedIsDecided`: no order waits as classified while its email is undecided.
- `CopiesJustified`: snapshots, locals and requests never claim more than the rows hold.
- `QuestionsReachOperator`: of two orders of one email the list shows one. If the other asks
  something, the one shown will move, has a file, or asks too: an order in error hides no
  question.
- `ImplementsDesk`: refinement of `OrderDesk`.
- `Settles`: each task leaves the polled statuses, and the processor rests; except the orders with
  an answer that is too long, which are fetched again at once and for ever, and the orders behind
  them, once there are as many of these as a batch has places.
- `SeenIsStored`, `SeenIsComplete`, `SecondOrderExplained`: a message taken for done has its
  order and attachments, and one order only, except where a save was refused (the error is
  logged and the message marked), a person used the flag, or the mark failed or was cut off
  by a crash. The exceptions are what the code does; the properties say there are no others.
- `DocumentsAreStored`: the processor never meets a document without its object.
  `OneWorkerPerUser`: no user has two workers.
- `EveryMessageHandled`: a message that can be parsed is at last done, whatever else is in the
  mailboxes, and `ShutdownEnds`: a shutdown ends; unless the worker of that mailbox, or for the
  shutdown of any, does not come back from `parseBody` (`email.go:346`).
- `ImplementsIntake`: refinement of `MailIntake`. A message is in one hand at most; the unread
  ones of a mailbox are taken together and not before all earlier ones are let go; an order is
  made only of a message in hand, once; and the agent marks only what is ordered with all its
  attachments or was refused.
- `RaisedForCause`: an exception leaves a handler exactly when the brackets of a material cannot
  be paired without a crossing or a rest, or answers lack a part.
- `NothingLost`, `PartsWellFormed`: prefix, parts and postfix hold the letters of the name in
  order; each part has its brackets in pairs; a blank part comes only of a delimiter with
  nothing before it.
- `RowsReadByMeaning`: the rows read are the complete ones under an understood header, each
  value from the column of its header. A second header with other columns is the exception
  the code has.
- `BooksHoldRows`: each row read is in the file once, with one entry per part and its own
  sizes, whatever documents came before. Entries from the tenth part on (the eighth in the
  list of articles) give way to the sizes.
- `AsksEverythingAtOnce`: one review asks for every open part of every document.
- `DraftKept`: what was typed and not sent stays in the cache, except where a render showed an
  older text of it: that of a click which comes after a newer list, or that of a tab after the
  typing went to an object a list had replaced. `PostedIsRecent`: an answer lacks at most what was
  typed after the list was last replaced. `TypingUndisturbed`: a refresh leaves an input that is
  edited its text and focus.
- `CounterExplained`: the number of unread emails over the list is that of the list and of the
  unread ones archived from their card since it was loaded, which nothing takes off, unless the
  rollback of a mark met a newer list or mark; the next list repairs both. After an answer was
  posted the number of all emails stands there until something is counted (`mail-api.js:155`).
- `PageCatchesUp`: once no input of chat or replies holds refreshes up, the page shows at last what
  the server has. A reply form that stays open, or a flag that is stuck, is the exception.
- `StoredRefreshUsable`: without a fault the stored refresh token is one the provider takes,
  but between a refresh and its save. `LoginSurvives`: only a refresh under way at a login
  may write over its tokens. `MailboxServed`: a mailbox with usable tokens is connected
  again after every break.
- `DuplicateExplained`: a second copy of a reply goes out only if the first was reported as
  failed or the card was rendered anew. `ShutdownFinishesReplies`: a shutdown cuts off a
  reply only after its 10 s.

**Bounds.** `MaxRequests`, `MaxFaults`, `MaxCrashes`, `MaxTouches`, `MaxEvents`, `MaxTyped`,
`MaxLoads`, `MaxReplies`, `MaxRefused` cap what comes from outside; every other counter is
bounded by the instance. Two tasks and two operators suffice for each pair of writers of a row;
a batch of two gives one snapshot that ages while another is handled; two faults reach the
failing error handler; three documents make a loop with each kind of iteration. Two goroutines,
three messages and two faults reach a truncated message, whose mark fails, which is stored
again. Four symbols are an open and a closed bracket around a delimiter or in the wrong order;
six are two levels. On the page two events are a click and a switch of the tab, under a late
render or before an answer, or a click and an open reply or an archived email; two lists under
way are two silent refreshes that overtake each other, or one and that of an answer. The batch
of `progress` has a place for each order, so that a poisoned one starves no other there; with
one place it would, and `Settles` excepts that. Four events among the replies are a login, its
expiry, a press and a second login or a fault. The theorems of section 4 hold without any of
these bounds.

**Deadlock** is checked for the page and `replies`, where a timer or a render is always left. It
is not checked for the others: once all orders are settled and all bounds used up the system
waits for mail, and a handler ends.

**Fairness.** Pipeline: `WF(Work)`, since `main_loop` catches every exception, never ends
and is restarted by Docker; weak fairness for the second half of a request the server
accepted. Ingest: weak fairness for restart, exit, `StartWorker` and each worker's rounds,
since tickers keep firing; strong fairness for `Stop`, because `select` chooses at random
between a tick and the closed `stopChan`. Nothing is assumed of operators, mail, faults or
people. Rounds include the failure of a connection that is already broken, and no failure
that is counted. A round need not end: a worker that is stuck in the parser has no step, and
nothing is assumed of it. Page: weak fairness for the timer, the list's answer and its application,
and the `setTimeout` of a click; none for the other calls. Replies: weak fairness for the
worker's steps only, since its ticker fires again after every error.

## 4. What is proved

For every value of the constants that satisfies the named assumptions, TLAPS checks 43 theorems
that state what a reader should know, and the lemmas they rest on: some 11,800 obligations in
eight modules. Every invariant and action property of the passing runs, and both refinements,
are among them. The assumptions say what shape the tables have and that bounds are numbers
(`ShapeAssumption`, `BoundAssumption`, `TokenBounds`, `ReplyBound`); that messages have an owner
and attachments, and that no message both fails to parse and never ends (`MailAssumption`); that
the emails of a page are finitely many and differ from null, and whatever numbers tasks and
emails have (`PageAssumption`); that delimiters, letters, brackets and the blank differ
(`SymbolAssumption`); that an order's documents are a sequence, not an empty one, that a sheet
has rows of one length with classified cells, as `classify` and the reading of an Excel file
give them, and that no part is both black-listed and unknown (`OrdersAssumption`).

| module | theorem | property |
|---|---|---|
| `TaskPipelineProofs` | `TypeCorrect`, `CopiesStayJustified`, `CompletedOrdersHaveResults`, `ReviewsAskAboutParts`, `FilesAreResolved`, `ErrorsHaveMessages` | `TypeOK`, `CopiesJustified`, `CompletedHasResult`, `ReviewAsksParts`, `ResultsResolved`, `ErrorsExplained` |
| `TaskPipelineDecisionProofs` | `DecisionsAreDelivered`, `ClassifiedEmailsAreDecided`, `AskedOrdersStayDecided` | `DecisionDelivered`, `ClassifiedIsDecided`, `AskedStaysDecided` |
| `TaskPipelineDeskProofs` | `PipelineImplementsDesk`, `AnswersStayWithinParts`, `QuestionsAreSeen` | `ImplementsDesk`, `AnswersWithinParts`, `QuestionsReachOperator` |
| `MailIngestProofs` | `IngestTypeCorrect`, `IngestImplementsIntake`, `HandsStayJustified`, `MessagesAreStored`, `MessagesAreComplete`, `OneOrderPerMessage`, `DocumentsHaveObjects`, `OneWorkerEach` | `TypeOK`, `ImplementsIntake`, `HandsJustified`, `SeenIsStored`, `SeenIsComplete`, `SecondOrderExplained`, `DocumentsAreStored`, `OneWorkerPerUser` |
| `ReplyFlowProofs` | `ReplyTypes`, `RefreshStaysUsable`, `LoginsSurvive`, `DuplicatesExplained`, `ShutdownFinishes` | `TypeOK`, `StoredRefreshUsable`, `LoginSurvives`, `DuplicateExplained`, `ShutdownFinishesReplies` |
| `MailPageProofs` | `PageTypes`, `DraftsAreKept`, `CounterIsExplained`, `PostsAreRecent`, `TypingIsUndisturbed` | `TypeOK`, `DraftKept`, `CounterExplained`, `PostedIsRecent`, `TypingUndisturbed` |
| `MaterialParserProofs` | `TreeIsBalance`, `ParseRaises`, `PartsAreWhole`, `LettersStay` | of every line |
| `OrderSheetsProofs` | `SheetTypes`, `ReviewAsksEverything`, `RaisesAreOfDocuments`, `ResultsAreOfTheirDocuments`, `RaisesForCause`, `PartsStayWhole`, `NoLetterIsLost`, `RowsAreReadByMeaning`, `BooksHoldTheirRows` | `TypeOK`, `AsksEverythingAtOnce`, `RaisedAsParsed`, `ResultsAreOwn`, `RaisedForCause`, `PartsWellFormed`, `NothingLost`, `RowsReadByMeaning`, `BooksHoldRows` |

`AskedStaysDecided`, `AnswersWithinParts`, `HandsJustified`, `RaisedAsParsed` and
`ResultsAreOwn` are parts of the inductive invariants that say something of their own; the
other properties are those of the runs. `ShutdownFinishesReplies` and `TypingUndisturbed` are
action properties.

The proofs of a module have one plan: lemmas first say what each group of actions does to the
variables a conjunct mentions, one lemma per conjunct then goes through the actions that
disturb it, and the theorems take the properties from the invariant.

**Pipeline, what is promised.** None of the properties is inductive: `Complete` writes
"completed" because a local says that a file was saved, `LearnAnswers` acts on answers in a
snapshot, `SaveAnswers` on a check made earlier. `CopiesJustified` says what these copies
guarantee although the rows have moved on: files and answers are never taken back, so a copy
can be old but not wrong in what it claims. `PipelineInv` is its conjunction with the
properties.

**Pipeline, the class of an email.** `DecisionDelivered` relates a status the handler writes at
its end to a decision it read at its start. `DecisionInv` carries this through the loop
(`LoopFollowsDecision`) and over the batch: a snapshot shows the row's status unless somebody
wrote in between (`HeldJustified`). The case that needs most is that of answers: once they are
learned the order goes back to "classified" without a look at its email, so while answers are in
a row, a snapshot or a request, the email must stay decided and the order must not be taken for
new (`AskedStaysDecided`). All three
properties speak of an email with one order; two orders write one `decision`
(`SecondOrderExplained` says when there are two).

**Refinement.** `InitMaps` and `EveryStepMaps` show that `TaskPipeline` starts and steps as
`OrderDesk` does, under a mapping of statuses to stages. Most steps stutter. A status that is
written blindly maps to a step of the desk because of what `PipelineInv` guarantees of the
copy behind it; `LearnAnswers` needs besides that answers are about the order's own parts
(`AnswersWithinParts`), which holds of a row since the page shows nothing else to answer.

**List of the inbox.** `QuestionsAreSeen` holds of any number of orders of an email. `Listed` is
the least in a total order by status and time; the proof shows from the ranks alone that
nothing precedes a question but what moves, asks or has a file.

**Ingest.** `IngestInv` describes what each goroutine holds. The step that needs most of it
is that a message becomes one order: a listed message is new (`TodoIsNew`) because an order
whose message is not marked is in the hands of a worker (`StoredIsMarked`), which can only be
this one (`OwnMailbox`, `OneWorkerPerUser`). That a done message is complete rests on the
connection: a truncated message leaves it broken, and a broken connection cannot mark.

**Refinement of the intake.** A message is "listed" if it is in some worker's list or being
saved, "settled" if some worker is about to mark it. `IngestInv` is what makes this a mapping
step by step: one goroutine per mailbox, which lists its own mailbox, so that a message has one
holder and `Take` finds all of them free; `MarkJustified` gives the guard of `Finish`, since a
message is marked over a connection that is not broken only if what was saved was all of it;
`FilesAreParsed` says that a commit stores all attachments or none. Uploads, broken
connections, ticks, starts and stops of workers stutter; the end of a round, an unread message
and a crash let messages go.

**Tokens and replies.** A refresh kills the token it uses. That it cannot kill the one a login
is about to store needs that no two holders have one refresh token (`LoginsApart`); that what
the worker saves is newer than every login it did not overlap is `RenewedIsGood`.
`PressesInOrder` says why a second press is possible at all: until its answer a request holds
the button, unless the card was rendered anew. `HandlersDone` says that the agent waits for
workers in good time only after its last handler.

**Page.** The objects the inputs write to need not be those of the list. `DraftShown` says that
what is on the screen has all that was typed, wherever it went, `ListIsRecent` that the list
has what was typed before it was loaded; from both follows that every path into the cache
(leaving an input, an answer, a new list) stores enough. The counter (`CounterCounts`) needs
that a mark whose object is live is one of an email of the list (`TypeOK`), that marking one email
changes the number of unread ones by one, and that an email archived from its card takes its mark
and, if it was unread, one from the list.

**Sheets.** `SheetsInv` says that the locals of the loop are a function of the documents read so
far: the materials and parts of all of them, their open questions, and of the document at
hand materials as if it were alone (`ElementsAreOfDocuments`), which is what parsing a shared
material anew is for (`main.py:342`). In this invariant the parser, the reader of sheets and the
writers of books stay unexpanded, so it holds for any functions in their place; what they
compute comes in by the lemmas of the next three paragraphs.

**Parser.** The modules have loops as recursive functions over positions. A fact about all
positions is proved from the least one at which it fails (`UpTo`), an induction that needs no
operator as a parameter. `ScanInv` is the invariant of the bracket scan: the open blocks are
nested, the closed ones lie within them, and every delimiter passed is marked with its innermost
block. It gives that the scan raises exactly for lines that cannot be paired (`TreeIsBalance`):
the blocks found are a pairing, and along any pairing the stack holds the brackets whose partner
is still to come, so that no symbol is wrong.
`ParseCases` lists what `_parse` can answer. A part is whole because all cuts of a split lie
in one block (`PieceBalanced`); it is blank only behind a delimiter that has nothing before it
(`BareInRaw`), since `_clean_last_p` takes away a blank one at the end. Letters stay because what
a split drops, a delimiter or a pair of brackets, is no letter (`LettersSplit`,
`LettersOfSplits`), and because the last part takes the place of the postfix only if there was
none (`LettersOfCleaned`).

**Reader of sheets.** A row of headers is compared with lists of types in a fixed order, so the
reader collects the columns in that order. Two such lists with the same types
are the same list, by the ranks of the types (`RankUnique`), and each understood header has
one among the variants (`Canonical`); with that a sheet is read exactly when
its headers are understood (`ReadsUnderstood`), and each value comes from the column under
its header (`ReadByMeaning`).

**Contents of the files.** A file that was saved is the one made of its document alone
(`ResultsAreOwn`), and of a document that raises or asks nothing (`SavedUnblocked`). The rows of
a book follow those of the sheets in the same places (`FlattenAlike`), and one row holds an
entry for each part and the sizes that were read (`RowHolds`).

**What proving showed.** `DraftKept` once excepted only the late render of a click, and TLC
agreed within three events. The proof of `DraftShown` failed at `SwitchTab`: a click on a tab
renders the object of the list again (`mail-init.js:24`), and if the typing went to the object it
replaced, the older text is shown and goes to the cache when the input is left. TLC finds this
within four events. The history variable `shadowed` now records both renders; a click on the
tab that is active already had been left out, and is an action now.

**Only model-checked** is liveness, which is outside the prover's reach: `Settles`,
`EveryMessageHandled`, `ShutdownEnds`, `MailboxServed`, `PageCatchesUp`. The properties of the
runs that expect a violation are claims the code does not keep; there is nothing to prove.

## 5. Where code and texts disagree

- `CHANGELOG.md:22` says the class can be changed at any stage. A change while the handler
  runs is overwritten by the handler's last `update_status` (`main.py:265`): the order is
  completed with the files of the old class (`class_change`).
- `queue.py:797` says archiving is possible only in three statuses. Check and update are two
  statements (`queue.py:806`), and a decision in between sends the task back to the queue;
  the email is archived while its order is being processed (`archive`).
- `README.md:9-10` promises replacement by the dictionary and clarification by the operator. An
  order with one known and one unknown part ends in an internal error after its question was
  answered: with answers at hand the dictionary is not asked (`main.py:190`, `:223`) (`answers`).
- `CHANGELOG.md:34` says that input in the fields of materials is no longer cut off while it
  is typed. A refresh whose answer comes during the editing leaves the fields alone but
  replaces the list; what is typed from then on goes to the old object and is missing from
  the answer, which is made of the new one (`mail-chat.js:331`) (`typed_input`).

Seen on the way, small enough to go without a run: the log line
`main.py:254` says "retrying" and nothing is retried; `table_processer.py:280` never runs,
and nothing needs it, since no cell is put where one is; the third header variant
(`table_processer.py:299`) matches no sheet, since headers are collected with the height before
the length: a sheet with length and height and no width is read as empty.

Five more have no text to contradict, but a place in the properties, each as an exception that
can be reached:

- a material with a delimiter before its first letter asks for a blank part, which the chat does
  not show and the endpoint refuses: alone, it leaves an order waiting for good; among others, the
  order ends in an internal error after they were answered (`ReviewAsksParts`);
- an answer longer than 255 characters is stored with the order and refused by the dictionary;
  `main_loop` fetches that order again without a pause (`main.py:485`, `:518`), and as many of them
  as a batch has places stop every other order (`Settles`);
- `parseBody` never returns from a multipart without its last boundary (`email.go:351`): the
  mailbox stands still, and a shutdown waits for that worker until Docker kills the agent
  (`EveryMessageHandled`, `ShutdownEnds`);
- an open reply form holds up the refreshes of the page under any task that has the number of its
  email, and a flag left by a card that was rendered anew does so under all (`PageCatchesUp`);
- archiving an unread email from its card does not lower the counter, and an answer that was
  posted leaves the number of all emails in its place (`CounterExplained`).

## 6. Not modelled, and the plan

The plan's modules are written: the pipeline with its abstract desk and its list, the
ingest with its abstract intake, tokens and replies, parser, tables and sheets, and the page.
What would come next:

1. An abstract specification of the tokens (the stored refresh token is one of those given out,
   and a login's stays) and its refinement by `MailTokens`.
2. The action properties of a row the proofs already use, as properties of their own: files and
   answers are never taken back, the dictionary only grows, a counter of faults is the only
   excuse.
3. Which of two delimiters that cut a line equally often `MaxDelimiter` takes, by a definition
   that does not use its own; `DelimOfBlock` proves that it takes one of the most frequent.

Left out for good: the classifier's features (arithmetic of a trained model), the regular
expressions that classify a cell, MIME decoding and the layout of sheets (formatting), downloads
(streams without state), the page of archived emails and the filters (views of the same list;
its button to take an email back runs as the one that archives), the sessions of logins, the
HTTP service under `mail/storage/cmd` and the rewrite under `shared` (started by nothing), and
the scripts, training tools and proxy configuration.
