----------------------------- MODULE MailIngest -----------------------------
(***************************************************************************)
(* The mail agent of OrdersAgent (mail/cmd/mail-agent): a supervisor that  *)
(* starts one worker per user with mail tokens, and the workers, which     *)
(* list the unread messages of a mailbox, store each as an order           *)
(* (attachments in the bucket, then one transaction for the email, its     *)
(* documents and a task) and mark it read.  The only memory of what was    *)
(* done is the \Seen flag on the IMAP server, which people set and clear   *)
(* in their own mail programs.                                             *)
(***************************************************************************)
EXTENDS Naturals, FiniteSets

CONSTANTS
    Users,
    Messages,    \* by UID
    Owner,       \* the user whose mailbox a message arrives in
    Files,       \* attachments, by object key
    FilesOf,
    Broken,      \* messages parser.ParseMessage returns an error for
    Endless,     \* messages it does not return for: a multipart without its last boundary
    Workers,     \* goroutines there may be
    NoUser,
    NoMessage,
    MaxFaults,   \* bound: calls that fail, connections that break
    MaxCrashes,  \* bound: times the agent's process is stopped or dies
    MaxTouches   \* bound: times a person sets or clears \Seen

ASSUME MailAssumption ==
    /\ NoUser \notin Users
    /\ NoMessage \notin Messages
    /\ Owner \in [Messages -> Users]
    /\ FilesOf \in [Messages -> SUBSET Files]
    /\ Broken \subseteq Messages
    /\ Endless \subseteq Messages \ Broken
    /\ MaxFaults \in Nat /\ MaxCrashes \in Nat /\ MaxTouches \in Nat

VARIABLES
    agent,      \* the process: "running", "stopping" (SIGTERM received) or "down"
    active,     \* activeWorkers
    worker,     \* the goroutines
    link,       \* imapClient of each goroutine
    authorised, \* users with mail_access_token
    mailbox,    \* messages that arrived in an INBOX
    seen,       \* messages with \Seen
    tasks,      \* rows of tasks per message
    documents,  \* rows of documents, by object key
    bucket,     \* objects of the attachments bucket
    faults, crashes, touches, \* counters against the bounds
    refused,    \* history: messages whose SaveOrder returned an error
    touched,    \* history: messages whose \Seen a person set or cleared
    interrupted \* history: messages whose MarkRead failed or never came after a save

server == <<mailbox, seen>>
tables == <<authorised, tasks, documents>>
process == <<agent, active>>
bounds == <<faults, crashes, touches>>
history == <<refused, touched, interrupted>>
vars == <<process, worker, link, server, tables, bucket, bounds, history>>

-----------------------------------------------------------------------------

\* The locals of runUserWorker and ProcessEmails: todo are the uids still to come,
\* msg the message in hand, files what was parsed of it, left what is not uploaded.
Goroutines == [user : Users \cup {NoUser},
               pc : {"free", "wait", "connect", "list", "next", "stuck", "save", "mark"},
               todo : SUBSET Messages, msg : Messages \cup {NoMessage},
               files : SUBSET Files, left : SUBSET Files]
NoWorker == [user |-> NoUser, pc |-> "free", todo |-> {}, msg |-> NoMessage,
             files |-> {}, left |-> {}]

\* A round of processOnce is over; the worker waits for its ticker.
Waiting(u) == [NoWorker EXCEPT !.user = u, !.pc = "wait"]

Set(w, locals) == worker' = [worker EXCEPT ![w] = locals]
SetLink(w, l) == link' = [link EXCEPT ![w] = l]
EndRound(w) == Set(w, Waiting(worker[w].user))

Fault ==
    /\ faults < MaxFaults
    /\ faults' = faults + 1

Touch ==
    /\ touches < MaxTouches
    /\ touches' = touches + 1

(* The world *)

Arrive(m) ==
    /\ m \notin mailbox
    /\ mailbox' = mailbox \cup {m}
    /\ UNCHANGED <<process, worker, link, seen, tables, bucket, bounds, history>>

\* auth_callback stores the tokens of a user who logs in.
LogIn(u) ==
    /\ u \notin authorised
    /\ authorised' = authorised \cup {u}
    /\ UNCHANGED <<process, worker, link, server, tasks, documents, bucket, bounds,
                   history>>

\* A person opens the message in a mail program, or marks it unread again.
PersonTouches(m) ==
    /\ m \in mailbox
    /\ Touch
    /\ seen' = IF m \in seen THEN seen \ {m} ELSE seen \cup {m}
    /\ touched' = touched \cup {m}
    /\ UNCHANGED <<process, worker, link, mailbox, tables, bucket, faults, crashes,
                   refused, interrupted>>

Disconnect(w) ==
    /\ link[w] = "live"
    /\ Fault
    /\ SetLink(w, "dead")
    /\ UNCHANGED <<process, worker, server, tables, bucket, crashes, touches, history>>

(* main: the supervisor *)

\* startNewWorkers skips the users that are already running.
UsersToStartUnchecked == authorised
UsersToStart == authorised \ active

StartWorker(u, w) ==
    /\ agent = "running"
    /\ u \in UsersToStart
    /\ worker[w].pc = "free"
    /\ active' = active \cup {u}
    /\ Set(w, [Waiting(u) EXCEPT !.pc = "connect"])
    /\ UNCHANGED <<agent, link, server, tables, bucket, bounds, history>>

\* SIGTERM: stopChan is closed, and wg.Wait waits for the workers.
Shutdown ==
    /\ agent = "running"
    /\ crashes < MaxCrashes
    /\ crashes' = crashes + 1
    /\ agent' = "stopping"
    /\ UNCHANGED <<active, worker, link, server, tables, bucket, faults, touches, history>>

\* wg.Wait counts the goroutines; the workers do not leave activeWorkers any more.
AllStoppedByMap == active = {}
AllStopped == \A w \in Workers : worker[w].pc = "free"

Exit ==
    /\ agent = "stopping"
    /\ AllStopped
    /\ agent' = "down"
    /\ active' = {}
    /\ UNCHANGED <<worker, link, server, tables, bucket, bounds, history>>

\* The process dies: a transaction that was not committed is rolled back, the
\* objects that were uploaded stay.
Crash ==
    /\ agent # "down"
    /\ crashes < MaxCrashes
    /\ crashes' = crashes + 1
    /\ agent' = "down"
    /\ active' = {}
    /\ worker' = [w \in Workers |-> NoWorker]
    /\ link' = [w \in Workers |-> "none"]
    /\ interrupted' = interrupted \cup
                        {worker[w].msg : w \in {x \in Workers : worker[x].pc = "mark"}}
    /\ UNCHANGED <<server, tables, bucket, faults, touches, refused, touched>>

Restart ==
    /\ agent = "down"
    /\ agent' = "running"
    /\ UNCHANGED <<active, worker, link, server, tables, bucket, bounds, history>>

(* runUserWorker *)

\* The ticker fires.  select may choose it although stopChan is closed.
Tick(w) ==
    /\ worker[w].pc = "wait"
    /\ Set(w, [worker[w] EXCEPT !.pc = "connect"])
    /\ UNCHANGED <<process, link, server, tables, bucket, bounds, history>>

Stop(w) ==
    /\ worker[w].pc = "wait"
    /\ agent = "stopping"
    /\ Set(w, NoWorker)
    /\ SetLink(w, "none")
    /\ UNCHANGED <<process, server, tables, bucket, bounds, history>>

\* getConnectedClient returns the cached client without looking at it.
Connect(w) ==
    /\ worker[w].pc = "connect"
    /\ Set(w, [worker[w] EXCEPT !.pc = "list"])
    /\ SetLink(w, IF link[w] = "none" THEN "live" ELSE link[w])
    /\ UNCHANGED <<process, server, tables, bucket, bounds, history>>

ConnectFails(w) ==
    /\ worker[w].pc = "connect"
    /\ link[w] = "none"
    /\ Fault
    /\ EndRound(w)
    /\ UNCHANGED <<process, link, server, tables, bucket, crashes, touches, history>>

(* ProcessEmails *)

\* FetchUnread: the uids without \Seen, as one FETCH reported them.
ListedAll(u) == {m \in mailbox : Owner[m] = u}
Listed(u) == {m \in mailbox : Owner[m] = u /\ m \notin seen}

List(w) ==
    /\ worker[w].pc = "list"
    /\ link[w] = "live"
    /\ Set(w, [worker[w] EXCEPT !.pc = "next", !.todo = Listed(worker[w].user)])
    /\ UNCHANGED <<process, link, server, tables, bucket, bounds, history>>

\* On a broken connection the error is "reconnectable" and the client is dropped.
ListFails(w) ==
    /\ worker[w].pc = "list"
    /\ \/ link[w] = "live" /\ Fault /\ UNCHANGED link
       \/ link[w] = "dead" /\ SetLink(w, "none") /\ UNCHANGED faults
    /\ EndRound(w)
    /\ UNCHANGED <<process, server, tables, bucket, crashes, touches, history>>

\* No uid is left, or stopChan is closed.
LoopEnds(w) ==
    /\ worker[w].pc = "next"
    /\ worker[w].todo = {} \/ agent = "stopping"
    /\ EndRound(w)
    /\ UNCHANGED <<process, link, server, tables, bucket, bounds, history>>

InLoop(w, m) ==
    /\ worker[w].pc = "next"
    /\ agent # "stopping"
    /\ m \in worker[w].todo

Parsed(w, m, files) ==
    Set(w, [worker[w] EXCEPT !.pc = "save", !.todo = @ \ {m}, !.msg = m,
                             !.files = files, !.left = files])

Read(w, m) ==
    /\ InLoop(w, m)
    /\ link[w] = "live"
    /\ m \notin Broken \cup Endless
    /\ Parsed(w, m, FilesOf[m])
    /\ UNCHANGED <<process, link, server, tables, bucket, bounds, history>>

\* parseBody asks for the next part again after any error but io.EOF, and its reader gives the
\* same error again for ever: the worker does nothing else until the process dies.
Stuck(w) == Set(w, [worker[w] EXCEPT !.pc = "stuck"])

ReadEndless(w, m) ==
    /\ InLoop(w, m)
    /\ link[w] = "live"
    /\ m \in Endless
    /\ Stuck(w)
    /\ UNCHANGED <<process, link, server, tables, bucket, bounds, history>>

\* The connection breaks between the envelope and the body, or inside a body of one part:
\* ParseMessage ends without an error, and the message has no attachments.  Inside a multipart
\* the rest of it is never found.
ReadTruncated(w, m) ==
    /\ InLoop(w, m)
    /\ link[w] = "live"
    /\ Fault
    /\ Parsed(w, m, {}) \/ Stuck(w)
    /\ SetLink(w, "dead")
    /\ UNCHANGED <<process, server, tables, bucket, crashes, touches, history>>

\* The message stays unread, and the loop goes on with the next one.
AfterParseErrorMark(w, m) == [worker[w] EXCEPT !.todo = @ \ {m}, !.msg = m, !.pc = "mark"]
AfterParseErrorGoesOn(w, m) == [worker[w] EXCEPT !.todo = @ \ {m}, !.pc = "save"]
AfterParseErrorStop(w, m) == Waiting(worker[w].user)
AfterParseError(w, m) == [worker[w] EXCEPT !.todo = @ \ {m}]

\* Fetch itself reports nothing: a broken connection is a message without items.
ReadFails(w, m) ==
    /\ InLoop(w, m)
    /\ m \in Broken \/ link[w] = "dead"
    /\ Set(w, AfterParseError(w, m))
    /\ UNCHANGED <<process, link, server, tables, bucket, bounds, history>>

(* SaveOrder *)

Upload(w, f) ==
    /\ worker[w].pc = "save"
    /\ f \in worker[w].left
    /\ bucket' = bucket \cup {f}
    /\ Set(w, [worker[w] EXCEPT !.left = @ \ {f}])
    /\ UNCHANGED <<process, link, server, tables, bounds, history>>

UploadedSoFar(w) == worker[w].pc = "save"
Uploaded(w) == worker[w].pc = "save" /\ worker[w].left = {}

\* The email is upserted, the documents and the task are inserted, and all is
\* committed; HasEmail is never asked.
Commit(w) ==
    LET m == worker[w].msg
    IN  /\ Uploaded(w)
        /\ tasks' = [tasks EXCEPT ![m] = @ + 1]
        /\ documents' = documents \cup worker[w].files
        /\ Set(w, [worker[w] EXCEPT !.pc = "mark"])
        /\ UNCHANGED <<process, link, server, authorised, bucket, bounds, history>>

\* An upload, a statement or the commit fails: everything is rolled back but the
\* uploads, the error is logged, and the message is marked read all the same.
SaveFails(w) ==
    /\ worker[w].pc = "save"
    /\ Fault
    /\ refused' = refused \cup {worker[w].msg}
    /\ Set(w, [worker[w] EXCEPT !.pc = "mark"])
    /\ UNCHANGED <<process, link, server, tables, bucket, crashes, touches, touched,
                   interrupted>>

(* MarkRead *)

Mark(w) ==
    /\ worker[w].pc = "mark"
    /\ link[w] = "live"
    /\ seen' = seen \cup {worker[w].msg}
    /\ Set(w, [worker[w] EXCEPT !.pc = "next", !.msg = NoMessage, !.files = {}])
    /\ UNCHANGED <<process, link, mailbox, tables, bucket, bounds, history>>

\* On a broken connection the round ends and the client is dropped.
AfterMarkErrorRetry(w) == SetLink(w, "live") /\ UNCHANGED worker
AfterMarkError(w) == SetLink(w, "none") /\ EndRound(w)

MarkFails(w) ==
    /\ worker[w].pc = "mark"
    /\ interrupted' = interrupted \cup {worker[w].msg}
    /\ \/ /\ link[w] = "dead"
          /\ AfterMarkError(w)
          /\ UNCHANGED faults
       \/ /\ link[w] = "live"
          /\ Fault
          /\ Set(w, [worker[w] EXCEPT !.pc = "next", !.msg = NoMessage, !.files = {}])
          /\ UNCHANGED link
    /\ UNCHANGED <<process, server, tables, bucket, crashes, touches, refused, touched>>

-----------------------------------------------------------------------------

Init ==
    /\ agent = "running"
    /\ active = {}
    /\ worker = [w \in Workers |-> NoWorker]
    /\ link = [w \in Workers |-> "none"]
    /\ authorised = {}
    /\ mailbox = {}
    /\ seen = {}
    /\ tasks = [m \in Messages |-> 0]
    /\ documents = {}
    /\ bucket = {}
    /\ faults = 0 /\ crashes = 0 /\ touches = 0
    /\ refused = {} /\ touched = {} /\ interrupted = {}

\* A step of runUserWorker other than leaving it; failures of a connection that is
\* broken already are part of it.
Round(w) ==
    \/ Tick(w) \/ Connect(w) \/ List(w) \/ LoopEnds(w)
    \/ \E m \in Messages : Read(w, m) \/ ReadEndless(w, m) \/ ReadFails(w, m)
    \/ \E f \in Files : Upload(w, f)
    \/ Commit(w) \/ Mark(w)
    \/ ListFails(w) \/ MarkFails(w)

Failure(w) ==
    \/ Disconnect(w) \/ ConnectFails(w) \/ SaveFails(w)
    \/ \E m \in Messages : ReadTruncated(w, m)

World ==
    \/ \E m \in Messages : Arrive(m) \/ PersonTouches(m)
    \/ \E u \in Users : LogIn(u)

Next ==
    \/ World
    \/ \E u \in Users, w \in Workers : StartWorker(u, w)
    \/ \E w \in Workers : Round(w) \/ Failure(w) \/ Stop(w)
    \/ Shutdown \/ Exit \/ Crash \/ Restart

Spec == Init /\ [][Next]_vars

\* The supervisor's and the workers' tickers keep firing and the container restarts.
\* select chooses at random, so a closed stopChan is not passed over forever.  A round goes on
\* as long as it has a step: a worker that is stuck has none.
Fairness ==
    /\ WF_vars(Exit)
    /\ WF_vars(Restart)
    /\ WF_vars(\E u \in Users, w \in Workers : StartWorker(u, w))
    /\ \A w \in Workers : WF_vars(Round(w)) /\ SF_vars(Stop(w))

FairSpec == Spec /\ Fairness

-----------------------------------------------------------------------------
(* Properties                                                               *)

TypeOK ==
    /\ agent \in {"running", "stopping", "down"}
    /\ active \subseteq Users
    /\ worker \in [Workers -> Goroutines]
    /\ \A w \in Workers : worker[w].pc \in {"save", "mark"} => worker[w].msg \in Messages
    /\ link \in [Workers -> {"none", "live", "dead"}]
    /\ authorised \subseteq Users
    /\ mailbox \subseteq Messages
    /\ seen \subseteq Messages
    /\ tasks \in [Messages -> Nat]
    /\ documents \subseteq Files
    /\ bucket \subseteq Files
    /\ faults \in Nat /\ crashes \in Nat /\ touches \in Nat
    /\ refused \subseteq Messages
    /\ touched \subseteq Messages
    /\ interrupted \subseteq Messages

\* A message is taken for done without an order only if its save was refused (the error
\* is logged and the message marked read) or a person touched the flag: no crash,
\* broken connection, parse error or shutdown loses one.
SeenIsStored ==
    \A m \in seen : tasks[m] > 0 \/ m \in refused \/ m \in touched

\* A message that is done has all its attachments, although one that was read over a
\* breaking connection is stored without them first.
SeenIsComplete ==
    \A m \in seen :
        m \notin refused /\ m \notin touched => FilesOf[m] \subseteq documents

\* A message becomes a second order only if MarkRead failed or a crash came before it, or
\* a person marked it unread: never because two workers serve one mailbox.
SecondOrderExplained ==
    \A m \in Messages :
        tasks[m] > 1 => m \in interrupted \/ m \in touched

\* The processor never meets a document whose object is not there.
DocumentsAreStored == documents \subseteq bucket

\* Each user has one worker.
OneWorkerPerUser ==
    \A v, w \in Workers :
        worker[v].pc # "free" /\ worker[w].pc # "free" /\ worker[v].user = worker[w].user
        => v = w

StuckFor(u) == \E w \in Workers : worker[w].user = u /\ worker[w].pc = "stuck"

\* A shutdown under way that wg.Wait does not let end.
Hangs == agent = "stopping" /\ \E u \in Users : StuckFor(u)

\* A message that can be parsed, in the mailbox of a user who logged in, is at last done,
\* whatever else is in the mailboxes: messages ParseMessage refuses are met in every round and
\* never keep the others from their turn (worker.go:172).  Only one that it does not come back
\* from does, in the same mailbox, or in any if the agent is to be stopped (email.go:346).
EveryMessageHandled ==
    \A m \in Messages \ (Broken \cup Endless) :
        m \in mailbox /\ Owner[m] \in authorised
          ~> m \in seen \/ m \in touched \/ StuckFor(Owner[m]) \/ Hangs

\* A shutdown ends: wg.Wait waits for no worker that does not look at stopChan, unless that is
\* kept by a message ParseMessage does not come back from (main.go:267, email.go:346).
ShutdownEnds == agent = "stopping" ~> agent = "down" \/ Hangs

=============================================================================
