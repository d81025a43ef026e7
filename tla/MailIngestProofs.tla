-------------------------- MODULE MailIngestProofs --------------------------
(* The safety properties of MailIngest, proved for every set of users,      *)
(* messages and goroutines and every bound.                                 *)
EXTENDS MailIngestIntake, TLAPS

(* Types: the actions by what they write *)

\* No action of the world, of the supervisor or of a failing connection breaks a type.
LEMMA WorldType ==
    ASSUME TypeOK, World PROVE TypeOK'
<1> USE DEF TypeOK, process, server, tables, bounds, history
<1>1. ASSUME NEW m \in Messages, Arrive(m) PROVE TypeOK'
  BY <1>1 DEF Arrive
<1>2. ASSUME NEW m \in Messages, PersonTouches(m) PROVE TypeOK'
  BY <1>2 DEF PersonTouches, Touch
<1>3. ASSUME NEW u \in Users, LogIn(u) PROVE TypeOK'
  BY <1>3 DEF LogIn
<1> QED BY <1>1, <1>2, <1>3 DEF World

LEMMA NoWorkerType == NoWorker \in Goroutines
BY DEF NoWorker, Goroutines

LEMMA WaitingType ==
    ASSUME NEW u \in Users \cup {NoUser}
    PROVE  /\ Waiting(u) \in Goroutines
           /\ Waiting(u).user = u /\ Waiting(u).pc = "wait" /\ Waiting(u).todo = {}
BY DEF Waiting, NoWorker, Goroutines

LEMMA SupervisorType ==
    ASSUME TypeOK,
           \/ \E u \in Users, w \in Workers : StartWorker(u, w)
           \/ Shutdown \/ Exit \/ Crash \/ Restart
    PROVE  TypeOK'
<1> USE DEF TypeOK, process, server, tables, bounds, history
<1>1. ASSUME NEW u \in Users, NEW w \in Workers, StartWorker(u, w) PROVE TypeOK'
  <2>1. [Waiting(u) EXCEPT !.pc = "connect"] \in Goroutines
    BY DEF Waiting, NoWorker, Goroutines
  <2>2. [Waiting(u) EXCEPT !.pc = "connect"].pc = "connect"
    BY DEF Waiting, NoWorker
  <2> QED BY <1>1, <2>1, <2>2, MailAssumption DEF StartWorker, Set, UsersToStart
<1>2. CASE Shutdown
  BY <1>2 DEF Shutdown
<1>3. CASE Exit
  BY <1>3 DEF Exit
<1>4. CASE Crash
  <2>1. worker' \in [Workers -> Goroutines]
    BY <1>4, NoWorkerType DEF Crash
  <2>2. \A w \in Workers : worker'[w].pc = "free"
    BY <1>4 DEF Crash, NoWorker
  <2>3. interrupted' \subseteq Messages
    BY <1>4 DEF Crash
  <2> QED BY <1>4, <2>1, <2>2, <2>3 DEF Crash
<1>5. CASE Restart
  BY <1>5 DEF Restart
<1> QED BY <1>1, <1>2, <1>3, <1>4, <1>5

\* A step of worker w that gives it well-typed locals, and touches no other worker.
LEMMA LocalsType ==
    ASSUME TypeOK, NEW w \in Workers, NEW g \in Goroutines,
           g.pc \in {"save", "mark"} => g.msg \in Messages,
           Set(w, g)
    PROVE  /\ worker' \in [Workers -> Goroutines]
           /\ \A v \in Workers : worker'[v].pc \in {"save", "mark"} => worker'[v].msg \in Messages
BY DEF TypeOK, Set

\* The locals a worker gets in each of its steps.
LEMMA NewLocals ==
    ASSUME NEW g \in Goroutines
    PROVE  /\ [g EXCEPT !.pc = "connect"] \in Goroutines
           /\ [g EXCEPT !.pc = "connect"].pc = "connect"
           /\ [g EXCEPT !.pc = "list"] \in Goroutines
           /\ [g EXCEPT !.pc = "list"].pc = "list"
           /\ [g EXCEPT !.pc = "stuck"] \in Goroutines
           /\ [g EXCEPT !.pc = "stuck"].pc = "stuck"
           /\ [g EXCEPT !.pc = "stuck"].todo = g.todo
           /\ [g EXCEPT !.pc = "stuck"].user = g.user
           /\ [g EXCEPT !.pc = "mark"] \in Goroutines
           /\ [g EXCEPT !.pc = "mark"].msg = g.msg
           /\ [g EXCEPT !.pc = "next", !.msg = NoMessage, !.files = {}] \in Goroutines
           /\ [g EXCEPT !.pc = "next", !.msg = NoMessage, !.files = {}].pc = "next"
           /\ \A todo \in SUBSET Messages :
                 /\ [g EXCEPT !.pc = "next", !.todo = todo] \in Goroutines
                 /\ [g EXCEPT !.pc = "next", !.todo = todo].pc = "next"
BY DEF Goroutines

LEMMA WorkerType ==
    ASSUME TypeOK, NEW w \in Workers, Round(w) \/ Failure(w) \/ Stop(w)
    PROVE  TypeOK'
<1> USE DEF process, server, tables, bounds, history
<1> DEFINE New(g) == Set(w, g) /\ g \in Goroutines
                     /\ (g.pc \in {"save", "mark"} => g.msg \in Messages)
<1>0. /\ worker[w] \in Goroutines
      /\ worker[w].pc \in {"save", "mark"} => worker[w].msg \in Messages
      /\ Waiting(worker[w].user) \in Goroutines
      /\ Waiting(worker[w].user).pc = "wait"
  BY WaitingType DEF TypeOK, Goroutines
<1>1. CASE Tick(w)
  <2>1. New([worker[w] EXCEPT !.pc = "connect"])
    BY <1>0, <1>1, NewLocals DEF Tick
  <2> QED BY <1>1, <2>1, LocalsType DEF Tick, TypeOK
<1>2. CASE Connect(w)
  <2>1. New([worker[w] EXCEPT !.pc = "list"])
    BY <1>0, <1>2, NewLocals DEF Connect
  <2> QED BY <1>2, <2>1, LocalsType DEF Connect, TypeOK, SetLink
<1>3. CASE List(w)
  <2>1. Listed(worker[w].user) \in SUBSET Messages
    BY DEF Listed, TypeOK
  <2>2. New([worker[w] EXCEPT !.pc = "next", !.todo = Listed(worker[w].user)])
    BY <1>0, <1>3, <2>1, NewLocals DEF List
  <2> QED BY <1>3, <2>2, LocalsType DEF List, TypeOK
<1>4. CASE LoopEnds(w)
  <2>1. New(Waiting(worker[w].user))
    BY <1>0, <1>4 DEF LoopEnds, EndRound
  <2> QED BY <1>4, <2>1, LocalsType DEF LoopEnds, TypeOK
<1>5. ASSUME NEW m \in Messages, NEW files \in SUBSET Files, Parsed(w, m, files)
      PROVE  /\ worker' \in [Workers -> Goroutines]
             /\ \A v \in Workers :
                   worker'[v].pc \in {"save", "mark"} => worker'[v].msg \in Messages
  <2> DEFINE g == [worker[w] EXCEPT !.pc = "save", !.todo = @ \ {m}, !.msg = m,
                                    !.files = files, !.left = files]
  <2>1. g \in Goroutines /\ g.msg = m
    BY <1>0 DEF Goroutines
  <2>2. Set(w, g)
    BY <1>5 DEF Parsed
  <2> HIDE DEF g
  <2> QED BY <2>1, <2>2, LocalsType
<1>6. ASSUME NEW m \in Messages, Read(w, m) PROVE TypeOK'
  <2>1. FilesOf[m] \in SUBSET Files
    BY MailAssumption
  <2> QED BY <1>5, <1>6, <2>1 DEF Read, TypeOK
<1>7. ASSUME NEW m \in Messages, ReadFails(w, m) PROVE TypeOK'
  <2>1. AfterParseError(w, m) \in Goroutines /\ AfterParseError(w, m).pc = "next"
    BY <1>0, <1>7 DEF ReadFails, InLoop, AfterParseError, Goroutines
  <2>2. Set(w, AfterParseError(w, m))
    BY <1>7 DEF ReadFails
  <2> QED BY <1>7, <2>1, <2>2, LocalsType DEF ReadFails, TypeOK
<1>8. ASSUME NEW f \in Files, Upload(w, f) PROVE TypeOK'
  <2> DEFINE g == [worker[w] EXCEPT !.left = @ \ {f}]
  <2>1. g \in Goroutines /\ g.msg = worker[w].msg
    BY <1>0 DEF Goroutines
  <2>2. Set(w, g) /\ worker[w].msg \in Messages
    BY <1>0, <1>8 DEF Upload
  <2> HIDE DEF g
  <2> QED BY <1>8, <2>1, <2>2, LocalsType DEF Upload, TypeOK
<1>9. CASE Commit(w)
  <2>1. New([worker[w] EXCEPT !.pc = "mark"])
    BY <1>0, <1>9, NewLocals DEF Commit, Uploaded
  <2>2. worker[w].files \subseteq Files
    BY <1>0 DEF Goroutines
  <2>3. tasks' = [tasks EXCEPT ![worker[w].msg] = @ + 1] /\ worker[w].msg \in Messages
    BY <1>0, <1>9 DEF Commit, Uploaded
  <2>4. tasks' \in [Messages -> Nat]
    BY <2>3 DEF TypeOK
  <2>5. documents' \subseteq Files
    BY <1>9, <2>2 DEF Commit, TypeOK
  <2>6. /\ worker' \in [Workers -> Goroutines]
        /\ \A v \in Workers : worker'[v].pc \in {"save", "mark"} => worker'[v].msg \in Messages
    BY <2>1, LocalsType
  <2> QED BY <1>9, <2>4, <2>5, <2>6 DEF Commit, TypeOK
<1>10. CASE Mark(w)
  <2>1. New([worker[w] EXCEPT !.pc = "next", !.msg = NoMessage, !.files = {}])
    BY <1>0, <1>10, NewLocals DEF Mark
  <2> QED BY <1>0, <1>10, <2>1, LocalsType DEF Mark, TypeOK
<1>11. CASE ListFails(w)
  <2>1. New(Waiting(worker[w].user))
    BY <1>0, <1>11 DEF ListFails, EndRound
  <2> QED BY <1>11, <2>1, LocalsType DEF ListFails, Fault, SetLink, TypeOK
<1>12. CASE MarkFails(w)
  <2>1. \E g \in Goroutines : New(g)
    <3>1. CASE AfterMarkError(w)
      BY <1>0, <3>1 DEF AfterMarkError, EndRound
    <3>2. CASE Set(w, [worker[w] EXCEPT !.pc = "next", !.msg = NoMessage, !.files = {}])
      BY <1>0, <3>2, NewLocals
    <3> QED BY <1>12, <3>1, <3>2 DEF MarkFails
  <2>2. faults' \in Nat /\ link' \in [Workers -> {"none", "live", "dead"}]
    BY <1>12 DEF MarkFails, AfterMarkError, Fault, SetLink, TypeOK
  <2> QED BY <1>0, <1>12, <2>1, <2>2, LocalsType DEF MarkFails, TypeOK
<1>13. CASE Disconnect(w)
  BY <1>13 DEF Disconnect, Fault, SetLink, TypeOK
<1>14. CASE ConnectFails(w)
  <2>1. New(Waiting(worker[w].user))
    BY <1>0, <1>14 DEF ConnectFails, EndRound
  <2> QED BY <1>14, <2>1, LocalsType DEF ConnectFails, Fault, TypeOK
<1>15. CASE SaveFails(w)
  <2>1. New([worker[w] EXCEPT !.pc = "mark"])
    BY <1>0, <1>15, NewLocals DEF SaveFails
  <2>2. faults' \in Nat /\ refused' \subseteq Messages
    BY <1>0, <1>15 DEF SaveFails, Fault, TypeOK
  <2>3. /\ worker' \in [Workers -> Goroutines]
        /\ \A v \in Workers : worker'[v].pc \in {"save", "mark"} => worker'[v].msg \in Messages
    BY <2>1, LocalsType
  <2> QED BY <1>15, <2>2, <2>3 DEF SaveFails, TypeOK
<1>16. ASSUME NEW m \in Messages, ReadTruncated(w, m) \/ ReadEndless(w, m) PROVE TypeOK'
  <2>1. ASSUME Stuck(w)
        PROVE  /\ worker' \in [Workers -> Goroutines]
               /\ \A v \in Workers :
                     worker'[v].pc \in {"save", "mark"} => worker'[v].msg \in Messages
    BY <1>0, <2>1, NewLocals, LocalsType DEF Stuck
  <2> QED BY <1>5, <1>16, <2>1 DEF ReadTruncated, ReadEndless, Fault, SetLink, TypeOK
<1>17. CASE Stop(w)
  <2>1. New(NoWorker)
    BY <1>17, NoWorkerType DEF Stop, NoWorker
  <2> QED BY <1>17, <2>1, LocalsType DEF Stop, SetLink, TypeOK
<1> QED
  BY <1>1, <1>2, <1>3, <1>4, <1>6, <1>7, <1>8, <1>9, <1>10, <1>11, <1>12, <1>13,
     <1>14, <1>15, <1>16, <1>17 DEF Round, Failure

LEMMA NextType == TypeOK /\ [Next]_vars => TypeOK'
<1> SUFFICES ASSUME TypeOK, [Next]_vars PROVE TypeOK'
  OBVIOUS
<1>1. CASE UNCHANGED vars
  BY <1>1 DEF TypeOK, vars, process, server, tables, bounds, history
<1>2. CASE Next
  BY <1>2, WorldType, SupervisorType, WorkerType DEF Next
<1> QED BY <1>1, <1>2

LEMMA InitType == Init => TypeOK
BY NoWorkerType DEF Init, TypeOK, NoWorker

\* Every variable keeps its type; a message that is being saved or marked is one.
THEOREM IngestTypeCorrect == Spec => []TypeOK
BY InitType, NextType, PTL DEF Spec

-----------------------------------------------------------------------------
(* Who writes what *)

\* Orders and documents are written by Commit alone.
LEMMA TablesWritten ==
    ASSUME [Next]_vars
    PROVE  UNCHANGED <<tasks, documents>> \/ \E w \in Workers : Commit(w)
BY DEF Next, World, Round, Failure, Arrive, LogIn, PersonTouches, Disconnect, StartWorker,
       Shutdown, Exit, Crash, Restart, Tick, Stop, Connect, ConnectFails, List, ListFails,
       LoopEnds, Read, ReadEndless, ReadTruncated, ReadFails, Upload, SaveFails, Mark, MarkFails,
       vars, process, server, tables, bounds, history

\* \Seen is written by Mark and by people.
LEMMA SeenWritten ==
    ASSUME [Next]_vars
    PROVE  \/ UNCHANGED seen
           \/ \E w \in Workers : Mark(w)
           \/ \E m \in Messages : PersonTouches(m)
BY DEF Next, World, Round, Failure, Arrive, LogIn, Disconnect, StartWorker,
       Shutdown, Exit, Crash, Restart, Tick, Stop, Connect, ConnectFails, List, ListFails,
       LoopEnds, Read, ReadEndless, ReadTruncated, ReadFails, Upload, Commit, SaveFails, MarkFails,
       vars, process, server, tables, bounds, history

\* What is stored, uploaded or remembered is never taken back.
Grows ==
    /\ bucket \subseteq bucket'
    /\ documents \subseteq documents'
    /\ refused \subseteq refused'
    /\ touched \subseteq touched'
    /\ interrupted \subseteq interrupted'
    /\ \A m \in Messages : tasks[m] <= tasks'[m]

LEMMA Growth == TypeOK /\ [Next]_vars => Grows
<1> SUFFICES ASSUME TypeOK, [Next]_vars PROVE Grows
  OBVIOUS
<1>1. /\ bucket \subseteq bucket'
      /\ refused \subseteq refused'
      /\ touched \subseteq touched'
      /\ interrupted \subseteq interrupted'
  BY DEF Next, World, Round, Failure, Arrive, LogIn, PersonTouches, Disconnect, StartWorker,
         Shutdown, Exit, Crash, Restart, Tick, Stop, Connect, ConnectFails, List, ListFails,
         LoopEnds, Read, ReadEndless, ReadTruncated, ReadFails, Upload, Commit, SaveFails, Mark,
         MarkFails, vars, process, server, tables, bounds, history
<1>2. CASE UNCHANGED <<tasks, documents>>
  BY <1>1, <1>2 DEF Grows, TypeOK
<1>3. ASSUME NEW w \in Workers, Commit(w) PROVE Grows
  <2>1. documents \subseteq documents'
    BY <1>3 DEF Commit
  <2>2. tasks' = [tasks EXCEPT ![worker[w].msg] = @ + 1]
    BY <1>3 DEF Commit
  <2>3. ASSUME NEW m \in Messages PROVE tasks[m] <= tasks'[m]
    BY <2>2 DEF TypeOK
  <2> QED BY <1>1, <2>1, <2>3 DEF Grows
<1> QED BY <1>2, <1>3, TablesWritten

-----------------------------------------------------------------------------
(* One worker per user *)

\* Within a round a worker serves the user it was started for.
LEMMA UserKept ==
    ASSUME TypeOK, NEW w \in Workers, Round(w) \/ Failure(w)
    PROVE  /\ \A v \in Workers : worker'[v].user = worker[v].user
           /\ \A v \in Workers : (worker'[v].pc = "free") <=> (worker[v].pc = "free")
           /\ \A v \in Workers \ {w} : worker'[v] = worker[v] /\ link'[v] = link[v]
           /\ UNCHANGED process
<1> USE DEF TypeOK, Goroutines, Set, SetLink, EndRound, Waiting, NoWorker, process
<1>1. CASE Tick(w)
  BY <1>1 DEF Tick
<1>2. CASE Connect(w)
  BY <1>2 DEF Connect
<1>3. CASE List(w)
  BY <1>3 DEF List
<1>4. CASE LoopEnds(w)
  BY <1>4 DEF LoopEnds
<1>5. CASE \E m \in Messages : Read(w, m)
  BY <1>5 DEF Read, InLoop, Parsed
<1>6. CASE \E m \in Messages : ReadFails(w, m)
  BY <1>6 DEF ReadFails, InLoop, AfterParseError
<1>7. CASE \E f \in Files : Upload(w, f)
  BY <1>7 DEF Upload
<1>8. CASE Commit(w)
  BY <1>8 DEF Commit, Uploaded
<1>9. CASE Mark(w)
  BY <1>9 DEF Mark
<1>10. CASE ListFails(w)
  BY <1>10 DEF ListFails
<1>11. CASE MarkFails(w)
  <2>1. CASE AfterMarkError(w)
    BY <1>11, <2>1 DEF MarkFails, AfterMarkError
  <2>2. CASE UNCHANGED link /\ Set(w, [worker[w] EXCEPT !.pc = "next", !.msg = NoMessage,
                                                       !.files = {}])
    BY <1>11, <2>2 DEF MarkFails
  <2> QED BY <1>11, <2>1, <2>2 DEF MarkFails
<1>12. CASE Disconnect(w)
  BY <1>12 DEF Disconnect
<1>13. CASE ConnectFails(w)
  BY <1>13 DEF ConnectFails
<1>14. CASE SaveFails(w)
  BY <1>14 DEF SaveFails
<1>15. CASE \E m \in Messages : ReadTruncated(w, m) \/ ReadEndless(w, m)
  <2>1. PICK m \in Messages : ReadTruncated(w, m) \/ ReadEndless(w, m)
    BY <1>15
  <2>2. CASE Stuck(w)
    BY <2>1, <2>2 DEF ReadTruncated, ReadEndless, InLoop, Stuck
  <2>3. CASE Parsed(w, m, {})
    BY <2>1, <2>3 DEF ReadTruncated, ReadEndless, InLoop, Parsed
  <2> QED BY <2>1, <2>2, <2>3 DEF ReadTruncated, ReadEndless
<1> QED
  BY <1>1, <1>2, <1>3, <1>4, <1>5, <1>6, <1>7, <1>8, <1>9, <1>10, <1>11, <1>12, <1>13,
     <1>14, <1>15 DEF Round, Failure

LEMMA OneWorkerStep ==
    ASSUME TypeOK, OneWorkerPerUser, WorkersActive, [Next]_vars
    PROVE  OneWorkerPerUser' /\ WorkersActive'
<1> USE DEF OneWorkerPerUser, WorkersActive, Running
<1>1. CASE UNCHANGED <<worker, process>>
  BY <1>1 DEF process
<1>2. ASSUME NEW u \in Users, NEW w \in Workers, StartWorker(u, w)
      PROVE  OneWorkerPerUser' /\ WorkersActive'
  <2>1. /\ worker'[w].user = u
        /\ \A v \in Workers \ {w} : worker'[v] = worker[v]
        /\ u \notin active /\ active' = active \cup {u} /\ agent' = "running"
    BY <1>2 DEF StartWorker, Set, Waiting, NoWorker, UsersToStart, TypeOK
  <2> QED BY <2>1
<1>3. CASE Exit
  BY <1>3 DEF Exit, AllStopped
<1>4. CASE Crash
  BY <1>4 DEF Crash, NoWorker
<1>5. ASSUME NEW w \in Workers, Round(w) \/ Failure(w)
      PROVE  OneWorkerPerUser' /\ WorkersActive'
  BY <1>5, UserKept DEF process
<1>6. ASSUME NEW w \in Workers, Stop(w)
      PROVE  OneWorkerPerUser' /\ WorkersActive'
  <2>1. /\ worker'[w].pc = "free"
        /\ \A v \in Workers \ {w} : worker'[v] = worker[v]
        /\ UNCHANGED process
    BY <1>6 DEF Stop, Set, NoWorker, TypeOK
  <2> QED BY <2>1 DEF process
<1>7. CASE Shutdown \/ Restart
  BY <1>7 DEF Shutdown, Restart
<1>8. CASE World
  BY <1>1, <1>8 DEF World, Arrive, LogIn, PersonTouches
<1>9. CASE UNCHANGED vars
  BY <1>1, <1>9 DEF vars
<1> QED BY <1>2, <1>3, <1>4, <1>5, <1>6, <1>7, <1>8, <1>9 DEF Next

-----------------------------------------------------------------------------
(* What the workers hold *)

\* A worker that does not move keeps a justified hand: nothing is taken back, and orders
\* are only added to other mailboxes.
LEMMA HandKept ==
    ASSUME TypeOK, Grows, NEW v \in Workers, HandJustified(v),
           worker'[v] = worker[v], link'[v] = link[v],
           \A m \in Messages : worker[v].pc # "free" /\ Owner[m] = worker[v].user
                                => tasks'[m] = tasks[m]
    PROVE  HandJustified(v)'
<1>0. /\ worker[v].todo \subseteq Messages
      /\ worker[v].pc \in {"save", "mark"} => worker[v].msg \in Messages
  BY DEF TypeOK, Goroutines
<1>1. OwnMailbox(v)'
  BY DEF HandJustified, OwnMailbox
<1>2. ASSUME NEW m \in Messages, worker[v].pc # "free", Owner[m] = worker[v].user, NotStoredYet(m)
      PROVE  NotStoredYet(m)'
  BY <1>2 DEF NotStoredYet, Grows
<1>3. TodoIsNew(v)'
  BY <1>0, <1>2 DEF HandJustified, OwnMailbox, TodoIsNew
<1>4. SaveJustified(v)'
  BY <1>0, <1>2 DEF HandJustified, OwnMailbox, SaveJustified, Grows
<1>5. MarkJustified(v)'
  <2>1. CASE worker[v].pc = "mark"
    <3>1. tasks'[worker[v].msg] = tasks[worker[v].msg]
      BY <1>0, <2>1 DEF HandJustified, OwnMailbox
    <3> QED BY <2>1, <3>1 DEF HandJustified, MarkJustified, Grows
  <2> QED BY <2>1 DEF MarkJustified
<1> QED BY <1>1, <1>3, <1>4, <1>5 DEF HandJustified

\* A worker that has nothing in hand is justified.
LEMMA EmptyHand ==
    ASSUME NEW v \in Workers, worker'[v].pc \in {"free", "wait", "connect", "list"},
           worker'[v].todo = {}
    PROVE  HandJustified(v)'
BY DEF HandJustified, OwnMailbox, TodoIsNew, SaveJustified, MarkJustified

\* Orders are added only to the mailbox of the worker that moves, which is no one else's.
LEMMA OthersKept ==
    ASSUME TypeOK, OneWorkerPerUser, HandsJustified, Grows,
           NEW w \in Workers, Round(w) \/ Failure(w), NEW v \in Workers \ {w}
    PROVE  HandJustified(v)'
<1>1. worker'[v] = worker[v] /\ link'[v] = link[v] /\ HandJustified(v)
  BY UserKept DEF HandsJustified
<1>2. CASE UNCHANGED tasks
  BY <1>1, <1>2, HandKept
<1>3. CASE Commit(w)
  <2>1. worker[w].pc = "save" /\ Owner[worker[w].msg] = worker[w].user
    BY <1>3 DEF Commit, Uploaded, HandsJustified, HandJustified, OwnMailbox
  <2>2. ASSUME NEW m \in Messages, worker[v].pc # "free", Owner[m] = worker[v].user
        PROVE  m # worker[w].msg
    BY <2>1, <2>2 DEF OneWorkerPerUser
  <2>3. tasks' = [tasks EXCEPT ![worker[w].msg] = @ + 1]
    BY <1>3 DEF Commit
  <2>4. ASSUME NEW m \in Messages, worker[v].pc # "free", Owner[m] = worker[v].user
        PROVE  tasks'[m] = tasks[m]
    BY <2>2, <2>3, <2>4 DEF TypeOK
  <2> QED BY <1>1, <2>4, HandKept
<1>4. UNCHANGED tasks \/ Commit(w)
  BY DEF Round, Failure, Disconnect, Tick, Connect, ConnectFails, List, ListFails,
         LoopEnds, Read, ReadEndless, ReadTruncated, ReadFails, Upload, SaveFails, Mark, MarkFails, tables
<1> QED BY <1>2, <1>3, <1>4

\* A listed message has no order yet: if it had, it would be read, or in the hands of
\* another worker of the same mailbox.
LEMMA ListedIsNew ==
    ASSUME TypeOK, OneWorkerPerUser, HandsJustified, NEW w \in Workers, worker[w].pc = "list",
           NEW m \in Listed(worker[w].user)
    PROVE  NotStoredYet(m)
<1>1. m \in Messages /\ Owner[m] = worker[w].user /\ m \notin seen
  BY DEF Listed, TypeOK
<1>2. ASSUME NEW v \in Workers, worker[v].pc = "mark", worker[v].msg = m PROVE FALSE
  <2>1. worker[v].user = worker[w].user
    BY <1>1, <1>2 DEF HandsJustified, HandJustified, OwnMailbox
  <2>2. v = w
    BY <1>2, <2>1 DEF OneWorkerPerUser
  <2> QED BY <1>2, <2>2
<1>3. ~(tasks[m] > 0) => tasks[m] = 0
  BY <1>1 DEF TypeOK
<1> QED BY <1>1, <1>2, <1>3 DEF HandsJustified, StoredIsMarked, NotStoredYet

\* A message that was read from the mailbox, with the attachments that came with it.
LEMMA ParsedHand ==
    ASSUME TypeOK, HandsJustified, NEW w \in Workers, NEW m \in worker[w].todo,
           NEW files \in SUBSET Files, Parsed(w, m, files),
           files = FilesOf[m] \/ link'[w] = "dead",
           UNCHANGED <<tasks, interrupted, touched>>
    PROVE  HandJustified(w)'
<1>1. /\ worker'[w].pc = "save" /\ worker'[w].msg = m /\ worker'[w].todo = worker[w].todo \ {m}
      /\ worker'[w].files = files /\ worker'[w].left = files
      /\ worker'[w].user = worker[w].user
  BY DEF Parsed, Set, TypeOK, Goroutines
<1>2. \A n \in worker[w].todo : Owner[n] = worker[w].user /\ NotStoredYet(n)'
  BY DEF HandsJustified, HandJustified, OwnMailbox, TodoIsNew, NotStoredYet
<1> QED
  BY <1>1, <1>2 DEF HandJustified, OwnMailbox, TodoIsNew, SaveJustified, MarkJustified

\* A worker that goes on with its next message, or cannot.
LEMMA NextHand ==
    ASSUME HandsJustified, NEW w \in Workers, worker'[w].pc \in {"next", "stuck"},
           worker'[w].user = worker[w].user, worker'[w].todo \subseteq worker[w].todo,
           tasks' = tasks, interrupted \subseteq interrupted', touched \subseteq touched'
    PROVE  HandJustified(w)'
BY DEF HandsJustified, HandJustified, OwnMailbox, TodoIsNew, NotStoredYet, SaveJustified,
       MarkJustified

\* A worker that goes on to mark its message.
LEMMA MarkHand ==
    ASSUME TypeOK, HandsJustified, NEW w \in Workers, worker[w].pc = "save",
           worker' = [worker EXCEPT ![w] = [worker[w] EXCEPT !.pc = "mark"]],
           UNCHANGED <<interrupted, touched>>,
           \A m \in worker[w].todo : tasks'[m] = tasks[m],
           MarkJustified(w)'
    PROVE  HandJustified(w)'
<1>1. /\ worker'[w].pc = "mark" /\ worker'[w].msg = worker[w].msg
      /\ worker'[w].user = worker[w].user /\ worker'[w].todo = worker[w].todo
  BY DEF TypeOK, Goroutines
<1> QED
  BY <1>1 DEF HandsJustified, HandJustified, OwnMailbox, TodoIsNew, NotStoredYet, SaveJustified

LEMMA OwnHand ==
    ASSUME TypeOK, TypeOK', OneWorkerPerUser, HandsJustified, Grows,
           NEW w \in Workers, Round(w) \/ Failure(w)
    PROVE  HandJustified(w)'
<1> USE DEF tables, history
<1>0. HandJustified(w) /\ worker[w] \in Goroutines
  BY DEF HandsJustified, TypeOK
<1>1. CASE Tick(w) \/ Connect(w)
  <2>1. worker'[w].pc \in {"connect", "list"} /\ worker'[w].todo = worker[w].todo
    BY <1>0, <1>1 DEF Tick, Connect, Set, TypeOK, Goroutines
  <2>2. worker[w].todo = {}
    BY <1>0, <1>1 DEF Tick, Connect, HandJustified, OwnMailbox
  <2> QED BY <2>1, <2>2, EmptyHand
<1>2. CASE List(w)
  <2>1. /\ worker'[w].pc = "next" /\ worker'[w].user = worker[w].user
        /\ worker'[w].todo = Listed(worker[w].user)
    BY <1>0, <1>2 DEF List, Set, TypeOK, Goroutines
  <2>2. \A m \in Listed(worker[w].user) : Owner[m] = worker[w].user /\ NotStoredYet(m)'
    BY <1>2, ListedIsNew DEF List, Listed, NotStoredYet
  <2> QED BY <2>1, <2>2 DEF HandJustified, OwnMailbox, TodoIsNew, SaveJustified, MarkJustified
<1>3. CASE EndRound(w)
  <2>1. worker'[w] = Waiting(worker[w].user)
    BY <1>3 DEF EndRound, Set, TypeOK
  <2> QED BY <2>1, EmptyHand DEF Waiting, NoWorker
<1>4. ASSUME NEW m \in Messages, Read(w, m) PROVE HandJustified(w)'
  <2>1. FilesOf[m] \in SUBSET Files
    BY MailAssumption
  <2> QED BY <1>4, <2>1, ParsedHand DEF Read, InLoop
<1>5. CASE Stuck(w) /\ UNCHANGED tasks
  <2>1. /\ worker'[w].pc = "stuck" /\ worker'[w].user = worker[w].user
        /\ worker'[w].todo = worker[w].todo
    BY <1>0, <1>5, NewLocals DEF Stuck, Set, TypeOK
  <2> QED BY <1>5, <2>1, NextHand DEF Grows
<1>6. ASSUME NEW m \in Messages, ReadEndless(w, m) PROVE HandJustified(w)'
  BY <1>5, <1>6 DEF ReadEndless
<1>7. ASSUME NEW m \in Messages, ReadTruncated(w, m) PROVE HandJustified(w)'
  <2>1. link'[w] = "dead"
    BY <1>7 DEF ReadTruncated, SetLink, TypeOK
  <2>2. CASE Stuck(w)
    BY <1>7, <1>5, <2>2 DEF ReadTruncated
  <2>3. CASE Parsed(w, m, {})
    BY <1>7, <2>1, <2>3, ParsedHand DEF ReadTruncated, InLoop
  <2> QED BY <1>7, <2>2, <2>3 DEF ReadTruncated
<1>8. ASSUME NEW m \in Messages, ReadFails(w, m) PROVE HandJustified(w)'
  <2>1. /\ worker'[w].pc = "next" /\ worker'[w].user = worker[w].user
        /\ worker'[w].todo \subseteq worker[w].todo
    BY <1>0, <1>8 DEF ReadFails, InLoop, AfterParseError, Set, TypeOK, Goroutines
  <2> QED BY <1>8, <2>1, NextHand DEF ReadFails
<1>9. ASSUME NEW f \in Files, Upload(w, f) PROVE HandJustified(w)'
  <2>1. /\ worker'[w].pc = "save" /\ worker'[w].msg = worker[w].msg
        /\ worker'[w].user = worker[w].user /\ worker'[w].todo = worker[w].todo
        /\ worker'[w].files = worker[w].files /\ worker'[w].left = worker[w].left \ {f}
        /\ worker[w].pc = "save"
    BY <1>0, <1>9 DEF Upload, Set, TypeOK, Goroutines
  <2>2. bucket' = bucket \cup {f} /\ UNCHANGED <<link, tasks, interrupted, touched>>
    BY <1>9 DEF Upload
  <2> QED
    BY <1>0, <2>1, <2>2 DEF HandJustified, OwnMailbox, TodoIsNew, NotStoredYet,
                            SaveJustified, MarkJustified
<1>10. CASE Commit(w)
  <2>1. /\ worker[w].pc = "save" /\ worker[w].left = {} /\ worker[w].msg \in Messages
        /\ worker' = [worker EXCEPT ![w] = [worker[w] EXCEPT !.pc = "mark"]]
        /\ UNCHANGED <<link, interrupted, touched>>
        /\ documents' = documents \cup worker[w].files
        /\ tasks' = [tasks EXCEPT ![worker[w].msg] = @ + 1]
    BY <1>10 DEF Commit, Uploaded, Set, TypeOK
  <2>2. /\ tasks'[worker[w].msg] > 0
        /\ \A m \in worker[w].todo : tasks'[m] = tasks[m]
    BY <1>0, <2>1 DEF TypeOK, HandJustified, TodoIsNew, Goroutines
  <2>3. worker'[w].msg = worker[w].msg
    BY <1>0, <2>1 DEF TypeOK, Goroutines
  <2>4. worker[w].files = FilesOf[worker[w].msg] \/ link[w] = "dead"
    BY <1>0, <2>1 DEF HandJustified, SaveJustified
  <2>5. MarkJustified(w)'
    BY <2>1, <2>2, <2>3, <2>4 DEF MarkJustified
  <2> QED BY <2>1, <2>2, <2>5, MarkHand
<1>11. CASE SaveFails(w)
  <2>1. /\ worker[w].pc = "save" /\ worker[w].msg \in refused'
        /\ worker' = [worker EXCEPT ![w] = [worker[w] EXCEPT !.pc = "mark"]]
        /\ UNCHANGED <<tasks, interrupted, touched>>
    BY <1>11 DEF SaveFails, Set
  <2>2. worker'[w].msg = worker[w].msg
    BY <1>0, <2>1 DEF TypeOK, Goroutines
  <2>3. MarkJustified(w)'
    BY <2>1, <2>2 DEF MarkJustified
  <2> QED BY <2>1, <2>3, MarkHand
<1>12. CASE /\ Set(w, [worker[w] EXCEPT !.pc = "next", !.msg = NoMessage, !.files = {}])
            /\ UNCHANGED tasks
  <2>1. /\ worker'[w].pc = "next" /\ worker'[w].user = worker[w].user
        /\ worker'[w].todo = worker[w].todo
    BY <1>0, <1>12 DEF Set, TypeOK, Goroutines
  <2> QED BY <1>12, <2>1, NextHand DEF Grows
<1>13. CASE Disconnect(w)
  <2>1. link'[w] = "dead" /\ UNCHANGED <<worker, tasks, documents, bucket, refused, touched,
                                         interrupted>>
    BY <1>13 DEF Disconnect, SetLink, TypeOK
  <2> QED
    BY <1>0, <2>1 DEF HandJustified, OwnMailbox, TodoIsNew, NotStoredYet,
                      SaveJustified, MarkJustified
<1>14. CASE LoopEnds(w) \/ ListFails(w) \/ ConnectFails(w)
  BY <1>3, <1>14 DEF LoopEnds, ListFails, ConnectFails
<1>15. CASE Mark(w) \/ MarkFails(w)
  BY <1>3, <1>12, <1>15 DEF Mark, MarkFails, AfterMarkError
<1> QED
  BY <1>1, <1>2, <1>4, <1>6, <1>7, <1>8, <1>9, <1>10, <1>11, <1>13, <1>14, <1>15
     DEF Round, Failure

LEMMA HandStep ==
    ASSUME TypeOK, TypeOK', OneWorkerPerUser, HandsJustified, Grows, [Next]_vars
    PROVE  \A v \in Workers : HandJustified(v)'
<1>0. \A v \in Workers : HandJustified(v)
  BY DEF HandsJustified
<1>1. CASE UNCHANGED <<worker, link, tasks>>
  BY <1>0, <1>1, HandKept
<1>2. ASSUME NEW w \in Workers, Round(w) \/ Failure(w), NEW v \in Workers
      PROVE  HandJustified(v)'
  BY <1>2, OthersKept, OwnHand
<1>3. ASSUME NEW w \in Workers, Stop(w), NEW v \in Workers
      PROVE  HandJustified(v)'
  <2>1. CASE v = w
    <3>1. worker'[v] = NoWorker
      BY <1>3, <2>1 DEF Stop, Set, TypeOK
    <3> QED BY <3>1, EmptyHand DEF NoWorker
  <2>2. CASE v # w
    <3>1. worker'[v] = worker[v] /\ link'[v] = link[v] /\ tasks' = tasks
      BY <1>3, <2>2 DEF Stop, Set, SetLink, tables, TypeOK
    <3> QED BY <1>0, <3>1, HandKept
  <2> QED BY <2>1, <2>2
<1>4. ASSUME NEW u \in Users, NEW w \in Workers, StartWorker(u, w), NEW v \in Workers
      PROVE  HandJustified(v)'
  <2>1. CASE v = w
    <3>1. worker'[v] = [Waiting(u) EXCEPT !.pc = "connect"]
      BY <1>4, <2>1 DEF StartWorker, Set, TypeOK
    <3>2. worker'[v].pc = "connect" /\ worker'[v].todo = {}
      BY <3>1 DEF Waiting, NoWorker
    <3> QED BY <3>2, EmptyHand
  <2>2. CASE v # w
    <3>1. worker'[v] = worker[v] /\ link'[v] = link[v] /\ tasks' = tasks
      BY <1>4, <2>2 DEF StartWorker, Set, tables, TypeOK
    <3> QED BY <1>0, <3>1, HandKept
  <2> QED BY <2>1, <2>2
<1>5. ASSUME Crash, NEW v \in Workers PROVE HandJustified(v)'
  BY <1>5, EmptyHand DEF Crash, NoWorker
<1>6. CASE World \/ Shutdown \/ Exit \/ Restart \/ UNCHANGED vars
  BY <1>1, <1>6 DEF World, Arrive, PersonTouches, LogIn, Shutdown, Exit, Restart, tables, vars
<1> QED BY <1>2, <1>3, <1>4, <1>5, <1>6 DEF Next

-----------------------------------------------------------------------------
(* The tables and the flags *)

\* A worker that is marking a message goes on doing so until the message is read or the
\* marking was interrupted.
LEMMA MarkingKept ==
    ASSUME TypeOK, NEW v \in Workers, worker[v].pc = "mark", [Next]_vars
    PROVE  \/ worker'[v].pc = "mark" /\ worker'[v].msg = worker[v].msg
           \/ worker[v].msg \in seen' \cup interrupted'
<1>1. CASE worker'[v] = worker[v]
  BY <1>1
<1>2. ASSUME NEW w \in Workers, Round(w) \/ Failure(w), w # v
      PROVE  worker'[v] = worker[v]
  BY <1>2, UserKept
<1>3. CASE Round(v) \/ Failure(v)
  <2>1. Mark(v) \/ MarkFails(v) \/ Disconnect(v)
    BY <1>3 DEF Round, Failure, Tick, Connect, List, LoopEnds, Read, ReadFails, InLoop, Upload,
                Commit, Uploaded, ListFails, ConnectFails, SaveFails, ReadEndless, ReadTruncated
  <2> QED BY <1>1, <2>1 DEF Mark, MarkFails, Disconnect
<1>4. ASSUME NEW w \in Workers, Stop(w) PROVE worker'[v] = worker[v]
  BY <1>4 DEF Stop, Set, TypeOK
<1>5. ASSUME NEW u \in Users, NEW w \in Workers, StartWorker(u, w)
      PROVE  worker'[v] = worker[v]
  BY <1>5 DEF StartWorker, Set, TypeOK
<1>6. CASE Crash
  BY <1>6 DEF Crash
<1>7. CASE World \/ Shutdown \/ Exit \/ Restart \/ UNCHANGED vars
  BY <1>1, <1>7 DEF World, Arrive, PersonTouches, LogIn, Shutdown, Exit, Restart, vars
<1> QED BY <1>1, <1>2, <1>3, <1>4, <1>5, <1>6, <1>7 DEF Next

\* A message stays read until a person touches it.
LEMMA SeenKept ==
    ASSUME [Next]_vars, NEW m \in seen
    PROVE  m \in seen' \/ m \in touched'
BY SeenWritten DEF Mark, PersonTouches

LEMMA StoredStep ==
    ASSUME TypeOK, TypeOK', HandsJustified, Grows, [Next]_vars
    PROVE  StoredIsMarked'
<1> SUFFICES ASSUME NEW m \in Messages, tasks'[m] > 0
             PROVE  \/ m \in seen' \/ m \in interrupted' \/ m \in touched'
                    \/ \E w \in Workers : worker'[w].pc = "mark" /\ worker'[w].msg = m
  BY DEF StoredIsMarked
<1>1. CASE tasks[m] > 0
  <2>1. CASE \E w \in Workers : worker[w].pc = "mark" /\ worker[w].msg = m
    BY <2>1, MarkingKept
  <2>2. CASE m \in seen
    BY <2>2, SeenKept
  <2> QED BY <1>1, <2>1, <2>2 DEF HandsJustified, StoredIsMarked, Grows
<1>2. CASE ~(tasks[m] > 0)
  <2>1. PICK w \in Workers : Commit(w)
    BY <1>2, TablesWritten
  <2>2. tasks' = [tasks EXCEPT ![worker[w].msg] = @ + 1]
    BY <2>1 DEF Commit
  <2>3. worker[w].msg = m
    BY <1>2, <2>2 DEF TypeOK
  <2>4. worker'[w].pc = "mark" /\ worker'[w].msg = m
    BY <2>1, <2>3 DEF Commit, Set, TypeOK, Goroutines
  <2> QED BY <2>4
<1> QED BY <1>1, <1>2

LEMMA SeenIsStoredStep ==
    ASSUME TypeOK, HandsJustified, SeenIsStored, Grows, [Next]_vars
    PROVE  SeenIsStored'
<1>1. ASSUME NEW m \in seen PROVE tasks'[m] > 0 \/ m \in refused' \/ m \in touched'
  <2>1. m \in Messages /\ tasks[m] \in Nat /\ tasks[m] <= tasks'[m]
    BY DEF TypeOK, Grows
  <2>2. tasks'[m] \in Nat
    BY <2>1, NextType DEF TypeOK
  <2> QED BY <2>1, <2>2 DEF SeenIsStored, Grows
<1>2. CASE UNCHANGED seen
  BY <1>1, <1>2 DEF SeenIsStored
<1>3. ASSUME NEW w \in Workers, Mark(w) PROVE SeenIsStored'
  <2>1. seen' = seen \cup {worker[w].msg} /\ UNCHANGED <<tasks, refused>>
    BY <1>3 DEF Mark, tables, history
  <2>2. tasks[worker[w].msg] > 0 \/ worker[w].msg \in refused
    BY <1>3 DEF Mark, HandsJustified, HandJustified, MarkJustified
  <2> QED BY <1>1, <2>1, <2>2 DEF SeenIsStored
<1>4. ASSUME NEW m \in Messages, PersonTouches(m) PROVE SeenIsStored'
  <2>1. seen' \subseteq seen \cup {m} /\ m \in touched'
    BY <1>4 DEF PersonTouches
  <2> QED BY <1>1, <2>1 DEF SeenIsStored
<1> QED BY <1>2, <1>3, <1>4, SeenWritten

LEMMA SeenIsCompleteStep ==
    ASSUME TypeOK, HandsJustified, SeenIsComplete, Grows, [Next]_vars
    PROVE  SeenIsComplete'
<1>1. ASSUME NEW m \in seen, m \notin refused', m \notin touched'
      PROVE  FilesOf[m] \subseteq documents'
  BY <1>1 DEF SeenIsComplete, Grows
<1>2. CASE UNCHANGED seen
  BY <1>1, <1>2 DEF SeenIsComplete
<1>3. ASSUME NEW w \in Workers, Mark(w) PROVE SeenIsComplete'
  <2>1. /\ seen' = seen \cup {worker[w].msg} /\ UNCHANGED <<documents, refused>>
        /\ worker[w].pc = "mark" /\ link[w] = "live"
    BY <1>3 DEF Mark, tables, history
  <2>2. FilesOf[worker[w].msg] \subseteq documents \/ worker[w].msg \in refused
    BY <2>1 DEF HandsJustified, HandJustified, MarkJustified
  <2> QED BY <1>1, <2>1, <2>2 DEF SeenIsComplete
<1>4. ASSUME NEW m \in Messages, PersonTouches(m) PROVE SeenIsComplete'
  <2>1. seen' \subseteq seen \cup {m} /\ m \in touched'
    BY <1>4 DEF PersonTouches
  <2> QED BY <1>1, <2>1 DEF SeenIsComplete
<1> QED BY <1>2, <1>3, <1>4, SeenWritten

LEMMA StoresStep ==
    ASSUME TypeOK, HandsJustified, SecondOrderExplained, DocumentsAreStored, Grows, [Next]_vars
    PROVE  SecondOrderExplained' /\ DocumentsAreStored'
<1>1. CASE UNCHANGED <<tasks, documents>>
  BY <1>1 DEF SecondOrderExplained, DocumentsAreStored, Grows
<1>2. ASSUME NEW w \in Workers, Commit(w)
      PROVE  SecondOrderExplained' /\ DocumentsAreStored'
  <2>1. /\ worker[w].pc = "save" /\ worker[w].left = {} /\ worker[w].msg \in Messages
        /\ documents' = documents \cup worker[w].files
        /\ tasks' = [tasks EXCEPT ![worker[w].msg] = @ + 1]
    BY <1>2 DEF Commit, Uploaded, TypeOK
  <2>2. /\ worker[w].files \ worker[w].left \subseteq bucket
        /\ NotStoredYet(worker[w].msg)
    BY <2>1 DEF HandsJustified, HandJustified, SaveJustified
  <2>3. DocumentsAreStored'
    BY <2>1, <2>2 DEF DocumentsAreStored, Grows
  <2>4. ASSUME NEW m \in Messages, tasks'[m] > 1
        PROVE  m \in interrupted' \/ m \in touched'
    <3>1. CASE m = worker[w].msg
      <4>1. tasks[m] # 0
        BY <2>1, <2>4, <3>1 DEF TypeOK
      <4> QED BY <2>2, <3>1, <4>1 DEF NotStoredYet, Grows
    <3>2. CASE m # worker[w].msg
      <4>1. tasks[m] > 1
        BY <2>1, <2>4, <3>2 DEF TypeOK
      <4> QED BY <4>1 DEF SecondOrderExplained, Grows
    <3> QED BY <3>1, <3>2
  <2> QED BY <2>3, <2>4 DEF SecondOrderExplained
<1> QED BY <1>1, <1>2, TablesWritten

-----------------------------------------------------------------------------
(* The invariant, and what follows *)

LEMMA IngestStep == IngestInv /\ [Next]_vars => IngestInv'
<1> SUFFICES ASSUME IngestInv, [Next]_vars PROVE IngestInv'
  OBVIOUS
<1>1. TypeOK' /\ Grows
  BY NextType, Growth DEF IngestInv
<1>2. OneWorkerPerUser' /\ WorkersActive'
  BY OneWorkerStep DEF IngestInv, HandsJustified
<1>3. HandsJustified'
  BY <1>1, <1>2, HandStep, StoredStep DEF IngestInv, HandsJustified
<1> QED
  BY <1>1, <1>2, <1>3, SeenIsStoredStep, SeenIsCompleteStep, StoresStep DEF IngestInv

LEMMA IngestInit == Init => IngestInv
<1> SUFFICES ASSUME Init PROVE IngestInv
  OBVIOUS
<1>1. \A w \in Workers : worker[w].pc = "free" /\ worker[w].todo = {}
  BY DEF Init, NoWorker
<1>2. HandsJustified
  BY <1>1 DEF Init, HandsJustified, HandJustified, WorkersActive, Running, OwnMailbox,
              TodoIsNew, SaveJustified, MarkJustified, StoredIsMarked
<1> QED
  BY <1>1, <1>2, InitType DEF Init, IngestInv, OneWorkerPerUser, SeenIsStored, SeenIsComplete,
                              SecondOrderExplained, DocumentsAreStored

LEMMA IngestInvariant == Spec => []IngestInv
BY IngestInit, IngestStep, PTL DEF Spec

\* What the goroutines hold stays justified by the mailbox, the tables and the bucket.
THEOREM HandsStayJustified == Spec => []HandsJustified
<1>1. IngestInv => HandsJustified
  BY DEF IngestInv
<1> QED BY <1>1, IngestInvariant, PTL

\* No message is taken for done without an order, but by a refused save or a person.
THEOREM MessagesAreStored == Spec => []SeenIsStored
<1>1. IngestInv => SeenIsStored
  BY DEF IngestInv
<1> QED BY <1>1, IngestInvariant, PTL

\* A message that is done has its attachments, but after a refused save or a person's touch.
THEOREM MessagesAreComplete == Spec => []SeenIsComplete
<1>1. IngestInv => SeenIsComplete
  BY DEF IngestInv
<1> QED BY <1>1, IngestInvariant, PTL

\* A message becomes one order unless marking it failed or a person touched it.
THEOREM OneOrderPerMessage == Spec => []SecondOrderExplained
<1>1. IngestInv => SecondOrderExplained
  BY DEF IngestInv
<1> QED BY <1>1, IngestInvariant, PTL

\* Every document the processor may read is in the bucket.
THEOREM DocumentsHaveObjects == Spec => []DocumentsAreStored
<1>1. IngestInv => DocumentsAreStored
  BY DEF IngestInv
<1> QED BY <1>1, IngestInvariant, PTL

\* Each user has at most one worker.
THEOREM OneWorkerEach == Spec => []OneWorkerPerUser
<1>1. IngestInv => OneWorkerPerUser
  BY DEF IngestInv
<1> QED BY <1>1, IngestInvariant, PTL

-----------------------------------------------------------------------------
(* The refinement of MailIntake                                              *)

Holds(w, m) == Marking(w, m) \/ Holding(w, m)

\* No message is in the hands of two workers, and none twice in those of one.
LEMMA OneHolder ==
    ASSUME IngestInv, NEW m \in Messages, NEW v \in Workers, NEW w \in Workers,
           Holds(v, m), Holds(w, m)
    PROVE  v = w
<1>1. ASSUME NEW x \in Workers, Holds(x, m)
      PROVE  worker[x].pc # "free" /\ worker[x].user = Owner[m]
  BY <1>1 DEF IngestInv, HandsJustified, HandJustified, OwnMailbox, Holds, Marking, Holding
<1> QED BY <1>1 DEF IngestInv, OneWorkerPerUser

LEMMA HeldOnce ==
    ASSUME IngestInv, NEW m \in Messages, NEW w \in Workers, Marking(w, m)
    PROVE  ~Holding(w, m) /\ m \notin worker[w].todo
BY DEF IngestInv, HandsJustified, HandJustified, TodoIsNew, Marking, Holding

LEMMA HandOfHeld ==
    ASSUME IngestInv, NEW m \in Messages, NEW w \in Workers
    PROVE  /\ Marking(w, m) => HandOf(m) = "settled"
           /\ Holding(w, m) => HandOf(m) = "listed"
<1>1. ASSUME Holding(w, m), NEW v \in Workers PROVE ~Marking(v, m)
  BY <1>1, OneHolder, HeldOnce DEF Holds
<1> QED BY <1>1 DEF HandOf

\* A step of one worker lets the hands of the others be.
LEMMA HandOfStep ==
    ASSUME IngestInv, NEW m \in Messages, NEW w \in Workers, NEW g, Set(w, g)
    PROVE  /\ Marking(w, m)' <=> g.pc = "mark" /\ g.msg = m
           /\ Holding(w, m)' <=> m \in g.todo \/ (g.pc = "save" /\ g.msg = m)
           /\ \A v \in Workers \ {w} : /\ Marking(v, m)' <=> Marking(v, m)
                                       /\ Holding(v, m)' <=> Holding(v, m)
BY DEF IngestInv, TypeOK, Set, Marking, Holding

LEMMA HandOfKept ==
    ASSUME IngestInv, NEW m \in Messages, NEW w \in Workers, NEW g, Set(w, g),
           Marking(w, m)' <=> Marking(w, m), Holding(w, m)' <=> Holding(w, m)
    PROVE  HandOf(m)' = HandOf(m)
<1>1. \A v \in Workers : /\ Marking(v, m)' <=> Marking(v, m)
                         /\ Holding(v, m)' <=> Holding(v, m)
  BY HandOfStep
<1> QED BY <1>1 DEF HandOf

\* What becomes of a message the worker holds.
LEMMA HandOfOwn ==
    ASSUME IngestInv, NEW m \in Messages, NEW w \in Workers, NEW g, Set(w, g), Holds(w, m)
    PROVE  /\ Marking(w, m)' => HandOf(m)' = "settled"
           /\ Holding(w, m)' /\ ~Marking(w, m)' => HandOf(m)' = "listed"
           /\ ~Holding(w, m)' /\ ~Marking(w, m)' => HandOf(m)' = "free"
<1>1. ASSUME NEW v \in Workers \ {w} PROVE ~Marking(v, m)' /\ ~Holding(v, m)'
  BY HandOfStep, OneHolder DEF Holds
<1> QED BY <1>1 DEF HandOf

LEMMA HandType == Hand \in [Messages -> {"free", "listed", "settled"}]
BY DEF Hand, HandOf

\* A step that leaves the hands and the tables alone is none of the intake's.
LEMMA UnseenIntake ==
    ASSUME Hand' = Hand, UNCHANGED <<server, tasks, documents, refused>>
    PROVE  UNCHANGED Intake!intake
BY DEF Intake!intake, server

LEMMA KeepsHand ==
    ASSUME \A m \in Messages : HandOf(m)' = HandOf(m)
    PROVE  Hand' = Hand
BY DEF Hand

LEMMA HandMoves ==
    ASSUME NEW m \in Messages, \A n \in Messages : n # m => HandOf(n)' = HandOf(n)
    PROVE  Hand[m] = HandOf(m) /\ Hand' = [Hand EXCEPT ![m] = HandOf(m)']
BY DEF Hand

\* Messages may only be let go.
LEMMA LetGoStep ==
    ASSUME \A m \in Messages : HandOf(m)' \in {HandOf(m), "free"},
           UNCHANGED <<server, tasks, documents, refused>>
    PROVE  Intake!LetGo
<1>1. Hand' \in [Messages -> {"free", "listed", "settled"}]
  BY DEF Hand, HandOf
<1>2. \A m \in Messages : Hand'[m] \in {Hand[m], "free"}
  BY DEF Hand
<1> QED BY <1>1, <1>2 DEF Intake!LetGo, server

LEMMA FilesStayParsed ==
    ASSUME IngestInv, FilesAreParsed, [Next]_vars
    PROVE  FilesAreParsed'
<1> USE DEF FilesAreParsed
<1>1. ASSUME NEW w \in Workers, worker'[w] = worker[w]
      PROVE  worker'[w].pc = "save" => worker'[w].files \in {{}, FilesOf[worker'[w].msg]}
  BY <1>1
<1>2. CASE UNCHANGED worker
  BY <1>2
<1>3. CASE Crash
  BY <1>3 DEF Crash, NoWorker
<1>4. ASSUME NEW w \in Workers, NEW g, Set(w, g),
             g.pc = "save" => g.files \in {{}, FilesOf[g.msg]}
      PROVE  FilesAreParsed'
  BY <1>4 DEF Set, IngestInv, TypeOK
<1>5. ASSUME NEW w \in Workers, NEW u \in Users, StartWorker(u, w) PROVE FilesAreParsed'
  BY <1>5, <1>4 DEF StartWorker, Waiting, NoWorker
<1>6. ASSUME NEW w \in Workers, Round(w) \/ Failure(w) \/ Stop(w) PROVE FilesAreParsed'
  <2>0. worker[w] \in Goroutines
    BY DEF IngestInv, TypeOK
  <2>1. CASE Tick(w) \/ Connect(w) \/ List(w) \/ Commit(w) \/ Mark(w) \/ Stop(w) \/ SaveFails(w)
    BY <1>4, <2>0, <2>1 DEF Tick, Connect, List, Commit, Mark, Stop, SaveFails, NoWorker, Goroutines
  <2>2. CASE EndRound(w)
    BY <1>4, <2>2 DEF EndRound, Waiting, NoWorker
  <2>3. ASSUME NEW m \in Messages, Read(w, m) \/ ReadTruncated(w, m) \/ ReadEndless(w, m)
        PROVE  FilesAreParsed'
    <3>1. CASE Stuck(w)
      BY <1>4, <2>0, <3>1, NewLocals DEF Stuck
    <3>2. ASSUME NEW files \in {{}, FilesOf[m]}, Parsed(w, m, files) PROVE FilesAreParsed'
      BY <1>4, <2>0, <3>2 DEF Parsed, Goroutines
    <3> QED BY <2>3, <3>1, <3>2 DEF Read, ReadTruncated, ReadEndless
  <2>4. ASSUME NEW m \in Messages, ReadFails(w, m) PROVE FilesAreParsed'
    BY <1>4, <2>0, <2>4 DEF ReadFails, AfterParseError, InLoop, Goroutines
  <2>5. ASSUME NEW f \in Files, Upload(w, f) PROVE FilesAreParsed'
    <3>1. Set(w, [worker[w] EXCEPT !.left = @ \ {f}])
      BY <2>5 DEF Upload
    <3>2. /\ [worker[w] EXCEPT !.left = @ \ {f}].pc = worker[w].pc
          /\ [worker[w] EXCEPT !.left = @ \ {f}].files = worker[w].files
          /\ [worker[w] EXCEPT !.left = @ \ {f}].msg = worker[w].msg
      BY <2>0 DEF Goroutines
    <3> QED BY <1>4, <3>1, <3>2
  <2>6. CASE MarkFails(w)
    BY <1>4, <2>0, <2>2, <2>6 DEF MarkFails, AfterMarkError, Goroutines
  <2> QED
    BY <1>2, <1>6, <2>1, <2>2, <2>3, <2>4, <2>5, <2>6
       DEF Round, Failure, LoopEnds, ListFails, Disconnect, ConnectFails
<1> QED
  BY <1>2, <1>3, <1>5, <1>6
     DEF Next, World, Arrive, PersonTouches, LogIn, Shutdown, Exit, Restart, vars

\* The steps of a worker by what becomes of its messages.
LEMMA IdleStep ==
    ASSUME IngestInv, NEW w \in Workers, NEW g, Set(w, g), g.todo = {},
           g.pc \in {"free", "wait", "connect", "list"},
           worker[w].pc \in {"free", "wait", "connect", "list"},
           UNCHANGED <<server, tasks, documents, refused>>
    PROVE  UNCHANGED Intake!intake
<1>1. worker[w].todo = {}
  BY DEF IngestInv, HandsJustified, HandJustified, OwnMailbox
<1>2. ASSUME NEW m \in Messages PROVE HandOf(m)' = HandOf(m)
  <2>1. /\ Marking(w, m)' <=> Marking(w, m)
        /\ Holding(w, m)' <=> Holding(w, m)
    BY <1>1, HandOfStep DEF Marking, Holding
  <2> QED BY <2>1, HandOfKept
<1> QED BY <1>2, KeepsHand, UnseenIntake

LEMMA SettleStep ==
    ASSUME IngestInv, NEW w \in Workers, NEW m \in Messages,
           worker[w].msg = m, worker[w].pc = "save",
           Set(w, [worker[w] EXCEPT !.pc = "mark"])
    PROVE  Hand[m] = "listed" /\ Hand' = [Hand EXCEPT ![m] = "settled"]
<1> DEFINE g == [worker[w] EXCEPT !.pc = "mark"]
<1>1. g.pc = "mark" /\ g.msg = m /\ g.todo = worker[w].todo /\ Set(w, g)
  BY DEF Goroutines, IngestInv, TypeOK
<1>2. Holding(w, m)
  BY DEF Holding
<1> HIDE DEF g
<1>3. HandOf(m)' = "settled"
  <2>1. Marking(w, m)'
    BY <1>1, HandOfStep
  <2> QED BY <1>1, <1>2, <2>1, HandOfOwn DEF Holds
<1>4. ASSUME NEW n \in Messages, n # m PROVE HandOf(n)' = HandOf(n)
  <2>1. /\ Marking(w, n)' <=> Marking(w, n)
        /\ Holding(w, n)' <=> Holding(w, n)
    BY <1>1, <1>4, HandOfStep DEF Marking, Holding
  <2> QED BY <1>1, <2>1, HandOfKept
<1>5. HandOf(m) = "listed"
  BY <1>2, HandOfHeld
<1> QED BY <1>3, <1>4, <1>5, HandMoves

\* A worker that goes on with fewer messages lets go of the others.
LEMMA ReleaseStep ==
    ASSUME IngestInv, NEW w \in Workers, NEW g \in Goroutines, Set(w, g),
           g.todo \subseteq worker[w].todo, g.pc \notin {"save", "mark"},
           UNCHANGED <<server, tasks, documents, refused>>
    PROVE  Intake!LetGo
<1>1. ASSUME NEW m \in Messages PROVE HandOf(m)' \in {HandOf(m), "free"}
  <2>1. ~Marking(w, m)' /\ (Holding(w, m)' <=> m \in g.todo)
    BY HandOfStep
  <2>2. CASE m \in g.todo
    <3>1. Holding(w, m)
      BY <2>2 DEF Holding
    <3>2. ~Marking(w, m)
      BY <3>1, HeldOnce
    <3> QED BY <2>1, <2>2, <3>1, <3>2, HandOfKept
  <2>3. CASE m \notin g.todo /\ Holds(w, m)
    BY <2>1, <2>3, HandOfOwn
  <2>4. CASE m \notin g.todo /\ ~Holds(w, m)
    BY <2>1, <2>4, HandOfKept DEF Holds
  <2> QED BY <2>2, <2>3, <2>4
<1> QED BY <1>1, LetGoStep

LEMMA ListStep ==
    ASSUME IngestInv, NEW w \in Workers, List(w)
    PROVE  \E u \in Users : Intake!Take(u)
<1> DEFINE u == worker[w].user
           g == [worker[w] EXCEPT !.pc = "next", !.todo = Listed(u)]
<1>0. /\ worker[w] \in Goroutines /\ worker[w].pc = "list" /\ Set(w, g)
      /\ g.pc = "next" /\ g.todo = Listed(u) /\ worker[w].todo = {}
  BY DEF List, IngestInv, TypeOK, Goroutines, HandsJustified, HandJustified, OwnMailbox
<1> HIDE DEF g
<1>1. u \in Users
  BY <1>0 DEF IngestInv, TypeOK, HandsJustified, WorkersActive, Running
<1>2. ASSUME NEW m \in Messages, Owner[m] = u, NEW v \in Workers PROVE ~Holds(v, m)
  <2>1. SUFFICES ASSUME Holds(v, m) PROVE FALSE
    OBVIOUS
  <2>2. worker[v].pc # "free" /\ worker[v].user = u
    BY <1>2, <2>1 DEF IngestInv, HandsJustified, HandJustified, OwnMailbox, Holds, Marking, Holding
  <2>3. v = w
    BY <1>0, <2>2 DEF IngestInv, OneWorkerPerUser
  <2> QED BY <1>0, <2>1, <2>3 DEF Holds, Marking, Holding
<1>3. \A m \in Messages : Owner[m] = u => HandOf(m) = "free"
  BY <1>2 DEF HandOf, Holds
<1>4. Listed(u) = Intake!Unread(u)
  BY DEF Listed, Intake!Unread
<1>5. ASSUME NEW m \in Listed(u) PROVE m \in Messages /\ HandOf(m)' = "listed"
  <2>1. m \in Messages /\ Owner[m] = u
    BY DEF Listed, IngestInv, TypeOK
  <2>2. Holding(w, m)' /\ ~Marking(w, m)'
    BY <1>0, <2>1, HandOfStep
  <2>3. \A v \in Workers \ {w} : ~Marking(v, m)'
    BY <1>0, <1>2, <2>1, HandOfStep DEF Holds
  <2> QED BY <2>1, <2>2, <2>3 DEF HandOf
<1>6. ASSUME NEW m \in Messages, m \notin Listed(u) PROVE HandOf(m)' = HandOf(m)
  <2>1. /\ Marking(w, m)' <=> Marking(w, m)
        /\ Holding(w, m)' <=> Holding(w, m)
    BY <1>0, <1>6, HandOfStep DEF Marking, Holding
  <2> QED BY <1>0, <2>1, HandOfKept
<1>7. Hand' = [m \in Messages |-> IF m \in Intake!Unread(u) THEN "listed" ELSE Hand[m]]
  BY <1>4, <1>5, <1>6 DEF Hand
<1>8. Intake!Take(u)
  BY <1>3, <1>7 DEF Intake!Take, Hand, List, server, tables, history
<1> QED BY <1>1, <1>8

\* A message that is read goes from those still to come to that in hand.
LEMMA ParsedStep ==
    ASSUME IngestInv, NEW w \in Workers, NEW m \in worker[w].todo, NEW files,
           worker[w].pc = "next", Parsed(w, m, files),
           UNCHANGED <<server, tasks, documents, refused>>
    PROVE  UNCHANGED Intake!intake
<1> DEFINE g == [worker[w] EXCEPT !.pc = "save", !.todo = @ \ {m}, !.msg = m,
                                  !.files = files, !.left = files]
<1>1. g.pc = "save" /\ g.todo = worker[w].todo \ {m} /\ g.msg = m /\ Set(w, g)
  BY DEF Parsed, IngestInv, TypeOK, Goroutines
<1> HIDE DEF g
<1>2. ASSUME NEW n \in Messages PROVE HandOf(n)' = HandOf(n)
  <2>1. /\ Marking(w, n)' <=> Marking(w, n)
        /\ Holding(w, n)' <=> Holding(w, n)
    BY <1>1, HandOfStep DEF Marking, Holding
  <2> QED BY <1>1, <2>1, HandOfKept
<1> QED BY <1>2, KeepsHand, UnseenIntake

LEMMA UploadStep ==
    ASSUME IngestInv, NEW w \in Workers, NEW f \in Files, Upload(w, f)
    PROVE  UNCHANGED Intake!intake
<1> DEFINE g == [worker[w] EXCEPT !.left = @ \ {f}]
<1>1. g.pc = worker[w].pc /\ g.todo = worker[w].todo /\ g.msg = worker[w].msg /\ Set(w, g)
  BY DEF Upload, IngestInv, TypeOK, Goroutines
<1> HIDE DEF g
<1>2. ASSUME NEW n \in Messages PROVE HandOf(n)' = HandOf(n)
  <2>1. /\ Marking(w, n)' <=> Marking(w, n)
        /\ Holding(w, n)' <=> Holding(w, n)
    BY <1>1, HandOfStep DEF Marking, Holding
  <2> QED BY <1>1, <2>1, HandOfKept
<1> QED BY <1>2, KeepsHand, UnseenIntake DEF Upload, server, tables, history

LEMMA CommitStep ==
    ASSUME IngestInv, FilesAreParsed, NEW w \in Workers, Commit(w)
    PROVE  \E m \in Messages : Intake!Order(m)
<1>0. PICK m \in Messages : worker[w].msg = m
  BY DEF Commit, Uploaded, IngestInv, TypeOK
<1>1. worker[w].pc = "save" /\ Set(w, [worker[w] EXCEPT !.pc = "mark"])
  BY DEF Commit, Uploaded
<1>2. Intake!Settle(m)
  BY <1>0, <1>1, SettleStep DEF Intake!Settle, Commit, server
<1>3. documents' \in {documents, documents \cup FilesOf[m]}
  BY <1>0, <1>1 DEF Commit, FilesAreParsed
<1>4. Intake!Order(m)
  BY <1>0, <1>2, <1>3 DEF Intake!Order, Commit, history
<1> QED BY <1>4

LEMMA SaveFailsStep ==
    ASSUME IngestInv, NEW w \in Workers, SaveFails(w)
    PROVE  \E m \in Messages : Intake!Refuse(m)
<1>0. PICK m \in Messages : worker[w].msg = m
  BY DEF SaveFails, IngestInv, TypeOK
<1>1. worker[w].pc = "save" /\ Set(w, [worker[w] EXCEPT !.pc = "mark"])
  BY DEF SaveFails
<1>2. Intake!Settle(m)
  BY <1>0, <1>1, SettleStep DEF Intake!Settle, SaveFails, server
<1>3. Intake!Refuse(m)
  BY <1>0, <1>2 DEF Intake!Refuse, SaveFails, tables
<1> QED BY <1>3

\* The worker marks only a message whose order is complete, or was refused.
LEMMA MarkStep ==
    ASSUME IngestInv, NEW w \in Workers, Mark(w)
    PROVE  \E m \in Messages : Intake!Finish(m)
<1> DEFINE g == [worker[w] EXCEPT !.pc = "next", !.msg = NoMessage, !.files = {}]
<1>0. PICK m \in Messages : worker[w].msg = m
  BY DEF Mark, IngestInv, TypeOK
<1>1. g.pc = "next" /\ g.todo = worker[w].todo /\ Set(w, g)
  BY DEF Mark, Goroutines, IngestInv, TypeOK
<1>2. Marking(w, m) /\ m \notin worker[w].todo
  BY <1>0, HeldOnce DEF Mark, Marking
<1> HIDE DEF g
<1>3. HandOf(m) = "settled" /\ HandOf(m)' = "free"
  <2>1. ~Marking(w, m)' /\ ~Holding(w, m)'
    BY <1>1, <1>2, HandOfStep
  <2>2. HandOf(m)' = "free"
    BY <1>1, <1>2, <2>1, HandOfOwn DEF Holds
  <2> QED BY <1>2, <2>2, HandOfHeld
<1>4. ASSUME NEW n \in Messages, n # m PROVE HandOf(n)' = HandOf(n)
  <2>1. /\ Marking(w, n)' <=> Marking(w, n)
        /\ Holding(w, n)' <=> Holding(w, n)
    BY <1>0, <1>1, <1>2, <1>4, HandOfStep DEF Marking, Holding
  <2> QED BY <1>1, <2>1, HandOfKept
<1>5. Hand[m] = "settled" /\ Hand' = [Hand EXCEPT ![m] = "free"]
  BY <1>3, <1>4, HandMoves
<1>6. m \in refused \/ (tasks[m] > 0 /\ FilesOf[m] \subseteq documents)
  BY <1>0, <1>2 DEF IngestInv, HandsJustified, HandJustified, MarkJustified, Mark
<1>7. Intake!Finish(m)
  BY <1>0, <1>5, <1>6 DEF Intake!Finish, Mark, tables, history
<1> QED BY <1>7

LEMMA RoundMaps ==
    ASSUME IngestInv, FilesAreParsed, NEW w \in Workers, Round(w) \/ Failure(w) \/ Stop(w)
    PROVE  [Intake!Next]_(Intake!intake)
<1> USE DEF tables, history
<1>0. worker[w] \in Goroutines /\ \A u \in Users \cup {NoUser} : Waiting(u) \in Goroutines
  BY WaitingType DEF IngestInv, TypeOK
<1>1. CASE Tick(w) \/ Connect(w) \/ Stop(w)
  <2>1. worker[w].todo = {}
    BY <1>1 DEF Tick, Connect, Stop, IngestInv, HandsJustified, HandJustified, OwnMailbox
  <2>2. CASE Tick(w)
    BY <1>0, <2>1, <2>2, IdleStep DEF Tick, Goroutines
  <2>3. CASE Connect(w)
    BY <1>0, <2>1, <2>3, IdleStep DEF Connect, Goroutines
  <2>4. CASE Stop(w)
    BY <2>4, IdleStep DEF Stop, NoWorker
  <2> QED BY <1>1, <2>2, <2>3, <2>4
<1>2. CASE ListFails(w) \/ ConnectFails(w)
  <2>1. /\ Waiting(worker[w].user).pc = "wait" /\ Waiting(worker[w].user).todo = {}
    BY DEF Waiting, NoWorker
  <2> QED BY <1>2, <2>1, IdleStep DEF ListFails, ConnectFails, EndRound
<1>3. CASE List(w)
  BY <1>3, ListStep DEF Intake!Next
<1>4. CASE LoopEnds(w)
  <2>1. /\ Waiting(worker[w].user).pc = "wait" /\ Waiting(worker[w].user).todo = {}
        /\ Waiting(worker[w].user) \in Goroutines
    BY <1>0 DEF Waiting, NoWorker, Goroutines
  <2> QED BY <1>4, <2>1, ReleaseStep DEF LoopEnds, EndRound, Intake!Next
<1>5. ASSUME NEW m \in Messages, Read(w, m) PROVE UNCHANGED Intake!intake
  BY <1>5, ParsedStep DEF Read, InLoop
<1>6. ASSUME NEW m \in Messages, ReadTruncated(w, m) \/ ReadEndless(w, m)
      PROVE  [Intake!Next]_(Intake!intake)
  <2>1. CASE Parsed(w, m, {})
    BY <1>6, <2>1, ParsedStep DEF ReadTruncated, ReadEndless, InLoop
  <2>2. CASE Stuck(w)
    <3>1. UNCHANGED <<server, tasks, documents, refused>>
      BY <1>6 DEF ReadTruncated, ReadEndless
    <3> QED BY <1>0, <2>2, <3>1, NewLocals, ReleaseStep DEF Stuck, Intake!Next
  <2> QED BY <1>6, <2>1, <2>2 DEF ReadTruncated, ReadEndless
<1>7. ASSUME NEW m \in Messages, ReadFails(w, m) PROVE Intake!Next
  <2>1. /\ [worker[w] EXCEPT !.todo = @ \ {m}] \in Goroutines
        /\ [worker[w] EXCEPT !.todo = @ \ {m}].pc = "next"
        /\ [worker[w] EXCEPT !.todo = @ \ {m}].todo \subseteq worker[w].todo
    BY <1>0, <1>7 DEF ReadFails, InLoop, Goroutines
  <2> QED BY <1>7, <2>1, ReleaseStep DEF ReadFails, AfterParseError, Intake!Next
<1>8. ASSUME NEW f \in Files, Upload(w, f) PROVE UNCHANGED Intake!intake
  BY <1>8, UploadStep
<1>9. CASE Commit(w) \/ SaveFails(w) \/ Mark(w)
  BY <1>9, CommitStep, SaveFailsStep, MarkStep DEF Intake!Next
<1>10. CASE MarkFails(w)
  <2>1. CASE EndRound(w)
    <3>1. /\ Waiting(worker[w].user).pc = "wait" /\ Waiting(worker[w].user).todo = {}
          /\ Waiting(worker[w].user) \in Goroutines
      BY <1>0 DEF Waiting, NoWorker, Goroutines
    <3> QED BY <1>10, <2>1, <3>1, ReleaseStep DEF MarkFails, EndRound, Intake!Next
  <2>2. CASE Set(w, [worker[w] EXCEPT !.pc = "next", !.msg = NoMessage, !.files = {}])
    <3>1. /\ [worker[w] EXCEPT !.pc = "next", !.msg = NoMessage, !.files = {}] \in Goroutines
          /\ [worker[w] EXCEPT !.pc = "next", !.msg = NoMessage, !.files = {}].pc = "next"
          /\ [worker[w] EXCEPT !.pc = "next", !.msg = NoMessage, !.files = {}].todo = worker[w].todo
      BY <1>0 DEF Goroutines
    <3> QED BY <1>10, <2>2, <3>1, ReleaseStep DEF MarkFails, Intake!Next
  <2> QED BY <1>10, <2>1, <2>2 DEF MarkFails, AfterMarkError
<1>11. CASE Disconnect(w)
  <2>1. Hand' = Hand
    BY <1>11 DEF Disconnect, Hand, HandOf, Marking, Holding
  <2> QED BY <1>11, <2>1, UnseenIntake DEF Disconnect
<1> QED
  BY <1>1, <1>2, <1>3, <1>4, <1>5, <1>6, <1>7, <1>8, <1>9, <1>10, <1>11 DEF Round, Failure

LEMMA IntakeMaps == IntakeInv /\ [Next]_vars => [Intake!Next]_(Intake!intake)
<1> SUFFICES ASSUME IngestInv, FilesAreParsed, [Next]_vars PROVE [Intake!Next]_(Intake!intake)
  BY DEF IntakeInv
<1> USE DEF tables, history, bounds, process
<1>1. ASSUME UNCHANGED worker PROVE Hand' = Hand
  BY <1>1 DEF Hand, HandOf, Marking, Holding
<1>2. ASSUME NEW m \in Messages, Arrive(m) PROVE Intake!Next
  BY <1>1, <1>2 DEF Arrive, Intake!Next, Intake!Arrive
<1>3. ASSUME NEW m \in Messages, PersonTouches(m) PROVE Intake!Next
  BY <1>1, <1>3 DEF PersonTouches, Intake!Next, Intake!Touch
<1>4. CASE (\E u \in Users : LogIn(u)) \/ Shutdown \/ Exit \/ Restart \/ UNCHANGED vars
  BY <1>1, <1>4, UnseenIntake DEF LogIn, Shutdown, Exit, Restart, vars
<1>5. ASSUME NEW u \in Users, NEW w \in Workers, StartWorker(u, w) PROVE UNCHANGED Intake!intake
  <2>1. /\ [Waiting(u) EXCEPT !.pc = "connect"].pc = "connect"
        /\ [Waiting(u) EXCEPT !.pc = "connect"].todo = {}
    BY DEF Waiting, NoWorker
  <2> QED BY <1>5, <2>1, IdleStep DEF StartWorker
<1>6. CASE Crash
  <2>1. \A m \in Messages : HandOf(m)' = "free"
    BY <1>6 DEF Crash, NoWorker, HandOf, Marking, Holding
  <2> QED BY <1>6, <2>1, LetGoStep DEF Crash, Intake!Next
<1> QED
  BY <1>2, <1>3, <1>4, <1>5, <1>6, RoundMaps DEF Next, World

LEMMA IntakeInit == Init => Intake!Init /\ FilesAreParsed
BY DEF Init, NoWorker, Intake!Init, Hand, HandOf, Marking, Holding, FilesAreParsed

LEMMA IntakeInvariant == Spec => []IntakeInv
<1>1. Init => IntakeInv
  BY IngestInit, IntakeInit DEF IntakeInv
<1>2. IntakeInv /\ [Next]_vars => IntakeInv'
  BY IngestStep, FilesStayParsed DEF IntakeInv
<1> QED BY <1>1, <1>2, PTL DEF Spec

\* The agent does with the mailboxes what MailIntake says, for any number of users,
\* messages, goroutines and failures (worker.go, repo.go).
THEOREM IngestImplementsIntake == Spec => ImplementsIntake
BY IntakeInit, IntakeMaps, IntakeInvariant, PTL DEF Spec, ImplementsIntake, Intake!Spec
=============================================================================
