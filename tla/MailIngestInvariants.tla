------------------------ MODULE MailIngestInvariants ------------------------
(* What makes the safety properties of MailIngest inductive: what a worker  *)
(* holds while its message is between the mailbox and the tables.           *)
EXTENDS MailIngest

Running(w) == worker[w].pc # "free"

\* activeWorkers knows every worker, and a process that is down has none.
WorkersActive ==
    /\ \A w \in Workers : Running(w) => worker[w].user \in active
    /\ agent = "down" => active = {}

\* A worker deals with its own mailbox.
OwnMailbox(w) ==
    /\ \A m \in worker[w].todo : Owner[m] = worker[w].user
    /\ worker[w].pc \in {"save", "mark"} => Owner[worker[w].msg] = worker[w].user
    /\ worker[w].pc \in {"free", "wait", "connect", "list"} => worker[w].todo = {}

\* Message m is new to the tables, unless something went wrong with it before.
NotStoredYet(m) == tasks[m] = 0 \/ m \in interrupted \/ m \in touched

TodoIsNew(w) ==
    \A m \in worker[w].todo :
        NotStoredYet(m) /\ ~(worker[w].pc \in {"save", "mark"} /\ worker[w].msg = m)

\* While a message is saved: what is not left to upload is in the bucket, all
\* attachments are at hand unless the connection broke, and it was not stored before.
SaveJustified(w) ==
    worker[w].pc = "save" =>
        /\ worker[w].files \ worker[w].left \subseteq bucket
        /\ worker[w].files = FilesOf[worker[w].msg] \/ link[w] = "dead"
        /\ NotStoredYet(worker[w].msg)

\* While a message is marked: it has an order, or its save was refused; and its
\* attachments are stored, or the connection is broken and it cannot be marked.
MarkJustified(w) ==
    worker[w].pc = "mark" =>
        /\ tasks[worker[w].msg] > 0 \/ worker[w].msg \in refused
        /\ \/ FilesOf[worker[w].msg] \subseteq documents
           \/ worker[w].msg \in refused
           \/ link[w] = "dead"

HandJustified(w) ==
    /\ OwnMailbox(w)
    /\ TodoIsNew(w)
    /\ SaveJustified(w)
    /\ MarkJustified(w)

\* An order whose message is not marked yet is in the hands of a worker, who will
\* mark it.
StoredIsMarked ==
    \A m \in Messages :
        tasks[m] > 0 =>
            \/ m \in seen \/ m \in interrupted \/ m \in touched
            \/ \E w \in Workers : worker[w].pc = "mark" /\ worker[w].msg = m

\* What every worker holds is justified by the server, the tables and the bucket.
HandsJustified ==
    /\ WorkersActive
    /\ \A w \in Workers : HandJustified(w)
    /\ StoredIsMarked

IngestInv ==
    /\ TypeOK
    /\ OneWorkerPerUser
    /\ HandsJustified
    /\ SeenIsStored
    /\ SeenIsComplete
    /\ SecondOrderExplained
    /\ DocumentsAreStored

=============================================================================
