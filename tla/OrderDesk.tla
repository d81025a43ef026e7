----------------------------- MODULE OrderDesk ------------------------------
(***************************************************************************)
(* What OrdersAgent promises of an order, without processor, batches,      *)
(* snapshots or requests: a task waits for the machine ("queued") or for a *)
(* person, or is closed; files exist only for documents whose parts are    *)
(* accounted for; the dictionary learns from operators only; a task is     *)
(* "done" only when there is something to download.                        *)
(***************************************************************************)
CONSTANTS Tasks, Emails, EmailOf, Docs, DocsOf, Parts, PartsOf

VARIABLES
    stage,      \* of each task
    files,      \* <<document, variant>> there is to download
    dictionary, \* the parts that have an entry
    answered    \* the tasks an operator answered

desk == <<stage, files, dictionary, answered>>

DocsOfTask(t) == DocsOf[EmailOf[t]]
PartsOfTask(t) == UNION {PartsOf[d] : d \in DocsOfTask(t)}

Init ==
    /\ stage = [t \in Tasks |-> "absent"]
    /\ files = {}
    /\ dictionary \subseteq Parts
    /\ answered = {}

Move(t, s) ==
    /\ stage[t] # "absent"
    /\ stage' = [stage EXCEPT ![t] = s]

Receive(t) ==
    /\ stage[t] = "absent"
    /\ stage' = [stage EXCEPT ![t] = "queued"]
    /\ UNCHANGED <<files, dictionary, answered>>

\* The machine or an operator sends a task back, sorts it out or gives it up.
Route(t) ==
    /\ \E s \in {"queued", "question", "triage", "failed"} : Move(t, s)
    /\ UNCHANGED <<files, dictionary, answered>>

\* Each part of the document has an entry, or somebody answered for the document.
Accounted(d) ==
    \A p \in PartsOf[d] :
        p \in dictionary \/ \E t \in answered : d \in DocsOfTask(t)

DeliverMain(d) ==
    /\ Accounted(d)
    /\ files' = files \cup {<<d, "main">>}
    /\ UNCHANGED <<stage, dictionary, answered>>

\* The file with the articles comes second.
DeliverArticles(d) ==
    /\ <<d, "main">> \in files
    /\ files' = files \cup {<<d, "articles">>}
    /\ UNCHANGED <<stage, dictionary, answered>>

Ask(t) ==
    /\ PartsOfTask(t) # {}
    /\ Move(t, "asking")
    /\ UNCHANGED <<files, dictionary, answered>>

Answer(t) ==
    /\ PartsOfTask(t) # {}
    /\ Move(t, "queued")
    /\ answered' = answered \cup {t}
    /\ UNCHANGED <<files, dictionary>>

Learn(t) ==
    /\ t \in answered
    /\ \E new \in SUBSET PartsOfTask(t) : dictionary' = dictionary \cup new
    /\ UNCHANGED <<stage, files, answered>>

Finish(t) ==
    /\ \E d \in DocsOfTask(t) : <<d, "main">> \in files
    /\ Move(t, "done")
    /\ UNCHANGED <<files, dictionary, answered>>

Next ==
    \/ \E t \in Tasks : Receive(t) \/ Route(t) \/ Ask(t) \/ Answer(t) \/ Learn(t) \/ Finish(t)
    \/ \E d \in Docs : DeliverMain(d) \/ DeliverArticles(d)

Spec == Init /\ [][Next]_desk

=============================================================================
