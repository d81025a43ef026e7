----------------------------- MODULE ReplyFlow -----------------------------
(***************************************************************************)
(* A reply of an operator: the form on the card of an email, the request   *)
(* of the browser that the frontend passes on to the mail agent and waits  *)
(* 60 s for, the handler that sends it over SMTP with the stored token,    *)
(* the goroutine that files a copy in Sent, and the agent's shutdown.      *)
(***************************************************************************)
EXTENDS MailTokens

CONSTANTS MaxReplies  \* bound: times Send is pressed

ASSUME ReplyBound == MaxReplies \in Nat

VARIABLES
    form,    \* the form, and what the page remembers of it
    replies, \* the requests, by the press of Send
    agent    \* the process of the mail agent

replyVars == <<form, replies, agent>>
vars == <<tokenVars, replyVars>>

Presses == 1..MaxReplies

\* web: what the browser knows; at: where the handler of the agent is, and after it the
\* goroutine that files the copy; token: the access token it read; accepted: the SMTP server
\* took the message; rendered: history, the card was rendered anew while the browser waited.
NoReply == [web |-> "none", at |-> "none", token |-> 0, accepted |-> FALSE, rendered |-> FALSE]

Running(r) == r.at \in {"begun", "sent", "refused"}
Waiting(r) == r.web = "waiting"

-----------------------------------------------------------------------------
(* renderEmailCard.  kept is what openReplyForms and replyDrafts have, shown *)
(* and busy what the elements of the card have since they were rendered.     *)

NoForm == [kept |-> FALSE, shown |-> FALSE, busy |-> 0]

Browse == UNCHANGED <<tokenVars, agent>>

\* The form is opened and the text written.  The bound: one text, so that a second message is
\* a second copy.
WriteReply ==
    /\ ~form.shown
    /\ \A i \in Presses : replies[i] = NoReply
    /\ form' = [form EXCEPT !.kept = TRUE, !.shown = TRUE]
    /\ UNCHANGED replies
    /\ Browse

Cancel ==
    /\ form.shown
    /\ form.busy = 0
    /\ form' = NoForm
    /\ UNCHANGED replies
    /\ Browse

\* By a click on an email, or by a silent refresh: once Send is pressed the text has lost the
\* focus, and isReplyInputProtected looks for the id of the task where the id of the email is
\* kept.  The card then shows the form again, with the draft and a button that is not disabled.
Render ==
    /\ form' = [form EXCEPT !.shown = form.kept, !.busy = 0]
    /\ replies' = [i \in Presses |->
                      [replies[i] EXCEPT !.rendered = @ \/ Waiting(replies[i])]]
    /\ Browse

\* The button is disabled until the answer comes.
Enabled == TRUE
NotBusy == form.busy = 0

Press(i) ==
    /\ Event
    /\ form.shown
    /\ NotBusy
    /\ replies[i] = NoReply
    /\ \A j \in 1..(i - 1) : replies[j] # NoReply
    /\ replies' = [replies EXCEPT ![i].web = "waiting"]
    /\ form' = [form EXCEPT !.busy = i]
    /\ UNCHANGED <<user, granted, login, worker, lastLogin, overlapped, faults, agent>>

\* A reply that was sent takes the draft away, but empties and hides only the elements it was
\* sent from.
Told(i, result) ==
    LET mine == form.busy = i
    IN  form' = IF result = "sent"
                THEN IF mine THEN NoForm ELSE [form EXCEPT !.kept = FALSE]
                ELSE [form EXCEPT !.busy = IF mine THEN 0 ELSE @]

-----------------------------------------------------------------------------
(* The handler of /emails/{id}/reply, ReplyToEmail and sendRawMessage       *)

\* GetUserMailAuth, with the token as it is.
Begin(i) ==
    /\ Waiting(replies[i])
    /\ replies[i].at = "none"
    /\ agent = "up"
    /\ replies' = [replies EXCEPT
          ![i].at = IF user.tokens.access = 0 THEN "refused" ELSE "begun",
          ![i].token = user.tokens.access]
    /\ UNCHANGED <<tokenVars, form, agent>>

\* The message is taken, and the goroutine is started.
SmtpAccepts(i) ==
    /\ replies[i].at = "begun"
    /\ replies[i].token \notin expired
    /\ replies' = [replies EXCEPT ![i].at = "sent", ![i].accepted = TRUE, ![i].token = 0]
    /\ UNCHANGED <<tokenVars, form, agent>>

\* The token is refused, or the connection breaks, before or after the message is taken.
SmtpFails(i) ==
    /\ replies[i].at = "begun"
    /\ \/ /\ replies[i].token \in expired
          /\ replies' = [replies EXCEPT ![i].at = "refused", ![i].token = 0]
          /\ UNCHANGED <<faults, events>>
       \/ /\ Fault
          /\ \E taken \in BOOLEAN :
                replies' = [replies EXCEPT ![i].at = "refused", ![i].accepted = taken,
                                           ![i].token = 0]
    /\ UNCHANGED <<user, granted, login, worker, lastLogin, overlapped, form, agent>>

Answer(i) ==
    /\ replies[i].at \in {"sent", "refused"}
    /\ LET result == IF replies[i].at = "sent" THEN "sent" ELSE "failed"
       IN  /\ replies' = [replies EXCEPT
                 ![i].at = IF result = "sent" THEN "copying" ELSE "over",
                 ![i].web = IF Waiting(replies[i]) THEN result ELSE @]
           /\ IF Waiting(replies[i]) THEN Told(i, result) ELSE UNCHANGED form
    /\ Browse

\* httpx.RequestError: 60 s are over, the agent is not there or has died under the request.
TimesOut(i) ==
    /\ Waiting(replies[i])
    /\ replies' = [replies EXCEPT ![i].web = "failed"]
    /\ Told(i, "failed")
    /\ Browse

\* appendToSent runs beside the answer and touches nothing of it, so its end may stand after it:
\* with the copy in Sent, or with an error that is printed.
CopyEnds(i) ==
    /\ replies[i].at = "copying"
    /\ replies' = [replies EXCEPT ![i].at = "over"]
    /\ UNCHANGED <<tokenVars, form, agent>>

-----------------------------------------------------------------------------
(* main of the mail agent                                                   *)

\* The process ends, and with it every goroutine.
Ended ==
    /\ agent' = "down"
    /\ worker' = Step("idle", NoTokens)
    /\ replies' = [i \in Presses |->
                      [replies[i] EXCEPT !.token = 0, !.at = IF @ = "none" THEN @ ELSE "over"]]
    /\ UNCHANGED <<user, granted, login, lastLogin, overlapped, form>>

\* A signal: the server takes no more requests.
Shutdown ==
    /\ agent = "up"
    /\ Event
    /\ agent' = "stopping"
    /\ UNCHANGED <<user, granted, login, worker, lastLogin, overlapped, faults, form, replies>>

\* replyServer.Shutdown returns when no handler runs, or after 10 s.
NoneRuns == \A i \in Presses : ~Running(replies[i])
ServerCloses ==
    /\ agent = "stopping"
    /\ agent' = "waiting"
    /\ UNCHANGED <<tokenVars, form, replies>>
ServerStops ==
    /\ agent = "stopping"
    /\ \/ NoneRuns /\ agent' = "waiting"
       \/ ~NoneRuns /\ agent' = "late"
    /\ UNCHANGED <<tokenVars, form, replies>>

\* wg.Wait: a worker that is connecting is not interrupted.
WaitNot == TRUE
WorkerStopped == worker.pc \in {"idle", "connected"}
Exit ==
    /\ agent \in {"waiting", "late"}
    /\ WorkerStopped
    /\ Ended
    /\ UNCHANGED <<faults, events>>

Kill ==
    /\ agent # "down"
    /\ Fault
    /\ Ended

Restart ==
    /\ agent = "down"
    /\ agent' = "up"
    /\ UNCHANGED <<tokenVars, form, replies>>

-----------------------------------------------------------------------------

Init ==
    /\ TokenInit
    /\ form = NoForm
    /\ replies = [i \in Presses |-> NoReply]
    /\ agent = "up"

Reply(i) ==
    Press(i) \/ Begin(i) \/ SmtpAccepts(i) \/ SmtpFails(i) \/ Answer(i) \/ TimesOut(i) \/ CopyEnds(i)

Connecting == agent # "down" /\ Client

Tokens == Connecting \/ Disconnect \/ Expire \/ \E l \in Logins : Login(l)

Next ==
    \/ Tokens /\ UNCHANGED replyVars
    \/ WriteReply \/ Cancel \/ Render
    \/ \E i \in Presses : Reply(i)
    \/ Shutdown \/ ServerStops \/ Exit \/ Kill \/ Restart

Spec == Init /\ [][Next]_vars

\* The worker's ticker makes it try again.  Nothing is assumed of people or of the rest.
Fairness == WF_vars(Connecting /\ UNCHANGED replyVars)
FairSpec == Spec /\ Fairness
=============================================================================
