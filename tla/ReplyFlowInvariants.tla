------------------------ MODULE ReplyFlowInvariants ------------------------
(* What holds of the tokens and of the replies that are sent with them. *)
EXTENDS ReplyFlow

TokenPairs == [access : 0..issued, refresh : 0..issued]
Holding(labels) == [pc : labels, tokens : TokenPairs]

\* Every variable keeps its type; tokens stand only in a row that is there, and nothing holds a
\* token the provider did not give out.
TypeOK ==
    /\ user \in [exists : BOOLEAN, tokens : TokenPairs]
    /\ issued \in Nat /\ expired \subseteq 1..issued /\ dead \subseteq 1..issued
    /\ user.tokens # NoTokens => user.exists
    /\ login \in [Logins -> Holding({"start", "granted", "unknown", "known", "done", "failed"})]
    /\ worker \in Holding({"idle", "due", "renewed", "ready", "connected"})
    /\ lastLogin \in 0..issued /\ overlapped \in BOOLEAN
    /\ faults \in 0..events /\ events \in 0..MaxEvents
    /\ form \in [kept : BOOLEAN, shown : BOOLEAN, busy : Presses \cup {0}]
    /\ replies \in [Presses -> [web : {"none", "waiting", "sent", "failed"},
                                at : {"none", "begun", "sent", "refused", "copying",
                                      "over"},
                                token : 0..issued, accepted : BOOLEAN, rendered : BOOLEAN]]
    /\ agent \in {"up", "stopping", "waiting", "late", "down"}

\* As long as no call fails and no process is killed, the refresh token in the row is one the
\* provider still takes, but for the moment between a refresh and its save: no login and no
\* shutdown can come between them (worker.go:74, main.go:267).
StoredRefreshUsable ==
    user.tokens.refresh \in dead => worker.pc = "renewed" \/ faults > 0

\* The tokens of a login stay in the row until the worker renews them; only a refresh that was
\* under way when the login stored them may put older ones in their place (worker.go:74).
LoginSurvives == user.tokens.access >= lastLogin \/ overlapped

\* A second copy of a reply goes out only after the first was reported as not sent, or after the
\* card was rendered anew under the running request (queue.py:990, mail-render-card.js:55).
DuplicateExplained ==
    \A i, j \in Presses :
        i < j /\ replies[i].accepted /\ replies[j].accepted =>
            replies[i].web = "failed" \/ replies[i].rendered

\* A mail agent that is told to stop ends with a reply half sent only when 10 s were not enough
\* for it (main.go:262).
ShutdownFinishesReplies ==
    [][agent # "down" /\ agent' = "down" => NoneRuns \/ agent = "late" \/ faults' # faults]_vars

-----------------------------------------------------------------------------
(* Why they hold: with these the properties are kept by every step.          *)

\* A login or a worker holds tokens only beside a row.
RowStands ==
    /\ worker.tokens # NoTokens => user.exists
    /\ \A l \in Logins : login[l].pc = "known" => user.exists

\* The refresh token of a login under way is its own: nobody else has it, so the provider has
\* not replaced it.
LoginsApart ==
    \A l \in Logins :
        login[l].tokens.refresh # 0 =>
            /\ login[l].tokens.refresh \notin dead
            /\ login[l].tokens.refresh # user.tokens.refresh
            /\ login[l].tokens.refresh # worker.tokens.refresh
            /\ \A m \in Logins \ {l} : login[m].tokens.refresh # login[l].tokens.refresh

\* What the worker is about to save can be refreshed again, and is newer than every login that
\* did not come in between.
RenewedIsGood ==
    worker.pc = "renewed" =>
        /\ worker.tokens.refresh \notin dead
        /\ worker.tokens.access >= lastLogin \/ overlapped

\* A reply that was not pressed has no request, and they are pressed in order; one that is
\* under way, or was sent, from the elements of the card that still stand is the last, and
\* blocks them until its answer takes the form away.
PressesInOrder ==
    \A i \in Presses :
        /\ replies[i].web = "none" => replies[i] = NoReply
        /\ replies[i] # NoReply => \A j \in 1..(i - 1) : replies[j] # NoReply
        /\ replies[i].web \in {"waiting", "sent"} /\ ~replies[i].rendered =>
              /\ \A j \in Presses : j > i => replies[j] = NoReply
              /\ IF replies[i].web = "waiting" THEN form.busy = i
                 ELSE ~form.kept /\ ~form.shown

\* The agent waits for its workers in good time only after its last handler.
HandlersDone == agent = "waiting" => NoneRuns

ReplyInv ==
    /\ TypeOK /\ RowStands
    /\ LoginsApart /\ RenewedIsGood /\ StoredRefreshUsable /\ LoginSurvives
    /\ PressesInOrder
    /\ HandlersDone

-----------------------------------------------------------------------------
(* Liveness                                                                  *)

Usable ==
    /\ user.tokens.access # 0
    /\ user.tokens.access \in expired => Refreshable(user.tokens)

\* As long as the row holds tokens that are good for something, the mailbox is connected again
\* after every break, whatever logins came between (worker.go:43).  It is about getConnectedClient
\* when it is called; what keeps a round from its end is MailIngest's matter (email.go:346).
MailboxServed == <>[](agent = "up" /\ Usable) => []<>(worker.pc = "connected")
=============================================================================
