-------------------------- MODULE ReplyFlowProofs --------------------------
(* ReplyFlow keeps the invariant ReplyInv, and with it every safety         *)
(* property of ReplyFlowInvariants.                                         *)
EXTENDS ReplyFlowInvariants, TLAPS

-----------------------------------------------------------------------------
(* Who writes what *)

\* The steps that touch a token.
TokenStep ==
    \/ \E l \in Logins : Login(l)
    \/ Client \/ Disconnect \/ Expire
    \/ Ended /\ WorkerStopped /\ UNCHANGED <<faults, events>>
    \/ Ended /\ Fault

\* The steps that touch only the counters of the bound besides the reply.
LEMMA TokensWritten ==
    ASSUME [Next]_vars
    PROVE  \/ TokenStep
           \/ /\ UNCHANGED <<user, granted, login, worker, lastLogin, overlapped>>
              /\ UNCHANGED <<faults, events>> \/ Fault \/ (Event /\ UNCHANGED faults)
<1> DEFINE Counted == UNCHANGED <<faults, events>> \/ Fault \/ (Event /\ UNCHANGED faults)
           Kept == UNCHANGED <<user, granted, login, worker, lastLogin, overlapped>>
<1>1. CASE Tokens \/ Exit \/ Kill
  BY <1>1 DEF TokenStep, Tokens, Connecting, Exit, Kill
<1>2. CASE WriteReply \/ Cancel \/ Render \/ Shutdown \/ ServerStops \/ Restart \/ UNCHANGED vars
  BY <1>2 DEF WriteReply, Cancel, Render, Shutdown, ServerStops, Restart, Browse, vars, tokenVars
<1>3. ASSUME NEW i \in Presses, Reply(i) PROVE Kept /\ Counted
  BY <1>3 DEF Reply, Press, Begin, SmtpAccepts, SmtpFails, Answer, TimesOut, CopyEnds, Browse,
     tokenVars
<1> QED BY <1>1, <1>2, <1>3 DEF Next

\* The tokens are not written by the steps of a reply, but for the end of the agent.
ReplyStep ==
    \/ WriteReply \/ Cancel \/ Render
    \/ \E i \in Presses : Reply(i)
    \/ Shutdown \/ ServerStops \/ Exit \/ Kill \/ Restart

LEMMA RepliesWritten == [Next]_vars => ReplyStep \/ UNCHANGED replyVars
BY DEF Next, ReplyStep, Tokens, Connecting, vars, tokenVars, granted, replyVars

-----------------------------------------------------------------------------
(* Types *)

TokensTyped ==
    /\ user \in [exists : BOOLEAN, tokens : TokenPairs]
    /\ issued \in Nat /\ expired \subseteq 1..issued /\ dead \subseteq 1..issued
    /\ user.tokens # NoTokens => user.exists
    /\ login \in [Logins -> Holding({"start", "granted", "unknown", "known", "done", "failed"})]
    /\ worker \in Holding({"idle", "due", "renewed", "ready", "connected"})
    /\ lastLogin \in 0..issued /\ overlapped \in BOOLEAN

CountersTyped == faults \in 0..events /\ events \in 0..MaxEvents

RepliesTyped ==
    /\ form \in [kept : BOOLEAN, shown : BOOLEAN, busy : Presses \cup {0}]
    /\ replies \in [Presses -> [web : {"none", "waiting", "sent", "failed"},
                                at : {"none", "begun", "sent", "refused", "copying",
                                      "over"},
                                token : 0..issued, accepted : BOOLEAN, rendered : BOOLEAN]]
    /\ agent \in {"up", "stopping", "waiting", "late", "down"}

LEMMA TypeParts == TypeOK <=> TokensTyped /\ CountersTyped /\ RepliesTyped
BY DEF TypeOK, TokensTyped, CountersTyped, RepliesTyped

LEMMA NoTokensType == issued \in Nat => NoTokens \in TokenPairs
BY DEF NoTokens, TokenPairs

LEMMA InitType == Init => TypeOK /\ RowStands
<1> SUFFICES ASSUME Init PROVE TypeOK /\ RowStands
  OBVIOUS
<1>1. TokensTyped /\ RowStands
  <2>1. /\ issued = 0 /\ expired = {} /\ dead = {} /\ lastLogin = 0 /\ overlapped = FALSE
        /\ user = [exists |-> FALSE, tokens |-> NoTokens]
        /\ worker = Step("idle", NoTokens)
        /\ login = [l \in Logins |-> Step("start", NoTokens)]
    BY DEF Init, TokenInit
  <2>2. NoTokens \in TokenPairs
    BY <2>1, NoTokensType
  <2>3. /\ worker \in Holding({"idle", "due", "renewed", "ready", "connected"})
        /\ login \in [Logins ->
                         Holding({"start", "granted", "unknown", "known", "done", "failed"})]
    BY <2>1, <2>2 DEF Step, Holding
  <2>4. user \in [exists : BOOLEAN, tokens : TokenPairs]
    BY <2>1, <2>2
  <2>5. TokensTyped
    <3>1. user.tokens = NoTokens /\ issued \in Nat /\ lastLogin \in 0..issued
      BY <2>1
    <3>2. expired \subseteq 1..issued /\ dead \subseteq 1..issued /\ overlapped \in BOOLEAN
      BY <2>1
    <3> QED BY <2>3, <2>4, <3>1, <3>2 DEF TokensTyped
  <2> QED BY <2>1, <2>5 DEF RowStands, Step
<1>2. CountersTyped
  BY TokenBounds DEF Init, TokenInit, CountersTyped
<1>3. RepliesTyped
  BY ReplyBound DEF Init, TokenInit, RepliesTyped, NoForm, NoReply, Presses
<1> QED BY <1>1, <1>2, <1>3, TypeParts

LEMMA CountersStep ==
    ASSUME TypeOK, [Next]_vars PROVE CountersTyped'
<1> USE TokenBounds DEF CountersTyped, TypeOK, Fault, Event
<1>1. CASE TokenStep
  <2>1. \/ UNCHANGED <<faults, events>>
        \/ Fault
        \/ Event /\ UNCHANGED faults
    BY <1>1 DEF TokenStep, Login, GetTokens, LookUp, Insert, Store, LoginFails, Client,
       ReadTokens, Refresh, RefreshFails, SaveTokens, SaveTokensFails, Connect, ConnectFails,
       Disconnect, Expire
  <2> QED BY <2>1
<1>2. CASE UNCHANGED <<faults, events>> \/ Fault \/ (Event /\ UNCHANGED faults)
  BY <1>2
<1> QED BY <1>1, <1>2, TokensWritten

\* What a login or the worker holds stays typed when the provider gives out more.
LEMMA MoreIssued ==
    ASSUME issued \in Nat, issued' \in Nat, issued <= issued'
    PROVE  /\ TokenPairs \subseteq TokenPairs'
           /\ 1..issued \subseteq 1..issued' /\ 0..issued \subseteq 0..issued'
           /\ \A labels : Holding(labels) \subseteq Holding(labels)'
BY DEF TokenPairs, Holding

LEMMA LoginType ==
    ASSUME TokensTyped, RowStands, NEW l \in Logins, Login(l)
    PROVE  TokensTyped' /\ RowStands'
<1> USE DEF TokensTyped, RowStands
<1> HIDE DEF TokenPairs, Holding
<1>1. CASE GetTokens(l)
  <2>1. PICK r \in {0, issued + 1} :
           login' = [login EXCEPT ![l] = Step("granted", [access |-> issued + 1, refresh |-> r])]
    BY <1>1 DEF GetTokens
  <2>2. /\ issued' \in Nat /\ issued <= issued'
        /\ UNCHANGED <<user, expired, dead, worker, lastLogin, overlapped>>
    BY <1>1 DEF GetTokens
  <2>3. [access |-> issued + 1, refresh |-> r] \in TokenPairs'
    BY <1>1 DEF GetTokens, TokenPairs
  <2>4. Step("granted", [access |-> issued + 1, refresh |-> r]) \in
           Holding({"start", "granted", "unknown", "known", "done", "failed"})'
    BY <2>3 DEF Step, Holding
  <2>5. TokensTyped'
    BY <2>1, <2>2, <2>4, MoreIssued
  <2> QED BY <2>1, <2>2, <2>5 DEF Step
<1>2. CASE LookUp(l)
  BY <1>2 DEF LookUp, To, granted, Holding, TokenPairs
<1>3. CASE Insert(l)
  <2>1. CASE user.exists
    BY <1>3, <2>1, NoTokensType DEF Insert, Over, Step, granted, Holding, TokenPairs
  <2>2. CASE ~user.exists
    <3>1. /\ login' = [login EXCEPT ![l].pc = "known"]
          /\ user' = [user EXCEPT !.exists = TRUE]
          /\ UNCHANGED <<issued, expired, dead, worker, lastLogin, overlapped>>
      BY <1>3, <2>2 DEF Insert, To, granted
    <3> QED BY <3>1 DEF Holding, TokenPairs
  <2> QED BY <2>1, <2>2
<1>4. CASE Store(l)
  BY <1>4, NoTokensType DEF Store, Over, Step, granted, Holding, TokenPairs
<1>5. CASE LoginFails(l)
  BY <1>5, NoTokensType DEF LoginFails, Over, Step, granted, Holding, TokenPairs
<1> QED BY <1>1, <1>2, <1>3, <1>4, <1>5 DEF Login

LEMMA WorkerType ==
    ASSUME TokensTyped, RowStands, Client \/ Disconnect \/ Expire
    PROVE  TokensTyped' /\ RowStands'
<1> USE DEF TokensTyped, RowStands
<1>1. CASE ReadTokens
  BY <1>1 DEF ReadTokens, MailAuth, Step, granted, Holding, TokenPairs, NoTokens
<1>2. CASE Refresh
  <2>1. PICK rotated \in BOOLEAN :
           /\ worker' = Step("renewed", Renewed(rotated))
           /\ dead' = IF rotated THEN dead \cup {worker.tokens.refresh} ELSE dead
    BY <1>2 DEF Refresh
  <2>2. /\ issued' \in Nat /\ issued <= issued' /\ worker.tokens # NoTokens
        /\ UNCHANGED <<user, expired, login, lastLogin, overlapped>>
    BY <1>2 DEF Refresh, Refreshable, NoTokens
  <2>3. Renewed(rotated) \in TokenPairs'
    BY <1>2 DEF Refresh, Renewed, TokenPairs, Holding
  <2>4. worker' \in Holding({"idle", "due", "renewed", "ready", "connected"})'
    BY <2>1, <2>3 DEF Step, Holding
  <2>5. worker.tokens.refresh \in 1..issued
    BY <1>2 DEF Refresh, Refreshable, Holding, TokenPairs
  <2>6. dead' \subseteq 1..issued'
    BY <2>1, <2>2, <2>5, MoreIssued
  <2> QED BY <2>2, <2>4, <2>6, MoreIssued
<1>3. CASE RefreshFails
  <2>1. worker.tokens.refresh \in 0..issued
    BY DEF Holding, TokenPairs
  <2>2. \A n \in dead' : n \in dead \/ (n = worker.tokens.refresh /\ n # 0)
    BY <1>3 DEF RefreshFails
  <2>3. dead' \subseteq 1..issued
    <3>1. worker.tokens.refresh # 0 => worker.tokens.refresh \in 1..issued
      BY <2>1
    <3> QED BY <2>2, <3>1
  <2>4. /\ worker' = Step("idle", NoTokens)
        /\ UNCHANGED <<user, issued, expired, login, lastLogin, overlapped>>
    BY <1>3 DEF RefreshFails, GiveUp
  <2>5. worker' \in Holding({"idle", "due", "renewed", "ready", "connected"})'
    BY <2>4, NoTokensType DEF Step, Holding, TokenPairs
  <2>6. TokensTyped'
    BY <2>3, <2>4, <2>5 DEF Holding, TokenPairs
  <2> QED BY <2>4, <2>6 DEF Step
<1>4. CASE SaveTokens
  <2>1. /\ user' = [user EXCEPT !.tokens = worker.tokens]
        /\ worker' = [worker EXCEPT !.pc = "ready"]
        /\ UNCHANGED <<issued, expired, dead, login, lastLogin, overlapped>>
    BY <1>4 DEF SaveTokens, granted
  <2>2. worker.tokens \in TokenPairs /\ TokenPairs' = TokenPairs
    BY <2>1 DEF Holding, TokenPairs
  <2>3. /\ user' \in [exists : BOOLEAN, tokens : TokenPairs]
        /\ user'.tokens = worker.tokens /\ user'.exists = user.exists
    BY <2>1, <2>2
  <2>4. /\ worker' \in Holding({"idle", "due", "renewed", "ready", "connected"})
        /\ worker'.tokens = worker.tokens
    BY <2>1 DEF Holding
  <2> QED BY <2>1, <2>2, <2>3, <2>4 DEF Holding
<1>5. CASE SaveTokensFails \/ ConnectFails \/ Disconnect
  <2>1. /\ worker' = Step("idle", NoTokens)
        /\ UNCHANGED <<user, issued, expired, dead, login, lastLogin, overlapped>>
    BY <1>5 DEF SaveTokensFails, ConnectFails, Disconnect, GiveUp, granted
  <2> QED BY <2>1, NoTokensType DEF Step, Holding, TokenPairs
<1>6. CASE Connect
  BY <1>6, NoTokensType DEF Connect, Step, granted, Holding, TokenPairs
<1>7. CASE Expire
  BY <1>7 DEF Expire, Holding, TokenPairs
<1> QED BY <1>1, <1>2, <1>3, <1>4, <1>5, <1>6, <1>7 DEF Client

LEMMA EndedType ==
    ASSUME TokensTyped, RowStands, Ended
    PROVE  TokensTyped' /\ RowStands'
BY NoTokensType
   DEF TokensTyped, RowStands, Ended, Step, granted, Holding, TokenPairs

LEMMA TokensType ==
    ASSUME TypeOK, RowStands, [Next]_vars
    PROVE  TokensTyped' /\ RowStands'
<1>1. CASE TokenStep
  BY <1>1, LoginType, WorkerType, EndedType, TypeParts DEF TokenStep
<1>2. CASE UNCHANGED <<user, granted, login, worker, lastLogin, overlapped>>
  BY <1>2, TypeParts DEF TokensTyped, RowStands, Holding, TokenPairs, granted
<1> QED BY <1>1, <1>2, TokensWritten

\* The provider never gives out less.
LEMMA IssuedGrows ==
    ASSUME TypeOK, [Next]_vars PROVE issued <= issued'
<1>1. CASE TokenStep
  <2>1. issued' = issued + 1 \/ UNCHANGED issued
    <3>1. ASSUME NEW l \in Logins, Login(l) PROVE issued' = issued + 1 \/ UNCHANGED issued
      BY <3>1 DEF Login, GetTokens, LookUp, Insert, Store, LoginFails, granted
    <3>2. CASE Client
      BY <3>2 DEF Client, ReadTokens, Refresh, RefreshFails, SaveTokens, SaveTokensFails,
         Connect, ConnectFails, granted
    <3>3. CASE Disconnect \/ Expire \/ Ended
      BY <3>3 DEF Disconnect, Expire, Ended, granted
    <3> QED BY <1>1, <3>1, <3>2, <3>3 DEF TokenStep
  <2> QED BY <2>1 DEF TypeOK
<1>2. CASE UNCHANGED granted
  BY <1>2 DEF TypeOK, granted
<1> QED BY <1>1, <1>2, TokensWritten

LEMMA RepliesType ==
    ASSUME TypeOK, RowStands, [Next]_vars
    PROVE  RepliesTyped'
<1> DEFINE Webs == {"none", "waiting", "sent", "failed"}
           Labels == {"none", "begun", "sent", "refused", "copying", "over"}
           Records == [web : Webs, at : Labels,
                       token : 0..issued, accepted : BOOLEAN, rendered : BOOLEAN]
           Forms == [kept : BOOLEAN, shown : BOOLEAN, busy : Presses \cup {0}]
           Agents == {"up", "stopping", "waiting", "late", "down"}
<1>1. /\ form \in Forms /\ replies \in [Presses -> Records] /\ agent \in Agents
      /\ issued \in Nat /\ issued' \in Nat /\ issued <= issued'
  BY TokensType, IssuedGrows DEF TypeOK, TokensTyped
<1>2. Records \subseteq Records'
  <2>1. 0..issued \subseteq 0..issued'
    BY <1>1
  <2> QED BY <2>1
<1>3. SUFFICES form' \in Forms /\ replies' \in [Presses -> Records] /\ agent' \in Agents
  BY <1>2 DEF RepliesTyped
<1>4. NoForm \in Forms
  BY DEF NoForm
<1>5. ASSUME NEW r \in Records
      PROVE  /\ \A w \in Webs : [r EXCEPT !.web = w] \in Records
             /\ \A a \in Labels : /\ [r EXCEPT !.at = a] \in Records
                                  /\ [r EXCEPT !.token = 0, !.at = a] \in Records
                                  /\ \A n \in 0..issued :
                                        [r EXCEPT !.at = a, !.token = n] \in Records
                                  /\ \A w \in Webs : [r EXCEPT !.at = a, !.web = w] \in Records
                                  /\ \A b \in BOOLEAN :
                                        [r EXCEPT !.at = a, !.accepted = b, !.token = 0] \in Records
             /\ \A b \in BOOLEAN : [r EXCEPT !.rendered = b] \in Records
             /\ r.at \in Labels /\ r.web \in Webs
  <2>1. /\ r = [web |-> r.web, at |-> r.at, token |-> r.token, accepted |-> r.accepted,
               rendered |-> r.rendered]
        /\ r.web \in Webs /\ r.at \in Labels /\ r.token \in 0..issued
        /\ r.accepted \in BOOLEAN /\ r.rendered \in BOOLEAN /\ 0 \in 0..issued
    BY <1>1
  <2>2. ASSUME NEW w \in Webs PROVE [r EXCEPT !.web = w] \in Records
    BY <2>1
  <2>3. ASSUME NEW a \in Labels
        PROVE  [r EXCEPT !.at = a] \in Records /\ [r EXCEPT !.token = 0, !.at = a] \in Records
    BY <2>1
  <2>4. ASSUME NEW a \in Labels, NEW n \in 0..issued
        PROVE  [r EXCEPT !.at = a, !.token = n] \in Records
    BY <2>1
  <2>5. ASSUME NEW a \in Labels, NEW w \in Webs
        PROVE  [r EXCEPT !.at = a, !.web = w] \in Records
    BY <2>1
  <2>6. ASSUME NEW a \in Labels, NEW b \in BOOLEAN
        PROVE  [r EXCEPT !.at = a, !.accepted = b, !.token = 0] \in Records
    BY <2>1
  <2>7. ASSUME NEW b \in BOOLEAN PROVE [r EXCEPT !.rendered = b] \in Records
    BY <2>1
  <2> HIDE DEF Records
  <2> QED BY <2>1, <2>2, <2>3, <2>4, <2>5, <2>6, <2>7
<1>6. ASSUME NEW i \in Presses, NEW r \in Records, replies' = [replies EXCEPT ![i] = r]
      PROVE  replies' \in [Presses -> Records]
  BY <1>1, <1>6
<1> HIDE DEF Records
<1>7. CASE UNCHANGED replyVars
  BY <1>1, <1>7 DEF replyVars
<1>8. CASE WriteReply \/ Cancel
  BY <1>1, <1>4, <1>8 DEF WriteReply, Cancel, Browse
<1>9. CASE Render
  <2>1. form' = [form EXCEPT !.shown = form.kept, !.busy = 0] /\ agent' = agent
    BY <1>9 DEF Render, Browse
  <2>2. \A i \in Presses : [replies[i] EXCEPT !.rendered = @ \/ Waiting(replies[i])] \in Records
    BY <1>1, <1>5
  <2> QED BY <1>1, <1>9, <2>1, <2>2 DEF Render
<1>10. ASSUME NEW i \in Presses, Reply(i)
       PROVE  form' \in Forms /\ replies' \in [Presses -> Records] /\ agent' \in Agents
  <2> DEFINE r == replies[i]
  <2>1. r \in Records /\ r.at \in Labels /\ r.web \in Webs
    BY <1>1, <1>5
  <2>2. ASSUME NEW result \in {"sent", "failed"}, Told(i, result) PROVE form' \in Forms
    BY <1>1, <1>4, <2>2 DEF Told
  <2>3. CASE Press(i)
    <3>1. replies' = [replies EXCEPT ![i] = [r EXCEPT !.web = "waiting"]]
      BY <1>1, <2>3 DEF Press
    <3> QED BY <1>1, <1>5, <1>6, <2>1, <2>3, <3>1 DEF Press
  <2>4. CASE Begin(i)
    <3>1. user.tokens.access \in 0..issued
      BY DEF TypeOK, TokenPairs
    <3>2. PICK a \in Labels : replies' = [replies EXCEPT ![i] =
                                             [r EXCEPT !.at = a, !.token = user.tokens.access]]
      BY <1>1, <2>4 DEF Begin
    <3> QED BY <1>1, <1>5, <1>6, <2>1, <2>4, <3>1, <3>2 DEF Begin
  <2>5. CASE SmtpAccepts(i)
    <3>1. replies' = [replies EXCEPT ![i] =
                         [r EXCEPT !.at = "sent", !.accepted = TRUE, !.token = 0]]
      BY <1>1, <2>5 DEF SmtpAccepts
    <3> QED BY <1>1, <1>5, <1>6, <2>1, <2>5, <3>1 DEF SmtpAccepts
  <2>6. CASE SmtpFails(i)
    <3>1. \/ replies' = [replies EXCEPT ![i] = [r EXCEPT !.at = "refused", !.token = 0]]
          \/ \E taken \in BOOLEAN :
                replies' = [replies EXCEPT ![i] =
                               [r EXCEPT !.at = "refused", !.accepted = taken, !.token = 0]]
      BY <1>1, <2>6 DEF SmtpFails
    <3>2. 0 \in 0..issued
      BY <1>1
    <3>3. replies' \in [Presses -> Records]
      BY <1>5, <1>6, <2>1, <3>1, <3>2
    <3> QED BY <1>1, <2>6, <3>3 DEF SmtpFails
  <2>7. CASE Answer(i)
    <3>1. PICK a \in Labels, w \in Webs :
             replies' = [replies EXCEPT ![i] = [r EXCEPT !.at = a, !.web = w]]
      BY <1>1, <2>1, <2>7 DEF Answer
    <3>2. replies' \in [Presses -> Records]
      BY <1>5, <1>6, <2>1, <3>1
    <3>3. form' \in Forms /\ agent' = agent
      BY <1>1, <2>2, <2>7 DEF Answer, Browse
    <3> QED BY <1>1, <3>2, <3>3
  <2>8. CASE TimesOut(i)
    <3>1. replies' = [replies EXCEPT ![i] = [r EXCEPT !.web = "failed"]]
      BY <1>1, <2>8 DEF TimesOut
    <3> QED BY <1>1, <1>5, <1>6, <2>1, <2>2, <2>8, <3>1 DEF TimesOut, Browse
  <2>9. CASE CopyEnds(i)
    <3>1. replies' = [replies EXCEPT ![i] = [r EXCEPT !.at = "over"]]
      BY <1>1, <2>9 DEF CopyEnds
    <3> QED BY <1>1, <1>5, <1>6, <2>1, <2>9, <3>1 DEF CopyEnds
  <2> QED BY <1>10, <2>3, <2>4, <2>5, <2>6, <2>7, <2>8, <2>9 DEF Reply
<1>11. CASE Shutdown \/ ServerStops \/ Restart
  BY <1>1, <1>11 DEF Shutdown, ServerStops, Restart
<1>12. CASE Ended
  <2>1. ASSUME NEW i \in Presses
        PROVE  [replies[i] EXCEPT !.token = 0, !.at = IF @ = "none" THEN @ ELSE "over"] \in Records
    BY <1>1, <1>5
  <2> QED BY <1>1, <1>12, <2>1 DEF Ended
<1> QED
  BY <1>7, <1>8, <1>9, <1>10, <1>11, <1>12, RepliesWritten DEF ReplyStep, Exit, Kill

LEMMA NextType == TypeOK /\ RowStands /\ [Next]_vars => TypeOK' /\ RowStands'
<1> SUFFICES ASSUME TypeOK, RowStands, [Next]_vars PROVE TypeOK' /\ RowStands'
  OBVIOUS
<1>1. TokensTyped' /\ CountersTyped' /\ RepliesTyped' /\ RowStands'
  BY TokensType, CountersStep, RepliesType
<1> QED BY <1>1 DEF TypeOK, TokensTyped, CountersTyped, RepliesTyped

-----------------------------------------------------------------------------
(* Tokens *)

TokensGood == LoginsApart /\ RenewedIsGood /\ StoredRefreshUsable /\ LoginSurvives

\* Nobody holds what the provider has not given out, and 0 is no token.
LEMMA TokenFacts ==
    ASSUME TypeOK
    PROVE  /\ issued \in Nat /\ lastLogin \in 0..issued /\ overlapped \in BOOLEAN
           /\ faults \in Nat
           /\ \A n \in dead : n \in 1..issued
           /\ user.tokens.access \in 0..issued /\ user.tokens.refresh \in 0..issued
           /\ worker.tokens.access \in 0..issued /\ worker.tokens.refresh \in 0..issued
           /\ \A l \in Logins : /\ login[l].tokens.access \in 0..issued
                                /\ login[l].tokens.refresh \in 0..issued
BY TokenBounds DEF TypeOK, TokenPairs, Holding

LEMMA LoginTokens ==
    ASSUME TypeOK, TokensGood, NEW l \in Logins, Login(l)
    PROVE  TokensGood'
<1> USE TokenFacts
<1>1. CASE GetTokens(l)
  <2>1. PICK r \in {0, issued + 1} :
           login' = [login EXCEPT ![l] = Step("granted", [access |-> issued + 1, refresh |-> r])]
    BY <1>1 DEF GetTokens
  <2>2. /\ login'[l].tokens.refresh = r
        /\ \A m \in Logins \ {l} : login'[m] = login[m]
        /\ UNCHANGED <<user, dead, worker, lastLogin, overlapped, faults>>
    BY <1>1, <2>1 DEF GetTokens, Step, TypeOK
  <2>3. r # 0 => /\ r \notin dead /\ r # user.tokens.refresh /\ r # worker.tokens.refresh
                 /\ \A m \in Logins : login[m].tokens.refresh # r
    OBVIOUS
  <2>4. LoginsApart'
    BY <2>2, <2>3 DEF TokensGood, LoginsApart
  <2> QED BY <2>2, <2>4 DEF TokensGood, RenewedIsGood, StoredRefreshUsable, LoginSurvives
<1>2. CASE LookUp(l) \/ Insert(l) \/ LoginFails(l)
  <2>1. /\ \A m \in Logins : \/ login'[m].tokens.refresh = login[m].tokens.refresh
                             \/ login'[m].tokens.refresh = 0
        /\ user'.tokens = user.tokens
        /\ UNCHANGED <<dead, worker, lastLogin, overlapped>>
        /\ faults' \in Nat /\ faults' >= faults
    BY <1>2 DEF LookUp, Insert, LoginFails, To, Over, Step, NoTokens, Fault, Event, TypeOK, granted,
       Holding
  <2> QED BY <2>1 DEF TokensGood, LoginsApart, RenewedIsGood, StoredRefreshUsable, LoginSurvives
<1>3. CASE Store(l)
  <2>1. /\ login'[l].tokens.refresh = 0
        /\ \A m \in Logins \ {l} : login'[m] = login[m]
        /\ user'.tokens = login[l].tokens /\ lastLogin' = login[l].tokens.access
        /\ worker.pc = "renewed" => overlapped'
        /\ UNCHANGED <<dead, worker, faults>>
    BY <1>3 DEF Store, Over, Step, NoTokens, TypeOK, granted
  <2>2. LoginsApart'
    BY <2>1 DEF TokensGood, LoginsApart
  <2>3. StoredRefreshUsable'
    BY <2>1 DEF TokensGood, LoginsApart, StoredRefreshUsable
  <2>4. RenewedIsGood' /\ LoginSurvives'
    BY <2>1 DEF TokensGood, RenewedIsGood, LoginSurvives
  <2> QED BY <2>2, <2>3, <2>4 DEF TokensGood
<1> QED BY <1>1, <1>2, <1>3 DEF Login

LEMMA WorkerTokens ==
    ASSUME TypeOK, TokensGood, Client \/ Disconnect \/ Expire
    PROVE  TokensGood'
<1> USE TokenFacts
<1>1. CASE ReadTokens
  <2>1. /\ worker'.tokens = user.tokens /\ worker.pc = "idle" /\ worker'.pc # "renewed"
        /\ UNCHANGED <<user, dead, login, lastLogin, overlapped, faults>>
    BY <1>1 DEF ReadTokens, MailAuth, Step, granted
  <2> QED
    BY <2>1 DEF TokensGood, LoginsApart, RenewedIsGood, StoredRefreshUsable, LoginSurvives
<1>2. CASE Refresh
  <2>1. PICK rotated \in BOOLEAN :
           /\ worker' = Step("renewed", Renewed(rotated))
           /\ dead' = IF rotated THEN dead \cup {worker.tokens.refresh} ELSE dead
    BY <1>2 DEF Refresh
  <2>2. /\ UNCHANGED <<user, login, lastLogin, overlapped, faults>>
        /\ worker.tokens.refresh # 0 /\ worker.tokens.refresh \notin dead
    BY <1>2 DEF Refresh, Refreshable
  <2>3. /\ worker'.pc = "renewed" /\ worker'.tokens.access = issued + 1
        /\ worker'.tokens.refresh = IF rotated THEN issued + 1 ELSE worker.tokens.refresh
    BY <2>1 DEF Step, Renewed
  <2>4. worker'.tokens.refresh \notin dead'
    BY <2>1, <2>2, <2>3
  <2>5. LoginsApart'
    BY <2>1, <2>2, <2>3 DEF TokensGood, LoginsApart
  <2> QED
    BY <2>2, <2>3, <2>4, <2>5 DEF TokensGood, RenewedIsGood, StoredRefreshUsable, LoginSurvives
<1>3. CASE RefreshFails
  <2>1. /\ worker'.pc = "idle" /\ worker'.tokens.refresh = 0
        /\ UNCHANGED <<user, login, lastLogin, overlapped>>
        /\ \A n \in dead' : n \in dead \/ n = worker.tokens.refresh
        /\ (dead' = dead /\ faults' = faults) \/ faults' > 0
        /\ worker.pc = "due"
    BY <1>3 DEF RefreshFails, GiveUp, Step, NoTokens, Fault, Event
  <2> QED BY <2>1 DEF TokensGood, LoginsApart, RenewedIsGood, StoredRefreshUsable, LoginSurvives
<1>4. CASE SaveTokens
  <2>1. /\ worker.pc = "renewed" /\ user'.tokens = worker.tokens
        /\ worker'.pc = "ready" /\ worker'.tokens = worker.tokens
        /\ UNCHANGED <<dead, login, lastLogin, overlapped, faults>>
    BY <1>4 DEF SaveTokens, granted, TypeOK, Holding
  <2> QED BY <2>1 DEF TokensGood, LoginsApart, RenewedIsGood, StoredRefreshUsable, LoginSurvives
<1>5. CASE SaveTokensFails
  <2>1. /\ worker'.pc = "idle" /\ worker'.tokens.refresh = 0 /\ faults' > 0
        /\ UNCHANGED <<user, dead, login, lastLogin, overlapped>>
    BY <1>5 DEF SaveTokensFails, GiveUp, Step, NoTokens, Fault, Event, granted
  <2> QED BY <2>1 DEF TokensGood, LoginsApart, RenewedIsGood, StoredRefreshUsable, LoginSurvives
<1>6. CASE Connect \/ ConnectFails \/ Disconnect
  <2>1. /\ worker.pc # "renewed" /\ worker'.pc # "renewed" /\ worker'.tokens.refresh = 0
        /\ faults' \in Nat /\ faults' >= faults
        /\ UNCHANGED <<user, dead, login, lastLogin, overlapped>>
    BY <1>6 DEF Connect, ConnectFails, Disconnect, GiveUp, Step, NoTokens, Fault, Event, granted
  <2> QED BY <2>1 DEF TokensGood, LoginsApart, RenewedIsGood, StoredRefreshUsable, LoginSurvives
<1>7. CASE Expire
  BY <1>7
     DEF Expire, TokensGood, LoginsApart, RenewedIsGood, StoredRefreshUsable, LoginSurvives
<1> QED BY <1>1, <1>2, <1>3, <1>4, <1>5, <1>6, <1>7 DEF Client

LEMMA EndedTokens ==
    ASSUME TypeOK, TokensGood, Ended, (WorkerStopped /\ UNCHANGED <<faults, events>>) \/ Fault
    PROVE  TokensGood'
<1>1. /\ worker'.pc = "idle" /\ worker'.tokens.refresh = 0
      /\ UNCHANGED <<user, dead, login, lastLogin, overlapped>>
  BY DEF Ended, Step, NoTokens, granted
<1>2. (worker.pc # "renewed" /\ faults' = faults) \/ faults' > 0
  BY TokenFacts DEF WorkerStopped, Fault, Event
<1> QED BY <1>1, <1>2, TokenFacts
        DEF TokensGood, LoginsApart, RenewedIsGood, StoredRefreshUsable, LoginSurvives

LEMMA TokensStep ==
    ASSUME TypeOK, TokensGood, [Next]_vars
    PROVE  TokensGood'
<1>1. CASE TokenStep
  BY <1>1, LoginTokens, WorkerTokens, EndedTokens DEF TokenStep
<1>2. ASSUME UNCHANGED <<user, granted, login, worker, lastLogin, overlapped>>,
             faults' \in Nat, faults' >= faults
      PROVE  TokensGood'
  BY <1>2, TokenFacts
     DEF TokensGood, LoginsApart, RenewedIsGood, StoredRefreshUsable, LoginSurvives, granted
<1> QED BY <1>1, <1>2, TokensWritten, TokenFacts DEF Fault, Event

-----------------------------------------------------------------------------
(* Replies *)

\* PressesInOrder in terms of what the browser knows alone.
Pressed(i) == replies[i].web # "none"
Open(i) == replies[i].web \in {"waiting", "sent"} /\ ~replies[i].rendered
Blank == \A i \in Presses : ~Pressed(i) => replies[i] = NoReply
InTurn == \A i, j \in Presses : j < i /\ Pressed(i) => Pressed(j)
LastOpen ==
    \A i \in Presses : Open(i) =>
        /\ \A j \in Presses : j > i => ~Pressed(j)
        /\ replies[i].web = "waiting" => form.busy = i
        /\ replies[i].web = "sent" => ~form.kept /\ ~form.shown

LEMMA OrderParts == PressesInOrder <=> Blank /\ InTurn /\ LastOpen
<1>1. \A i \in Presses : i \in Nat /\ \A j \in 1..(i - 1) : j \in Presses /\ j < i
  BY ReplyBound DEF Presses
<1>2. \A i, j \in Presses : j < i => j \in 1..(i - 1)
  BY ReplyBound DEF Presses
<1>3. NoReply.web = "none"
  BY DEF NoReply
<1>4. ASSUME PressesInOrder PROVE Blank /\ InTurn /\ LastOpen
  BY <1>2, <1>3, <1>4 DEF PressesInOrder, Blank, InTurn, LastOpen, Pressed, Open
<1>5. ASSUME Blank, InTurn, LastOpen PROVE PressesInOrder
  BY <1>1, <1>3, <1>5 DEF PressesInOrder, Blank, InTurn, LastOpen, Pressed, Open
<1> QED BY <1>4, <1>5

\* A reply is blank when its fields are.
LEMMA BlankFields ==
    ASSUME NEW S,
           NEW r \in [web : {"none", "waiting", "sent", "failed"},
                      at : {"none", "begun", "sent", "refused", "copying", "over"},
                      token : S, accepted : BOOLEAN, rendered : BOOLEAN]
    PROVE  r = NoReply <=> /\ r.web = "none" /\ r.at = "none" /\ r.token = 0
                           /\ ~r.accepted /\ ~r.rendered
<1>1. r = [web |-> r.web, at |-> r.at, token |-> r.token, accepted |-> r.accepted,
           rendered |-> r.rendered]
  OBVIOUS
<1>2. r.accepted \in BOOLEAN /\ r.rendered \in BOOLEAN
  OBVIOUS
<1>3. ASSUME r.web = "none", r.at = "none", r.token = 0, ~r.accepted, ~r.rendered
      PROVE  r = NoReply
  <2>1. r.accepted = FALSE /\ r.rendered = FALSE
    BY <1>2, <1>3
  <2> QED BY <1>1, <1>3, <2>1 DEF NoReply
<1> QED BY <1>3 DEF NoReply

\* The fields the browser sees when the card is rendered or the agent ends.
LEMMA RenderEffect ==
    ASSUME RepliesTyped, RepliesTyped', Render
    PROVE  /\ form'.kept = form.kept /\ form'.shown = form.kept
           /\ \A i \in Presses :
                 /\ replies'[i].web = replies[i].web
                 /\ replies'[i].rendered <=> (replies[i].rendered \/ Waiting(replies[i]))
                 /\ replies[i] = NoReply => replies'[i] = NoReply
<1>1. form' = [form EXCEPT !.shown = form.kept, !.busy = 0]
  BY DEF Render
<1>2. form'.kept = form.kept /\ form'.shown = form.kept
  BY <1>1 DEF RepliesTyped
<1>3. ASSUME NEW i \in Presses
      PROVE  /\ replies'[i].web = replies[i].web
             /\ replies'[i].rendered <=> (replies[i].rendered \/ Waiting(replies[i]))
             /\ replies[i] = NoReply => replies'[i] = NoReply
  <2>1. replies'[i] = [replies[i] EXCEPT !.rendered = @ \/ Waiting(replies[i])]
    BY DEF Render
  <2>2. replies[i].rendered \in BOOLEAN /\ "rendered" \in DOMAIN replies[i]
    BY DEF RepliesTyped
  <2>3. replies'[i].rendered <=> (replies[i].rendered \/ Waiting(replies[i]))
    BY <2>1, <2>2, Zenon
  <2>4. replies'[i].web = replies[i].web
    BY <2>1 DEF RepliesTyped
  <2>5. CASE replies[i] = NoReply
    <3>1. ~replies'[i].rendered /\ replies'[i].web = "none"
      BY <2>3, <2>4, <2>5 DEF NoReply, Waiting
    <3>2. /\ replies'[i].at = replies[i].at /\ replies'[i].token = replies[i].token
          /\ replies'[i].accepted = replies[i].accepted
      BY <2>1 DEF RepliesTyped
    <3>3. /\ replies'[i].at = "none" /\ replies'[i].token = 0 /\ ~replies'[i].accepted
      BY <2>5, <3>2 DEF NoReply
    <3>4. replies'[i] = NoReply
      BY <3>1, <3>3, BlankFields DEF RepliesTyped
    <3> QED BY <2>3, <2>4, <3>4
  <2> QED BY <2>3, <2>4, <2>5
<1> QED BY <1>2, <1>3

LEMMA EndedEffect ==
    ASSUME RepliesTyped, RepliesTyped', Ended
    PROVE  /\ UNCHANGED form
           /\ \A i \in Presses :
                 /\ replies'[i].web = replies[i].web
                 /\ replies'[i].rendered = replies[i].rendered
                 /\ replies[i] = NoReply => replies'[i] = NoReply
<1>1. ASSUME NEW i \in Presses
      PROVE  /\ replies'[i].web = replies[i].web
             /\ replies'[i].rendered = replies[i].rendered
             /\ replies[i] = NoReply => replies'[i] = NoReply
  <2> DEFINE a == IF replies[i].at = "none" THEN replies[i].at ELSE "over"
  <2>1. replies'[i] = [replies[i] EXCEPT !.token = 0, !.at = a]
    BY DEF Ended
  <2>2. replies[i] = NoReply => a = "none"
    BY DEF NoReply
  <2> HIDE DEF a
  <2>3. replies'[i].web = replies[i].web /\ replies'[i].rendered = replies[i].rendered
    BY <2>1 DEF RepliesTyped
  <2>4. replies[i] = NoReply => replies'[i] = NoReply
    <3>1. /\ replies'[i].at = a /\ replies'[i].token = 0
          /\ replies'[i].accepted = replies[i].accepted
      BY <2>1 DEF RepliesTyped
    <3>2. ASSUME replies[i] = NoReply
          PROVE  /\ replies'[i].at = "none" /\ replies'[i].token = 0 /\ ~replies'[i].accepted
                 /\ replies'[i].web = "none" /\ ~replies'[i].rendered
      BY <2>2, <2>3, <3>1, <3>2 DEF NoReply
    <3> QED BY <3>2, BlankFields DEF RepliesTyped
  <2> QED BY <2>3, <2>4
<1> QED BY <1>1 DEF Ended

\* What a step of one reply does: it is pressed, or it was and the browser learns its result,
\* or nothing.
LEMMA ReplyEffect ==
    ASSUME TypeOK, Blank, NEW i \in Presses, Reply(i)
    PROVE  /\ \A j \in Presses \ {i} : replies'[j] = replies[j]
           /\ replies'[i].rendered = replies[i].rendered
           /\ \/ Press(i) /\ replies'[i].web = "waiting"
              \/ UNCHANGED form /\ Pressed(i) /\ replies'[i].web = replies[i].web
              \/ \E result \in {"sent", "failed"} :
                    Waiting(replies[i]) /\ Told(i, result) /\ replies'[i].web = result
<1> USE DEF Pressed, Waiting
<1>0. replies[i].at # "none" => Pressed(i)
  BY DEF Blank, NoReply
<1>9. replies \in [Presses -> [web : {"none", "waiting", "sent", "failed"},
                              at : {"none", "begun", "sent", "refused", "copying", "over"},
                              token : 0..issued, accepted : BOOLEAN, rendered : BOOLEAN]]
  BY DEF TypeOK
<1>1. CASE Press(i)
  BY <1>9, <1>1 DEF Press
<1>2. CASE Begin(i)
  <2>1. PICK a \in {"refused", "begun"} :
           replies' = [replies EXCEPT ![i].at = a, ![i].token = user.tokens.access]
    BY <1>2 DEF Begin
  <2> QED BY <1>9, <1>2, <2>1 DEF Begin
<1>3. CASE SmtpAccepts(i)
  BY <1>9, <1>0, <1>3 DEF SmtpAccepts
<1>4. CASE SmtpFails(i)
  <2>1. UNCHANGED form /\ replies[i].at = "begun"
    BY <1>4 DEF SmtpFails
  <2>2. /\ \A j \in Presses \ {i} : replies'[j] = replies[j]
        /\ replies'[i].web = replies[i].web /\ replies'[i].rendered = replies[i].rendered
    <3>1. CASE replies' = [replies EXCEPT ![i].at = "refused", ![i].token = 0]
      BY <1>9, <3>1
    <3>2. ASSUME NEW taken \in BOOLEAN,
                 replies' = [replies EXCEPT ![i].at = "refused", ![i].accepted = taken,
                                            ![i].token = 0]
          PROVE  /\ \A j \in Presses \ {i} : replies'[j] = replies[j]
                 /\ replies'[i].web = replies[i].web
                 /\ replies'[i].rendered = replies[i].rendered
      BY <1>9, <3>2
    <3> QED BY <1>4, <3>1, <3>2 DEF SmtpFails
  <2> QED BY <1>0, <2>1, <2>2
<1>5. CASE Answer(i)
  <2>1. PICK result \in {"sent", "failed"}, a \in {"copying", "over"} :
           /\ replies' = [replies EXCEPT ![i].at = a,
                                         ![i].web = IF Waiting(replies[i]) THEN result ELSE @]
           /\ IF Waiting(replies[i]) THEN Told(i, result) ELSE UNCHANGED form
    BY <1>5 DEF Answer
  <2>2. Pressed(i)
    BY <1>0, <1>5 DEF Answer
  <2>3. CASE Waiting(replies[i])
    BY <1>9, <2>1, <2>3
  <2>4. CASE ~Waiting(replies[i])
    BY <1>9, <2>1, <2>2, <2>4
  <2> QED BY <2>3, <2>4
<1>6. CASE TimesOut(i)
  BY <1>9, <1>6 DEF TimesOut
<1>7. CASE CopyEnds(i)
  BY <1>9, <1>0, <1>7 DEF CopyEnds
<1> QED BY <1>1, <1>2, <1>3, <1>4, <1>5, <1>6, <1>7 DEF Reply

\* What the other steps do to the replies.
LEMMA OtherEffect ==
    ASSUME [Next]_vars
    PROVE  \/ \E i \in Presses : Reply(i)
           \/ Render \/ Ended
           \/ UNCHANGED replies
BY RepliesWritten
   DEF ReplyStep, WriteReply, Cancel, Shutdown, ServerStops, Exit, Kill, Restart, replyVars

\* The requests of a reply begin with the press of Send.
LEMMA BlankStep ==
    ASSUME TypeOK, RowStands, Blank, [Next]_vars
    PROVE  Blank'
<1> USE DEF Blank, Pressed
<1>1. CASE UNCHANGED replies
  BY <1>1
<1>2. CASE Render \/ Ended
  BY <1>2, RenderEffect, EndedEffect, RepliesType, TypeParts
<1>3. ASSUME NEW i \in Presses, Reply(i) PROVE Blank'
  <2>1. replies'[i].web # "none" /\ \A j \in Presses \ {i} : replies'[j] = replies[j]
    BY <1>3, ReplyEffect
  <2> QED BY <2>1
<1> QED BY <1>1, <1>2, <1>3, OtherEffect

\* Only Press presses.
LEMMA PressedKept ==
    ASSUME TypeOK, RowStands, Blank, [Next]_vars
    PROVE  \/ \A j \in Presses : Pressed(j)' <=> Pressed(j)
           \/ \E i \in Presses : Press(i)
<1> USE DEF Pressed
<1>1. CASE UNCHANGED replies
  BY <1>1
<1>2. CASE Render \/ Ended
  BY <1>2, RenderEffect, EndedEffect, RepliesType, TypeParts
<1>3. ASSUME NEW i \in Presses, Reply(i), ~Press(i)
     PROVE  \A j \in Presses : Pressed(j)' <=> Pressed(j)
  <2>1. replies'[i].web = "none" <=> replies[i].web = "none"
    BY <1>3, ReplyEffect DEF Waiting
  <2> QED BY <1>3, <2>1, ReplyEffect
<1> QED BY <1>1, <1>2, <1>3, OtherEffect

LEMMA InTurnStep ==
    ASSUME TypeOK, RowStands, Blank, InTurn, [Next]_vars
    PROVE  InTurn'
<1>1. CASE \A j \in Presses : Pressed(j)' <=> Pressed(j)
  BY <1>1 DEF InTurn
<1>2. ASSUME NEW i \in Presses, Press(i) PROVE InTurn'
  <2>1. \A j \in Presses : j < i => Pressed(j)
    BY <1>2, ReplyBound DEF Press, Presses, Blank
  <2>2. \A j \in Presses : Pressed(j)' <=> Pressed(j) \/ j = i
    BY <1>2 DEF Press, Pressed, TypeOK
  <2> QED BY <2>1, <2>2, ReplyBound DEF InTurn, Presses
<1> QED BY <1>1, <1>2, PressedKept

LEMMA LastOpenStep ==
    ASSUME TypeOK, RowStands, Blank, InTurn, LastOpen, [Next]_vars
    PROVE  LastOpen'
<1> USE DEF LastOpen, Open, Pressed
<1>1. CASE UNCHANGED <<form, replies>>
  BY <1>1
<1>2. CASE WriteReply
  BY <1>2 DEF WriteReply, NoReply
<1>3. CASE Cancel
  BY <1>3, ReplyBound DEF Cancel, NoForm, Presses
<1>4. CASE Render
  BY <1>4, RenderEffect, RepliesType, TypeParts DEF Waiting
<1>5. CASE Ended
  BY <1>5, EndedEffect, RepliesType, TypeParts
<1>6. ASSUME NEW i \in Presses, Reply(i) PROVE LastOpen'
  <2>1. /\ \A j \in Presses \ {i} : replies'[j] = replies[j]
        /\ replies'[i].rendered = replies[i].rendered
    BY <1>6, ReplyEffect
  <2>2. CASE Press(i)
    <3>1. /\ form.shown /\ form.busy = 0 /\ form' = [form EXCEPT !.busy = i]
          /\ replies[i] = NoReply
          /\ replies'[i].web = "waiting"
      BY <2>2 DEF Press, NotBusy, TypeOK
    <3>2. \A j \in Presses : ~Open(j)
      BY <3>1, ReplyBound DEF Presses
    <3>3. \A j \in Presses : j > i => ~Pressed(j)
      BY <3>1, ReplyBound DEF InTurn, Presses, NoReply
    <3>4. form'.busy = i
      BY <3>1 DEF TypeOK
    <3> QED BY <2>1, <3>1, <3>2, <3>3, <3>4, ReplyBound DEF Presses
  <2>3. CASE UNCHANGED form /\ Pressed(i) /\ replies'[i].web = replies[i].web
    BY <2>1, <2>3
  <2>4. ASSUME NEW result \in {"sent", "failed"}, Waiting(replies[i]), Told(i, result),
               replies'[i].web = result
        PROVE  LastOpen'
    <3>1. ASSUME NEW j \in Presses, j # i, Open(j), replies[j].web = "waiting" PROVE form'.busy = j
      BY <2>4, <3>1, ReplyBound DEF Told, TypeOK, Presses
    <3>2. ASSUME NEW j \in Presses, Open(j), replies[j].web = "sent"
          PROVE  ~form'.kept /\ ~form'.shown
      BY <2>4, <3>2 DEF Told, TypeOK, NoForm
    <3>3. Open(i) /\ result = "sent" => ~form'.kept /\ ~form'.shown
      BY <2>4 DEF Told, NoForm, Waiting
    <3>4. \A j \in Presses : Open(j)' => Open(j)
      BY <2>1, <2>4 DEF Waiting
    <3> QED BY <2>1, <2>4, <3>1, <3>2, <3>3, <3>4 DEF Waiting
  <2> QED BY <1>6, <2>2, <2>3, <2>4, ReplyEffect
<1> QED
  BY <1>1, <1>2, <1>3, <1>4, <1>5, <1>6, RepliesWritten
  DEF ReplyStep, Shutdown, ServerStops, Exit, Kill, Restart, replyVars

LEMMA PressesStep ==
    ASSUME TypeOK, RowStands, PressesInOrder, [Next]_vars
    PROVE  PressesInOrder'
<1>1. Blank /\ InTurn /\ LastOpen
  BY OrderParts
<1>2. Blank' /\ InTurn' /\ LastOpen'
  BY <1>1, BlankStep, InTurnStep, LastOpenStep
<1>3. \A i \in Presses : i \in Nat /\ \A j \in 1..(i - 1) : j \in Presses /\ j < i
  BY ReplyBound DEF Presses
<1>4. NoReply.web = "none"
  BY DEF NoReply
<1> QED BY <1>2, <1>3, <1>4 DEF PressesInOrder, Blank, InTurn, LastOpen, Pressed, Open

-----------------------------------------------------------------------------
(* Shutdown *)

\* A handler begins only while the agent is up.
LEMMA NoneBegins ==
    ASSUME TypeOK, NoneRuns, agent # "up", [Next]_vars
    PROVE  NoneRuns'
<1> USE DEF NoneRuns, Running
<1>1. replies \in [Presses -> [web : {"none", "waiting", "sent", "failed"},
                               at : {"none", "begun", "sent", "refused", "copying", "over"},
                               token : 0..issued, accepted : BOOLEAN, rendered : BOOLEAN]]
  BY DEF TypeOK
<1>2. ASSUME NEW i \in Presses, Reply(i) PROVE NoneRuns'
  <2>1. Press(i) \/ TimesOut(i) \/ CopyEnds(i)
    BY <1>2 DEF Reply, Begin, SmtpAccepts, SmtpFails, Answer
  <2>2. replies'[i].at = replies[i].at \/ replies'[i].at = "over"
    BY <1>1, <2>1 DEF Press, TimesOut, CopyEnds
  <2>3. \A j \in Presses \ {i} : replies'[j] = replies[j]
    BY <1>1, <2>1 DEF Press, TimesOut, CopyEnds
  <2> QED BY <2>2, <2>3
<1>3. CASE Render
  <2>1. \A i \in Presses : replies'[i].at = replies[i].at
    BY <1>1, <1>3 DEF Render
  <2> QED BY <2>1
<1>4. CASE Ended
  <2>1. \A i \in Presses : replies'[i].at = IF replies[i].at = "none" THEN "none" ELSE "over"
    BY <1>1, <1>4 DEF Ended
  <2> QED BY <2>1
<1>5. CASE UNCHANGED replies
  BY <1>5
<1> QED BY <1>2, <1>3, <1>4, <1>5, OtherEffect

LEMMA HandlersStep ==
    ASSUME TypeOK, HandlersDone, [Next]_vars
    PROVE  HandlersDone'
<1>1. CASE agent = "waiting"
  BY <1>1, NoneBegins DEF HandlersDone
<1>2. ASSUME agent # "waiting", agent' = "waiting" PROVE NoneRuns'
  <2>1. ServerStops /\ NoneRuns
    BY <1>2, RepliesWritten
    DEF ReplyStep, WriteReply, Cancel, Render, Browse, Reply, Press, Begin, SmtpAccepts, SmtpFails,
        Answer, TimesOut, CopyEnds, Shutdown, ServerStops, Exit, Kill, Ended, Restart, replyVars
  <2> QED BY <2>1 DEF ServerStops, NoneRuns, Running
<1> QED BY <1>1, <1>2 DEF HandlersDone

-----------------------------------------------------------------------------
(* The theorems *)

LEMMA InitInv == Init => ReplyInv
<1> SUFFICES ASSUME Init PROVE ReplyInv
  OBVIOUS
<1>1. TypeOK /\ RowStands
  BY InitType
<1>2. LoginsApart /\ RenewedIsGood /\ StoredRefreshUsable /\ LoginSurvives
  BY DEF Init, TokenInit, LoginsApart, RenewedIsGood, StoredRefreshUsable, LoginSurvives,
     NoTokens, Step
<1>3. PressesInOrder
  BY ReplyBound DEF Init, PressesInOrder, NoReply, Presses
<1>4. HandlersDone
  BY DEF Init, HandlersDone
<1> QED BY <1>1, <1>2, <1>3, <1>4 DEF ReplyInv

LEMMA NextInv == ReplyInv /\ [Next]_vars => ReplyInv'
<1> SUFFICES ASSUME ReplyInv, [Next]_vars PROVE ReplyInv'
  OBVIOUS
<1>1. TypeOK' /\ RowStands'
  BY NextType DEF ReplyInv
<1>2. LoginsApart' /\ RenewedIsGood' /\ StoredRefreshUsable' /\ LoginSurvives'
  BY TokensStep DEF ReplyInv, TokensGood
<1>3. PressesInOrder'
  BY PressesStep DEF ReplyInv
<1>4. HandlersDone'
  BY HandlersStep DEF ReplyInv
<1> QED BY <1>1, <1>2, <1>3, <1>4 DEF ReplyInv

\* The invariant from which everything else about replies follows.
THEOREM ReplyInvariant == Spec => []ReplyInv
BY InitInv, NextInv, PTL DEF Spec

\* Every variable keeps its type, and nobody holds a token the provider did not give out
\* (getConnectedClient, update_user_mail_tokens).
THEOREM ReplyTypes == Spec => []TypeOK
<1>1. ReplyInv => TypeOK
  BY DEF ReplyInv
<1> QED BY <1>1, ReplyInvariant, PTL

\* Without failures the row never keeps a refresh token that the provider has replaced, but
\* between a refresh and its save (worker.go:74).
THEOREM RefreshStaysUsable == Spec => []StoredRefreshUsable
<1>1. ReplyInv => StoredRefreshUsable
  BY DEF ReplyInv
<1> QED BY <1>1, ReplyInvariant, PTL

\* Only a refresh that a login overtook puts older tokens in its place (worker.go:74).
THEOREM LoginsSurvive == Spec => []LoginSurvives
<1>1. ReplyInv => LoginSurvives
  BY DEF ReplyInv
<1> QED BY <1>1, ReplyInvariant, PTL

\* However often Send is pressed, two copies of a reply are accepted only when the first was
\* reported as failed or lost its card (queue.py:990, mail-render-card.js:55).
THEOREM DuplicatesExplained == Spec => []DuplicateExplained
<1>1. ReplyInv => DuplicateExplained
  <2> SUFFICES ASSUME ReplyInv, NEW i \in Presses, NEW j \in Presses, i < j,
                      replies[i].accepted, replies[j].accepted
               PROVE  replies[i].web = "failed" \/ replies[i].rendered
    BY DEF DuplicateExplained
  <2>1. replies[i] # NoReply /\ replies[j] # NoReply
    BY DEF NoReply
  <2>2. replies[i].web \in {"waiting", "sent", "failed"}
    BY <2>1 DEF ReplyInv, TypeOK, PressesInOrder
  <2>3. replies[i].web \in {"waiting", "sent"} => replies[i].rendered
    BY <2>1, ReplyBound DEF ReplyInv, PressesInOrder, Presses
  <2> QED BY <2>2, <2>3
<1> QED BY <1>1, ReplyInvariant, PTL

\* The agent ends with a reply half sent only by a kill, or when its 10 s were not enough
\* (main.go:262).
THEOREM ShutdownFinishes == Spec => ShutdownFinishesReplies
<1> DEFINE Finishes == agent # "down" /\ agent' = "down" =>
                          NoneRuns \/ agent = "late" \/ faults' # faults
<1>1. ReplyInv /\ [Next]_vars => [Finishes]_vars
  <2> SUFFICES ASSUME ReplyInv, [Next]_vars, agent # "down", agent' = "down" PROVE Finishes
    OBVIOUS
  <2>1. Exit \/ Kill
    BY RepliesWritten
    DEF ReplyStep, WriteReply, Cancel, Render, Browse, Reply, Press, Begin, SmtpAccepts, SmtpFails,
        Answer, TimesOut, CopyEnds, Shutdown, ServerStops, Restart, replyVars
  <2>2. CASE Exit
    BY <2>2 DEF Exit, ReplyInv, HandlersDone
  <2>3. CASE Kill
    BY <2>3, TokenFacts DEF Kill, Fault, ReplyInv
  <2> QED BY <2>1, <2>2, <2>3
<1> QED BY <1>1, ReplyInvariant, PTL DEF Spec, ShutdownFinishesReplies
=============================================================================
