----------------------------- MODULE MailTokens -----------------------------
(***************************************************************************)
(* The mail tokens of one user (the row of users), the logins of the       *)
(* frontend that write them, and the worker of the mail agent that reads,  *)
(* refreshes and writes them whenever it connects to the mailbox anew.     *)
(***************************************************************************)
EXTENDS Naturals, FiniteSets

CONSTANTS
    Logins,     \* bound: each is one login in a browser
    MaxEvents   \* bound: logins, replies, tokens that expire, calls that fail and processes
                \* that are stopped or killed together

ASSUME TokenBounds == MaxEvents \in Nat

VARIABLES
    user,       \* the row: whether it is there, and its tokens; 0 is NULL
    issued,     \* access tokens the provider has given out are 1..issued
    expired,    \* those whose time is over, or will be within the minute
    dead,       \* refresh tokens the provider has replaced
    login,      \* where each login is, and the tokens it was given
    worker,     \* where getConnectedClient is, and its mailAuth
    lastLogin,  \* history: the access token the last login stored
    overlapped, \* history: a refresh was under way when it did
    faults,     \* history: how many calls failed or processes were killed
    events      \* counter against the bound

granted == <<issued, expired, dead>>
tokenVars == <<user, granted, login, worker, lastLogin, overlapped, faults,
              events>>

NoTokens == [access |-> 0, refresh |-> 0]
Step(label, tokens) == [pc |-> label, tokens |-> tokens]
Event == events < MaxEvents /\ events' = events + 1
Fault == Event /\ faults' = faults + 1

-----------------------------------------------------------------------------
(* auth_callback, services/users.py                                         *)

To(l, label) == login' = [login EXCEPT ![l].pc = label]
Over(l, label) == login' = [login EXCEPT ![l] = Step(label, NoTokens)]

\* The provider may leave the refresh token out.
GetTokens(l) ==
    /\ Event
    /\ login[l].pc = "start"
    /\ issued' = issued + 1
    /\ \E r \in {0, issued + 1} :
          login' = [login EXCEPT ![l] = Step("granted", [access |-> issued + 1, refresh |-> r])]
    /\ UNCHANGED <<user, expired, dead, worker, lastLogin, overlapped, faults>>

LookUpSkipped(l) ==
    /\ login[l].pc = "granted"
    /\ To(l, "known")
    /\ UNCHANGED <<user, granted, worker, lastLogin, overlapped, faults, events>>
LookUp(l) ==
    /\ login[l].pc = "granted"
    /\ To(l, IF user.exists THEN "known" ELSE "unknown")
    /\ UNCHANGED <<user, granted, worker, lastLogin, overlapped, faults, events>>

\* users.email is unique: the second of two first logins ends here.
Insert(l) ==
    /\ login[l].pc = "unknown"
    /\ IF user.exists
       THEN Over(l, "failed") /\ UNCHANGED user
       ELSE To(l, "known") /\ user' = [user EXCEPT !.exists = TRUE]
    /\ UNCHANGED <<granted, worker, lastLogin, overlapped, faults, events>>

\* update_user_mail_tokens
Store(l) ==
    /\ login[l].pc = "known"
    /\ Over(l, "done")
    /\ user' = [user EXCEPT !.tokens = login[l].tokens]
    /\ lastLogin' = login[l].tokens.access
    /\ overlapped' = (worker.pc \in {"due", "renewed"})
    /\ UNCHANGED <<granted, worker, faults, events>>

LoginFails(l) ==
    /\ login[l].pc \in {"granted", "unknown", "known"}
    /\ Fault
    /\ Over(l, "failed")
    /\ UNCHANGED <<user, granted, worker, lastLogin, overlapped>>

-----------------------------------------------------------------------------
(* getConnectedClient                                                       *)

\* time.Now().After(AccessExpiresAt - 1 min)
NeverDue(tokens) == FALSE
Due(tokens) == tokens.access \in expired

\* GetUserMailAuth
MailAuth == user.tokens

ReadTokens ==
    /\ worker.pc = "idle"
    /\ user.tokens.access # 0
    /\ worker' = Step(IF Due(MailAuth) THEN "due" ELSE "ready", MailAuth)
    /\ UNCHANGED <<user, granted, login, lastLogin, overlapped, faults, events>>

\* Returning an error leaves imapClient nil; the next round begins anew.
GiveUp == worker' = Step("idle", NoTokens)

\* RefreshYandexToken: the provider replaces the refresh token, or returns none and the old
\* one stays.
Renewed(rotated) ==
    [access |-> issued + 1, refresh |-> IF rotated THEN issued + 1 ELSE worker.tokens.refresh]
Refreshable(tokens) == tokens.refresh # 0 /\ tokens.refresh \notin dead

Refresh ==
    /\ worker.pc = "due"
    /\ Refreshable(worker.tokens)
    /\ issued' = issued + 1
    /\ \E rotated \in BOOLEAN :
        /\ worker' = Step("renewed", Renewed(rotated))
        /\ dead' = IF rotated THEN dead \cup {worker.tokens.refresh} ELSE dead
    /\ UNCHANGED <<user, expired, login, lastLogin, overlapped, faults, events>>

\* The provider refuses, or the call or its answer is lost.
RefreshFails ==
    /\ worker.pc = "due"
    /\ \/ ~Refreshable(worker.tokens) /\ UNCHANGED <<dead, faults, events>>
       \/ /\ Fault
          /\ dead' \in {dead, dead \cup ({worker.tokens.refresh} \ {0})}
    /\ GiveUp
    /\ UNCHANGED <<user, issued, expired, login, lastLogin, overlapped>>

\* UpdateUserMailTokens writes the three columns over whatever they hold by now.
SaveTokens ==
    /\ worker.pc = "renewed"
    /\ user' = [user EXCEPT !.tokens = worker.tokens]
    /\ worker' = [worker EXCEPT !.pc = "ready"]
    /\ UNCHANGED <<granted, login, lastLogin, overlapped, faults, events>>

SaveTokensFails ==
    /\ worker.pc = "renewed"
    /\ Fault
    /\ GiveUp
    /\ UNCHANGED <<user, granted, login, lastLogin, overlapped>>

ConnectAndSave ==
    /\ worker.pc = "ready"
    /\ worker.tokens.access \notin expired
    /\ user' = [user EXCEPT !.tokens = worker.tokens]
    /\ worker' = Step("connected", NoTokens)
    /\ UNCHANGED <<granted, login, lastLogin, overlapped, faults, events>>
Connect ==
    /\ worker.pc = "ready"
    /\ worker.tokens.access \notin expired
    /\ worker' = Step("connected", NoTokens)
    /\ UNCHANGED <<user, granted, login, lastLogin, overlapped, faults, events>>

ConnectFails ==
    /\ worker.pc = "ready"
    /\ \/ worker.tokens.access \in expired /\ UNCHANGED <<faults, events>>
       \/ Fault
    /\ GiveUp
    /\ UNCHANGED <<user, granted, login, lastLogin, overlapped>>

\* A round met an error after which resetClient closes the connection.
Disconnect ==
    /\ worker.pc = "connected"
    /\ GiveUp
    /\ UNCHANGED <<user, granted, login, lastLogin, overlapped, faults, events>>

Expire ==
    /\ Event
    /\ \E n \in 1..issued \ expired : expired' = expired \cup {n}
    /\ UNCHANGED <<user, issued, dead, login, worker, lastLogin, overlapped, faults>>

-----------------------------------------------------------------------------

TokenInit ==
    /\ user = [exists |-> FALSE, tokens |-> NoTokens]
    /\ issued = 0 /\ expired = {} /\ dead = {}
    /\ login = [l \in Logins |-> Step("start", NoTokens)]
    /\ worker = Step("idle", NoTokens)
    /\ lastLogin = 0
    /\ overlapped = FALSE
    /\ faults = 0 /\ events = 0

Login(l) == GetTokens(l) \/ LookUp(l) \/ Insert(l) \/ Store(l) \/ LoginFails(l)

Client ==
    \/ ReadTokens \/ Refresh \/ RefreshFails \/ SaveTokens \/ SaveTokensFails
    \/ Connect \/ ConnectFails
=============================================================================
