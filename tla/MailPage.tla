------------------------------ MODULE MailPage ------------------------------
(***************************************************************************)
(* The mail page of an operator (frontend/mail-client, static/js) and what *)
(* the server has of it.  Every 5 s the page replaces its whole list; the  *)
(* inputs of the chat, the render of a click and the calls that are out    *)
(* stay bound to the objects of the list they were made from.              *)
(***************************************************************************)
EXTENDS Naturals, FiniteSets, Sequences, SequencesExt

CONSTANTS
    Tasks,      \* one per email
    NoTask,     \* null
    EmailNo,    \* the task whose id is the id of a task's email, if there is one
    FirstRows,  \* bound: what the server has when the page is opened
    MaxTyped,   \* bound: keystrokes
    MaxEvents,  \* bound: clicks but on Send, lists that fail and writes of others together
    MaxLoads    \* bound: list calls out at once

ASSUME PageAssumption ==
    /\ IsFiniteSet(Tasks)
    /\ NoTask \notin Tasks
    /\ EmailNo \in [Tasks -> Tasks \cup {NoTask}]
    /\ FirstRows \in [Tasks -> [status : {"review", "other"}, read : BOOLEAN]]
    /\ MaxTyped \in Nat /\ MaxEvents \in Nat
    /\ MaxLoads \in Nat \ {0}

VARIABLES
    server,   \* per task: status and is_read
    archived, \* the tasks whose email is archived on the server
    emails,   \* the list: per task in it status, read and the text of its chat item
    unread,   \* unreadCount
    header,   \* what stands over the list: a number of unread or of all emails, or an error
    selected, \* selectedEmailId
    tab,      \* the active tab
    chat,     \* the object the inputs in the chat are bound to
    card,     \* the email in the other tab
    cache,    \* chatStorage
    editing,  \* an input of the chat has the focus
    forms,    \* openReplyForms: the tasks whose email has its reply form open
    reply,    \* isReplyInputFocused and the flags like it: set with the field or file dialog in
              \* use, or stuck, the card having been rendered anew without a blur
    pending,  \* pendingSilentRefresh
    timer,    \* the object the setTimeout of selectEmail will render
    loads,    \* list calls that are out
    marks,    \* PATCHes of is_read that are out
    post,     \* the POST of answers that is out
    closing,  \* the POST that archives an email, if one is out
    typed,    \* history: what the operator typed, in keystrokes; 0 once sent or archived
    atLoad,   \* history: typed when the list was last replaced
    gone,     \* history: unread emails archived on the page since then
    skewed,   \* history: a rollback met a newer list or a newer mark since then
    shadowed, \* history: emails of which a render showed an older text than was typed
    events    \* counter against the bound

database == <<server, archived>>
counter == <<unread, header>>
replies == <<forms, reply>>
network == <<loads, marks, post, closing>>
history == <<typed, atLoad, gone, skewed, shadowed>>
vars == <<database, emails, counter, selected, tab, chat, card, cache, editing, replies, pending,
          timer, network, history, events>>

Event == events < MaxEvents /\ events' = events + 1

-----------------------------------------------------------------------------
(* Objects of the list.  One that a newer list replaced is no longer live   *)
(* and has a text of its own.                                               *)

Object(t) == [task |-> t, live |-> TRUE, text |-> 0, status |-> "other"]
NoObject == [task |-> NoTask, live |-> FALSE, text |-> 0, status |-> "other"]

TextIn(o) == IF o.live THEN emails[o.task].text ELSE o.text
StatusOf(o) == IF o.live THEN emails[o.task].status ELSE o.status
Frozen(o) ==
    IF o.live THEN [o EXCEPT !.live = FALSE, !.text = TextIn(o), !.status = StatusOf(o)] ELSE o

\* renderChatForEmail: only a task in materials_review has inputs.
ChatOf(t, list) ==
    IF t \in DOMAIN list /\ list[t].status = "review" THEN Object(t) ELSE NoObject

\* isMaterialInputProtected, and isReplyInputProtected: a form is kept under the id of its email
\* and asked for with the id of the selected task.
MaterialProtected == tab = "chat" /\ editing
ReplyProtected ==
    \/ reply # "none"
    \/ selected \in Tasks /\ \E t \in forms : EmailNo[t] = selected
Protected == MaterialProtected \/ ReplyProtected

-----------------------------------------------------------------------------
(* refreshEmailsSilently.  A list call knows the email that was selected when *)
(* it was made; `post` marks the one sendChatData makes after its POST.       *)

ListCall(prev, isPost) == [prev |-> prev, post |-> isPost, answered |-> FALSE, rows |-> <<>>]

RefreshOnceOnly ==
    IF Protected \/ pending
    THEN pending' = TRUE /\ UNCHANGED loads
    ELSE /\ pending' = FALSE
         /\ Len(loads) < MaxLoads
         /\ loads' = Append(loads, ListCall(selected, FALSE))
RefreshCalled ==
    IF Protected
    THEN pending' = TRUE /\ UNCHANGED loads
    ELSE /\ pending' = FALSE
         /\ Len(loads) < MaxLoads
         /\ loads' = Append(loads, ListCall(selected, FALSE))

Unmoved == UNCHANGED <<database, emails, counter, selected, tab, chat, card, cache, editing,
                       replies, timer, marks, post, closing, history, events>>

Tick == RefreshCalled /\ Unmoved

\* What the setTimeout of a blur does when no other input has got the focus, and a reply field
\* after a composition or a choice of files.
RefreshAfterBlur == (~editing \/ ~ReplyProtected) /\ pending /\ RefreshCalled /\ Unmoved

\* GET /api/queue, without the archived emails.
Listed == Restrict(server, Tasks \ archived)
ServerLists ==
    /\ \E n \in DOMAIN loads :
        /\ ~loads[n].answered
        /\ loads' = [loads EXCEPT ![n].answered = TRUE, ![n].rows = Listed]
    /\ UNCHANGED pending
    /\ Unmoved

\* normalizeApiItem: what the cache has is kept over what the server says.
NormalizedAfresh(found) ==
    [t \in DOMAIN found |-> [status |-> found[t].status, read |-> found[t].read, text |-> 0]]
Normalized(found) ==
    [t \in DOMAIN found |-> [status |-> found[t].status, read |-> found[t].read, text |-> cache[t]]]

UnreadIn(list) == Cardinality({t \in DOMAIN list : ~list[t].read})

\* recalculateUnreadCount
NotRecounted(list) == unread
Recounted(list) == UnreadIn(list)

\* updateUnreadCount writes the counter over the list; loadEmailsFromApi writes how many emails
\* there are, and only a refresh has the counter written again.
UnreadShown == header' = [of |-> "unread", n |-> unread']
TotalShown(list, isPost, failed) ==
    IF ~isPost THEN UnreadShown
    ELSE header' = [of |-> IF failed THEN "error" ELSE "all", n |-> Cardinality(DOMAIN list)]

\* loadEmailsFromApi
Replace(list) ==
    /\ emails' = list
    /\ unread' = Recounted(list)
    /\ cache' = [t \in Tasks |-> IF t \in DOMAIN list THEN list[t].text ELSE cache[t]]
    /\ timer' = Frozen(timer)
    /\ marks' = [m \in DOMAIN marks |-> [marks[m] EXCEPT !.live = FALSE]]
    /\ atLoad' = typed
    /\ gone' = 0
    /\ skewed' = FALSE

\* A card is rendered anew, maybe under a reply field that has the focus: a browser need not
\* fire a blur for that.
CardReplaced == reply' \in IF reply = "used" THEN {"stuck", "none"} ELSE {reply}

\* The list is there: under an input that is being edited nothing is rendered, else the
\* email that was selected when the refresh was called.
ProtectedBefore == FALSE
ProtectedNow == Protected
ShowAfterRefresh(prev, list, shown) ==
    \/ /\ ProtectedNow
       /\ pending' = TRUE
       /\ chat' = Frozen(chat)
       /\ card' = shown
       /\ UNCHANGED <<selected, editing>>
    \/ /\ ~ProtectedNow
       /\ tab = "chat"
       /\ chat' = ChatOf(prev, list)
       /\ editing' = FALSE
       /\ card' = shown
       /\ UNCHANGED <<selected, pending>>
    \/ /\ ~ProtectedNow
       /\ tab = "emails"
       /\ IF prev \in DOMAIN list
          THEN card' = prev /\ UNCHANGED selected
          ELSE card' = NoTask /\ selected' = NoTask
       /\ UNCHANGED <<chat, editing, pending>>

\* sendChatData renders the email it answered, whatever is going on.
ShowAfterPost(t, list, shown) ==
    /\ IF t \in DOMAIN list
       THEN /\ selected' = t
            /\ IF tab = "chat"
               THEN chat' = ChatOf(t, list) /\ editing' = FALSE /\ card' = shown
               ELSE card' = t /\ UNCHANGED <<chat, editing>>
       ELSE chat' = Frozen(chat) /\ card' = shown /\ UNCHANGED <<selected, editing>>
    /\ UNCHANGED pending

Show(call, list, shown) ==
    IF call.post THEN ShowAfterPost(call.prev, list, shown)
    ELSE ShowAfterRefresh(call.prev, list, shown)

\* refreshSeq is read before the call and compared after it, and nothing changes it: every
\* answer counts, in whatever order they come.
Counts(n) == TRUE

Apply ==
    /\ \E n \in DOMAIN loads :
        /\ loads[n].answered
        /\ loads' = RemoveAt(loads, n)
        /\ IF Counts(n)
           THEN /\ Replace(Normalized(loads[n].rows))
                /\ TotalShown(loads[n].rows, loads[n].post, FALSE)
                /\ Show(loads[n], loads[n].rows, card)
                /\ IF loads[n].post /\ tab = "emails" /\ loads[n].prev \in DOMAIN loads[n].rows
                   THEN CardReplaced
                   ELSE UNCHANGED reply
           ELSE UNCHANGED <<emails, counter, selected, chat, card, cache, editing, reply, pending,
                            timer, marks, atLoad, gone, skewed>>
    /\ UNCHANGED <<database, tab, forms, post, closing, typed, shadowed, events>>

\* The list is empty then, and the email view says that the call failed.
LoadFails ==
    /\ Event
    /\ \E n \in DOMAIN loads :
        /\ loads' = RemoveAt(loads, n)
        /\ Replace(<<>>)
        /\ TotalShown(<<>>, loads[n].post, TRUE)
        /\ Show(loads[n], <<>>, NoTask)
    /\ CardReplaced
    /\ UNCHANGED <<database, tab, forms, post, closing, typed, shadowed>>

-----------------------------------------------------------------------------
(* selectEmail, closeAndMarkUnread, switchTab.  A click takes the focus out of *)
(* the input it was in, and what that holds into the cache once more.          *)

LeaveInput ==
    /\ editing' = FALSE
    /\ cache' = IF editing THEN [cache EXCEPT ![chat.task] = TextIn(chat)] ELSE cache
ReplyLeft == IF reply = "used" THEN "none" ELSE reply
Click == Event /\ LeaveInput /\ reply' = ReplyLeft
Unclamped(n) == n - 1
Minus1(n) == IF n = 0 THEN 0 ELSE n - 1  \* Math.max(0, unreadCount - 1)
Mark(t, value) == marks' = Append(marks, [task |-> t, value |-> value, live |-> TRUE])

SelectEmail(t) ==
    /\ Click
    /\ t \in DOMAIN emails
    /\ timer = NoObject  \* bound: one click in 300 ms
    /\ selected' = t
    /\ IF emails[t].read THEN UNCHANGED <<emails, counter, marks>>
       ELSE /\ emails' = [emails EXCEPT ![t].read = TRUE]
            /\ unread' = Minus1(unread) /\ UnreadShown
            /\ Mark(t, TRUE)
    /\ card' = NoTask
    /\ timer' = Object(t)
    /\ UNCHANGED <<database, tab, chat, forms, pending, loads, post, closing, history>>

\* What is shown of the chat items of an object, and bound to the inputs, may be older than what
\* was typed into one of another list.
ShadowedBy(o) == {t \in Tasks : t = o.task /\ TextIn(o) < typed[t]}

\* The object of the click is rendered, though a newer list may have replaced it.
RenderSelected ==
    /\ timer # NoObject
    /\ timer' = NoObject
    /\ card' = timer.task
    /\ IF tab = "chat"
       THEN /\ chat' = IF StatusOf(timer) = "review" THEN timer ELSE NoObject
            /\ editing' = FALSE
            /\ shadowed' = shadowed \cup ShadowedBy(timer)
       ELSE UNCHANGED <<chat, editing, shadowed>>
    /\ CardReplaced
    /\ UNCHANGED <<database, emails, counter, selected, tab, cache, forms, pending, network, typed,
                   atLoad, gone, skewed, events>>

CloseAndMarkUnread ==
    /\ Click
    /\ tab = "emails"
    /\ card # NoTask
    /\ IF selected \in DOMAIN emails /\ emails[selected].read
       THEN /\ emails' = [emails EXCEPT ![selected].read = FALSE]
            /\ unread' = unread + 1 /\ UnreadShown
            /\ Mark(selected, FALSE)
            /\ UNCHANGED <<selected, card>>
       ELSE /\ selected' = NoTask
            /\ card' = NoTask
            /\ UNCHANGED <<emails, counter, marks>>
    /\ UNCHANGED <<database, tab, chat, forms, pending, timer, loads, post, closing, history>>

\* PATCH /api/emails/{id}/read.  closeOpenedEmail closes what is open by then.
MarkDone ==
    /\ \E n \in DOMAIN marks :
        /\ server' = [server EXCEPT ![marks[n].task].read = marks[n].value]
        /\ marks' = RemoveAt(marks, n)
        /\ IF marks[n].value THEN UNCHANGED <<selected, card, reply>>
           ELSE selected' = NoTask /\ card' = NoTask /\ CardReplaced
    /\ UNCHANGED <<archived, emails, counter, tab, chat, cache, editing, forms, pending, timer,
                   loads, post, closing, history, events>>

\* The call or its answer is lost: the mark is taken back from the object it was made on, and
\* from the counter of the list there is now.
MarkFails ==
    /\ \E n \in DOMAIN marks :
        LET m == marks[n]
        IN  /\ \/ server' = [server EXCEPT ![m.task].read = m.value]
               \/ UNCHANGED server
            /\ marks' = RemoveAt(marks, n)
            /\ emails' = IF m.live THEN [emails EXCEPT ![m.task].read = ~m.value] ELSE emails
            /\ unread' = (IF m.value THEN unread + 1 ELSE Minus1(unread)) /\ UnreadShown
            /\ skewed' = (skewed \/ ~m.live \/ emails[m.task].read # m.value)
    /\ UNCHANGED <<archived, selected, tab, chat, card, cache, editing, replies, pending, timer,
                   loads, post, closing, typed, atLoad, gone, shadowed, events>>

\* A click on the tab that is active renders it again.
SwitchTab ==
    /\ Click
    /\ \/ /\ tab' = "chat"
          /\ chat' = ChatOf(selected, emails)
          /\ shadowed' = shadowed \cup ShadowedBy(ChatOf(selected, emails))
          /\ UNCHANGED card
       \/ /\ tab' = "emails"
          /\ card' = IF selected \in DOMAIN emails THEN selected ELSE NoTask
          /\ chat' = NoObject  \* hidden, and rendered anew before it is seen again
          /\ UNCHANGED shadowed
    /\ UNCHANGED <<database, emails, counter, selected, forms, pending, timer, network, typed,
                   atLoad, gone, skewed>>

-----------------------------------------------------------------------------
(* bindMaterialInputEvents, sendChatData                                    *)

Focus ==
    /\ tab = "chat"
    /\ chat # NoObject
    /\ ~editing
    /\ editing' = TRUE
    /\ UNCHANGED <<database, emails, counter, selected, tab, chat, card, cache, replies, pending,
                   timer, network, history, events>>

Blur ==
    /\ editing
    /\ LeaveInput
    /\ UNCHANGED <<database, emails, counter, selected, tab, chat, card, replies, pending, timer,
                   network, history, events>>

\* The text goes to the object the input is bound to, and from there to the cache.
Type ==
    /\ editing
    /\ TextIn(chat) < MaxTyped
    /\ LET t == chat.task
           text == TextIn(chat) + 1
       IN  /\ typed' = [typed EXCEPT ![t] = text]
           /\ cache' = [cache EXCEPT ![t] = text]
           /\ IF chat.live
              THEN emails' = [emails EXCEPT ![t].text = text] /\ UNCHANGED chat
              ELSE chat' = [chat EXCEPT !.text = text] /\ UNCHANGED emails
    /\ UNCHANGED <<database, counter, selected, tab, card, editing, replies, pending, timer,
                   network, atLoad, gone, skewed, shadowed, events>>

NoPost == [task |-> NoTask, state |-> "none"]

\* The button stands under the inputs, but the email, and with it the text, is that of
\* selectedEmailId.
Answerable ==
    /\ tab = "chat"
    /\ chat # NoObject
    /\ selected \in DOMAIN emails
    /\ emails[selected].status = "review"

Send ==
    /\ Answerable
    /\ LeaveInput /\ reply' = ReplyLeft
    /\ post = NoPost  \* bound: one answer at a time
    /\ post' = [task |-> selected, state |-> "out"]
    /\ UNCHANGED <<database, emails, counter, selected, tab, chat, card, forms, pending, timer,
                   loads, marks, closing, history, events>>

\* update_materials_manual_decision
PostArrives ==
    /\ post.state = "out"
    /\ IF server[post.task].status = "review"
       THEN /\ server' = [server EXCEPT ![post.task].status = "other"]
            /\ post' = [post EXCEPT !.state = "stored"]
       ELSE /\ post' = [post EXCEPT !.state = "refused"]
            /\ UNCHANGED server
    /\ UNCHANGED <<archived, emails, counter, selected, tab, chat, card, cache, editing, replies,
                   pending, timer, loads, marks, closing, history, events>>

\* An answer that was stored takes the draft out of the cache, whatever was typed since.
PostAnswered ==
    /\ post.state \in {"stored", "refused"}
    /\ post' = NoPost
    /\ IF post.state = "stored"
       THEN /\ cache' = [cache EXCEPT ![post.task] = 0]
            /\ typed' = [typed EXCEPT ![post.task] = 0]
            /\ atLoad' = [atLoad EXCEPT ![post.task] = 0]
            /\ Len(loads) < MaxLoads  \* bound, as in RefreshCalled
            /\ loads' = Append(loads, ListCall(post.task, TRUE))
       ELSE UNCHANGED <<cache, typed, atLoad, loads>>
    /\ UNCHANGED <<database, emails, counter, selected, tab, chat, card, editing, replies, pending,
                   timer, marks, closing, gone, skewed, shadowed, events>>

PostFails ==
    /\ post # NoPost
    /\ post' = NoPost
    /\ UNCHANGED <<database, emails, counter, selected, tab, chat, card, cache, editing, replies,
                   pending, timer, loads, marks, closing, history, events>>

-----------------------------------------------------------------------------
(* The card: the form of a reply, and the button that archives the email.   *)

OnCard(t) == tab = "emails" /\ card = t

Unreplied == UNCHANGED <<database, emails, counter, selected, tab, chat, card, pending, timer,
                         network, history>>

OpenReply(t) ==
    /\ Event
    /\ OnCard(t) /\ t \notin forms
    /\ forms' = forms \cup {t} /\ reply' = "used"
    /\ UNCHANGED <<cache, editing>> /\ Unreplied

\* The text, a composition in it, or the choice of files.
UseReply(t) ==
    /\ OnCard(t) /\ t \in forms
    /\ reply' = "used"
    /\ UNCHANGED <<cache, editing, forms, events>> /\ Unreplied

LeaveReply ==
    /\ reply = "used"
    /\ reply' = "none"
    /\ UNCHANGED <<cache, editing, forms, events>> /\ Unreplied

\* Given up on the card, or sent, which may be answered when another card is shown.
CloseReply(t) ==
    /\ t \in forms
    /\ forms' = forms \ {t} /\ reply' = "none"
    /\ UNCHANGED <<cache, editing, events>> /\ Unreplied

CloseTask ==
    /\ Click
    /\ tab = "emails" /\ card # NoTask
    /\ closing = NoPost  \* bound: one at a time
    /\ closing' = [task |-> card, state |-> "out"]
    /\ UNCHANGED <<database, emails, counter, selected, tab, chat, card, forms, pending, timer,
                   loads, marks, post, history>>

\* archive_email, which refuses a task in review, and others among those in no review.
ArchiveArrives ==
    /\ closing.state = "out"
    /\ \/ /\ server[closing.task].status # "review"
          /\ archived' = archived \cup {closing.task}
          /\ closing' = [closing EXCEPT !.state = "stored"]
       \/ /\ closing' = [closing EXCEPT !.state = "refused"]
          /\ UNCHANGED archived
    /\ UNCHANGED <<server, emails, counter, selected, tab, chat, card, cache, editing, replies,
                   pending, timer, loads, marks, post, history, events>>

FrozenOf(o, t) == IF o.task = t THEN Frozen(o) ELSE o

\* The email leaves the list there is now, its draft the cache, and the card is closed, whatever
\* it shows; nothing is counted.
ArchiveAnswered ==
    /\ closing.state = "stored"
    /\ closing' = NoPost
    /\ LET t == closing.task
       IN  /\ emails' = Restrict(emails, DOMAIN emails \ {t})
           /\ gone' = IF t \in DOMAIN emails /\ ~emails[t].read THEN gone + 1 ELSE gone
           /\ cache' = [cache EXCEPT ![t] = 0]
           /\ typed' = [typed EXCEPT ![t] = 0]
           /\ atLoad' = [atLoad EXCEPT ![t] = 0]
           /\ chat' = FrozenOf(chat, t) /\ timer' = FrozenOf(timer, t)
           /\ marks' = [m \in DOMAIN marks |->
                          [marks[m] EXCEPT !.live = @ /\ marks[m].task # t]]
    /\ selected' = NoTask /\ card' = NoTask
    /\ CardReplaced
    /\ UNCHANGED <<database, counter, tab, editing, forms, pending, loads, post, skewed, shadowed,
                   events>>

\* Refused, or the call or its answer is lost.
ArchiveFails ==
    /\ closing # NoPost
    /\ closing' = NoPost
    /\ UNCHANGED <<database, emails, counter, selected, tab, chat, card, cache, editing, replies,
                   pending, timer, loads, marks, post, history, events>>

-----------------------------------------------------------------------------

\* The processor, another operator or another browser writes the row.
OthersWrite ==
    /\ \E t \in Tasks :
        \/ /\ server[t].status = "review"  \* once per task, so it needs no bound
           /\ server' = [server EXCEPT ![t].status = "other"]
           /\ UNCHANGED <<archived, events>>
        \/ /\ Event
           /\ \/ /\ server[t].status = "other"
                 /\ server' = [server EXCEPT ![t].status = "review"]
                 /\ UNCHANGED archived
              \/ /\ server' = [server EXCEPT ![t].read = ~server[t].read]
                 /\ UNCHANGED archived
              \/ /\ archived' = IF t \in archived THEN archived \ {t} ELSE archived \cup {t}
                 /\ UNCHANGED server
    /\ UNCHANGED <<emails, counter, selected, tab, chat, card, cache, editing, replies, pending,
                   timer, network, history>>

\* DOMContentLoaded, after the first list.
Init ==
    /\ server = FirstRows /\ archived = {}
    /\ emails = [t \in Tasks |-> [status |-> server[t].status, read |-> server[t].read, text |-> 0]]
    /\ unread = UnreadIn(emails) /\ header = [of |-> "unread", n |-> unread]
    /\ selected = NoTask /\ card = NoTask
    /\ tab = "emails"
    /\ chat = NoObject /\ timer = NoObject
    /\ cache = [t \in Tasks |-> 0] /\ typed = cache /\ atLoad = cache
    /\ forms = {} /\ reply = "none" /\ gone = 0
    /\ editing = FALSE /\ pending = FALSE /\ skewed = FALSE
    /\ loads = <<>> /\ marks = <<>> /\ shadowed = {}
    /\ post = NoPost /\ closing = NoPost
    /\ events = 0

Page ==
    \/ Apply \/ LoadFails \/ RenderSelected \/ MarkDone \/ MarkFails
    \/ PostAnswered \/ PostFails \/ ArchiveAnswered \/ ArchiveFails
Person ==
    \/ \E t \in Tasks : SelectEmail(t) \/ OpenReply(t) \/ UseReply(t) \/ CloseReply(t)
    \/ LeaveReply \/ CloseTask
    \/ CloseAndMarkUnread \/ SwitchTab \/ Focus \/ Type \/ Blur \/ Send
Server == ServerLists \/ PostArrives \/ ArchiveArrives \/ OthersWrite

Next == Tick \/ RefreshAfterBlur \/ Page \/ Person \/ Server

Spec == Init /\ [][Next]_vars

\* setInterval and setTimeout fire, and a list is answered.  Nothing is assumed of people,
\* nor of the other calls.
Fairness ==
    WF_vars(Tick) /\ WF_vars(ServerLists) /\ WF_vars(Apply) /\ WF_vars(RenderSelected)
FairSpec == Spec /\ Fairness
=============================================================================
