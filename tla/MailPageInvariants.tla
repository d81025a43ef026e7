------------------------- MODULE MailPageInvariants -------------------------
(* What the page must keep for the operator who works in it. *)
EXTENDS MailPage

Texts == 0..MaxTyped
NoneOr == Tasks \cup {NoTask}
Objects == [task : NoneOr, live : BOOLEAN, text : Texts, status : {"review", "other"}]
Rows == [status : {"review", "other"}, read : BOOLEAN]
Items == [status : {"review", "other"}, read : BOOLEAN, text : Texts]
Lists == UNION {[shown -> Items] : shown \in SUBSET Tasks}
Calls == [prev : NoneOr, post : BOOLEAN, answered : {FALSE}, rows : {<<>>}]
         \cup [prev : NoneOr, post : BOOLEAN, answered : {TRUE},
               rows : UNION {[listed -> Rows] : listed \in SUBSET Tasks}]
Marks == [task : Tasks, value : BOOLEAN, live : BOOLEAN]
ReplyStates == {"none", "used", "stuck"}
Headers == [of : {"unread", "all", "error"}, n : Nat]
Posts == {NoPost} \cup [task : Tasks, state : {"out", "stored", "refused"}]

\* Every variable keeps its type, and an object is live only while its email is in the list.
TypeOK ==
    /\ server \in [Tasks -> Rows] /\ archived \subseteq Tasks
    /\ emails \in Lists
    /\ unread \in Nat /\ gone \in Nat /\ header \in Headers
    /\ selected \in NoneOr /\ card \in NoneOr
    /\ tab \in {"emails", "chat"}
    /\ chat \in Objects /\ timer \in Objects
    /\ \A o \in {chat, timer} : o.live => o.task \in DOMAIN emails
    /\ cache \in [Tasks -> Texts] /\ typed \in [Tasks -> Texts] /\ atLoad \in [Tasks -> Texts]
    /\ forms \subseteq Tasks /\ reply \in ReplyStates
    /\ editing \in BOOLEAN /\ pending \in BOOLEAN /\ skewed \in BOOLEAN
    /\ loads \in Seq(Calls)
    /\ marks \in Seq(Marks)
    /\ \A n \in DOMAIN marks : marks[n].live => marks[n].task \in DOMAIN emails
    /\ post \in Posts /\ closing \in Posts
    /\ shadowed \subseteq Tasks
    /\ events \in 0..MaxEvents

\* What an operator typed and did not send is never lost to a refresh, however the calls come
\* in: the cache has all of it, and more when an input is left after its answer was stored
\* (mail-chat.js:36, mail-common.js:146).  Only a render can bring back an older text, and leaving
\* its input then stores that: the render of a click that comes after a newer list
\* (mail-render-list.js:274), and that of a tab after the typing went to an object a list had
\* replaced (mail-init.js:24).  One field stands for the fields of all parts: the draft of a part
\* that the row no longer asks for is dropped (mail-chat.js:39) and left out here.
DraftKept == \A t \in Tasks : cache[t] >= typed[t] \/ t \in shadowed

\* The number of unread emails over the list, where that stands there, is the number of those in
\* the list and of those archived on the page since it was loaded (mail-render-card.js:648).  It
\* is wrong otherwise only after a mark was taken back that a newer list or a newer mark had
\* overtaken (mail-render-list.js:255); the next list puts it right.  After an answer that was
\* posted the number of all emails stands there instead (mail-api.js:155, mail-chat.js:369).
CounterExplained ==
    header.of = "unread" => skewed \/ header.n = UnreadIn(emails) + gone

\* An answer that can be sent holds all that was typed until the list was last replaced; only what
\* went to an object that list replaced may be missing (mail-chat.js:331).
PostedIsRecent ==
    Answerable /\ selected \notin shadowed => emails[selected].text >= atLoad[selected]

\* A silent refresh never takes the input from under the operator's hands: as long as it is
\* edited its text, its email and the focus stay (mail-init.js:83).
TypingUndisturbed ==
    [][(\E n \in DOMAIN loads : ~loads[n].post /\ loads' = RemoveAt(loads, n)) /\ MaterialProtected
        => editing' /\ chat'.task = chat.task /\ TextIn(chat)' = TextIn(chat)]_vars

InStep ==
    /\ DOMAIN emails = Tasks \ archived
    /\ \A t \in DOMAIN emails : emails[t].status = server[t].status
                                /\ emails[t].read = server[t].read
    /\ tab = "emails" => card = selected
    /\ tab = "chat" => chat.task = ChatOf(selected, emails).task

\* An operator who leaves the inputs of the chat and of replies alone, with no reply form open that
\* holds the page up, sees what the server has at last: a list that came late, a failed call or a
\* refresh put off is made good by a later one (mail-init.js:62-86).
PageCatchesUp == <>[]~Protected => <>[]InStep

\* CHANGELOG.md:34: "Исправлено обрезание ввода данных в полях материалов при вводе" (input in
\* the fields of materials is no longer cut off while it is typed): what would be sent is what was
\* typed into the fields that are shown.
TypedInputIsPosted ==
    Answerable /\ selected = chat.task => emails[selected].text >= typed[selected]

-----------------------------------------------------------------------------
(* What makes them inductive.                                               *)

\* An object is of an email unless it is null; the chat is not rendered under the other tab, and
\* an input with the focus is in the chat.
InputsBound ==
    /\ \A o \in {chat, timer} : o.task = NoTask => o = NoObject
    /\ tab = "emails" => chat = NoObject
    /\ editing => chat # NoObject

\* The counter is that of the list and of what was archived from it, and the one that is shown.
CounterCounts ==
    /\ skewed \/ unread = UnreadIn(emails) + gone
    /\ header.of = "unread" => header.n = unread

\* The inputs show what was typed, wherever it went.
DraftShown == chat # NoObject => TextIn(chat) >= typed[chat.task] \/ chat.task \in shadowed

\* The list has what was typed until it was loaded.
ListIsRecent == \A t \in DOMAIN emails : emails[t].text >= atLoad[t] \/ t \in shadowed

PageInv ==
    /\ TypeOK
    /\ InputsBound
    /\ DraftShown
    /\ ListIsRecent
    /\ DraftKept
    /\ CounterCounts

=============================================================================
