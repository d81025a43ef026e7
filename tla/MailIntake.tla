----------------------------- MODULE MailIntake -----------------------------
(***************************************************************************)
(* What the mail agent promises of the mailboxes, without workers,         *)
(* connections, rounds, uploads or a process that may die: the unread      *)
(* messages of a mailbox are taken in hand together, and not again before  *)
(* all of them are let go; only a message in hand becomes an order, and at *)
(* most one while it is in hand; and the agent marks a message only if its *)
(* order is there with all attachments, or was refused and logged.         *)
(***************************************************************************)
EXTENDS Naturals

CONSTANTS Users, Messages, Owner, FilesOf

VARIABLES
    inbox,       \* the messages that arrived
    read,        \* those a mail program shows as read
    hand,        \* per message "free", "listed", or "settled": ordered or refused
    orders,      \* per message the number of its orders
    attachments, \* those that are stored with an order
    refused      \* the messages an order of which was refused

intake == <<inbox, read, hand, orders, attachments, refused>>

Init ==
    /\ inbox = {} /\ read = {}
    /\ hand = [m \in Messages |-> "free"]
    /\ orders = [m \in Messages |-> 0]
    /\ attachments = {} /\ refused = {}

Arrive(m) ==
    /\ m \notin inbox
    /\ inbox' = inbox \cup {m}
    /\ UNCHANGED <<read, hand, orders, attachments, refused>>

\* A person opens a message, or marks it unread again, whoever has it in hand.
Touch(m) ==
    /\ m \in inbox
    /\ read' = IF m \in read THEN read \ {m} ELSE read \cup {m}
    /\ UNCHANGED <<inbox, hand, orders, attachments, refused>>

Unread(u) == {m \in inbox \ read : Owner[m] = u}

Take(u) ==
    /\ \A m \in Messages : Owner[m] = u => hand[m] = "free"
    /\ hand' = [m \in Messages |-> IF m \in Unread(u) THEN "listed" ELSE hand[m]]
    /\ UNCHANGED <<inbox, read, orders, attachments, refused>>

Settle(m) ==
    /\ hand[m] = "listed"
    /\ hand' = [hand EXCEPT ![m] = "settled"]
    /\ UNCHANGED <<inbox, read>>

\* The attachments may be missing if the message was read over a breaking connection.
Order(m) ==
    /\ Settle(m)
    /\ orders' = [orders EXCEPT ![m] = @ + 1]
    /\ attachments' \in {attachments, attachments \cup FilesOf[m]}
    /\ UNCHANGED refused

Refuse(m) ==
    /\ Settle(m)
    /\ refused' = refused \cup {m}
    /\ UNCHANGED <<orders, attachments>>

Finish(m) ==
    /\ hand[m] = "settled"
    /\ m \in refused \/ (orders[m] > 0 /\ FilesOf[m] \subseteq attachments)
    /\ read' = read \cup {m}
    /\ hand' = [hand EXCEPT ![m] = "free"]
    /\ UNCHANGED <<inbox, orders, attachments, refused>>

\* Messages are let go as they are: they could not be read or marked, a round was broken
\* off, or the process died.
LetGo ==
    /\ hand' \in [Messages -> {"free", "listed", "settled"}]
    /\ \A m \in Messages : hand'[m] \in {hand[m], "free"}
    /\ UNCHANGED <<inbox, read, orders, attachments, refused>>

Next ==
    \/ \E m \in Messages : Arrive(m) \/ Touch(m) \/ Order(m) \/ Refuse(m) \/ Finish(m)
    \/ \E u \in Users : Take(u)
    \/ LetGo

Spec == Init /\ [][Next]_intake
=============================================================================
