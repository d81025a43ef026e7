----------------------------- MODULE MCMailPage -----------------------------
(* Small instances of MailPage for TLC. *)
EXTENDS MailPageInvariants, TLC

CONSTANTS t1, t2

\* One email waits for answers and is unread; the other has been read and asks nothing.
OneReview == (t1 :> [status |-> "review", read |-> FALSE])
             @@ (t2 :> [status |-> "other", read |-> TRUE])

\* Tasks and emails are numbered apart, and the email of t1 happens to have the number of t1, so
\* that its reply form counts where that task is selected.
Alike == (t1 :> t1) @@ (t2 :> NoTask)
=============================================================================
