----------------------------- MODULE OrderList -----------------------------
(***************************************************************************)
(* The list the pages of an operator show (services/queue.py): one row per *)
(* email, with one of its orders.  An email the mail agent stored twice    *)
(* has two, and the other one cannot be seen or answered.                  *)
(***************************************************************************)
EXTENDS TaskPipeline

\* _task_status_order_sql; "question" is not named there.
RankErrorFirst ==
    [completed |-> 0, manual_review_done |-> 1, ml_classified |-> 2, error |-> 3,
     materials_review |-> 4, ml_review |-> 5, new |-> 6, question |-> 100]
Rank ==
    [completed |-> 0, manual_review_done |-> 1, ml_classified |-> 2, materials_review |-> 3,
     ml_review |-> 4, new |-> 7, error |-> 8, question |-> 100]

\* ORDER BY rank, created_at DESC LIMIT 1
Before(t, u) == Rank[status[t]] < Rank[status[u]] \/ (Rank[status[t]] = Rank[status[u]] /\ t > u)
Listed(e) == CHOOSE t \in TasksOf(e) : \A u \in TasksOf(e) \ {t} : Before(t, u)

\* GET /api/queue with archived = FALSE, the page of an inbox.
Inbox == {e \in Emails : TasksOf(e) # {} /\ ~archived[e]}

\* The email of an order that asks the operator something is listed with an order that asks
\* (what its chat shows of it is ReviewAsksParts' matter), with one the processor still has to
\* fetch, so that the list will change, or with one that has a result: no order in error hides a
\* question (services/queue.py:9, 137).
QuestionsReachOperator ==
    \A e \in Inbox :
        (\E t \in TasksOf(e) : status[t] = "materials_review") =>
            \/ status[Listed(e)] \in PendingStatus \cup {"materials_review"}
            \/ HasFile(Listed(e), "main")
=============================================================================
