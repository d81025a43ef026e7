--------------------------- MODULE MCTaskPipeline ---------------------------
(* Small instances of TaskPipeline for TLC. *)
EXTENDS TaskPipelineInvariants, TaskPipelineClaims, TaskPipelineDesk, OrderList, TLC

CONSTANTS e1, e2, d1, d2, d3, p1, p2, p3, o1, o2

\* Two orders: the first with two documents that share no part, one known and one
\* perhaps not; the second with a document that has the blank part besides.
TwoEmailOf == <<e1, e2>>
TwoDocsOf == (e1 :> {d1, d2}) @@ (e2 :> {d3})
TwoContent == (d1 :> "sound") @@ (d2 :> "sound") @@ (d3 :> "sound")
TwoPartsOf == (d1 :> {p1}) @@ (d2 :> {p2}) @@ (d3 :> {p1, p3})
TwoDictionaries == {[p \in Parts |-> IF p \in {p1, p3} THEN "unknown" ELSE "known"],
                    [p \in Parts |-> IF p = p3 THEN "unknown" ELSE "known"]}

\* The same with a document of the second order that the parser of materials fails on.
BrokenContent == [TwoContent EXCEPT ![d3] = "unbalanced"]

\* The same without the blank part.
PlainPartsOf == [TwoPartsOf EXCEPT ![d3] = {p1}]

\* One email the mail agent stored twice, with a file that cannot be read and one
\* without sizes beside the good one.
CopyEmailOf == <<e1, e1>>
CopyDocsOf == (e1 :> {d1, d2, d3})
CopyContent == (d1 :> "sound") @@ (d2 :> "empty") @@ (d3 :> "unreadable")
CopyPartsOf == (d1 :> {p1}) @@ (d2 :> {p2}) @@ (d3 :> {})
CopyDictionaries == {[p \in Parts |-> IF p = p1 THEN "black" ELSE "unknown"]}

\* The operators are interchangeable in the safety properties.
OperatorSymmetry == Permutations(Operators)
=============================================================================
