---------------------------- MODULE MCMailIngest ----------------------------
(* Small instances of MailIngest for TLC. *)
EXTENDS MailIngestIntake, TLC

CONSTANTS u1, u2, m1, m2, m3, m4, f1, f2, w1, w2

\* Two mailboxes: the first with an order with attachments and a message that cannot
\* be parsed, the second with an order without attachments.
TwoOwner == (m1 :> u1) @@ (m2 :> u2) @@ (m3 :> u1)
TwoFiles == (m1 :> {f1, f2}) @@ (m2 :> {}) @@ (m3 :> {})

\* In the second mailbox a message the parser does not come back from.
EndlessOwner == (m1 :> u1) @@ (m3 :> u1) @@ (m4 :> u2)
EndlessFiles == (m1 :> {f1}) @@ (m3 :> {}) @@ (m4 :> {})

\* Goroutines are interchangeable in the safety properties.
WorkerSymmetry == Permutations(Workers)
=============================================================================
