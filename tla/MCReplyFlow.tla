---------------------------- MODULE MCReplyFlow ----------------------------
(* A small instance of ReplyFlow for TLC: two logins and two presses of Send. *)
EXTENDS ReplyFlowInvariants

CONSTANTS l1, l2
=============================================================================
