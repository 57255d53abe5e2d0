-------------------------- MODULE MCApprovalPrompt --------------------------
(* Timeouts around both bounds of the clamp, and the default. *)
EXTENDS ApprovalPrompt

MCTimeouts == {-1, 0, 1, 60, 3600, 4000}
=============================================================================
