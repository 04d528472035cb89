-------------------------- MODULE MCWorkflowListing --------------------------
(* Instance of WorkflowListing for TLC: three workflows in pages of two.     *)
EXTENDS WorkflowListing

CONSTANTS w1, w2, w3
ThreeWorkflows == {w1, w2, w3}
=============================================================================
