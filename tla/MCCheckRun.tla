----------------------------- MODULE MCCheckRun -----------------------------
(***************************************************************************)
(* A value of Listing for the instances of CheckRun.                       *)
(***************************************************************************)
EXTENDS CheckRun

AllNodes == Nodes
=============================================================================
