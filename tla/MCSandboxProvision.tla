-------------------------- MODULE MCSandboxProvision --------------------------
(***************************************************************************)
(* Instances of SandboxProvision for TLC.                                  *)
(***************************************************************************)
EXTENDS SandboxProvision
=============================================================================
