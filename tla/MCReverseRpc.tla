---------------------------- MODULE MCReverseRpc ----------------------------
(***************************************************************************)
(* Instances of ReverseRpc for TLC.                                        *)
(***************************************************************************)
EXTENDS ReverseRpc
=============================================================================
