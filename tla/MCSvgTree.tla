----------------------------- MODULE MCSvgTree -----------------------------
(* Instances of SvgTree for TLC; their constants are given in the .cfg     *)
(* files.                                                                  *)
EXTENDS SvgTreeInv
=============================================================================
