------------------------------ MODULE MCBuild ------------------------------
(***************************************************************************)
(* Builds of a design that is edited up to MaxEdits times.  Two edits are  *)
(* the least with an AST of an old version next to one that does not parse *)
(* and an edit during the parse.                                           *)
(***************************************************************************)
EXTENDS Build
=============================================================================
