------------------------- MODULE MCCfgConstruction -------------------------
(***************************************************************************)
(* Small FSMs for construct_cfg: a start state 0, a stop state Last, and   *)
(* the states in between, each with at most MaxOut ways out (the stage     *)
(* that creates branches accepts two).  States other than 0 and Last are   *)
(* interchangeable, so the start state leads to 1, or to 1 and 2.          *)
(***************************************************************************)
EXTENDS CfgConstruction

CONSTANTS
  Last,    \* the stop state; the states are 0 .. Last
  MaxOut   \* transitions out of a state, at most

MCState == 0 .. Last
MCStart == 0
MCStop == Last

Inner == 1 .. Last - 1

\* The transitions out of s.  Their keys are unique among the transitions
\* into a state, as in-degree numbers are, and agree on the transitions out
\* of a state, the case in which an edge of the block graph could be lost.
Fans(s, targets) ==
  LET all == {<<s, t, s>> : t \in targets}
  IN  {F \in SUBSET all : F # {} /\ Cardinality(F) <= MaxOut}

StartFans == {F \in Fans(0, {1, 2} \cap Inner) : Succs(F, 0) # {2}}

InnerFans(s) == Fans(s, 1 .. Last)

RECURSIVE FsmsUpTo(_)
FsmsUpTo(s) ==
  IF s = 0 THEN StartFans
  ELSE {E \cup F : E \in FsmsUpTo(s - 1), F \in InnerFans(s)}

MCFsms == {E \in FsmsUpTo(Last - 1) : ReachableFrom(E, MCState, 0) = MCState}
=============================================================================
