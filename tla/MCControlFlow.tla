--------------------------- MODULE MCControlFlow ---------------------------
(***************************************************************************)
(* Small FSMs for the control flow stages: a start state 0, a stop state   *)
(* 3, two states in between; at most two transitions out of a state, which *)
(* may be parallel, except out of state 1, which may have three.           *)
(***************************************************************************)
EXTENDS ControlFlow

MCState == 0 .. 3

Fans(s, targets, copies, most) ==
  LET all == {<<s, t, s * 2 + i>> : t \in targets, i \in copies}
  IN  {F \in SUBSET all : F # {} /\ Cardinality(F) <= most}

MCFsms ==
  {E \in {A \cup B \cup C :
            A \in {{<<0, 1, 0>>}, {<<0, 1, 0>>, <<0, 2, 0>>}},
            B \in Fans(1, 1 .. 3, {0}, 3),
            C \in Fans(2, 1 .. 3, {0, 1}, 2)} :
     ReachableFrom(E, MCState, 0) = MCState}
=============================================================================
