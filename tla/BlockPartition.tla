--------------------------- MODULE BlockPartition ---------------------------
(***************************************************************************)
(* What construct_cfg promises, without its worklist: starting from one    *)
(* block per state, two different blocks are joined when a state of the    *)
(* first can only be followed by a state of the second and the second can  *)
(* only be entered from the first.  When the partition is published no     *)
(* two blocks are left to join.                                            *)
(***************************************************************************)
EXTENDS FsmGraphs

CONSTANTS State, Start, Stop

VARIABLES fsm, blocks, published

vars == <<fsm, blocks, published>>

Joinable(A, B) == \E s \in A, t \in B : Fused(fsm, s, t)

Init ==
  /\ FsmWellFormed(fsm, State, Start, Stop)
  /\ blocks = {{s} : s \in State}
  /\ published = FALSE

Join(A, B) ==
  /\ ~published
  /\ A # B
  /\ Joinable(A, B)
  /\ blocks' = (blocks \ {A, B}) \cup {A \cup B}
  /\ UNCHANGED <<fsm, published>>

Publish ==
  /\ ~published
  /\ \A A, B \in blocks : A # B => ~Joinable(A, B)
  /\ published' = TRUE
  /\ UNCHANGED <<fsm, blocks>>

Next == Publish \/ \E A, B \in blocks : Join(A, B)

Safety == Init /\ [][Next]_vars
Spec == Safety /\ WF_vars(Next)
=============================================================================
