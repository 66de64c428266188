----------------------------- MODULE FsmGraphs -----------------------------
(***************************************************************************)
(* The finite state machine that create_fsm (Step_2_2.py) hands to the     *)
(* control flow stages: State nodes joined by transitions.  The graph is   *)
(* a networkx MultiDiGraph, so a transition is a triple <<from, to, key>>  *)
(* and two states may be joined by several.                                *)
(***************************************************************************)
EXTENDS Integers

Succs(E, s) == {e[2] : e \in {d \in E : d[1] = s}}
Preds(E, t) == {e[1] : e \in {d \in E : d[2] = t}}

\* No two transitions join the same pair of states.
Simple(E) == \A d, e \in E : d[1] = e[1] /\ d[2] = e[2] => d = e

\* t can only follow s, and s can only be followed by t.
Fused(E, s, t) == Succs(E, s) = {t} /\ Preds(E, t) = {s}

\* A transition can be told apart among the transitions into its target.
KeysUnique(E) == \A d, e \in E : d[2] = e[2] /\ d[3] = e[3] => d = e

\* nx.has_path(start, s): s is in every set that holds start and is closed
\* under the transitions.
ReachableFrom(E, S, start) ==
  {s \in S : \A X \in SUBSET S :
     start \in X /\ (\A e \in E : e[1] \in X => e[2] \in X) => s \in X}

(***************************************************************************)
(* What create_fsm guarantees of the FSM it returns, over the states S:    *)
(* nothing leads into the start state or out of the stop state, keys are   *)
(* unique into a state, and every state is reachable from the start state. *)
(***************************************************************************)
FsmWellFormed(E, S, start, stop) ==
  /\ start \in S /\ stop \in S /\ start # stop
  /\ E \subseteq S \X S \X Nat
  /\ Preds(E, start) = {}
  /\ Succs(E, stop) = {}
  /\ KeysUnique(E)
  /\ ReachableFrom(E, S, start) = S
=============================================================================
