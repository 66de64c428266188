---------------------------- MODULE FsmExecution ----------------------------
(***************************************************************************)
(* How the hardware runs its finite state machine: in each cycle it takes  *)
(* a transition out of the current state that has no condition or one that *)
(* holds, and waits if there is none.  A state without transitions ends    *)
(* the run.  This is what the program made from the control flow graph     *)
(* has to do; waits are not visible in it.                                 *)
(***************************************************************************)
EXTENDS FsmGraphs

CONSTANT Start

VARIABLES
  fsm,          \* the transitions
  conditional,  \* those that carry a condition
  holds,        \* the conditions that hold, among those out of `at`
  at,           \* the current state
  status        \* "idle", "running" or "ended"

vars == <<fsm, conditional, holds, at, status>>

Out == {e \in fsm : e[1] = at}
Enabled == {e \in Out : e \in conditional => e \in holds}

Valuations(s) == SUBSET {e \in conditional : e[1] = s}

Init ==
  /\ conditional \subseteq fsm
  /\ at = Start
  /\ holds = {}
  /\ status = "idle"

Begin ==
  /\ status = "idle"
  /\ status' = "running"
  /\ holds' \in Valuations(at)
  /\ UNCHANGED <<fsm, conditional, at>>

\* An enabled transition, or, where the FSM waits, the one taken after the wait.
Move ==
  /\ status = "running"
  /\ \E e \in Out :
       /\ Enabled # {} => e \in Enabled
       /\ at' = e[2]
  /\ holds' \in Valuations(at')
  /\ UNCHANGED <<fsm, conditional, status>>

End ==
  /\ status = "running"
  /\ Out = {}
  /\ status' = "ended"
  /\ UNCHANGED <<fsm, conditional, holds, at>>

Next == Begin \/ Move \/ End

Spec == Init /\ [][Next]_vars
=============================================================================
