----------------------------- MODULE CreateFsm -----------------------------
(***************************************************************************)
(* The second half of Step_2_2.create_fsm: the assignments to the state    *)
(* variable become transitions, the transitions that wait for a start      *)
(* input elect the start state, the transitions into it are redirected to  *)
(* a new stop state, and each transition keeps what idempotent_remove      *)
(* leaves of its condition.  The transitions are added in the order of a   *)
(* dict built from Python sets, that is, in any order.                     *)
(*                                                                         *)
(* An assignment to the state variable is abstracted to what the stage     *)
(* asks of it: `to`, the state whose constant it assigns; `in`, the states *)
(* in which its condition can be true (forward_propagate_state_information,*)
(* a solver call); `start`, whether the condition depends on a start       *)
(* input; `rest`, what remains of the condition when state comparisons,    *)
(* stall conditions and start inputs are removed from it: nothing, a node, *)
(* or the node with id 0 (the first variable the module declares).         *)
(***************************************************************************)
EXTENDS FsmGraphs, FiniteSets

CONSTANTS
  StateNode,   \* nodes that can stand for a state of the program
  Stop,        \* the fresh node of the stop state
  Asg,         \* assignments to the state variable
  Programs     \* what the previous stages may hand over

Rest == {"none", "node", "node0"}

Assignment == [to : StateNode, in : SUBSET StateNode, start : BOOLEAN, rest : Rest]

IsProgram(p) ==
  /\ p.states \subseteq StateNode /\ p.states # {}
  /\ p.asg \in [Asg -> Assignment]
  /\ \A a \in Asg : p.asg[a].to \in p.states /\ p.asg[a].in \subseteq p.states

ASSUME ProgramsAssumption ==
  /\ Stop \notin StateNode
  /\ IsFiniteSet(StateNode)
  /\ IsFiniteSet(Asg)
  /\ \A p \in Programs : IsProgram(p)

VARIABLES
  program,   \* the states and the assignments, fixed
  todo,      \* pairs <<come_from_state, assignment>> of fsm_edges not yet added
  asgOf,     \* transition <<from, to, key>> -> its assignment
  score,     \* start_node_score
  start,     \* start_state, once elected
  kind,      \* transition -> "conditional" or "unconditional", once converted
  pc         \* "add", "elect", "convert", "check", "returned" or "failed"

vars == <<program, todo, asgOf, score, start, kind, pc>>

Transitions == DOMAIN asgOf
States == program.states
AllStates == States \cup {Stop}

Init ==
  /\ program \in Programs
  /\ todo = {x \in StateNode \X Asg : x[1] \in program.asg[x[2]].in}
  /\ asgOf = [t \in {} |-> 0]
  /\ score = [s \in program.states |-> 0]
  /\ start = Stop
  /\ kind = [t \in {} |-> ""]
  /\ pc = "add"

\* add_edge: an edge that is there already has its info overwritten.
WithEdge(f, e, a) == [d \in DOMAIN f \cup {e} |-> IF d = e THEN a ELSE f[d]]

InDegree(E, t) == Cardinality({e \in E : e[2] = t})

\* Faulty: counts from -1.
KeyOffByOne(E, s, t) == InDegree(E, t) - 1

\* The key of a new transition from s to t.
NewKey(E, s, t) == InDegree(E, t)

AddTransition(s, a) ==
  /\ pc = "add"
  /\ <<s, a>> \in todo
  /\ LET t == program.asg[a].to
     IN  asgOf' = WithEdge(asgOf, <<s, t, NewKey(Transitions, s, t)>>, a)
  /\ score' = IF program.asg[a].start THEN [score EXCEPT ![s] = @ + 1] ELSE score
  /\ todo' = todo \ {<<s, a>>}
  /\ UNCHANGED <<program, start, kind, pc>>

AllAdded ==
  /\ pc = "add"
  /\ todo = {}
  /\ pc' = "elect"
  /\ UNCHANGED <<program, todo, asgOf, score, start, kind>>

----------------------------------------------------------------------------
(* The start state.                                                        *)

\* Faulty: a tie is taken for a win.
WinsOnTies(s) == \A t \in States \ {s} : score[s] >= score[t]

Wins(s) == \A t \in States \ {s} : score[s] > score[t]

\* The best two are compared, so a program of one state is an IndexError.
NoElection ==
  /\ pc = "elect"
  /\ \/ Cardinality(States) = 1
     \/ ~\E s \in States : Wins(s)
  /\ pc' = "failed"
  /\ UNCHANGED <<program, todo, asgOf, score, start, kind>>

\* Faulty: the start state's transitions to itself are kept and redirected.
RedirectedWithLoops(f, s) ==
  LET into == {e \in DOMAIN f : e[2] = s}
      moved == {<<e[1], Stop, e[3]>> : e \in into}
  IN  [e \in (DOMAIN f \ into) \cup moved |->
         IF e \in moved THEN f[<<e[1], s, e[3]>>] ELSE f[e]]

\* Self-loops of the start state s are dropped; the other transitions into
\* it lead to the stop state, under the key they had.
Redirected(f, s) ==
  LET into == {e \in DOMAIN f : e[2] = s}
      moved == {<<e[1], Stop, e[3]>> : e \in {d \in into : d[1] # s}}
  IN  [e \in (DOMAIN f \ into) \cup moved |->
         IF e \in moved THEN f[<<e[1], s, e[3]>>] ELSE f[e]]

Elect(s) ==
  /\ pc = "elect"
  /\ Cardinality(States) > 1
  /\ Wins(s)
  /\ start' = s
  /\ asgOf' = Redirected(asgOf, s)
  /\ pc' = "convert"
  /\ UNCHANGED <<program, todo, score, kind>>

----------------------------------------------------------------------------
(* Conditions, and the final check.                                        *)

\* `if condition:` of the cleaned condition: the node with id 0 is falsy.
HasCondition(a) == program.asg[a].rest = "node"

Convert ==
  /\ pc = "convert"
  /\ kind' = [e \in Transitions |->
                IF HasCondition(asgOf[e]) THEN "conditional" ELSE "unconditional"]
  /\ pc' = "check"
  /\ UNCHANGED <<program, todo, asgOf, score, start>>

\* Faulty: the stop state is not asked for.
UnreachableIgnoringStop(E) == States \ ReachableFrom(E, AllStates, start)

UnreachableStates(E) == AllStates \ ReachableFrom(E, AllStates, start)

CheckReachable ==
  /\ pc = "check"
  /\ pc' = IF UnreachableStates(Transitions) = {} THEN "returned" ELSE "failed"
  /\ UNCHANGED <<program, todo, asgOf, score, start, kind>>

Next ==
  \/ \E s \in StateNode, a \in Asg : AddTransition(s, a)
  \/ AllAdded
  \/ NoElection
  \/ \E s \in States : Elect(s)
  \/ Convert
  \/ CheckReachable

Spec == Init /\ [][Next]_vars

----------------------------------------------------------------------------
TypeOK ==
  /\ IsProgram(program)
  /\ todo \subseteq States \X Asg
  /\ Transitions \subseteq States \X AllStates \X Nat
  /\ \A e \in Transitions : asgOf[e] \in Asg
  /\ score \in [States -> Nat]
  /\ start \in AllStates
  /\ \A e \in DOMAIN kind : kind[e] \in {"conditional", "unconditional"}
  /\ pc \in {"add", "elect", "convert", "check", "returned", "failed"}

(***************************************************************************)
(* What construct_cfg relies on: an FSM that is returned has nothing       *)
(* leading into its start state or out of its stop state, unique keys into *)
(* each state (so that no edge of a later graph overwrites another), and   *)
(* every state reachable from the start.                                   *)
(***************************************************************************)
ResultWellFormed ==
  pc = "returned" => FsmWellFormed(Transitions, AllStates, start, Stop)

\* The transitions the assignments ask for once s is the start state.
Requested(s) ==
  {<<x[1], IF program.asg[x[2]].to = s THEN Stop ELSE program.asg[x[2]].to, x[2]>> :
     x \in {y \in StateNode \X Asg :
              /\ y[1] \in program.asg[y[2]].in
              /\ ~(y[1] = s /\ program.asg[y[2]].to = s)}}

\* The transitions there are.
Realised == {<<e[1], e[2], asgOf[e]>> : e \in Transitions}

(***************************************************************************)
(* Numbering, redirecting and overwriting edges neither loses nor invents  *)
(* a transition: those of the result are the ones the assignments request. *)
(***************************************************************************)
NoTransitionLost ==
  pc = "returned" => Realised = Requested(start)

(***************************************************************************)
(* The order of the dict does not matter: the state elected is the one in  *)
(* which most assignments to the state variable wait for a start input.    *)
(***************************************************************************)
WaitingIn(s) == {a \in Asg : program.asg[a].start /\ s \in program.asg[a].in}

StartWaitsMost ==
  pc = "returned" =>
    \A t \in States \ {start} :
      Cardinality(WaitingIn(start)) > Cardinality(WaitingIn(t))

(***************************************************************************)
(* "Now the fsm conditions do not exist anymore, replace them with their   *)
(* cleaned nodes": a transition whose cleaned condition is a node becomes  *)
(* a conditional transition.                                               *)
(***************************************************************************)
CleanedConditionsKept ==
  pc = "returned" =>
    \A e \in Transitions :
      kind[e] = "conditional" <=> program.asg[asgOf[e]].rest # "none"
=============================================================================
