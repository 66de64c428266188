---------------------------- MODULE ControlFlow ----------------------------
(***************************************************************************)
(* Step_3_5.create_branches on the control flow graph that construct_cfg   *)
(* built (CfgConstruction, whose steps are part of this module), and a run *)
(* of the program that results.                                            *)
(*                                                                         *)
(* A block gets one branch node: a return, a jump, or a conditional branch *)
(* whose then and else edges are the two members of a Python set, in any   *)
(* order.  create_fsm makes one variable per conditional transition, so a  *)
(* condition goes by its transition here.  generate_mlir prints the branch *)
(* nodes as func.return, cf.br and cf.cond_br; TakeBranch and Return are   *)
(* what these do.  Within a block a run passes the fused states in turn.   *)
(***************************************************************************)
EXTENDS CfgConstruction

VARIABLES
  conditional,  \* the transitions of the FSM that carry a condition
  branch,       \* block -> its branch node, once created
  holds,        \* the conditions that hold, among those out of `at`
  at,           \* the state the run is in
  phase         \* "construct", "running", "ended" or "failed"

flowVars == <<vars, conditional, branch, holds, at, phase>>

FlowInit ==
  /\ Init
  /\ conditional \in SUBSET fsm
  /\ branch = << >>
  /\ holds = {}
  /\ at = Start
  /\ phase = "construct"

Construct ==
  /\ phase = "construct"
  /\ Next
  /\ UNCHANGED <<conditional, branch, holds, at, phase>>

----------------------------------------------------------------------------
(* create_branches                                                         *)

\* graph.graph.out_edges(bb, keys=True)
OutEdges(b) == {d \in cfg : d[1] = b}

\* The transition that construct_cfg made the edge d from; d has its info.
TransitionOf(d) ==
  CHOOSE e \in fsm : e[1] = d[1] /\ bbOfState[e[2]] = d[2] /\ e[3] = d[3]

OneWay(b) == \A d, e \in OutEdges(b) : d = e

\* Exactly two edges, and each carries a condition.
TwoConditions(b) ==
  /\ \E d, e \in OutEdges(b) : d # e /\ OutEdges(b) = {d, e}
  /\ \A d \in OutEdges(b) : TransitionOf(d) \in conditional

\* Faulty: then and else are swapped.
SwappedNode(b, first) ==
  IF OutEdges(b) = {} THEN [op |-> "return"]
  ELSE IF OneWay(b) THEN [op |-> "goto", to |-> (CHOOSE d \in OutEdges(b) : TRUE)[2]]
  ELSE [op |-> "if", on |-> TransitionOf(first),
        then |-> (CHOOSE d \in OutEdges(b) : d # first)[2], else |-> first[2]]

\* Faulty: the first edge is taken for both.
OneSidedNode(b, first) ==
  IF OutEdges(b) = {} THEN [op |-> "return"]
  ELSE IF OneWay(b) THEN [op |-> "goto", to |-> (CHOOSE d \in OutEdges(b) : TRUE)[2]]
  ELSE [op |-> "if", on |-> TransitionOf(first), then |-> first[2], else |-> first[2]]

\* The branch node of b, where `first` is the edge that list(set) has first.
BranchNode(b, first) ==
  IF OutEdges(b) = {} THEN [op |-> "return"]
  ELSE IF OneWay(b) THEN [op |-> "goto", to |-> (CHOOSE d \in OutEdges(b) : TRUE)[2]]
  ELSE [op |-> "if", on |-> TransitionOf(first),
        then |-> first[2], else |-> (CHOOSE d \in OutEdges(b) : d # first)[2]]

\* Where a block is entered.
EntryOf(b) == CHOOSE s \in statesOfBB[b] : Entries(b) = {s}

Valuations(s) == SUBSET {e \in conditional : e[1] = s}

CreateBranches ==
  /\ phase = "construct"
  /\ pc = "built"
  /\ \A b \in Blocks : OneWay(b) \/ TwoConditions(b)
  /\ \E first \in [{b \in Blocks : ~OneWay(b)} -> cfg] :
       /\ \A b \in DOMAIN first : first[b] \in OutEdges(b)
       /\ branch' = [b \in Blocks |->
                       BranchNode(b, IF OneWay(b) THEN << >> ELSE first[b])]
  /\ phase' = "running"
  /\ at' = EntryOf(bbOfState[Start])
  /\ holds' \in Valuations(at')
  /\ UNCHANGED <<vars, conditional>>

\* More than two edges, or one without a condition next to another.
RejectBranches ==
  /\ phase = "construct"
  /\ pc = "built"
  /\ \E b \in Blocks : ~(OneWay(b) \/ TwoConditions(b))
  /\ phase' = "failed"
  /\ UNCHANGED <<vars, conditional, branch, holds, at>>

----------------------------------------------------------------------------
(* A run of the program.                                                   *)

GoTo(s) ==
  /\ at' = s
  /\ holds' \in Valuations(s)
  /\ UNCHANGED <<vars, conditional, branch, phase>>

WithinBlock ==
  /\ phase = "running"
  /\ bbOfState[at] # at
  /\ \E t \in statesOfBB[bbOfState[at]] : Fused(fsm, at, t) /\ GoTo(t)

\* cf.br and cf.cond_br
Target(n) ==
  IF n.op = "goto" THEN n.to ELSE IF n.on \in holds THEN n.then ELSE n.else

TakeBranch ==
  /\ phase = "running"
  /\ bbOfState[at] = at
  /\ branch[at].op # "return"
  /\ GoTo(EntryOf(Target(branch[at])))

\* func.return
Return ==
  /\ phase = "running"
  /\ bbOfState[at] = at
  /\ branch[at].op = "return"
  /\ phase' = "ended"
  /\ UNCHANGED <<vars, conditional, branch, holds, at>>

FlowNext ==
  \/ Construct
  \/ CreateBranches
  \/ RejectBranches
  \/ WithinBlock
  \/ TakeBranch
  \/ Return

FlowSpec == FlowInit /\ [][FlowNext]_flowVars

----------------------------------------------------------------------------
IsBranchNode(n) ==
  \/ n.op = "return"
  \/ n.op = "goto" /\ n.to \in Blocks
  \/ n.op = "if" /\ n.on \in conditional /\ n.then \in Blocks /\ n.else \in Blocks

FlowTypeOK ==
  /\ conditional \subseteq fsm
  /\ at \in State
  /\ holds \subseteq {e \in conditional : e[1] = at}
  /\ phase \in {"construct", "running", "ended", "failed"}
  /\ phase \in {"running", "ended"} =>
       /\ pc = "built"
       /\ DOMAIN branch = Blocks
       /\ \A b \in Blocks : IsBranchNode(branch[b])

Targets(n) ==
  CASE n.op = "return" -> {}
    [] n.op = "goto" -> {n.to}
    [] n.op = "if" -> {n.then, n.else}

(***************************************************************************)
(* The branch that ends a block leads to the blocks that the FSM goes to   *)
(* from the block's last state, and to no others: no transition of the FSM *)
(* becomes dead code, and none is invented.                                *)
(***************************************************************************)
BranchesCoverTransitions ==
  phase = "running" =>
    \A b \in Blocks :
      Targets(branch[b]) = {bbOfState[t] : t \in Succs(fsm, b)}

FE == INSTANCE FsmExecution WITH
        status <- IF phase \in {"running", "ended"} THEN phase ELSE "idle"

(***************************************************************************)
(* A run of the program is a run of the FSM, whichever edge of a block was *)
(* called the then edge: where a condition decides the FSM's next state,   *)
(* the program goes there too, and it returns only where the FSM ends.     *)
(***************************************************************************)
ImplementsFsm == FE!Spec
=============================================================================
