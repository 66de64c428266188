------------------------- MODULE ControlFlowProofs -------------------------
(***************************************************************************)
(* Proofs about ControlFlow: the program that construct_cfg and            *)
(* create_branches make of an FSM runs as the FSM does, for every FSM that *)
(* create_fsm may return.  What construct_cfg guarantees comes from        *)
(* CfgConstructionProofs, whose invariants hold of this specification too. *)
(***************************************************************************)
EXTENDS ControlFlow, CfgConstructionProofs

\* What create_branches made of the edges out of b.
Describes(n, b) ==
  \/ /\ n.op = "return"
     /\ OutEdges(b) = {}
  \/ /\ n.op = "goto"
     /\ \E d \in OutEdges(b) : OutEdges(b) = {d} /\ n.to = d[2]
  \/ /\ n.op = "if"
     /\ \E d, e \in OutEdges(b) :
          /\ OutEdges(b) = {d, e}
          /\ TransitionOf(d) \in conditional
          /\ n.on = TransitionOf(d)
          /\ n.then = d[2]
          /\ n.else = e[2]

Runs == phase \in {"running", "ended"}

FlowInv ==
  /\ FlowTypeOK
  /\ phase = "construct" => at = Start /\ holds = {}
  /\ Runs => \A b \in Blocks : Describes(branch[b], b)

----------------------------------------------------------------------------
(* The control flow stage as a part of the whole.                          *)

\* Every step of the flow is a step of construct_cfg or leaves its state.
LEMMA FlowIsCfg == FlowSpec => Safety
<1>1. FlowInit => Init
  BY DEF FlowInit
<1>2. [FlowNext]_flowVars => [Next]_vars
  BY DEF FlowNext, flowVars, Construct, CreateBranches, RejectBranches, WithinBlock,
         TakeBranch, Return, GoTo
<1>3. QED
  BY <1>1, <1>2, PTL DEF FlowSpec, Safety

Built == IInv /\ BuiltInv /\ pc = "built"

LEMMA CfgFacts == FlowSpec => [](IInv /\ BuiltInv)
BY FlowIsCfg, Invariance, BuiltInvariance, PTL

\* A transition out of the last state of a block is an edge out of the block.
LEMMA EdgeOfTransition ==
  ASSUME Built, NEW e \in fsm, e[1] \in Blocks
  PROVE  /\ <<e[1], bbOfState[e[2]], e[3]>> \in OutEdges(e[1])
         /\ TransitionOf(<<e[1], bbOfState[e[2]], e[3]>>) = e
         /\ EntryOf(bbOfState[e[2]]) = e[2]
         /\ bbOfState[e[2]] \in Blocks
<1> DEFINE d == <<e[1], bbOfState[e[2]], e[3]>>
<1>1. /\ e \in State \X State \X Nat
      /\ e[2] \in Succs(fsm, e[1])
  BY SuccsMember DEF Built, IInv, TypeOK
<1>2. d \in cfg
  BY DEF Built, BuiltInv, BlockEdges, Blocks
<1>3. ASSUME NEW x \in fsm, x[1] = d[1], bbOfState[x[2]] = d[2], x[3] = d[3]
      PROVE  x = e
  BY <1>3, BuiltPreservesTransitions DEF Built, TransitionsPreserved
<1>4. TransitionOf(d) = e
  BY <1>3 DEF TransitionOf
<1>5. bbOfState[e[2]] \in Blocks /\ e[2] \in statesOfBB[bbOfState[e[2]]]
  BY <1>1 DEF Built, BuiltInv
<1>6. Entries(bbOfState[e[2]]) = {e[2]}
  BY <1>1, <1>5, EnteredAtEntry DEF Built, IInv
<1>7. EntryOf(bbOfState[e[2]]) = e[2]
  BY <1>5, <1>6 DEF EntryOf
<1>8. QED
  BY <1>2, <1>4, <1>5, <1>7 DEF OutEdges

\* And the other way round.
LEMMA TransitionOfEdge ==
  ASSUME Built, NEW b \in Blocks, NEW d \in OutEdges(b)
  PROVE  /\ TransitionOf(d) \in fsm
         /\ TransitionOf(d)[1] = b
         /\ bbOfState[TransitionOf(d)[2]] = d[2]
         /\ EntryOf(d[2]) = TransitionOf(d)[2]
         /\ d[2] \in Blocks
<1>1. PICK e \in fsm : e[1] \in Blocks /\ d = <<e[1], bbOfState[e[2]], e[3]>>
  BY DEF Built, BuiltInv, BlockEdges, OutEdges, Blocks
<1>2. e[1] = b
  BY <1>1 DEF OutEdges
<1>3. QED
  BY <1>1, <1>2, EdgeOfTransition

\* The first block is entered at the start state.
LEMMA StartsAtStart ==
  ASSUME Built
  PROVE  EntryOf(bbOfState[Start]) = Start
<1>1. FsmWellFormed(fsm, State, Start, Stop)
  BY FsmsAssumption DEF Built, IInv
<1>2. Start \in State /\ Preds(fsm, Start) = {}
  BY <1>1 DEF FsmWellFormed
<1> DEFINE b == bbOfState[Start]
<1>3. b \in Blocks /\ Start \in statesOfBB[b]
  BY <1>2 DEF Built, BuiltInv
<1>4. Start \in Entries(b)
  BY <1>2, <1>3 DEF Entries, Fused
<1>5. Entries(b) = {Start}
  BY <1>3, <1>4 DEF Built, IInv, StraightLine
<1>6. QED
  BY <1>3, <1>5 DEF EntryOf

\* The last state of a block has the transitions that its edges stand for.
LEMMA EdgesAreTransitions ==
  ASSUME Built, NEW b \in Blocks
  PROVE  {d[2] : d \in OutEdges(b)} = {bbOfState[t] : t \in Succs(fsm, b)}
<1>1. ASSUME NEW d \in OutEdges(b)
      PROVE  \E t \in Succs(fsm, b) : d[2] = bbOfState[t]
  BY TransitionOfEdge, SuccsMember
<1>2. ASSUME NEW t \in Succs(fsm, b)
      PROVE  \E d \in OutEdges(b) : d[2] = bbOfState[t]
  <2>1. PICK e \in fsm : e[1] = b /\ e[2] = t
    BY SuccsMember
  <2>2. QED
    BY <2>1, EdgeOfTransition
<1>3. QED
  BY <1>1, <1>2

----------------------------------------------------------------------------
(* The invariant.                                                          *)

\* create_branches describes every block, whichever edges came first.
LEMMA NodeDescribes ==
  ASSUME Built, NEW b \in Blocks, NEW first,
         OneWay(b) \/ (TwoConditions(b) /\ first \in OutEdges(b))
  PROVE  /\ Describes(BranchNode(b, first), b)
         /\ IsBranchNode(BranchNode(b, first))
<1>1. CASE OutEdges(b) = {}
  BY <1>1 DEF BranchNode, Describes, IsBranchNode
<1>2. CASE OutEdges(b) # {} /\ OneWay(b)
  <2>1. PICK d \in OutEdges(b) : OutEdges(b) = {d}
    BY <1>2 DEF OneWay
  <2>2. (CHOOSE x \in OutEdges(b) : TRUE) = d
    BY <2>1
  <2>3. d[2] \in Blocks
    BY TransitionOfEdge
  <2>4. BranchNode(b, first) = [op |-> "goto", to |-> d[2]]
    BY <1>2, <2>2 DEF BranchNode
  <2>5. QED
    BY <2>1, <2>3, <2>4 DEF Describes, IsBranchNode
<1>3. CASE OutEdges(b) # {} /\ ~OneWay(b)
  <2>1. PICK x \in OutEdges(b), y \in OutEdges(b) : x # y /\ OutEdges(b) = {x, y}
    BY <1>3 DEF TwoConditions
  <2>2. first \in {x, y}
    BY <1>3, <2>1
  <2> DEFINE other == CHOOSE d \in OutEdges(b) : d # first
  <2>3. \E d \in OutEdges(b) : d # first
    BY <2>1, <2>2
  <2>4. other \in OutEdges(b) /\ other # first
    BY <2>3
  <2>5. OutEdges(b) = {first, other}
    BY <2>1, <2>2, <2>4
  <2>6. TransitionOf(first) \in conditional
    BY <1>3 DEF TwoConditions
  <2>7. first[2] \in Blocks /\ other[2] \in Blocks
    BY <1>3, <2>4, TransitionOfEdge
  <2>8. BranchNode(b, first) =
          [op |-> "if", on |-> TransitionOf(first), then |-> first[2], else |-> other[2]]
    BY <1>3 DEF BranchNode
  <2> HIDE DEF other
  <2>9. Describes(BranchNode(b, first), b)
    BY <1>3, <2>4, <2>5, <2>6, <2>8 DEF Describes
  <2>10. IsBranchNode(BranchNode(b, first))
    BY <2>6, <2>7, <2>8 DEF IsBranchNode
  <2>11. QED
    BY <2>9, <2>10
<1>4. QED
  BY <1>1, <1>2, <1>3

LEMMA FlowInitInv == FlowInit => FlowInv
<1> SUFFICES ASSUME FlowInit PROVE FlowInv
  OBVIOUS
<1>1. Start \in State
  BY FsmsAssumption DEF FlowInit, Init, FsmWellFormed
<1>2. QED
  BY <1>1 DEF FlowInit, FlowInv, FlowTypeOK, Runs

\* Nothing that construct_cfg built changes once it is built.
LEMMA BuiltIsFixed ==
  ASSUME UNCHANGED <<vars, conditional>>
  PROVE  /\ UNCHANGED <<Blocks, pc, fsm>>
         /\ \A n, b : Describes(n, b)' <=> Describes(n, b)
         /\ \A n : IsBranchNode(n)' <=> IsBranchNode(n)
<1>1. UNCHANGED <<fsm, statesOfBB, pc, bbOfState, cfg, conditional>>
  BY DEF vars
<1>2. UNCHANGED Blocks
  BY <1>1 DEF Blocks
<1>3. ASSUME NEW b PROVE OutEdges(b)' = OutEdges(b)
  BY <1>1 DEF OutEdges
<1>4. ASSUME NEW d PROVE TransitionOf(d)' = TransitionOf(d)
  BY <1>1 DEF TransitionOf
<1>5. ASSUME NEW n, NEW b PROVE Describes(n, b)' <=> Describes(n, b)
  BY <1>1, <1>3, <1>4 DEF Describes
<1>6. ASSUME NEW n PROVE IsBranchNode(n)' <=> IsBranchNode(n)
  BY <1>1, <1>2 DEF IsBranchNode
<1>7. QED
  BY <1>1, <1>2, <1>5, <1>6

\* GoTo changes the state and the conditions only.
LEMMA GoToInv ==
  ASSUME FlowInv, Runs, NEW s \in State, GoTo(s)
  PROVE  FlowInv'
<1>1. UNCHANGED <<vars, conditional, branch, phase, fsm>>
  BY DEF GoTo, vars
<1>2. /\ at' \in State
      /\ holds' \subseteq {e \in conditional : e[1] = at'}
  BY DEF GoTo, Valuations
<1>3. FlowTypeOK'
  BY <1>1, <1>2, BuiltIsFixed DEF FlowInv, FlowTypeOK
<1>4. QED
  BY <1>1, <1>3, BuiltIsFixed DEF FlowInv, Runs

LEMMA FlowStepInv ==
  ASSUME FlowInv, IInv, BuiltInv, [FlowNext]_flowVars
  PROVE  FlowInv'
<1>1. CASE Construct
  <2>1. fsm' = fsm
    BY <1>1 DEF Construct, Next, Skip, Contract, ContractItself, Build
  <2>2. QED
    BY <1>1, <2>1 DEF Construct, FlowInv, FlowTypeOK, Runs
<1>2. CASE CreateBranches
  <2>1. Built
    BY <1>2 DEF CreateBranches, Built
  <2>2. UNCHANGED <<vars, conditional, fsm>>
    BY <1>2 DEF CreateBranches, vars
  <2>3. PICK first \in [{b \in Blocks : ~OneWay(b)} -> cfg] :
          /\ \A b \in DOMAIN first : first[b] \in OutEdges(b)
          /\ branch' = [b \in Blocks |->
                          BranchNode(b, IF OneWay(b) THEN << >> ELSE first[b])]
    BY <1>2 DEF CreateBranches
  <2>4. ASSUME NEW b \in Blocks
        PROVE  Describes(branch'[b], b) /\ IsBranchNode(branch'[b])
    BY <1>2, <2>1, <2>3, NodeDescribes DEF CreateBranches
  <2>5. at' = Start /\ Start \in State
    <3>1. Start \in State
      BY FsmsAssumption DEF IInv, FsmWellFormed
    <3>2. QED
      BY <1>2, <2>1, <3>1, StartsAtStart DEF CreateBranches
  <2>6. FlowTypeOK'
    BY <1>2, <2>2, <2>3, <2>4, <2>5, BuiltIsFixed
    DEF CreateBranches, FlowTypeOK, FlowInv, Valuations
  <2>7. QED
    BY <1>2, <2>2, <2>4, <2>6, BuiltIsFixed DEF CreateBranches, FlowInv, Runs
<1>3. CASE RejectBranches
  BY <1>3 DEF RejectBranches, FlowInv, FlowTypeOK, Runs, vars
<1>4. CASE WithinBlock
  <2>1. PICK t \in statesOfBB[bbOfState[at]] : GoTo(t)
    BY <1>4 DEF WithinBlock
  <2>2. t \in State
    BY <1>4, <2>1 DEF WithinBlock, FlowInv, FlowTypeOK, BuiltInv, IInv, TypeOK
  <2>3. QED
    BY <1>4, <2>1, <2>2, GoToInv DEF WithinBlock, Runs
<1>5. CASE TakeBranch
  <2>1. Built /\ at \in Blocks
    BY <1>5 DEF TakeBranch, FlowInv, FlowTypeOK, Built, BuiltInv
  <2>2. PICK d \in OutEdges(at) : Target(branch[at]) = d[2]
    BY <1>5, <2>1 DEF TakeBranch, FlowInv, Runs, Describes, Target
  <2>3. EntryOf(d[2]) \in State
    BY <2>1, TransitionOfEdge DEF Built, IInv, TypeOK
  <2>4. QED
    BY <1>5, <2>2, <2>3, GoToInv DEF TakeBranch, Runs
<1>6. CASE Return
  BY <1>6, BuiltIsFixed DEF Return, FlowInv, FlowTypeOK, Runs, vars
<1>7. CASE UNCHANGED flowVars
  BY <1>7, BuiltIsFixed DEF flowVars, FlowInv, FlowTypeOK, Runs, vars
<1>8. QED
  BY <1>1, <1>2, <1>3, <1>4, <1>5, <1>6, <1>7 DEF FlowNext

LEMMA FlowInvariance == FlowSpec => [](FlowInv /\ IInv /\ BuiltInv)
<1>1. FlowInv /\ IInv /\ BuiltInv /\ [FlowNext]_flowVars => FlowInv'
  BY FlowStepInv
<1>2. QED
  BY FlowInitInv, CfgFacts, <1>1, PTL DEF FlowSpec

----------------------------------------------------------------------------
(* The theorems.                                                           *)

(***************************************************************************)
(* Type correctness of create_branches and the run: in particular a        *)
(* conditional branch tests a condition that exists and goes to blocks.    *)
(***************************************************************************)
THEOREM FlowTypeCorrect == FlowSpec => []FlowTypeOK
<1>1. FlowInv => FlowTypeOK
  BY DEF FlowInv
<1>2. QED
  BY <1>1, FlowInvariance, PTL

(***************************************************************************)
(* The branches of the program lead where the transitions of the FSM lead, *)
(* for every FSM: no transition is lost between the stages.                *)
(***************************************************************************)
THEOREM BranchesLoseNothing == FlowSpec => []BranchesCoverTransitions
<1>1. FlowInv /\ IInv /\ BuiltInv => BranchesCoverTransitions
  <2> SUFFICES ASSUME FlowInv, IInv, BuiltInv, phase = "running", NEW b \in Blocks
               PROVE  Targets(branch[b]) = {bbOfState[t] : t \in Succs(fsm, b)}
    BY DEF BranchesCoverTransitions
  <2>1. Built /\ Describes(branch[b], b)
    BY DEF Built, FlowInv, FlowTypeOK, Runs
  <2>2. Targets(branch[b]) = {d[2] : d \in OutEdges(b)}
    BY <2>1 DEF Describes, Targets
  <2>3. QED
    BY <2>1, <2>2, EdgesAreTransitions
<1>2. QED
  BY <1>1, FlowInvariance, PTL

\* What a step of FsmExecution reads, in the terms of this module.
LEMMA OutOfState ==
  ASSUME NEW e
  PROVE  /\ e \in FE!Out <=> e \in fsm /\ e[1] = at
         /\ e \in FE!Enabled <=> /\ e \in fsm /\ e[1] = at
                                 /\ e \in conditional => e \in holds
BY DEF FE!Out, FE!Enabled

LEMMA WithinBlockMoves ==
  ASSUME FlowInv, IInv, BuiltInv, WithinBlock
  PROVE  FE!Move
<1>1. phase = "running" /\ UNCHANGED <<fsm, conditional, phase>>
  BY DEF WithinBlock, GoTo, vars
<1>2. PICK t \in statesOfBB[bbOfState[at]] : Fused(fsm, at, t) /\ GoTo(t)
  BY DEF WithinBlock
<1>3. \E e \in FE!Out : (FE!Enabled # {} => e \in FE!Enabled) /\ e[2] = t
  <2>1. ASSUME NEW e \in FE!Out PROVE e[2] = t
    <3>1. e[2] \in Succs(fsm, at)
      BY SuccsMember, OutOfState
    <3>2. QED
      BY <1>2, <3>1, FusedUnique
  <2>2. \E e \in FE!Out : e[2] = t
    BY <1>2, FusedUnique, SuccsMember, OutOfState
  <2>3. FE!Enabled \subseteq FE!Out
    BY DEF FE!Enabled
  <2>4. QED
    BY <2>1, <2>2, <2>3
<1>4. at' = t /\ holds' \in FE!Valuations(at')
  BY <1>2 DEF GoTo, Valuations, FE!Valuations
<1>5. QED
  BY <1>1, <1>3, <1>4 DEF FE!Move

LEMMA TakeBranchMoves ==
  ASSUME FlowInv, IInv, BuiltInv, TakeBranch
  PROVE  FE!Move
<1>1. /\ phase = "running" /\ Built
      /\ at \in Blocks /\ bbOfState[at] = at
      /\ branch[at].op # "return"
      /\ Describes(branch[at], at)
  BY DEF TakeBranch, FlowInv, FlowTypeOK, Runs, Built, BuiltInv
<1>2. UNCHANGED <<fsm, conditional, phase>>
  BY DEF TakeBranch, GoTo, vars
<1>3. at' = EntryOf(Target(branch[at])) /\ holds' \in FE!Valuations(at')
  BY DEF TakeBranch, GoTo, Valuations, FE!Valuations
\* Each transition out of the state belongs to an edge out of the block.
<1>4. ASSUME NEW x \in FE!Out
      PROVE  \E d \in OutEdges(at) : x = TransitionOf(d)
  BY <1>1, OutOfState, EdgeOfTransition
<1>5. ASSUME NEW d \in OutEdges(at)
      PROVE  TransitionOf(d) \in FE!Out /\ EntryOf(d[2]) = TransitionOf(d)[2]
  BY <1>1, TransitionOfEdge, OutOfState
<1>6. FE!Enabled \subseteq FE!Out
  BY DEF FE!Enabled
<1>7. \E e \in FE!Out : /\ FE!Enabled # {} => e \in FE!Enabled
                        /\ at' = e[2]
  <2>1. CASE branch[at].op = "goto"
    <3>1. PICK d \in OutEdges(at) : OutEdges(at) = {d} /\ branch[at].to = d[2]
      BY <1>1, <2>1 DEF Describes
    <3>2. \A x \in FE!Out : x = TransitionOf(d)
      BY <1>4, <3>1
    <3>3. at' = TransitionOf(d)[2]
      BY <1>3, <1>5, <2>1, <3>1 DEF Target
    <3>4. QED
      BY <1>5, <1>6, <3>2, <3>3
  <2>2. CASE branch[at].op = "if"
    <3>1. PICK d \in OutEdges(at), f \in OutEdges(at) :
            /\ OutEdges(at) = {d, f}
            /\ TransitionOf(d) \in conditional
            /\ branch[at].on = TransitionOf(d)
            /\ branch[at].then = d[2]
            /\ branch[at].else = f[2]
      BY <1>1, <2>2 DEF Describes
    <3>2. CASE TransitionOf(d) \in holds
      <4>1. at' = TransitionOf(d)[2]
        BY <1>3, <1>5, <2>2, <3>1, <3>2 DEF Target
      <4>2. TransitionOf(d) \in FE!Enabled
        BY <1>5, <3>2, OutOfState
      <4>3. QED
        BY <1>5, <4>1, <4>2
    <3>3. CASE TransitionOf(d) \notin holds
      <4>1. at' = TransitionOf(f)[2]
        BY <1>3, <1>5, <2>2, <3>1, <3>3 DEF Target
      <4>2. ASSUME NEW x \in FE!Enabled PROVE x = TransitionOf(f)
        <5>1. x # TransitionOf(d)
          BY <3>1, <3>3, OutOfState
        <5>2. QED
          BY <1>4, <1>6, <3>1, <5>1
      <4>3. QED
        BY <1>5, <4>1, <4>2
    <3>4. QED
      BY <3>2, <3>3
  <2>3. QED
    BY <1>1, <2>1, <2>2 DEF Describes
<1>8. QED
  BY <1>1, <1>2, <1>3, <1>7 DEF FE!Move

LEMMA CreateBranchesBegins ==
  ASSUME FlowInv, IInv, BuiltInv, CreateBranches
  PROVE  FE!Begin
<1>1. Built
  BY DEF CreateBranches, Built
<1>2. at' = Start /\ at = Start
  BY <1>1, StartsAtStart DEF CreateBranches, FlowInv
<1>3. UNCHANGED <<fsm, conditional>>
  BY DEF CreateBranches, vars
<1>4. QED
  BY <1>2, <1>3 DEF CreateBranches, FE!Begin, Valuations, FE!Valuations

LEMMA ReturnEnds ==
  ASSUME FlowInv, IInv, BuiltInv, Return
  PROVE  FE!End
<1>1. /\ phase = "running" /\ Built
      /\ at \in Blocks
      /\ Describes(branch[at], at)
      /\ branch[at].op = "return"
  BY DEF Return, FlowInv, FlowTypeOK, Runs, Built, BuiltInv
<1>2. OutEdges(at) = {}
  BY <1>1 DEF Describes
<1>3. FE!Out = {}
  BY <1>1, <1>2, OutOfState, EdgeOfTransition
<1>4. UNCHANGED <<fsm, conditional>>
  BY DEF Return, vars
<1>5. QED
  BY <1>1, <1>3, <1>4 DEF Return, FE!End

(***************************************************************************)
(* For every FSM that create_fsm may return, every order of construct_cfg's*)
(* worklist and every choice of the then edges, a run of the program is a  *)
(* run of the FSM: where a condition decides the next state, the branch    *)
(* goes there, and the program returns only where the FSM has no way on.   *)
(***************************************************************************)
THEOREM ProgramRunsTheFsm == FlowSpec => ImplementsFsm
<1>1. FlowInit => FE!Init
  BY DEF FlowInit, FE!Init
<1>2. ASSUME FlowInv, IInv, BuiltInv, [FlowNext]_flowVars
      PROVE  [FE!Next]_(FE!vars)
  <2>1. CASE Construct
    <3>1. fsm' = fsm
      BY <2>1 DEF Construct, Next, Skip, Contract, ContractItself, Build
    <3>2. QED
      BY <2>1, <3>1 DEF Construct, FE!vars
  <2>2. CASE CreateBranches
    BY <2>2, <1>2, CreateBranchesBegins DEF FE!Next
  <2>3. CASE RejectBranches
    BY <2>3 DEF RejectBranches, FE!vars, vars
  <2>4. CASE WithinBlock
    BY <2>4, <1>2, WithinBlockMoves DEF FE!Next
  <2>5. CASE TakeBranch
    BY <2>5, <1>2, TakeBranchMoves DEF FE!Next
  <2>6. CASE Return
    BY <2>6, <1>2, ReturnEnds DEF FE!Next
  <2>7. CASE UNCHANGED flowVars
    BY <2>7 DEF flowVars, vars, FE!vars
  <2>8. QED
    BY <1>2, <2>1, <2>2, <2>3, <2>4, <2>5, <2>6, <2>7 DEF FlowNext
<1>3. QED
  BY <1>1, <1>2, FlowInvariance, PTL DEF FlowSpec, ImplementsFsm, FE!Spec
=============================================================================
