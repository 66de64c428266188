-------------------------- MODULE CfgConstruction --------------------------
(***************************************************************************)
(* Step_3_2.construct_cfg: states of the FSM are contracted into basic     *)
(* blocks.  The worklist is drained in an arbitrary order (it starts as a  *)
(* list made from a Python set), an edge that left the graph is skipped,   *)
(* and a contraction puts the edges around the joined node back on the     *)
(* worklist.  The worklist is a set here: a second copy of an edge is      *)
(* examined in the code with the outcome of the first, or is stale.        *)
(*                                                                         *)
(* A block goes by the state that survived its contractions, as in         *)
(* states_of_bb; renaming it to a fresh node id is a bijection and left    *)
(* out.                                                                    *)
(***************************************************************************)
EXTENDS FsmGraphs, FiniteSets

CONSTANTS
  State,        \* the State nodes of the graph, the stop state included
  Start, Stop,  \* start_state and stop_state
  Fsms          \* the FSMs the previous stage may return

ASSUME FsmsAssumption == \A E \in Fsms : FsmWellFormed(E, State, Start, Stop)

VARIABLES
  fsm,         \* the transitions of the FSM; construct_cfg does not change them
  bbGraph,     \* edges of bb_graph, the copy that is contracted
  statesOfBB,  \* states_of_bb
  worklist,
  pc,          \* "contract", "built" or "crashed"
  bbOfState,   \* states_to_bb, once built
  cfg          \* edges between the basic blocks, once built

vars == <<fsm, bbGraph, statesOfBB, worklist, pc, bbOfState, cfg>>

Blocks == DOMAIN statesOfBB

Init ==
  /\ fsm \in Fsms
  /\ bbGraph = fsm
  /\ statesOfBB = [s \in State |-> {s}]
  /\ worklist = fsm
  /\ pc = "contract"
  /\ bbOfState = << >>
  /\ cfg = {}

(***************************************************************************)
(* nx.contracted_nodes(G, v, u, self_loops=True): the edges of u become    *)
(* edges of v.  networkx numbers the moved edges afresh; a key only tells  *)
(* parallel edges apart here, so a moved edge keeps its own.               *)
(***************************************************************************)
Contracted(E, u, v) ==
  LET renamed(s) == IF s = u THEN v ELSE s
  IN  {<<renamed(e[1]), renamed(e[2]), e[3]>> : e \in E}

\* Faulty: a join of two paths counts as straight-line code.
MergeableIgnoresPreds(E, e) == Succs(E, e[1]) = {e[2]}

\* The test of the loop: sets, so parallel edges count once.
Mergeable(E, e) == Succs(E, e[1]) = {e[2]} /\ Preds(E, e[2]) = {e[1]}

\* Faulty: the edges into the joined node are not examined again.
EdgesOut(E, v) == {e \in E : v = e[1]}

\* in_edges and out_edges of the joined node.
EdgesAround(E, v) == {e \in E : v \in {e[1], e[2]}}

\* Faulty: the states of the absorbed block are dropped with its entry.
AbsorbNothing(bbs, u, v) == [b \in DOMAIN bbs \ {u} |-> bbs[b]]

\* states_of_bb after u was absorbed by v and its entry deleted.
Absorb(bbs, u, v) ==
  [b \in DOMAIN bbs \ {u} |-> IF b = v THEN bbs[v] \cup bbs[u] ELSE bbs[b]]

----------------------------------------------------------------------------
(***************************************************************************)
(* The loop body, one action per way out of it.                            *)
(***************************************************************************)
\* Faulty: the neighbours of an edge that joins nothing are examined again.
SkipReexamining(e) ==
  /\ pc = "contract"
  /\ e \in bbGraph => ~Mergeable(bbGraph, e)
  /\ worklist' = (worklist \cup EdgesAround(bbGraph, e[2])) \ {e}
  /\ UNCHANGED <<fsm, bbGraph, statesOfBB, pc, bbOfState, cfg>>

\* `if e not in bb_graph.edges: continue`, or an edge that joins nothing.
Skip(e) ==
  /\ pc = "contract"
  /\ e \in bbGraph => ~Mergeable(bbGraph, e)
  /\ worklist' = worklist \ {e}
  /\ UNCHANGED <<fsm, bbGraph, statesOfBB, pc, bbOfState, cfg>>

Contract(e) ==
  /\ pc = "contract"
  /\ e \in bbGraph
  /\ Mergeable(bbGraph, e)
  /\ e[1] # e[2]
  /\ bbGraph' = Contracted(bbGraph \ {e}, e[1], e[2])
  /\ statesOfBB' = Absorb(statesOfBB, e[1], e[2])
  /\ worklist' = (worklist \ {e}) \cup EdgesAround(bbGraph', e[2])
  /\ UNCHANGED <<fsm, pc, bbOfState, cfg>>

\* A self-loop that is alone at both ends: contracting a node into itself
\* takes the node out of the graph and its entry out of states_of_bb.
ContractItself(e) ==
  /\ pc = "contract"
  /\ e \in bbGraph
  /\ Mergeable(bbGraph, e)
  /\ e[1] = e[2]
  /\ pc' = "crashed"
  /\ UNCHANGED <<fsm, bbGraph, statesOfBB, worklist, bbOfState, cfg>>

\* Faulty: the target is left as a state, not mapped to its block.
BlockEdgesUnmapped(E, bbs, owner) == {e \in E : e[1] \in DOMAIN bbs}

\* The transitions that leave a block: those of the state it is named for.
BlockEdges(E, bbs, owner) ==
  {<<e[1], owner[e[2]], e[3]>> : e \in {d \in E : d[1] \in DOMAIN bbs}}

\* states_to_bb and the new edges, read off the transitions of the FSM.
Build ==
  /\ pc = "contract"
  /\ worklist = {}
  /\ bbOfState' = [s \in UNION {statesOfBB[b] : b \in Blocks} |->
                     CHOOSE b \in Blocks : s \in statesOfBB[b]]
  /\ cfg' = BlockEdges(fsm, statesOfBB, bbOfState')
  /\ pc' = "built"
  /\ UNCHANGED <<fsm, bbGraph, statesOfBB, worklist>>

Next ==
  \/ \E e \in worklist : Skip(e) \/ Contract(e) \/ ContractItself(e)
  \/ Build

Safety == Init /\ [][Next]_vars

\* construct_cfg is a loop of one thread: it takes a step whenever it can.
Spec == Safety /\ WF_vars(Next)

----------------------------------------------------------------------------
TypeOK ==
  /\ fsm \subseteq State \X State \X Nat
  /\ bbGraph \subseteq Blocks \X Blocks \X Nat
  /\ worklist \subseteq State \X State \X Nat
  /\ Blocks \subseteq State
  /\ statesOfBB \in [Blocks -> SUBSET State]
  /\ pc \in {"contract", "built", "crashed"}
  /\ pc = "built" => /\ bbOfState \in [State -> Blocks]
                     /\ cfg \subseteq Blocks \X Blocks \X Nat

\* The states of a block that no other state of it leads to.
Entries(b) == {t \in statesOfBB[b] : ~\E s \in statesOfBB[b] \ {b} : Fused(fsm, s, t)}

(***************************************************************************)
(* No state is lost or counted twice while nodes are deleted and renamed:  *)
(* every state is in exactly one block, and a block is named for one of    *)
(* its own states (the asserts that close construct_cfg rely on it).       *)
(***************************************************************************)
Partition ==
  /\ \A s \in State : \E b \in Blocks : s \in statesOfBB[b]
  /\ \A a, b \in Blocks : a # b => statesOfBB[a] \cap statesOfBB[b] = {}
  /\ \A b \in Blocks : b \in statesOfBB[b]

(***************************************************************************)
(* A block is straight-line code in every intermediate graph: it is        *)
(* entered at one state, and each state but the one it is named for is     *)
(* fused with a state of the block.                                        *)
(***************************************************************************)
StraightLine ==
  \A b \in Blocks :
    /\ \E h \in statesOfBB[b] : Entries(b) = {h}
    /\ \A s \in statesOfBB[b] \ {b} :
         \E t \in statesOfBB[b] : t \notin Entries(b) /\ Fused(fsm, s, t)

(***************************************************************************)
(* The contracted graph is the FSM seen through the blocks, whatever was   *)
(* contracted first; only bb_graph's parallel edges may leave a loop that  *)
(* is not in the FSM.                                                      *)
(***************************************************************************)
QuotientGraph ==
  \A a, b \in Blocks :
    /\ Succs(fsm, a) \cap statesOfBB[b] # {} => b \in Succs(bbGraph, a)
    /\ b \in Succs(bbGraph, a) /\ (a # b \/ Simple(fsm))
         => Succs(fsm, a) \cap statesOfBB[b] # {}

(***************************************************************************)
(* Whatever was contracted first, bb_graph is the FSM divided by a         *)
(* partition of its states.                                                *)
(***************************************************************************)
IsQuotient == Partition /\ QuotientGraph

(***************************************************************************)
(* Nothing that could still be joined is forgotten when edges are renamed  *)
(* under the worklist: an edge that can be contracted is on it.            *)
(***************************************************************************)
WorklistComplete == \A e \in bbGraph : Mergeable(bbGraph, e) => e \in worklist

(***************************************************************************)
(* The control flow graph runs as the FSM does: a transition either        *)
(* follows the straight line of its block, or leaves the last state of     *)
(* one block, enters the next one at its first state and is an edge        *)
(* between the two; no two of these share an edge (add_edge would          *)
(* overwrite the first one's condition).                                   *)
(***************************************************************************)
TransitionsPreserved ==
  pc = "built" =>
    /\ \A e \in fsm :
         \/ /\ bbOfState[e[1]] = bbOfState[e[2]]
            /\ Fused(fsm, e[1], e[2])
         \/ /\ bbOfState[e[1]] = e[1]
            /\ e[2] \in Entries(bbOfState[e[2]])
            /\ <<e[1], bbOfState[e[2]], e[3]>> \in cfg
    /\ \A d, e \in fsm :
         /\ d # e
         /\ {d[1], e[1]} \subseteq Blocks
         => <<d[1], bbOfState[d[2]], d[3]>> # <<e[1], bbOfState[e[2]], e[3]>>

\* Only an FSM with parallel transitions can drive the loop into
\* contracting a node with itself.
CrashNeedsParallel == pc = "crashed" => ~Simple(fsm)

(***************************************************************************)
(* The worklist grows only when a block is gone for good: each step ends   *)
(* the loop, leaves fewer blocks, or leaves them as they are and the       *)
(* worklist shorter.  Both are finite, so the loop ends.                   *)
(***************************************************************************)
Progresses ==
  [][\/ pc = "contract" /\ pc' # "contract"
     \/ Blocks' \subseteq Blocks /\ Blocks' # Blocks
     \/ Blocks' = Blocks /\ worklist' \subseteq worklist /\ worklist' # worklist]_vars

BP == INSTANCE BlockPartition WITH
        blocks <- {statesOfBB[b] : b \in Blocks},
        published <- pc = "built"

\* construct_cfg implements the partition into maximal straight lines.
ImplementsPartition == BP!Spec
=============================================================================
