-------------------------- MODULE StateAssociation --------------------------
(***************************************************************************)
(* Step_2_3.associate_operations_with_states: every data flow node gets    *)
(* the set of FSM states in which it executes.  The seeds, the states of   *)
(* the assignments that create_fsm found out, are propagated backwards     *)
(* along the value edges, refined backwards by the states of the users,    *)
(* corrected around the memories, refined again, and propagated forwards   *)
(* to the nodes that still have none.  The three passes are worklist       *)
(* loops, the initial worklists come from Python sets and dicts, so the    *)
(* nodes are taken in any order.  A worklist is a set here: processing a   *)
(* node a second time with the same neighbours changes nothing.            *)
(***************************************************************************)
EXTENDS FsmGraphs, FiniteSets

CONSTANTS
  Node,     \* nodes of the graph that are not states
  State,    \* states of the FSM, Start and Stop among them
  Start,
  Stop,
  Graphs    \* what the previous stages may hand over

Kinds == {"value", "variable", "assignment", "operator", "memory", "control"}

\* The in-edges of a MemoryOperation by index; None where there is no port.
CONSTANT None
Ports == [enable : Node, address : Node, writeEnable : Node \cup {None},
          data : Node \cup {None}]

PortsOf(g, m) ==
  LET p == g.ports[m]
  IN  {p.enable, p.address, p.writeEnable, p.data} \ {None}

\* The ports of a memory m, their assignments, and where its value goes.
NearMemory(g, m) ==
  LET E == g.value \cup g.cond
  IN  PortsOf(g, m) \cup (UNION {Preds(E, v) : v \in PortsOf(g, m)})
        \cup Succs(E, m) \cup (UNION {Succs(E, a) : a \in Succs(E, m)})

(***************************************************************************)
(* A memory is made of input and output variables of the module, each of   *)
(* them one port of one memory.  It is computed from the ports that it     *)
(* reads, and one assignment takes its value to the port that returns it.  *)
(***************************************************************************)
MemoriesSeparate(g) ==
  LET E == g.value \cup g.cond
  IN  \A m \in DOMAIN g.ports :
        LET p == g.ports[m]
        IN  /\ Preds(g.value, m) = PortsOf(g, m) /\ Preds(g.cond, m) = {}
            /\ \A v \in PortsOf(g, m) : g.kind[v] = "variable"
            /\ p.enable # p.address
            /\ {p.writeEnable, p.data} \cap {p.enable, p.address} = {}
            /\ p.writeEnable = p.data => p.data = None
            /\ \A n \in DOMAIN g.ports \ {m} : PortsOf(g, m) \cap PortsOf(g, n) = {}
            /\ \A a \in Succs(E, m) : a \notin Succs(g.cond, m) /\ g.kind[a] = "assignment"
            /\ \A a \in Succs(E, m), n \in DOMAIN g.ports : Succs(E, a) \cap PortsOf(g, n) = {}

(***************************************************************************)
(* An assignment has one value and one variable, which may be control flow *)
(* (assignment_node_invariant), and is one of the literal 1 if its value   *)
(* is that; a literal is computed from nothing (translate_ast_to_ag).      *)
(***************************************************************************)
AssignmentsAreSingle(g) ==
  LET E == g.value \cup g.cond
      assignments == {n \in Node : g.kind[n] = "assignment"}
  IN  /\ \A a \in assignments : \A v, w \in Succs(E, a) : v = w
      /\ \A a \in assignments : \A v \in Succs(E, a) : g.kind[v] \in {"variable", "control"}
      /\ \A a \in assignments : \A v, w \in Preds(g.value, a) : v = w
      /\ \A a \in g.ones : \A v \in Preds(g.value, a) : g.kind[v] = "value"
      /\ \A e \in E : g.kind[e[2]] # "value"

(***************************************************************************)
(* kind: what a node is, "control" if it is not a data flow node; value,   *)
(* cond: the value and condition edges; ones: the assignments of the value *)
(* 1; ports: the ports of each memory; seeds: the states of an assignment  *)
(* with a condition; fsm: the transitions, as pairs.  Variables are set by *)
(* assignments only, inputs never (variable_node_invariant), and the data  *)
(* flow holds all that is near a memory (split_control_and_data_flow).     *)
(***************************************************************************)
IsGraph(g) ==
  /\ g.kind \in [Node -> Kinds]
  /\ g.value \subseteq Node \X Node
  /\ g.cond \subseteq Node \X Node
  /\ g.ones \subseteq {n \in Node : g.kind[n] = "assignment"}
  /\ g.ports \in [{n \in Node : g.kind[n] = "memory"} -> Ports]
  /\ DOMAIN g.seeds \subseteq {n \in Node : g.kind[n] = "assignment"}
  /\ \A n \in DOMAIN g.seeds : g.seeds[n] \subseteq State
  /\ g.fsm \subseteq State \X State
  /\ g.inputs \subseteq {n \in Node : g.kind[n] = "variable"}
  /\ g.outputs \subseteq Node
  /\ \A m \in DOMAIN g.ports : \A n \in NearMemory(g, m) : g.kind[n] # "control"
  /\ \A e \in g.value \cup g.cond :
       g.kind[e[2]] = "variable" => g.kind[e[1]] = "assignment" /\ e[2] \notin g.inputs
  /\ AssignmentsAreSingle(g)
  /\ MemoriesSeparate(g)

ASSUME GraphsAssumption ==
  /\ Start \in State /\ Stop \in State
  /\ None \notin Node
  /\ \A g \in Graphs : IsGraph(g)

VARIABLES
  graph,      \* the graph, fixed
  states,     \* states_of_nodes, a function on some of the nodes
  worklist,   \* the worklist of the current pass
  memories,   \* the memories not yet made more precise
  before,     \* states when the current backward refinement began (ghost)
  returns,    \* states of the ReturnValue nodes, by output
  pc          \* the pass, "returned", "failed" or "crashed"

vars == <<graph, states, worklist, memories, before, returns, pc>>

----------------------------------------------------------------------------
(* The graph.                                                              *)

Data == {n \in Node : graph.kind[n] # "control"}
Memories == {n \in Node : graph.kind[n] = "memory"}
Seeded == DOMAIN graph.seeds

Edges == graph.value \cup graph.cond
Users(n) == Succs(Edges, n)
ValueUsers(n) == Succs(graph.value, n)
Sources(n) == Preds(Edges, n)

\* dict.get(n, default)
StatesOf(f, n, default) == IF n \in DOMAIN f THEN f[n] ELSE default

WithStates(f, n, S) == [m \in DOMAIN f \cup {n} |-> IF m = n THEN S ELSE f[m]]

\* Faulty: all assignments to v.
SettingAtAll(v) == Sources(v)

\* The assignments that set the variable v to 1.
SettingToOne(v) == {a \in Sources(v) : a \in graph.ones}
Enabling(m) == SettingToOne(graph.ports[m].enable)

StatesOfAll(f, N) == UNION {StatesOf(f, n, {}) : n \in N}

\* Faulty: the states a variable has are left.
UnionUnsetVariables(f) ==
  LET ready == {v \in Data \ DOMAIN f :
                  graph.kind[v] = "variable" /\ Sources(v) \subseteq DOMAIN f}
  IN  [n \in DOMAIN f \cup ready |-> IF n \in ready THEN StatesOfAll(f, Sources(n)) ELSE f[n]]

\* A variable whose assignments all have states executes in theirs.
UnionVariables(f) ==
  LET ready == {v \in Data : graph.kind[v] = "variable" /\ Sources(v) \subseteq DOMAIN f}
  IN  [n \in DOMAIN f \cup ready |-> IF n \in ready THEN StatesOfAll(f, Sources(n)) ELSE f[n]]

Init ==
  /\ graph \in Graphs
  /\ states = [n \in Seeded \cap Data |-> graph.seeds[n]]
  /\ worklist = UNION {Sources(n) : n \in Seeded}
  /\ memories = {}
  /\ before = states
  /\ returns = [o \in {} |-> {}]
  /\ pc = "backpropagate"

----------------------------------------------------------------------------
(* backpropagate_state_information                                         *)

\* states_of_memory_op: a memory executes where it is enabled.
Narrowed(n, S) ==
  IF graph.kind[n] # "memory" THEN S
  ELSE LET enabled == StatesOfAll(states, Enabling(n))
       IN  IF enabled = {} THEN S ELSE enabled

\* The states that n has because of those who use its value.
Propagated(n) == Narrowed(n, StatesOfAll(states, ValueUsers(n)))

\* Faulty: a node is taken for changed whenever its users have states.
LearnsAlways(n) == n \in Data \ Seeded /\ Propagated(n) # {}

Learns(n) == n \in Data \ Seeded /\ Propagated(n) \notin {StatesOf(states, n, {}), {}}

\* Faulty: the users are woken instead of the sources.
WokenUsers(n) == Users(n) \cap Data

Woken(n) == Sources(n) \cap Data

Backpropagate(n) ==
  /\ pc = "backpropagate"
  /\ n \in worklist
  /\ n \in Memories => Enabling(n) \subseteq DOMAIN states
  /\ IF Learns(n)
     THEN /\ states' = WithStates(states, n, Propagated(n))
          /\ worklist' = (worklist \ {n}) \cup Woken(n)
     ELSE /\ worklist' = worklist \ {n}
          /\ UNCHANGED states
  /\ UNCHANGED <<graph, memories, before, returns, pc>>

\* states_of_nodes[enable_assignment] of an assignment without states.
NoEnablingStates(m) ==
  /\ \/ pc = "backpropagate" /\ m \in worklist /\ m \in Memories
     \/ pc = "memories" /\ m \in memories
  /\ ~Enabling(m) \subseteq DOMAIN states
  /\ pc' = "crashed"
  /\ UNCHANGED <<graph, states, worklist, memories, before, returns>>

----------------------------------------------------------------------------
(* backwards_refine_states                                                 *)

EnterRefine(f, pass) ==
  /\ states' = f
  /\ before' = f
  /\ worklist' = Data
  /\ pc' = pass

BackpropagateDone ==
  /\ pc = "backpropagate"
  /\ worklist = {}
  /\ EnterRefine(UnionVariables(states), "refine")
  /\ UNCHANGED <<graph, memories, returns>>

Refining == pc \in {"refine", "refine_memories"}

\* make_memories_more_precise does not want the memories touched.
Ignored == IF pc = "refine_memories" THEN Memories ELSE {}

\* What of its states n shares with each of its users.
PerUse(n) ==
  {StatesOf(states, n, State) \cap StatesOf(states, u, State) : u \in Users(n)}

\* Faulty: the states that all users share.
RefinedToAll(n) ==
  IF PerUse(n) = {} THEN StatesOf(states, n, State)
  ELSE {s \in State : \A S \in PerUse(n) : s \in S}

\* Faulty: the states of the users, n's own or not.
RefinedToUsers(n) ==
  IF {} \in PerUse(n) \cup {UNION PerUse(n)} THEN StatesOf(states, n, State)
  ELSE UNION {StatesOf(states, u, State) : u \in Users(n)}

Refined(n) ==
  IF {} \in PerUse(n) \cup {UNION PerUse(n)} THEN StatesOf(states, n, State)
  ELSE UNION PerUse(n)

\* Faulty: nothing is woken.
WokenByRefineNone(n) == {}

WokenByRefine(n) == Sources(n)

Refine(n) ==
  /\ Refining
  /\ n \in worklist
  /\ IF n \in Data \ Ignored /\ Refined(n) # StatesOf(states, n, State)
     THEN /\ states' = WithStates(states, n, Refined(n))
          /\ worklist' = (worklist \ {n}) \cup WokenByRefine(n)
     ELSE /\ worklist' = worklist \ {n}
          /\ UNCHANGED states
  /\ UNCHANGED <<graph, memories, before, returns, pc>>

RefineDone ==
  /\ pc = "refine"
  /\ worklist = {}
  /\ memories' = Memories
  /\ pc' = "memories"
  /\ UNCHANGED <<graph, states, worklist, before, returns>>

----------------------------------------------------------------------------
(* make_memories_more_precise                                              *)

Overridden(f, N, S) == [n \in DOMAIN f \cup N |-> IF n \in N THEN S ELSE f[n]]
Completed(f, N, S) == Overridden(f, N \ DOMAIN f, S)

Writable(m) == None \notin {graph.ports[m].writeEnable, graph.ports[m].data}

WriteEnabling(m) == SettingToOne(graph.ports[m].writeEnable)

\* The ports of a store.
WithWrites(f, m, enabled, writing) ==
  LET p == graph.ports[m]
      f1 == Overridden(f, {p.data, p.writeEnable}, writing)
      f2 == Overridden(f1, WriteEnabling(m), writing)
      f3 == Overridden(f2, Sources(p.writeEnable) \ WriteEnabling(m), enabled \ writing)
  IN  Completed(f3, Sources(p.data), writing)

\* Faulty: what a load returns is there at once.
WithLoadsAtOnce(f, m, enabled, loading) ==
  LET p == graph.ports[m]
      f1 == Overridden(f, {p.enable, p.address, m}, enabled)
      f2 == Completed(f1, Sources(p.address) \cup Sources(p.enable), enabled)
  IN  Overridden(f2, Users(m) \cup UNION {Users(a) : a \in Users(m)}, loading)

\* What a load returns is there in the states after the load.
WithLoads(f, m, enabled, loading) ==
  LET p == graph.ports[m]
      arriving == UNION {Succs(graph.fsm, s) : s \in loading}
      f1 == Overridden(f, {p.enable, p.address, m}, enabled)
      f2 == Completed(f1, Sources(p.address) \cup Sources(p.enable), enabled)
  IN  Overridden(f2, Users(m) \cup UNION {Users(a) : a \in Users(m)}, arriving)

MakePrecise(m) ==
  /\ pc = "memories"
  /\ m \in memories
  /\ Enabling(m) \subseteq DOMAIN states
  /\ Writable(m) => WriteEnabling(m) \subseteq DOMAIN states
  /\ LET enabled == StatesOfAll(states, Enabling(m))
         writing == IF Writable(m) THEN StatesOfAll(states, WriteEnabling(m)) ELSE {}
         written == IF Writable(m) THEN WithWrites(states, m, enabled, writing) ELSE states
     IN  states' = WithLoads(written, m, enabled, enabled \ writing)
  /\ memories' = memories \ {m}
  /\ UNCHANGED <<graph, worklist, before, returns, pc>>

NoWritingStates(m) ==
  /\ pc = "memories"
  /\ m \in memories
  /\ Writable(m) /\ ~WriteEnabling(m) \subseteq DOMAIN states
  /\ pc' = "crashed"
  /\ UNCHANGED <<graph, states, worklist, memories, before, returns>>

MemoriesDone ==
  /\ pc = "memories"
  /\ memories = {}
  /\ EnterRefine(states, "refine_memories")
  /\ UNCHANGED <<graph, memories, returns>>

----------------------------------------------------------------------------
(* forwards_refine_states                                                  *)

RefineMemoriesDone ==
  /\ pc = "refine_memories"
  /\ worklist = {}
  /\ worklist' = (UNION {Users(n) : n \in DOMAIN states}) \ DOMAIN states
  /\ pc' = "forward"
  /\ UNCHANGED <<graph, states, memories, before, returns>>

NonValueSources(E, n) == {p \in Preds(E, n) : graph.kind[p] # "value"}

\* Faulty: control flow nodes get states too.
WidenedAnywhere(n) ==
  StatesOf(states, n, {}) \cup
    IF NonValueSources(Edges, n) = {} THEN State
    ELSE StatesOfAll(states, NonValueSources(graph.value, n) \cap Data)

\* The states of n and of the values it is computed from.
Widened(n) ==
  StatesOf(states, n, {}) \cup
    IF n \notin Data THEN {}
    ELSE IF NonValueSources(Edges, n) = {} THEN State
    ELSE StatesOfAll(states, NonValueSources(graph.value, n) \cap Data)

Widen(n) ==
  /\ pc = "forward"
  /\ n \in worklist
  /\ IF Widened(n) # StatesOf(states, n, {})
     THEN /\ states' = WithStates(states, n, Widened(n))
          /\ worklist' = (worklist \ {n}) \cup ValueUsers(n)
     ELSE /\ worklist' = worklist \ {n}
          /\ UNCHANGED states
  /\ UNCHANGED <<graph, memories, before, returns, pc>>

----------------------------------------------------------------------------
(* The end of associate_operations_with_states.                            *)

WithValues(f) == Overridden(f, {n \in Data : graph.kind[n] = "value"}, State)

\* A ReturnValue node per output executes in the stop state.
Finish ==
  /\ pc = "forward"
  /\ worklist = {}
  /\ LET f == UnionVariables(WithValues(states))
     IN  IF Data \subseteq DOMAIN f
         THEN /\ states' = Overridden(f, graph.inputs, {Start})
              /\ returns' = [o \in graph.outputs |-> {Stop}]
              /\ pc' = "returned"
         ELSE /\ states' = f
              /\ pc' = "failed"
              /\ UNCHANGED returns
  /\ UNCHANGED <<graph, worklist, memories, before>>

Next ==
  \/ \E n \in worklist : Backpropagate(n)
  \/ \E n \in worklist : Refine(n)
  \/ \E n \in worklist : Widen(n)
  \/ \E m \in Memories : NoEnablingStates(m)
  \/ \E m \in Memories : MakePrecise(m)
  \/ \E m \in Memories : NoWritingStates(m)
  \/ BackpropagateDone
  \/ RefineDone
  \/ MemoriesDone
  \/ RefineMemoriesDone
  \/ Finish

Safety == Init /\ [][Next]_vars

\* The passes run in one thread, which takes its next step when it can.
Spec == Safety /\ WF_vars(Next)

----------------------------------------------------------------------------
TypeOK ==
  /\ IsGraph(graph)
  /\ DOMAIN states \subseteq Data
  /\ \A n \in DOMAIN states : states[n] \subseteq State
  /\ worklist \subseteq Node
  /\ memories \subseteq Memories
  /\ pc \in {"backpropagate", "refine", "memories", "refine_memories", "forward",
            "returned", "failed", "crashed"}

\* The seeds that the value of n reaches through nodes that are not seeds.
ReachesSeed(n) ==
  {a \in Seeded \cap Data :
     \A X \in SUBSET Data :
       n \in X /\ (\A e \in graph.value : e[1] \in X \ Seeded /\ e[2] \in Data => e[2] \in X)
         => a \in X}

(***************************************************************************)
(* Whatever the order, the backward propagation gives a node the states of *)
(* exactly the seeds its value reaches without passing through another     *)
(* seed (where no memory narrows them).                                    *)
(***************************************************************************)
BackpropagatesExactly ==
  pc = "backpropagate" /\ worklist = {} /\ Memories = {} =>
    \A n \in Data \ Seeded :
      StatesOf(states, n, {}) = UNION {graph.seeds[a] : a \in ReachesSeed(n)}

(***************************************************************************)
(* A pass ends at a fixpoint: a node that is not on the worklist has       *)
(* nothing to learn from its neighbours.                                   *)
(***************************************************************************)
NothingForgotten ==
  /\ Refining => \A n \in Data \ (Ignored \cup worklist) :
       Refined(n) = StatesOf(states, n, State)
  /\ pc = "backpropagate" /\ Memories = {} => \A n \in Data \ (Seeded \cup worklist) :
       Propagated(n) \in {StatesOf(states, n, {}), {}}

(***************************************************************************)
(* A backward refinement takes no state from a node in which a user that   *)
(* kept it still executes.                                                 *)
(***************************************************************************)
NoUseLost ==
  Refining =>
    \A n \in Data \ Ignored : \A u \in Users(n) :
      StatesOf(before, n, State) \cap StatesOf(states, u, State)
        \subseteq StatesOf(states, n, State)

\* g has the states of f, but for one node, which has fewer or more.
LosesStates(f, g, default) ==
  \E n \in Data :
    /\ StatesOf(g, n, default) # StatesOf(f, n, default)
    /\ StatesOf(g, n, default) \subseteq StatesOf(f, n, default)
    /\ \A m \in Data \ {n} : StatesOf(g, m, default) = StatesOf(f, m, default)

GainsStates(f, g) == LosesStates(g, f, {})

(***************************************************************************)
(* No pass goes round in circles: a step of a worklist loop takes a node   *)
(* off the list and adds none, or changes the states of one node in the    *)
(* direction of its pass (a memory may change its mind while the states    *)
(* are propagated backwards).  A backward refinement never takes the last  *)
(* state of a node.                                                        *)
(***************************************************************************)
PassesProgress ==
  [][pc' = pc =>
       /\ Refining =>
            \/ states' = states /\ worklist' \subseteq worklist /\ worklist' # worklist
            \/ LosesStates(states, states', State)
       /\ Refining => \A n \in Data : StatesOf(states', n, State) # {} \/ StatesOf(states, n, State) = {}
       /\ pc = "forward" \/ (pc = "backpropagate" /\ Memories = {}) =>
            \/ states' = states /\ worklist' \subseteq worklist /\ worklist' # worklist
            \/ GainsStates(states, states')]_vars

\* Every condition is true in some state.
SeedsNonempty == \A a \in Seeded : graph.seeds[a] # {}

(***************************************************************************)
(* In a graph without memories an operator executes wherever a user of its *)
(* value executes, if that user contributes to an assignment that a        *)
(* condition guards.                                                       *)
(***************************************************************************)
OperatorsCoverUses ==
  pc = "returned" /\ SeedsNonempty /\ Memories = {} =>
    \A n \in Data \ Seeded : \A u \in ValueUsers(n) \cap Data :
      graph.kind[n] = "operator" /\ ReachesSeed(u) # {} => states[u] \subseteq states[n]

(***************************************************************************)
(* "States of variable should be union of predecessors".                   *)
(***************************************************************************)
VariablesAreUnions ==
  pc = "returned" =>
    \A v \in Data : graph.kind[v] = "variable" /\ Sources(v) # {} =>
      states[v] = StatesOfAll(states, Sources(v))

\* The assignment a gives a literal to a port that make_memories_more_precise
\* completes.
CompletedLiteral(m, v, a) ==
  /\ \A p \in Preds(graph.value, a) : graph.kind[p] = "value"
  /\ v \in {graph.ports[m].enable, graph.ports[m].address} \/ Writable(m)

\* What a port is set to contributes to an assignment that a condition guards.
PortsGuarded ==
  \A m \in Memories : \A v \in PortsOf(graph, m) : \A a \in Sources(v) :
    CompletedLiteral(m, v, a) \/ a \in Seeded \/ ReachesSeed(a) # {}

(***************************************************************************)
(* The later passes leave a memory in the states that enable it, and what  *)
(* it loads arrives only in states that follow one of these.               *)
(***************************************************************************)
LoadsFollowEnables ==
  pc = "returned" /\ SeedsNonempty /\ PortsGuarded =>
    \A m \in Memories :
      /\ states[m] = StatesOfAll(states, Enabling(m))
      /\ \A a \in Users(m) :
           states[a] \subseteq UNION {Succs(graph.fsm, s) : s \in states[m]}

(***************************************************************************)
(* The KeyErrors need a memory that is enabled, or written, by an          *)
(* assignment of 1 that no condition guards.                               *)
(***************************************************************************)
CrashNeedsUnconditionalEnable ==
  pc = "crashed" =>
    \E m \in Memories, a \in graph.ones \ Seeded :
      \E v \in {graph.ports[m].enable, graph.ports[m].writeEnable} : v \in Users(a)

\* Every pass ends.
Terminates == <>(pc \in {"returned", "failed", "crashed"})
=============================================================================
