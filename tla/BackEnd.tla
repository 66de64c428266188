------------------------------ MODULE BackEnd ------------------------------
(***************************************************************************)
(* The stages from classify_memory_nodes to generate_mlir, in the order of *)
(* flow.py, on a program that a state machine runs; and then the program   *)
(* and its translation side by side, state by state and block by block.    *)
(*                                                                         *)
(* A program is the graph that associate_operations_with_states returns,   *)
(* with its FSM.  Values are terms: <<"arg", a>>, <<"const", c>>, an       *)
(* operation of terms, and <<"initial", memory, address>>.  The conditions *)
(* of the branches are left to ControlFlow: the run takes any way out of a *)
(* state.                                                                  *)
(***************************************************************************)
EXTENDS MemoryClassification, PhiNodes, Unsharing, BlockAssociation

CONSTANTS
  Programs,  \* records with the fields fsm, start, stop, graph and wires
  MaxSteps   \* states that a run passes, at most

VARIABLES
  prog,    \* the program
  layout,  \* the basic blocks of its state machine
  graph,   \* the graph, as the last stage left it
  homes,   \* for each phi node, operand key -> blocks that assign it (ghost)
  input,   \* phi node -> (block -> its operand computed there)
  printed,   \* block -> its loads and stores, as printed
  stage,   \* the last stage, "running", "ended", "failed" or "rejected"
  at,      \* the state that is executed next
  regs,    \* variable -> value, in the program
  mem,     \* <<memory, address>> -> value, in the program
  env,     \* node -> value, in the translation
  mem2,    \* <<memory, address>> -> value, in the translation
  unmerged,  \* variables assigned since the block of their phi node was entered
  settled, \* no variable was read while unmerged or before it was assigned
  steps

runVars == <<at, regs, mem, env, mem2, unmerged, settled, steps>>
vars == <<prog, layout, graph, homes, input, printed, stage, runVars>>

----------------------------------------------------------------------------
(* construct_cfg (CfgConstruction): a block goes by its last state.        *)

FusedEdges(E) == {e \in E : Fused(E, e[1], e[2])}

LastOfBlock(E, s) ==
  CHOOSE t \in Closure(FusedEdges(E), {s}) : Succs(FusedEdges(E), t) = {}

States(F) == {e[1] : e \in F} \cup {e[2] : e \in F}

Layout(p) ==
  LET of == [s \in States(p.fsm) |-> LastOfBlock(p.fsm, s)]
  IN  [blockOf |-> of, start |-> of[p.start], stop |-> of[p.stop],
       cfg |-> {<<e[1], of[e[2]], e[3]>> : e \in p.fsm \ FusedEdges(p.fsm)}]

\* A constant: the orders of the states of each state machine.
Orders == [F \in {p.fsm : p \in Programs} |-> TopologicalOrders(F, States(F))]

Blocks == {layout.blockOf[s] : s \in DOMAIN layout.blockOf}
StatesOfBlock(b) == {s \in DOMAIN layout.blockOf : layout.blockOf[s] = b}

BlockDominates(a, b) == Dominates(layout.cfg, layout.start, a, b)

----------------------------------------------------------------------------
(* The stages.                                                             *)

Init ==
  /\ prog \in Programs
  /\ layout = Layout(prog)
  /\ graph = prog.graph
  /\ homes = << >> /\ input = << >> /\ printed = << >>
  /\ stage = "associated"
  /\ at = prog.start
  /\ regs = << >> /\ mem = << >> /\ env = << >> /\ mem2 = << >>
  /\ unmerged = {} /\ settled = TRUE /\ steps = 0

Enter(g, next) ==
  /\ graph' = g
  /\ stage' = IF g.error = "" THEN next ELSE "failed"

Classify ==
  /\ stage = "associated"
  /\ Enter(ClassifyMemoryNodes(graph), "classified")
  /\ UNCHANGED <<prog, layout, homes, input, printed, runVars>>

\* What becomes of the phi node's operands is told by where they came from.
HomesIn(g) ==
  [p \in OfKind(g, "phi") |->
     [k \in {e[3] : e \in InEdges(g, p)} |->
        {layout.blockOf[s] : s \in StatesOfAll(g, Sources(g, Operand(g, p, k)))}]]

CreatePhis ==
  /\ stage = "classified"
  /\ \E stateOf \in [Blocks -> DOMAIN layout.blockOf] :
       /\ \A b \in Blocks : stateOf[b] \in StatesOfBlock(b)
       /\ LET g == CreatePhiNodes(graph, layout.blockOf, layout.cfg, stateOf)
          IN  /\ Enter(g, "merged")
              /\ homes' = IF g.error = "" THEN HomesIn(g) ELSE << >>
  /\ UNCHANGED <<prog, layout, input, printed, runVars>>

UnshareAll ==
  /\ stage = "merged"
  /\ \E times \in Orders[prog.fsm] :
       Enter(UnshareResources(graph, times), "unshared")
  /\ UNCHANGED <<prog, layout, homes, input, printed, runVars>>

AssociateBlocks ==
  /\ stage = "unshared"
  /\ \E g \in AssociateNodesWithBlocks(graph, layout) : Enter(g, "placed")
  /\ UNCHANGED <<prog, layout, homes, input, printed, runVars>>

CreateBranches ==
  /\ stage = "placed"
  /\ Enter(RemoveVariables(graph, layout), "branched")
  /\ UNCHANGED <<prog, layout, homes, input, printed, runVars>>

----------------------------------------------------------------------------
(* generate_mlir                                                           *)

InBlock(g, b) == {n \in Nodes(g) : g.bb[n] = b}

\* The block nearest to b, up the dominator tree, among B.
NearestDominator(b, B) ==
  CHOOSE d \in {c \in B : BlockDominates(c, b)} :
    \A c \in B : BlockDominates(c, b) => BlockDominates(c, d)

InputBlocks(g, p) == {g.bb[n] : n \in Sources(g, p)}
HasPhiInput(g, p, b) == \E c \in InputBlocks(g, p) : BlockDominates(c, b)

\* input_nodes_per_bb: a dict, so a block of several operands has the last.
InputsPerBlock(g, p) ==
  {f \in [InputBlocks(g, p) -> Sources(g, p)] : \A b \in DOMAIN f : g.bb[f[b]] = b}

Phis(g) == OfKind(g, "phi")

InputChoices(g) ==
  {f \in [Phis(g) -> UNION {InputsPerBlock(g, p) : p \in Phis(g)}] :
     \A p \in Phis(g) : f[p] \in InputsPerBlock(g, p)}

\* find_phi_input_in_bb_or_dominator
Passed(p, b) == input[p][NearestDominator(b, DOMAIN input[p])]

Branching(g, p) == Preds(layout.cfg, g.bb[p])

\* nx.topological_sort goes by generations: the longest way to n in its block.
Generation(g, n) ==
  LET B == {m \in InBlock(g, g.bb[n]) : g.kind[m] \notin {"phi", "arg", "return", "result"}}
      E == {e \in g.edges : {e[1], e[2]} \subseteq B}
      gen[m \in B] == IF Preds(E, m) = {} THEN 0
                      ELSE 1 + CHOOSE i \in {gen[q] : q \in Preds(E, m)} :
                                 \A q \in Preds(E, m) : gen[q] <= i
  IN  gen[n]

Accesses(g, b) == (OfKind(g, "load") \cup OfKind(g, "store")) \cap InBlock(g, b)

\* Within a generation any order may come out.
Printings(g, b) ==
  {q \in SetToSeqs(Accesses(g, b)) :
     \A i, j \in DOMAIN q : i < j => Generation(g, q[i]) <= Generation(g, q[j])}

PrintingChoices(g) ==
  {f \in [Blocks -> UNION {Printings(g, b) : b \in Blocks}] :
     \A b \in Blocks : f[b] \in Printings(g, b)}

\* What mlir-opt verifies: operands are computed on every way to their use.
Verified(g) ==
  \A e \in g.edges : g.kind[e[2]] \in {"op", "load", "store", "return"} =>
    BlockDominates(g.bb[e[1]], g.bb[e[2]])

GenerateMlir ==
  /\ stage = "branched"
  /\ \A p \in Phis(graph) : \A b \in Branching(graph, p) : HasPhiInput(graph, p, b)
  /\ input' \in InputChoices(graph)
  /\ printed' \in PrintingChoices(graph)
  /\ stage' = IF Verified(graph) THEN "running" ELSE "rejected"
  /\ UNCHANGED <<prog, layout, graph, homes, runVars>>

\* "Did not find an input for Phi"
NoPhiInput ==
  /\ stage = "branched"
  /\ \E p \in Phis(graph) : \E b \in Branching(graph, p) : ~HasPhiInput(graph, p, b)
  /\ Enter(Fail(graph, "phi input"), "branched")
  /\ UNCHANGED <<prog, layout, homes, input, printed, runVars>>

----------------------------------------------------------------------------
(* The program in the state `at`.                                          *)

P == prog.graph
Registers == OfKind(P, "var") \ (prog.wires \cup P.inputs)
Active(v) == {a \in Sources(P, v) : at \in P.son[a]}

\* The assignment that a wire follows: the only one, or that of the state.
Driver(v) ==
  IF Cardinality(Sources(P, v)) = 1 THEN Sources(P, v) ELSE Active(v)

Undefined == <<"undefined", 0>>

Value ==
  LET val[n \in Nodes(P)] ==
        CASE P.kind[n] = "const" -> <<"const", P.label[n]>>
          [] n \in P.inputs -> <<"arg", P.label[n]>>
          [] n \in Registers -> IF n \in DOMAIN regs THEN regs[n] ELSE Undefined
          [] n \in prog.wires -> IF Driver(n) = {} THEN Undefined
                                 ELSE val[ValueOf(P, CHOOSE a \in Driver(n) : TRUE)]
          [] P.kind[n] = "op" -> <<P.label[n]>> \o
               [i \in 1..Cardinality(InEdges(P, n)) |-> val[Operand(P, n, i - 1)]]
          [] OTHER -> Undefined
  IN  val

Enabled(m) == at \in EnableStates(P, m)
Writes(m) == at \in StoreStates(P, m)
PortValue(m, k) ==
  Value[ValueOf(P, CHOOSE a \in Active(Operand(P, m, k)) : TRUE)]

Cell(m) == <<P.label[m], PortValue(m, AddressPort)>>
Read(memory, cell) ==
  IF cell \in DOMAIN memory THEN memory[cell] ELSE <<"initial">> \o cell

Memories == OfKind(P, "memory")
Written == {v \in Registers : \E a \in Active(v) : P.kind[ValueOf(P, a)] # "memory"}
Loaded == {v \in Registers :
             \E m \in Memories : Enabled(m) /\ ~Writes(m) /\ \E a \in Users(P, m) : v \in Users(P, a)}
MemoryOf(v) == CHOOSE m \in Memories : \E a \in Users(P, m) : v \in Users(P, a)

NextRegs ==
  [v \in Written |-> Value[ValueOf(P, CHOOSE a \in Active(v) : TRUE)]]
    @@ [v \in Loaded |-> Read(mem, Cell(MemoryOf(v)))] @@ regs

NextMem ==
  LET S == {m \in Memories : Writes(m)}
  IN  [c \in {Cell(m) : m \in S} |-> PortValue(CHOOSE m \in S : Cell(m) = c, DataPort)] @@ mem

\* The registers that the values of N are computed from.
ReadBy(N) == Closure({e \in Reversed(P.edges) : e[1] \notin Registers}, N) \cap Registers

\* The registers that are read in the state.
Reading ==
  LET ports == (UNION {Active(Operand(P, m, AddressPort)) : m \in {x \in Memories : Enabled(x)}})
                 \cup (UNION {Active(Operand(P, m, DataPort)) : m \in {x \in Memories : Writes(x)}})
      asgs == {a \in UNION {Active(v) : v \in Written} : P.kind[ValueOf(P, a)] # "memory"}
  IN  ReadBy(UNION {Sources(P, a) : a \in ports \cup asgs})

----------------------------------------------------------------------------
(* The translation of the block b.                                         *)

ValueIn(e, b) ==
  LET val[n \in Nodes(graph)] ==
        CASE graph.kind[n] = "const" -> <<"const", graph.label[n]>>
          [] graph.kind[n] = "arg" -> <<"arg", graph.label[n]>>
          [] graph.kind[n] = "op" /\ graph.bb[n] = b -> <<graph.label[n]>> \o
               [i \in 1..Cardinality(InEdges(graph, n)) |-> val[Operand(graph, n, i - 1)]]
          [] OTHER -> e[n]
  IN  val

Access(b, e, memory, n) ==
  LET cell == <<graph.label[n], ValueIn(e, b)[Operand(graph, n, AddressPort)]>>
  IN  IF graph.kind[n] = "load" THEN [env |-> n :> Read(memory, cell) @@ e, mem |-> memory]
      ELSE [env |-> e, mem |-> cell :> ValueIn(e, b)[Operand(graph, n, DataPort)] @@ memory]

ExecuteBlock(b) ==
  LET done == FoldLeft(LAMBDA x, n : Access(b, x.env, x.mem, n), [env |-> env, mem |-> mem2], printed[b])
      ops == OfKind(graph, "op") \cap InBlock(graph, b)
  IN  [done EXCEPT !.env = [n \in ops |-> ValueIn(done.env, b)[n]] @@ @]

\* cf.br: the phi nodes of the block c take the operands that b passes.
PhisFrom(e, b, c) ==
  [p \in Phis(graph) \cap InBlock(graph, c) |-> ValueIn(e, b)[Passed(p, b)]] @@ e

\* The variables whose phi node is in the block c; those with one anywhere.
MergedIn(c) ==
  {v \in Registers : \E p \in Phis(graph) : graph.bb[p] = c /\ graph.label[p] = P.label[v]}

RunState ==
  /\ stage = "running"
  /\ steps < MaxSteps
  /\ steps' = steps + 1
  /\ regs' = NextRegs
  /\ mem' = NextMem
  /\ settled' = (settled /\ Reading \cap unmerged = {} /\ Reading \subseteq DOMAIN regs)
  /\ LET b == layout.blockOf[at]
         last == at = b
         done == ExecuteBlock(b)
         assigned == unmerged \cup {v \in Written : \E p \in Phis(graph) : graph.label[p] = P.label[v]}
     IN  /\ mem2' = IF last THEN done.mem ELSE mem2
         /\ \/ /\ at = prog.stop
               /\ env' = IF last THEN done.env ELSE env
               /\ unmerged' = assigned
               /\ stage' = "ended"
               /\ UNCHANGED at
            \/ \E t \in Succs(prog.fsm, at) :
                 /\ at' = t
                 /\ env' = IF last THEN PhisFrom(done.env, b, layout.blockOf[t]) ELSE env
                 /\ unmerged' = IF last THEN assigned \ MergedIn(layout.blockOf[t]) ELSE assigned
                 /\ UNCHANGED stage
  /\ UNCHANGED <<prog, layout, graph, homes, input, printed>>

Next ==
  \/ Classify
  \/ CreatePhis
  \/ UnshareAll
  \/ AssociateBlocks
  \/ CreateBranches
  \/ GenerateMlir
  \/ NoPhiInput
  \/ RunState

Spec == Init /\ [][Next]_vars

----------------------------------------------------------------------------
(* Properties.                                                             *)

Returned == OfKind(P, "return")

\* What the phi node p should get from the block b: an operand whose
\* assignment is in the nearest block up the dominator tree that has one.
AssignedOperands(p, b) ==
  LET H == UNION {homes[p][k] : k \in DOMAIN homes[p]}
      h == NearestDominator(b, H)
  IN  IF \E c \in H : BlockDominates(c, b)
      THEN {Operand(graph, p, k) : k \in {j \in DOMAIN homes[p] : h \in homes[p][j]}}
      ELSE Nodes(graph)

(***************************************************************************)
(* A branch passes to a phi node the value that was assigned last on the   *)
(* way to it.                                                              *)
(***************************************************************************)
PhiPassesAssigned ==
  stage \in {"running", "ended"} =>
    \A p \in Phis(graph) : \A b \in Branching(graph, p) :
      Passed(p, b) \in AssignedOperands(p, b)

\* Whether s comes before t in their block.
Earlier(s, t) == t \in Closure(FusedEdges(prog.fsm), Succs(FusedEdges(prog.fsm), s))

(***************************************************************************)
(* Loads and stores of a memory that share a block are printed in the      *)
(* order of their states, if one of them is a store.                       *)
(***************************************************************************)
MemoryInOrder ==
  stage \in {"running", "ended"} =>
    \A b \in Blocks : \A i, j \in DOMAIN printed[b] :
      LET n == printed[b][i]
          m == printed[b][j]
      IN  i < j /\ graph.label[n] = graph.label[m] /\ "store" \in {graph.kind[n], graph.kind[m]} =>
            \A s \in graph.son[n], t \in graph.son[m] : ~Earlier(t, s)

\* The operators of the program that several states use, one with a literal.
SharedWithLiteral ==
  {n \in OfKind(P, "op") : /\ \E s, t \in P.son[n] : s # t
                           /\ \E m \in Sources(P, n) : P.kind[m] = "const"}


\* The nodes that hand on a value that another node has.
Carriers(g) ==
  OfKind(g, "asg") \cup OfKind(g, "phi") \cup {v \in OfKind(g, "var") : Sources(g, v) # {}}

\* The nodes whose value may be that of m.
Origins(g, m) ==
  Closure(Reversed({e \in g.edges : e[2] \in Carriers(g)}), {m}) \ Carriers(g)

\* Which value may be which operand of which node.
Uses(g) ==
  UNION {{<<x, e[2], e[3]>> : x \in Origins(g, e[1])} : e \in {d \in g.edges : d[2] \notin Carriers(g)}}

(***************************************************************************)
(* Merging and phi nodes: no operand loses a value that may reach it, and  *)
(* none gets another.                                                      *)
(***************************************************************************)
UsesKept ==
  [][stage = "classified" /\ stage' = "merged" => Uses(graph') = Uses(graph)]_vars

(***************************************************************************)
(* What the memory classification leaves, besides what invariants.py       *)
(* checks there: an assignment assigns a variable, and what is assigned is *)
(* not only ever its own value.                                            *)
(***************************************************************************)
Linked(g) ==
  /\ DOMAIN g = {"kind", "label", "edges", "keep", "son", "inputs", "bb", "error"}
  /\ IsFiniteSet(Nodes(g)) /\ Nodes(g) \subseteq Nat
  /\ IsFiniteSet(g.edges) /\ g.edges \subseteq Nodes(g) \X Nodes(g) \X Nat
  /\ \A e \in g.edges : g.kind[e[1]] = "asg" => g.kind[e[2]] = "var"
  /\ \A c \in Carriers(g) : Origins(g, c) # {}

ASSUME ClassifiedAssumption ==
  \A p \in Programs :
    LET g == ClassifyMemoryNodes(p.graph) IN g.error = "" => Linked(g)

\* The registers that hold what was computed, not what a memory answers.
Computed == {v \in Registers : \A a \in Sources(P, v) : P.kind[ValueOf(P, a)] # "memory"}

\* What the node n of g is in the state s, from registers, loads and phis.
TermIn(g, s, n) ==
  LET driving(v) == IF Cardinality(Sources(g, v)) = 1 THEN Sources(g, v)
                    ELSE {a \in Sources(g, v) : s \in g.son[a]}
      term[m \in Nodes(g)] ==
        CASE g.kind[m] = "op" -> <<g.label[m]>> \o
               [i \in 1..Cardinality(InEdges(g, m)) |-> term[Operand(g, m, i - 1)]]
          [] g.kind[m] = "var" /\ m \notin Computed \cup P.inputs ->
               IF driving(m) = {} THEN Undefined ELSE term[ValueOf(g, CHOOSE a \in driving(m) : TRUE)]
          [] g.kind[m] = "var" -> <<"register", m>>
          [] OTHER -> <<g.kind[m], g.label[m]>>
  IN  term[n]

(***************************************************************************)
(* Where an operator was shared by several states, each assignment still   *)
(* assigns the same value of the registers, in each of its states.         *)
(***************************************************************************)
UnsharingKeepsValues ==
  [][stage = "merged" /\ stage' = "unshared" =>
       \A v \in Computed \cap Nodes(graph) : \A a \in Sources(graph, v) : \A s \in graph.son[a] :
         a \in Nodes(graph') /\ TermIn(graph', s, ValueOf(graph', a)) = TermIn(graph, s, ValueOf(graph, a))]_vars

\* No wire became a phi node, as one does that is set in two blocks.
WiresUnmerged ==
  \A p \in Phis(graph) : \A v \in prog.wires : graph.label[p] # P.label[v]

(***************************************************************************)
(* A run of the translation returns what the program returns, and leaves   *)
(* the same in the memories: if the program reads a register only after it *)
(* was assigned and, between an assignment and its merge, not at all, and  *)
(* the two orders above hold.                                              *)
(***************************************************************************)
ResultsAgree ==
  stage = "ended" /\ settled /\ PhiPassesAssigned /\ MemoryInOrder /\ WiresUnmerged
    /\ ReadBy(Returned) \subseteq DOMAIN regs \ unmerged =>
      /\ mem = mem2
      /\ \A r \in Returned :
           Value[Operand(P, r, 0)] = ValueIn(env, layout.stop)[Operand(graph, r, 0)]
=============================================================================
