--------------------------- MODULE FsmExtraction ---------------------------
(***************************************************************************)
(* How the netlist becomes what CreateFsm starts from:                     *)
(* split_control_and_data_flow (Step_1_2), find_current_state_variable     *)
(* (Step_2_1) and the first half of create_fsm (Step_2_2), with            *)
(* idempotent_remove; and the state machine that is returned beside the    *)
(* netlist.                                                                *)
(*                                                                         *)
(* A circuit is a graph of DataFlow with inputs, outputs and starts (the   *)
(* start inputs); find_current_state_variable adds the fields current,     *)
(* comparisons and values.  The edge with key 1 into an assignment is its  *)
(* condition edge, every other edge is a value edge.  All control inputs   *)
(* but the start inputs are the literal 0 (Step_1_1), so no stall          *)
(* condition is left as a variable here.                                   *)
(***************************************************************************)
EXTENDS CreateFsm, DataFlow

ComparisonOps == {"==", "<"}
StateComparisonOps == {"==", "[]"}
Conjunctions == {"&&", "&"}
Disjunctions == {"||", "|"}
Negations == {"!", "~"}

\* value_edge_subgraph
ValueEdges(g) == {e \in g.edges : g.kind[e[2]] # "asg" \/ e[3] # 1}
Conditions(g, a) == {e[1] : e \in InEdges(g, a) \ ValueEdges(g)}
ConditionOf(g, a) == CHOOSE c \in Conditions(g, a) : TRUE

\* nx.ancestors
Ancestors(E, n) == Descendants(Reversed(E), n)

----------------------------------------------------------------------------
(* split_control_and_data_flow                                             *)

DataNodes(g) ==
  LET V == {e \in ValueEdges(g) : g.kind[e[1]] = "op" => g.label[e[1]] \notin ComparisonOps}
      near == (UNION {{o} \cup Ancestors(V, o) : o \in g.outputs})
                \cup (UNION {{i} \cup Descendants(V, i) : i \in g.inputs})
  IN  near \cup UNION {Ancestors(V, n) : n \in near}

ControlNodes(g) == Nodes(g) \ DataNodes(g)

----------------------------------------------------------------------------
(* find_current_state_variable                                             *)

OnlyFromConstants(g) ==
  {v \in OfKind(g, "var") \cap ControlNodes(g) :
     /\ Sources(g, v) # {}
     /\ \A n \in Ancestors(ValueEdges(g), v) : g.kind[n] \in {"const", "var", "asg"}}

NodeIsConstant(g, n) ==
  \A m \in {n} \cup Ancestors(g.edges, n) : Sources(g, m) = {} => g.kind[m] = "const"

\* all_control_nodes_attached_to_data_flow
GuardsOfData(g) ==
  {n \in ControlNodes(g) :
     /\ \E a \in OfKind(g, "asg") \cap DataNodes(g) : n \in Conditions(g, a)
     /\ g.kind[n] # "const" /\ n \notin g.starts /\ ~NodeIsConstant(g, n)}

\* determines_all_condition_edges
Determining(g) ==
  {v \in OnlyFromConstants(g) : GuardsOfData(g) \subseteq Descendants(g.edges, v)}

Comparing(g, v) == {n \in Users(g, v) : g.kind[n] = "op" /\ g.label[n] \in StateComparisonOps}

\* comparisons_of_node: those that decide, in the end, what v becomes.
Deciding(g, v) == {n \in Comparing(g, v) : v \in Closure(g.edges, {n})}

\* sorted(..., key)[0]; the sort is stable.
MostDeciding(g, D) ==
  LET number == [v \in D |-> Cardinality(Deciding(g, v))]
  IN  CHOOSE v \in D : \A w \in D : number[v] > number[w] \/ (number[v] = number[w] /\ v <= w)

FindCurrentStateVariable(g) ==
  LET v == MostDeciding(g, Determining(g))
  IN  [current |-> v, comparisons |-> Comparing(g, v),
       values |-> Ancestors(ValueEdges(g), v) \cap OfKind(g, "const")] @@ g

----------------------------------------------------------------------------
(* The states, by the order of their constants.                            *)

StateConstants(g) == InOrder(g.values)
ValueOfState(g, s) == g.label[StateConstants(g)[s]]

ComparedWith(g, c) == CHOOSE n \in Sources(g, c) : n # g.current

\* value_of_binary_eq, value_of_index
MakesTrue(g, c) ==
  LET l == g.label[ComparedWith(g, c)] IN IF g.label[c] = "==" THEN l ELSE 2 ^ l

ComparisonsOf(g, s) == {c \in g.comparisons : MakesTrue(g, c) = ValueOfState(g, s)}

\* assignments_which_change_the_states
AssignmentsTo(g, s) ==
  {a \in OfKind(g, "asg") : /\ <<StateConstants(g)[s], a, 0>> \in g.edges
                            /\ g.current \in Closure(ValueEdges(g), {a})}

StateAssignments(g) == UNION {AssignmentsTo(g, s) : s \in DOMAIN StateConstants(g)}

----------------------------------------------------------------------------
(* forward_propagate_state_information                                     *)

\* `a == 1` is replaced by a, `a == 0` by !a.
WithoutEqual(g, n) ==
  LET literals == {k \in {0, 1} : g.kind[Operand(g, n, k)] = "const"}
      k == CHOOSE i \in literals : TRUE
      other == Operand(g, n, 1 - k)
      value == g.label[Operand(g, n, k)]
      inverse == WithEdges(WithNodes(g, FirstFree(g) :> <<"op", "!">>), {<<other, FirstFree(g), 0>>})
  IN  IF Cardinality(literals) # 1 \/ Sources(g, n) \cap g.starts # {} \/ value \notin {0, 1} THEN g
      ELSE Without(IF value = 1 THEN OutEdgesTo(g, n, other) ELSE OutEdgesTo(inverse, n, FirstFree(g)), {n})

WithoutEquals(g) ==
  LET equals == {n \in ControlNodes(g) \cap OfKind(g, "op") : g.label[n] = "=="} \ g.comparisons
  IN  FoldLeft(WithoutEqual, g, InOrder(equals))

\* comparison_subg, for the state comparisons C.
FromComparisons(g, C) == Closure(ValueEdges(g), C)

GatesFrom(g, C) == (FromComparisons(g, C) \cap OfKind(g, "op")) \ C
FreeVariables(g, C) == (UNION {Sources(g, n) : n \in GatesFrom(g, C)}) \ FromComparisons(g, C)

\* The value that the gate n wants of its free inputs.
Asked(g, n) ==
  CASE g.label[n] \in Conjunctions -> {TRUE}
    [] g.label[n] \in Disjunctions \cup Negations -> {FALSE}
    [] OTHER -> BOOLEAN

\* Gates that no equation says anything about.
Unconstrained(g, C) ==
  {n \in GatesFrom(g, C) : g.label[n] \notin Conjunctions \cup Disjunctions \cup Negations}

\* A free input has the values that the first of its gates wants; the order
\* of the gates is that of a set.
Assignings(g, C) ==
  LET F == FreeVariables(g, C)
  IN  {v \in [F -> SUBSET BOOLEAN] :
         \A f \in F : \E n \in Users(g, f) \cap GatesFrom(g, C) : v[f] = Asked(g, n)}

\* What the solver may try, if each free input f has a value in v[f].
Valuations(g, C, v) ==
  {w \in [FreeVariables(g, C) \cup Unconstrained(g, C) -> BOOLEAN] :
     \A f \in FreeVariables(g, C) : w[f] \in v[f]}

\* The solution of the equations, where the comparisons `on` hold.
Truth(g, C, on, v) ==
  LET holds[n \in FromComparisons(g, C) \cup FreeVariables(g, C)] ==
        CASE n \in C -> n \in on
          [] n \in DOMAIN v -> v[n]
          [] g.kind[n] = "op" /\ g.label[n] \in Conjunctions -> \A m \in Sources(g, n) : holds[m]
          [] g.kind[n] = "op" /\ g.label[n] \in Disjunctions -> \E m \in Sources(g, n) : holds[m]
          [] g.kind[n] = "op" /\ g.label[n] \in Negations -> ~holds[Operand(g, n, 0)]
          [] OTHER -> holds[CHOOSE m \in Sources(g, n) \cap FromComparisons(g, C) :
                              <<m, n, 1>> \notin g.edges \/ g.kind[n] # "asg"]
  IN  holds

\* The states in which n can hold for one of the valuations W.
Satisfiable(g, C, on, n, W) == {s \in DOMAIN on : \E v \in W : Truth(g, C, on[s], v)[n]}

\* true_in_states[n]
TrueIn(g, C, on, n, v) ==
  LET any == [f \in FreeVariables(g, C) |-> BOOLEAN]
      first == Satisfiable(g, C, on, n, Valuations(g, C, v))
  IN  IF n \notin FromComparisons(g, C) THEN DOMAIN on
      ELSE IF first # {} THEN first
      ELSE Satisfiable(g, C, on, n, Valuations(g, C, any))

----------------------------------------------------------------------------
(* idempotent_remove                                                       *)

RECURSIVE Removed(_, _, _)

\* Faulty: a binary operator goes as soon as an operand is gone.
LeftOverWithIt(g, n) == Without(g, {n})

\* The operator n without the operands that were removed.
LeftOver(g, n) ==
  LET operands == Sources(g, n)
  IN  CASE g.label[n] \in ComparisonOps -> IF Cardinality(operands) = 2 THEN g ELSE Without(g, {n})
        [] g.label[n] \in Negations -> IF operands # {} THEN g ELSE Without(g, {n})
        [] g.label[n] \in Conjunctions \cup Disjunctions /\ Cardinality(InEdges(g, n)) = 1 ->
             Without(OutEdgesTo(g, n, CHOOSE m \in operands : TRUE), {n})
        [] g.label[n] \in Conjunctions \cup Disjunctions /\ operands = {} -> Without(g, {n})
        [] OTHER -> g

AfterRemoval(g, n, remove) ==
  CASE n \in remove -> Without(g, {n})
    [] g.kind[n] = "asg" /\ n \notin remove -> IF HasOperand(g, n, 0) THEN g ELSE Without(g, {n} \cup Users(g, n))
    [] g.kind[n] = "var" /\ n \notin remove -> IF Sources(g, n) # {} THEN g ELSE Without(g, {n})
    [] g.kind[n] = "op" /\ n \notin remove -> LeftOver(g, n)
    [] OTHER -> g

\* An assignment takes its variable with it, whose users are looked at next.
Removed(g, worklist, remove) ==
  IF worklist = << >> THEN g
  ELSE LET n == Last(worklist)
           h == AfterRemoval(g, n, remove)
           beyond == IF g.kind[n] = "asg" THEN UNION {Users(g, v) : v \in Users(g, n)} ELSE {}
           more == IF n \in Nodes(h) THEN << >> ELSE InOrder(beyond) \o InOrder(Users(g, n))
       IN  IF n \notin Nodes(g) THEN Removed(g, Front(worklist), remove)
           ELSE Removed(h, Front(worklist) \o more, remove)

IdempotentRemove(g, order) == Removed(g, order, {order[i] : i \in DOMAIN order})

----------------------------------------------------------------------------
(* create_fsm, up to fsm_edges.                                            *)

\* value_graph, a view of the value edges that there were at first: nodes
\* that are new, or have no value edge, are not in it.
NodesInView(g, h) == {n \in Nodes(h) : \E e \in ValueEdges(g) : n \in {e[1], e[2]}}
StartsInView(g, h) == g.starts \cap NodesInView(g, h)

\* has_path in value_graph, which raises if n is not there.
DependsOnStart(g, h, n) ==
  \E i \in StartsInView(g, h) : n \in Closure(ValueEdges(g) \cap h.edges, {i})

CanBeAsked(g, h, n) == StartsInView(g, h) = {} \/ n \in NodesInView(g, h)

\* What create_fsm rejects, or fails on: a comparison with what is no
\* constant, a state that is never compared, an assignment to the state
\* variable whose condition nothing was found out about, a variable with
\* several assignments between a comparison and a condition.
Extractable(g, h) ==
  LET sub == FromComparisons(h, g.comparisons)
      guarding == (UNION {Conditions(h, a) : a \in OfKind(h, "asg") \cap DataNodes(g)})
                    \ OfKind(h, "const")
  IN  /\ \A c \in g.comparisons : g.kind[ComparedWith(g, c)] = "const"
      /\ \A s \in DOMAIN StateConstants(g) : ComparisonsOf(g, s) # {}
      /\ \A a \in StateAssignments(g) : Conditions(h, a) \subseteq sub \cup guarding
      /\ \A v \in sub \cap OfKind(h, "var") : Cardinality(Sources(h, v) \cap sub) = 1

\* What CreateFsm may start from, for the circuit g over the assignments A.
Extracted(g, A) ==
  LET h == WithoutEquals(g)
      C == g.comparisons
      on == [s \in DOMAIN StateConstants(g) |-> ComparisonsOf(g, s)]
      condition == [a \in A |-> ConditionOf(h, a)]
      to == [a \in A |-> CHOOSE s \in DOMAIN on : a \in AssignmentsTo(g, s)]
      votes == [a \in A |-> DependsOnStart(g, h, condition[a])]
      in(v) == [a \in A |-> TrueIn(h, C, on, condition[a], v)]
      votable(f) == \A a \in A : f[a] # {} => CanBeAsked(g, h, condition[a])
      rest(left, a) == IF Conditions(left, a) = {} THEN "none"
                       ELSE IF 0 \in Conditions(left, a) THEN "node0" ELSE "node"
  IN  IF ~Extractable(g, h) \/ StateAssignments(g) # A THEN {}
      ELSE {[states |-> DOMAIN on, circuit |-> g, cleaned |-> left,
             asg |-> [a \in A |-> [to |-> to[a], in |-> found[a], start |-> votes[a], rest |-> rest(left, a)]]] :
              found \in {f \in {in(v) : v \in Assignings(h, C)} : votable(f)},
              left \in {IdempotentRemove(h, order) : order \in SetToSeqs(C \cup g.starts)}}

ProgramsFrom(g, A) ==
  IF Determining(g) = {} THEN {} ELSE Extracted(FindCurrentStateVariable(g), A)

----------------------------------------------------------------------------
(* The netlist and the state machine side by side.                         *)

\* What the node n of g is, where the register and the inputs have the
\* values `at`.
Evaluated(g, at, n) ==
  LET bit(b) == IF b THEN 1 ELSE 0
      value[m \in Nodes(g)] ==
        LET l == value[Operand(g, m, 0)]
            r == value[Operand(g, m, 1)]
        IN  CASE m \in DOMAIN at -> at[m]
              [] g.kind[m] = "const" -> g.label[m]
              [] g.kind[m] = "var" \/ g.kind[m] = "asg" -> value[CHOOSE p \in Preds(ValueEdges(g), m) : TRUE]
              [] g.label[m] \in Conjunctions -> bit(l # 0 /\ r # 0)
              [] g.label[m] \in Disjunctions -> bit(l # 0 \/ r # 0)
              [] g.label[m] \in Negations -> bit(l = 0)
              [] g.label[m] = "==" -> bit(l = r)
              [] g.label[m] = "[]" -> (l \div 2 ^ r) % 2
  IN  value[n]

\* The inputs and registers, of one bit, that gates and comparisons read.
Leaves(g) ==
  {v \in OfKind(g, "var") \ (g.starts \cup {g.current}) :
     /\ \E n \in Users(g, v) : g.kind[n] = "op"
     /\ Sources(g, v) = {} \/ v \in OnlyFromConstants(g)}

\* The state register has the value `state`; the start inputs are given.
Settings(g, state) ==
  {(g.current :> state) @@ [i \in g.starts |-> 1] @@ v : v \in [Leaves(g) -> {0, 1}]}

\* The states that the netlist goes to.
Goes(g, at) ==
  {s \in DOMAIN StateConstants(g) :
     \E a \in AssignmentsTo(g, s) : Evaluated(g, at, ConditionOf(g, a)) # 0}

\* The states that the FSM goes to from s; left is the cleaned graph.
Follows(left, s, at) ==
  {e[2] : e \in {d \in Transitions :
     /\ d[1] = s
     /\ kind[d] = "conditional" => Evaluated(left, at, ConditionOf(left, asgOf[d])) # 0}}

\* The nodes that the condition of a is computed from, up to the leaves.
Below(g, n) ==
  Closure(Reversed({e \in ValueEdges(g) :
                      e[2] \notin Leaves(g) \cup g.comparisons \cup {g.current}}), {n})

\* What a node depends on: state comparisons, start inputs, anything else.
Sorts(g, n) ==
  {IF m \in g.comparisons THEN "state" ELSE IF m \in g.starts THEN "start" ELSE "other" :
     m \in Below(g, n) \cap (Leaves(g) \cup g.starts \cup g.comparisons)}

(***************************************************************************)
(* A condition in which what depends on the state, on a start input and on *)
(* anything else are conjuncts of their own, and which asks a start input  *)
(* to be set: what `case` over the state gives, as HLS tools write it.     *)
(***************************************************************************)
Separated(g, a) ==
  LET gates == Below(g, ConditionOf(g, a)) \cap OfKind(g, "op")
      started == CHOOSE at \in Settings(g, 0) : TRUE
  IN  \A n \in gates :
        /\ Cardinality(Sorts(g, n)) > 1 => g.label[n] \in Conjunctions
        /\ Sorts(g, n) = {"start"} => Evaluated(g, started, n) # 0

(***************************************************************************)
(* Once started, the FSM moves as the netlist does: in each state, for all *)
(* values of the other registers and inputs, the states it may go to by    *)
(* what solver, election and idempotent_remove left of the conditions are  *)
(* those that the netlist's own conditions give.  Assumed is that all      *)
(* conditions are separated; idempotent_remove and the values of the free  *)
(* variables change the meaning of others.                                 *)
(***************************************************************************)
FsmMovesAsNetlist ==
  pc = "returned" /\ "circuit" \in DOMAIN program =>
    LET g == program.circuit
        target(s) == IF s = start THEN Stop ELSE s
    IN  (\A a \in StateAssignments(g) : Separated(g, a)) =>
          \A s \in States : \A at \in Settings(g, ValueOfState(g, s)) :
            Follows(program.cleaned, s, at) =
              {target(t) : t \in {u \in Goes(g, at) : ~(u = s /\ s = start)}}
=============================================================================
