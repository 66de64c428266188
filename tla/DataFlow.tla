------------------------------ MODULE DataFlow ------------------------------
(***************************************************************************)
(* The graphs of type_info.py as the last stages see them, the helpers of  *)
(* graph_util.py and subgraphs.py, and the checks that invariants.py makes *)
(* between two stages.                                                     *)
(*                                                                         *)
(* A graph is a record: kind gives the node info's class, label its value, *)
(* operation, memory or name, edges the value edges <<from, to, key>>,     *)
(* keep is do_not_remove, son is states_of_nodes (a dict: not every node   *)
(* is in its domain), and error the reason once a check has failed.  Nodes *)
(* are numbers and are added in increasing order, so "in the order of      *)
(* graph.nodes" means in increasing order.  The states and basic blocks,   *)
(* and the edges between them, are kept apart from the values.             *)
(***************************************************************************)
EXTENDS FsmGraphs, Sequences, FiniteSets, SequencesExt

Unary == {"-"}
Binary == {"+"}

Nodes(g) == DOMAIN g.kind
OfKind(g, k) == {n \in Nodes(g) : g.kind[n] = k}

InEdges(g, n) == {e \in g.edges : e[2] = n}
OutEdges(g, n) == {e \in g.edges : e[1] = n}
Sources(g, n) == Preds(g.edges, n)
Users(g, n) == Succs(g.edges, n)

InOrder(N) ==
  [i \in 1..Cardinality(N) |-> CHOOSE n \in N : Cardinality({m \in N : m < n}) = i - 1]

Fail(g, why) == [g EXCEPT !.error = why]

\* set().union(*[...])
StatesOfAll(g, N) == UNION {g.son[n] : n \in N \cap DOMAIN g.son}

\* get_in_edges_by_index(graph, n)[k][0]
HasOperand(g, n, k) == \E e \in InEdges(g, n) : e[3] = k
Operand(g, n, k) == (CHOOSE e \in InEdges(g, n) : e[3] = k)[1]

\* get_value_of_asg; its check is part of WellFormed.
ValueOf(g, a) == CHOOSE v \in Sources(g, a) : TRUE

\* N and all that can be reached from N.
Closure(E, N) ==
  LET closed[M \in SUBSET (N \cup {e[2] : e \in E})] ==
        LET more == M \cup UNION {Succs(E, n) : n \in M}
        IN  IF more = M THEN M ELSE closed[more]
  IN  closed[N]

\* nx.descendants
Descendants(E, n) == Closure(E, Succs(E, n)) \ {n}

Reversed(E) == {<<e[2], e[1], e[3]>> : e \in E}

\* remove_nodes_from; states_of_nodes keeps its entries.
Without(g, N) ==
  [g EXCEPT !.kind = [n \in Nodes(g) \ N |-> g.kind[n]],
            !.label = [n \in Nodes(g) \ N |-> g.label[n]],
            !.edges = {e \in g.edges : e[1] \notin N /\ e[2] \notin N}]

\* add_nodes, for new nodes given as a function to <<kind, label>>.
WithNodes(g, new) ==
  LET N == Nodes(g) \cup DOMAIN new
  IN  [g EXCEPT !.kind = [n \in N |-> IF n \in DOMAIN new THEN new[n][1] ELSE g.kind[n]],
                !.label = [n \in N |-> IF n \in DOMAIN new THEN new[n][2] ELSE g.label[n]]]

WithEdges(g, E) == [g EXCEPT !.edges = @ \cup E]

WithSon(g, f) == [g EXCEPT !.son = f @@ @]

\* remap_edges(graph, out_edges(n), {n : m})
OutEdgesTo(g, n, m) ==
  [g EXCEPT !.edges = (@ \ OutEdges(g, n)) \cup {<<m, e[2], e[3]>> : e \in OutEdges(g, n)}]

\* The next free ids, one for each of N.
FirstFree(g) == 1 + CHOOSE n \in Nodes(g) : \A m \in Nodes(g) : m <= n
FreshFor(g, N) ==
  LET order == InOrder(N)
  IN  [n \in N |-> FirstFree(g) - 1 + CHOOSE i \in DOMAIN order : order[i] = n]

\* relabel_nodes of the subgraph on N, added to the graph: copies with the
\* edges between them.
WithCopies(g, f) ==
  LET N == DOMAIN f
      original(c) == CHOOSE n \in N : f[n] = c
      new == [c \in {f[n] : n \in N} |-> <<g.kind[original(c)], g.label[original(c)]>>]
  IN  WithEdges(WithNodes(g, new),
        {<<f[e[1]], f[e[2]], e[3]>> : e \in {d \in g.edges : {d[1], d[2]} \subseteq N}})

\* remove_unused_operators
Unused(g) ==
  LET removable == (OfKind(g, "op") \cup OfKind(g, "const")) \ g.keep
      removed[N \in SUBSET removable] ==
        LET more == {n \in removable : Users(g, n) \subseteq N}
        IN  IF more = N THEN N ELSE removed[more]
  IN  removed[{}]

----------------------------------------------------------------------------
(* subgraphs.py, over the edges E between the blocks.                      *)

\* b is reached from the root only through a.
Dominates(E, root, a, b) ==
  a = b \/ b \notin Closure({e \in E : a \notin {e[1], e[2]}}, {root} \ {a})

\* The nodes of a dominator_tree: a tree without an edge has none.
TreeNodes(E, root) == IF Closure(E, {root}) = {root} THEN {} ELSE Closure(E, {root})

\* lowest_common_ancestor of B in the dominator tree of the reversed edges:
\* the first block that lies on all paths from B to the stop block.
PostDominators(E, stop, B) ==
  {d \in {stop} \cup {e[1] : e \in E} :
     \A b \in B : Dominates(Reversed(E), stop, d, b)}
FirstCommonPostdominator(E, stop, B) ==
  CHOOSE d \in PostDominators(E, stop, B) :
    \A c \in PostDominators(E, stop, B) : Dominates(Reversed(E), stop, c, d)

----------------------------------------------------------------------------
(* invariants.py                                                           *)

AssignmentSound(g, a) ==
  /\ Cardinality(InEdges(g, a)) = 1
  /\ Cardinality(OutEdges(g, a)) <= 1

OperatorSound(g, n) ==
  /\ g.label[n] \in Unary \cup Binary => HasOperand(g, n, 0)
  /\ g.label[n] \in Binary => HasOperand(g, n, 1)

\* What is checked of every node of every graph.
WellFormed(g) ==
  /\ \A n \in OfKind(g, "const") : Sources(g, n) = {}
  /\ \A a \in OfKind(g, "asg") : AssignmentSound(g, a)
  /\ \A v \in OfKind(g, "var") : Sources(g, v) \subseteq OfKind(g, "asg")
  /\ \A n \in Nodes(g) : \A d, e \in InEdges(g, n) : d[3] = e[3] => d = e
  /\ \A n \in OfKind(g, "op") : OperatorSound(g, n)

\* What is checked of an AssociatedFSMGraph besides.
VariablesAreUnionsIn(g) ==
  \A v \in OfKind(g, "var") : Sources(g, v) # {} =>
    StatesOfAll(g, {v}) = StatesOfAll(g, Sources(g, v))

\* The graph goes on to the next stage only if the invariants hold.
Checked(g, holds) ==
  IF g.error = "" /\ ~(WellFormed(g) /\ holds) THEN Fail(g, "invariant") ELSE g
=============================================================================
