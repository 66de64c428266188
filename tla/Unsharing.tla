----------------------------- MODULE Unsharing -----------------------------
(***************************************************************************)
(* Resource_Sharing.unshare_resources: operators that execute in several   *)
(* states, because the hardware shares them, are copied once per state.    *)
(* What feeds a shared cluster of nodes are its multiplexers, variables    *)
(* assigned in each of these states, what it feeds its demultiplexers,     *)
(* variables used after each of them.  Times matter by their order only:   *)
(* `order` is the sequence of states that kahn_topo_order returned.        *)
(***************************************************************************)
EXTENDS DataFlow

----------------------------------------------------------------------------
(* The order of the states.                                                *)

\* The strongly connected component of s.
Loop(E, s) == {t \in Closure(E, {s}) : s \in Closure(E, {t})}

Position(order, s) == CHOOSE i \in DOMAIN order : order[i] = s

(***************************************************************************)
(* kahn_topo_order: components after those that lead to them; a component  *)
(* starts at its smallest node and goes on, in depth first order, from     *)
(* nodes it had before (which of several successors comes first is open).  *)
(***************************************************************************)
TopologicalOrders(E, S) ==
  {p \in [1..Cardinality(S) -> S] :
     /\ \A i, j \in DOMAIN p : p[i] = p[j] => i = j
     /\ \A e \in E : e[1] \in Loop(E, e[2]) \/ Position(p, e[1]) < Position(p, e[2])
     /\ \A i \in DOMAIN p :
          LET before == {p[j] : j \in 1..i-1} \cap Loop(E, p[i])
          IN  IF before = {} THEN \A s \in Loop(E, p[i]) : p[i] <= s
              ELSE p[i - 1] \in before /\ \E s \in before : p[i] \in Succs(E, s)}

InTime(order, S) == SelectSeq(order, LAMBDA s : s \in S)

\* sorted() of the states of A and those of B, with repetitions.
Merged(order, A, B) ==
  FoldLeft(LAMBDA q, s : q \o (IF s \in A THEN <<s>> ELSE << >>)
                           \o [i \in 1..Cardinality({b \in DOMAIN B : B[b] = s}) |-> s],
           << >>, order)

----------------------------------------------------------------------------
(* Which nodes are shared.                                                 *)

Shared(g) == {n \in Nodes(g) \cap DOMAIN g.son : Cardinality(g.son[n]) > 1}

\* The edges of merge_graph: both ends execute equally often.
MergeEdges(g) ==
  {e \in g.edges : /\ {e[1], e[2]} \subseteq Shared(g)
                   /\ g.kind[e[1]] # "const"
                   /\ Cardinality(g.son[e[1]]) = Cardinality(g.son[e[2]])}

Component(E, n) == Closure(E \cup Reversed(E), {n})

\* Variables of a component that have to do with nodes outside it.
BorderNodes(g) ==
  LET E == MergeEdges(g)
      outside(n) == {m \in Sources(g, n) \cup Users(g, n) : m \notin Component(E, n)}
  IN  {n \in {e[1] : e \in E} \cup {e[2] : e \in E} : g.kind[n] = "var" /\ outside(n) # {}}

Clusters(g) ==
  LET border == BorderNodes(g)
      E == {e \in MergeEdges(g) : {e[1], e[2]} \cap border = {}}
  IN  {C \in {Component(E, n) : n \in Shared(g)} :
         \E n \in C : g.kind[n] \notin {"var", "asg", "const"}}

SourcesOutside(g, C) == (UNION {Sources(g, n) : n \in C}) \ C
Muxes(g, C) == {v \in SourcesOutside(g, C) : g.kind[v] = "var"}
Demuxes(g, C) ==
  {v \in UNION {Users(g, a) : a \in {u \in UNION {Users(g, n) : n \in C} : g.kind[u] = "asg"}} :
     g.kind[v] = "var" /\ v \notin C}

\* The clusters that are copied: fed by variables of their own and by
\* values, feeding variables that nothing else assigns.
IsShared(g, C) ==
  /\ \A n \in SourcesOutside(g, C) : g.kind[n] \in {"const", "var"}
  /\ \A x \in Muxes(g, C) : Users(g, x) \subseteq C
  /\ Demuxes(g, C) # {}
  /\ \A d \in Demuxes(g, C) : Cardinality(Sources(g, d)) = 1

SharedClusters(g) == {C \in Clusters(g) : IsShared(g, C)}

----------------------------------------------------------------------------
(* Which copy gets which input and output.                                 *)

OneStateEach(g, N) == \A n \in N : n \in DOMAIN g.son /\ Cardinality(g.son[n]) = 1

\* For nodes N with one state each, the one in state s that comes first.
FirstIn(g, N, s) == CHOOSE n \in {m \in N : g.son[m] = {s}} : TRUE

\* The nodes' only states.
StateOf(g, N) == [n \in N |-> CHOOSE s \in g.son[n] : TRUE]

\* The keys of a dict in the order in which they were first set.
WithoutRepetitions(q) ==
  FoldLeft(LAMBDA p, n : IF Contains(p, n) THEN p ELSE Append(p, n), << >>, q)

(***************************************************************************)
(* The times at which a variable's assignments (or uses) N take place and  *)
(* those at which it is read (or set), merged, have to alternate, N at the *)
(* positions of the given parity.  The code tests the other positions      *)
(* against a list to which it has added all times, so only the parity of N *)
(* is tested; the time of its neighbour has to be one of those of the      *)
(* cluster's multiplexers (demultiplexers), else .index raises.            *)
(***************************************************************************)
Alternates(g, v, N, order, first, times) ==
  LET q == Merged(order, g.son[v], StateOf(g, N))
      mine == {i \in DOMAIN q : i % 2 = IF first THEN 1 ELSE 0}
  IN  \A i \in mine :
        LET j == IF first THEN i + 1 ELSE i - 1
        IN  /\ q[i] \in {StateOf(g, N)[n] : n \in N}
            /\ j \in DOMAIN q /\ q[j] \in times

InTurn(g, v, N, order, first) ==
  LET q == Merged(order, g.son[v], StateOf(g, N))
      mine == SelectSeq([i \in DOMAIN q |-> i], LAMBDA i : i % 2 = IF first THEN 1 ELSE 0)
  IN  WithoutRepetitions([i \in DOMAIN mine |-> FirstIn(g, N, q[mine[i]])])

\* Faulty: the inputs as they are listed.
InputsAsListed(g, x, order) == InOrder(Sources(g, x))

Inputs(g, x, order) == InTurn(g, x, Sources(g, x), order, TRUE)
Outputs(g, d, order) == InTurn(g, d, Users(g, d), order, FALSE)

SameNumber(g, N, count) == \A n \in N : Cardinality(g.son[n]) = count

Copies(g, C) == Cardinality(g.son[CHOOSE x \in Muxes(g, C) : TRUE])

\* Every check, index and lookup on the way to the copies succeeds.
CanUnshare(g, C, order) ==
  LET X == Muxes(g, C)
      D == Demuxes(g, C)
  IN  /\ X # {} /\ X \cup D \subseteq Nodes(g) \cap DOMAIN g.son
      /\ Copies(g, C) > 1
      /\ SameNumber(g, X, Copies(g, C))
      /\ \E k \in 1..Cardinality(DOMAIN order) : SameNumber(g, D, k)
      /\ \A x \in X : /\ OneStateEach(g, Sources(g, x))
                      /\ Alternates(g, x, Sources(g, x), order, TRUE, StatesOfAll(g, X))
                      /\ Len(Inputs(g, x, order)) >= Copies(g, C)
      /\ \A d \in D : /\ OneStateEach(g, Users(g, d))
                      /\ Alternates(g, d, Users(g, d), order, FALSE, StatesOfAll(g, D))
                      /\ Len(Outputs(g, d, order)) >= Copies(g, C)
                      /\ Cardinality(g.son[d]) >= Copies(g, C)
      /\ SameNumber(g, C, Copies(g, C))

----------------------------------------------------------------------------
(* The copies.                                                             *)

\* get the first edge from n to m
EdgeKey(g, n, m) == (CHOOSE e \in g.edges : e[1] = n /\ e[2] = m)[3]


\* A variable for copy i of the multiplexer x of n, fed by the i-th input.
WithInput(g, f, x, n, i, order, var) ==
  LET a == Inputs(g, x, order)[i]
  IN  WithEdges(g, {<<a, var, EdgeKey(g, a, x)>>, <<var, f[n], EdgeKey(g, x, n)>>})

\* A variable for copy i of the demultiplexer d of n, used by the i-th use.
WithOutput(g, f, d, n, i, order, var) ==
  LET u == Outputs(g, d, order)[i]
  IN  WithEdges(g, {<<f[n], var, EdgeKey(g, n, d)>>, <<var, u, EdgeKey(g, d, u)>>})

(***************************************************************************)
(* Copy i of the cluster C executes in the i-th state of each of its       *)
(* nodes.  Its edges from multiplexers and to demultiplexers are made      *)
(* anew; those from values are not.                                        *)
(***************************************************************************)
WithCopy(g, C, X, D, i, order) ==
  LET f == FreshFor(g, C)
      g1 == WithCopies(g, f)
      turn(n) == InTime(order, g.son[n])[i]
      original(c) == CHOOSE n \in C : f[n] = c
      g2 == WithSon(g1, [c \in {f[n] : n \in C} |-> {turn(original(c))}])
      border == {p \in (X \X C) \cup (C \X D) : \E e \in g.edges : <<e[1], e[2]>> = p}
      connect(p, h) ==
        LET var == FirstFree(h)
            v == IF p[1] \in X THEN p[1] ELSE p[2]
            h1 == WithSon(WithNodes(h, var :> <<"var", g.label[v]>>), var :> {turn(v)})
        IN  IF p[1] \in X THEN WithInput(h1, f, p[1], p[2], i, order, var)
            ELSE WithOutput(h1, f, p[2], p[1], i, order, var)
  IN  FoldSet(connect, g2, border)

AllCopies(g, C, X, D, order) ==
  FoldLeft(LAMBDA h, i : WithCopy(h, C, X, D, i, order), g, [i \in 1..Copies(g, C) |-> i])

Unshare(g, C, X, D, order) ==
  IF g.error # "" THEN g
  ELSE IF ~CanUnshare(g, C, order) THEN Fail(g, "unshare")
  ELSE Without(AllCopies(g, C, X, D, order), C \cup X \cup D)

\* The clusters and their borders are those of the graph at the start.
UnshareResources(g, order) ==
  Checked(FoldSet(LAMBDA C, h : Unshare(h, C, Muxes(g, C), Demuxes(g, C), order),
                  g, SharedClusters(g)), TRUE)
=============================================================================
