------------------------ MODULE MemoryClassification ------------------------
(***************************************************************************)
(* Step_3_1.classify_memory_nodes: a memory is replaced by one load for    *)
(* all the states in which it is enabled and not written, and by one store *)
(* for each state in which it is written, with copies of the assignments   *)
(* to its ports.                                                           *)
(***************************************************************************)
EXTENDS DataFlow

\* The ports of a memory, keys of the edges into it.
EnablePort == 0
AddressPort == 1
WritePort == 2
DataPort == 3

\* The assignments of the literal 1 to the port variable v, and their states.
Setting(g, v) ==
  {a \in Sources(g, v) : g.kind[ValueOf(g, a)] = "const" /\ g.label[ValueOf(g, a)] = 1}
StatesSetting(g, v) == StatesOfAll(g, Setting(g, v))

EnableStates(g, m) == StatesSetting(g, Operand(g, m, EnablePort))

StoreStates(g, m) ==
  IF HasOperand(g, m, WritePort) /\ HasOperand(g, m, DataPort)
  THEN EnableStates(g, m) \cap StatesSetting(g, Operand(g, m, WritePort))
  ELSE {}

LoadStates(g, m) == EnableStates(g, m) \ StoreStates(g, m)

\* The nodes whose states are looked up without a default.
LookedUp(g, m) ==
  LET withSources(k) == {Operand(g, m, k)} \cup Sources(g, Operand(g, m, k))
  IN  (IF HasOperand(g, m, WritePort) /\ HasOperand(g, m, DataPort)
       THEN Setting(g, Operand(g, m, WritePort)) ELSE {})
        \cup (IF EnableStates(g, m) # {} THEN withSources(AddressPort) ELSE {})
        \cup (IF StoreStates(g, m) # {} THEN withSources(DataPort) ELSE {})

AssignmentsIn(g, v, S) == {a \in Sources(g, v) : g.son[a] \cap S # {}}

\* Copies f of nodes of the graph; those of A, assignments, keep the values
\* they assign, all are restricted to the states S, the ports P are kept.
WithPortCopies(g, f, A, P, S) ==
  LET copied == WithEdges(WithCopies(g, f),
                  {<<e[1], f[e[2]], e[3]>> : e \in {d \in g.edges : d[2] \in A}})
      N == {f[n] : n \in DOMAIN f}
      original(c) == CHOOSE n \in DOMAIN f : f[n] = c
  IN  [WithSon(copied, [c \in N |-> StatesOfAll(g, {original(c)}) \cap S])
         EXCEPT !.keep = @ \cup {f[p] : p \in P}]

\* Only the assignment and the variable that read m, or not even these.
HasNoUsers(g, m) == Cardinality(Descendants(g.edges, m)) = 2

\* What m loads is assigned in the states S of the load.
WithLoad(g, m, S) ==
  LET p == Operand(g, m, AddressPort)
      A == AssignmentsIn(g, p, S)
      f == FreshFor(g, {m, p} \cup A)
      g1 == WithPortCopies(g, f, A, {p}, S)
      readers == Users(g, m)
      g2 == WithEdges(g1, {<<f[m], e[2], e[3]>> : e \in OutEdges(g, m)})
      g3 == WithSon(g2, [n \in {f[m]} \cup readers \cup UNION {Users(g, r) : r \in readers} |-> S])
      g4 == [g3 EXCEPT !.kind[f[m]] = "load"]
  IN  IF HasNoUsers(g, m)
      THEN Without(g4, {f[n] : n \in DOMAIN f} \cup Descendants(g4.edges, f[m]))
      ELSE g4

WithoutReaders(g, m) ==
  IF HasNoUsers(g, m) THEN Without(g, Descendants(g.edges, m)) ELSE g

\* How many assignments to v there are in the states S, one by one.
Assigned(g, v, S) ==
  Cardinality({d \in Sources(g, v) \X S : d[2] \in g.son[d[1]]})

WithStore(g, m, s) ==
  LET p == Operand(g, m, AddressPort)
      d == Operand(g, m, DataPort)
      A == AssignmentsIn(g, p, {s})
      D == AssignmentsIn(g, d, {s})
      f == FreshFor(g, {m, p, d} \cup A \cup D)
      g1 == WithSon(WithPortCopies(g, f, A \cup D, {p, d}, {s}), (f[m] :> {s}))
  IN  IF g.error # "" THEN g
      ELSE IF Cardinality(A) # 1 \/ Cardinality(D) # 1 THEN Fail(g, "store assignments")
      ELSE [g1 EXCEPT !.kind[f[m]] = "store"]

\* Faulty: one store, in one of the states, stands for all.
WithOneStore(g, m, S) == WithStore(g, m, CHOOSE s \in S : TRUE)

WithStores(g, m, S) ==
  IF \E k \in {AddressPort, DataPort} : Assigned(g, Operand(g, m, k), S) # Cardinality(S)
  THEN Fail(g, "store assignments")
  ELSE FoldLeft(LAMBDA h, s : WithStore(h, m, s), g, InOrder(S))

\* The memory, its ports and all assignments to them go.
WithoutMemory(g, m) ==
  Without(g, {m} \cup Sources(g, m) \cup UNION {Sources(g, p) : p \in Sources(g, m)})

ClassifyMemory(g, m) ==
  LET L == LoadStates(g, m)
      S == StoreStates(g, m)
      g1 == IF L # {} THEN WithLoad(g, m, L) ELSE WithoutReaders(g, m)
      g2 == IF S # {} THEN WithStores(g1, m, S) ELSE g1
  IN  IF g.error # "" THEN g
      ELSE IF ~LookedUp(g, m) \subseteq DOMAIN g.son THEN Fail(g, "no states")
      ELSE IF g2.error # "" THEN g2
      ELSE WithoutMemory(g2, m)

ClassifyMemoryNodes(g) ==
  LET g1 == FoldLeft(ClassifyMemory, g, InOrder(OfKind(g, "memory")))
  IN  Checked(g1, VariablesAreUnionsIn(g1))
=============================================================================
