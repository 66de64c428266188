----------------------- MODULE StateAssociationProofs -----------------------
(***************************************************************************)
(* Proofs about associate_operations_with_states for every graph.  The     *)
(* backward refinement writes the union of what a node shares with each of *)
(* its users, so it never drops a state that a user kept, whatever the     *)
(* order; and the sources of every node that changed are on the worklist.  *)
(* Further down: what the backward propagation computes, that an operator  *)
(* covers the uses of its value, and that a load arrives after it was      *)
(* enabled.  The last two need that the forward pass stays away from the   *)
(* nodes whose value reaches a guarded assignment: they have states when   *)
(* it begins.                                                              *)
(***************************************************************************)
EXTENDS StateAssociation, TLAPS

\* What NothingForgotten says of one node, in each of the two passes.
Settled(n) == Refined(n) = StatesOf(states, n, State)
Taught(n) == Propagated(n) \in {StatesOf(states, n, {}), {}}

----------------------------------------------------------------------------
(* Functions on some of the nodes, and neighbours.                         *)

LEMMA WithStatesValue ==
  ASSUME NEW f, NEW n, NEW S, NEW m, NEW d
  PROVE  StatesOf(WithStates(f, n, S), m, d) = IF m = n THEN S ELSE StatesOf(f, m, d)
BY DEF StatesOf, WithStates

LEMMA UsersSources ==
  ASSUME NEW n, NEW u
  PROVE  u \in Users(n) <=> n \in Sources(u)
BY DEF Users, Sources, Succs, Preds

LEMMA ValueUsersAreUsers ==
  ASSUME NEW n
  PROVE  ValueUsers(n) \subseteq Users(n)
BY DEF ValueUsers, Users, Edges, Succs

\* A refinement is what it was, or the union of what is shared.
LEMMA RefinedCases ==
  ASSUME NEW n
  PROVE  \/ Refined(n) = StatesOf(states, n, State)
         \/ /\ Refined(n) = UNION PerUse(n)
            /\ UNION PerUse(n) # {}
            /\ {} \notin PerUse(n)
BY DEF Refined

LEMMA PerUseMember ==
  ASSUME NEW n, NEW s
  PROVE  s \in UNION PerUse(n) <=>
           /\ s \in StatesOf(states, n, State)
           /\ \E u \in Users(n) : s \in StatesOf(states, u, State)
BY DEF PerUse

----------------------------------------------------------------------------
(* One node is refined.                                                    *)

\* The effect of Refine on the states of any node.
LEMMA RefineEffect ==
  ASSUME NEW n, Refine(n), NEW m
  PROVE  \/ /\ m = n /\ n \in Data \ Ignored
            /\ StatesOf(states', m, State) = UNION PerUse(n)
            /\ UNION PerUse(n) # {} /\ {} \notin PerUse(n)
            /\ worklist' = (worklist \ {n}) \cup Sources(n)
         \/ StatesOf(states', m, State) = StatesOf(states, m, State)
<1>1. CASE n \in Data \ Ignored /\ Refined(n) # StatesOf(states, n, State)
  <2>1. states' = WithStates(states, n, Refined(n))
    BY <1>1 DEF Refine
  <2>2. StatesOf(states', m, State) = IF m = n THEN Refined(n) ELSE StatesOf(states, m, State)
    BY <2>1, WithStatesValue
  <2> QED
    BY <1>1, <2>2, RefinedCases DEF Refine, WokenByRefine
<1>2. CASE ~(n \in Data \ Ignored /\ Refined(n) # StatesOf(states, n, State))
  BY <1>2 DEF Refine
<1> QED
  BY <1>1, <1>2

LEMMA RefineShrinks ==
  ASSUME NEW n, Refine(n), NEW m
  PROVE  /\ StatesOf(states', m, State) \subseteq StatesOf(states, m, State)
         /\ StatesOf(states', m, State) = {} => StatesOf(states, m, State) = {}
BY RefineEffect, PerUseMember

LEMMA RefineKeepsUses ==
  ASSUME NoUseLost, NEW n, Refine(n)
  PROVE  NoUseLost'
<1>1. /\ Refining /\ Refining' /\ before' = before /\ graph' = graph
      /\ Data' = Data /\ Ignored' = Ignored /\ \A m : Users(m)' = Users(m)
  BY DEF Refine, Refining, Data, Memories, Ignored, Users, Edges
<1> SUFFICES ASSUME NEW m \in Data \ Ignored, NEW u \in Users(m), NEW s,
                    s \in StatesOf(before, m, State), s \in StatesOf(states', u, State)
             PROVE  s \in StatesOf(states', m, State)
  BY <1>1 DEF NoUseLost
<1>2. s \in StatesOf(states, u, State)
  BY RefineShrinks
<1>3. s \in StatesOf(states, m, State)
  BY <1>1, <1>2 DEF NoUseLost
<1> QED
  BY <1>2, <1>3, RefineEffect, PerUseMember

\* A node whose own states and users' states did not change is as settled as
\* it was.
LEMMA PerUseUnchanged ==
  ASSUME NEW m, Users(m)' = Users(m),
         StatesOf(states', m, State) = StatesOf(states, m, State),
         \A u \in Users(m) : StatesOf(states', u, State) = StatesOf(states, u, State)
  PROVE  Refined(m)' = Refined(m)
<1>1. PerUse(m)' = PerUse(m)
  BY DEF PerUse
<1> QED
  BY <1>1 DEF Refined

LEMMA RefineSettles ==
  ASSUME Refining, NEW n, Refine(n),
         \A m \in Data \ (Ignored \cup worklist) : Settled(m)
  PROVE  \A m \in Data \ (Ignored \cup worklist') : Settled(m)'
<1>1. /\ graph' = graph /\ \A m : Users(m)' = Users(m)
  BY DEF Refine, Users, Edges
<1> SUFFICES ASSUME NEW m \in Data \ Ignored, m \notin worklist'
             PROVE  Refined(m)' = StatesOf(states', m, State)
  BY DEF Settled
<1>2. CASE m # n
  <2>1. m \notin worklist
    BY <1>2 DEF Refine
  <2>2. StatesOf(states', m, State) = StatesOf(states, m, State)
    BY <1>2, RefineEffect
  <2>3. ASSUME NEW u \in Users(m)
        PROVE  StatesOf(states', u, State) = StatesOf(states, u, State)
    <3>1. m \in Sources(u)
      BY UsersSources
    <3> QED
      BY <3>1, RefineEffect
  <2>4. Refined(m)' = Refined(m)
    BY <1>1, <2>2, <2>3, PerUseUnchanged
  <2> QED
    BY <2>1, <2>2, <2>4 DEF Settled
<1>3. CASE m = n /\ Refined(n) = StatesOf(states, n, State)
  <2>1. states' = states
    BY <1>3 DEF Refine
  <2> QED
    BY <1>1, <1>3, <2>1, PerUseUnchanged
<1>4. CASE m = n /\ Refined(n) # StatesOf(states, n, State)
  <2>1. /\ states' = WithStates(states, n, Refined(n))
        /\ worklist' = (worklist \ {n}) \cup Sources(n)
    BY <1>4 DEF Refine, WokenByRefine
  <2>2. n \notin Users(n)
    BY <1>4, <2>1, UsersSources
  <2>3. /\ StatesOf(states', n, State) = Refined(n)
        /\ \A u \in Users(n) : StatesOf(states', u, State) = StatesOf(states, u, State)
    BY <2>1, <2>2, WithStatesValue
  <2>4. Refined(n) = UNION PerUse(n) /\ UNION PerUse(n) # {} /\ {} \notin PerUse(n)
    BY <1>4, RefinedCases
  <2>5. PerUse(n)' = PerUse(n)
    <3>1. \A u \in Users(n) :
            StatesOf(states', n, State) \cap StatesOf(states', u, State)
              = StatesOf(states, n, State) \cap StatesOf(states, u, State)
      BY <2>3, <2>4, PerUseMember
    <3> QED
      BY <1>1, <3>1 DEF PerUse
  <2>6. Refined(n)' = UNION PerUse(n)
    BY <2>4, <2>5 DEF Refined
  <2> QED
    BY <1>4, <2>3, <2>4, <2>6
<1> QED
  BY <1>2, <1>3, <1>4

----------------------------------------------------------------------------
(* One node is reached by the backward propagation (without memories).     *)

LEMMA PropagatedPlain ==
  ASSUME Memories = {}, TypeOK, NEW n \in Data
  PROVE  Propagated(n) = UNION {StatesOf(states, u, {}) : u \in ValueUsers(n)}
BY DEF Propagated, Narrowed, StatesOfAll, Memories, Data

LEMMA BackpropagateTeaches ==
  ASSUME Memories = {}, TypeOK, TypeOK', NEW n, Backpropagate(n),
         \A m \in Data \ (Seeded \cup worklist) : Taught(m)
  PROVE  \A m \in Data \ (Seeded \cup worklist') : Taught(m)'
<1>1. /\ graph' = graph /\ Memories' = {} /\ Data' = Data
      /\ \A m : ValueUsers(m)' = ValueUsers(m)
  BY DEF Backpropagate, Memories, Data, ValueUsers
<1> SUFFICES ASSUME NEW m \in Data \ Seeded, m \notin worklist'
             PROVE  Propagated(m)' \in {StatesOf(states', m, {}), {}}
  BY DEF Taught
<1>2. /\ Propagated(m) = UNION {StatesOf(states, u, {}) : u \in ValueUsers(m)}
      /\ Propagated(m)' = UNION {StatesOf(states', u, {}) : u \in ValueUsers(m)}
  <2>1. (Propagated(m) = UNION {StatesOf(states, u, {}) : u \in ValueUsers(m)})'
    BY <1>1, PropagatedPlain
       DEF Propagated, Narrowed, StatesOfAll, Memories, Data
  <2> QED
    BY <1>1, <2>1, PropagatedPlain
<1>3. CASE ~Learns(n)
  <2>1. states' = states /\ worklist' = worklist \ {n}
    BY <1>3 DEF Backpropagate
  <2>2. Propagated(m)' = Propagated(m)
    BY <1>2, <2>1
  <2>3. Taught(m)
    BY <1>3, <2>1 DEF Learns, Taught
  <2> QED
    BY <2>1, <2>2, <2>3 DEF Taught
<1>4. CASE Learns(n)
  <2>1. /\ states' = WithStates(states, n, Propagated(n))
        /\ worklist' = (worklist \ {n}) \cup (Sources(n) \cap Data)
    BY <1>4 DEF Backpropagate, Woken
  <2>2. n \notin ValueUsers(m)
    BY <2>1, UsersSources, ValueUsersAreUsers
  <2>3. \A u \in ValueUsers(m) : StatesOf(states', u, {}) = StatesOf(states, u, {})
    BY <2>1, <2>2, WithStatesValue
  <2>4. Propagated(m)' = Propagated(m)
    BY <1>2, <2>3
  <2>5. CASE m = n
    BY <2>1, <2>4, <2>5, WithStatesValue
  <2>6. CASE m # n
    <3>1. Taught(m) /\ StatesOf(states', m, {}) = StatesOf(states, m, {})
      BY <2>1, <2>6, WithStatesValue
    <3> QED
      BY <2>4, <3>1 DEF Taught
  <2> QED
    BY <2>5, <2>6
<1> QED
  BY <1>3, <1>4

----------------------------------------------------------------------------
(* Types.                                                                  *)

Typed(f) == DOMAIN f \subseteq Data /\ \A n \in DOMAIN f : f[n] \subseteq State

LEMMA StatesOfType ==
  ASSUME NEW f, Typed(f), NEW n, NEW d, d \subseteq State
  PROVE  StatesOf(f, n, d) \subseteq State
BY DEF Typed, StatesOf

LEMMA StatesOfAllType ==
  ASSUME NEW f, Typed(f), NEW N
  PROVE  StatesOfAll(f, N) \subseteq State
<1>1. \A n \in N : StatesOf(f, n, {}) \subseteq State
  BY StatesOfType
<1> QED
  BY <1>1 DEF StatesOfAll

LEMMA WithStatesType ==
  ASSUME NEW f, Typed(f), NEW n \in Data, NEW S, S \subseteq State
  PROVE  Typed(WithStates(f, n, S))
BY DEF Typed, WithStates

LEMMA OverriddenType ==
  ASSUME NEW f, Typed(f), NEW N, N \subseteq Data, NEW S, S \subseteq State
  PROVE  Typed(Overridden(f, N, S)) /\ Typed(Completed(f, N, S))
BY DEF Typed, Overridden, Completed

LEMMA UnionVariablesType ==
  ASSUME NEW f, Typed(f)
  PROVE  Typed(UnionVariables(f))
<1>1. \A N : StatesOfAll(f, N) \subseteq State
  BY StatesOfAllType
<1> DEFINE ready == {v \in Data : graph.kind[v] = "variable" /\ Sources(v) \subseteq DOMAIN f}
<1>2. ready \subseteq Data
  OBVIOUS
<1>3. UnionVariables(f) = [n \in DOMAIN f \cup ready |->
                             IF n \in ready THEN StatesOfAll(f, Sources(n)) ELSE f[n]]
  BY DEF UnionVariables
<1> HIDE DEF ready
<1> QED
  BY <1>1, <1>2, <1>3 DEF Typed

LEMMA NeighboursAreNodes ==
  ASSUME IsGraph(graph), NEW n
  PROVE  /\ Sources(n) \subseteq Node /\ Users(n) \subseteq Node
         /\ ValueUsers(n) \subseteq Node
BY DEF IsGraph, Sources, Users, ValueUsers, Edges, Succs, Preds

LEMMA MemoryNeighbours ==
  ASSUME IsGraph(graph), NEW m \in Memories
  PROVE  LET p == graph.ports[m]
         IN  /\ m \in Data
             /\ p.enable \in Data /\ p.address \in Data
             /\ Sources(p.enable) \subseteq Data /\ Sources(p.address) \subseteq Data
             /\ Users(m) \subseteq Data
             /\ \A a \in Users(m) : Users(a) \subseteq Data
             /\ Writable(m) =>
                  /\ p.writeEnable \in Data /\ p.data \in Data
                  /\ Sources(p.writeEnable) \subseteq Data /\ Sources(p.data) \subseteq Data
<1> DEFINE p == graph.ports[m]
           ports == {p.enable, p.address, p.writeEnable, p.data} \ {None}
<1>1. /\ m \in Data /\ m \in DOMAIN graph.ports /\ p \in Ports
      /\ \A n \in NearMemory(graph, m) : graph.kind[n] # "control"
  BY DEF IsGraph, Memories, Data
<1>2. NearMemory(graph, m) = ports \cup (UNION {Sources(v) : v \in ports})
        \cup Users(m) \cup (UNION {Users(a) : a \in Users(m)})
  BY DEF NearMemory, PortsOf, Sources, Users, Edges
<1>3. p.enable \in Node /\ p.address \in Node /\ None \notin Node
  BY <1>1, GraphsAssumption DEF Ports
<1>4. p.enable \in ports /\ p.address \in ports
  BY <1>3
<1>5. Writable(m) => /\ p.writeEnable \in ports /\ p.data \in ports
                     /\ p.writeEnable \in Node /\ p.data \in Node
  BY <1>1 DEF Writable, Ports
<1> HIDE DEF ports
<1>6. \A v \in ports : v \in NearMemory(graph, m) /\ Sources(v) \subseteq NearMemory(graph, m)
  BY <1>2
<1> HIDE DEF p
<1>7. /\ Users(m) \subseteq NearMemory(graph, m)
      /\ \A a \in Users(m) : Users(a) \subseteq NearMemory(graph, m)
  <2>1. Users(m) \subseteq NearMemory(graph, m)
    BY <1>2
  <2>2. ASSUME NEW a \in Users(m), NEW u \in Users(a)
        PROVE  u \in NearMemory(graph, m)
    <3>1. u \in UNION {Users(b) : b \in Users(m)}
      BY <2>2
    <3> QED
      BY <1>2, <3>1
  <2> QED
    BY <2>1, <2>2
<1>8. \A n \in NearMemory(graph, m) \cap Node : n \in Data
  BY <1>1 DEF Data
<1>9. \A v \in ports \cap Node : v \in Data /\ Sources(v) \subseteq Data
  BY <1>6, <1>8, NeighboursAreNodes
<1>10. /\ Users(m) \subseteq Data
       /\ \A a \in Users(m) : Users(a) \subseteq Data
  BY <1>7, <1>8, NeighboursAreNodes
<1> QED
  BY <1>1, <1>3, <1>4, <1>5, <1>9, <1>10 DEF p

LEMMA WithWritesType ==
  ASSUME IsGraph(graph), NEW m \in Memories, Writable(m), NEW f, Typed(f),
         NEW S, S \subseteq State, NEW T, T \subseteq State
  PROVE  Typed(WithWrites(f, m, S, T))
<1> DEFINE p == graph.ports[m]
           f1 == Overridden(f, {p.data, p.writeEnable}, T)
           f2 == Overridden(f1, WriteEnabling(m), T)
           f3 == Overridden(f2, Sources(p.writeEnable) \ WriteEnabling(m), S \ T)
<1>1. /\ {p.data, p.writeEnable} \subseteq Data
      /\ Sources(p.writeEnable) \subseteq Data /\ Sources(p.data) \subseteq Data
  BY MemoryNeighbours
<1>2. WriteEnabling(m) \subseteq Data
  BY <1>1 DEF WriteEnabling, SettingToOne
<1> HIDE DEF p
<1>3. Typed(f1)
  BY <1>1, OverriddenType
<1> HIDE DEF f1
<1>4. Typed(f2)
  BY <1>2, <1>3, OverriddenType
<1> HIDE DEF f2
<1>5. Typed(f3)
  <2>1. Sources(p.writeEnable) \ WriteEnabling(m) \subseteq Data /\ S \ T \subseteq State
    BY <1>1
  <2> QED
    BY <1>4, <2>1, OverriddenType
<1> HIDE DEF f3
<1>6. Typed(Completed(f3, Sources(p.data), T))
  BY <1>1, <1>5, OverriddenType
<1> QED
  BY <1>6 DEF WithWrites, p, f1, f2, f3

LEMMA WithLoadsType ==
  ASSUME IsGraph(graph), NEW m \in Memories, NEW f, Typed(f),
         NEW S, S \subseteq State, NEW L
  PROVE  Typed(WithLoads(f, m, S, L))
<1> DEFINE p == graph.ports[m]
           arriving == UNION {Succs(graph.fsm, s) : s \in L}
           arrived == Users(m) \cup UNION {Users(a) : a \in Users(m)}
           f1 == Overridden(f, {p.enable, p.address, m}, S)
           f2 == Completed(f1, Sources(p.address) \cup Sources(p.enable), S)
<1>1. /\ {p.enable, p.address, m} \subseteq Data
      /\ Sources(p.address) \cup Sources(p.enable) \subseteq Data
      /\ arrived \subseteq Data
  BY MemoryNeighbours
<1>2. arriving \subseteq State
  <2>1. \A s : Succs(graph.fsm, s) \subseteq State
    BY DEF IsGraph, Succs
  <2> QED
    BY <2>1
<1> HIDE DEF p, arriving, arrived
<1>3. Typed(f1)
  BY <1>1, OverriddenType
<1> HIDE DEF f1
<1>4. Typed(f2)
  BY <1>1, <1>3, OverriddenType
<1> HIDE DEF f2
<1>5. Typed(Overridden(f2, arrived, arriving))
  BY <1>1, <1>2, <1>4, OverriddenType
<1> QED
  BY <1>5 DEF WithLoads, p, arriving, arrived, f1, f2

----------------------------------------------------------------------------
(* The invariant.                                                          *)

IInv ==
  /\ TypeOK
  /\ NoUseLost
  /\ NothingForgotten
  /\ VariablesAreUnions

LEMMA TypedStates ==
  ASSUME IsGraph(graph)
  PROVE  /\ DOMAIN states \subseteq Data
         /\ \A n \in DOMAIN states : states[n] \subseteq State
         <=> Typed(states)
BY DEF Typed

\* NoUseLost, NothingForgotten and VariablesAreUnions say nothing outside the
\* passes they are about.
LEMMA Elsewhere ==
  ASSUME TypeOK', pc' \notin {"backpropagate", "refine", "refine_memories", "returned"}
  PROVE  IInv'
BY DEF IInv, NoUseLost, NothingForgotten, VariablesAreUnions, Refining

LEMMA InitIInv == Init => IInv
<1> SUFFICES ASSUME Init PROVE IInv
  OBVIOUS
<1>1. IsGraph(graph) /\ pc = "backpropagate" /\ memories = {} /\ before = states
  BY GraphsAssumption DEF Init
<1>2. TypeOK
  <2>1. DOMAIN states \subseteq Data /\ \A n \in DOMAIN states : states[n] \subseteq State
    <3>1. \A n \in Seeded : graph.seeds[n] \subseteq State
      BY <1>1 DEF IsGraph, Seeded
    <3>2. states = [n \in Seeded \cap Data |-> graph.seeds[n]]
      BY DEF Init
    <3> QED
      BY <3>1, <3>2
  <2>2. worklist \subseteq Node
    <3>1. \A n : Sources(n) \subseteq Node
      BY <1>1, NeighboursAreNodes
    <3> QED
      BY <3>1 DEF Init
  <2> QED
    BY <1>1, <2>1, <2>2 DEF TypeOK
<1>3. ASSUME Memories = {}, NEW n \in Data \ (Seeded \cup worklist)
      PROVE  Taught(n)
  <2>1. \A u \in ValueUsers(n) : u \notin Seeded
    <3> SUFFICES ASSUME NEW u \in ValueUsers(n), u \in Seeded PROVE FALSE
      OBVIOUS
    <3>1. n \in Sources(u)
      BY ValueUsersAreUsers, UsersSources
    <3> QED
      BY <3>1 DEF Init
  <2>2. \A u \in ValueUsers(n) : StatesOf(states, u, {}) = {}
    BY <2>1 DEF Init, StatesOf
  <2>3. Propagated(n) = {}
    BY <1>2, <1>3, <2>2, PropagatedPlain
  <2> QED
    BY <2>3 DEF Taught
<1> QED
  BY <1>1, <1>2, <1>3
  DEF IInv, NoUseLost, NothingForgotten, VariablesAreUnions, Refining, Taught

LEMMA BackpropagateStep ==
  ASSUME IInv, NEW n, Backpropagate(n)
  PROVE  IInv'
<1>1. /\ TypeOK /\ pc = "backpropagate" /\ pc' = pc /\ ~Refining'
      /\ UNCHANGED <<graph, memories, before, returns>>
  BY DEF IInv, Backpropagate, Refining
<1>2. /\ Data' = Data /\ Memories' = Memories /\ Seeded' = Seeded
  BY <1>1 DEF Data, Memories, Seeded
<1>3. Typed(states) /\ IsGraph(graph)
  BY <1>1, TypedStates DEF TypeOK
<1>4. TypeOK'
  <2>1. Propagated(n) \subseteq State
    <3>1. \A N : StatesOfAll(states, N) \subseteq State
      BY <1>3, StatesOfAllType
    <3> QED
      BY <3>1 DEF Propagated, Narrowed
  <2>2. Typed(states')
    <3>1. CASE Learns(n)
      BY <1>3, <2>1, <3>1, WithStatesType DEF Learns, Backpropagate
    <3>2. CASE ~Learns(n)
      BY <1>3, <3>2 DEF Backpropagate
    <3> QED
      BY <3>1, <3>2
  <2>3. worklist' \subseteq Node
    BY <1>1 DEF Backpropagate, TypeOK, Woken, Data
  <2> QED
    BY <1>1, <1>2, <2>2, <2>3 DEF TypeOK, Typed
<1>5. Memories = {} => \A m \in Data \ (Seeded \cup worklist') : Taught(m)'
  BY <1>1, <1>4, BackpropagateTeaches DEF IInv, NothingForgotten, Taught
<1> QED
  BY <1>1, <1>2, <1>4, <1>5
  DEF IInv, NoUseLost, NothingForgotten, VariablesAreUnions, Taught

LEMMA RefineStep ==
  ASSUME IInv, NEW n, Refine(n)
  PROVE  IInv'
<1>1. /\ TypeOK /\ Refining /\ Refining' /\ pc' = pc
      /\ pc' # "backpropagate" /\ pc' # "returned"
      /\ UNCHANGED <<graph, memories, before, returns>>
  BY DEF IInv, Refine, Refining
<1>2. /\ Data' = Data /\ Memories' = Memories /\ Ignored' = Ignored
  BY <1>1 DEF Data, Memories, Ignored
<1>3. Typed(states) /\ IsGraph(graph)
  BY <1>1, TypedStates DEF TypeOK
<1>4. TypeOK'
  <2>1. Refined(n) \subseteq State
    <3>1. StatesOf(states, n, State) \subseteq State
      BY <1>3, StatesOfType
    <3> QED
      BY <3>1, RefinedCases, PerUseMember
  <2>2. Typed(states')
    <3>1. CASE n \in Data \ Ignored /\ Refined(n) # StatesOf(states, n, State)
      BY <1>3, <2>1, <3>1, WithStatesType DEF Refine
    <3>2. CASE ~(n \in Data \ Ignored /\ Refined(n) # StatesOf(states, n, State))
      BY <1>3, <3>2 DEF Refine
    <3> QED
      BY <3>1, <3>2
  <2>3. worklist' \subseteq Node
    BY <1>1, <1>3, NeighboursAreNodes DEF Refine, TypeOK, WokenByRefine
  <2> QED
    BY <1>1, <1>2, <2>2, <2>3 DEF TypeOK, Typed
<1>5. NoUseLost'
  BY RefineKeepsUses DEF IInv
<1>6. \A m \in Data \ (Ignored \cup worklist') : Settled(m)'
  BY <1>1, RefineSettles DEF IInv, NothingForgotten, Settled
<1> QED
  BY <1>1, <1>2, <1>4, <1>5, <1>6
  DEF IInv, NothingForgotten, VariablesAreUnions, Settled

\* Every node is on the worklist when a refinement begins.
LEMMA EnterRefineStep ==
  ASSUME TypeOK, NEW f, Typed(f), NEW pass \in {"refine", "refine_memories"},
         EnterRefine(f, pass), graph' = graph, memories' = memories
  PROVE  IInv'
<1>1. /\ states' = f /\ before' = f /\ worklist' = Data /\ pc' = pass
      /\ Data' = Data /\ Memories' = Memories
  BY DEF EnterRefine, Data, Memories
<1>2. TypeOK'
  BY <1>1 DEF TypeOK, Typed, Data
<1>3. NoUseLost'
  BY <1>1 DEF NoUseLost
<1>4. Data \ (Ignored' \cup worklist') = {}
  BY <1>1
<1> QED
  BY <1>1, <1>2, <1>3, <1>4 DEF IInv, NothingForgotten, VariablesAreUnions

LEMMA BackpropagateDoneStep ==
  ASSUME IInv, BackpropagateDone
  PROVE  IInv'
<1>1. /\ TypeOK /\ Typed(UnionVariables(states))
      /\ EnterRefine(UnionVariables(states), "refine")
      /\ graph' = graph /\ memories' = memories
  BY UnionVariablesType, TypedStates DEF IInv, BackpropagateDone, TypeOK
<1> QED
  BY <1>1, EnterRefineStep

LEMMA MemoriesDoneStep ==
  ASSUME IInv, MemoriesDone
  PROVE  IInv'
<1>1. /\ TypeOK /\ Typed(states) /\ EnterRefine(states, "refine_memories")
      /\ graph' = graph /\ memories' = memories
  BY TypedStates DEF IInv, MemoriesDone, TypeOK
<1> QED
  BY <1>1, EnterRefineStep

\* The steps between the passes, and the crashes.
LEMMA OtherSteps ==
  ASSUME IInv, \/ RefineDone
               \/ RefineMemoriesDone
               \/ \E m \in Memories : NoEnablingStates(m) \/ NoWritingStates(m)
  PROVE  IInv'
<1>1. TypeOK /\ IsGraph(graph) /\ graph' = graph /\ states' = states
  BY DEF IInv, TypeOK, RefineDone, RefineMemoriesDone, NoEnablingStates, NoWritingStates
<1>2. Data' = Data /\ Memories' = Memories
  BY <1>1 DEF Data, Memories
<1>3. pc' \in {"memories", "forward", "crashed"}
  BY DEF RefineDone, RefineMemoriesDone, NoEnablingStates, NoWritingStates
<1>4. worklist' \subseteq Node
  <2>1. CASE RefineMemoriesDone
    <3>1. \A n : Users(n) \subseteq Node
      BY <1>1, NeighboursAreNodes
    <3>2. worklist' \subseteq UNION {Users(n) : n \in DOMAIN states}
      BY <2>1 DEF RefineMemoriesDone
    <3> QED
      BY <3>1, <3>2
  <2>2. CASE ~RefineMemoriesDone
    BY <1>1, <2>2 DEF TypeOK, RefineDone, NoEnablingStates, NoWritingStates
  <2> QED
    BY <2>1, <2>2
<1>5. memories' \subseteq Memories
  BY <1>1 DEF TypeOK, RefineDone, RefineMemoriesDone, NoEnablingStates, NoWritingStates
<1>6. TypeOK'
  BY <1>1, <1>2, <1>3, <1>4, <1>5 DEF TypeOK
<1> QED
  BY <1>3, <1>6, Elsewhere

LEMMA MakePreciseStep ==
  ASSUME IInv, NEW m \in Memories, MakePrecise(m)
  PROVE  IInv'
<1>1. /\ TypeOK /\ IsGraph(graph) /\ pc' = "memories"
      /\ graph' = graph /\ worklist' = worklist /\ memories' = memories \ {m}
  BY DEF IInv, TypeOK, MakePrecise
<1>2. Data' = Data /\ Memories' = Memories
  BY <1>1 DEF Data, Memories
<1>3. Typed(states)
  BY <1>1, TypedStates DEF TypeOK
<1> DEFINE enabled == StatesOfAll(states, Enabling(m))
           writing == IF Writable(m) THEN StatesOfAll(states, WriteEnabling(m)) ELSE {}
           written == IF Writable(m) THEN WithWrites(states, m, enabled, writing) ELSE states
<1>4. states' = WithLoads(written, m, enabled, enabled \ writing)
  BY DEF MakePrecise
<1>5. enabled \subseteq State /\ writing \subseteq State
  BY <1>3, StatesOfAllType
<1> HIDE DEF enabled, writing
<1>6. Typed(written)
  BY <1>1, <1>3, <1>5, WithWritesType
<1> HIDE DEF written
<1>7. Typed(states')
  BY <1>1, <1>4, <1>5, <1>6, WithLoadsType
<1>8. TypeOK'
  BY <1>1, <1>2, <1>7 DEF TypeOK, Typed
<1> QED
  BY <1>1, <1>8, Elsewhere

LEMMA WidenStep ==
  ASSUME IInv, NEW n \in worklist, Widen(n)
  PROVE  IInv'
<1>1. TypeOK /\ IsGraph(graph) /\ pc' = "forward" /\ UNCHANGED <<graph, memories>>
  BY DEF IInv, TypeOK, Widen
<1>2. Data' = Data /\ Memories' = Memories /\ Typed(states)
  BY <1>1, TypedStates DEF Data, Memories, TypeOK
<1>3. Widened(n) \subseteq State
  <2>1. StatesOf(states, n, {}) \subseteq State
    BY <1>2, StatesOfType
  <2>2. \A N : StatesOfAll(states, N) \subseteq State
    BY <1>2, StatesOfAllType
  <2> QED
    BY <2>1, <2>2 DEF Widened
<1>4. Typed(states')
  <2>1. CASE Widened(n) # StatesOf(states, n, {})
    <3>1. n \in Data
      BY <2>1 DEF Widened
    <3> QED
      BY <1>2, <1>3, <2>1, <3>1, WithStatesType DEF Widen
  <2>2. CASE Widened(n) = StatesOf(states, n, {})
    BY <1>2, <2>2 DEF Widen
  <2> QED
    BY <2>1, <2>2
<1>5. worklist' \subseteq Node
  BY <1>1, NeighboursAreNodes DEF Widen, TypeOK
<1>6. TypeOK'
  BY <1>1, <1>2, <1>4, <1>5 DEF TypeOK, Typed
<1> QED
  BY <1>1, <1>6, Elsewhere

\* The variables of a graph are set by assignments, inputs by nothing.
LEMMA SourcesOfVariables ==
  ASSUME IsGraph(graph), NEW v \in Data, graph.kind[v] = "variable", NEW a \in Sources(v)
  PROVE  a \in Data /\ graph.kind[a] = "assignment" /\ v \notin graph.inputs
<1>1. \E e \in Edges : e[1] = a /\ e[2] = v
  BY DEF Sources, Preds
<1>2. a \in Node
  BY NeighboursAreNodes
<1>3. graph.kind[a] = "assignment" /\ v \notin graph.inputs
  BY <1>1 DEF IsGraph, Edges
<1> QED
  BY <1>2, <1>3 DEF Data

LEMMA FinishUnions ==
  ASSUME IsGraph(graph), NEW f, NEW v \in Data, graph.kind[v] = "variable",
         Sources(v) # {}, Data \subseteq DOMAIN UnionVariables(f)
  PROVE  LET g == Overridden(UnionVariables(f), graph.inputs, {Start})
         IN  g[v] = StatesOfAll(g, Sources(v))
<1> DEFINE ready == {u \in Data : graph.kind[u] = "variable" /\ Sources(u) \subseteq DOMAIN f}
           h == UnionVariables(f)
           g == Overridden(h, graph.inputs, {Start})
<1>1. h = [n \in DOMAIN f \cup ready |->
             IF n \in ready THEN StatesOfAll(f, Sources(n)) ELSE f[n]]
  BY DEF UnionVariables
<1>2. \A n \in ready : graph.kind[n] = "variable"
  OBVIOUS
<1>3. \A a \in Sources(v) : a \in Data /\ a \notin ready /\ a \notin graph.inputs
  BY SourcesOfVariables DEF IsGraph
<1>4. Sources(v) \subseteq DOMAIN f
  <2> HIDE DEF ready
  <2> QED
    BY <1>1, <1>3
<1>5. v \in ready /\ v \notin graph.inputs
  BY <1>4, SourcesOfVariables
<1> HIDE DEF ready
<1>6. v \in DOMAIN h /\ h[v] = StatesOfAll(f, Sources(v))
  BY <1>1, <1>5
<1>7. \A a \in Sources(v) : a \in DOMAIN h /\ h[a] = f[a]
  BY <1>1, <1>3, <1>4
<1> HIDE DEF h
<1>8. g[v] = h[v]
  BY <1>5, <1>6 DEF Overridden
<1>9. \A a \in Sources(v) : a \in DOMAIN g /\ g[a] = f[a]
  BY <1>3, <1>7 DEF Overridden
<1> HIDE DEF g
<1>10. \A a \in Sources(v) : StatesOf(g, a, {}) = StatesOf(f, a, {})
  BY <1>4, <1>9 DEF StatesOf
<1>11. StatesOfAll(g, Sources(v)) = StatesOfAll(f, Sources(v))
  BY <1>10 DEF StatesOfAll
<1> QED
  BY <1>6, <1>8, <1>11 DEF g, h

LEMMA FinishStep ==
  ASSUME IInv, Finish
  PROVE  IInv'
<1>1. /\ TypeOK /\ IsGraph(graph) /\ pc' \in {"returned", "failed"}
      /\ UNCHANGED <<graph, worklist, memories>>
  BY DEF IInv, TypeOK, Finish
<1>2. Data' = Data /\ Memories' = Memories /\ Typed(states) /\ \A n : Sources(n)' = Sources(n)
  BY <1>1, TypedStates DEF Data, Memories, TypeOK, Sources, Edges
<1> DEFINE w == WithValues(states)
           f == UnionVariables(w)
<1>3. Typed(w)
  BY <1>2, OverriddenType DEF WithValues
<1> HIDE DEF w
<1>4. Typed(f)
  BY <1>3, UnionVariablesType
<1>5. \/ /\ Data \subseteq DOMAIN f
         /\ states' = Overridden(f, graph.inputs, {Start})
      \/ states' = f /\ pc' = "failed"
  BY DEF Finish, w
<1>6. Typed(states')
  <2>1. graph.inputs \subseteq Data /\ {Start} \subseteq State
    BY <1>1, GraphsAssumption DEF IsGraph, Data
  <2> HIDE DEF f
  <2> QED
    BY <1>4, <1>5, <2>1, OverriddenType
<1>7. TypeOK'
  BY <1>1, <1>2, <1>6 DEF TypeOK, Typed
<1>8. VariablesAreUnions'
  <2> SUFFICES ASSUME pc' = "returned", NEW v \in Data, graph.kind[v] = "variable",
                      Sources(v) # {}
               PROVE  states'[v] = StatesOfAll(states', Sources(v))
    BY <1>1, <1>2 DEF VariablesAreUnions, StatesOfAll
  <2>1. Data \subseteq DOMAIN f /\ states' = Overridden(f, graph.inputs, {Start})
    BY <1>5
  <2> QED
    BY <1>1, <2>1, FinishUnions
<1> QED
  BY <1>1, <1>7, <1>8 DEF IInv, NoUseLost, NothingForgotten, Refining

LEMMA StepIInv == IInv /\ [Next]_vars => IInv'
<1> SUFFICES ASSUME IInv, [Next]_vars PROVE IInv'
  OBVIOUS
<1>1. CASE \E n \in worklist : Backpropagate(n)
  BY <1>1, BackpropagateStep
<1>2. CASE \E n \in worklist : Refine(n)
  BY <1>2, RefineStep
<1>3. CASE \E n \in worklist : Widen(n)
  BY <1>3, WidenStep
<1>4. CASE \/ RefineDone
           \/ RefineMemoriesDone
           \/ \E m \in Memories : NoEnablingStates(m) \/ NoWritingStates(m)
  BY <1>4, OtherSteps
<1>5. CASE \E m \in Memories : MakePrecise(m)
  BY <1>5, MakePreciseStep
<1>6. CASE BackpropagateDone
  BY <1>6, BackpropagateDoneStep
<1>7. CASE MemoriesDone
  BY <1>7, MemoriesDoneStep
<1>8. CASE Finish
  BY <1>8, FinishStep
<1>9. CASE UNCHANGED vars
  <2>1. /\ graph' = graph /\ states' = states /\ worklist' = worklist
        /\ memories' = memories /\ before' = before /\ pc' = pc
    BY <1>9 DEF vars
  <2>2. TypeOK'
    BY <2>1 DEF IInv, TypeOK, Data, Memories
  <2>3. NoUseLost'
    BY <2>1 DEF IInv, NoUseLost, Refining, Data, Ignored, Memories, Users, Edges
  <2>4. /\ Refining' = Refining /\ Data' = Data /\ Ignored' = Ignored
        /\ Memories' = Memories /\ Seeded' = Seeded
    BY <2>1 DEF Refining, Data, Ignored, Memories, Seeded
  <2>5. ASSUME NEW n PROVE Refined(n)' = Refined(n)
    BY <2>1 DEF Refined, PerUse, Users, Edges
  <2>6. ASSUME NEW n PROVE Propagated(n)' = Propagated(n)
    BY <2>1 DEF Propagated, Narrowed, ValueUsers, Enabling, SettingToOne, Sources, Edges,
       StatesOfAll
  <2>7. NothingForgotten'
    BY <2>1, <2>4, <2>5, <2>6 DEF IInv, NothingForgotten
  <2>8. VariablesAreUnions'
    BY <2>1 DEF IInv, VariablesAreUnions, Data, Sources, Edges, StatesOfAll
  <2> QED
    BY <2>2, <2>3, <2>7, <2>8 DEF IInv
<1> QED
  BY <1>1, <1>2, <1>3, <1>4, <1>5, <1>6, <1>7, <1>8, <1>9 DEF Next

LEMMA Invariance == Safety => []IInv
<1>1. Init => IInv
  BY InitIInv
<1>2. IInv /\ [Next]_vars => IInv'
  BY StepIInv
<1> QED
  BY <1>1, <1>2, PTL DEF Safety

----------------------------------------------------------------------------
(* The KeyErrors.  A guarded assignment gets its states at the beginning,  *)
(* and no pass takes a node out of states_of_nodes.                        *)

SeededHaveStates == Seeded \cap Data \subseteq DOMAIN states

CrashInv == SeededHaveStates /\ CrashNeedsUnconditionalEnable

LEMMA WithWritesGrows ==
  ASSUME NEW f, NEW m, NEW S, NEW T
  PROVE  DOMAIN f \subseteq DOMAIN WithWrites(f, m, S, T)
BY DEF WithWrites, Completed, Overridden

LEMMA WithLoadsGrows ==
  ASSUME NEW f, NEW m, NEW S, NEW T
  PROVE  DOMAIN f \subseteq DOMAIN WithLoads(f, m, S, T)
BY DEF WithLoads, Completed, Overridden

LEMMA UnionVariablesGrows ==
  ASSUME NEW f
  PROVE  DOMAIN f \subseteq DOMAIN UnionVariables(f)
BY DEF UnionVariables

LEMMA StatesStay ==
  ASSUME [Next]_vars
  PROVE  graph' = graph /\ DOMAIN states \subseteq DOMAIN states'
<1>1. graph' = graph
  BY DEF Next, vars, Backpropagate, Refine, Widen, NoEnablingStates, MakePrecise,
     NoWritingStates, BackpropagateDone, RefineDone, MemoriesDone, RefineMemoriesDone, Finish
<1>2. ASSUME NEW n, Backpropagate(n) \/ Refine(n) \/ Widen(n)
      PROVE  DOMAIN states \subseteq DOMAIN states'
  BY <1>2 DEF Backpropagate, Refine, Widen, WithStates
<1>3. ASSUME NEW m, MakePrecise(m)
      PROVE  DOMAIN states \subseteq DOMAIN states'
  <2> DEFINE enabled == StatesOfAll(states, Enabling(m))
             writing == IF Writable(m) THEN StatesOfAll(states, WriteEnabling(m)) ELSE {}
             written == IF Writable(m) THEN WithWrites(states, m, enabled, writing) ELSE states
  <2>1. states' = WithLoads(written, m, enabled, enabled \ writing)
    BY <1>3 DEF MakePrecise
  <2> HIDE DEF enabled, writing
  <2>2. DOMAIN states \subseteq DOMAIN written
    BY WithWritesGrows
  <2> HIDE DEF written
  <2> QED
    BY <2>1, <2>2, WithLoadsGrows
<1>4. BackpropagateDone => DOMAIN states \subseteq DOMAIN states'
  BY UnionVariablesGrows DEF BackpropagateDone, EnterRefine
<1>5. Finish => DOMAIN states \subseteq DOMAIN states'
  <2> SUFFICES ASSUME Finish PROVE DOMAIN states \subseteq DOMAIN states'
    OBVIOUS
  <2> DEFINE w == WithValues(states)
             f == UnionVariables(w)
  <2>1. states' = f \/ states' = Overridden(f, graph.inputs, {Start})
    BY DEF Finish
  <2>2. DOMAIN states \subseteq DOMAIN w
    BY DEF WithValues, Overridden
  <2> HIDE DEF w
  <2>3. DOMAIN w \subseteq DOMAIN f
    BY UnionVariablesGrows
  <2> HIDE DEF f
  <2> QED
    BY <2>1, <2>2, <2>3 DEF Overridden
<1>6. (\E m \in Memories : NoEnablingStates(m) \/ NoWritingStates(m))
        \/ RefineDone \/ MemoriesDone \/ RefineMemoriesDone \/ UNCHANGED vars
      => states' = states
  BY DEF NoEnablingStates, NoWritingStates, RefineDone, MemoriesDone, EnterRefine,
     RefineMemoriesDone, vars
<1> QED
  BY <1>1, <1>2, <1>3, <1>4, <1>5, <1>6 DEF Next

\* An assignment of 1 that has no states is not guarded.
LEMMA WithoutStatesUnguarded ==
  ASSUME TypeOK, SeededHaveStates, NEW v \in Node, Sources(v) \subseteq Data,
         NEW a \in SettingToOne(v), a \notin DOMAIN states
  PROVE  a \in graph.ones \ Seeded /\ v \in Users(a)
BY UsersSources DEF SettingToOne, SeededHaveStates

LEMMA CrashInvStep == IInv /\ CrashInv /\ [Next]_vars => CrashInv'
<1> SUFFICES ASSUME IInv, CrashInv, [Next]_vars PROVE CrashInv'
  OBVIOUS
<1>1. /\ TypeOK /\ IsGraph(graph) /\ graph' = graph
      /\ DOMAIN states \subseteq DOMAIN states'
  BY StatesStay DEF IInv, TypeOK
<1>2. /\ Data' = Data /\ Memories' = Memories /\ Seeded' = Seeded
      /\ \A a : Users(a)' = Users(a)
  BY <1>1 DEF Data, Memories, Seeded, Users, Edges
<1>3. SeededHaveStates'
  BY <1>1, <1>2 DEF CrashInv, SeededHaveStates
<1> DEFINE Culprit(m, a) ==
      \E v \in {graph.ports[m].enable, graph.ports[m].writeEnable} : v \in Users(a)
<1>4. ASSUME NEW m \in Memories, NoEnablingStates(m)
      PROVE  \E a \in graph.ones \ Seeded : Culprit(m, a)
  <2>1. PICK a \in SettingToOne(graph.ports[m].enable) : a \notin DOMAIN states
    BY <1>4 DEF NoEnablingStates, Enabling
  <2>2. graph.ports[m].enable \in Node /\ Sources(graph.ports[m].enable) \subseteq Data
    BY <1>1, MemoryNeighbours DEF Data
  <2> QED
    BY <1>1, <2>1, <2>2, WithoutStatesUnguarded DEF CrashInv
<1>5. ASSUME NEW m \in Memories, NoWritingStates(m)
      PROVE  \E a \in graph.ones \ Seeded : Culprit(m, a)
  <2>1. PICK a \in SettingToOne(graph.ports[m].writeEnable) : a \notin DOMAIN states
    BY <1>5 DEF NoWritingStates, WriteEnabling
  <2>2. graph.ports[m].writeEnable \in Node /\ Sources(graph.ports[m].writeEnable) \subseteq Data
    BY <1>1, <1>5, MemoryNeighbours DEF Data, NoWritingStates
  <2> QED
    BY <1>1, <2>1, <2>2, WithoutStatesUnguarded DEF CrashInv
<1>6. pc' = "crashed" =>
        pc = "crashed" \/ \E m \in Memories : NoEnablingStates(m) \/ NoWritingStates(m)
  BY DEF Next, vars, Backpropagate, Refine, Widen, MakePrecise, BackpropagateDone,
     EnterRefine, RefineDone, MemoriesDone, RefineMemoriesDone, Finish
<1>7. pc' = "crashed" => \E m \in Memories, a \in graph.ones \ Seeded : Culprit(m, a)
  <2>1. pc = "crashed" => \E m \in Memories, a \in graph.ones \ Seeded : Culprit(m, a)
    BY DEF CrashInv, CrashNeedsUnconditionalEnable
  <2> HIDE DEF Culprit
  <2> QED
    BY <1>4, <1>5, <1>6, <2>1
<1> QED
  BY <1>1, <1>2, <1>3, <1>7 DEF CrashInv, CrashNeedsUnconditionalEnable

----------------------------------------------------------------------------
(* The theorems.                                                           *)

(***************************************************************************)
(* Type correctness: only data flow nodes get states, and only states of   *)
(* the FSM (states_of_nodes of associate_operations_with_states).          *)
(***************************************************************************)
THEOREM TypeCorrect == Safety => []TypeOK
<1>1. IInv => TypeOK
  BY DEF IInv
<1> QED
  BY <1>1, Invariance, PTL

(***************************************************************************)
(* backwards_refine_states takes no state from a node in which a user that *)
(* kept it executes, in whatever order the worklist is taken.              *)
(***************************************************************************)
THEOREM RefinementLosesNoUse == Safety => []NoUseLost
<1>1. IInv => NoUseLost
  BY DEF IInv
<1> QED
  BY <1>1, Invariance, PTL

(***************************************************************************)
(* The worklists of backpropagate_state_information (without memories) and *)
(* of backwards_refine_states end at a fixpoint: a node that is not on the *)
(* worklist has nothing to learn from its neighbours.                      *)
(***************************************************************************)
THEOREM WorklistsForgetNothing == Safety => []NothingForgotten
<1>1. IInv => NothingForgotten
  BY DEF IInv
<1> QED
  BY <1>1, Invariance, PTL

(***************************************************************************)
(* The states returned for a variable are the union of the states of its   *)
(* assignments, as variables_states_are_union demands of every later stage.*)
(***************************************************************************)
THEOREM ReturnsUnions == Safety => []VariablesAreUnions
<1>1. IInv => VariablesAreUnions
  BY DEF IInv
<1> QED
  BY <1>1, Invariance, PTL

(***************************************************************************)
(* The KeyErrors of states_of_memory_op and make_memories_more_precise     *)
(* need a memory that is enabled, or written, by an assignment of 1 that   *)
(* no condition guards, in whatever order the nodes are taken.             *)
(***************************************************************************)
THEOREM CrashesAreUnguarded == Safety => []CrashNeedsUnconditionalEnable
<1>1. Init => CrashInv
  BY DEF Init, CrashInv, SeededHaveStates, CrashNeedsUnconditionalEnable
<1>2. IInv /\ CrashInv /\ [Next]_vars => CrashInv'
  BY CrashInvStep
<1>3. CrashInv => CrashNeedsUnconditionalEnable
  BY DEF CrashInv
<1> QED
  BY <1>1, <1>2, <1>3, Invariance, PTL DEF Safety

----------------------------------------------------------------------------
(* What a value reaches.                                                   *)

\* X holds the users of the values in X, beyond the seeds.
ClosedUnderUse(X) ==
  \A e \in graph.value : e[1] \in X \ Seeded /\ e[2] \in Data => e[2] \in X

LEMMA ReachedIsClosed ==
  ASSUME NEW n, NEW a \in ReachesSeed(n), NEW X \in SUBSET Data, n \in X, ClosedUnderUse(X)
  PROVE  a \in X
BY DEF ReachesSeed, ClosedUnderUse

LEMMA ReachesItself ==
  ASSUME NEW a \in Seeded \cap Data
  PROVE  a \in ReachesSeed(a)
BY DEF ReachesSeed

LEMMA ReachesThrough ==
  ASSUME NEW n \in Data \ Seeded, NEW u \in ValueUsers(n) \cap Data
  PROVE  ReachesSeed(u) \subseteq ReachesSeed(n)
<1> SUFFICES ASSUME NEW a \in ReachesSeed(u), NEW X \in SUBSET Data, n \in X,
                    ClosedUnderUse(X)
             PROVE  a \in X
  BY DEF ReachesSeed, ClosedUnderUse
<1>1. \E e \in graph.value : e[1] = n /\ e[2] = u
  BY DEF ValueUsers, Succs
<1>2. u \in X
  BY <1>1 DEF ClosedUnderUse
<1> QED
  BY <1>2, ReachedIsClosed

LEMMA SeedsAreData ==
  ASSUME IsGraph(graph)
  PROVE  Seeded \subseteq Data
BY DEF IsGraph, Seeded, Data

----------------------------------------------------------------------------
(* The backward propagation: every node has states of seeds that it        *)
(* reaches only, and the sources of whatever has states are still to come. *)

SeedsKept == pc = "backpropagate" => \A a \in Seeded : StatesOf(states, a, {}) = graph.seeds[a]

PropagatesSoundly ==
  pc = "backpropagate" /\ Memories = {} =>
    \A n \in Data \ Seeded :
      StatesOf(states, n, {}) \subseteq UNION {graph.seeds[a] : a \in ReachesSeed(n)}

SourcesFollow ==
  pc = "backpropagate" =>
    \A n \in Data \ (Seeded \cup worklist) : \A u \in ValueUsers(n) :
      StatesOf(states, u, {}) # {} => StatesOf(states, n, {}) # {}

BackInv == SeedsKept /\ PropagatesSoundly /\ SourcesFollow

LEMMA InitBackInv == Init => BackInv
<1> SUFFICES ASSUME Init PROVE BackInv
  OBVIOUS
<1>1. IsGraph(graph) /\ states = [n \in Seeded \cap Data |-> graph.seeds[n]]
  BY GraphsAssumption DEF Init
<1>2. SeedsKept
  BY <1>1, SeedsAreData DEF SeedsKept, StatesOf
<1>3. \A n : n \notin Seeded => StatesOf(states, n, {}) = {}
  BY <1>1 DEF StatesOf
<1>4. SourcesFollow
  <2> SUFFICES ASSUME NEW n \in Data \ (Seeded \cup worklist), NEW u \in ValueUsers(n),
                      u \in Seeded
               PROVE  FALSE
    BY <1>3 DEF SourcesFollow
  <2>1. n \in Sources(u)
    BY ValueUsersAreUsers, UsersSources
  <2> QED
    BY <2>1 DEF Init
<1> QED
  BY <1>2, <1>3, <1>4 DEF BackInv, PropagatesSoundly

\* The effect of one step of the pass on the states of any node.
LEMMA BackpropagateEffect ==
  ASSUME NEW n, Backpropagate(n)
  PROVE  \/ /\ Learns(n) /\ worklist' = (worklist \ {n}) \cup Woken(n)
            /\ \A m : StatesOf(states', m, {}) =
                        IF m = n THEN Propagated(n) ELSE StatesOf(states, m, {})
         \/ ~Learns(n) /\ states' = states /\ worklist' = worklist \ {n}
BY WithStatesValue DEF Backpropagate

LEMMA PropagatedSomething ==
  ASSUME NEW n, NEW u \in ValueUsers(n), StatesOf(states, u, {}) # {}
  PROVE  Propagated(n) # {}
BY DEF Propagated, Narrowed, StatesOfAll

LEMMA BackpropagateBackInv ==
  ASSUME TypeOK, BackInv, NEW n, Backpropagate(n)
  PROVE  BackInv'
<1>1. /\ pc = "backpropagate" /\ pc' = pc /\ graph' = graph /\ IsGraph(graph)
      /\ DOMAIN states \subseteq Data
  BY DEF Backpropagate, TypeOK
<1>2. /\ Data' = Data /\ Memories' = Memories /\ Seeded' = Seeded
      /\ \A m : ValueUsers(m)' = ValueUsers(m) /\ ReachesSeed(m)' = ReachesSeed(m)
  BY <1>1 DEF Data, Memories, Seeded, ValueUsers, ReachesSeed
<1>3. Learns(n) => n \in Data \ Seeded /\ Propagated(n) # {}
  BY DEF Learns
<1>4. SeedsKept'
  <2>1. \A a \in Seeded : StatesOf(states', a, {}) = StatesOf(states, a, {})
    BY <1>3, BackpropagateEffect
  <2> QED
    BY <1>1, <1>2, <2>1 DEF BackInv, SeedsKept
<1>5. PropagatesSoundly'
  <2> SUFFICES ASSUME Memories = {}, NEW m \in Data \ Seeded, NEW s \in StatesOf(states', m, {})
               PROVE  \E a \in ReachesSeed(m) : s \in graph.seeds[a]
    BY <1>1, <1>2 DEF PropagatesSoundly
  <2>1. CASE s \in StatesOf(states, m, {})
    BY <1>1, <2>1 DEF BackInv, PropagatesSoundly
  <2>2. CASE m = n /\ s \in Propagated(n)
    <3>1. PICK u \in ValueUsers(n) : s \in StatesOf(states, u, {})
      BY <2>2, PropagatedPlain
    <3>2. u \in Data
      BY <1>1, <3>1 DEF StatesOf
    <3>3. ReachesSeed(u) \subseteq ReachesSeed(n)
      BY <2>2, <3>2, ReachesThrough
    <3>4. CASE u \in Seeded
      <4>1. s \in graph.seeds[u] /\ u \in ReachesSeed(u)
        BY <1>1, <3>1, <3>2, <3>4, ReachesItself DEF BackInv, SeedsKept
      <4> QED
        BY <2>2, <3>3, <4>1
    <3>5. CASE u \notin Seeded
      BY <1>1, <2>2, <3>1, <3>2, <3>3, <3>5 DEF BackInv, PropagatesSoundly
    <3> QED
      BY <3>4, <3>5
  <2> QED
    BY <2>1, <2>2, BackpropagateEffect
<1>6. SourcesFollow'
  <2> SUFFICES ASSUME NEW m \in Data \ Seeded, m \notin worklist', NEW u \in ValueUsers(m),
                      StatesOf(states', u, {}) # {}
               PROVE  StatesOf(states', m, {}) # {}
    BY <1>1, <1>2 DEF SourcesFollow
  <2>1. m \in Sources(u)
    BY ValueUsersAreUsers, UsersSources
  <2>2. CASE Learns(n) /\ m = n
    BY <1>3, <2>2, BackpropagateEffect
  <2>3. CASE Learns(n) /\ m # n
    <3>1. u # n /\ m \notin worklist
      BY <2>1, <2>3, BackpropagateEffect DEF Woken
    <3> QED
      BY <1>1, <2>3, <3>1, BackpropagateEffect DEF BackInv, SourcesFollow
  <2>4. CASE ~Learns(n) /\ m = n
    <3>1. states' = states
      BY <2>4, BackpropagateEffect
    <3>2. Propagated(n) # {}
      BY <2>4, <3>1, PropagatedSomething
    <3> QED
      BY <2>4, <3>1, <3>2 DEF Learns
  <2>5. CASE ~Learns(n) /\ m # n
    <3>1. states' = states /\ m \notin worklist
      BY <2>5, BackpropagateEffect
    <3> QED
      BY <1>1, <3>1 DEF BackInv, SourcesFollow
  <2> QED
    BY <2>2, <2>3, <2>4, <2>5
<1> QED
  BY <1>4, <1>5, <1>6 DEF BackInv

LEMMA BackInvStep == TypeOK /\ BackInv /\ [Next]_vars => BackInv'
<1> SUFFICES ASSUME TypeOK, BackInv, [Next]_vars PROVE BackInv'
  OBVIOUS
<1>1. CASE \E n \in worklist : Backpropagate(n)
  BY <1>1, BackpropagateBackInv
<1>2. CASE UNCHANGED vars
  BY <1>2 DEF vars, BackInv, SeedsKept, PropagatesSoundly, SourcesFollow, Seeded, Data,
     Memories, ValueUsers, ReachesSeed
<1>3. CASE Next /\ ~\E n \in worklist : Backpropagate(n)
  <2>1. pc' # "backpropagate"
    BY <1>3 DEF Next, Refine, Refining, Widen, NoEnablingStates, MakePrecise, NoWritingStates,
       BackpropagateDone, EnterRefine, RefineDone, MemoriesDone, RefineMemoriesDone, Finish
  <2> QED
    BY <2>1 DEF BackInv, SeedsKept, PropagatesSoundly, SourcesFollow
<1> QED
  BY <1>1, <1>2, <1>3

LEMMA BackInvariance == Safety => []BackInv
<1>1. IInv => TypeOK
  BY DEF IInv
<1> QED
  BY <1>1, InitBackInv, BackInvStep, Invariance, PTL DEF Safety

\* Nothing is missing when the worklist is empty: the nodes that do not have
\* the state s are closed under use, so a seed in s is not among them.
LEMMA PropagatesCompletely ==
  ASSUME IInv, BackInv, pc = "backpropagate", worklist = {}, Memories = {},
         NEW n \in Data \ Seeded, NEW a \in ReachesSeed(n), NEW s \in graph.seeds[a]
  PROVE  s \in StatesOf(states, n, {})
<1> SUFFICES ASSUME s \notin StatesOf(states, n, {}) PROVE FALSE
  OBVIOUS
<1> DEFINE X == {m \in Data : s \notin StatesOf(states, m, {})}
<1>1. ClosedUnderUse(X)
  <2> SUFFICES ASSUME NEW e \in graph.value, e[1] \in Data \ Seeded, e[2] \in Data,
                      s \notin StatesOf(states, e[1], {}), s \in StatesOf(states, e[2], {})
               PROVE  FALSE
    BY DEF ClosedUnderUse
  <2>1. e[2] \in ValueUsers(e[1])
    BY DEF ValueUsers, Succs
  <2>2. s \in Propagated(e[1])
    BY <2>1, PropagatedPlain DEF IInv
  <2> QED
    BY <2>2 DEF IInv, NothingForgotten
<1>2. a \in X
  BY <1>1, ReachedIsClosed
<1>3. a \in Seeded
  BY DEF ReachesSeed
<1> QED
  BY <1>2, <1>3 DEF BackInv, SeedsKept

(***************************************************************************)
(* backpropagate_state_information gives a node the states of exactly the  *)
(* seeds its value reaches, in whatever order the worklist is taken.       *)
(***************************************************************************)
THEOREM PropagationIsExact == Safety => []BackpropagatesExactly
<1>1. IInv /\ BackInv => BackpropagatesExactly
  <2> SUFFICES ASSUME IInv, BackInv, pc = "backpropagate", worklist = {}, Memories = {},
                      NEW n \in Data \ Seeded
               PROVE  StatesOf(states, n, {}) = UNION {graph.seeds[a] : a \in ReachesSeed(n)}
    BY DEF BackpropagatesExactly
  <2>1. StatesOf(states, n, {}) \subseteq UNION {graph.seeds[a] : a \in ReachesSeed(n)}
    BY DEF BackInv, PropagatesSoundly
  <2>2. \A a \in ReachesSeed(n) : graph.seeds[a] \subseteq StatesOf(states, n, {})
    BY PropagatesCompletely
  <2> QED
    BY <2>1, <2>2
<1> QED
  BY <1>1, Invariance, BackInvariance, PTL

----------------------------------------------------------------------------
(* The nodes whose value reaches a seed have states from the end of the    *)
(* first pass on, because the sources of a node with states are visited.   *)

Guarded == {n \in Data : ReachesSeed(n) # {}}

AfterBackpropagation ==
  pc \in {"refine", "memories", "refine_memories", "forward", "returned", "failed"}

\* A port has states when every assignment to it has.
PortsHaveStates ==
  \A m \in Memories : \A v \in PortsOf(graph, m) :
    Sources(v) \subseteq Guarded => v \in DOMAIN states

GuardedHaveStates ==
  AfterBackpropagation /\ SeedsNonempty => Guarded \subseteq DOMAIN states /\ PortsHaveStates

\* Refinement begins with `before` and takes states away.
Shrunk ==
  Refining =>
    /\ DOMAIN before \subseteq DOMAIN states
    /\ \A n \in Data : StatesOf(states, n, State) \subseteq StatesOf(before, n, State)

ReachInv == GuardedHaveStates /\ Shrunk

LEMMA GuardedAfterBackpropagation ==
  ASSUME TypeOK, BackInv, pc = "backpropagate", worklist = {}, SeedsNonempty,
         NEW n \in Guarded
  PROVE  n \in DOMAIN states
<1> SUFFICES ASSUME n \notin DOMAIN states PROVE FALSE
  OBVIOUS
<1> DEFINE X == {m \in Data : StatesOf(states, m, {}) = {}}
<1>1. ClosedUnderUse(X)
  <2> SUFFICES ASSUME NEW e \in graph.value, e[1] \in Data \ Seeded, e[2] \in Data,
                      StatesOf(states, e[1], {}) = {}
               PROVE  StatesOf(states, e[2], {}) = {}
    BY DEF ClosedUnderUse
  <2>1. e[2] \in ValueUsers(e[1])
    BY DEF ValueUsers, Succs
  <2> QED
    BY <2>1 DEF BackInv, SourcesFollow
<1>2. PICK a \in ReachesSeed(n) : TRUE
  BY DEF Guarded
<1>3. n \in X
  BY DEF StatesOf, Guarded
<1>4. a \in X
  BY <1>1, <1>3, ReachedIsClosed
<1>5. a \in Seeded
  BY DEF ReachesSeed
<1> QED
  BY <1>4, <1>5 DEF BackInv, SeedsKept, SeedsNonempty

\* All that is near a memory is data flow.
LEMMA NearMemoryIsData ==
  ASSUME IsGraph(graph), NEW m \in Memories
  PROVE  /\ m \in DOMAIN graph.ports
         /\ \A v \in PortsOf(graph, m) :
              v \in Data /\ graph.kind[v] = "variable" /\ Sources(v) \subseteq Data
         /\ \A a \in Users(m) : a \in Data /\ Users(a) \subseteq Data
<1>1. m \in DOMAIN graph.ports /\ graph.ports[m] \in Ports
  BY DEF IsGraph, Memories
<1>2. PortsOf(graph, m) \subseteq Node
  BY <1>1 DEF PortsOf, Ports
<1>3. \A v \in PortsOf(graph, m) : Sources(v) \subseteq NearMemory(graph, m)
  BY DEF NearMemory, Sources, Edges
<1>4. PortsOf(graph, m) \subseteq NearMemory(graph, m)
  BY DEF NearMemory
<1>5. \A n \in NearMemory(graph, m) \cap Node : n \in Data
  BY <1>1 DEF IsGraph, Data
<1>6. \A v \in PortsOf(graph, m) : graph.kind[v] = "variable"
  BY <1>1 DEF IsGraph, MemoriesSeparate
<1>7. \A v \in PortsOf(graph, m) : v \in Data /\ Sources(v) \subseteq Data
  BY <1>2, <1>3, <1>4, <1>5, NeighboursAreNodes
<1> QED
  BY <1>1, <1>6, <1>7, MemoryNeighbours

LEMMA BackpropagateDoneReach ==
  ASSUME TypeOK, BackInv, BackpropagateDone
  PROVE  ReachInv'
<1>1. /\ pc = "backpropagate" /\ worklist = {} /\ graph' = graph /\ IsGraph(graph)
      /\ states' = UnionVariables(states) /\ before' = states' /\ pc' = "refine"
  BY DEF BackpropagateDone, EnterRefine, TypeOK
<1>2. /\ Data' = Data /\ Memories' = Memories /\ Seeded' = Seeded /\ Guarded' = Guarded
      /\ \A v : Sources(v)' = Sources(v)
  BY <1>1 DEF Data, Memories, Seeded, Guarded, ReachesSeed, Sources, Edges
<1>3. SeedsNonempty => Guarded \subseteq DOMAIN states
  BY <1>1, GuardedAfterBackpropagation
<1>4. ASSUME NEW m \in Memories, NEW v \in PortsOf(graph, m), Sources(v) \subseteq DOMAIN states
      PROVE  v \in DOMAIN states'
  BY <1>1, <1>4, NearMemoryIsData DEF UnionVariables
<1>5. SeedsNonempty => Guarded \subseteq DOMAIN states' /\ PortsHaveStates'
  BY <1>1, <1>2, <1>3, <1>4, UnionVariablesGrows DEF PortsHaveStates
<1> QED
  BY <1>1, <1>2, <1>5 DEF ReachInv, GuardedHaveStates, Shrunk, SeedsNonempty

\* What there is of the invariant after any step that keeps the graph.
LEMMA GuardedStay ==
  ASSUME [Next]_vars, GuardedHaveStates, AfterBackpropagation
  PROVE  GuardedHaveStates'
<1>1. graph' = graph /\ DOMAIN states \subseteq DOMAIN states'
  BY StatesStay
<1>2. /\ Data' = Data /\ Memories' = Memories /\ Seeded' = Seeded /\ Guarded' = Guarded
      /\ \A v : Sources(v)' = Sources(v)
  BY <1>1 DEF Data, Memories, Seeded, Guarded, ReachesSeed, Sources, Edges
<1> QED
  BY <1>1, <1>2 DEF GuardedHaveStates, PortsHaveStates, SeedsNonempty

LEMMA RefineReach ==
  ASSUME Shrunk, NEW n, Refine(n)
  PROVE  Shrunk'
<1>1. /\ Refining /\ before' = before /\ Data' = Data
      /\ DOMAIN states \subseteq DOMAIN states'
  BY DEF Refine, Data, WithStates
<1> QED
  BY <1>1, RefineShrinks DEF Shrunk

LEMMA ReachInvStep == TypeOK /\ BackInv /\ ReachInv /\ [Next]_vars => ReachInv'
<1> SUFFICES ASSUME TypeOK, BackInv, ReachInv, [Next]_vars PROVE ReachInv'
  OBVIOUS
<1>1. CASE BackpropagateDone
  BY <1>1, BackpropagateDoneReach
<1>2. CASE UNCHANGED vars
  <2>1. Shrunk'
    BY <1>2 DEF vars, ReachInv, Shrunk, Refining, Data
  <2>2. pc' = pc
    BY <1>2 DEF vars
  <2>3. GuardedHaveStates'
    BY <2>2, GuardedStay DEF ReachInv, GuardedHaveStates, AfterBackpropagation
  <2> QED
    BY <2>1, <2>3 DEF ReachInv
<1>3. CASE \E n \in worklist : Refine(n)
  <2>1. AfterBackpropagation
    BY <1>3 DEF Refine, Refining, AfterBackpropagation
  <2> QED
    BY <1>3, <2>1, GuardedStay, RefineReach DEF ReachInv
<1>4. CASE MemoriesDone
  <2>1. AfterBackpropagation /\ before' = states' /\ pc' = "refine_memories"
    BY <1>4 DEF MemoriesDone, EnterRefine, AfterBackpropagation
  <2> QED
    BY <2>1, GuardedStay DEF ReachInv, Shrunk
<1>5. CASE Next /\ ~BackpropagateDone /\ ~MemoriesDone /\ ~\E n \in worklist : Refine(n)
  <2>1. /\ ~Refining'
        /\ AfterBackpropagation' => AfterBackpropagation
    BY <1>5 DEF Next, Refining, Backpropagate, Widen, NoEnablingStates, MakePrecise,
       NoWritingStates, RefineDone, RefineMemoriesDone, Finish, AfterBackpropagation
  <2>2. GuardedHaveStates'
    BY <2>1, GuardedStay DEF ReachInv, GuardedHaveStates
  <2> QED
    BY <2>1, <2>2 DEF ReachInv, Shrunk
<1> QED
  BY <1>1, <1>2, <1>3, <1>4, <1>5

LEMMA ReachInvariance == Safety => []ReachInv
<1>1. IInv => TypeOK
  BY DEF IInv
<1>2. Init => ReachInv
  BY DEF Init, ReachInv, GuardedHaveStates, Shrunk, Refining, AfterBackpropagation
<1> QED
  BY <1>1, <1>2, ReachInvStep, Invariance, BackInvariance, PTL DEF Safety

----------------------------------------------------------------------------
(* The forward pass leaves a set of nodes alone that have states when it   *)
(* begins and whose values come from each other or from literals.          *)

Self(V) ==
  /\ V \subseteq Data
  /\ \A n \in V : \A p \in Preds(graph.value, n) \cap Data : p \in V \/ graph.kind[p] = "value"

Spared(V) ==
  /\ V \subseteq DOMAIN states
  /\ V \cap worklist = {}
  /\ \A n \in worklist : graph.kind[n] # "value"

LEMMA LiteralsUseNothing ==
  ASSUME IsGraph(graph), NEW n, NEW u \in Users(n)
  PROVE  graph.kind[u] # "value"
<1>1. \A e \in Edges : graph.kind[e[2]] # "value"
  BY DEF IsGraph, AssignmentsAreSingle, Edges
<1>2. \E e \in Edges : e[2] = u
  BY DEF Users, Succs
<1> QED
  BY <1>1, <1>2

LEMMA WidenSpares ==
  ASSUME IsGraph(graph), NEW V, Self(V), Spared(V), NEW n \in worklist, Widen(n)
  PROVE  /\ V \subseteq DOMAIN states' /\ V \cap worklist' = {}
         /\ \A m \in worklist' : graph.kind[m] # "value"
         /\ \A m \in V : states'[m] = states[m]
<1>1. CASE Widened(n) # StatesOf(states, n, {})
  <2>1. n \in Data /\ n \notin V /\ graph.kind[n] # "value"
    BY <1>1 DEF Widened, Spared
  <2>2. /\ states' = WithStates(states, n, Widened(n))
        /\ worklist' = (worklist \ {n}) \cup ValueUsers(n)
    BY <1>1 DEF Widen
  <2>3. \A m \in V : n \notin Preds(graph.value, m)
    BY <2>1 DEF Self
  <2>4. \A m \in ValueUsers(n) : n \in Preds(graph.value, m)
    BY DEF ValueUsers, Succs, Preds
  <2>5. V \cap worklist' = {}
    BY <2>2, <2>3, <2>4 DEF Spared
  <2>6. \A m \in ValueUsers(n) : graph.kind[m] # "value"
    BY ValueUsersAreUsers, LiteralsUseNothing
  <2> QED
    BY <2>1, <2>2, <2>5, <2>6 DEF Spared, WithStates
<1>2. CASE Widened(n) = StatesOf(states, n, {})
  BY <1>2 DEF Widen, Spared
<1> QED
  BY <1>1, <1>2

LEMMA RefineMemoriesDoneSpares ==
  ASSUME IsGraph(graph), RefineMemoriesDone, NEW V, V \subseteq DOMAIN states
  PROVE  /\ V \subseteq DOMAIN states' /\ V \cap worklist' = {}
         /\ \A m \in worklist' : graph.kind[m] # "value"
         /\ states' = states
<1>1. /\ states' = states
      /\ worklist' = (UNION {Users(n) : n \in DOMAIN states}) \ DOMAIN states
  BY DEF RefineMemoriesDone
<1>2. \A m \in worklist' : \E n : m \in Users(n)
  BY <1>1
<1> QED
  BY <1>1, <1>2, LiteralsUseNothing

LEMMA GuardedIsSelf == IsGraph(graph) => Self(Guarded)
<1> SUFFICES ASSUME IsGraph(graph), NEW n \in Guarded, NEW p \in Preds(graph.value, n) \cap Data
             PROVE  ReachesSeed(p) # {}
  BY DEF Self, Guarded
<1>1. n \in ValueUsers(p) /\ n \in Data /\ ReachesSeed(n) # {}
  BY DEF Guarded, ValueUsers, Succs, Preds
<1>2. CASE p \in Seeded
  BY <1>2, ReachesItself
<1>3. CASE p \notin Seeded
  BY <1>1, <1>3, ReachesThrough
<1> QED
  BY <1>2, <1>3

GuardedSpared == pc = "forward" /\ SeedsNonempty => Spared(Guarded)

LEMMA GuardedSparedStep ==
  TypeOK /\ ReachInv /\ GuardedSpared /\ [Next]_vars => GuardedSpared'
<1> SUFFICES ASSUME TypeOK, ReachInv, GuardedSpared, [Next]_vars, pc' = "forward",
                    SeedsNonempty'
             PROVE  Spared(Guarded)'
  BY DEF GuardedSpared
<1>1. /\ graph' = graph /\ IsGraph(graph) /\ SeedsNonempty
  BY StatesStay DEF TypeOK, SeedsNonempty, Seeded
<1>2. Guarded' = Guarded
  BY <1>1 DEF Guarded, ReachesSeed, Seeded, Data
<1>3. CASE \E n \in worklist : Widen(n)
  <2>1. Spared(Guarded)
    BY <1>1, <1>3 DEF Widen, GuardedSpared
  <2> QED
    BY <1>1, <1>2, <1>3, <2>1, GuardedIsSelf, WidenSpares DEF Spared
<1>4. CASE RefineMemoriesDone
  <2>1. Guarded \subseteq DOMAIN states
    BY <1>1, <1>4 DEF RefineMemoriesDone, ReachInv, GuardedHaveStates, AfterBackpropagation
  <2> QED
    BY <1>1, <1>2, <1>4, <2>1, RefineMemoriesDoneSpares DEF Spared
<1>5. CASE UNCHANGED vars
  BY <1>1, <1>2, <1>5 DEF vars, GuardedSpared, Spared
<1> QED
  BY <1>3, <1>4, <1>5
  DEF Next, Backpropagate, Refine, Refining, NoEnablingStates, MakePrecise, NoWritingStates,
      BackpropagateDone, EnterRefine, RefineDone, MemoriesDone, Finish

----------------------------------------------------------------------------
(* An operator executes wherever its value is used.                        *)

CoversUses(f) ==
  \A n \in Data \ Seeded : \A u \in ValueUsers(n) \cap Guarded :
    graph.kind[n] = "operator" => StatesOf(f, u, State) \subseteq StatesOf(f, n, State)

CoverInv ==
  SeedsNonempty /\ Memories = {} =>
    /\ Refining => CoversUses(before)
    /\ pc \in {"memories", "forward", "returned"} => CoversUses(states)

\* An operator is used by operators and assignments; both are guarded.
LEMMA UsersOfOperators ==
  ASSUME IsGraph(graph), NEW n \in Data \ Seeded, graph.kind[n] = "operator",
         NEW u \in ValueUsers(n) \cap Guarded
  PROVE  /\ n \in Guarded /\ u \in Guarded /\ u \in Users(n) /\ n \in Data /\ u \in Data
         /\ graph.kind[u] \notin {"variable", "value"}
<1>1. \E e \in graph.value : e[1] = n /\ e[2] = u
  BY DEF ValueUsers, Succs
<1>2. graph.kind[u] # "variable"
  BY <1>1 DEF IsGraph
<1>3. u \in Data /\ ReachesSeed(u) \subseteq ReachesSeed(n)
  BY ReachesThrough DEF Guarded
<1> QED
  BY <1>2, <1>3, ValueUsersAreUsers, LiteralsUseNothing DEF Guarded

LEMMA PropagationCovers ==
  ASSUME IInv, BackInv, SeedsNonempty, Memories = {}, BackpropagateDone
  PROVE  CoversUses(UnionVariables(states))
<1>1. pc = "backpropagate" /\ worklist = {} /\ TypeOK /\ IsGraph(graph)
  BY DEF BackpropagateDone, IInv, TypeOK
<1> DEFINE f == UnionVariables(states)
<1> SUFFICES ASSUME NEW n \in Data \ Seeded, NEW u \in ValueUsers(n) \cap Guarded,
                    graph.kind[n] = "operator"
             PROVE  StatesOf(f, u, State) \subseteq StatesOf(f, n, State)
  BY DEF CoversUses
<1>2. n \in DOMAIN states /\ u \in DOMAIN states
  BY <1>1, UsersOfOperators, GuardedAfterBackpropagation
<1>3. StatesOf(states, u, {}) \subseteq Propagated(n)
  BY <1>1, PropagatedPlain
<1>4. states[u] \subseteq states[n]
  BY <1>1, <1>2, <1>3 DEF IInv, NothingForgotten, StatesOf
<1>5. \A m \in {n, u} : m \in DOMAIN f /\ f[m] = states[m]
  BY <1>1, <1>2, UsersOfOperators DEF UnionVariables
<1> QED
  BY <1>4, <1>5 DEF StatesOf

LEMMA RefinementCovers ==
  ASSUME IInv, Shrunk, Refining, Memories = {}, CoversUses(before)
  PROVE  CoversUses(states)
<1> SUFFICES ASSUME NEW n \in Data \ Seeded, NEW u \in ValueUsers(n) \cap Guarded,
                    graph.kind[n] = "operator", NEW s \in StatesOf(states, u, State)
             PROVE  s \in StatesOf(states, n, State)
  BY DEF CoversUses
<1>1. u \in Users(n) /\ u \in Data
  BY UsersOfOperators DEF IInv, TypeOK
<1>2. s \in StatesOf(before, u, State)
  BY <1>1 DEF Shrunk
<1>3. s \in StatesOf(before, n, State)
  BY <1>2 DEF CoversUses
<1> QED
  BY <1>1, <1>3 DEF IInv, NoUseLost, Ignored

\* The end leaves what is neither a variable nor a literal.
LEMMA FinishLeaves ==
  ASSUME IsGraph(graph), Finish, NEW n \in DOMAIN states,
         graph.kind[n] \notin {"variable", "value"}
  PROVE  n \in DOMAIN states' /\ states'[n] = states[n]
<1> DEFINE w == WithValues(states)
           f == UnionVariables(w)
<1>1. states' = f \/ states' = Overridden(f, graph.inputs, {Start})
  BY DEF Finish
<1>2. n \in DOMAIN w /\ w[n] = states[n]
  BY DEF WithValues, Overridden
<1> HIDE DEF w
<1>3. n \in DOMAIN f /\ f[n] = states[n]
  BY <1>2 DEF UnionVariables
<1> HIDE DEF f
<1>4. n \notin graph.inputs
  BY DEF IsGraph
<1> QED
  BY <1>1, <1>3, <1>4 DEF Overridden

LEMMA FinishCovers ==
  ASSUME IsGraph(graph), Finish, CoversUses(states), Guarded \subseteq DOMAIN states
  PROVE  CoversUses(states')
<1> SUFFICES ASSUME NEW n \in Data \ Seeded, NEW u \in ValueUsers(n) \cap Guarded,
                    graph.kind[n] = "operator"
             PROVE  StatesOf(states', u, State) \subseteq StatesOf(states', n, State)
  BY DEF CoversUses
<1>1. n \in DOMAIN states /\ u \in DOMAIN states
  BY UsersOfOperators
<1>2. \A m \in {n, u} : m \in DOMAIN states' /\ states'[m] = states[m]
  BY <1>1, UsersOfOperators, FinishLeaves
<1> QED
  BY <1>1, <1>2 DEF CoversUses, StatesOf

LEMMA WidenCovers ==
  ASSUME IsGraph(graph), CoversUses(states), Spared(Guarded), NEW n \in worklist, Widen(n)
  PROVE  CoversUses(states')
<1> SUFFICES ASSUME NEW m \in Data \ Seeded, NEW u \in ValueUsers(m) \cap Guarded,
                    graph.kind[m] = "operator"
             PROVE  StatesOf(states', u, State) \subseteq StatesOf(states', m, State)
  BY DEF CoversUses
<1>1. m \in Guarded /\ u \in Guarded
  BY UsersOfOperators
<1>2. \A k \in {m, u} : k \in DOMAIN states /\ k \in DOMAIN states' /\ states'[k] = states[k]
  BY <1>1, GuardedIsSelf, WidenSpares DEF Spared
<1> QED
  BY <1>2 DEF CoversUses, StatesOf

LEMMA CoverInvStep ==
  IInv /\ BackInv /\ ReachInv /\ GuardedSpared /\ CoverInv /\ [Next]_vars => CoverInv'
<1> SUFFICES ASSUME IInv, BackInv, ReachInv, GuardedSpared, CoverInv, [Next]_vars,
                    SeedsNonempty', Memories' = {}
             PROVE  /\ Refining' => CoversUses(before)'
                    /\ pc' \in {"memories", "forward", "returned"} => CoversUses(states)'
  BY DEF CoverInv
<1>1. /\ graph' = graph /\ IsGraph(graph) /\ SeedsNonempty /\ Memories = {} /\ TypeOK
  BY StatesStay DEF IInv, TypeOK, SeedsNonempty, Seeded, Memories
<1>2. /\ CoversUses(before)' <=> CoversUses(before')
      /\ CoversUses(states)' <=> CoversUses(states')
  BY <1>1 DEF CoversUses, Guarded, ReachesSeed, Seeded, Data, ValueUsers
<1>3. CASE BackpropagateDone
  <2>1. pc' = "refine" /\ before' = UnionVariables(states)
    BY <1>3 DEF BackpropagateDone, EnterRefine
  <2> QED
    BY <1>1, <1>2, <1>3, <2>1, PropagationCovers
<1>4. CASE RefineDone \/ RefineMemoriesDone
  <2>1. /\ Refining /\ pc' \in {"memories", "forward"} /\ states' = states
    BY <1>4 DEF RefineDone, RefineMemoriesDone, Refining
  <2>2. CoversUses(states)
    BY <1>1, <2>1, RefinementCovers DEF CoverInv, ReachInv
  <2> QED
    BY <1>2, <2>1, <2>2 DEF Refining
<1>5. CASE MemoriesDone
  BY <1>1, <1>2, <1>5 DEF MemoriesDone, EnterRefine, CoverInv
<1>6. CASE \E n \in worklist : Refine(n)
  BY <1>1, <1>2, <1>6 DEF Refine, Refining, CoverInv
<1>7. CASE \E n \in worklist : Widen(n)
  <2>1. pc = "forward" /\ pc' = "forward" /\ CoversUses(states) /\ Spared(Guarded)
    BY <1>1, <1>7 DEF Widen, CoverInv, GuardedSpared
  <2> QED
    BY <1>1, <1>2, <1>7, <2>1, WidenCovers DEF Refining
<1>8. CASE Finish
  <2>1. /\ pc' \in {"returned", "failed"} /\ CoversUses(states)
        /\ Guarded \subseteq DOMAIN states
    BY <1>1, <1>8 DEF Finish, CoverInv, GuardedSpared, Spared
  <2> QED
    BY <1>1, <1>2, <1>8, <2>1, FinishCovers DEF Refining
<1>9. CASE UNCHANGED vars
  BY <1>1, <1>2, <1>9 DEF vars, CoverInv, Refining
<1>10. CASE \/ \E n \in worklist : Backpropagate(n)
            \/ \E m \in Memories : NoEnablingStates(m) \/ MakePrecise(m) \/ NoWritingStates(m)
  BY <1>1, <1>10 DEF Backpropagate, Refining
<1> QED
  BY <1>3, <1>4, <1>5, <1>6, <1>7, <1>8, <1>9, <1>10 DEF Next

(***************************************************************************)
(* In a graph without memories an operator executes wherever a user of its *)
(* value executes that contributes to a guarded assignment, if every       *)
(* condition is true in some state: what associate_operations_with_states  *)
(* is for, whatever the order of its five worklists.                       *)
(***************************************************************************)
THEOREM OperatorsCoverTheirUses == Safety => []OperatorsCoverUses
<1> DEFINE J == IInv /\ BackInv /\ ReachInv
           K == GuardedSpared /\ CoverInv
<1>1. Init => K
  BY DEF Init, GuardedSpared, CoverInv, Refining
<1>2. J /\ K /\ [Next]_vars => K'
  BY GuardedSparedStep, CoverInvStep DEF IInv
<1>3. J /\ K => OperatorsCoverUses
  <2> SUFFICES ASSUME J, K, pc = "returned", SeedsNonempty, Memories = {},
                      NEW n \in Data \ Seeded, NEW u \in ValueUsers(n) \cap Data,
                      graph.kind[n] = "operator", ReachesSeed(u) # {}
               PROVE  states[u] \subseteq states[n]
    BY DEF OperatorsCoverUses
  <2>1. u \in Guarded /\ CoversUses(states)
    BY DEF Guarded, CoverInv
  <2>2. n \in DOMAIN states /\ u \in DOMAIN states
    BY <2>1, UsersOfOperators
       DEF IInv, TypeOK, ReachInv, GuardedHaveStates, AfterBackpropagation
  <2> QED
    BY <2>1, <2>2 DEF CoversUses, StatesOf
<1> QED
  <2>1. Safety => []J
    BY Invariance, BackInvariance, ReachInvariance, PTL
  <2> QED
    BY <1>1, <1>2, <1>3, <2>1, PTL DEF Safety

----------------------------------------------------------------------------
(* What is near one memory is not near another.                            *)

LEMMA PortsOfMemory ==
  ASSUME IsGraph(graph), NEW m \in Memories
  PROVE  LET p == graph.ports[m]
         IN  /\ p.enable \in PortsOf(graph, m) /\ p.address \in PortsOf(graph, m)
             /\ Writable(m) => {p.writeEnable, p.data} \subseteq PortsOf(graph, m)
             /\ \A v \in PortsOf(graph, m) :
                  v \in {p.enable, p.address} \/ v \in {p.writeEnable, p.data}
<1>1. graph.ports[m] \in Ports
  BY DEF IsGraph, Memories
<1> QED
  BY <1>1, GraphsAssumption DEF PortsOf, Ports, Writable

\* Assignments give the ports their values and take what is loaded.
LEMMA AroundMemory ==
  ASSUME IsGraph(graph), NEW m \in Memories
  PROVE  /\ \A v \in PortsOf(graph, m) : \A a \in Sources(v) :
              graph.kind[a] = "assignment" /\ \A w \in Users(a) : w = v
         /\ \A a \in Users(m) : /\ graph.kind[a] = "assignment"
                                /\ \A p \in Preds(graph.value, a) : p = m
                                /\ m \in Preds(graph.value, a)
                                /\ \A u \in Users(a) : graph.kind[u] = "variable"
         /\ \A a \in Users(m), k \in Memories : Users(a) \cap PortsOf(graph, k) = {}
<1>1. /\ m \in DOMAIN graph.ports /\ DOMAIN graph.ports = Memories
      /\ AssignmentsAreSingle(graph) /\ MemoriesSeparate(graph)
  BY DEF IsGraph, Memories
<1>2. ASSUME NEW a \in Node, graph.kind[a] = "assignment"
      PROVE  /\ \A v, w \in Users(a) : v = w
             /\ \A v, w \in Preds(graph.value, a) : v = w
             /\ \A v \in Users(a) : graph.kind[v] \in {"variable", "control"}
  BY <1>1, <1>2 DEF AssignmentsAreSingle, Users, Edges
<1>3. ASSUME NEW v \in PortsOf(graph, m), NEW a, a \in Sources(v)
      PROVE  graph.kind[a] = "assignment" /\ \A w \in Users(a) : w = v
  <2>1. v \in Data /\ graph.kind[v] = "variable"
    BY NearMemoryIsData
  <2>2. graph.kind[a] = "assignment" /\ a \in Data
    BY <1>3, <2>1, SourcesOfVariables
  <2> QED
    BY <1>2, <1>3, <2>2, UsersSources DEF Data
<1>4. ASSUME NEW a \in Users(m)
      PROVE  /\ graph.kind[a] = "assignment"
             /\ m \in Preds(graph.value, a)
             /\ a \in Node
  <2>1. graph.kind[a] = "assignment" /\ a \notin Succs(graph.cond, m)
    BY <1>1, <1>4 DEF MemoriesSeparate, Users, Edges
  <2>2. \E e \in Edges : e[1] = m /\ e[2] = a
    BY <1>4 DEF Users, Succs
  <2>3. \A e \in graph.cond : ~(e[1] = m /\ e[2] = a)
    BY <2>1 DEF Succs
  <2> QED
    BY <1>4, <2>1, <2>2, <2>3, NeighboursAreNodes DEF Preds, Edges
<1>5. ASSUME NEW a \in Users(m), NEW u \in Users(a)
      PROVE  graph.kind[u] = "variable"
  <2>1. u \in Data
    BY <1>5, NearMemoryIsData
  <2> QED
    BY <1>2, <1>4, <1>5, <2>1 DEF Data
<1>6. \A a \in Users(m), k \in Memories : Users(a) \cap PortsOf(graph, k) = {}
  BY <1>1 DEF MemoriesSeparate, Users, Edges
<1> QED
  BY <1>2, <1>3, <1>4, <1>5, <1>6

\* What make_memories_more_precise may touch for the memory m.
Touched(m) ==
  {m} \cup PortsOf(graph, m) \cup (UNION {Sources(v) : v \in PortsOf(graph, m)})
    \cup Users(m) \cup (UNION {Users(a) : a \in Users(m)})

LEMMA TouchedCases ==
  ASSUME NEW m, NEW n, n \in Touched(m)
  PROVE  \/ n = m \/ n \in PortsOf(graph, m) \/ n \in Users(m)
         \/ \E v \in PortsOf(graph, m) : n \in Sources(v)
         \/ \E a \in Users(m) : n \in Users(a)
<1>1. n \in UNION {Sources(v) : v \in PortsOf(graph, m)} =>
        \E v \in PortsOf(graph, m) : n \in Sources(v)
  OBVIOUS
<1>2. n \in UNION {Users(a) : a \in Users(m)} => \E a \in Users(m) : n \in Users(a)
  OBVIOUS
<1> QED
  BY <1>1, <1>2 DEF Touched

LEMMA TouchedApart ==
  ASSUME IsGraph(graph), NEW m \in Memories, NEW k \in Memories, m # k,
         NEW n \in {k} \cup PortsOf(graph, k) \cup Users(k)
                     \cup UNION {Sources(v) : v \in PortsOf(graph, k)}
  PROVE  n \notin Touched(m)
<1>1. graph.kind[m] = "memory" /\ graph.kind[k] = "memory"
  BY DEF Memories
<1>2. PortsOf(graph, m) \cap PortsOf(graph, k) = {}
  <2>1. m \in DOMAIN graph.ports /\ k \in DOMAIN graph.ports
    BY NearMemoryIsData
  <2> QED
    BY <2>1 DEF IsGraph, MemoriesSeparate
<1>3. \A j \in Memories : \A v \in PortsOf(graph, j) : graph.kind[v] = "variable"
  BY NearMemoryIsData
<1>4. CASE n = k
  BY <1>1, <1>3, <1>4, AroundMemory, TouchedCases
<1>5. CASE n \in PortsOf(graph, k)
  <2>1. graph.kind[n] = "variable"
    BY <1>3, <1>5
  <2>2. \A a \in Users(m) : n \notin Users(a)
    BY <1>5, AroundMemory
  <2> QED
    BY <1>1, <1>2, <1>5, <2>1, <2>2, AroundMemory, TouchedCases
<1>6. CASE n \in Users(k)
  <2>1. graph.kind[n] = "assignment"
    BY <1>6, AroundMemory
  <2>2. n \notin Users(m)
    BY <1>6, AroundMemory
  <2>3. \A v \in PortsOf(graph, m) : n \notin Sources(v)
    BY <1>6, AroundMemory, UsersSources
  <2>4. \A a \in Users(m) : n \notin Users(a)
    BY <2>1, AroundMemory
  <2> QED
    BY <1>1, <1>3, <2>1, <2>2, <2>3, <2>4, TouchedCases
<1>7. ASSUME NEW v \in PortsOf(graph, k), n \in Sources(v)
      PROVE  n \notin Touched(m)
  <2>1. graph.kind[n] = "assignment" /\ v \in Users(n)
    BY <1>7, AroundMemory, UsersSources
  <2>2. n \notin Users(m)
    BY <1>7, <2>1, AroundMemory
  <2>3. \A w \in PortsOf(graph, m) : n \notin Sources(w)
    BY <1>2, <2>1, AroundMemory
  <2>4. \A a \in Users(m) : n \notin Users(a)
    BY <2>1, AroundMemory
  <2> QED
    BY <1>1, <1>3, <2>1, <2>2, <2>3, <2>4, TouchedCases
<1> QED
  BY <1>4, <1>5, <1>6, <1>7

----------------------------------------------------------------------------
(* One memory is made more precise.                                        *)

LEMMA WithWritesEffect ==
  ASSUME NEW m, NEW f, NEW S, NEW T, NEW n
  PROVE  LET p == graph.ports[m]
             w == WithWrites(f, m, S, T)
         IN  /\ {p.writeEnable, p.data} \cup Sources(p.writeEnable) \cup Sources(p.data)
                  \subseteq DOMAIN w
             /\ n \in DOMAIN f /\ n \notin {p.data, p.writeEnable} \cup Sources(p.writeEnable)
                  => n \in DOMAIN w /\ w[n] = f[n]
<1> DEFINE p == graph.ports[m]
           f1 == Overridden(f, {p.data, p.writeEnable}, T)
           f2 == Overridden(f1, WriteEnabling(m), T)
           f3 == Overridden(f2, Sources(p.writeEnable) \ WriteEnabling(m), S \ T)
           w == Completed(f3, Sources(p.data), T)
<1>1. WriteEnabling(m) \subseteq Sources(p.writeEnable)
  BY DEF WriteEnabling, SettingToOne
<1>2. /\ DOMAIN f1 = DOMAIN f \cup {p.data, p.writeEnable}
      /\ n \in DOMAIN f \ {p.data, p.writeEnable} => f1[n] = f[n]
  BY DEF Overridden
<1> HIDE DEF p, f1
<1>3. /\ DOMAIN f2 = DOMAIN f1 \cup WriteEnabling(m)
      /\ n \in DOMAIN f1 \ WriteEnabling(m) => f2[n] = f1[n]
  BY DEF Overridden
<1> HIDE DEF f2
<1>4. /\ DOMAIN f3 = DOMAIN f2 \cup (Sources(p.writeEnable) \ WriteEnabling(m))
      /\ n \in DOMAIN f2 \ (Sources(p.writeEnable) \ WriteEnabling(m)) => f3[n] = f2[n]
  BY DEF Overridden
<1> HIDE DEF f3
<1>5. /\ DOMAIN w = DOMAIN f3 \cup Sources(p.data)
      /\ n \in DOMAIN f3 => w[n] = f3[n]
  BY DEF Overridden, Completed
<1>6. w = WithWrites(f, m, S, T)
  BY DEF WithWrites, f1, f2, f3, p
<1> HIDE DEF w
<1>7. /\ {p.writeEnable, p.data} \cup Sources(p.writeEnable) \cup Sources(p.data) \subseteq DOMAIN w
      /\ n \in DOMAIN f /\ n \notin {p.data, p.writeEnable} \cup Sources(p.writeEnable)
           => n \in DOMAIN w /\ w[n] = f[n]
  BY <1>1, <1>2, <1>3, <1>4, <1>5
<1> QED
  BY <1>6, <1>7 DEF p

LEMMA WithLoadsEffect ==
  ASSUME NEW m, NEW f, NEW S, NEW L, NEW n
  PROVE  LET p == graph.ports[m]
             arrived == Users(m) \cup UNION {Users(a) : a \in Users(m)}
             l == WithLoads(f, m, S, L)
         IN  /\ DOMAIN f \cup {m, p.enable, p.address} \cup Sources(p.enable)
                  \cup Sources(p.address) \cup Users(m) \subseteq DOMAIN l
             /\ n \in {m, p.enable, p.address} \ arrived => l[n] = S
             /\ n \in Users(m) => l[n] = UNION {Succs(graph.fsm, s) : s \in L}
             /\ n \in DOMAIN f /\ n \notin {m, p.enable, p.address} \cup arrived => l[n] = f[n]
<1> DEFINE p == graph.ports[m]
           arriving == UNION {Succs(graph.fsm, s) : s \in L}
           arrived == Users(m) \cup UNION {Users(a) : a \in Users(m)}
           f1 == Overridden(f, {p.enable, p.address, m}, S)
           f2 == Completed(f1, Sources(p.address) \cup Sources(p.enable), S)
           l == Overridden(f2, arrived, arriving)
<1>1. /\ DOMAIN f1 = DOMAIN f \cup {p.enable, p.address, m}
      /\ n \in {p.enable, p.address, m} => f1[n] = S
      /\ n \in DOMAIN f \ {p.enable, p.address, m} => f1[n] = f[n]
  BY DEF Overridden
<1> HIDE DEF p, f1
<1>2. /\ DOMAIN f2 = DOMAIN f1 \cup (Sources(p.address) \cup Sources(p.enable))
      /\ n \in DOMAIN f1 => f2[n] = f1[n]
  BY DEF Overridden, Completed
<1>4. Users(m) \subseteq arrived
  OBVIOUS
<1> HIDE DEF f2, arriving, arrived
<1>3. /\ DOMAIN l = DOMAIN f2 \cup arrived
      /\ n \in arrived => l[n] = arriving
      /\ n \in DOMAIN f2 \ arrived => l[n] = f2[n]
  BY DEF Overridden
<1>5. l = WithLoads(f, m, S, L)
  BY DEF WithLoads, p, arriving, arrived, f1, f2
<1> HIDE DEF l
<1>6. /\ DOMAIN f \cup {m, p.enable, p.address} \cup Sources(p.enable)
           \cup Sources(p.address) \cup Users(m) \subseteq DOMAIN l
      /\ n \in {m, p.enable, p.address} \ arrived => l[n] = S
      /\ n \in Users(m) => l[n] = arriving
      /\ n \in DOMAIN f /\ n \notin {m, p.enable, p.address} \cup arrived => l[n] = f[n]
  BY <1>1, <1>2, <1>3, <1>4
<1> QED
  BY <1>5, <1>6 DEF p, arriving, arrived

\* Everything near m has states.
Complete(m) ==
  LET p == graph.ports[m]
  IN  /\ {m, p.enable, p.address} \cup Users(m) \cup Sources(p.enable) \cup Sources(p.address)
           \subseteq DOMAIN states
      /\ Writable(m) => {p.writeEnable, p.data} \cup Sources(p.writeEnable) \cup Sources(p.data)
                          \subseteq DOMAIN states

\* f has m and its enabling assignments in the same states, and what m loads
\* in states that follow.
Correct(f, m) ==
  LET p == graph.ports[m]
  IN  /\ {m, p.enable} \cup Enabling(m) \cup Users(m) \subseteq DOMAIN f
      /\ f[m] = StatesOfAll(f, Enabling(m))
      /\ f[p.enable] = f[m]
      /\ \A a \in Users(m) : f[a] \subseteq UNION {Succs(graph.fsm, s) : s \in f[m]}

LEMMA SameStatesOfAll ==
  ASSUME NEW f, NEW g, NEW N, \A n \in N : n \in DOMAIN f /\ n \in DOMAIN g /\ g[n] = f[n]
  PROVE  StatesOfAll(g, N) = StatesOfAll(f, N)
<1>1. \A n \in N : StatesOf(g, n, {}) = StatesOf(f, n, {})
  BY DEF StatesOf
<1> QED
  BY <1>1 DEF StatesOfAll

LEMMA CorrectSame ==
  ASSUME NEW f, NEW m, Correct(f, m), NEW g,
         \A n \in {m, graph.ports[m].enable} \cup Enabling(m) \cup Users(m) :
           n \in DOMAIN g /\ g[n] = f[n]
  PROVE  Correct(g, m)
<1>1. StatesOfAll(g, Enabling(m)) = StatesOfAll(f, Enabling(m))
  BY SameStatesOfAll DEF Correct
<1> QED
  BY <1>1 DEF Correct

LEMMA MakePreciseEffect ==
  ASSUME IsGraph(graph), NEW m \in Memories, MakePrecise(m)
  PROVE  /\ Complete(m)' /\ Correct(states', m)
         /\ \A n \in DOMAIN states \ Touched(m) : n \in DOMAIN states' /\ states'[n] = states[n]
<1> DEFINE p == graph.ports[m]
           arrived == Users(m) \cup UNION {Users(a) : a \in Users(m)}
<1>1. PICK E, W, f :
        /\ E = StatesOfAll(states, Enabling(m))
        /\ f = IF Writable(m) THEN WithWrites(states, m, E, W) ELSE states
        /\ states' = WithLoads(f, m, E, E \ W)
  <2> DEFINE E == StatesOfAll(states, Enabling(m))
             W == IF Writable(m) THEN StatesOfAll(states, WriteEnabling(m)) ELSE {}
             f == IF Writable(m) THEN WithWrites(states, m, E, W) ELSE states
  <2>1. states' = WithLoads(f, m, E, E \ W)
    BY DEF MakePrecise
  <2> QED
    BY <2>1
<1>2. Enabling(m) \subseteq DOMAIN states /\ graph' = graph
  BY DEF MakePrecise
<1>3. /\ DOMAIN states \subseteq DOMAIN f
      /\ Writable(m) => {p.writeEnable, p.data} \cup Sources(p.writeEnable) \cup Sources(p.data)
                          \subseteq DOMAIN f
  BY <1>1, WithWritesGrows, WithWritesEffect
<1>4. ASSUME NEW n \in DOMAIN states,
             Writable(m) => n \notin {p.data, p.writeEnable} \cup Sources(p.writeEnable)
      PROVE  n \in DOMAIN f /\ f[n] = states[n]
  BY <1>1, <1>4, WithWritesEffect
<1>5. ASSUME NEW n
      PROVE  /\ DOMAIN f \cup {m, p.enable, p.address} \cup Sources(p.enable)
                  \cup Sources(p.address) \cup Users(m) \subseteq DOMAIN states'
             /\ n \in {m, p.enable, p.address} \ arrived => states'[n] = E
             /\ n \in Users(m) => states'[n] = UNION {Succs(graph.fsm, s) : s \in E \ W}
             /\ n \in DOMAIN f /\ n \notin {m, p.enable, p.address} \cup arrived
                  => states'[n] = f[n]
  BY <1>1, WithLoadsEffect
<1> HIDE DEF arrived
<1>6. Complete(m)'
  <2>1. /\ {m, p.enable, p.address} \cup Users(m) \cup Sources(p.enable) \cup Sources(p.address)
              \subseteq DOMAIN states'
        /\ Writable(m) => {p.writeEnable, p.data} \cup Sources(p.writeEnable) \cup Sources(p.data)
                            \subseteq DOMAIN states'
    BY <1>3, <1>5
  <2> QED
    BY <1>2, <2>1 DEF Complete, Writable, Users, Sources, Edges
<1>7. /\ p.enable \in PortsOf(graph, m) /\ p.address \in PortsOf(graph, m)
      /\ Writable(m) => {p.writeEnable, p.data} \subseteq PortsOf(graph, m)
      /\ graph.kind[m] = "memory"
      /\ \A v \in PortsOf(graph, m) : graph.kind[v] = "variable"
  BY PortsOfMemory, NearMemoryIsData DEF Memories
<1>8. \A n \in arrived : /\ graph.kind[n] \in {"assignment", "variable"}
                         /\ n \notin PortsOf(graph, m)
  BY <1>7, AroundMemory DEF arrived
<1>9. \A n \in arrived \cup {m} \cup PortsOf(graph, m)
               \cup (UNION {Sources(v) : v \in PortsOf(graph, m)}) : n \in Touched(m)
  BY DEF arrived, Touched
<1>10. ASSUME NEW a \in Enabling(m)
       PROVE  a \in DOMAIN states' /\ states'[a] = states[a]
  <2>1. a \in Sources(p.enable)
    BY DEF Enabling, SettingToOne
  <2>2. graph.kind[a] = "assignment" /\ \A w \in Users(a) : w = p.enable
    BY <1>7, <2>1, AroundMemory
  <2>3. a \notin Users(m) /\ \A b \in Users(m) : a \notin Users(b)
    BY <1>7, <2>1, <2>2, AroundMemory, UsersSources
  <2>4. a \notin arrived
    BY <2>3 DEF arrived
  <2>5. Writable(m) => p.writeEnable # p.enable
    BY <1>7, NearMemoryIsData DEF IsGraph, MemoriesSeparate
  <2>6. Writable(m) => a \notin {p.data, p.writeEnable} \cup Sources(p.writeEnable)
    BY <1>7, <2>2, <2>5, UsersSources
  <2>7. a \notin {m, p.enable, p.address}
    BY <1>7, <2>2
  <2> QED
    BY <1>2, <1>4, <1>5, <2>4, <2>6, <2>7
<1>11. states'[m] = E /\ states'[p.enable] = E
  BY <1>5, <1>7, <1>8
<1>12. E = StatesOfAll(states', Enabling(m))
  BY <1>1, <1>2, <1>10, SameStatesOfAll
<1>13. \A a \in Users(m) : states'[a] \subseteq UNION {Succs(graph.fsm, s) : s \in E}
  BY <1>5
<1>14. Correct(states', m)
  BY <1>5, <1>10, <1>11, <1>12, <1>13 DEF Correct
<1>15. ASSUME NEW n \in DOMAIN states \ Touched(m)
       PROVE  n \in DOMAIN states' /\ states'[n] = states[n]
  <2>1. n \notin arrived /\ n \notin {m, p.enable, p.address}
    BY <1>7, <1>9
  <2>2. Writable(m) => n \notin {p.data, p.writeEnable} \cup Sources(p.writeEnable)
    BY <1>7, <1>9
  <2> QED
    BY <1>3, <1>4, <1>5, <2>1, <2>2
<1> QED
  BY <1>6, <1>14, <1>15

----------------------------------------------------------------------------
(* From there to the end.  The last backward refinement leaves the memory  *)
(* alone, so it takes no state from the port that enables it, nor from the *)
(* assignments to that port.                                               *)

LEMMA RefinedCorrect ==
  ASSUME IInv, Shrunk, pc = "refine_memories", NEW m \in Memories, Correct(before, m),
         StatesOf(states, m, State) = before[m]
  PROVE  Correct(states, m)
<1> DEFINE v == graph.ports[m].enable
<1>1. /\ IsGraph(graph) /\ Refining /\ Ignored = Memories
      /\ v \in PortsOf(graph, m) /\ v \in Data /\ graph.kind[v] = "variable"
      /\ \A a \in Sources(v) : a \in Data /\ graph.kind[a] = "assignment"
      /\ \A a \in Users(m) : a \in Data /\ graph.kind[a] = "assignment"
      /\ m \in Data
  BY PortsOfMemory, NearMemoryIsData, AroundMemory, MemoryNeighbours
     DEF IInv, TypeOK, Refining, Ignored
<1>2. m \in Users(v)
  <2>1. v \in Preds(graph.value, m)
    BY <1>1, NearMemoryIsData DEF IsGraph, MemoriesSeparate
  <2> QED
    BY <2>1 DEF Users, Edges, Succs, Preds
<1> HIDE DEF v
<1>3. \A n \in Memories : graph.kind[n] = "memory"
  BY DEF Memories
<1>4. /\ {m, v} \cup Enabling(m) \cup Users(m) \subseteq DOMAIN before
      /\ before[m] = StatesOfAll(before, Enabling(m)) /\ before[v] = before[m]
      /\ \A a \in Users(m) : before[a] \subseteq UNION {Succs(graph.fsm, s) : s \in before[m]}
  BY DEF Correct, v
<1>5. \A n \in DOMAIN before \cap Data :
        n \in DOMAIN states /\ states[n] \subseteq before[n]
  BY <1>1 DEF Shrunk, StatesOf
<1>6. ASSUME NEW n \in Data, n \in DOMAIN before, graph.kind[n] # "memory",
             NEW u \in Users(n), u \in DOMAIN states
      PROVE  before[n] \cap states[u] \subseteq states[n]
  <2>1. n \in Data \ Ignored /\ n \in DOMAIN states
    BY <1>1, <1>3, <1>5, <1>6
  <2> QED
    BY <1>1, <1>6, <2>1 DEF IInv, NoUseLost, StatesOf
<1>7. m \in DOMAIN states /\ states[m] = before[m]
  BY <1>1, <1>4, <1>5 DEF StatesOf
<1>8. v \in DOMAIN states /\ states[v] = before[m]
  BY <1>1, <1>2, <1>4, <1>5, <1>6, <1>7
<1>9. ASSUME NEW a \in Enabling(m)
      PROVE  a \in DOMAIN states /\ states[a] = before[a]
  <2>1. a \in Sources(v) /\ v \in Users(a) /\ a \in DOMAIN before
    BY <1>4, UsersSources DEF Enabling, SettingToOne, v
  <2>2. before[a] \subseteq before[m]
    <3>1. StatesOf(before, a, {}) \subseteq StatesOfAll(before, Enabling(m))
      BY DEF StatesOfAll
    <3> QED
      BY <1>4, <2>1, <3>1 DEF StatesOf
  <2>3. /\ a \in Data /\ graph.kind[a] # "memory"
        /\ a \in DOMAIN states /\ states[a] \subseteq before[a]
    BY <1>1, <1>5, <2>1
  <2>4. before[a] \cap states[v] \subseteq states[a]
    BY <1>6, <1>8, <2>1, <2>3
  <2> QED
    BY <1>8, <2>2, <2>3, <2>4
<1>10. StatesOfAll(states, Enabling(m)) = StatesOfAll(before, Enabling(m))
  BY <1>4, <1>9, SameStatesOfAll
<1>11. \A a \in Users(m) : a \in DOMAIN states /\ states[a] \subseteq before[a]
  BY <1>1, <1>4, <1>5
<1> QED
  BY <1>4, <1>7, <1>8, <1>9, <1>10, <1>11 DEF Correct, v

\* What the forward pass has to leave alone.
Fixed ==
  Guarded \cup Memories
    \cup (UNION {PortsOf(graph, m) \cup Users(m) : m \in Memories})
    \cup (UNION {UNION {Sources(v) : v \in PortsOf(graph, m)} : m \in Memories})

LEMMA FixedCases ==
  ASSUME NEW n
  PROVE  n \in Fixed <=>
           \/ n \in Guarded \/ n \in Memories
           \/ \E m \in Memories : \/ n \in PortsOf(graph, m) \/ n \in Users(m)
                                  \/ \E v \in PortsOf(graph, m) : n \in Sources(v)
<1>1. n \in UNION {PortsOf(graph, m) \cup Users(m) : m \in Memories} <=>
        \E m \in Memories : n \in PortsOf(graph, m) \/ n \in Users(m)
  OBVIOUS
<1>2. n \in UNION {UNION {Sources(v) : v \in PortsOf(graph, m)} : m \in Memories} <=>
        \E m \in Memories : \E v \in PortsOf(graph, m) : n \in Sources(v)
  OBVIOUS
<1> QED
  BY <1>1, <1>2 DEF Fixed

LEMMA FixedIsSelf ==
  ASSUME IsGraph(graph), PortsGuarded
  PROVE  Self(Fixed)
<1>1. ASSUME NEW n \in Fixed PROVE n \in Data
  BY <1>1, FixedCases, NearMemoryIsData, MemoryNeighbours DEF Guarded
<1>2. ASSUME NEW n \in Fixed, NEW p \in Preds(graph.value, n) \cap Data
      PROVE  p \in Fixed \/ graph.kind[p] = "value"
  <2>1. CASE n \in Guarded
    BY <2>1, GuardedIsSelf, FixedCases DEF Self
  <2>2. CASE n \in Memories
    <3>1. p \in PortsOf(graph, n)
      BY <2>2, NearMemoryIsData DEF IsGraph, MemoriesSeparate
    <3> QED
      BY <2>2, <3>1, FixedCases
  <2>3. ASSUME NEW m \in Memories, n \in PortsOf(graph, m)
        PROVE  p \in Fixed
    <3>1. p \in Sources(n)
      BY DEF Sources, Edges, Preds
    <3> QED
      BY <2>3, <3>1, FixedCases
  <2>4. ASSUME NEW m \in Memories, n \in Users(m)
        PROVE  p \in Fixed
    <3>1. p = m
      BY <2>4, AroundMemory
    <3> QED
      BY <3>1, FixedCases
  <2>5. ASSUME NEW m \in Memories, NEW v \in PortsOf(graph, m), n \in Sources(v)
        PROVE  p \in Fixed \/ graph.kind[p] = "value"
    <3>1. CASE CompletedLiteral(m, v, n)
      BY <3>1 DEF CompletedLiteral
    <3>2. CASE n \in Seeded \/ ReachesSeed(n) # {}
      <4>1. n \in Guarded
        BY <1>1, <3>2, ReachesItself DEF Guarded
      <4> QED
        BY <4>1, GuardedIsSelf, FixedCases DEF Self
    <3> QED
      BY <2>5, <3>1, <3>2 DEF PortsGuarded
  <2> QED
    BY <2>1, <2>2, <2>3, <2>4, <2>5, FixedCases
<1> QED
  BY <1>1, <1>2 DEF Self

LEMMA FixedHaveStates ==
  ASSUME IsGraph(graph), PortsGuarded, Guarded \subseteq DOMAIN states, PortsHaveStates,
         \A m \in Memories : Complete(m)
  PROVE  Fixed \subseteq DOMAIN states
<1> SUFFICES ASSUME NEW n \in Fixed PROVE n \in DOMAIN states
  OBVIOUS
<1>1. ASSUME NEW m \in Memories, NEW v \in PortsOf(graph, m)
      PROVE  v \in DOMAIN states /\ Sources(v) \subseteq DOMAIN states
  <2>1. CASE v \in {graph.ports[m].enable, graph.ports[m].address} \/ Writable(m)
    BY <2>1, PortsOfMemory DEF Complete
  <2>2. CASE ~(v \in {graph.ports[m].enable, graph.ports[m].address} \/ Writable(m))
    <3>1. ASSUME NEW a, a \in Sources(v) PROVE a \in Guarded
      <4>1. a \in Data
        BY <3>1, NearMemoryIsData
      <4>2. a \in Seeded \/ ReachesSeed(a) # {}
        BY <2>2, <3>1 DEF PortsGuarded, CompletedLiteral
      <4> QED
        BY <4>1, <4>2, ReachesItself DEF Guarded
    <3>2. Sources(v) \subseteq Guarded
      BY <3>1
    <3> QED
      BY <3>2 DEF PortsHaveStates
  <2> QED
    BY <2>1, <2>2
<1>2. \A m \in Memories : m \in DOMAIN states /\ Users(m) \subseteq DOMAIN states
  BY DEF Complete
<1> QED
  BY <1>1, <1>2, FixedCases

LoadInv ==
  /\ pc \in {"memories", "refine_memories"} => \A m \in Memories \ memories : Complete(m)
  /\ pc = "memories" => \A m \in Memories \ memories : Correct(states, m)
  /\ pc = "refine_memories" =>
       /\ memories = {}
       /\ \A m \in Memories : Correct(before, m) /\ StatesOf(states, m, State) = before[m]
  /\ pc = "forward" /\ SeedsNonempty /\ PortsGuarded =>
       Spared(Fixed) /\ \A m \in Memories : Correct(states, m)
  /\ LoadsFollowEnables

\* The operators on the graph mean the same after a step.
LEMMA GraphStays ==
  ASSUME graph' = graph
  PROVE  /\ Data' = Data /\ Memories' = Memories /\ Seeded' = Seeded /\ Guarded' = Guarded
         /\ Fixed' = Fixed /\ (SeedsNonempty' <=> SeedsNonempty)
         /\ (PortsGuarded' <=> PortsGuarded)
         /\ \A m : Users(m)' = Users(m) /\ Enabling(m)' = Enabling(m)
         /\ \A m : Correct(states, m)' <=> Correct(states', m)
         /\ \A m : Correct(before, m)' <=> Correct(before', m)
         /\ \A m : Complete(m) /\ DOMAIN states \subseteq DOMAIN states' => Complete(m)'
<1>1. /\ Data' = Data /\ Memories' = Memories /\ Seeded' = Seeded
      /\ SeedsNonempty' <=> SeedsNonempty
      /\ \A n : ReachesSeed(n)' = ReachesSeed(n)
      /\ \A n : Users(n)' = Users(n) /\ Sources(n)' = Sources(n)
  BY DEF Data, Memories, Seeded, SeedsNonempty, ReachesSeed, Users, Sources, Edges
<1>2. Guarded' = Guarded
  BY <1>1 DEF Guarded
<1>3. Fixed' = Fixed
  BY <1>1, <1>2 DEF Fixed
<1>4. \A m, v, a : CompletedLiteral(m, v, a)' <=> CompletedLiteral(m, v, a)
  BY DEF CompletedLiteral, Writable
<1>5. PortsGuarded' <=> PortsGuarded
  BY <1>1, <1>4 DEF PortsGuarded
<1>6. \A m : Enabling(m)' = Enabling(m)
  BY <1>1 DEF Enabling, SettingToOne
<1>7. \A m : Correct(states, m)' <=> Correct(states', m)
  BY <1>1, <1>6 DEF Correct, StatesOfAll, StatesOf
<1>8. \A m : Correct(before, m)' <=> Correct(before', m)
  BY <1>1, <1>6 DEF Correct, StatesOfAll, StatesOf
<1>9. \A m : Complete(m) /\ DOMAIN states \subseteq DOMAIN states' => Complete(m)'
  BY <1>1 DEF Complete, Writable
<1> QED
  BY <1>1, <1>2, <1>3, <1>5, <1>6, <1>7, <1>8, <1>9

LEMMA MakePreciseLoads ==
  ASSUME TypeOK, LoadInv, NEW m \in Memories, MakePrecise(m)
  PROVE  LoadInv'
<1>1. /\ pc = "memories" /\ pc' = "memories" /\ memories' = memories \ {m}
      /\ graph' = graph /\ IsGraph(graph) /\ DOMAIN states \subseteq DOMAIN states'
  <2>1. MakePrecise(m) => Next
    BY DEF Next
  <2> QED
    BY <2>1, StatesStay DEF MakePrecise, TypeOK
<1>2. ASSUME NEW k \in Memories \ memories'
      PROVE  Complete(k)' /\ Correct(states', k)
  <2>1. CASE k = m
    BY <1>1, <2>1, MakePreciseEffect
  <2>2. CASE k # m
    <3>1. k \in Memories \ memories /\ Complete(k) /\ Correct(states, k)
      BY <1>1, <1>2, <2>2 DEF LoadInv
    <3>2. ASSUME NEW n \in {k, graph.ports[k].enable} \cup Enabling(k) \cup Users(k)
          PROVE  n \in DOMAIN states' /\ states'[n] = states[n]
      <4>1. graph.ports[k].enable \in PortsOf(graph, k)
        BY <1>1, <3>1, PortsOfMemory
      <4>2. Enabling(k) \subseteq UNION {Sources(v) : v \in PortsOf(graph, k)}
        BY <4>1 DEF Enabling, SettingToOne
      <4>3. n \in {k} \cup PortsOf(graph, k) \cup Users(k)
                    \cup UNION {Sources(v) : v \in PortsOf(graph, k)}
        BY <4>1, <4>2
      <4>4. n \notin Touched(m)
        BY <1>1, <2>2, <3>1, <4>3, TouchedApart
      <4>5. n \in DOMAIN states
        BY <3>1 DEF Correct
      <4> QED
        BY <1>1, <4>4, <4>5, MakePreciseEffect
    <3> QED
      BY <1>1, <3>1, <3>2, GraphStays, CorrectSame
  <2> QED
    BY <2>1, <2>2
<1> QED
  BY <1>1, <1>2, GraphStays DEF LoadInv, LoadsFollowEnables

LEMMA FinishLoads ==
  ASSUME TypeOK, LoadInv, Finish
  PROVE  LoadInv'
<1>1. /\ pc = "forward" /\ pc' \in {"returned", "failed"} /\ graph' = graph /\ IsGraph(graph)
  BY DEF Finish, TypeOK
<1>2. ASSUME SeedsNonempty, PortsGuarded, NEW m \in Memories
      PROVE  /\ states'[m] = StatesOfAll(states', Enabling(m))
             /\ \A a \in Users(m) :
                  states'[a] \subseteq UNION {Succs(graph.fsm, s) : s \in states'[m]}
  <2>1. Correct(states, m)
    BY <1>1, <1>2 DEF LoadInv
  <2>2. graph.ports[m].enable \in PortsOf(graph, m) /\ graph.kind[m] = "memory"
    BY <1>1, PortsOfMemory DEF Memories
  <2>3. \A n \in {m} \cup Enabling(m) \cup Users(m) :
          n \in DOMAIN states /\ graph.kind[n] \notin {"variable", "value"}
    BY <1>1, <2>1, <2>2, AroundMemory DEF Correct, Enabling, SettingToOne
  <2>4. \A n \in {m} \cup Enabling(m) \cup Users(m) :
          n \in DOMAIN states' /\ states'[n] = states[n]
    BY <1>1, <2>3, FinishLeaves
  <2>5. StatesOfAll(states', Enabling(m)) = StatesOfAll(states, Enabling(m))
    BY <2>3, <2>4, SameStatesOfAll
  <2> QED
    BY <2>1, <2>4, <2>5 DEF Correct
<1>3. \A m \in Memories : StatesOfAll(states, Enabling(m))' = StatesOfAll(states', Enabling(m))
  BY <1>1, GraphStays DEF StatesOfAll, StatesOf
<1>4. LoadsFollowEnables'
  BY <1>1, <1>2, <1>3, GraphStays DEF LoadsFollowEnables
<1> QED
  BY <1>1, <1>4 DEF LoadInv

\* In these passes LoadInv says nothing.
LEMMA LoadsElsewhere ==
  ASSUME pc' \notin {"memories", "refine_memories", "forward", "returned"}
  PROVE  LoadInv'
BY DEF LoadInv, LoadsFollowEnables

LEMMA RefineLoads ==
  ASSUME LoadInv, graph' = graph, DOMAIN states \subseteq DOMAIN states', NEW n, Refine(n)
  PROVE  LoadInv'
<1>1. CASE pc = "refine"
  BY <1>1, LoadsElsewhere DEF Refine
<1>2. CASE pc = "refine_memories"
  <2>1. /\ pc' = "refine_memories" /\ memories' = memories /\ before' = before
        /\ Ignored = Memories
    BY <1>2 DEF Refine, Ignored
  <2>2. \A m \in Memories : StatesOf(states', m, State) = StatesOf(states, m, State)
    BY <2>1, RefineEffect
  <2> QED
    BY <1>2, <2>1, <2>2, GraphStays DEF LoadInv, LoadsFollowEnables
<1> QED
  BY <1>1, <1>2 DEF Refine, Refining

LEMMA MemoriesDoneLoads ==
  ASSUME LoadInv, graph' = graph, MemoriesDone
  PROVE  LoadInv'
<1>1. /\ pc = "memories" /\ memories = {} /\ memories' = {} /\ pc' = "refine_memories"
      /\ states' = states /\ before' = states
  BY DEF MemoriesDone, EnterRefine
<1>2. \A m \in Memories : Complete(m) /\ Correct(states, m)
  BY <1>1 DEF LoadInv
<1>3. \A m \in Memories : StatesOf(states, m, State) = states[m]
  BY <1>2 DEF Correct, StatesOf
<1> QED
  BY <1>1, <1>2, <1>3, GraphStays DEF LoadInv, LoadsFollowEnables

LEMMA RefineMemoriesDoneLoads ==
  ASSUME IInv, ReachInv, LoadInv, graph' = graph, RefineMemoriesDone
  PROVE  LoadInv'
<1>1. /\ pc = "refine_memories" /\ pc' = "forward" /\ states' = states /\ IsGraph(graph)
      /\ Shrunk
  BY DEF RefineMemoriesDone, IInv, TypeOK, ReachInv
<1>2. \A m \in Memories : Complete(m) /\ Correct(states, m)
  BY <1>1, RefinedCorrect DEF LoadInv
<1>3. ASSUME SeedsNonempty, PortsGuarded
      PROVE  Spared(Fixed)'
  <2>1. Guarded \subseteq DOMAIN states /\ PortsHaveStates
    BY <1>1, <1>3 DEF ReachInv, GuardedHaveStates, AfterBackpropagation
  <2>2. Fixed \subseteq DOMAIN states
    BY <1>1, <1>2, <1>3, <2>1, FixedHaveStates
  <2> QED
    BY <1>1, <2>2, GraphStays, RefineMemoriesDoneSpares DEF Spared
<1> QED
  BY <1>1, <1>2, <1>3, GraphStays DEF LoadInv, LoadsFollowEnables

LEMMA WidenLoads ==
  ASSUME IsGraph(graph), LoadInv, graph' = graph, NEW n \in worklist, Widen(n)
  PROVE  LoadInv'
<1>1. pc = "forward" /\ pc' = "forward"
  BY DEF Widen
<1>2. ASSUME SeedsNonempty, PortsGuarded
      PROVE  Spared(Fixed)' /\ \A m \in Memories : Correct(states', m)
  <2>1. Spared(Fixed) /\ Self(Fixed) /\ \A m \in Memories : Correct(states, m)
    BY <1>1, <1>2, FixedIsSelf DEF LoadInv
  <2>2. Spared(Fixed)'
    BY <2>1, GraphStays, WidenSpares DEF Spared
  <2>3. ASSUME NEW m \in Memories,
               NEW k \in {m, graph.ports[m].enable} \cup Enabling(m) \cup Users(m)
        PROVE  k \in DOMAIN states' /\ states'[k] = states[k]
    <3>1. graph.ports[m].enable \in PortsOf(graph, m)
      BY PortsOfMemory
    <3>2. k \in Fixed
      BY <2>3, <3>1, FixedCases DEF Enabling, SettingToOne
    <3> QED
      BY <2>1, <3>2, WidenSpares DEF Spared
  <2> QED
    BY <2>1, <2>2, <2>3, CorrectSame
<1> QED
  BY <1>1, <1>2, GraphStays DEF LoadInv, LoadsFollowEnables

LEMMA UnchangedLoads ==
  ASSUME LoadInv, UNCHANGED vars
  PROVE  LoadInv'
<1>1. /\ graph' = graph /\ states' = states /\ worklist' = worklist
      /\ memories' = memories /\ before' = before /\ pc' = pc
  BY DEF vars
<1>2. \A m \in Memories : StatesOfAll(states, Enabling(m))' = StatesOfAll(states, Enabling(m))
  BY <1>1, GraphStays DEF StatesOfAll, StatesOf
<1>3. Spared(Fixed)' <=> Spared(Fixed)
  BY <1>1, GraphStays DEF Spared
<1>4. LoadsFollowEnables'
  BY <1>1, <1>2, GraphStays DEF LoadInv, LoadsFollowEnables
<1> QED
  BY <1>1, <1>3, <1>4, GraphStays DEF LoadInv

LEMMA LoadInvStep == IInv /\ ReachInv /\ LoadInv /\ [Next]_vars => LoadInv'
<1> SUFFICES ASSUME IInv, ReachInv, LoadInv, [Next]_vars PROVE LoadInv'
  OBVIOUS
<1>1. TypeOK /\ IsGraph(graph) /\ graph' = graph /\ DOMAIN states \subseteq DOMAIN states'
  BY StatesStay DEF IInv, TypeOK
<1>2. CASE \E n \in worklist : Refine(n)
  BY <1>1, <1>2, RefineLoads
<1>3. CASE \E m \in Memories : MakePrecise(m)
  BY <1>1, <1>3, MakePreciseLoads
<1>4. CASE MemoriesDone
  BY <1>1, <1>4, MemoriesDoneLoads
<1>5. CASE RefineMemoriesDone
  BY <1>1, <1>5, RefineMemoriesDoneLoads
<1>6. CASE \E n \in worklist : Widen(n)
  BY <1>1, <1>6, WidenLoads
<1>7. CASE Finish
  BY <1>1, <1>7, FinishLoads
<1>8. CASE RefineDone
  <2>1. pc' = "memories" /\ Memories \ memories' = {} /\ Memories' = Memories
    BY <1>1, <1>8, GraphStays DEF RefineDone
  <2> QED
    BY <2>1 DEF LoadInv, LoadsFollowEnables
<1>9. CASE \/ \E n \in worklist : Backpropagate(n)
           \/ BackpropagateDone
           \/ \E m \in Memories : NoEnablingStates(m) \/ NoWritingStates(m)
  <2>1. pc' \in {"backpropagate", "refine", "crashed"}
    BY <1>9 DEF Backpropagate, BackpropagateDone, EnterRefine, NoEnablingStates, NoWritingStates
  <2> QED
    BY <2>1, LoadsElsewhere
<1>10. CASE UNCHANGED vars
  BY <1>10, UnchangedLoads
<1> QED
  BY <1>2, <1>3, <1>4, <1>5, <1>6, <1>7, <1>8, <1>9, <1>10 DEF Next

(***************************************************************************)
(* make_memories_more_precise is not undone: whatever the order of the     *)
(* later passes, a memory is returned with the states that enable it, and  *)
(* what it loads with states that follow them, if what its ports are set   *)
(* to contributes to a guarded assignment and every condition is true in   *)
(* some state.                                                             *)
(***************************************************************************)
THEOREM LoadsFollowTheirEnables == Safety => []LoadsFollowEnables
<1>1. Init => LoadInv
  BY DEF Init, LoadInv, LoadsFollowEnables
<1>2. LoadInv => LoadsFollowEnables
  BY DEF LoadInv
<1> QED
  BY <1>1, <1>2, LoadInvStep, Invariance, ReachInvariance, PTL DEF Safety

----------------------------------------------------------------------------
(* Every step of a worklist loop brings its end nearer.  In the backward   *)
(* propagation a node has at most what its users have, and they only gain. *)

LearnsUpward ==
  pc = "backpropagate" /\ Memories = {} =>
    \A n \in Data \ Seeded : StatesOf(states, n, {}) \subseteq Propagated(n)

LEMMA BackpropagateUpward ==
  ASSUME TypeOK, TypeOK', LearnsUpward, NEW n, Backpropagate(n)
  PROVE  LearnsUpward'
<1>1. /\ pc = "backpropagate" /\ graph' = graph
      /\ Data' = Data /\ Memories' = Memories /\ Seeded' = Seeded
      /\ \A m : ValueUsers(m)' = ValueUsers(m)
  BY DEF Backpropagate, Data, Memories, Seeded, ValueUsers
<1> SUFFICES ASSUME Memories = {}, NEW m \in Data \ Seeded
             PROVE  StatesOf(states', m, {}) \subseteq Propagated(m)'
  BY <1>1 DEF LearnsUpward
<1>2. \A k \in Data \ Seeded : StatesOf(states, k, {}) \subseteq Propagated(k)
  BY <1>1 DEF LearnsUpward
<1>3. \A u : StatesOf(states, u, {}) \subseteq StatesOf(states', u, {})
  BY <1>2, BackpropagateEffect DEF Learns
<1>4. /\ Propagated(m) = UNION {StatesOf(states, u, {}) : u \in ValueUsers(m)}
      /\ Propagated(m)' = UNION {StatesOf(states', u, {}) : u \in ValueUsers(m)}
  <2>1. (Propagated(m) = UNION {StatesOf(states, u, {}) : u \in ValueUsers(m)})'
    BY <1>1, PropagatedPlain
       DEF Propagated, Narrowed, StatesOfAll, Memories, Data
  <2> QED
    BY <1>1, <2>1, PropagatedPlain
<1>5. Propagated(m) \subseteq Propagated(m)'
  BY <1>3, <1>4
<1>6. StatesOf(states', m, {}) \subseteq Propagated(m)
  BY <1>2, BackpropagateEffect
<1> QED
  BY <1>5, <1>6

LEMMA UpwardInvariance == Safety => []LearnsUpward
<1>1. IInv => TypeOK
  BY DEF IInv
<1>2. Init => LearnsUpward
  <2> SUFFICES ASSUME Init, NEW n \in Data \ Seeded PROVE StatesOf(states, n, {}) = {}
    BY DEF LearnsUpward
  <2> QED
    BY DEF Init, StatesOf
<1>3. TypeOK /\ TypeOK' /\ LearnsUpward /\ [Next]_vars => LearnsUpward'
  <2> SUFFICES ASSUME TypeOK, TypeOK', LearnsUpward, [Next]_vars PROVE LearnsUpward'
    OBVIOUS
  <2>1. CASE \E n \in worklist : Backpropagate(n)
    BY <2>1, BackpropagateUpward
  <2>2. CASE UNCHANGED vars
    BY <2>2 DEF vars, LearnsUpward, Memories, Data, Seeded, Propagated, Narrowed, ValueUsers,
       StatesOfAll, Enabling, SettingToOne, Sources, Edges
  <2>3. CASE Next /\ ~\E n \in worklist : Backpropagate(n)
    BY <2>3 DEF LearnsUpward, Next, Refine, Refining, Widen, NoEnablingStates, MakePrecise,
       NoWritingStates, BackpropagateDone, EnterRefine, RefineDone, MemoriesDone,
       RefineMemoriesDone, Finish
  <2> QED
    BY <2>1, <2>2, <2>3
<1> QED
  BY <1>1, <1>2, <1>3, Invariance, PTL DEF Safety

LEMMA RefineProgresses ==
  ASSUME NEW n, Refine(n)
  PROVE  \/ states' = states /\ worklist' \subseteq worklist /\ worklist' # worklist
         \/ LosesStates(states, states', State)
<1>1. CASE n \in Data \ Ignored /\ Refined(n) # StatesOf(states, n, State)
  <2>1. states' = WithStates(states, n, Refined(n))
    BY <1>1 DEF Refine
  <2>2. Refined(n) \subseteq StatesOf(states, n, State)
    BY RefinedCases, PerUseMember
  <2>3. LosesStates(states, states', State)
    BY <1>1, <2>1, <2>2, WithStatesValue DEF LosesStates
  <2> QED
    BY <2>3
<1>2. CASE ~(n \in Data \ Ignored /\ Refined(n) # StatesOf(states, n, State))
  BY <1>2 DEF Refine
<1> QED
  BY <1>1, <1>2

LEMMA BackpropagateProgresses ==
  ASSUME LearnsUpward, Memories = {}, NEW n, Backpropagate(n)
  PROVE  \/ states' = states /\ worklist' \subseteq worklist /\ worklist' # worklist
         \/ GainsStates(states, states')
<1>1. CASE Learns(n)
  <2>1. /\ n \in Data \ Seeded /\ Propagated(n) # StatesOf(states, n, {})
        /\ pc = "backpropagate"
    BY <1>1 DEF Learns, Backpropagate
  <2>2. StatesOf(states, n, {}) \subseteq Propagated(n)
    BY <2>1 DEF LearnsUpward
  <2> QED
    BY <1>1, <2>1, <2>2, BackpropagateEffect DEF GainsStates, LosesStates
<1>2. CASE ~Learns(n)
  BY <1>2 DEF Backpropagate
<1> QED
  BY <1>1, <1>2

LEMMA WidenProgresses ==
  ASSUME NEW n, Widen(n)
  PROVE  \/ states' = states /\ worklist' \subseteq worklist /\ worklist' # worklist
         \/ GainsStates(states, states')
<1>1. CASE Widened(n) # StatesOf(states, n, {})
  <2>1. states' = WithStates(states, n, Widened(n))
    BY <1>1 DEF Widen
  <2>2. StatesOf(states, n, {}) \subseteq Widened(n) /\ n \in Data
    BY <1>1 DEF Widened
  <2>3. GainsStates(states, states')
    BY <1>1, <2>1, <2>2, WithStatesValue DEF GainsStates, LosesStates
  <2> QED
    BY <2>3
<1>2. CASE Widened(n) = StatesOf(states, n, {})
  BY <1>2 DEF Widen
<1> QED
  BY <1>1, <1>2

(***************************************************************************)
(* None of the worklist loops goes round in circles: a step takes a node   *)
(* off the list and adds none, or changes the states of one node in the    *)
(* direction of the pass, of which a refinement keeps the last.  On a      *)
(* finite graph every loop then ends.                                      *)
(***************************************************************************)
THEOREM WorklistsProgress == Safety => PassesProgress
<1> DEFINE Fewer == states' = states /\ worklist' \subseteq worklist /\ worklist' # worklist
           KeepsOne(n) == StatesOf(states', n, State) # {} \/ StatesOf(states, n, State) = {}
           Progress ==
             pc' = pc =>
               /\ Refining => Fewer \/ LosesStates(states, states', State)
               /\ Refining => \A n \in Data : KeepsOne(n)
               /\ pc = "forward" \/ (pc = "backpropagate" /\ Memories = {}) =>
                    Fewer \/ GainsStates(states, states')
<1>1. LearnsUpward /\ [Next]_vars => [Progress]_vars
  <2> SUFFICES ASSUME LearnsUpward, Next, pc' = pc
               PROVE  /\ Refining => Fewer \/ LosesStates(states, states', State)
                      /\ Refining => \A n \in Data : KeepsOne(n)
                      /\ pc = "forward" \/ (pc = "backpropagate" /\ Memories = {}) =>
                           Fewer \/ GainsStates(states, states')
    OBVIOUS
  <2> HIDE DEF Fewer
  <2>1. ASSUME NEW n \in worklist, Backpropagate(n), Memories = {}
        PROVE  Fewer \/ GainsStates(states, states')
    BY <2>1, BackpropagateProgresses DEF Fewer
  <2>2. ASSUME NEW n \in worklist, Refine(n)
        PROVE  Fewer \/ LosesStates(states, states', State)
    BY <2>2, RefineProgresses DEF Fewer
  <2>3. ASSUME NEW n \in worklist, Widen(n)
        PROVE  Fewer \/ GainsStates(states, states')
    BY <2>3, WidenProgresses DEF Fewer
  <2>4. ASSUME NEW n \in worklist, Refine(n), NEW m \in Data
        PROVE  KeepsOne(m)
    BY <2>4, RefineShrinks
  <2>5. /\ Refining => \E n \in worklist : Refine(n)
        /\ pc = "forward" => \E n \in worklist : Widen(n)
        /\ pc = "backpropagate" => \E n \in worklist : Backpropagate(n)
    BY DEF Next, Refining, Backpropagate, Refine, Widen, NoEnablingStates, MakePrecise,
       NoWritingStates, BackpropagateDone, EnterRefine, RefineDone, MemoriesDone,
       RefineMemoriesDone, Finish
  <2> QED
    BY <2>1, <2>2, <2>3, <2>4, <2>5
<1> QED
  BY <1>1, UpwardInvariance, PTL DEF Safety, PassesProgress
=============================================================================
