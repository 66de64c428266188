----------------------- MODULE CfgConstructionProofs -----------------------
(***************************************************************************)
(* Proofs about construct_cfg for every FSM.  The inductive invariant is   *)
(* IInv; the argument at its heart is MergeFusesEntry: when an edge of the *)
(* contracted graph can be contracted, it stands for a single transition   *)
(* of the FSM, from the last state of one block to the entry of the other, *)
(* and these two states are fused.                                         *)
(***************************************************************************)
EXTENDS CfgConstruction, TLAPS

SimpleKept == Simple(fsm) => Simple(bbGraph)

IInv ==
  /\ fsm \in Fsms
  /\ TypeOK
  /\ Partition
  /\ StraightLine
  /\ QuotientGraph
  /\ SimpleKept
  /\ WorklistComplete

----------------------------------------------------------------------------
(* Edges and the states they join.                                         *)

LEMMA SuccsMember ==
  ASSUME NEW E, NEW s, NEW t
  PROVE  t \in Succs(E, s) <=> \E e \in E : e[1] = s /\ e[2] = t
BY DEF Succs

LEMMA PredsMember ==
  ASSUME NEW E, NEW s, NEW t
  PROVE  s \in Preds(E, t) <=> \E e \in E : e[1] = s /\ e[2] = t
BY DEF Preds

LEMMA SuccsPreds ==
  ASSUME NEW E, NEW s, NEW t
  PROVE  t \in Succs(E, s) <=> s \in Preds(E, t)
BY SuccsMember, PredsMember

\* A fused pair determines both of its states.
LEMMA FusedUnique ==
  ASSUME NEW E, NEW s, NEW t, Fused(E, s, t)
  PROVE  /\ t \in Succs(E, s)
         /\ \A x : x \in Succs(E, s) => x = t
         /\ \A x : x \in Preds(E, t) => x = s
BY DEF Fused

\* The edges of the contracted graph are the renamed edges.
LEMMA ContractedMember ==
  ASSUME NEW E, NEW u, NEW v, NEW d
  PROVE  d \in Contracted(E, u, v) <=>
           \E e \in E : d = << IF e[1] = u THEN v ELSE e[1],
                               IF e[2] = u THEN v ELSE e[2], e[3]>>
BY DEF Contracted

LEMMA TripleFields ==
  ASSUME NEW E, E \subseteq State \X State \X Nat, NEW e \in E
  PROVE  /\ e = <<e[1], e[2], e[3]>>
         /\ e[1] \in State
         /\ e[2] \in State
         /\ e[3] \in Nat
OBVIOUS

\* In a well-formed FSM every set of states without the start state is
\* entered from outside: its complement would be closed otherwise.
LEMMA EnteredFromOutside ==
  ASSUME NEW E, FsmWellFormed(E, State, Start, Stop),
         NEW X \in SUBSET State, NEW m \in X, Start \notin X
  PROVE  \E d \in E : d[1] \notin X /\ d[2] \in X
<1> SUFFICES ASSUME \A d \in E : d[1] \in X \/ d[2] \notin X PROVE FALSE
  OBVIOUS
<1>1. State \ X \in SUBSET State /\ Start \in State \ X
  BY DEF FsmWellFormed
<1>2. \A d \in E : d[1] \in State \ X => d[2] \in State \ X
  BY DEF FsmWellFormed
<1>3. m \in ReachableFrom(E, State, Start)
  BY DEF FsmWellFormed
<1>4. m \in State \ X
  BY <1>1, <1>2, <1>3 DEF ReachableFrom
<1>5. QED
  BY <1>4

----------------------------------------------------------------------------
(* Blocks seen from the transitions of the FSM.                            *)

\* A transition into a block from a state that is not in it, or that is the
\* last one of its block, enters the block at its entry.
LEMMA EnteredAtEntry ==
  ASSUME Partition, StraightLine,
         NEW a \in Blocks, NEW b \in Blocks,
         NEW t \in statesOfBB[b], t \in Succs(fsm, a)
  PROVE  Entries(b) = {t}
<1>1. PICK h \in statesOfBB[b] : Entries(b) = {h}
  BY DEF StraightLine
<1>2. ASSUME t # h PROVE FALSE
  <2>1. PICK s \in statesOfBB[b] \ {b} : Fused(fsm, s, t)
    BY <1>1, <1>2 DEF Entries
  <2>2. s = a
    BY <2>1, FusedUnique, SuccsPreds
  <2>3. a \in statesOfBB[a]
    BY DEF Partition
  <2>4. QED
    BY <2>1, <2>2, <2>3 DEF Partition
<1>3. QED
  BY <1>1, <1>2

\* Only the last state of a block has transitions that leave the straight
\* line: any other state is fused with a state of its block.
LEMMA LeftAtLast ==
  ASSUME StraightLine,
         NEW b \in Blocks, NEW s \in statesOfBB[b], s # b,
         NEW t \in Succs(fsm, s)
  PROVE  /\ t \in statesOfBB[b]
         /\ t \notin Entries(b)
         /\ Fused(fsm, s, t)
<1>1. PICK x \in statesOfBB[b] : x \notin Entries(b) /\ Fused(fsm, s, x)
  BY DEF StraightLine
<1>2. x = t
  BY <1>1, FusedUnique
<1>3. QED
  BY <1>1, <1>2

\* An edge that can be contracted stands for a fused pair of states: the
\* last state of one block and the entry of the other.
LEMMA MergeFusesEntry ==
  ASSUME TypeOK, Partition, StraightLine, QuotientGraph,
         NEW u \in Blocks, NEW v \in Blocks, u # v,
         Succs(bbGraph, u) = {v}, Preds(bbGraph, v) = {u}
  PROVE  \E h \in statesOfBB[v] : Entries(v) = {h} /\ Fused(fsm, u, h)
<1>1. PICK h \in statesOfBB[v] : h \in Succs(fsm, u)
  BY DEF QuotientGraph
<1>2. Entries(v) = {h}
  BY <1>1, EnteredAtEntry
<1>3. ASSUME NEW x \in Succs(fsm, u) PROVE x = h
  <2>1. x \in State
    BY DEF TypeOK, Succs
  <2>2. PICK c \in Blocks : x \in statesOfBB[c]
    BY <2>1 DEF Partition
  <2>3. c \in Succs(bbGraph, u)
    BY <1>3, <2>2 DEF QuotientGraph
  <2>4. Entries(v) = {x}
    BY <2>2, <2>3, <1>3, EnteredAtEntry
  <2>5. QED
    BY <1>2, <2>4
<1>4. ASSUME NEW p \in Preds(fsm, h) PROVE p = u
  <2>1. p \in State /\ h \in Succs(fsm, p)
    BY SuccsPreds DEF TypeOK, Preds
  <2>2. PICK c \in Blocks : p \in statesOfBB[c]
    BY <2>1 DEF Partition
  <2>3. CASE p = c
    <3>1. v \in Succs(bbGraph, p)
      BY <2>1, <2>2, <2>3 DEF QuotientGraph
    <3>2. QED
      BY <3>1, SuccsPreds
  <2>4. CASE p # c
    <3>1. h \in statesOfBB[c] /\ h \notin Entries(c)
      BY <2>1, <2>2, <2>4, LeftAtLast
    <3>2. c = v
      BY <3>1 DEF Partition
    <3>3. QED
      BY <3>1, <3>2, <1>2
  <2>5. QED
    BY <2>3, <2>4
<1>5. Fused(fsm, u, h)
  BY <1>1, <1>3, <1>4, SuccsPreds DEF Fused
<1>6. QED
  BY <1>2, <1>5

----------------------------------------------------------------------------
(* The initial state, and the steps that leave the blocks alone.           *)

LEMMA InitIInv == Init => IInv
<1> SUFFICES ASSUME Init PROVE IInv
  OBVIOUS
<1>1. FsmWellFormed(fsm, State, Start, Stop)
  BY FsmsAssumption DEF Init
<1>2. TypeOK
  BY <1>1 DEF Init, TypeOK, FsmWellFormed, Blocks
<1>3. Partition
  BY DEF Init, Partition, Blocks
<1>4. StraightLine
  <2> SUFFICES ASSUME NEW b \in Blocks
               PROVE  /\ \E h \in statesOfBB[b] : Entries(b) = {h}
                      /\ \A s \in statesOfBB[b] \ {b} :
                           \E t \in statesOfBB[b] : t \notin Entries(b) /\ Fused(fsm, s, t)
    BY DEF StraightLine
  <2>1. statesOfBB[b] = {b}
    BY DEF Init, Blocks
  <2>2. Entries(b) = {b}
    BY <2>1 DEF Entries
  <2>3. QED
    BY <2>1, <2>2
<1>5. QuotientGraph
  BY DEF Init, QuotientGraph, Blocks
<1>6. SimpleKept
  BY DEF Init, SimpleKept
<1>7. WorklistComplete
  BY DEF Init, WorklistComplete
<1>8. QED
  BY <1>2, <1>3, <1>4, <1>5, <1>6, <1>7 DEF Init, IInv

LEMMA SkipIInv ==
  ASSUME IInv, NEW e \in worklist, Skip(e)
  PROVE  IInv'
<1> USE DEF IInv, Skip
<1>1. TypeOK'
  BY DEF TypeOK, Blocks
<1>2. Partition' /\ StraightLine' /\ QuotientGraph' /\ SimpleKept'
  BY DEF Partition, StraightLine, QuotientGraph, SimpleKept, Blocks, Entries
<1>3. WorklistComplete'
  BY DEF WorklistComplete
<1>4. QED
  BY <1>1, <1>2, <1>3

LEMMA ContractItselfIInv ==
  ASSUME IInv, NEW e \in worklist, ContractItself(e)
  PROVE  IInv'
<1> USE DEF IInv, ContractItself
<1>1. TypeOK'
  BY DEF TypeOK, Blocks
<1>2. Partition' /\ StraightLine' /\ QuotientGraph' /\ SimpleKept' /\ WorklistComplete'
  BY DEF Partition, StraightLine, QuotientGraph, SimpleKept, WorklistComplete,
         Blocks, Entries
<1>3. QED
  BY <1>1, <1>2

LEMMA BuildIInv ==
  ASSUME IInv, Build
  PROVE  IInv'
<1> USE DEF IInv, Build
<1>1. UNION {statesOfBB[b] : b \in Blocks} = State
  BY DEF Partition, TypeOK
<1>2. bbOfState' \in [State -> Blocks]
  BY <1>1 DEF Partition
<1>3. cfg' \subseteq Blocks \X Blocks \X Nat
  <2> SUFFICES ASSUME NEW d \in fsm, d[1] \in Blocks
               PROVE  <<d[1], bbOfState'[d[2]], d[3]>> \in Blocks \X Blocks \X Nat
    BY DEF BlockEdges, Blocks
  <2>1. d[2] \in State /\ d[3] \in Nat
    BY DEF TypeOK
  <2>2. QED
    BY <1>2, <2>1
<1>4. TypeOK'
  BY <1>2, <1>3 DEF TypeOK, Blocks
<1>5. Partition' /\ StraightLine' /\ QuotientGraph' /\ SimpleKept' /\ WorklistComplete'
  BY DEF Partition, StraightLine, QuotientGraph, SimpleKept, WorklistComplete,
         Blocks, Entries
<1>6. QED
  BY <1>4, <1>5

----------------------------------------------------------------------------
(* Contraction.                                                            *)

LEMMA ContractIInv ==
  ASSUME IInv, NEW e \in worklist, Contract(e)
  PROVE  IInv'
<1> DEFINE u == e[1]
           v == e[2]
<1>1. /\ u \in Blocks /\ v \in Blocks /\ u # v
      /\ Succs(bbGraph, u) = {v} /\ Preds(bbGraph, v) = {u}
      /\ e \in bbGraph
  BY DEF Contract, Mergeable, IInv, TypeOK
<1>2. PICK h \in statesOfBB[v] : Entries(v) = {h} /\ Fused(fsm, u, h)
  BY <1>1, MergeFusesEntry DEF IInv
<1>3. /\ Blocks' = Blocks \ {u}
      /\ \A b \in Blocks' : statesOfBB'[b] = IF b = v THEN statesOfBB[v] \cup statesOfBB[u]
                                                      ELSE statesOfBB[b]
      /\ statesOfBB' = [b \in Blocks' |-> statesOfBB'[b]]
  BY DEF Contract, Absorb, Blocks
<1>4. \* each edge of the new graph is an old one renamed
      \A d : d \in bbGraph' <=>
        \E x \in bbGraph \ {e} :
          d = <<IF x[1] = u THEN v ELSE x[1], IF x[2] = u THEN v ELSE x[2], x[3]>>
  BY ContractedMember DEF Contract
<1>5. \A x \in bbGraph : /\ x = <<x[1], x[2], x[3]>>
                         /\ x[1] \in Blocks /\ x[2] \in Blocks /\ x[3] \in Nat
                         /\ x[1] = u => x[2] = v
                         /\ x[2] = v => x[1] = u
  <2> SUFFICES ASSUME NEW x \in bbGraph
               PROVE  /\ x = <<x[1], x[2], x[3]>>
                      /\ x[1] \in Blocks /\ x[2] \in Blocks /\ x[3] \in Nat
                      /\ x[1] = u => x[2] = v
                      /\ x[2] = v => x[1] = u
    OBVIOUS
  <2>1. x \in Blocks \X Blocks \X Nat
    BY DEF IInv, TypeOK
  <2>2. x[2] \in Succs(bbGraph, x[1]) /\ x[1] \in Preds(bbGraph, x[2])
    BY SuccsMember, PredsMember
  <2>3. QED
    BY <1>1, <2>1, <2>2
<1>6. TypeOK'
  <2>1. bbGraph' \subseteq Blocks' \X Blocks' \X Nat
    BY <1>1, <1>3, <1>4, <1>5
  <2>2. worklist' \subseteq State \X State \X Nat
    BY <2>1, <1>3 DEF Contract, EdgesAround, IInv, TypeOK
  <2>3. statesOfBB' \in [Blocks' -> SUBSET State]
    BY <1>1, <1>3 DEF IInv, TypeOK
  <2>4. QED
    BY <1>3, <2>1, <2>2, <2>3 DEF Contract, IInv, TypeOK
<1>7. Partition'
  BY <1>1, <1>3 DEF IInv, Partition
<1>8. StraightLine'
  <2>1. PICK hu \in statesOfBB[u] : Entries(u) = {hu}
    BY <1>1 DEF IInv, StraightLine
  <2>2. statesOfBB'[v] = statesOfBB[v] \cup statesOfBB[u]
    BY <1>1, <1>3
  <2>3. fsm' = fsm
    BY DEF Contract
  <2>4. /\ statesOfBB[u] \cap statesOfBB[v] = {}
        /\ u \in statesOfBB[u] /\ v \in statesOfBB[v]
    BY <1>1 DEF IInv, Partition
  <2>5. ASSUME NEW t \in statesOfBB[u]
        PROVE  t \in Entries(v)' <=> t \in Entries(u)
    <3>1. ASSUME NEW s \in statesOfBB[u] \ {u}, Fused(fsm, s, t)
          PROVE  t \notin Entries(v)'
      BY <2>2, <2>3, <2>4, <3>1 DEF Entries
    <3>2. ASSUME NEW s \in statesOfBB'[v] \ {v}, Fused(fsm, s, t)
          PROVE  s \in statesOfBB[u] \ {u}
      <4>1. s # u
        BY <1>2, <2>4, <3>2, FusedUnique
      <4>2. ASSUME s \in statesOfBB[v] PROVE FALSE
        BY <1>1, <2>4, <3>2, <4>2, LeftAtLast, FusedUnique DEF IInv
      <4>3. QED
        BY <2>2, <4>1, <4>2
    <3>3. QED
      BY <2>2, <2>3, <3>1, <3>2 DEF Entries
  <2>6. ASSUME NEW t \in statesOfBB[v] PROVE t \notin Entries(v)'
    <3>1. CASE t = h
      BY <1>2, <2>2, <2>3, <2>4, <3>1 DEF Entries
    <3>2. CASE t # h
      BY <1>2, <2>2, <2>3, <3>2 DEF Entries
    <3>3. QED
      BY <3>1, <3>2
  <2>7. Entries(v)' = {hu}
    <3>1. Entries(v)' \subseteq statesOfBB'[v]
      BY DEF Entries
    <3>2. QED
      BY <2>1, <2>2, <2>5, <2>6, <3>1
  <2>8. ASSUME NEW s \in statesOfBB'[v] \ {v}
        PROVE  \E t \in statesOfBB'[v] : t \notin Entries(v)' /\ Fused(fsm, s, t)
    <3>1. CASE s \in statesOfBB[v]
      <4>1. PICK t \in statesOfBB[v] : Fused(fsm, s, t)
        BY <1>1, <2>8, <3>1 DEF IInv, StraightLine
      <4>2. QED
        BY <2>2, <2>6, <4>1
    <3>2. CASE s = u
      BY <1>2, <2>2, <2>6, <3>2
    <3>3. CASE s \in statesOfBB[u] \ {u}
      <4>1. PICK t \in statesOfBB[u] : t \notin Entries(u) /\ Fused(fsm, s, t)
        BY <1>1, <3>3 DEF IInv, StraightLine
      <4>2. QED
        BY <2>2, <2>5, <4>1
    <3>4. QED
      BY <2>2, <3>1, <3>2, <3>3
  <2>9. ASSUME NEW b \in Blocks', b # v
        PROVE  /\ statesOfBB'[b] = statesOfBB[b]
               /\ Entries(b)' = Entries(b)
    BY <1>3, <2>3, <2>9 DEF Entries
  <2>10. ASSUME NEW b \in Blocks'
         PROVE  /\ \E x \in statesOfBB'[b] : Entries(b)' = {x}
                /\ \A s \in statesOfBB'[b] \ {b} :
                     \E t \in statesOfBB'[b] : t \notin Entries(b)' /\ Fused(fsm, s, t)
    <3>1. CASE b = v
      BY <2>1, <2>2, <2>7, <2>8, <3>1
    <3>2. CASE b # v
      <4>1. b \in Blocks
        BY <1>3
      <4>2. QED
        BY <2>9, <3>2, <4>1 DEF IInv, StraightLine
    <3>3. QED
      BY <3>1, <3>2
  <2>11. QED
    BY <2>3, <2>10 DEF StraightLine
<1>9. SimpleKept'
  <2> SUFFICES ASSUME Simple(fsm), NEW c \in bbGraph', NEW d \in bbGraph',
                      c[1] = d[1], c[2] = d[2]
               PROVE  c = d
    BY DEF SimpleKept, Simple, Contract
  <2>1. \A x, y \in bbGraph : x[1] = y[1] /\ x[2] = y[2] => x = y
    BY DEF IInv, SimpleKept, Simple
  <2>2. PICK x \in bbGraph \ {e} :
          c = <<IF x[1] = u THEN v ELSE x[1], IF x[2] = u THEN v ELSE x[2], x[3]>>
    BY <1>4
  <2>3. PICK y \in bbGraph \ {e} :
          d = <<IF y[1] = u THEN v ELSE y[1], IF y[2] = u THEN v ELSE y[2], y[3]>>
    BY <1>4
  <2>4. x[1] # u /\ y[1] # u
    BY <1>1, <1>5, <2>1
  <2>5. x[1] = y[1]
    BY <2>2, <2>3, <2>4
  <2>6. x[2] = y[2]
    BY <1>5, <2>2, <2>3, <2>4
  <2>7. QED
    BY <2>1, <2>2, <2>3, <2>5, <2>6
<1>10. QuotientGraph'
  <2> SUFFICES ASSUME NEW a \in Blocks', NEW b \in Blocks'
               PROVE  /\ Succs(fsm, a) \cap statesOfBB'[b] # {} => b \in Succs(bbGraph', a)
                      /\ b \in Succs(bbGraph', a) /\ (a # b \/ Simple(fsm))
                           => Succs(fsm, a) \cap statesOfBB'[b] # {}
    BY DEF QuotientGraph, Contract
  <2>0. a \in Blocks /\ b \in Blocks /\ a # u /\ b # u
    BY <1>3
  <2>1. ASSUME NEW t \in Succs(fsm, a), t \in statesOfBB'[b]
        PROVE  b \in Succs(bbGraph', a)
    <3>1. PICK c \in Blocks : t \in statesOfBB[c] /\ (c = b \/ (c = u /\ b = v))
      BY <1>1, <1>3, <2>0, <2>1
    <3>2. c \in Succs(bbGraph, a)
      BY <2>0, <2>1, <3>1 DEF IInv, QuotientGraph
    <3>3. PICK x \in bbGraph : x[1] = a /\ x[2] = c
      BY <3>2, SuccsMember
    <3>4. <<a, b, x[3]>> \in bbGraph'
      BY <1>4, <2>0, <3>1, <3>3
    <3>5. QED
      BY <3>4, SuccsMember
  <2>2. ASSUME b \in Succs(bbGraph', a), a # b \/ Simple(fsm)
        PROVE  Succs(fsm, a) \cap statesOfBB'[b] # {}
    <3>1. PICK d \in bbGraph' : d[1] = a /\ d[2] = b
      BY <2>2, SuccsMember
    <3>2. PICK x \in bbGraph \ {e} :
            d = <<IF x[1] = u THEN v ELSE x[1], IF x[2] = u THEN v ELSE x[2], x[3]>>
      BY <1>4
    <3>3. x[1] # u
      <4>1. SUFFICES ASSUME x[1] = u PROVE FALSE
        OBVIOUS
      <4>2. x[2] = v /\ a = v /\ b = v
        BY <1>1, <1>5, <3>1, <3>2, <4>1
      <4>3. Simple(bbGraph)
        BY <2>2, <4>2 DEF IInv, SimpleKept
      <4>4. QED
        BY <1>1, <3>2, <4>1, <4>2, <4>3 DEF Simple
    <3>4. /\ x[1] = a /\ x[2] \in Blocks
          /\ x[2] = b \/ (x[2] = u /\ b = v)
          /\ x[2] \in Succs(bbGraph, a)
      BY <1>5, <3>1, <3>2, <3>3, SuccsMember
    <3>5. Succs(fsm, a) \cap statesOfBB[x[2]] # {}
      BY <2>0, <2>2, <3>4 DEF IInv, QuotientGraph
    <3>6. QED
      BY <1>3, <3>4, <3>5
  <2>3. QED
    BY <2>1, <2>2
<1>11. WorklistComplete'
  <2> SUFFICES ASSUME NEW d \in bbGraph', Mergeable(bbGraph', d), v \notin {d[1], d[2]}
               PROVE  d \in worklist'
    BY DEF WorklistComplete, Contract, EdgesAround
  <2>1. d \in bbGraph /\ d # e /\ d[1] # u /\ d[2] # u
    BY <1>4, <1>5
  <2>2. ASSUME NEW y \in Succs(bbGraph, d[1]) PROVE y = d[2]
    <3>1. PICK x \in bbGraph : x[1] = d[1] /\ x[2] = y
      BY SuccsMember
    <3>2. x # e
      BY <2>1, <3>1
    <3>3. <<d[1], IF y = u THEN v ELSE y, x[3]>> \in bbGraph'
      BY <1>4, <2>1, <3>1, <3>2
    <3>4. (IF y = u THEN v ELSE y) \in Succs(bbGraph', d[1])
      BY <3>3, SuccsMember
    <3>5. QED
      BY <3>4 DEF Mergeable
  <2>3. ASSUME NEW y \in Preds(bbGraph, d[2]) PROVE y = d[1]
    <3>1. PICK x \in bbGraph : x[1] = y /\ x[2] = d[2]
      BY PredsMember
    <3>2. x # e
      BY <3>1
    <3>3. <<IF y = u THEN v ELSE y, d[2], x[3]>> \in bbGraph'
      BY <1>4, <2>1, <3>1, <3>2
    <3>4. (IF y = u THEN v ELSE y) \in Preds(bbGraph', d[2])
      BY <3>3, PredsMember
    <3>5. QED
      BY <3>4 DEF Mergeable
  <2>4. Mergeable(bbGraph, d)
    BY <2>1, <2>2, <2>3, SuccsMember, PredsMember DEF Mergeable
  <2>5. QED
    BY <2>1, <2>4 DEF IInv, WorklistComplete, Contract
<1>12. QED
  BY <1>6, <1>7, <1>8, <1>9, <1>10, <1>11 DEF IInv, Contract

LEMMA StepIInv == IInv /\ [Next]_vars => IInv'
<1> SUFFICES ASSUME IInv, [Next]_vars PROVE IInv'
  OBVIOUS
<1>1. ASSUME NEW e \in worklist, Skip(e) PROVE IInv'
  BY <1>1, SkipIInv
<1>2. ASSUME NEW e \in worklist, Contract(e) PROVE IInv'
  BY <1>2, ContractIInv
<1>3. ASSUME NEW e \in worklist, ContractItself(e) PROVE IInv'
  BY <1>3, ContractItselfIInv
<1>4. CASE Build
  BY <1>4, BuildIInv
<1>5. CASE UNCHANGED vars
  <2> USE <1>5 DEF vars, IInv
  <2>1. TypeOK'
    BY DEF TypeOK, Blocks
  <2>2. Partition' /\ StraightLine' /\ QuotientGraph' /\ SimpleKept' /\ WorklistComplete'
    BY DEF Partition, StraightLine, QuotientGraph, SimpleKept, WorklistComplete,
           Blocks, Entries
  <2>3. QED
    BY <2>1, <2>2
<1>6. QED
  BY <1>1, <1>2, <1>3, <1>4, <1>5 DEF Next

LEMMA Invariance == Safety => []IInv
BY InitIInv, StepIInv, PTL DEF Safety

----------------------------------------------------------------------------
(***************************************************************************)
(* Type correctness of construct_cfg, for every FSM: in particular the     *)
(* finished states_to_bb maps every state, and edges join blocks.          *)
(***************************************************************************)
THEOREM TypeCorrect == Safety => []TypeOK
<1>1. IInv => TypeOK
  BY DEF IInv
<1>2. QED
  BY <1>1, Invariance, PTL

(***************************************************************************)
(* Every block is a straight line of fused states with one entry, in every *)
(* intermediate state of the loop and in the result.                       *)
(***************************************************************************)
THEOREM BlocksAreStraightLines == Safety => []StraightLine
<1>1. IInv => StraightLine
  BY DEF IInv
<1>2. QED
  BY <1>1, Invariance, PTL

(***************************************************************************)
(* In every state of the loop bb_graph is the FSM divided by a partition   *)
(* of its states into the blocks, in whatever order edges are taken.       *)
(***************************************************************************)
THEOREM ContractionIsQuotient == Safety => []IsQuotient
<1>1. IInv => IsQuotient
  BY DEF IInv, IsQuotient
<1>2. QED
  BY <1>1, Invariance, PTL

\* Renaming edges under the worklist never makes it forget a contraction.
THEOREM NoContractionForgotten == Safety => []WorklistComplete
<1>1. IInv => WorklistComplete
  BY DEF IInv
<1>2. QED
  BY <1>1, Invariance, PTL

----------------------------------------------------------------------------
(* The published control flow graph.                                       *)

BuiltInv ==
  pc = "built" =>
    /\ \A s \in State : bbOfState[s] \in Blocks /\ s \in statesOfBB[bbOfState[s]]
    /\ cfg = BlockEdges(fsm, statesOfBB, bbOfState)

LEMMA BuiltInvariance == Safety => []BuiltInv
<1>1. Init => BuiltInv
  BY DEF Init, BuiltInv
<1>2. IInv /\ BuiltInv /\ [Next]_vars => BuiltInv'
  <2> SUFFICES ASSUME IInv, BuiltInv, [Next]_vars PROVE BuiltInv'
    OBVIOUS
  <2>1. CASE Build
    <3>1. UNION {statesOfBB[b] : b \in Blocks} = State
      BY DEF IInv, Partition, TypeOK
    <3>2. \A s \in State : bbOfState'[s] \in Blocks /\ s \in statesOfBB[bbOfState'[s]]
      BY <2>1, <3>1 DEF Build, IInv, Partition
    <3>3. QED
      BY <2>1, <3>2 DEF Build, BuiltInv, Blocks
  <2>2. CASE UNCHANGED vars
    BY <2>2 DEF vars, BuiltInv, Blocks, BlockEdges
  <2>3. ASSUME NEW e \in worklist, Skip(e) \/ Contract(e) \/ ContractItself(e)
        PROVE  pc' # "built"
    BY <2>3 DEF Skip, Contract, ContractItself
  <2>4. QED
    BY <2>1, <2>2, <2>3 DEF Next, BuiltInv
<1>3. QED
  BY <1>1, <1>2, Invariance, PTL DEF Safety

LEMMA BuiltPreservesTransitions == IInv /\ BuiltInv => TransitionsPreserved
<1> SUFFICES ASSUME IInv, BuiltInv, pc = "built"
             PROVE  /\ \A e \in fsm :
                         \/ /\ bbOfState[e[1]] = bbOfState[e[2]]
                            /\ Fused(fsm, e[1], e[2])
                         \/ /\ bbOfState[e[1]] = e[1]
                            /\ e[2] \in Entries(bbOfState[e[2]])
                            /\ <<e[1], bbOfState[e[2]], e[3]>> \in cfg
                    /\ \A d, e \in fsm :
                         /\ d # e
                         /\ {d[1], e[1]} \subseteq Blocks
                         => <<d[1], bbOfState[d[2]], d[3]>> # <<e[1], bbOfState[e[2]], e[3]>>
  BY DEF TransitionsPreserved
<1> USE DEF IInv
<1>1. \A e \in fsm : /\ e = <<e[1], e[2], e[3]>>
                     /\ e[1] \in State /\ e[2] \in State
                     /\ e[2] \in Succs(fsm, e[1])
  BY SuccsMember DEF TypeOK
<1>2. \A s \in State : /\ bbOfState[s] \in Blocks
                       /\ s \in statesOfBB[bbOfState[s]]
                       /\ \A b \in Blocks : s \in statesOfBB[b] => b = bbOfState[s]
  BY DEF BuiltInv, Partition
<1>3. ASSUME NEW e \in fsm, e[1] \in Blocks
      PROVE  Entries(bbOfState[e[2]]) = {e[2]}
  BY <1>1, <1>2, <1>3, EnteredAtEntry
<1>4. ASSUME NEW e \in fsm
      PROVE  \/ bbOfState[e[1]] = bbOfState[e[2]] /\ Fused(fsm, e[1], e[2])
             \/ /\ bbOfState[e[1]] = e[1]
                /\ e[2] \in Entries(bbOfState[e[2]])
                /\ <<e[1], bbOfState[e[2]], e[3]>> \in cfg
  <2>1. CASE bbOfState[e[1]] # e[1]
    <3>1. e[2] \in statesOfBB[bbOfState[e[1]]] /\ Fused(fsm, e[1], e[2])
      BY <1>1, <1>2, <2>1, LeftAtLast
    <3>2. QED
      BY <1>1, <1>2, <3>1
  <2>2. CASE bbOfState[e[1]] = e[1]
    <3>1. e[1] \in Blocks
      BY <1>1, <1>2, <2>2
    <3>2. <<e[1], bbOfState[e[2]], e[3]>> \in cfg
      BY <3>1 DEF BuiltInv, BlockEdges, Blocks
    <3>3. QED
      BY <1>3, <2>2, <3>1, <3>2
  <2>3. QED
    BY <2>1, <2>2
<1>5. ASSUME NEW d \in fsm, NEW e \in fsm, d[1] \in Blocks, e[1] \in Blocks,
             <<d[1], bbOfState[d[2]], d[3]>> = <<e[1], bbOfState[e[2]], e[3]>>
      PROVE  d = e
  <2>1. d[2] = e[2] /\ d[3] = e[3]
    BY <1>3, <1>5
  <2>2. QED
    BY <2>1, FsmsAssumption DEF FsmWellFormed, KeysUnique
<1>6. QED
  BY <1>4, <1>5

(***************************************************************************)
(* The control flow graph of the result runs as the FSM does: every        *)
(* transition is inside a straight line or an edge from the last state of  *)
(* a block to the entry of another, and no edge overwrites another.        *)
(***************************************************************************)
THEOREM CfgPreservesTransitions == Safety => []TransitionsPreserved
BY Invariance, BuiltInvariance, BuiltPreservesTransitions, PTL

----------------------------------------------------------------------------
(* Contracting a node with itself.                                         *)

LEMMA SelfMergeNeedsParallel ==
  ASSUME IInv, NEW m \in Blocks,
         Succs(bbGraph, m) = {m}, Preds(bbGraph, m) = {m}
  PROVE  ~Simple(fsm)
<1> SUFFICES ASSUME Simple(fsm) PROVE FALSE
  OBVIOUS
<1> USE DEF IInv
<1>1. m \in statesOfBB[m] /\ statesOfBB[m] \subseteq State
  BY DEF Partition, TypeOK
<1>2. CASE Start \in statesOfBB[m]
  <2>1. PICK t \in statesOfBB[m] : t \in Succs(fsm, m)
    BY DEF QuotientGraph
  <2>2. Entries(m) = {t}
    BY <2>1, EnteredAtEntry
  <2>3. Preds(fsm, Start) = {}
    BY FsmsAssumption DEF FsmWellFormed
  <2>4. Start \in Entries(m)
    BY <1>2, <2>3, FusedUnique, SuccsPreds DEF Entries
  <2>5. QED
    BY <2>1, <2>2, <2>3, <2>4, SuccsPreds
<1>3. CASE Start \notin statesOfBB[m]
  <2>1. PICK d \in fsm : d[1] \notin statesOfBB[m] /\ d[2] \in statesOfBB[m]
    BY <1>1, <1>3, EnteredFromOutside, FsmsAssumption
  <2>2. d[1] \in State /\ d[2] \in Succs(fsm, d[1])
    BY SuccsMember DEF TypeOK
  <2>3. PICK c \in Blocks : d[1] \in statesOfBB[c]
    BY <2>2 DEF Partition
  <2>4. c # m
    BY <2>1, <2>3
  <2>5. d[1] = c
    BY <2>1, <2>2, <2>3, <2>4, LeftAtLast DEF Partition
  <2>6. m \in Succs(bbGraph, c)
    BY <2>1, <2>2, <2>5 DEF QuotientGraph
  <2>7. QED
    BY <2>4, <2>6, SuccsPreds
<1>4. QED
  BY <1>2, <1>3

(***************************************************************************)
(* construct_cfg fails only on an FSM with parallel transitions: with at   *)
(* most one transition between two states, no order of the worklist makes  *)
(* it contract a node with itself.                                         *)
(***************************************************************************)
THEOREM NoCrashOnSimpleFsm == Safety => []CrashNeedsParallel
<1>1. Init => CrashNeedsParallel
  BY DEF Init, CrashNeedsParallel
<1>2. IInv /\ CrashNeedsParallel /\ [Next]_vars => CrashNeedsParallel'
  <2> SUFFICES ASSUME IInv, CrashNeedsParallel, [Next]_vars
               PROVE  CrashNeedsParallel'
    OBVIOUS
  <2>1. ASSUME NEW e \in worklist, ContractItself(e) PROVE CrashNeedsParallel'
    <3>1. e[1] \in Blocks
      BY <2>1 DEF ContractItself, IInv, TypeOK
    <3>2. ~Simple(fsm)
      BY <2>1, <3>1, SelfMergeNeedsParallel DEF ContractItself, Mergeable
    <3>3. QED
      BY <2>1, <3>2 DEF ContractItself, CrashNeedsParallel
  <2>2. CASE UNCHANGED vars
    BY <2>2 DEF vars, CrashNeedsParallel
  <2>3. ASSUME Build \/ \E e \in worklist : Skip(e) \/ Contract(e)
        PROVE  pc' # "crashed"
    BY <2>3 DEF Build, Skip, Contract
  <2>4. QED
    BY <2>1, <2>2, <2>3 DEF Next, CrashNeedsParallel
<1>3. QED
  BY <1>1, <1>2, Invariance, PTL DEF Safety

----------------------------------------------------------------------------
(* Refinement: the worklist implements the partition into straight lines.  *)

\* The blocks of the implementation as a set of sets of states.
BlockSets == {statesOfBB[b] : b \in Blocks}

LEMMA ContractJoins ==
  ASSUME IInv, NEW e \in worklist, Contract(e)
  PROVE  BP!Next
<1> DEFINE u == e[1]
           v == e[2]
<1>1. /\ u \in Blocks /\ v \in Blocks /\ u # v
      /\ Succs(bbGraph, u) = {v} /\ Preds(bbGraph, v) = {u}
  BY DEF Contract, Mergeable, IInv, TypeOK
<1>2. PICK h \in statesOfBB[v] : Fused(fsm, u, h)
  BY <1>1, MergeFusesEntry DEF IInv
<1>3. \A a, b \in Blocks : a # b => statesOfBB[a] # statesOfBB[b]
  BY DEF IInv, Partition
<1>4. BP!Joinable(statesOfBB[u], statesOfBB[v])
  BY <1>1, <1>2 DEF IInv, Partition, BP!Joinable, BP!Fused, BP!Succs, BP!Preds, Fused, Succs, Preds
<1>5. /\ Blocks' = Blocks \ {u}
      /\ \A b \in Blocks' : statesOfBB'[b] = IF b = v THEN statesOfBB[u] \cup statesOfBB[v]
                                                      ELSE statesOfBB[b]
  BY DEF Contract, Absorb, Blocks
<1>6. BlockSets' = (BlockSets \ {statesOfBB[u], statesOfBB[v]})
                     \cup {statesOfBB[u] \cup statesOfBB[v]}
  <2>1. ASSUME NEW A \in BlockSets'
        PROVE  A \in (BlockSets \ {statesOfBB[u], statesOfBB[v]})
                       \cup {statesOfBB[u] \cup statesOfBB[v]}
    <3>1. PICK b \in Blocks' : A = statesOfBB'[b]
      BY DEF BlockSets
    <3>2. CASE b = v
      BY <1>5, <3>1, <3>2
    <3>3. CASE b # v
      BY <1>1, <1>3, <1>5, <3>1, <3>3 DEF BlockSets
    <3>4. QED
      BY <3>2, <3>3
  <2>2. statesOfBB[u] \cup statesOfBB[v] \in BlockSets'
    <3>1. v \in Blocks' /\ statesOfBB'[v] = statesOfBB[u] \cup statesOfBB[v]
      BY <1>1, <1>5
    <3>2. QED
      BY <3>1 DEF BlockSets
  <2>3. ASSUME NEW A \in BlockSets, A # statesOfBB[u], A # statesOfBB[v]
        PROVE  A \in BlockSets'
    <3>1. PICK b \in Blocks : A = statesOfBB[b]
      BY DEF BlockSets
    <3>2. b \in Blocks' /\ statesOfBB'[b] = A
      BY <1>5, <2>3, <3>1
    <3>3. QED
      BY <3>2 DEF BlockSets
  <2>4. QED
    BY <2>1, <2>2, <2>3
<1>7. BP!Join(statesOfBB[u], statesOfBB[v])
  BY <1>1, <1>3, <1>4, <1>6 DEF BP!Join, BlockSets, Contract
<1>8. statesOfBB[u] \in BlockSets /\ statesOfBB[v] \in BlockSets
  BY <1>1 DEF BlockSets
<1>9. QED
  BY <1>7, <1>8 DEF BP!Next, BP!Join, BlockSets

LEMMA BuildPublishes ==
  ASSUME IInv, Simple(fsm), Build
  PROVE  BP!Publish
<1> USE DEF IInv
<1>1. SUFFICES ASSUME NEW a \in Blocks, NEW b \in Blocks, a # b,
                      NEW s \in statesOfBB[a], NEW t \in statesOfBB[b], Fused(fsm, s, t)
               PROVE  FALSE
  <2> SUFFICES \A A, B \in BlockSets : A # B => ~BP!Joinable(A, B)
    BY DEF BP!Publish, BlockSets, Build, Blocks
  <2>1. \A s, t : BP!Fused(fsm, s, t) <=> Fused(fsm, s, t)
    BY DEF BP!Fused, BP!Succs, BP!Preds, Fused, Succs, Preds
  <2>2. QED
    BY <2>1 DEF BP!Joinable, BlockSets
<1>2. t \in Succs(fsm, s) /\ t \notin statesOfBB[a]
  BY <1>1, FusedUnique DEF Partition
<1>3. s = a
  BY <1>2, LeftAtLast
<1>4. Entries(b) = {t}
  BY <1>2, <1>3, EnteredAtEntry
<1>5. b \in Succs(bbGraph, a)
  BY <1>2, <1>3 DEF QuotientGraph
<1>6. PICK e \in bbGraph : e[1] = a /\ e[2] = b
  BY <1>5, SuccsMember
<1>7. ASSUME NEW c \in Succs(bbGraph, a) PROVE c = b
  <2>1. c \in Blocks
    BY SuccsMember DEF TypeOK
  <2>2. PICK x \in statesOfBB[c] : x \in Succs(fsm, a)
    BY <1>7, <2>1 DEF QuotientGraph
  <2>3. x = t
    BY <1>1, <1>3, <2>2, FusedUnique
  <2>4. QED
    BY <2>1, <2>2, <2>3 DEF Partition
<1>8. ASSUME NEW c \in Preds(bbGraph, b) PROVE c = a
  <2>1. c \in Blocks /\ b \in Succs(bbGraph, c)
    BY SuccsPreds, PredsMember DEF TypeOK
  <2>2. PICK x \in statesOfBB[b] : x \in Succs(fsm, c)
    BY <2>1 DEF QuotientGraph
  <2>3. Entries(b) = {x}
    BY <2>1, <2>2, EnteredAtEntry
  <2>4. QED
    BY <1>1, <1>3, <1>4, <2>2, <2>3, FusedUnique, SuccsPreds
<1>9. Mergeable(bbGraph, e)
  BY <1>5, <1>6, <1>7, <1>8, SuccsPreds DEF Mergeable
<1>10. QED
  BY <1>6, <1>9 DEF WorklistComplete, Build

(***************************************************************************)
(* On an FSM without parallel transitions, construct_cfg implements the    *)
(* partition into maximal straight lines: each contraction joins two       *)
(* blocks that belong together and when it returns none are left to join,  *)
(* whatever the order in which the worklist was drained.                   *)
(***************************************************************************)
THEOREM ConstructsMaximalPartition == Safety /\ Simple(fsm) => BP!Safety
<1>1. Init => BP!Init
  <2> SUFFICES ASSUME Init PROVE BP!Init
    OBVIOUS
  <2>1. FsmWellFormed(fsm, State, Start, Stop)
    BY FsmsAssumption DEF Init
  <2>2. BP!FsmWellFormed(fsm, State, Start, Stop)
    BY <2>1 DEF FsmWellFormed, BP!FsmWellFormed, KeysUnique, BP!KeysUnique,
                ReachableFrom, BP!ReachableFrom, Succs, BP!Succs, Preds, BP!Preds
  <2>3. {statesOfBB[b] : b \in Blocks} = {{s} : s \in State}
    BY DEF Init, Blocks
  <2>4. QED
    BY <2>2, <2>3 DEF Init, BP!Init
<1>2. IInv /\ Simple(fsm) /\ [Next]_vars => Simple(fsm)'
  BY DEF Next, Skip, Contract, ContractItself, Build, vars, Simple
<1>3. IInv /\ Simple(fsm) /\ [Next]_vars => [BP!Next]_(BP!vars)
  <2> SUFFICES ASSUME IInv, Simple(fsm), [Next]_vars PROVE [BP!Next]_(BP!vars)
    OBVIOUS
  <2>1. ASSUME NEW e \in worklist, Contract(e) PROVE BP!Next
    BY <2>1, ContractJoins
  <2>2. CASE Build
    BY <2>2, BuildPublishes DEF BP!Next
  <2>3. ASSUME NEW e \in worklist, Skip(e) PROVE UNCHANGED BP!vars
    BY <2>3 DEF Skip, BP!vars, Blocks
  <2>4. ASSUME NEW e \in worklist, ContractItself(e) PROVE UNCHANGED BP!vars
    BY <2>4 DEF ContractItself, BP!vars, Blocks
  <2>5. CASE UNCHANGED vars
    BY <2>5 DEF vars, BP!vars, Blocks
  <2>6. QED
    BY <2>1, <2>2, <2>3, <2>4, <2>5 DEF Next
<1>4. QED
  BY <1>1, <1>2, <1>3, Invariance, PTL DEF Safety, BP!Safety

(***************************************************************************)
(* Each step of the loop leaves fewer blocks or a shorter worklist, or     *)
(* ends it, in whatever order edges are taken: construct_cfg cannot go on  *)
(* for ever by putting edges back.                                         *)
(***************************************************************************)
THEOREM WorklistDrains == Safety => Progresses
<1> DEFINE Step ==
      \/ pc = "contract" /\ pc' # "contract"
      \/ Blocks' \subseteq Blocks /\ Blocks' # Blocks
      \/ Blocks' = Blocks /\ worklist' \subseteq worklist /\ worklist' # worklist
<1>1. ASSUME NEW e \in worklist, Skip(e) PROVE Step
  BY <1>1 DEF Skip, Blocks
<1>2. ASSUME IInv, NEW e \in worklist, Contract(e) PROVE Step
  <2>1. e[1] \in Blocks
    BY <1>2 DEF Contract, IInv, TypeOK
  <2>2. Blocks' = Blocks \ {e[1]}
    BY <1>2 DEF Contract, Absorb, Blocks
  <2>3. QED
    BY <2>1, <2>2
<1>3. ASSUME NEW e \in worklist, ContractItself(e) PROVE Step
  BY <1>3 DEF ContractItself
<1>4. ASSUME Build PROVE Step
  BY <1>4 DEF Build
<1>5. IInv /\ [Next]_vars => [Step]_vars
  BY <1>1, <1>2, <1>3, <1>4 DEF Next
<1>6. QED
  BY <1>5, Invariance, PTL DEF Safety, Progresses
=============================================================================
