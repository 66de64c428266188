-------------------------- MODULE SignMarkingProofs --------------------------
(***************************************************************************)
(* Proofs about SignMarking, for every graph that the front end may build, *)
(* with operators that are shared or lie on a cycle too.                   *)
(***************************************************************************)
EXTENDS SignMarking, TLAPS

\* Signs are changed in one direction only: operators keep the sign they were
\* created with, but unsigned() may lose it and is never given one.
Kept ==
  /\ signed \ Operators = graph.signed \ Operators
  /\ \A p \in Operators :
       IF graph.op[p] = "unsigned" THEN p \in signed => p \in graph.signed
       ELSE p \in graph.signed => p \in signed

\* A node that is signed has a reason to be.  An unsigned() among its operands
\* is none, since it may lose its sign: then the node was created as signed.
Justified ==
  \A p \in signed \cap Operators :
    graph.op[p] # "unsigned" => p \in graph.signed \/ SignedInputs(signed, p)

\* And no set that the rule does not extend is without it.
InClosed ==
  \A S \in SUBSET Nodes : Closed(S) =>
    \A p \in signed : graph.op[p] # "unsigned" => p \in S

\* As long as the round has changed nothing, its visits are up to date.
Visited ==
  ~changed => \A p \in Operators \ todo : p \in signed <=> Marked(p)

Done == stage = "marked" => todo = {} /\ ~changed

IInv == TypeOK /\ Kept /\ Justified /\ InClosed /\ Visited /\ Done

----------------------------------------------------------------------------
\* More signed nodes make no operator's operands less signed.
LEMMA InputsMonotone ==
  ASSUME NEW S, NEW U, NEW p, SignedInputs(S, p),
         \A q \in graph.values[p] : q \in S => q \in U
  PROVE  SignedInputs(U, p)
  BY DEF SignedInputs

\* Operators are nodes.
LEMMA OperatorsAreNodes == Operators \subseteq Nodes
  BY DEF Operators, OperatorsOf, Nodes

\* "unsigned" is an operator.
LEMMA UnsignedIsOperator ==
  ASSUME NEW p \in Nodes, graph.op[p] = "unsigned"
  PROVE  p \in Operators
  BY DEF Operators, OperatorsOf, Nodes, Operands

\* The operands of an operator are nodes.
LEMMA InputsAreNodes ==
  ASSUME TypeOK, NEW p \in Nodes
  PROVE  graph.values[p] \subseteq Nodes
  BY DEF TypeOK, IsSignGraph, Nodes

\* The expression of an unsigned() that was created as signed was so too.
LEMMA UsersOfUnsigned ==
  ASSUME TypeOK, NEW p \in Operators, NEW q \in graph.values[p],
         graph.op[q] = "unsigned", q \in graph.signed
  PROVE  p \in graph.signed
  <1>1. q \in Nodes
    BY OperatorsAreNodes, InputsAreNodes
  <1> QED
    BY <1>1 DEF TypeOK, IsSignGraph, SignFromTarget, Operators, Nodes

----------------------------------------------------------------------------
LEMMA InitHolds == Init => IInv
  <1> SUFFICES ASSUME Init PROVE IInv
    OBVIOUS
  <1>1. TypeOK
    BY GraphsAssumption DEF Init, TypeOK, IsSignGraph, Nodes
  <1>2. Kept /\ Justified /\ Visited /\ Done
    BY DEF Init, Kept, Justified, Visited, Done
  <1>3. InClosed
    <2> SUFFICES ASSUME NEW S \in SUBSET Nodes, Closed(S), NEW p \in signed, graph.op[p] # "unsigned"
                 PROVE  p \in S
      BY DEF InClosed
    <2> QED
      BY DEF Init, Closed
  <1> QED
    BY <1>1, <1>2, <1>3 DEF IInv

\* A visit preserves the invariant.
LEMMA MarkNodeKeeps ==
  ASSUME IInv, MarkNode
  PROVE  IInv'
  <1> USE DEF IInv
  <1>1. PICK n \in todo :
          /\ signed' = IF Marked(n) THEN signed \cup {n} ELSE signed \ {n}
          /\ changed' = (changed \/ signed' # signed)
          /\ todo' = todo \ {n}
    BY DEF MarkNode
  <1>2. graph' = graph /\ stage' = stage /\ stage = "added"
    BY DEF MarkNode
  <1>3. Operators' = Operators /\ Nodes' = Nodes
    BY <1>2 DEF Operators, Nodes
  <1>4. n \in Operators /\ n \in Nodes
    BY <1>1, OperatorsAreNodes DEF TypeOK
  <1>5. \A p \in signed' : p \in signed \/ (p = n /\ Marked(n))
    BY <1>1
  <1>6. \A p \in signed : p \in signed' \/ (p = n /\ graph.op[n] = "unsigned")
    BY <1>1 DEF Marked
  <1>7. ASSUME NEW p \in Operators, SignedInputs(signed, p)
        PROVE  p \in graph.signed \/ SignedInputs(signed', p)
    <2>1. CASE \A q \in graph.values[p] : q \in signed => q \in signed'
      BY <1>7, <2>1, InputsMonotone
    <2>2. ASSUME NEW q \in graph.values[p], q \in signed, q \notin signed'
          PROVE  p \in graph.signed
      <3>1. q = n /\ graph.op[q] = "unsigned"
        BY <1>6, <2>2
      <3>2. q \in graph.signed
        BY <1>4, <2>2, <3>1 DEF Kept
      <3> QED
        BY <3>1, <3>2, UsersOfUnsigned
    <2> QED
      BY <2>1, <2>2
  <1>8. \A p : SignedInputs(signed, p)' <=> SignedInputs(signed', p)
    BY <1>2 DEF SignedInputs
  <1>9. TypeOK'
    <2>1. signed' \subseteq Nodes
      BY <1>1, <1>4 DEF TypeOK
    <2>2. changed' \in BOOLEAN
      BY <1>1 DEF TypeOK
    <2> QED
      BY <1>1, <1>2, <1>3, <2>1, <2>2 DEF TypeOK, IsSignGraph, SignFromTarget, OperatorsOf
  <1>10. Kept'
    <2>1. signed' \ Operators = graph.signed \ Operators
      BY <1>1, <1>4 DEF Kept
    <2>2. ASSUME NEW p \in Operators
          PROVE  IF graph.op[p] = "unsigned" THEN p \in signed' => p \in graph.signed
                 ELSE p \in graph.signed => p \in signed'
      BY <1>5, <1>6 DEF Kept, Marked
    <2> QED
      BY <1>2, <1>3, <2>1, <2>2 DEF Kept
  <1>11. Justified'
    <2> SUFFICES ASSUME NEW p \in signed', p \in Operators, graph.op[p] # "unsigned"
                 PROVE  p \in graph.signed \/ SignedInputs(signed', p)
      BY <1>2, <1>3, <1>8 DEF Justified
    <2>1. p \in graph.signed \/ SignedInputs(signed, p)
      BY <1>5 DEF Justified, Marked
    <2> QED
      BY <1>7, <2>1
  <1>12. InClosed'
    <2> SUFFICES ASSUME NEW S \in SUBSET Nodes, Closed(S),
                        NEW p \in signed', graph.op[p] # "unsigned"
                 PROVE  p \in S
      <3>1. ASSUME NEW S, Closed(S)' PROVE Closed(S)
        BY <1>2, <1>3, <3>1 DEF Closed, SignedInputs
      <3> QED
        BY <1>2, <1>3, <3>1 DEF InClosed
    <2>1. CASE p \in signed
      BY <2>1 DEF InClosed
    <2>2. CASE p = n /\ SignedInputs(signed, n)
      <3>1. CASE \A q \in graph.values[n] : q \in signed => q \in S
        <4>1. SignedInputs(S, n)
          BY <2>2, <3>1, InputsMonotone
        <4> QED
          BY <1>4, <2>2, <4>1 DEF Closed
      <3>2. ASSUME NEW q \in graph.values[n], q \in signed, q \notin S
            PROVE  p \in S
        <4>1. graph.op[q] = "unsigned"
          BY <3>2 DEF InClosed
        <4>2. q \in Operators
          BY <1>4, <4>1, InputsAreNodes, UnsignedIsOperator
        <4>3. q \in graph.signed
          BY <3>2, <4>1, <4>2 DEF Kept
        <4>4. n \in graph.signed
          BY <1>4, <4>1, <4>3, UsersOfUnsigned
        <4> QED
          BY <1>4, <2>2, <4>4 DEF Closed
      <3> QED
        BY <3>1, <3>2
    <2> QED
      BY <1>5, <2>1, <2>2 DEF Marked
  <1>13. Visited'
    <2> SUFFICES ASSUME ~changed', NEW p \in Operators \ todo'
                 PROVE  p \in signed' <=> graph.op[p] # "unsigned" /\ (p \in signed' \/ SignedInputs(signed', p))
      BY <1>2, <1>3, <1>8 DEF Visited, Marked
    <2>1. ~changed /\ signed' = signed
      BY <1>1
    <2>2. CASE p = n
      BY <1>1, <2>1, <2>2 DEF Marked
    <2>3. CASE p # n
      BY <1>1, <2>1, <2>3 DEF Visited, Marked
    <2> QED
      BY <2>2, <2>3
  <1>14. Done'
    BY <1>2 DEF Done
  <1> QED
    BY <1>9, <1>10, <1>11, <1>12, <1>13, <1>14

\* And so does the end of a round.
LEMMA EndRoundKeeps ==
  ASSUME IInv, EndRound
  PROVE  IInv'
  <1> USE DEF IInv
  <1>1. graph' = graph /\ signed' = signed
    BY DEF EndRound
  <1>2. Operators' = Operators /\ Nodes' = Nodes
    BY <1>1 DEF Operators, Nodes
  <1>3. Kept' /\ Justified' /\ InClosed'
    BY <1>1, <1>2 DEF Kept, Justified, InClosed, Closed, SignedInputs
  <1>4. IsSignGraph(graph)'
    BY <1>1 DEF TypeOK, IsSignGraph, SignFromTarget, OperatorsOf
  <1>5. signed' \subseteq Nodes'
    BY <1>1, <1>2 DEF TypeOK
  <1>6. CASE changed
    <2>1. todo' = Operators /\ changed' = FALSE /\ stage' = "added"
      BY <1>6 DEF EndRound
    <2>2. TypeOK'
      BY <1>2, <1>4, <1>5, <2>1 DEF TypeOK
    <2>3. Visited' /\ Done'
      BY <1>2, <2>1 DEF Visited, Done
    <2> QED
      BY <1>3, <2>2, <2>3
  <1>7. CASE ~changed
    <2>1. todo' = todo /\ todo = {} /\ changed' = changed /\ stage' = "marked"
      BY <1>7 DEF EndRound
    <2>2. TypeOK'
      BY <1>2, <1>4, <1>5, <2>1 DEF TypeOK
    <2>3. Visited'
      BY <1>1, <1>2, <1>7, <2>1 DEF Visited, Marked, SignedInputs
    <2>4. Done'
      BY <1>7, <2>1 DEF Done
    <2> QED
      BY <1>3, <2>2, <2>3, <2>4
  <1> QED
    BY <1>6, <1>7

LEMMA Invariance == Spec => []IInv
  <1>1. ASSUME IInv, [Next]_vars
        PROVE  IInv'
    <2>1. CASE UNCHANGED vars
      BY <1>1, <2>1 DEF vars, IInv, TypeOK, Kept, Justified, InClosed, Visited, Done, Closed,
                        SignedInputs, Marked, Operators, Nodes
    <2> QED
      BY <1>1, <2>1, MarkNodeKeeps, EndRoundKeeps DEF Next
  <1> QED
    BY <1>1, InitHolds, PTL DEF Spec

----------------------------------------------------------------------------
(***************************************************************************)
(* The type invariant.                                                     *)
(***************************************************************************)
THEOREM TypeCorrect == Spec => []TypeOK
  BY Invariance, PTL DEF IInv

\* At the end the sign of each operator is that of its operands, or the one it
\* was created with.
LEMMA MarksByInputs == Spec => []SignsAreInputs
  <1>1. IInv => SignsAreInputs
    <2> SUFFICES ASSUME IInv, stage = "marked", NEW p \in Operators
                 PROVE  p \in signed <=>
                          graph.op[p] # "unsigned" /\ (p \in graph.signed \/ SignedInputs(signed, p))
      BY DEF SignsAreInputs
    <2>1. p \in signed <=> graph.op[p] # "unsigned" /\ (p \in signed \/ SignedInputs(signed, p))
      BY DEF IInv, Done, Visited, Marked
    <2>2. p \in signed => p \in graph.signed \/ SignedInputs(signed, p)
      BY <2>1 DEF IInv, Justified
    <2>3. graph.op[p] # "unsigned" /\ p \in graph.signed => p \in signed
      BY DEF IInv, Kept
    <2> QED
      BY <2>1, <2>2, <2>3
  <1> QED
    BY <1>1, Invariance, PTL

(***************************************************************************)
(* The signs that mark_signed_operators gives do not depend on the order   *)
(* in which it visits the nodes: they are the least its rule allows.       *)
(***************************************************************************)
THEOREM MarksTheLeast == Spec => []SignsAreLeast
  <1>1. ASSUME IInv, stage = "marked", NEW S \in SUBSET Operators,
               Closed(S \cup (graph.signed \ Operators)), NEW p \in signed
        PROVE  p \in S \cup (graph.signed \ Operators)
    <2>1. graph.op[p] # "unsigned"
      <3> SUFFICES ASSUME graph.op[p] = "unsigned" PROVE FALSE
        OBVIOUS
      <3>1. p \in Operators
        BY <1>1, UnsignedIsOperator DEF IInv, TypeOK
      <3> QED
        BY <1>1, <3>1 DEF IInv, Done, Visited, Marked
    <2>2. S \cup (graph.signed \ Operators) \in SUBSET Nodes
      BY <1>1, OperatorsAreNodes DEF IInv, TypeOK, IsSignGraph, Nodes
    <2> QED
      BY <1>1, <2>1, <2>2 DEF IInv, InClosed
  <1>2. IInv /\ SignsAreInputs => SignsAreLeast
    BY <1>1 DEF SignsAreLeast
  <1> QED
    BY <1>2, Invariance, MarksByInputs, PTL

(***************************************************************************)
(* No operator changes its sign twice, so that the rounds come to an end.  *)
(***************************************************************************)
THEOREM MarksOnce == Spec => SignsChangeOnce
  <1> DEFINE Step == stage = "added" =>
                     \A p \in Nodes : (p \in signed) # (p \in signed') =>
                       p \in Operators /\ (p \in signed' <=> graph.op[p] # "unsigned")
  <1>1. ASSUME IInv, MarkNode PROVE Step
    <2>1. PICK n \in todo : signed' = IF Marked(n) THEN signed \cup {n} ELSE signed \ {n}
      BY <1>1 DEF MarkNode
    <2> SUFFICES ASSUME NEW p \in Nodes, (p \in signed) # (p \in signed')
                 PROVE  p \in Operators /\ (p \in signed' <=> graph.op[p] # "unsigned")
      OBVIOUS
    <2>2. p = n
      BY <2>1
    <2> QED
      BY <1>1, <2>1, <2>2 DEF Marked, IInv, TypeOK
  <1>2. ASSUME EndRound PROVE Step
    BY <1>2 DEF EndRound
  <1>3. IInv /\ [Next]_vars => [Step]_vars
    BY <1>1, <1>2 DEF Next
  <1> QED
    BY <1>3, Invariance, PTL DEF Spec, SignsChangeOnce
=============================================================================
