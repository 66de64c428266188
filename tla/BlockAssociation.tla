-------------------------- MODULE BlockAssociation --------------------------
(***************************************************************************)
(* Step_3_4.associate_nodes_with_bbs and the part of Step_3_5 that is not  *)
(* about branches: every value gets the basic block in which it is         *)
(* computed, and the variables and assignments disappear: an operand is    *)
(* then a value in static single assignment form.                          *)
(* g.bb is bb_of_node.  A block layout L has the fields blockOf, cfg,      *)
(* start and stop (blocks).                                                *)
(***************************************************************************)
EXTENDS DataFlow

\* get_preceeding_assignments: the nodes before n, back to the assignments.
\* Its loop takes condition edges too, of which there are none in g.
PrecedingNodes(g, n) ==
  Closure({<<e[2], e[1], 0>> : e \in {d \in g.edges : g.kind[d[1]] # "asg"}},
          {m \in Sources(g, n) : g.kind[m] # "asg"})

PrecedingAssignments(g, n) ==
  {a \in UNION {Sources(g, m) : m \in {n} \cup PrecedingNodes(g, n)} : g.kind[a] = "asg"}

\* There is more than one way back from n to an assignment.
SeveralWaysBack(g, n) ==
  \E m \in {n} \cup PrecedingNodes(g, n) :
    Cardinality({e \in InEdges(g, m) : g.kind[e[1]] = "asg" \/ PrecedingAssignments(g, e[1]) # {}}) > 1

UniqueState(g, n) == n \in DOMAIN g.son /\ Cardinality(g.son[n]) = 1
BlockOfState(g, n, L) == L.blockOf[CHOOSE s \in g.son[n] : TRUE]

\* An ArgumentNode, assigned at the start, for each input.
WithArguments(g, L) ==
  LET inputs == g.inputs
      arg == FreshFor(g, inputs)
      asg == [i \in inputs |-> arg[i] + Cardinality(inputs)]
      A == {arg[i] : i \in inputs}
      B == {asg[i] : i \in inputs}
      named(f, n) == g.label[CHOOSE i \in inputs : f[i] = n]
      h == WithNodes(g, [n \in A |-> <<"arg", named(arg, n)>>] @@ [n \in B |-> <<"asg", named(asg, n)>>])
  IN  [WithEdges(h, {<<arg[i], asg[i], 0>> : i \in inputs} \cup {<<asg[i], i, 0>> : i \in inputs})
         EXCEPT !.bb = [n \in A \cup B |-> L.start] @@ @]

\* A second ReturnValue behind the one that Step_2_3 made.
WithReturns(g, L) ==
  LET R == OfKind(g, "return")
      f == FreshFor(g, R)
      h == WithNodes(g, [n \in {f[r] : r \in R} |-> <<"result", "">>])
  IN  [WithEdges(h, {<<r, f[r], 0>> : r \in R})
         EXCEPT !.bb = [n \in R \cup {f[r] : r \in R} |-> L.stop] @@ @]

----------------------------------------------------------------------------
(* The blocks.                                                             *)

(***************************************************************************)
(* The worklist: an assignment without a unique state goes, once all       *)
(* assignments before it have a block, where their blocks come together.   *)
(***************************************************************************)
PlaceAssignments(g, A, L) ==
  LET ready(bb) == {a \in A \ DOMAIN bb : PrecedingAssignments(g, a) \subseteq DOMAIN bb}
      place(bb, a) ==
        LET P == PrecedingAssignments(g, a)
        IN  IF P = {} THEN L.start
            ELSE IF Cardinality({bb[p] : p \in P}) = 1 THEN bb[CHOOSE p \in P : TRUE]
            ELSE FirstCommonPostdominator(L.cfg, L.stop, {bb[p] : p \in P})
      round[k \in 0..Cardinality(A)] ==
        IF k = 0 THEN g.bb
        ELSE LET bb == round[k - 1] IN [a \in ready(bb) |-> place(bb, a)] @@ bb
  IN  round[Cardinality(A)]

\* lowest_common_ancestor is asked of blocks that the tree of
\* post-dominators has; one block alone is its own ancestor.
Placeable(g, A, bb, L) ==
  \A a \in A \ DOMAIN g.bb :
    SeveralWaysBack(g, a) =>
      {bb[p] : p \in PrecedingAssignments(g, a)} \subseteq TreeNodes(Reversed(L.cfg), L.stop)

\* A store executes in its state's block, and so do its operands.
WithStoresPlaced(g, L) ==
  LET S == OfKind(g, "store")
      near(s) == {s} \cup Sources(g, s)
      user(n) == CHOOSE s \in S : n \in near(s)
  IN  [g EXCEPT !.bb = [n \in UNION {near(s) : s \in S} |-> BlockOfState(g, user(n), L)] @@ @]

\* The assignments among A that n contributes to.
AssignmentsAfter(g, A, n) == {a \in A : n \in PrecedingNodes(g, a)}

\* last[n]: of these, the one that the loop over a list made from a set
\* reaches last.
LastAssignments(g, A) ==
  LET N == UNION {PrecedingNodes(g, a) : a \in A}
      after == [n \in N |-> AssignmentsAfter(g, A, n)]
      several == {n \in N : Cardinality({g.bb[a] : a \in after[n]}) > 1}
      pick == [several -> A]
  IN  {[n \in N |-> IF n \in several THEN p[n] ELSE CHOOSE a \in after[n] : TRUE] :
         p \in {q \in pick :
                  /\ \A n \in several : q[n] \in after[n]
                  /\ \A n, m \in several : {q[n], q[m]} \subseteq after[n] \cap after[m] => q[n] = q[m]}}

WithOperatorsPlaced(g, last) ==
  [g EXCEPT !.bb = [n \in DOMAIN last |-> g.bb[last[n]]] @@ @]

----------------------------------------------------------------------------
(* Variables disappear.                                                    *)

\* Their blocks, if they have any, are not forgotten.
WithoutDeadEnds(g) ==
  Without(g, {n \in Nodes(g) \ g.keep : Users(g, n) = {} /\ g.kind[n] \notin {"store", "result"}})

\* Nodes go, and their blocks are forgotten.
Unplaced(g, N) == [Without(g, N) EXCEPT !.bb = [n \in DOMAIN g.bb \ N |-> g.bb[n]]]

\* A variable with an assignment is replaced by the value assigned.
ReplaceVariable(g, v) ==
  LET a == CHOOSE b \in Sources(g, v) : TRUE
  IN  IF Sources(g, v) = {} THEN g
      ELSE IF v \in g.keep THEN [g EXCEPT !.bb = v :> g.bb[a] @@ @]
      ELSE Unplaced(OutEdgesTo(g, v, ValueOf(g, a)), {a, v})

ReplaceVariables(g) ==
  LET vars == InOrder(OfKind(g, "var"))
      after[i \in 0..Len(vars)] == IF i = 0 THEN g ELSE ReplaceVariable(after[i - 1], vars[i])
  IN  after[Len(vars)]

SingleAssignment(g) == \A v \in OfKind(g, "var") : Cardinality(Sources(g, v)) <= 1

WithValuesPlaced(g, L) == [g EXCEPT !.bb = [n \in OfKind(g, "const") |-> L.start] @@ @]

(***************************************************************************)
(* all_nodes_are_scheduled, every_operation_is_dominated_by_its_arguments. *)
(* has_path raises for a block that the dominator tree does not have.      *)
(***************************************************************************)
AllScheduled(g) == Nodes(g) = DOMAIN g.bb

Reaches(L, n, m, g) ==
  /\ {g.bb[n], g.bb[m]} \subseteq TreeNodes(L.cfg, L.start)
  /\ Dominates(L.cfg, L.start, g.bb[n], g.bb[m])

OperatorsDominated(g, L) ==
  \A n \in OfKind(g, "op") : \A a \in Sources(g, n) : Reaches(L, a, n, g)

CheckedPlaced(g, L) ==
  IF g.error # "" THEN g
  ELSE IF ~AllScheduled(g) THEN Fail(g, "unscheduled")
  ELSE IF ~OperatorsDominated(g, L) THEN Fail(g, "dominance")
  ELSE Checked(g, TRUE)

AssociateNodesWithBlocks(g, L) ==
  LET A == OfKind(g, "asg")
      unique == {a \in A : UniqueState(g, a)}
      g1 == [g EXCEPT !.bb = [a \in unique |-> BlockOfState(g, a, L)] @@ @]
      g2 == WithReturns(WithArguments(g1, L), L)
      g3 == [g2 EXCEPT !.bb = PlaceAssignments(g2, A, L)]
      g4 == WithStoresPlaced(g3, L)
      finish(last) ==
        LET g5 == WithoutDeadEnds(WithOperatorsPlaced(g4, last))
            g6 == ReplaceVariables(g5)
            g7 == Unplaced(g6, Unused(g6))
        IN  IF SingleAssignment(g5) THEN CheckedPlaced(WithValuesPlaced(g7, L), L)
            ELSE Fail(g5, "several assignments")
  IN  IF ~g.inputs \subseteq Nodes(g) THEN {Fail(g, "input gone")}
      ELSE IF ~A \subseteq DOMAIN g3.bb THEN {Fail(g3, "no progress")}
      ELSE IF ~Placeable(g2, A, g3.bb, L) THEN {Fail(g3, "no common ancestor")}
      ELSE IF \E s \in OfKind(g, "store") : ~UniqueState(g, s) THEN {Fail(g3, "store states")}
      ELSE {finish(last) : last \in LastAssignments(g4, A)}

(***************************************************************************)
(* The end of create_branches: what variables are left, those that were    *)
(* kept, are replaced by the value of their first assignment as well.      *)
(***************************************************************************)
RemoveKept(g, v) ==
  IF g.error # "" THEN g
  ELSE IF Sources(g, v) = {} THEN Fail(g, "undriven variable")
  ELSE OutEdgesTo(g, v, ValueOf(g, CHOOSE a \in Sources(g, v) : TRUE))

RemoveVariables(g, L) ==
  LET unused == Unused(g)
      g1 == FoldLeft(RemoveKept, g, InOrder(OfKind(g, "var")))
      gone == OfKind(g1, "var") \cup OfKind(g1, "asg") \cup unused \cup Unused(g1)
  IN  IF g1.error # "" THEN g1 ELSE CheckedPlaced(Unplaced(g1, gone), L)
=============================================================================
