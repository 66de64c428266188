------------------------------ MODULE PhiNodes ------------------------------
(***************************************************************************)
(* Step_3_3.create_phi_nodes: a variable whose assignments all assign one  *)
(* value is replaced by it; one that is assigned in several basic blocks   *)
(* which lead to a common one becomes a phi node there.                    *)
(* blockOf maps a state to its block, cfg are the edges between blocks.    *)
(***************************************************************************)
EXTENDS DataFlow

ValuesOf(g, v) == {ValueOf(g, a) : a \in Sources(g, v)}

\* Faulty: the values are not compared.
SeveralTimes(g, v) == Cardinality(Sources(g, v)) >= 2 /\ v \notin g.keep

\* The first loop replaces v by the value that all of several assignments
\* give it.
SameValue(g, v) ==
  /\ Cardinality(Sources(g, v)) >= 2
  /\ Cardinality(ValuesOf(g, v)) = 1
  /\ v \notin g.keep

MergeSameValue(g, v) ==
  IF SameValue(g, v)
  THEN Without(OutEdgesTo(g, v, CHOOSE x \in ValuesOf(g, v) : TRUE), {v} \cup Sources(g, v))
  ELSE g

MergeSameValues(g) ==
  LET vars == InOrder(OfKind(g, "var"))
      after[i \in 0..Len(vars)] == IF i = 0 THEN g ELSE MergeSameValue(after[i - 1], vars[i])
  IN  after[Len(vars)]

AssignedIn(g, v, states) ==
  UNION {IF a \in DOMAIN g.son THEN g.son[a] ELSE states : a \in Sources(g, v)}

\* The blocks that assign v.
AssigningBlocks(g, v, blockOf) == {blockOf[s] : s \in AssignedIn(g, v, DOMAIN blockOf)}

\* The blocks to which each of B leads directly.
CommonSuccessors(cfg, B) == {c \in {e[2] : e \in cfg} : \A b \in B : c \in Succs(cfg, b)}

\* The blocks to which each of B leads at length.
CommonDescendants(cfg, B) ==
  {c \in {e[2] : e \in cfg} \cup B : \A b \in B : c \in Closure(cfg, {b})}

MergeCandidates(cfg, B) ==
  IF CommonSuccessors(cfg, B) # {} THEN CommonSuccessors(cfg, B) ELSE CommonDescendants(cfg, B)

IsCandidate(g, v, blockOf) ==
  /\ Cardinality(Sources(g, v)) > 1
  /\ AssignedIn(g, v, DOMAIN blockOf) # DOMAIN blockOf
  /\ Cardinality(AssigningBlocks(g, v, blockOf)) > 1

(***************************************************************************)
(* The phi node of v, in the state s: each assignment to v, in the order   *)
(* of graph.predecessors, assigns an operand of the phi node instead.      *)
(***************************************************************************)
WithPhi(g, v, s) ==
  LET asgs == InOrder(Sources(g, v))
      phi == FirstFree(g)
      asg == phi + 1
      operand == [a \in Sources(g, v) |-> asg + CHOOSE i \in DOMAIN asgs : asgs[i] = a]
      new == [n \in {phi, asg} \cup {operand[a] : a \in Sources(g, v)} |->
                <<IF n = phi THEN "phi" ELSE IF n = asg THEN "asg" ELSE "var", g.label[v]>>]
      freed == [g EXCEPT !.edges = @ \ InEdges(g, v)]
      wired == WithEdges(WithNodes(freed, new),
                 {<<phi, asg, 0>>, <<asg, v, 0>>}
                   \cup {<<e[1], operand[e[1]], e[3]>> : e \in InEdges(g, v)}
                   \cup {<<operand[a], phi, operand[a] - asg - 1>> : a \in Sources(g, v)})
  IN  WithSon(wired, [n \in {phi, asg, v} |-> {s}])

CreatePhi(g, v, blockOf, cfg, stateOf) ==
  LET B == AssigningBlocks(g, v, blockOf)
  IN  IF g.error # "" \/ ~IsCandidate(g, v, blockOf) THEN g
      ELSE IF Cardinality(CommonSuccessors(cfg, B)) > 1 THEN Fail(g, "merge points")
      ELSE IF Cardinality(MergeCandidates(cfg, B)) # 1 THEN g
      ELSE WithPhi(g, v, stateOf[CHOOSE m \in MergeCandidates(cfg, B) : TRUE])

\* stateOf: the state of a block that list() happens to have first.
CreatePhiNodes(g, blockOf, cfg, stateOf) ==
  LET merged == MergeSameValues(g)
      vars == InOrder(OfKind(merged, "var"))
      after[i \in 0..Len(vars)] ==
        IF i = 0 THEN merged ELSE CreatePhi(after[i - 1], vars[i], blockOf, cfg, stateOf)
  IN  Checked(after[Len(vars)], TRUE)
=============================================================================
