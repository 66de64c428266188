---------------------------- MODULE BuildProofs ----------------------------
(***************************************************************************)
(* What a build that succeeds has done, after any number of edits, kills   *)
(* and failed builds.                                                      *)
(***************************************************************************)
EXTENDS Build, TLAPS

\* While a build runs its outcome is open.
Open == pc # "idle" => outcome = "none"

\* An AST that make takes for up to date is that of the current Verilog.
FreshIsCurrent ==
  fresh => ast = verilog \/ ast = Truncated \/ raced

\* What each step of a build may rely on.
NoOlder(v) == v.id >= begun.id

Progress ==
  /\ verilog.id >= begun.id
  /\ pc \in {"parse", "dump"} => NoOlder(source)
  /\ pc = "dump" => ast = Truncated
  /\ pc = "load" => ast \in {None, Truncated} \/ NoOlder(ast) \/ parseFailed \/ raced
  /\ pc \in {"lower", "fuzz"} \/ outcome = "succeeded" =>
       NoOlder(mlir) \/ parseFailed \/ raced
  /\ pc = "fuzz" => ll = mlir

Inv == TypeOK /\ Open /\ FreshIsCurrent /\ Progress /\ ReportIsOfMlir

----------------------------------------------------------------------------
USE MaxEditsAssumption

LEMMA InitInv == Init => Inv
<1> SUFFICES ASSUME Init PROVE Inv
  OBVIOUS
<1>1. TypeOK
  BY DEF Init, TypeOK, Version, Fates, None, Steps
<1>2. Open /\ FreshIsCurrent /\ ReportIsOfMlir
  BY DEF Init, Open, FreshIsCurrent, ReportIsOfMlir
<1>3. Progress
  BY <1>1 DEF Init, Progress, TypeOK, Version
<1> QED
  BY <1>1, <1>2, <1>3 DEF Inv

LEMMA NextTypeOK == TypeOK /\ [Next]_vars => TypeOK'
<1> SUFFICES ASSUME TypeOK, [Next]_vars PROVE TypeOK'
  OBVIOUS
<1> USE DEF TypeOK, Steps, vars, files, ghosts
<1>1. CASE Edit
  <2>1. verilog' \in Version
    BY <1>1, Zenon DEF Edit
  <2>2. fresh' \in BOOLEAN
    BY <1>1 DEF Edit
  <2>3. UNCHANGED <<ast, mlir, ll, fuzz, pc, source, outcome, ghosts>>
    BY <1>1, Zenon DEF Edit
  <2> QED
    BY <2>1, <2>2, <2>3
<1>2. CASE StartBuild
  BY <1>2 DEF StartBuild
<1>3. CASE Kill
  BY <1>3 DEF Kill
<1>4. CASE Clean
  BY <1>4 DEF Clean, None
<1>5. CASE AstUpToDate
  BY <1>5 DEF AstUpToDate
<1>6. CASE ReadVerilog
  BY <1>6 DEF ReadVerilog
<1>7. CASE ParseFails
  BY <1>7 DEF ParseFails
<1>8. CASE OpenAst
  BY <1>8 DEF OpenAst
<1>9. CASE DumpAst
  BY <1>9 DEF DumpAst
<1>10. CASE DumpFails
  BY <1>10 DEF DumpFails
<1>11. CASE FlowFails
  BY <1>11 DEF FlowFails
<1>12. CASE WriteMlir
  BY <1>12 DEF WriteMlir, Translates, Truncated
<1>13. CASE Lower
  BY <1>13 DEF Lower, Lowered
<1>14. CASE LowerFails
  BY <1>14 DEF LowerFails
<1>15. CASE Fuzz
  BY <1>15 DEF Fuzz
<1>16. CASE UNCHANGED vars
  BY <1>16
<1> QED
  BY <1>1, <1>2, <1>3, <1>4, <1>5, <1>6, <1>7, <1>8, <1>9, <1>10, <1>11,
     <1>12, <1>13, <1>14, <1>15, <1>16 DEF Next

LEMMA NextInv == Inv /\ [Next]_vars => Inv'
<1> SUFFICES ASSUME Inv, [Next]_vars
             PROVE  Open' /\ FreshIsCurrent' /\ Progress' /\ ReportIsOfMlir'
  BY NextTypeOK DEF Inv
<1> USE DEF Inv, TypeOK, Open, FreshIsCurrent, Progress, NoOlder, ReportIsOfMlir,
            Steps, vars, files, ghosts
<1>1. CASE Edit
  BY <1>1 DEF Edit, Version, Fates
<1>2. CASE StartBuild
  BY <1>2 DEF StartBuild, Version
<1>3. CASE Kill
  BY <1>3 DEF Kill
<1>4. CASE Clean
  BY <1>4 DEF Clean
<1>5. CASE AstUpToDate
  BY <1>5 DEF AstUpToDate, NeedsAst
<1>6. CASE ReadVerilog
  BY <1>6 DEF ReadVerilog
<1>7. CASE ParseFails
  BY <1>7 DEF ParseFails
<1>8. CASE OpenAst
  BY <1>8 DEF OpenAst
<1>9. CASE DumpAst
  BY <1>9 DEF DumpAst
<1>10. CASE DumpFails
  BY <1>10 DEF DumpFails
<1>11. CASE FlowFails
  BY <1>11 DEF FlowFails
<1>12. CASE WriteMlir
  BY <1>12 DEF WriteMlir, Translates
<1>13. CASE Lower
  BY <1>13 DEF Lower, Lowered
<1>14. CASE LowerFails
  BY <1>14 DEF LowerFails
<1>15. CASE Fuzz
  BY <1>15 DEF Fuzz
<1>16. CASE UNCHANGED vars
  BY <1>16
<1> QED
  BY <1>1, <1>2, <1>3, <1>4, <1>5, <1>6, <1>7, <1>8, <1>9, <1>10, <1>11,
     <1>12, <1>13, <1>14, <1>15, <1>16 DEF Next

LEMMA Invariant == Spec => []Inv
BY InitInv, NextInv, PTL DEF Spec

(***************************************************************************)
(* Type correctness: only versions that a translation exists for reach the *)
(* MLIR, although a broken AST can stay on the disk.                       *)
(***************************************************************************)
THEOREM TypeCorrect == Spec => []TypeOK
<1>1. Inv => TypeOK
  BY DEF Inv
<1> QED
  BY <1>1, Invariant, PTL

(***************************************************************************)
(* The report of a successful build is about the MLIR on the disk.         *)
(***************************************************************************)
THEOREM ReportsItsMlir == Spec => []ReportIsOfMlir
<1>1. Inv => ReportIsOfMlir
  BY DEF Inv
<1> QED
  BY <1>1, Invariant, PTL

(***************************************************************************)
(* A parse error that flow.py does not notice and an edit during the parse *)
(* are the only ways to build an older version.                            *)
(***************************************************************************)
THEOREM OnlyTwoWaysToBeStale == Spec => []StaleOnlyIf
<1>1. Inv => StaleOnlyIf
  BY DEF Inv, Progress, NoOlder, StaleOnlyIf
<1> QED
  BY <1>1, Invariant, PTL
=============================================================================
