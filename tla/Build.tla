------------------------------- MODULE Build -------------------------------
(***************************************************************************)
(* The files that one design goes through: tests/x.v, and below .build/    *)
(* x.ast, x.mlir, x.ll and x.fuzz.  `make` runs the recipes of the         *)
(* Makefile: .mlir depends on a phony target, so hace/flow.py runs in      *)
(* every build, and .ll and .fuzz are made again after it.  flow.py asks a *)
(* nested make for the .ast, which is made by hace/_1.py if the Verilog is *)
(* newer, and does not look at the result.  Meanwhile the Verilog may be   *)
(* edited, and the build may be killed between any two steps.              *)
(*                                                                         *)
(* A version of the Verilog is its number and what becomes of it: it does  *)
(* not parse, a pass gives up on it, or it is translated.                  *)
(***************************************************************************)
EXTENDS Integers

CONSTANT MaxEdits  \* bound on the number of edits

ASSUME MaxEditsAssumption == MaxEdits \in Nat

Fates == {"unparsable", "untranslatable", "translatable"}
Version == [id : 1 .. MaxEdits + 1, fate : Fates]

None == [id |-> 0, fate |-> "none"]
Truncated == [id |-> 0, fate |-> "truncated"]

VARIABLES
  verilog,      \* the current version of tests/x.v
  ast,          \* what x.ast holds: None, Truncated, or a version
  fresh,        \* x.ast exists and is newer than tests/x.v
  mlir, ll,     \* the versions that x.mlir and x.ll come from, or None
  fuzz,         \* [of, success]: what x.fuzz reports, and of which version
  pc,           \* the step the build is at, "idle" when there is none
  source,       \* the version _1.py has read
  outcome,      \* "none", "succeeded" or "failed": how the last build ended
  begun,        \* ghost: the Verilog when the build began
  parseFailed,  \* ghost: _1.py failed in this build
  raced         \* ghost: the Verilog was edited while x.ast was made from it

files == <<ast, fresh, mlir, ll, fuzz>>
ghosts == <<begun, parseFailed, raced>>
vars == <<verilog, files, pc, source, outcome, ghosts>>

Init ==
  /\ verilog \in {v \in Version : v.id = 1}
  /\ ast = None /\ fresh = FALSE
  /\ mlir = None /\ ll = None
  /\ fuzz = [of |-> None, success |-> FALSE]
  /\ pc = "idle" /\ source = None /\ outcome = "none"
  /\ begun = verilog /\ parseFailed = FALSE /\ raced = FALSE

----------------------------------------------------------------------------
(* The user.                                                               *)

Edit ==
  /\ verilog.id <= MaxEdits
  /\ verilog' \in {v \in Version : v.id = verilog.id + 1}
  /\ fresh' = FALSE
  /\ UNCHANGED <<ast, mlir, ll, fuzz, pc, source, outcome, ghosts>>

\* make
StartBuild ==
  /\ pc = "idle"
  /\ pc' = "ast"
  /\ outcome' = "none"
  /\ begun' = verilog
  /\ parseFailed' = FALSE
  /\ UNCHANGED <<verilog, files, source, raced>>

\* No process of the build has the time to remove what it was writing.
Kill ==
  /\ pc # "idle"
  /\ pc' = "idle"
  /\ outcome' = "failed"
  /\ UNCHANGED <<verilog, files, source, ghosts>>

\* make clean
Clean ==
  /\ pc = "idle"
  /\ ast' = None /\ fresh' = FALSE
  /\ mlir' = None /\ ll' = None
  /\ fuzz' = [of |-> None, success |-> FALSE]
  /\ outcome' = "none"
  /\ raced' = FALSE
  /\ UNCHANGED <<verilog, pc, source, begun, parseFailed>>

----------------------------------------------------------------------------
(* The nested make and _1.py.                                              *)

\* Faulty: the modification times are ignored.
NeedsAstIfMissing == ast = None

NeedsAst == ~fresh

AstUpToDate ==
  /\ pc = "ast"
  /\ ~NeedsAst
  /\ pc' = "load"
  /\ UNCHANGED <<verilog, files, source, outcome, ghosts>>

ReadVerilog ==
  /\ pc = "ast"
  /\ NeedsAst
  /\ source' = verilog
  /\ pc' = "parse"
  /\ UNCHANGED <<verilog, files, outcome, ghosts>>

\* The parser raises, make reports it, flow.py goes on.
ParseFails ==
  /\ pc = "parse"
  /\ source.fate = "unparsable"
  /\ parseFailed' = TRUE
  /\ pc' = "load"
  /\ UNCHANGED <<verilog, files, source, outcome, begun, raced>>

\* open(..., "wb") is evaluated before pickle.dumps.
OpenAst ==
  /\ pc = "parse"
  /\ source.fate # "unparsable"
  /\ ast' = Truncated /\ fresh' = TRUE /\ raced' = FALSE
  /\ pc' = "dump"
  /\ UNCHANGED <<verilog, mlir, ll, fuzz, source, outcome, begun, parseFailed>>

DumpAst ==
  /\ pc = "dump"
  /\ ast' = source /\ fresh' = TRUE /\ raced' = (source # verilog)
  /\ pc' = "load"
  /\ UNCHANGED <<verilog, mlir, ll, fuzz, source, outcome, begun, parseFailed>>

\* pickle.dumps raises, as it does of an AST that is nested too deeply.
DumpFails ==
  /\ pc = "dump"
  /\ pc' = "load"
  /\ UNCHANGED <<verilog, files, source, outcome, ghosts>>

----------------------------------------------------------------------------
(* flow.py, after the nested make, and the recipes that follow.            *)

\* Faulty: a pass that gives up goes unnoticed.
TranslatesAnything == ast \notin {None, Truncated}

\* pickle.loads finds a netlist, and no pass gives up.
Translates == ast \notin {None, Truncated} /\ ast.fate = "translatable"

FlowFails ==
  /\ pc = "load"
  /\ ~Translates
  /\ pc' = "idle"
  /\ outcome' = "failed"
  /\ UNCHANGED <<verilog, files, source, ghosts>>

WriteMlir ==
  /\ pc = "load"
  /\ Translates
  /\ mlir' = ast
  /\ pc' = "lower"
  /\ UNCHANGED <<verilog, ast, fresh, ll, fuzz, source, outcome, ghosts>>

\* Faulty: an .ll that is there is taken to be up to date.
LoweredOnce == IF ll = None THEN mlir ELSE ll

Lowered == mlir

Lower ==
  /\ pc = "lower"
  /\ ll' = Lowered
  /\ pc' = "fuzz"
  /\ UNCHANGED <<verilog, ast, fresh, mlir, fuzz, source, outcome, ghosts>>

\* mlir-opt or mlir-translate rejects the module.
LowerFails ==
  /\ pc = "lower"
  /\ pc' = "idle"
  /\ outcome' = "failed"
  /\ UNCHANGED <<verilog, files, source, ghosts>>

\* The recipe ignores fuzzer.py's status; grep of its output decides.
Fuzz ==
  /\ pc = "fuzz"
  /\ \E success \in BOOLEAN :
       /\ fuzz' = [of |-> ll, success |-> success]
       /\ outcome' = IF success THEN "succeeded" ELSE "failed"
  /\ pc' = "idle"
  /\ UNCHANGED <<verilog, ast, fresh, mlir, ll, source, ghosts>>

Next ==
  \/ Edit
  \/ StartBuild
  \/ Kill
  \/ Clean
  \/ AstUpToDate
  \/ ReadVerilog
  \/ ParseFails
  \/ OpenAst
  \/ DumpAst
  \/ DumpFails
  \/ FlowFails
  \/ WriteMlir
  \/ Lower
  \/ LowerFails
  \/ Fuzz

Spec == Init /\ [][Next]_vars
----------------------------------------------------------------------------
Steps == {"idle", "ast", "parse", "dump", "load", "lower", "fuzz"}

TypeOK ==
  /\ verilog \in Version
  /\ begun \in Version
  /\ ast \in Version \cup {None, Truncated}
  /\ source \in Version \cup {None}
  /\ mlir \in Version \cup {None} /\ mlir.fate \in {"none", "translatable"}
  /\ ll \in Version \cup {None}
  /\ fuzz \in [of : Version \cup {None}, success : BOOLEAN]
  /\ fresh \in BOOLEAN /\ parseFailed \in BOOLEAN /\ raced \in BOOLEAN
  /\ pc \in Steps
  /\ outcome \in {"none", "succeeded", "failed"}

(***************************************************************************)
(* The report that a successful build leaves behind is about the MLIR it   *)
(* leaves behind, however the earlier builds ended.                        *)
(***************************************************************************)
ReportIsOfMlir ==
  outcome = "succeeded" => fuzz = [of |-> mlir, success |-> TRUE]

(***************************************************************************)
(* A successful build has translated a version of the Verilog no older     *)
(* than the one it began with, unless that version did not parse, or an    *)
(* edit overtook _1.py: the AST it wrote is then newer than the edit.      *)
(***************************************************************************)
StaleOnlyIf ==
  outcome = "succeeded" => mlir.id >= begun.id \/ parseFailed \/ raced

(***************************************************************************)
(* "It receives as input a Verilog code and it returns the MLIR            *)
(* representation of the CDFG": a successful build has translated the      *)
(* Verilog it was given, or a newer version, unless an edit overtook it.   *)
(***************************************************************************)
MlirIsOfVerilog ==
  outcome = "succeeded" => mlir.id >= begun.id \/ raced
=============================================================================
