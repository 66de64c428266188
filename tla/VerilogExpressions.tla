------------------------- MODULE VerilogExpressions -------------------------
(***************************************************************************)
(* Verilog expressions over variables of some width and sign, and what the *)
(* language says they mean: the reference for ExpressionTranslation.       *)
(*                                                                         *)
(* An expression is a record: op; args, its operands (those of ?: in the   *)
(* order of their index: then, else, condition); and at, what is fixed     *)
(* when the circuit is: <<v>> for a variable, <<value, width>> for a       *)
(* number, <<msb, lsb>> for a slice, <<i>> for an index, <<n>> for a       *)
(* replication, <<width>> for a load.  T maps a variable to its width and  *)
(* sign.  Values are numbers from 0 to 2^width - 1.                        *)
(***************************************************************************)
EXTENDS Integers, Sequences, FiniteSets, FiniteSetsExt

CONSTANT WordWidth  \* the width of a number that is given none (32)

ASSUME WordWidthAssumption == WordWidth \in Nat \ {0}

Comparisons == {"==", "!=", "===", "<", "<=", ">", ">="}
Logical == Comparisons \cup {"&&", "||"}
Shifts == {"<<", ">>>"}
Binary == Logical \cup Shifts \cup {"+", "-", "*", "&", "|", "^"}
Unary == {"neg", "~", "!", "signed", "unsigned"}
Leaves == {"var", "number"}

\* Operators whose operands are as wide, and have the sign, of the context.
InContext == {"+", "-", "*", "&", "|", "^", "neg", "~", "?:"} \cup Shifts

Args(e) == DOMAIN e.args
SumOf(f) == FoldSet(LAMBDA i, n : n + f[i], 0, DOMAIN f)

\* v, of the width `from`, as a number of the width `to`.
Resized(v, from, to, signed) ==
  IF to > from /\ signed /\ v >= 2^(from - 1) THEN v + 2^to - 2^from ELSE v % 2^to

AsSigned(v, width) == IF v >= 2^(width - 1) THEN v - 2^width ELSE v

Holds(op, a, b) ==
  CASE op \in {"==", "==="} -> a = b
    [] op = "!=" -> a # b
    [] op = "<" -> a < b
    [] op = "<=" -> a <= b
    [] op = ">" -> a > b
    [] op = ">=" -> a >= b

Bit(b) == IF b THEN 1 ELSE 0

Bits(v, msb, lsb) == (v \div 2^lsb) % 2^(msb - lsb + 1)

\* Bit by bit, with the truth function f of two bits.
Bitwise(f(_, _), a, b, width) ==
  SumOf([i \in 0..width-1 |-> 2^i * f((a \div 2^i) % 2, (b \div 2^i) % 2)])
And(a, b, width) == Bitwise(LAMBDA x, y : x * y, a, b, width)
Or(a, b, width) == Bitwise(LAMBDA x, y : x + y - x * y, a, b, width)

\* Values v[i] of the widths w[i], the first one in the highest bits.
Concatenated(v, w) ==
  SumOf([i \in DOMAIN v |-> v[i] * 2^SumOf([j \in {k \in DOMAIN w : k > i} |-> w[j]])])

----------------------------------------------------------------------------
(* IEEE 1364, 5.4 and 5.5: widths and signs.                               *)

RECURSIVE SelfWidth(_, _)
SelfWidth(T, e) ==
  CASE e.op = "var" -> T[e.at[1]].width
    [] e.op = "number" -> e.at[2]
    [] e.op = "load" -> e.at[1]
    [] e.op \in Logical \cup {"!", "index"} -> 1
    [] e.op = "slice" -> e.at[1] - e.at[2] + 1
    [] e.op = "replicate" -> e.at[1] * SelfWidth(T, e.args[1])
    [] e.op = "concat" -> SumOf([i \in Args(e) |-> SelfWidth(T, e.args[i])])
    [] e.op \in Shifts \cup Unary -> SelfWidth(T, e.args[1])
    [] OTHER -> Max({SelfWidth(T, e.args[i]) : i \in {1, 2}})

RECURSIVE SelfSigned(_, _)
SelfSigned(T, e) ==
  CASE e.op = "var" -> T[e.at[1]].signed
    [] e.op = "number" -> e.at[2] = WordWidth
    [] e.op \in Shifts -> SelfSigned(T, e.args[1])
    [] e.op \in InContext \ Shifts -> \A i \in Args(e) \ {3} : SelfSigned(T, e.args[i])
    [] OTHER -> e.op = "signed"

\* The width and sign of the operands of a comparison.
CommonWidth(T, e) == Max({SelfWidth(T, e.args[i]) : i \in {1, 2}})
CommonSign(T, e) == \A i \in {1, 2} : SelfSigned(T, e.args[i])

\* The value of e, in a context of the given width and sign, where the
\* variables have the values env; of a load, the address that it reads.
RECURSIVE Meaning(_, _, _, _, _)
Meaning(T, e, env, width, signed) ==
  LET arg(i) == Meaning(T, e.args[i], env, width, signed)
      own(i) == Meaning(T, e.args[i], env, SelfWidth(T, e.args[i]), SelfSigned(T, e.args[i]))
      number(i) == LET w == CommonWidth(T, e)
                       s == CommonSign(T, e)
                       v == Meaning(T, e.args[i], env, w, s)
                   IN  IF s THEN AsSigned(v, w) ELSE v
      extended(v) == Resized(v, SelfWidth(T, e), width, signed)
      modulo(v) == v % 2^width
  IN  CASE e.op = "var" -> extended(env[e.at[1]])
        [] e.op = "number" -> extended(e.at[1])
        [] e.op = "load" -> own(1)
        [] e.op \in Comparisons -> extended(Bit(Holds(e.op, number(1), number(2))))
        [] e.op = "&&" -> extended(Bit(own(1) # 0 /\ own(2) # 0))
        [] e.op = "!" -> extended(Bit(own(1) = 0))
        [] e.op \in {"signed", "unsigned"} -> extended(own(1))
        [] e.op = "index" -> extended(Bits(own(1), e.at[1], e.at[1]))
        [] e.op = "slice" -> extended(Bits(own(1), e.at[1], e.at[2]))
        [] e.op = "concat" -> extended(Concatenated([i \in Args(e) |-> own(i)], [i \in Args(e) |-> SelfWidth(T, e.args[i])]))
        [] e.op = "replicate" ->
             LET n == 1..e.at[1]
             IN  extended(Concatenated([i \in n |-> own(1)], [i \in n |-> SelfWidth(T, e.args[1])]))
        [] e.op = "?:" -> IF own(3) # 0 THEN arg(1) ELSE arg(2)
        [] e.op = "+" -> modulo(arg(1) + arg(2))
        [] e.op = "-" -> modulo(arg(1) - arg(2))
        [] e.op = "*" -> modulo(arg(1) * arg(2))
        [] e.op = "neg" -> modulo(-arg(1))
        [] e.op = "&" -> And(arg(1), arg(2), width)
        [] e.op = "|" -> Or(arg(1), arg(2), width)
        [] e.op = "<<" -> modulo(arg(1) * 2^own(2))
        [] e.op = ">>>" -> modulo((IF signed THEN AsSigned(arg(1), width) ELSE arg(1)) \div 2^own(2))

\* What an assignment of e to a variable of the given width assigns.
Assigned(T, e, env, width) ==
  LET w == Max({width, SelfWidth(T, e)})
  IN  IF e.op = "load" THEN Meaning(T, e, env, w, FALSE)
      ELSE Meaning(T, e, env, w, SelfSigned(T, e)) % 2^width
=============================================================================
