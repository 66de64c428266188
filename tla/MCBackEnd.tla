----------------------------- MODULE MCBackEnd -----------------------------
(***************************************************************************)
(* Small programs for the back end.  A statement is a record: in, the      *)
(* states in which it executes ({} for a continuous assignment), the       *)
(* variable it sets, and the atoms and operation of its expression.        *)
(***************************************************************************)
EXTENDS BackEnd

CONSTANT Family  \* which of the families of programs below

Set(s, v, x) == [in |-> {s}, var |-> v, op |-> "", args |-> <<x>>]
Add(s, v, x, y) == [in |-> {s}, var |-> v, op |-> "+", args |-> <<x, y>>]
Wired(v, op, args) == [in |-> {}, var |-> v, op |-> op, args |-> args]

Literals == "#0" :> 0 @@ "#1" :> 1 @@ "#2" :> 2

\* From statements q over the variables names to a graph.  A memory has
\* the name "ram", its ports are the variables en, ad, we and wd, and it is
\* read by the variable rd.
RECURSIVE StatesIn(_, _)
StatesIn(q, i) ==
  IF q[i].in # {} THEN q[i].in
  ELSE UNION {StatesIn(q, j) : j \in {k \in DOMAIN q : \E n \in DOMAIN q[k].args : q[k].args[n] = q[i].var}}

Numbered(names, v) == CHOOSE n \in DOMAIN names : names[n] = v

WithStatement(names, q, S, g, i) ==
  LET st == q[i]
      asg == 100 + 10 * i
      atom(k) == IF st.args[k] \in DOMAIN Literals THEN asg + 1 + k ELSE Numbered(names, st.args[k])
      lits == {k \in DOMAIN st.args : st.args[k] \in DOMAIN Literals}
      litNodes == [n \in {asg + 1 + k : k \in lits} |-> <<"const", Literals[st.args[n - asg - 1]]>>]
      var == Numbered(names, st.var)
      top == IF st.op = "" THEN atom(1) ELSE asg + 1
      new == asg :> <<"asg", st.var>> @@ litNodes
               @@ (IF st.op = "" THEN << >> ELSE (asg + 1) :> <<"op", st.op>>)
      states == StatesIn(q, i)
  IN  [WithSon(WithEdges(WithNodes(g, new),
         {<<top, asg, 0>>, <<asg, var, Cardinality(InEdges(g, var))>>}
           \cup (IF st.op = "" THEN {} ELSE {<<atom(k), asg + 1, k - 1>> : k \in DOMAIN st.args})),
         [n \in DOMAIN new |-> IF new[n][1] = "const" THEN S ELSE states])
       EXCEPT !.son[var] = @ \cup states]

WithRam(names, g, fsm) ==
  LET port(v) == Numbered(names, v)
      h == WithEdges(WithNodes(g, 60 :> <<"memory", "ram">> @@ 61 :> <<"asg", "rd">>),
             {<<port("en"), 60, EnablePort>>, <<port("ad"), 60, AddressPort>>,
              <<port("we"), 60, WritePort>>, <<port("wd"), 60, DataPort>>,
              <<60, 61, 0>>, <<61, port("rd"), 0>>})
      after == UNION {Succs(fsm, s) : s \in LoadStates(h, 60)}
  IN  IF "en" \notin {names[n] : n \in DOMAIN names} THEN g
      ELSE [WithSon(h, 61 :> after @@ port("rd") :> after) EXCEPT !.son = 60 :> EnableStates(h, 60) @@ @, !.keep = Sources(h, 60)]

Program(fsm, start, stop, inputs, names, wires, q, out) ==
  LET S == {e[1] : e \in fsm} \cup {e[2] : e \in fsm}
      V == DOMAIN names
      empty == [kind |-> [n \in V |-> "var"], label |-> names, edges |-> {}, keep |-> {},
                son |-> [n \in V |-> IF names[n] \in inputs THEN {start} ELSE {}],
                inputs |-> {n \in V : names[n] \in inputs}, bb |-> << >>, error |-> ""]
      body == FoldLeft(LAMBDA g, i : WithStatement(names, q, S, g, i), empty, [i \in DOMAIN q |-> i])
      full == WithRam(names, body, fsm)
      returning == WithSon(WithEdges(WithNodes(full, 50 :> <<"return", out>>),
                     {<<Numbered(names, out), 50, 0>>}), 50 :> {stop})
  IN  [fsm |-> fsm, start |-> start, stop |-> stop, graph |-> returning,
       wires |-> {n \in V : names[n] \in wires}]

----------------------------------------------------------------------------
Diamond == {<<0, 1, 0>>, <<0, 2, 1>>, <<1, 3, 0>>, <<2, 3, 1>>, <<3, 4, 0>>}
Loop1 == {<<0, 1, 0>>, <<1, 2, 0>>, <<2, 1, 1>>, <<2, 3, 0>>}
Loop2 == {<<0, 1, 0>>, <<1, 2, 0>>, <<2, 1, 1>>, <<1, 3, 0>>}
Straight == {<<0, 1, 0>>, <<1, 2, 0>>, <<2, 3, 0>>, <<3, 4, 0>>}
Chain == {<<0, 1, 0>>, <<1, 2, 0>>, <<2, 3, 0>>, <<2, 4, 1>>, <<3, 4, 0>>}
Fork == {<<0, 1, 0>>, <<0, 2, 1>>, <<0, 3, 2>>, <<1, 4, 0>>, <<2, 4, 0>>, <<3, 4, 0>>}

\* x is assigned on both ways, and perhaps before; or on two of three ways.
Merges ==
  LET names == <<"a", "b", "z", "x", "y">>
      values(s) == {Set(s, "x", v) : v \in {"#1", "#2", "a", "z"}}
                     \cup {Add(s, "x", "a", "b"), Add(s, "x", "z", "#1")}
      before == {<< >>, <<Set(0, "x", "#1")>>, <<Add(0, "x", "a", "a")>>}
      last == {<<Add(3, "y", "x", "z")>>, <<Set(3, "y", "x")>>}
  IN  {Program(Diamond, 0, 4, {"a", "b"}, names, {},
         <<Add(0, "z", "a", "b"), s1, s2>> \o s0 \o s3, "y") :
           s1 \in values(1), s2 \in values(2), s0 \in before, s3 \in last}
      \cup {Program(Fork, 0, 4, {"a", "b"}, names, {}, <<Add(0, "z", "a", "b"), s1, s2, Set(4, "y", "x")>>, "y") :
              s1 \in {Add(1, "x", "a", "b"), Set(1, "x", "z")}, s2 \in {Add(2, "x", "z", "#1"), Set(2, "x", "#2")}}

Loops ==
  LET names == <<"a", "i", "t", "y">>
      first == {Set(0, "i", "#1"), Set(0, "i", "a"), Add(0, "i", "a", "a")}
      body == {<<Add(1, "t", "i", "a"), Set(2, "i", "t")>>, <<Add(2, "i", "i", "#1")>>,
               <<Add(1, "i", "i", "#1"), Set(2, "t", "i")>>, <<Set(2, "t", "i"), Add(2, "i", "i", "t")>>}
      end == {Set(3, "y", "i"), Set(3, "y", "t"), Add(3, "y", "i", "a")}
  IN  {Program(F, 0, 3, {"a"}, names, {}, <<f>> \o b \o <<e>>, "y") :
         F \in {Loop1, Loop2}, f \in first, b \in body, e \in end}

\* One adder for the states s and t.
Sharing ==
  LET names == <<"a", "b", "m", "n", "d", "p", "q", "y">>
      program(F, stop, s, t, l, r, u) ==
        Program(F, 0, stop, {"a", "b"}, names, {"m", "n", "d"},
          <<Set(s, "m", "a"), Set(t, "m", l), Set(s, "n", r), Set(t, "n", u),
            Wired("d", "+", <<"m", "n">>), Set(s, "p", "d"), Set(t, "q", "d"), Add(stop, "y", "p", "q")>>, "y")
  IN  {program(Diamond, 4, st[1], st[2], l, r, u) :
         u \in {"b", "#2"}, st \in {<<0, 1>>, <<0, 3>>, <<1, 2>>, <<3, 4>>}, l \in {"b", "p", "#1"}, r \in {"b", "#1", "#2"}}
      \cup {program(F, 4, st[1], st[2], l, r, "#2") :
         F \in {Chain}, st \in {<<0, 1>>, <<2, 1>>}, l \in {"b", "p", "#1"}, r \in {"b", "#1", "#2"}}
      \cup {program(Loop1, 3, 1, 2, l, "b", "#2") : l \in {"b", "p", "#1"}}
      \cup {Program(Chain, 0, 4, {"a", "b"}, names, {"m", "d"},
               <<Set(s, "m", "a"), Set(2, "m", "b"), Wired("d", "+", <<"m", "#2">>), Set(s, "p", "d"),
                 Set(2, "q", "d"), Add(4, "y", "p", "q")>>, "y") : s \in {0, 1}}

\* A memory is read or written in the states s and t; what is read is used
\* in u and v.
Memory ==
  LET names == <<"a", "b", "en", "ad", "we", "wd", "rd", "v", "w", "y">>
      use(s, write, addr, data) ==
        <<Set(s, "en", "#1"), Set(s, "ad", addr), Set(s, "we", IF write THEN "#1" ELSE "#0")>>
          \o (IF write THEN <<data>> ELSE << >>)
      loaded(write, u, x) == IF write THEN << >> ELSE <<Set(u, x, "rd")>>
      result(w1, w2) ==
        CASE w1 /\ w2 -> Set(4, "y", "a") [] w1 /\ ~w2 -> Set(4, "y", "w")
          [] ~w1 /\ w2 -> Set(4, "y", "v") [] OTHER -> Add(4, "y", "v", "w")
      program(F, s, t, u, v, w1, w2, a2, e) ==
        Program(F, 0, 4, {"a", "b"}, names, {"en", "ad", "we", "wd"},
          use(s, w1, "a", Set(s, "wd", "b")) \o use(t, w2, a2, e)
            \o loaded(w1, u, "v") \o loaded(w2, v, "w") \o <<result(w1, w2)>>, "y")
  IN  {program(c[1], c[2], c[3], c[4], c[5], w1, w2, a2,
          IF sum THEN Add(c[3], "wd", "a", "b") ELSE Set(c[3], "wd", "a")) :
         c \in {<<Chain, 0, 1, 1, 2>>, <<Chain, 0, 2, 1, 3>>, <<Chain, 0, 1, 2, 2>>, <<Diamond, 0, 1, 1, 3>>,
                <<Diamond, 1, 2, 3, 3>>, <<Diamond, 0, 3, 1, 3>>, <<Straight, 0, 1, 1, 2>>},
         w1 \in BOOLEAN, w2 \in BOOLEAN, a2 \in {"#0", "a"}, sum \in BOOLEAN}

\* tests/integration/branch/branch.v, with the condition left out.
Branch ==
  {Program(Diamond \cup {<<4, 5, 0>>, <<5, 6, 0>>}, 0, 6, {"arg_A", "arg_B", "arg_C"},
     <<"arg_A", "arg_B", "arg_C", "result_reg">>, {},
     <<Set(0, "result_reg", "#1"), Set(1, "result_reg", "arg_B"), Set(2, "result_reg", "arg_C")>>,
     "result_reg")}

\* tests/integration/memory_dependency/memory_dependency.v
Dependency ==
  {Program(Straight, 0, 4, {"value"},
     <<"value", "return", "en", "ad", "we", "wd", "rd">>, {"en", "ad", "we", "wd"},
     <<Set(1, "wd", "value"), Set(1, "en", "#1"), Set(1, "ad", "#0"), Set(1, "we", "#1"),
       Set(2, "wd", "#0"), Set(2, "en", "#1"), Set(2, "ad", "#0"), Set(2, "we", "#0"),
       Set(3, "return", "rd"),
       Set(0, "wd", "#0"), Set(0, "en", "#0"), Set(0, "ad", "#0"), Set(0, "we", "#0")>>,
     "return")}

MCPrograms ==
  UNION {CASE f = "merges" -> Merges [] f = "loops" -> Loops [] f = "sharing" -> Sharing
           [] f = "memory" -> Memory [] f = "branch" -> Branch [] f = "dependency" -> Dependency : f \in Family}
=============================================================================
