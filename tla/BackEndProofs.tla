--------------------------- MODULE BackEndProofs ---------------------------
(***************************************************************************)
(* Proofs about the back end, for every program: what the helpers on       *)
(* graphs return, and that merging variables, creating phi nodes and       *)
(* replacing variables by their values leave every operand the values that *)
(* may reach it.                                                           *)
(*                                                                         *)
(* The model's recursive functions are over numbers and over sets of       *)
(* nodes.  Induction on them goes by a least element: of a set of numbers, *)
(* or of a set of finite sets.                                             *)
(***************************************************************************)
EXTENDS BackEnd, FiniteSetTheorems, WellFoundedInduction, TLAPS

----------------------------------------------------------------------------
(* Induction.                                                              *)

LEMMA SmallestSet ==
  ASSUME NEW S, IsFiniteSet(S), NEW T \in SUBSET (SUBSET S), T # {}
  PROVE  \E x \in T : \A y \in T : y \subseteq x => y = x
<1>1. IsWellFoundedOn(StrictSubsetOrdering(S), FiniteSubsetsOf(S))
  BY FS_StrictSubsetOrderingWellFounded
<1>2. T \subseteq FiniteSubsetsOf(S)
  BY FS_FiniteSubsetsOfFinite
<1>3. PICK x \in T : \A y \in T : ~(<<y, x>> \in StrictSubsetOrdering(S))
  BY <1>1, <1>2, WFMin
<1>4. ASSUME NEW y \in T, y \subseteq x, y # x PROVE FALSE
  <2>1. <<y, x>> \in (SUBSET S) \X (SUBSET S)
    OBVIOUS
  <2> QED
    BY <1>3, <1>4, <2>1 DEF StrictSubsetOrdering
<1> QED
  BY <1>4

LEMMA SmallestNumber ==
  ASSUME NEW T \in SUBSET Nat, T # {}
  PROVE  \E n \in T : \A m \in T : n <= m
<1>1. PICK b \in T : TRUE
  OBVIOUS
<1> DEFINE B == 0..b
           U == {0..m : m \in T \cap B}
<1>2. IsFiniteSet(B)
  BY FS_Interval
<1>3. U \in SUBSET (SUBSET B)
  OBVIOUS
<1>4. 0..b \in U
  OBVIOUS
<1>5. PICK x \in U : \A y \in U : y \subseteq x => y = x
  <2> HIDE DEF U, B
  <2> QED
    BY <1>2, <1>3, <1>4, SmallestSet
<1>6. PICK n \in T \cap B : x = 0..n
  OBVIOUS
<1>7. ASSUME NEW m \in T, m < n PROVE FALSE
  <2>1. 0..m \in U /\ 0..m \subseteq x
    BY <1>6, <1>7
  <2>2. n \in 0..n /\ n \notin 0..m
    BY <1>7
  <2> QED
    BY <1>5, <1>6, <2>1, <2>2
<1> QED
  BY <1>6, <1>7

LEMMA Induction ==
  ASSUME NEW T \in SUBSET Nat, 0 \in T, \A n \in T : n + 1 \in T
  PROVE  T = Nat
<1> SUFFICES ASSUME Nat \ T # {} PROVE FALSE
  OBVIOUS
<1>1. PICK n \in Nat \ T : \A m \in Nat \ T : n <= m
  BY SmallestNumber
<1>2. n # 0 /\ n - 1 \in Nat
  BY <1>1
<1>3. n - 1 \in T
  BY <1>1, <1>2
<1>4. n - 1 + 1 = n
  OBVIOUS
<1> QED
  BY <1>1, <1>3, <1>4

----------------------------------------------------------------------------
(* Closure(E, N) is the least set that holds N and is closed under E.      *)

ClosedUnder(E, X) == \A e \in E : e[1] \in X => e[2] \in X

LEMMA ClosureIsLeast ==
  ASSUME NEW E, NEW N, IsFiniteSet(N \cup {e[2] : e \in E})
  PROVE  /\ N \subseteq Closure(E, N)
         /\ Closure(E, N) \subseteq N \cup {e[2] : e \in E}
         /\ ClosedUnder(E, Closure(E, N))
         /\ \A X : N \subseteq X /\ ClosedUnder(E, X) => Closure(E, N) \subseteq X
<1> DEFINE U == N \cup {e[2] : e \in E}
           more(M) == M \cup UNION {Succs(E, n) : n \in M}
           least(M) == {x \in U : \A X \in SUBSET U : M \subseteq X /\ ClosedUnder(E, X) => x \in X}
           F == CHOOSE f : f = [M \in SUBSET U |-> IF more(M) = M THEN M ELSE f[more(M)]]
           L == [M \in SUBSET U |-> least(M)]
<1>1. ASSUME NEW M \in SUBSET U
      PROVE  more(M) \in SUBSET U /\ M \subseteq more(M)
  BY DEF Succs
<1>2. ASSUME NEW M \in SUBSET U, NEW X \in SUBSET U, ClosedUnder(E, X), M \subseteq X
      PROVE  more(M) \subseteq X
  BY <1>2 DEF Succs, ClosedUnder
<1>3. ASSUME NEW M \in SUBSET U, more(M) = M
      PROVE  ClosedUnder(E, M)
  BY <1>3 DEF Succs, ClosedUnder
<1>4. ASSUME NEW M \in SUBSET U
      PROVE  least(M) = IF more(M) = M THEN M ELSE least(more(M))
  <2>1. CASE more(M) = M
    BY <1>3, <2>1
  <2>2. CASE more(M) # M
    <3>1. \A X \in SUBSET U : ClosedUnder(E, X) => (M \subseteq X <=> more(M) \subseteq X)
      BY <1>1, <1>2
    <3> QED
      BY <2>2, <3>1
  <2> QED
    BY <2>1, <2>2
<1>5. L = [M \in SUBSET U |-> IF more(M) = M THEN M ELSE L[more(M)]]
  <2> HIDE DEF more, least, U
  <2>1. \A M \in SUBSET U : L[M] = IF more(M) = M THEN M ELSE L[more(M)]
    BY <1>1, <1>4
  <2> QED
    BY <2>1
<1>6. F = [M \in SUBSET U |-> IF more(M) = M THEN M ELSE F[more(M)]]
  <2> HIDE DEF more, U, L
  <2> QED
    BY <1>5
<1>7. ASSUME NEW M \in SUBSET U PROVE F[M] = least(M)
  <2> DEFINE Bad == {U \ W : W \in {V \in SUBSET U : F[V] # least(V)}}
  <2> SUFFICES ASSUME F[M] # least(M) PROVE FALSE
    OBVIOUS
  <2> HIDE DEF F, least, more, U
  <2>1. Bad \in SUBSET (SUBSET U) /\ Bad # {}
    OBVIOUS
  <2>2. PICK C \in Bad : \A D \in Bad : D \subseteq C => D = C
    <3> HIDE DEF Bad
    <3> QED
      BY <2>1, SmallestSet DEF U
  <2>3. PICK W \in SUBSET U : C = U \ W /\ F[W] # least(W)
    OBVIOUS
  <2>4. F[W] = IF more(W) = W THEN W ELSE F[more(W)]
    BY <1>6
  <2>5. more(W) # W /\ F[more(W)] # least(more(W))
    BY <1>4, <2>3, <2>4
  <2>6. more(W) \in SUBSET U /\ W \subseteq more(W)
    BY <1>1
  <2>7. U \ more(W) \in Bad /\ U \ more(W) \subseteq C
    BY <2>3, <2>5, <2>6
  <2>8. U \ more(W) = U \ W
    BY <2>2, <2>3, <2>7
  <2> QED
    BY <2>5, <2>6, <2>8
<1>8. Closure(E, N) = F[N]
  BY DEF Closure
<1>9. Closure(E, N) = least(N)
  BY <1>7, <1>8
<1>10. ClosedUnder(E, least(N))
  BY DEF ClosedUnder
<1>11. ASSUME NEW X, N \subseteq X, ClosedUnder(E, X) PROVE least(N) \subseteq X
  <2>1. ClosedUnder(E, X \cap U)
    BY <1>11 DEF ClosedUnder
  <2> QED
    BY <1>11, <2>1
<1> QED
  BY <1>9, <1>10, <1>11

----------------------------------------------------------------------------
(* Origins.                                                                *)

Typed(g) ==
  /\ DOMAIN g = {"kind", "label", "edges", "keep", "son", "inputs", "bb", "error"}
  /\ IsFiniteSet(Nodes(g)) /\ Nodes(g) \subseteq Nat
  /\ IsFiniteSet(g.edges) /\ g.edges \subseteq Nodes(g) \X Nodes(g) \X Nat

\* An assignment assigns one value to at most one node, a variable.
Assigns(g) ==
  /\ \A e \in g.edges : g.kind[e[1]] = "asg" => g.kind[e[2]] = "var"
  /\ \A a \in OfKind(g, "asg") : \E e \in g.edges : InEdges(g, a) = {e}
  /\ \A a \in OfKind(g, "asg") : \A d, e \in OutEdges(g, a) : d = e
  /\ \A v \in OfKind(g, "var") : Sources(g, v) \subseteq OfKind(g, "asg")

Grounded(g) == \A c \in Carriers(g) : Origins(g, c) # {}

Sound(g) == Typed(g) /\ Assigns(g) /\ Grounded(g)

Behind(g, m) == Closure(Reversed({e \in g.edges : e[2] \in Carriers(g)}), {m})

\* X holds what the carriers in X have their values from.
HandsBack(g, X) == \A e \in g.edges : e[2] \in X /\ e[2] \in Carriers(g) => e[1] \in X

LEMMA BehindIsLeast ==
  ASSUME NEW g, Typed(g), NEW m \in Nodes(g)
  PROVE  /\ m \in Behind(g, m)
         /\ Behind(g, m) \subseteq Nodes(g)
         /\ HandsBack(g, Behind(g, m))
         /\ \A X : m \in X /\ HandsBack(g, X) => Behind(g, m) \subseteq X
<1> DEFINE E == Reversed({e \in g.edges : e[2] \in Carriers(g)})
<1>1. \A e \in g.edges : e = <<e[1], e[2], e[3]>> /\ e[1] \in Nodes(g)
  BY DEF Typed
<1>2. {m} \cup {e[2] : e \in E} \subseteq Nodes(g)
  BY <1>1 DEF Reversed
<1>3. IsFiniteSet({m} \cup {e[2] : e \in E})
  BY <1>2, FS_Subset DEF Typed
<1>4. ASSUME NEW X PROVE ClosedUnder(E, X) <=> HandsBack(g, X)
  <2> DEFINE D == {e \in g.edges : e[2] \in Carriers(g)}
  <2>1. E = {<<e[2], e[1], e[3]>> : e \in D}
    BY DEF Reversed
  <2>2. ASSUME NEW e \in D PROVE \E d \in E : d[1] = e[2] /\ d[2] = e[1]
    <3>1. <<e[2], e[1], e[3]>> \in E
      BY <2>1
    <3> QED
      BY <3>1
  <2>3. \A d \in E : \E e \in D : d[1] = e[2] /\ d[2] = e[1]
    BY <2>1
  <2> HIDE DEF E
  <2> QED
    BY <2>2, <2>3 DEF ClosedUnder, HandsBack
<1> HIDE DEF E
<1>5. /\ {m} \subseteq Closure(E, {m})
      /\ Closure(E, {m}) \subseteq {m} \cup {e[2] : e \in E}
      /\ ClosedUnder(E, Closure(E, {m}))
      /\ \A X : {m} \subseteq X /\ ClosedUnder(E, X) => Closure(E, {m}) \subseteq X
  BY <1>3, ClosureIsLeast
<1>6. Behind(g, m) = Closure(E, {m})
  BY DEF Behind, E
<1> QED
  BY <1>2, <1>4, <1>5, <1>6

LEMMA OriginsAreBehind ==
  ASSUME NEW g, NEW m
  PROVE  Origins(g, m) = Behind(g, m) \ Carriers(g)
BY DEF Origins, Behind

LEMMA UseOf ==
  ASSUME NEW g, NEW u
  PROVE  u \in Uses(g) <=>
           \E e \in g.edges : \E x \in Origins(g, e[1]) :
             e[2] \notin Carriers(g) /\ u = <<x, e[2], e[3]>>
BY DEF Uses

----------------------------------------------------------------------------
(* A variable that is assigned only the value x is replaced by x.          *)

Replaced(g, v, x) == Without(OutEdgesTo(g, v, x), {v} \cup Sources(g, v))

LEMMA ReplacedIs ==
  ASSUME NEW g, Typed(g), NEW v, NEW x
  PROVE  /\ DOMAIN Replaced(g, v, x) = DOMAIN g
         /\ Nodes(Replaced(g, v, x)) = Nodes(g) \ ({v} \cup Sources(g, v))
         /\ \A n \in Nodes(Replaced(g, v, x)) : Replaced(g, v, x).kind[n] = g.kind[n]
         /\ Replaced(g, v, x).error = g.error
         /\ Replaced(g, v, x).edges =
              {e \in (g.edges \ OutEdges(g, v)) \cup {<<x, d[2], d[3]>> : d \in OutEdges(g, v)} :
                 e[1] \notin {v} \cup Sources(g, v) /\ e[2] \notin {v} \cup Sources(g, v)}
<1> DEFINE h == OutEdgesTo(g, v, x)
           N == {v} \cup Sources(g, v)
<1>1. /\ DOMAIN h = DOMAIN g /\ h.kind = g.kind /\ h.error = g.error /\ h.label = g.label
      /\ h.edges = (g.edges \ OutEdges(g, v)) \cup {<<x, d[2], d[3]>> : d \in OutEdges(g, v)}
  BY DEF OutEdgesTo, Typed
<1> HIDE DEF h, N
<1>2. /\ DOMAIN Without(h, N) = DOMAIN h
      /\ Without(h, N).kind = [n \in Nodes(h) \ N |-> h.kind[n]]
      /\ Without(h, N).error = h.error
      /\ Without(h, N).edges = {e \in h.edges : e[1] \notin N /\ e[2] \notin N}
  BY <1>1 DEF Without, Typed
<1>3. Nodes(h) = Nodes(g)
  BY <1>1 DEF Nodes
<1>4. Nodes(Without(h, N)) = Nodes(g) \ N /\ \A n \in Nodes(g) \ N : Without(h, N).kind[n] = g.kind[n]
  BY <1>1, <1>2, <1>3 DEF Nodes
<1>5. Replaced(g, v, x) = Without(h, N)
  BY DEF Replaced, h, N
<1> QED
  BY <1>1, <1>2, <1>4, <1>5 DEF N

\* What is needed of v and x.
Replaceable(g, v, x) ==
  /\ v \in OfKind(g, "var")
  /\ Sources(g, v) # {}
  /\ \A a \in Sources(g, v) : Sources(g, a) = {x}

LEMMA ReplacedCarriers ==
  ASSUME NEW g, Sound(g), NEW v, NEW x, Replaceable(g, v, x)
  PROVE  /\ x \in Nodes(g) \ ({v} \cup Sources(g, v))
         /\ {v} \cup Sources(g, v) \subseteq Carriers(g)
         /\ Carriers(Replaced(g, v, x)) = Carriers(g) \ ({v} \cup Sources(g, v))
<1> DEFINE h == Replaced(g, v, x)
           N == {v} \cup Sources(g, v)
<1>1. \A e \in g.edges : e = <<e[1], e[2], e[3]>> /\ e[1] \in Nodes(g) /\ e[2] \in Nodes(g)
  BY DEF Sound, Typed
<1>2. Sources(g, v) \subseteq OfKind(g, "asg") /\ v \in OfKind(g, "var")
  BY DEF Sound, Assigns, Replaceable
<1>3. N \subseteq Carriers(g)
  BY <1>2 DEF Carriers, Replaceable
<1>4. PICK a \in Sources(g, v) : Sources(g, a) = {x}
  BY DEF Replaceable
<1>5. PICK d \in g.edges : d[1] = x /\ d[2] = a
  BY <1>4 DEF Sources, Preds
<1>6. x \in Nodes(g) /\ g.kind[x] # "asg"
  BY <1>1, <1>2, <1>4, <1>5 DEF Sound, Assigns, OfKind
<1>7. x # v
  <2> SUFFICES ASSUME x = v PROVE FALSE
    OBVIOUS
  <2>1. HandsBack(g, N)
    BY DEF HandsBack, Replaceable, Sources, Preds
  <2>2. v \in Carriers(g) /\ v \in Nodes(g)
    BY <1>2, <1>3 DEF OfKind
  <2>3. Behind(g, v) \subseteq N
    BY <2>1, <2>2, BehindIsLeast DEF Sound
  <2>4. Origins(g, v) = {}
    BY <1>3, <2>3, OriginsAreBehind
  <2> QED
    BY <2>2, <2>4 DEF Sound, Grounded
<1>8. x \in Nodes(g) \ N
  BY <1>2, <1>6, <1>7 DEF OfKind
<1>9. /\ Nodes(h) = Nodes(g) \ N
      /\ \A n \in Nodes(h) : h.kind[n] = g.kind[n]
      /\ h.edges = {e \in (g.edges \ OutEdges(g, v)) \cup {<<x, c[2], c[3]>> : c \in OutEdges(g, v)} :
                 e[1] \notin N /\ e[2] \notin N}
  BY ReplacedIs DEF Sound
<1>10. ASSUME NEW w \in OfKind(g, "var"), w # v
       PROVE  (\E e \in h.edges : e[2] = w) <=> (\E e \in g.edges : e[2] = w)
  <2>1. ASSUME NEW e \in g.edges, e[2] = w PROVE e \in h.edges
    <3>1. e[1] \in OfKind(g, "asg")
      BY <2>1 DEF Sound, Assigns, Sources, Preds
    <3>2. e[1] # v /\ e[2] \notin N
      BY <1>2, <2>1, <1>10, <3>1 DEF OfKind
    <3>3. e[1] \notin N
      <4> SUFFICES ASSUME e[1] \in Sources(g, v) PROVE FALSE
        BY <3>2
      <4>1. PICK c \in g.edges : c[1] = e[1] /\ c[2] = v
        BY DEF Sources, Preds
      <4>2. c \in OutEdges(g, e[1]) /\ e \in OutEdges(g, e[1])
        BY <4>1 DEF OutEdges
      <4>3. c = e
        BY <3>1, <4>2 DEF Sound, Assigns
      <4> QED
        BY <1>10, <2>1, <4>1, <4>3
    <3> QED
      BY <1>9, <3>2, <3>3 DEF OutEdges
  <2>2. ASSUME NEW e \in h.edges, e[2] = w PROVE \E c \in g.edges : c[2] = w
    BY <1>9, <2>2 DEF OutEdges
  <2> QED
    BY <2>1, <2>2
<1>11. Carriers(h) = Carriers(g) \ N
  <2>1. \A w : Sources(h, w) # {} <=> \E e \in h.edges : e[2] = w
    BY DEF Sources, Preds
  <2>2. \A w : Sources(g, w) # {} <=> \E e \in g.edges : e[2] = w
    BY DEF Sources, Preds
  <2> HIDE DEF h, N
  <2> QED
    BY <1>9, <1>10, <2>1, <2>2 DEF Carriers, OfKind, N
<1> QED
  BY <1>3, <1>8, <1>11

\* The edges of the graph after v was replaced.
EdgesReplaced(g, h, v, x) ==
  LET N == {v} \cup Sources(g, v)
  IN  /\ \A e \in h.edges :
           /\ e[1] \notin N /\ e[2] \notin N
           /\ \/ e \in g.edges
              \/ \E d \in g.edges :
                   d[1] = v /\ e = <<x, d[2], d[3]>> /\ e[1] = x /\ e[2] = d[2] /\ e[3] = d[3]
      /\ \A d \in g.edges : d[1] \notin N /\ d[2] \notin N => d \in h.edges
      /\ \A d \in g.edges : d[1] = v /\ d[2] \notin N =>
           /\ <<x, d[2], d[3]>> \in h.edges
           /\ \E e \in h.edges : e[1] = x /\ e[2] = d[2] /\ e[3] = d[3]

LEMMA ReplacedEdges ==
  ASSUME NEW g, Sound(g), NEW v, NEW x, Replaceable(g, v, x)
  PROVE  EdgesReplaced(g, Replaced(g, v, x), v, x)
<1> DEFINE h == Replaced(g, v, x)
           N == {v} \cup Sources(g, v)
           C == {<<x, c[2], c[3]>> : c \in OutEdges(g, v)}
<1>1. h.edges = {e \in (g.edges \ OutEdges(g, v)) \cup C : e[1] \notin N /\ e[2] \notin N}
  BY ReplacedIs DEF Sound
<1>2. x \notin N
  BY ReplacedCarriers
<1>3. ASSUME NEW e \in C
      PROVE  \E d \in g.edges : d[1] = v /\ e = <<x, d[2], d[3]>> /\ e[1] = x /\ e[2] = d[2] /\ e[3] = d[3]
  BY DEF OutEdges
<1>4. ASSUME NEW d \in g.edges, d[1] = v PROVE <<x, d[2], d[3]>> \in C
  BY <1>4 DEF OutEdges
<1>5. \A d \in g.edges : d[1] \notin N => d \notin OutEdges(g, v)
  BY DEF OutEdges
<1> HIDE DEF h, C, N
<1>6. ASSUME NEW d \in g.edges, d[1] = v, d[2] \notin N
      PROVE  <<x, d[2], d[3]>> \in h.edges
  <2>1. <<x, d[2], d[3]>> \in C
    BY <1>4, <1>6
  <2>2. <<x, d[2], d[3]>>[1] = x /\ <<x, d[2], d[3]>>[2] = d[2]
    OBVIOUS
  <2> QED
    BY <1>1, <1>2, <1>6, <2>1, <2>2
<1>7. \A d \in g.edges : d[1] = v /\ d[2] \notin N =>
        /\ <<x, d[2], d[3]>> \in h.edges
        /\ \E e \in h.edges : e[1] = x /\ e[2] = d[2] /\ e[3] = d[3]
  BY <1>6
<1>8. \A d \in g.edges : d[1] \notin N /\ d[2] \notin N => d \in h.edges
  BY <1>1, <1>5
<1>9. \A e \in h.edges :
         /\ e[1] \notin N /\ e[2] \notin N
         /\ \/ e \in g.edges
            \/ \E d \in g.edges :
                 d[1] = v /\ e = <<x, d[2], d[3]>> /\ e[1] = x /\ e[2] = d[2] /\ e[3] = d[3]
  BY <1>1, <1>3
<1> QED
  BY <1>7, <1>8, <1>9 DEF h, N, EdgesReplaced

LEMMA ReplacedIsTyped ==
  ASSUME NEW g, Sound(g), NEW v, NEW x, Replaceable(g, v, x)
  PROVE  Typed(Replaced(g, v, x))
<1> DEFINE h == Replaced(g, v, x)
           N == {v} \cup Sources(g, v)
<1>1. DOMAIN h = DOMAIN g /\ Nodes(h) = Nodes(g) \ N
  BY ReplacedIs DEF Sound
<1>2. IsFiniteSet(Nodes(h)) /\ Nodes(h) \subseteq Nat
  BY <1>1, FS_Subset DEF Sound, Typed
<1>3. h.edges \subseteq Nodes(h) \X Nodes(h) \X Nat
  <2> SUFFICES ASSUME NEW e \in h.edges PROVE e \in Nodes(h) \X Nodes(h) \X Nat
    OBVIOUS
  <2>1. x \in Nodes(h)
    BY <1>1, ReplacedCarriers
  <2>2. e[1] \notin N /\ e[2] \notin N
    BY ReplacedEdges DEF EdgesReplaced
  <2>3. CASE e \in g.edges
    <3>1. e \in Nodes(g) \X Nodes(g) \X Nat
      BY <2>3 DEF Sound, Typed
    <3>2. e = <<e[1], e[2], e[3]>> /\ e[1] \in Nodes(h) /\ e[2] \in Nodes(h) /\ e[3] \in Nat
      BY <1>1, <2>2, <3>1
    <3> HIDE DEF h
    <3> QED
      BY <3>2
  <2>4. CASE \E d \in g.edges : d[1] = v /\ e = <<x, d[2], d[3]>>
    <3>1. PICK d \in g.edges : d[1] = v /\ e = <<x, d[2], d[3]>>
      BY <2>4
    <3>2. d \in Nodes(g) \X Nodes(g) \X Nat
      BY DEF Sound, Typed
    <3>3. e[2] = d[2]
      BY <3>1
    <3>4. d[2] \in Nodes(h) /\ d[3] \in Nat
      BY <1>1, <2>2, <3>2, <3>3
    <3> HIDE DEF h
    <3> QED
      BY <2>1, <3>1, <3>4
  <2> QED
    BY <2>3, <2>4, ReplacedEdges DEF EdgesReplaced
<1>4. IsFiniteSet(h.edges)
  <2> DEFINE C == {<<x, c[2], c[3]>> : c \in OutEdges(g, v)}
  <2>1. IsFiniteSet(OutEdges(g, v))
    BY FS_Subset DEF OutEdges, Sound, Typed
  <2>2. IsFiniteSet(C)
    <3> HIDE DEF h
    <3>1. [c \in OutEdges(g, v) |-> <<x, c[2], c[3]>>] \in Surjection(OutEdges(g, v), C)
      BY DEF Surjection
    <3> HIDE DEF C
    <3> QED
      BY <2>1, <3>1, FS_Surjection
  <2>3. IsFiniteSet(g.edges \cup C)
    BY <2>2, FS_Union DEF Sound, Typed
  <2>4. h.edges \subseteq g.edges \cup C
    BY ReplacedIs DEF Sound
  <2> QED
    BY <2>3, <2>4, FS_Subset
<1> QED
  BY <1>1, <1>2, <1>3, <1>4 DEF Sound, Typed

\* What is behind a node that stays is behind it still; and what was behind v
\* is behind x.
LEMMA ReplacedBehind ==
  ASSUME NEW g, Sound(g), NEW v, NEW x, Replaceable(g, v, x)
  PROVE  /\ \A m \in Nodes(Replaced(g, v, x)) : Origins(Replaced(g, v, x), m) = Origins(g, m)
         /\ Origins(g, v) = Origins(g, x)
<1> DEFINE h == Replaced(g, v, x)
           N == {v} \cup Sources(g, v)
<1>1. /\ x \in Nodes(g) \ N /\ N \subseteq Carriers(g)
      /\ Carriers(h) = Carriers(g) \ N
  BY ReplacedCarriers
<1>2. Nodes(h) = Nodes(g) \ N /\ Typed(h) /\ Typed(g)
  BY ReplacedIs, ReplacedIsTyped DEF Sound
<1>3. N \subseteq Nodes(g)
  BY <1>1 DEF Carriers, OfKind
<1>4. /\ \A e \in g.edges : e[2] = v => e[1] \in Sources(g, v)
      /\ \A e \in g.edges : e[2] \in Sources(g, v) => e[1] = x
      /\ \A a \in Sources(g, v) : \E e \in g.edges : e[1] = a /\ e[2] = v
      /\ \A a \in Sources(g, v) : \E e \in g.edges : e[1] = x /\ e[2] = a
      /\ Sources(g, v) # {}
  <2>1. \A e \in g.edges : e[1] \in Sources(g, e[2])
    BY DEF Sources, Preds
  <2>2. \A n : \A a \in Sources(g, n) : \E e \in g.edges : e[1] = a /\ e[2] = n
    BY DEF Sources, Preds
  <2> QED
    BY <2>1, <2>2 DEF Replaceable
<1>5. EdgesReplaced(g, h, v, x)
  BY ReplacedEdges
<1> HIDE DEF h
<1>6. /\ \A e \in h.edges : e \in g.edges \/ \E d \in g.edges : d[1] = v /\ e[1] = x /\ e[2] = d[2]
      /\ \A e \in h.edges : e[1] \notin N /\ e[2] \notin N
      /\ \A d \in g.edges : d[1] \notin N /\ d[2] \notin N => d \in h.edges
      /\ \A d \in g.edges : d[1] = v /\ d[2] \notin N => \E e \in h.edges : e[1] = x /\ e[2] = d[2]
  BY <1>5 DEF EdgesReplaced
<1>7. ASSUME NEW m \in Nodes(h) PROVE Behind(h, m) = Behind(g, m) \ N
  <2> DEFINE R == Behind(g, m)
             S == Behind(h, m)
             T == S \cup (IF x \in S THEN N ELSE {})
  <2>1. /\ m \in R /\ HandsBack(g, R)
        /\ \A X : m \in X /\ HandsBack(g, X) => R \subseteq X
    BY <1>2, BehindIsLeast
  <2>2. /\ m \in S /\ HandsBack(h, S) /\ S \subseteq Nodes(h)
        /\ \A X : m \in X /\ HandsBack(h, X) => S \subseteq X
    BY <1>2, BehindIsLeast
  <2> HIDE DEF R, S
  <2>3. HandsBack(g, T)
    <3> SUFFICES ASSUME NEW e \in g.edges, e[2] \in T, e[2] \in Carriers(g) PROVE e[1] \in T
      BY DEF HandsBack
    <3>1. CASE e[2] \in S
      <4>1. e[2] \in Carriers(h) /\ e[2] \notin N
        BY <1>1, <1>2, <2>2, <3>1
      <4>2. CASE e[1] \notin N
        BY <1>6, <2>2, <3>1, <4>1, <4>2 DEF HandsBack
      <4>3. CASE e[1] = v
        BY <1>6, <2>2, <3>1, <4>1, <4>3 DEF HandsBack
      <4>4. e[1] \notin Sources(g, v)
        <5> SUFFICES ASSUME e[1] \in Sources(g, v) PROVE FALSE
          OBVIOUS
        <5>1. PICK c \in g.edges : c[1] = e[1] /\ c[2] = v
          BY <1>4
        <5>2. e[1] \in OfKind(g, "asg") /\ c \in OutEdges(g, e[1]) /\ e \in OutEdges(g, e[1])
          BY <5>1 DEF Sound, Assigns, Replaceable, OutEdges
        <5> QED
          BY <4>1, <5>1, <5>2 DEF Sound, Assigns
      <4> QED
        BY <4>2, <4>3, <4>4
    <3>2. CASE e[2] \in N /\ x \in S
      BY <1>4, <3>2
    <3> QED
      BY <3>1, <3>2
  <2>4. R \subseteq T
    BY <2>1, <2>2, <2>3
  <2>5. HandsBack(h, R \ N)
    <3> SUFFICES ASSUME NEW e \in h.edges, e[2] \in R \ N, e[2] \in Carriers(h) PROVE e[1] \in R \ N
      BY DEF HandsBack
    <3>1. e[2] \in Carriers(g)
      BY <1>1
    <3>2. CASE e \in g.edges
      BY <1>6, <2>1, <3>1, <3>2 DEF HandsBack
    <3>3. CASE \E d \in g.edges : d[1] = v /\ e[1] = x /\ e[2] = d[2]
      <4>1. v \in R
        BY <2>1, <3>1, <3>3 DEF HandsBack
      <4>2. PICK a \in Sources(g, v) : TRUE
        BY <1>4
      <4>3. a \in R
        BY <1>1, <1>4, <2>1, <4>1, <4>2 DEF HandsBack
      <4>4. x \in R
        BY <1>1, <1>4, <2>1, <4>2, <4>3 DEF HandsBack
      <4> QED
        BY <1>1, <3>3, <4>4
    <3> QED
      BY <1>6, <3>2, <3>3
  <2>6. m \in R \ N
    BY <1>2, <2>1
  <2>7. S \subseteq R \ N
    BY <2>2, <2>5, <2>6
  <2>8. S \cap N = {}
    BY <2>7
  <2> QED
    BY <2>4, <2>7, <2>8 DEF R, S
<1>8. Behind(g, v) \ N = Behind(g, x) \ N
  <2> DEFINE R == Behind(g, x)
             S == Behind(g, v)
  <2>1. /\ x \in R /\ HandsBack(g, R)
        /\ \A X : x \in X /\ HandsBack(g, X) => R \subseteq X
    BY <1>1, <1>2, BehindIsLeast
  <2>2. /\ v \in S /\ HandsBack(g, S)
        /\ \A X : v \in X /\ HandsBack(g, X) => S \subseteq X
    BY <1>2, <1>3, BehindIsLeast
  <2> HIDE DEF R, S
  <2>3. HandsBack(g, R \cup N)
    BY <1>4, <2>1 DEF HandsBack
  <2>4. S \subseteq R \cup N
    BY <2>2, <2>3
  <2>5. PICK a \in Sources(g, v) : TRUE
    BY <1>4
  <2>6. a \in S
    BY <1>1, <1>4, <2>2, <2>5 DEF HandsBack
  <2>7. x \in S
    BY <1>1, <1>4, <2>2, <2>5, <2>6 DEF HandsBack
  <2>8. R \subseteq S
    BY <2>1, <2>2, <2>7
  <2> QED
    BY <2>4, <2>8 DEF R, S
<1>9. ASSUME NEW m \in Nodes(h) PROVE Origins(h, m) = Origins(g, m)
  BY <1>1, <1>7, OriginsAreBehind
<1>10. Origins(g, v) = Origins(g, x)
  BY <1>1, <1>8, OriginsAreBehind
<1> QED
  BY <1>9, <1>10 DEF h

LEMMA ReplacingKeepsUsesOf ==
  ASSUME NEW g, Sound(g), NEW v, NEW x, Replaceable(g, v, x)
  PROVE  Uses(Replaced(g, v, x)) = Uses(g)
<1> DEFINE h == Replaced(g, v, x)
           N == {v} \cup Sources(g, v)
<1>1. /\ x \in Nodes(h) /\ N \subseteq Carriers(g)
      /\ Carriers(h) = Carriers(g) \ N
  BY ReplacedCarriers, ReplacedIs DEF Sound
<1>2. /\ \A m \in Nodes(h) : Origins(h, m) = Origins(g, m)
      /\ Origins(g, v) = Origins(g, x)
  BY ReplacedBehind
<1>3. EdgesReplaced(g, h, v, x)
  BY ReplacedEdges
<1>4. \A e \in h.edges : e[1] \in Nodes(h)
  BY ReplacedIsTyped DEF Typed
<1>5. ASSUME NEW e \in g.edges, e[2] \notin Carriers(g) PROVE e[1] \notin Sources(g, v) /\ e[2] \notin N
  <2>1. g.kind[e[2]] # "var" \/ e[1] \notin OfKind(g, "asg")
    <3> SUFFICES ASSUME g.kind[e[2]] = "var", e[1] \in OfKind(g, "asg") PROVE FALSE
      OBVIOUS
    <3>1. e[1] \in Sources(g, e[2])
      BY DEF Sources, Preds
    <3>2. e[2] \in Nodes(g)
      BY DEF Sound, Typed
    <3> QED
      BY <1>5, <3>1, <3>2 DEF Carriers, OfKind
  <2>2. e[1] \notin OfKind(g, "asg")
    BY <2>1 DEF Sound, Assigns, OfKind
  <2>3. Sources(g, v) \subseteq OfKind(g, "asg")
    BY DEF Sound, Assigns, Replaceable
  <2> QED
    BY <1>1, <1>5, <2>2, <2>3
<1> HIDE DEF h
<1>6. /\ \A e \in h.edges :
              /\ e[1] \notin N /\ e[2] \notin N
              /\ \/ e \in g.edges
                 \/ \E d \in g.edges :
                      d[1] = v /\ e = <<x, d[2], d[3]>> /\ e[1] = x /\ e[2] = d[2] /\ e[3] = d[3]
      /\ \A d \in g.edges : d[1] \notin N /\ d[2] \notin N => d \in h.edges
      /\ \A d \in g.edges : d[1] = v /\ d[2] \notin N =>
           \E e \in h.edges : e[1] = x /\ e[2] = d[2] /\ e[3] = d[3]
  BY <1>3 DEF EdgesReplaced
<1>7. ASSUME NEW u \in Uses(h) PROVE u \in Uses(g)
  <2>0. PICK e \in h.edges :
          \E y \in Origins(h, e[1]) : e[2] \notin Carriers(h) /\ u = <<y, e[2], e[3]>>
    BY UseOf
  <2>1. PICK y \in Origins(h, e[1]) : e[2] \notin Carriers(h) /\ u = <<y, e[2], e[3]>>
    BY <2>0
  <2>2. e[2] \notin Carriers(g) /\ y \in Origins(g, e[1])
    BY <1>1, <1>2, <1>6, <1>4, <2>1
  <2>3. CASE e \in g.edges
    BY <2>1, <2>2, <2>3, UseOf
  <2>4. CASE \E d \in g.edges : d[1] = v /\ e[1] = x /\ e[2] = d[2] /\ e[3] = d[3]
    BY <1>2, <2>1, <2>2, <2>4, UseOf
  <2> QED
    BY <1>6, <2>3, <2>4
<1>8. ASSUME NEW u \in Uses(g) PROVE u \in Uses(h)
  <2>0. PICK e \in g.edges :
          \E y \in Origins(g, e[1]) : e[2] \notin Carriers(g) /\ u = <<y, e[2], e[3]>>
    BY UseOf
  <2>1. PICK y \in Origins(g, e[1]) : e[2] \notin Carriers(g) /\ u = <<y, e[2], e[3]>>
    BY <2>0
  <2>2. e[1] \notin Sources(g, v) /\ e[2] \notin N /\ e[2] \notin Carriers(h)
    BY <1>1, <1>5, <2>1
  <2>3. CASE e[1] = v
    <3>1. PICK d \in h.edges : d[1] = x /\ d[2] = e[2] /\ d[3] = e[3]
      BY <1>6, <2>2, <2>3
    <3>2. y \in Origins(h, d[1])
      BY <1>1, <1>2, <2>1, <2>3, <3>1
    <3> QED
      BY <2>1, <2>2, <3>1, <3>2, UseOf
  <2>4. CASE e[1] # v
    <3>1. e \in h.edges
      BY <1>6, <2>2, <2>4
    <3>2. y \in Origins(h, e[1])
      BY <1>2, <1>4, <2>1, <3>1
    <3> QED
      BY <2>1, <2>2, <3>1, <3>2, UseOf
  <2> QED
    BY <2>3, <2>4
<1> QED
  BY <1>7, <1>8 DEF h

LEMMA ReplacingKeepsSound ==
  ASSUME NEW g, Sound(g), NEW v, NEW x, Replaceable(g, v, x)
  PROVE  Sound(Replaced(g, v, x))
<1> DEFINE h == Replaced(g, v, x)
           N == {v} \cup Sources(g, v)
<1>1. /\ x \in Nodes(h) /\ x \notin N
      /\ Carriers(h) = Carriers(g) \ N
      /\ Nodes(h) = Nodes(g) \ N
      /\ \A n \in Nodes(h) : h.kind[n] = g.kind[n]
  BY ReplacedCarriers, ReplacedIs DEF Sound
<1>2. EdgesReplaced(g, h, v, x)
  BY ReplacedEdges
<1>3. Typed(h)
  BY ReplacedIsTyped
<1>4. Sources(g, v) \subseteq OfKind(g, "asg") /\ v \in OfKind(g, "var")
  BY DEF Sound, Assigns, Replaceable
<1>5. g.kind[x] # "asg"
  <2>1. PICK a \in Sources(g, v) : Sources(g, a) = {x}
    BY DEF Replaceable
  <2>2. \E d \in g.edges : d[1] = x /\ d[2] = a
    BY <2>1 DEF Sources, Preds
  <2> QED
    BY <1>4, <2>1, <2>2 DEF Sound, Assigns, OfKind
<1> HIDE DEF h
<1>6. /\ \A e \in h.edges :
              /\ e[1] \notin N /\ e[2] \notin N
              /\ \/ e \in g.edges
                 \/ \E d \in g.edges :
                      d[1] = v /\ e = <<x, d[2], d[3]>> /\ e[1] = x /\ e[2] = d[2] /\ e[3] = d[3]
      /\ \A d \in g.edges : d[1] \notin N /\ d[2] \notin N => d \in h.edges
      /\ \A d \in g.edges : d[1] = v /\ d[2] \notin N => <<x, d[2], d[3]>> \in h.edges
  BY <1>2 DEF EdgesReplaced
\* An edge from an assignment is an edge of g.
<1>7. ASSUME NEW e \in h.edges, h.kind[e[1]] = "asg" PROVE e \in g.edges /\ g.kind[e[1]] = "asg"
  BY <1>1, <1>6, <1>3, <1>5, <1>7 DEF Typed
<1>8. \A e \in h.edges : h.kind[e[1]] = "asg" => h.kind[e[2]] = "var"
  BY <1>1, <1>3, <1>7 DEF Typed, Sound, Assigns
<1>9. ASSUME NEW a \in OfKind(h, "asg") PROVE \E e \in h.edges : InEdges(h, a) = {e}
  <2>1. a \in OfKind(g, "asg") /\ a \notin N
    BY <1>1 DEF OfKind
  <2>2. PICK c \in g.edges : InEdges(g, a) = {c}
    BY <2>1 DEF Sound, Assigns
  <2>3. c[2] = a /\ \A d \in g.edges : d[2] = a => d = c
    BY <2>2 DEF InEdges
  <2>4. c[1] \notin Sources(g, v)
    BY <1>4, <2>1, <2>3 DEF Sound, Assigns, OfKind
  <2>5. CASE c[1] = v
    <3> DEFINE e == <<x, c[2], c[3]>>
    <3>1. e \in h.edges /\ e[2] = a
      BY <1>6, <2>1, <2>3, <2>5
    <3>2. ASSUME NEW d \in h.edges, d[2] = a PROVE d = e
      <4>1. d \notin g.edges
        BY <1>6, <2>3, <2>5, <3>2
      <4> QED
        BY <1>6, <2>3, <3>2, <4>1
    <3> HIDE DEF e
    <3> QED
      BY <3>1, <3>2 DEF InEdges
  <2>6. CASE c[1] # v
    <3>1. c \in h.edges
      BY <1>6, <2>1, <2>3, <2>4, <2>6
    <3>2. ASSUME NEW d \in h.edges, d[2] = a PROVE d = c
      BY <1>6, <2>3, <2>6, <3>2
    <3> QED
      BY <2>3, <3>1, <3>2 DEF InEdges
  <2> QED
    BY <2>5, <2>6
<1>10. ASSUME NEW a \in OfKind(h, "asg"), NEW d \in OutEdges(h, a), NEW e \in OutEdges(h, a) PROVE d = e
  <2>1. d \in h.edges /\ e \in h.edges /\ d[1] = a /\ e[1] = a /\ h.kind[a] = "asg" /\ a \in Nodes(g)
    BY <1>1 DEF OutEdges, OfKind
  <2>2. d \in g.edges /\ e \in g.edges /\ g.kind[a] = "asg"
    BY <1>7, <2>1
  <2> QED
    BY <2>1, <2>2 DEF Sound, Assigns, OfKind, OutEdges
<1>11. ASSUME NEW w \in OfKind(h, "var"), NEW a \in Sources(h, w) PROVE a \in OfKind(h, "asg")
  <2>1. PICK e \in h.edges : e[1] = a /\ e[2] = w
    BY DEF Sources, Preds
  <2>2. w \in OfKind(g, "var")
    BY <1>1 DEF OfKind
  <2>3. \A d \in g.edges : d[2] = w => d[1] \in OfKind(g, "asg")
    BY <2>2 DEF Sound, Assigns, Sources, Preds
  <2>4. e \in g.edges
    BY <1>6, <1>4, <2>1, <2>3 DEF OfKind
  <2>5. a \in OfKind(g, "asg") /\ a \in Nodes(h)
    BY <1>3, <2>1, <2>3, <2>4 DEF Typed
  <2> QED
    BY <1>1, <2>5 DEF OfKind
<1>12. ASSUME NEW c \in Carriers(h) PROVE Origins(h, c) # {}
  <2>1. c \in Nodes(h) /\ c \in Carriers(g)
    BY <1>1 DEF Carriers, OfKind
  <2>2. Origins(h, c) = Origins(g, c)
    BY <2>1, ReplacedBehind DEF h
  <2> QED
    BY <2>1, <2>2 DEF Sound, Grounded
<1>13. Assigns(h)
  BY <1>8, <1>9, <1>10, <1>11 DEF Assigns
<1> QED
  BY <1>3, <1>12, <1>13 DEF Sound, Grounded, h

----------------------------------------------------------------------------
(* The order of the nodes.                                                 *)

Below(N, n) == {m \in N : m < n}

LEMMA RankOf ==
  ASSUME NEW N \in SUBSET Nat, IsFiniteSet(N), NEW n \in N
  PROVE  /\ Cardinality(N) \in Nat
         /\ IsFiniteSet(Below(N, n)) /\ Cardinality(Below(N, n)) \in 0..(Cardinality(N) - 1)
         /\ \A k \in N : n < k => Cardinality(Below(N, n)) < Cardinality(Below(N, k))
<1>1. Cardinality(N) \in Nat
  BY FS_CardinalityType
<1>2. ASSUME NEW k \in N PROVE IsFiniteSet(Below(N, k)) /\ Cardinality(Below(N, k)) \in Nat
  <2>1. Below(N, k) \in SUBSET N
    BY DEF Below
  <2> QED
    BY <2>1, FS_Subset, FS_CardinalityType
<1>3. Cardinality(Below(N, n)) < Cardinality(N)
  <2>1. Below(N, n) \in SUBSET N /\ n \notin Below(N, n)
    BY DEF Below
  <2>2. /\ Cardinality(Below(N, n)) <= Cardinality(N)
        /\ Cardinality(N) = Cardinality(Below(N, n)) => N = Below(N, n)
    BY <2>1, FS_Subset
  <2> QED
    BY <1>1, <1>2, <2>1, <2>2
<1>4. ASSUME NEW k \in N, n < k PROVE Cardinality(Below(N, n)) < Cardinality(Below(N, k))
  <2>0. n \in Nat /\ k \in Nat /\ \A m \in N : m \in Nat
    OBVIOUS
  <2>1. Below(N, n) \in SUBSET Below(N, k) /\ n \notin Below(N, n) /\ n \in Below(N, k)
    <3>1. \A m \in N : m < n => m < k
      BY <1>4, <2>0
    <3>2. ~(n < n)
      BY <2>0
    <3> QED
      BY <1>4, <3>1, <3>2, Zenon DEF Below
  <2>2. /\ Cardinality(Below(N, n)) <= Cardinality(Below(N, k))
        /\ Cardinality(Below(N, k)) = Cardinality(Below(N, n)) => Below(N, k) = Below(N, n)
    BY <1>2, <2>1, FS_Subset
  <2> QED
    BY <1>2, <2>1, <2>2
<1> QED
  BY <1>1, <1>2, <1>3, <1>4

LEMMA EveryRank ==
  ASSUME NEW N \in SUBSET Nat, IsFiniteSet(N), NEW i \in 0..(Cardinality(N) - 1)
  PROVE  \E n \in N : Cardinality(Below(N, n)) = i
<1> DEFINE rank == [n \in N |-> Cardinality(Below(N, n))]
           R == {rank[n] : n \in N}
           c == Cardinality(N)
<1>1. c \in Nat
  BY FS_CardinalityType
<1>2. \A n \in N : rank[n] \in 0..(c - 1)
  BY RankOf
<1>3. \A n, k \in N : n < k => rank[n] < rank[k]
  BY RankOf
<1>4. rank \in Surjection(N, R)
  BY DEF Surjection
<1>5. rank \in Injection(N, R)
  <2>1. \A n, k \in N : n # k => n < k \/ k < n
    OBVIOUS
  <2>2. rank \in [N -> R]
    OBVIOUS
  <2> HIDE DEF rank, R, c
  <2>3. \A n, k \in N : rank[n] = rank[k] => n = k
    BY <1>1, <1>2, <1>3, <2>1
  <2> QED
    BY <2>2, <2>3 DEF Injection, IsInjective
<1>6. Cardinality(R) = c
  <2> HIDE DEF rank, R
  <2> QED
    BY <1>4, <1>5, FS_Surjection
<1>7. R \in SUBSET (0..(c - 1))
  BY <1>2
<1>8. IsFiniteSet(0..(c - 1)) /\ Cardinality(0..(c - 1)) = c
  BY <1>1, FS_Interval
<1>9. R = 0..(c - 1)
  <2> HIDE DEF R
  <2> QED
    BY <1>6, <1>7, <1>8, FS_Subset
<1> QED
  BY <1>9

LEMMA InOrderEnumerates ==
  ASSUME NEW N \in SUBSET Nat, IsFiniteSet(N)
  PROVE  /\ InOrder(N) \in Seq(N)
         /\ Len(InOrder(N)) = Cardinality(N) /\ DOMAIN InOrder(N) = 1..Cardinality(N)
         /\ \A i \in 1..Cardinality(N) : InOrder(N)[i] \in N
         /\ \A n \in N : \E i \in 1..Cardinality(N) : InOrder(N)[i] = n
<1> DEFINE c == Cardinality(N)
           q == InOrder(N)
<1>1. c \in Nat
  BY FS_CardinalityType
<1>2. q = [i \in 1..c |-> CHOOSE n \in N : Cardinality(Below(N, n)) = i - 1]
  BY DEF InOrder, Below
<1>3. ASSUME NEW i \in 1..c PROVE q[i] \in N /\ Cardinality(Below(N, q[i])) = i - 1
  <2>1. i - 1 \in 0..(c - 1)
    BY <1>1
  <2>2. \E n \in N : Cardinality(Below(N, n)) = i - 1
    BY <2>1, EveryRank
  <2>3. q[i] = CHOOSE n \in N : Cardinality(Below(N, n)) = i - 1
    BY <1>2
  <2> QED
    BY <2>2, <2>3
<1> HIDE DEF q, c
<1>4. q \in Seq(N) /\ Len(q) = c /\ DOMAIN q = 1..c
  <2>1. DOMAIN q = 1..c /\ q = [i \in 1..c |-> q[i]]
    BY <1>2
  <2>2. q \in [1..c -> N]
    BY <1>3, <2>1
  <2> QED
    BY <1>1, <2>2
<1>5. ASSUME NEW n \in N PROVE \E i \in 1..c : q[i] = n
  <2> DEFINE i == Cardinality(Below(N, n)) + 1
  <2>1. i \in 1..c
    BY <1>1, RankOf DEF c
  <2>2. q[i] \in N /\ Cardinality(Below(N, q[i])) = i - 1
    BY <1>3, <2>1
  <2>3. Cardinality(Below(N, q[i])) = Cardinality(Below(N, n))
    <3>1. Cardinality(Below(N, n)) \in Nat
      BY RankOf
    <3> QED
      BY <2>2, <3>1
  <2>4. /\ Cardinality(Below(N, q[i])) \in Nat
        /\ \A k, m \in N : k < m => Cardinality(Below(N, k)) < Cardinality(Below(N, m))
    BY <2>2, RankOf
  <2> DEFINE k == q[i]
  <2>5. k \in N /\ k \in Nat /\ n \in Nat
    BY <2>2
  <2> HIDE DEF k
  <2>6. k = n
    <3>1. k < n => Cardinality(Below(N, k)) < Cardinality(Below(N, n))
      BY <2>4, <2>5
    <3>2. n < k => Cardinality(Below(N, n)) < Cardinality(Below(N, k))
      BY <2>4, <2>5
    <3> QED
      BY <2>3, <2>4, <2>5, <3>1, <3>2 DEF k
  <2> QED
    BY <2>1, <2>6 DEF k
<1> QED
  BY <1>3, <1>4, <1>5 DEF q, c

\* What add_nodes gives to a new node is larger than all nodes.
LEMMA FirstFreeIsAbove ==
  ASSUME NEW g, Nodes(g) \in SUBSET Nat, IsFiniteSet(Nodes(g)), Nodes(g) # {}
  PROVE  FirstFree(g) \in Nat /\ \A n \in Nodes(g) : n < FirstFree(g)
<1> DEFINE N == Nodes(g)
           c == Cardinality(N)
<1>1. c \in Nat /\ c # 0
  BY FS_CardinalityType, FS_EmptySet
<1> HIDE DEF N
<1>2. PICK top \in N : Cardinality(Below(N, top)) = c - 1
  BY <1>1, EveryRank DEF N
<1>3. \A m \in N : m <= top
  <2> SUFFICES ASSUME NEW m \in N, top < m PROVE FALSE
    BY DEF N
  <2>1. Cardinality(Below(N, top)) < Cardinality(Below(N, m)) /\ Cardinality(Below(N, m)) \in 0..(c - 1)
    BY RankOf DEF N
  <2> QED
    BY <1>1, <1>2, <2>1
<1>4. FirstFree(g) = 1 + CHOOSE n \in N : \A m \in N : m <= n
  BY DEF FirstFree, N
<1> QED
  BY <1>3, <1>4 DEF N

----------------------------------------------------------------------------
(* Merging the variables that are assigned one value.                      *)

\* h has only nodes of g, of the same kind.
Shrinks(g, h) == Nodes(h) \subseteq Nodes(g) /\ \A n \in Nodes(h) : h.kind[n] = g.kind[n]

LEMMA SourceOfAssignment ==
  ASSUME NEW g, Sound(g), NEW a \in OfKind(g, "asg")
  PROVE  Sources(g, a) = {ValueOf(g, a)}
<1>1. PICK e \in g.edges : InEdges(g, a) = {e}
  BY DEF Sound, Assigns
<1>2. Sources(g, a) = {e[1]}
  BY <1>1 DEF Sources, Preds, InEdges
<1> QED
  BY <1>2 DEF ValueOf

LEMMA SourcesAreFinite ==
  ASSUME NEW g, Typed(g), NEW n
  PROVE  Sources(g, n) \subseteq Nodes(g) /\ IsFiniteSet(Sources(g, n))
<1>1. \A e \in g.edges : e[1] \in Nodes(g)
  BY DEF Typed
<1>2. Sources(g, n) \in SUBSET Nodes(g)
  BY <1>1 DEF Sources, Preds
<1> QED
  BY <1>2, FS_Subset DEF Typed

LEMMA MergingKeeps ==
  ASSUME NEW g, Sound(g), NEW v, v \in Nodes(g) => g.kind[v] = "var"
  PROVE  /\ Sound(MergeSameValue(g, v))
         /\ Uses(MergeSameValue(g, v)) = Uses(g)
         /\ MergeSameValue(g, v).error = g.error
         /\ Shrinks(g, MergeSameValue(g, v))
<1>1. CASE ~SameValue(g, v)
  BY <1>1 DEF MergeSameValue, Shrinks
<1>2. CASE SameValue(g, v)
  <2> DEFINE x == CHOOSE y \in ValuesOf(g, v) : TRUE
  <2>1. Sources(g, v) # {}
    BY <1>2, FS_EmptySet DEF SameValue
  <2>2. v \in OfKind(g, "var")
    <3>1. \E e \in g.edges : e[2] = v
      BY <2>1 DEF Sources, Preds
    <3> QED
      BY <3>1 DEF Sound, Typed, OfKind
  <2>3. IsFiniteSet(Sources(g, v))
    BY SourcesAreFinite DEF Sound
  <2>4. IsFiniteSet(ValuesOf(g, v))
    <3>1. [a \in Sources(g, v) |-> ValueOf(g, a)] \in Surjection(Sources(g, v), ValuesOf(g, v))
      BY DEF Surjection, ValuesOf
    <3> QED
      BY <2>3, <3>1, FS_Surjection
  <2>5. \E y : ValuesOf(g, v) = {y}
    BY <1>2, <2>4, FS_Singleton DEF SameValue
  <2>6. ValuesOf(g, v) = {x}
    BY <2>5
  <2>7. ASSUME NEW a \in Sources(g, v) PROVE Sources(g, a) = {x}
    <3>1. a \in OfKind(g, "asg")
      BY <2>2 DEF Sound, Assigns
    <3>2. ValueOf(g, a) = x
      BY <2>6 DEF ValuesOf
    <3> QED
      BY <3>1, <3>2, SourceOfAssignment
  <2>8. Replaceable(g, v, x)
    BY <2>1, <2>2, <2>7 DEF Replaceable
  <2>9. MergeSameValue(g, v) = Replaced(g, v, x)
    BY <1>2 DEF MergeSameValue, Replaced
  <2> HIDE DEF x
  <2>10. /\ Replaced(g, v, x).error = g.error
         /\ Shrinks(g, Replaced(g, v, x))
    BY ReplacedIs DEF Sound, Shrinks
  <2> QED
    BY <2>8, <2>9, <2>10, ReplacingKeepsSound, ReplacingKeepsUsesOf
<1> QED
  BY <1>1, <1>2

LEMMA MergingAllKeeps ==
  ASSUME NEW g, Sound(g)
  PROVE  /\ Sound(MergeSameValues(g))
         /\ Uses(MergeSameValues(g)) = Uses(g)
         /\ MergeSameValues(g).error = g.error
<1> DEFINE q == InOrder(OfKind(g, "var"))
           n == Len(q)
           F == CHOOSE f : f = [i \in 0..n |-> IF i = 0 THEN g ELSE MergeSameValue(f[i - 1], q[i])]
<1>1. /\ n \in Nat
      /\ \A i \in 1..n : q[i] \in OfKind(g, "var")
  <2>1. OfKind(g, "var") \in SUBSET Nat /\ IsFiniteSet(OfKind(g, "var"))
    BY FS_Subset DEF OfKind, Sound, Typed
  <2> QED
    BY <2>1, InOrderEnumerates
<1> HIDE DEF n, q
<1>2. F = [i \in 0..n |-> IF i = 0 THEN g ELSE MergeSameValue(F[i - 1], q[i])]
  <2> DEFINE Is(f, k) == f = [i \in 0..k |-> IF i = 0 THEN g ELSE MergeSameValue(f[i - 1], q[i])]
             T == {k \in Nat : \E f : Is(f, k)}
  <2>1. 0 \in T
    <3>1. Is([i \in 0..0 |-> g], 0)
      OBVIOUS
    <3> QED
      BY <3>1
  <2>2. ASSUME NEW k \in T PROVE k + 1 \in T
    <3>1. PICK f : Is(f, k)
      OBVIOUS
    <3> DEFINE h == [i \in 0..(k + 1) |-> IF i = k + 1 THEN MergeSameValue(f[k], q[k + 1]) ELSE f[i]]
    <3>2. ASSUME NEW i \in 0..(k + 1)
          PROVE  h[i] = IF i = 0 THEN g ELSE MergeSameValue(h[i - 1], q[i])
      <4>1. CASE i = k + 1
        BY <4>1
      <4>2. CASE i \in 0..k /\ i # 0
        <5>1. f[i] = MergeSameValue(f[i - 1], q[i])
          BY <3>1, <4>2
        <5>2. i - 1 \in 0..(k + 1) /\ i - 1 # k + 1 /\ i # k + 1
          BY <4>2
        <5> QED
          BY <4>2, <5>1, <5>2
      <4>3. CASE i = 0
        BY <3>1, <4>3
      <4> QED
        BY <4>1, <4>2, <4>3
    <3>3. Is(h, k + 1)
      <4> HIDE DEF h
      <4>1. h = [i \in 0..(k + 1) |-> h[i]]
        BY DEF h
      <4> QED
        BY <3>2, <4>1
    <3> HIDE DEF h, Is
    <3> QED
      BY <3>3
  <2>3. T = Nat
    <3> HIDE DEF Is
    <3> QED
      BY <2>1, <2>2, Induction
  <2> QED
    BY <1>1, <2>3
<1> HIDE DEF F
<1> DEFINE J(h) == Sound(h) /\ Uses(h) = Uses(g) /\ h.error = g.error /\ Shrinks(g, h)
           T == {k \in Nat : k <= n => J(F[k])}
<1>3. 0 \in T
  BY <1>1, <1>2 DEF Shrinks
<1>4. ASSUME NEW k \in T PROVE k + 1 \in T
  <2> SUFFICES ASSUME k + 1 <= n PROVE J(F[k + 1])
    OBVIOUS
  <2>1. F[k + 1] = MergeSameValue(F[k], q[k + 1])
    BY <1>1, <1>2
  <2>2. J(F[k])
    BY <1>1
  <2>3. q[k + 1] \in Nodes(F[k]) => F[k].kind[q[k + 1]] = "var"
    BY <1>1, <2>2 DEF Shrinks, OfKind
  <2> QED
    BY <2>1, <2>2, <2>3, MergingKeeps DEF Shrinks
<1>5. n \in T
  <2> HIDE DEF J
  <2> QED
    BY <1>1, <1>3, <1>4, Induction
<1>6. MergeSameValues(g) = F[n]
  BY DEF MergeSameValues, F, n, q
<1> QED
  BY <1>1, <1>5, <1>6

----------------------------------------------------------------------------
(* A phi node.                                                             *)

\* The nodes that WithPhi adds, and the operand of the phi node that each
\* assignment gets.
PhiOf(g) == FirstFree(g)
PhiAsgOf(g) == FirstFree(g) + 1
OperandFor(g, v) ==
  [a \in Sources(g, v) |-> PhiAsgOf(g) +
     CHOOSE i \in DOMAIN InOrder(Sources(g, v)) : InOrder(Sources(g, v))[i] = a]
OperandsFor(g, v) == {OperandFor(g, v)[a] : a \in Sources(g, v)}

LEMMA NewNodes ==
  ASSUME NEW g, Typed(g), NEW v, Sources(g, v) # {}
  PROVE  /\ PhiOf(g) \in Nat /\ PhiAsgOf(g) \in Nat /\ PhiAsgOf(g) = PhiOf(g) + 1
         /\ \A n \in Nodes(g) : n < PhiOf(g)
         /\ \A a \in Sources(g, v) : OperandFor(g, v)[a] \in Nat /\ OperandFor(g, v)[a] > PhiAsgOf(g)
         /\ \A a, b \in Sources(g, v) : OperandFor(g, v)[a] = OperandFor(g, v)[b] => a = b
         /\ IsFiniteSet(OperandsFor(g, v))
<1> DEFINE S == Sources(g, v)
           q == InOrder(S)
           c == Cardinality(S)
<1>1. S \subseteq Nodes(g) /\ IsFiniteSet(S) /\ Nodes(g) \in SUBSET Nat /\ IsFiniteSet(Nodes(g))
  BY SourcesAreFinite DEF Typed
<1>2. FirstFree(g) \in Nat /\ \A n \in Nodes(g) : n < FirstFree(g)
  BY <1>1, FirstFreeIsAbove
<1>3. PhiOf(g) \in Nat /\ PhiAsgOf(g) \in Nat /\ PhiAsgOf(g) = PhiOf(g) + 1
      /\ \A n \in Nodes(g) : n < PhiOf(g)
  BY <1>2 DEF PhiOf, PhiAsgOf
<1>4. DOMAIN q = 1..c /\ (\A a \in S : \E i \in 1..c : q[i] = a)
  BY <1>1, InOrderEnumerates
<1> DEFINE place(a) == CHOOSE i \in DOMAIN q : q[i] = a
<1>5. \A a \in S : OperandFor(g, v)[a] = PhiAsgOf(g) + place(a)
  BY DEF OperandFor
<1> HIDE DEF S, q, c
<1>6. ASSUME NEW a \in S PROVE place(a) \in Nat /\ place(a) > 0 /\ q[place(a)] = a
  <2>1. place(a) \in 1..c /\ q[place(a)] = a
    BY <1>4
  <2>2. c \in Nat
    BY <1>1, FS_CardinalityType DEF c
  <2> QED
    BY <2>1, <2>2
<1> HIDE DEF place
<1>7. \A a \in S : OperandFor(g, v)[a] \in Nat /\ OperandFor(g, v)[a] > PhiAsgOf(g)
  BY <1>3, <1>5, <1>6
<1>8. ASSUME NEW a \in S, NEW b \in S, OperandFor(g, v)[a] = OperandFor(g, v)[b] PROVE a = b
  <2>1. place(a) = place(b)
    BY <1>3, <1>5, <1>6, <1>8
  <2> QED
    BY <1>6, <2>1
<1>9. IsFiniteSet(OperandsFor(g, v))
  <2>1. OperandFor(g, v) \in Surjection(S, OperandsFor(g, v))
    BY DEF Surjection, OperandsFor, OperandFor, S
  <2> QED
    BY <1>1, <2>1, FS_Surjection
<1> QED
  BY <1>3, <1>7, <1>8, <1>9 DEF S

LEMMA WithPhiIs ==
  ASSUME NEW g, Typed(g), NEW v, Sources(g, v) # {}, NEW s
  PROVE  LET h == WithPhi(g, v, s)
             phi == PhiOf(g)
             asg == PhiAsgOf(g)
             operand == OperandFor(g, v)
         IN  /\ DOMAIN h = DOMAIN g
             /\ h.error = g.error
             /\ Nodes(h) = Nodes(g) \cup {phi, asg} \cup OperandsFor(g, v)
             /\ \A n \in Nodes(g) : h.kind[n] = g.kind[n]
             /\ h.kind[phi] = "phi" /\ h.kind[asg] = "asg"
             /\ \A n \in OperandsFor(g, v) : h.kind[n] = "var"
             /\ h.edges = (g.edges \ InEdges(g, v))
                  \cup {<<phi, asg, 0>>, <<asg, v, 0>>}
                  \cup {<<e[1], operand[e[1]], e[3]>> : e \in InEdges(g, v)}
                  \cup {<<operand[a], phi, operand[a] - asg - 1>> : a \in Sources(g, v)}
<1> DEFINE phi == PhiOf(g)
           asg == PhiAsgOf(g)
           operand == OperandFor(g, v)
           O == OperandsFor(g, v)
           new == [n \in {phi, asg} \cup O |->
                     <<IF n = phi THEN "phi" ELSE IF n = asg THEN "asg" ELSE "var", g.label[v]>>]
           freed == [g EXCEPT !.edges = @ \ InEdges(g, v)]
           added == {<<phi, asg, 0>>, <<asg, v, 0>>}
                      \cup {<<e[1], operand[e[1]], e[3]>> : e \in InEdges(g, v)}
                      \cup {<<operand[a], phi, operand[a] - asg - 1>> : a \in Sources(g, v)}
           wired == WithEdges(WithNodes(freed, new), added)
           h == WithPhi(g, v, s)
<1>1. h = WithSon(wired, [n \in {phi, asg, v} |-> {s}])
  BY DEF WithPhi, PhiOf, PhiAsgOf, OperandFor, OperandsFor
<1>2. /\ phi \in Nat /\ asg = phi + 1
      /\ \A n \in Nodes(g) : n < phi
      /\ \A n \in O : n \in Nat /\ n > asg
  <2>1. phi \in Nat /\ asg = phi + 1 /\ \A n \in Nodes(g) : n < phi
    BY NewNodes
  <2>2. \A a \in Sources(g, v) : operand[a] \in Nat /\ operand[a] > asg
    BY NewNodes
  <2>3. O = {operand[a] : a \in Sources(g, v)}
    BY DEF OperandsFor
  <2> HIDE DEF phi, asg, operand, O
  <2> QED
    BY <2>1, <2>2, <2>3
<1>3. phi # asg /\ phi \notin O /\ asg \notin O /\ \A n \in Nodes(g) : n \notin O /\ n # phi /\ n # asg
  <2>1. \A n \in Nodes(g) : n \in Nat
    BY DEF Typed
  <2> HIDE DEF phi, asg, O
  <2> QED
    BY <1>2, <2>1
<1> HIDE DEF phi, asg, operand, O
<1>4. /\ DOMAIN new = {phi, asg} \cup O
      /\ new[phi][1] = "phi" /\ new[asg][1] = "asg"
      /\ \A n \in O : new[n][1] = "var"
  BY <1>3
<1>5. freed.kind = g.kind /\ DOMAIN freed = DOMAIN g /\ freed.error = g.error
      /\ freed.edges = g.edges \ InEdges(g, v) /\ freed.label = g.label /\ freed.son = g.son
  BY DEF Typed
<1> HIDE DEF new, freed, added
<1> DEFINE more == WithNodes(freed, new)
<1>6. /\ DOMAIN more = DOMAIN g /\ more.edges = freed.edges /\ more.error = g.error
      /\ more.kind = [n \in Nodes(g) \cup DOMAIN new |-> IF n \in DOMAIN new THEN new[n][1] ELSE g.kind[n]]
  BY <1>5 DEF WithNodes, Nodes, Typed
<1>7. /\ DOMAIN wired = DOMAIN g /\ wired.kind = more.kind /\ wired.error = g.error
      /\ wired.edges = freed.edges \cup added
  <2> HIDE DEF more
  <2> QED
    BY <1>6 DEF WithEdges, Typed, more
<1>8. DOMAIN h = DOMAIN g /\ h.kind = more.kind /\ h.error = g.error /\ h.edges = freed.edges \cup added
  <2> HIDE DEF more, wired
  <2> QED
    BY <1>1, <1>7 DEF WithSon, Typed
<1>9. /\ DOMAIN more.kind = Nodes(g) \cup {phi, asg} \cup O
      /\ \A n \in DOMAIN new : more.kind[n] = new[n][1]
      /\ \A n \in Nodes(g) \ DOMAIN new : more.kind[n] = g.kind[n]
  <2> HIDE DEF more
  <2> QED
    BY <1>4, <1>6
<1>10. Nodes(h) = Nodes(g) \cup {phi, asg} \cup O /\ \A n \in Nodes(g) : h.kind[n] = g.kind[n]
  BY <1>3, <1>4, <1>8, <1>9 DEF Nodes
<1>11. h.kind[phi] = "phi" /\ h.kind[asg] = "asg" /\ \A n \in O : h.kind[n] = "var"
  BY <1>4, <1>8, <1>9
<1>12. h.edges = (g.edges \ InEdges(g, v)) \cup added
  BY <1>5, <1>8
<1> HIDE DEF h
<1> QED
  BY <1>8, <1>10, <1>11, <1>12 DEF h, phi, asg, operand, O, added

\* The edges of the graph with the phi node h of v.
EdgesWithPhi(g, h, v) ==
  LET operand == OperandFor(g, v)
  IN  /\ \A e \in g.edges : e[2] # v => e \in h.edges
      /\ \A e \in g.edges : e[2] = v =>
           \E d \in h.edges : d[1] = e[1] /\ d[2] = operand[e[1]]
      /\ \E e \in h.edges : e[1] = PhiOf(g) /\ e[2] = PhiAsgOf(g)
      /\ \E e \in h.edges : e[1] = PhiAsgOf(g) /\ e[2] = v
      /\ \A a \in Sources(g, v) : \E e \in h.edges : e[1] = operand[a] /\ e[2] = PhiOf(g)
      /\ \A e \in h.edges :
           \/ e \in g.edges /\ e[2] # v
           \/ e = <<PhiOf(g), PhiAsgOf(g), 0>> /\ e[1] = PhiOf(g) /\ e[2] = PhiAsgOf(g)
           \/ e = <<PhiAsgOf(g), v, 0>> /\ e[1] = PhiAsgOf(g) /\ e[2] = v
           \/ \E d \in g.edges : /\ d[2] = v /\ d[1] \in Sources(g, v)
                                 /\ e = <<d[1], operand[d[1]], d[3]>>
                                 /\ e[1] = d[1] /\ e[2] = operand[d[1]]
           \/ \E a \in Sources(g, v) : /\ e = <<operand[a], PhiOf(g), operand[a] - PhiAsgOf(g) - 1>>
                                       /\ e[1] = operand[a] /\ e[2] = PhiOf(g)

LEMMA WithPhiEdges ==
  ASSUME NEW g, Typed(g), NEW v, Sources(g, v) # {}, NEW s
  PROVE  EdgesWithPhi(g, WithPhi(g, v, s), v)
<1> DEFINE h == WithPhi(g, v, s)
           phi == PhiOf(g)
           asg == PhiAsgOf(g)
           operand == OperandFor(g, v)
           A == {<<e[1], operand[e[1]], e[3]>> : e \in InEdges(g, v)}
           B == {<<operand[a], phi, operand[a] - asg - 1>> : a \in Sources(g, v)}
           C == {<<phi, asg, 0>>, <<asg, v, 0>>}
<1>1. h.edges = (g.edges \ InEdges(g, v)) \cup C \cup A \cup B
  BY WithPhiIs
<1> HIDE DEF h, phi, asg, operand
<1>2. \A e \in g.edges : (e \in InEdges(g, v) <=> e[2] = v)
  BY DEF InEdges
<1>3. ASSUME NEW e \in g.edges, e[2] = v
      PROVE  \E d \in A : d[1] = e[1] /\ d[2] = operand[e[1]]
  <2>1. <<e[1], operand[e[1]], e[3]>> \in A
    BY <1>2, <1>3
  <2> QED
    BY <2>1
<1>4. \E e \in C : e[1] = phi /\ e[2] = asg
  OBVIOUS
<1>5. \E e \in C : e[1] = asg /\ e[2] = v
  OBVIOUS
<1>6. ASSUME NEW a \in Sources(g, v) PROVE \E e \in B : e[1] = operand[a] /\ e[2] = phi
  <2>1. <<operand[a], phi, operand[a] - asg - 1>> \in B
    OBVIOUS
  <2> QED
    BY <2>1
<1>7. ASSUME NEW e \in A
      PROVE  \E d \in g.edges : /\ d[2] = v /\ d[1] \in Sources(g, v)
                                /\ e = <<d[1], operand[d[1]], d[3]>>
                                /\ e[1] = d[1] /\ e[2] = operand[d[1]]
  <2>1. PICK d \in InEdges(g, v) : e = <<d[1], operand[d[1]], d[3]>>
    OBVIOUS
  <2>2. d \in g.edges /\ d[2] = v /\ d[1] \in Sources(g, v)
    BY DEF InEdges, Sources, Preds
  <2> QED
    BY <2>1, <2>2
<1>8. ASSUME NEW e \in B
      PROVE  \E a \in Sources(g, v) : /\ e = <<operand[a], phi, operand[a] - asg - 1>>
                                      /\ e[1] = operand[a] /\ e[2] = phi
  OBVIOUS
<1>9. ASSUME NEW e \in C
      PROVE  \/ e = <<phi, asg, 0>> /\ e[1] = phi /\ e[2] = asg
             \/ e = <<asg, v, 0>> /\ e[1] = asg /\ e[2] = v
  OBVIOUS
<1> HIDE DEF A, B, C
<1>10. \A e \in h.edges :
           \/ e \in g.edges /\ e[2] # v
           \/ e = <<phi, asg, 0>> /\ e[1] = phi /\ e[2] = asg
           \/ e = <<asg, v, 0>> /\ e[1] = asg /\ e[2] = v
           \/ \E d \in g.edges : /\ d[2] = v /\ d[1] \in Sources(g, v)
                                 /\ e = <<d[1], operand[d[1]], d[3]>>
                                 /\ e[1] = d[1] /\ e[2] = operand[d[1]]
           \/ \E a \in Sources(g, v) : /\ e = <<operand[a], phi, operand[a] - asg - 1>>
                                       /\ e[1] = operand[a] /\ e[2] = phi
  <2> SUFFICES ASSUME NEW e \in h.edges
               PROVE  \/ e \in g.edges /\ e[2] # v
                      \/ e = <<phi, asg, 0>> /\ e[1] = phi /\ e[2] = asg
                      \/ e = <<asg, v, 0>> /\ e[1] = asg /\ e[2] = v
                      \/ \E d \in g.edges : /\ d[2] = v /\ d[1] \in Sources(g, v)
                                            /\ e = <<d[1], operand[d[1]], d[3]>>
                                            /\ e[1] = d[1] /\ e[2] = operand[d[1]]
                      \/ \E a \in Sources(g, v) : /\ e = <<operand[a], phi, operand[a] - asg - 1>>
                                                  /\ e[1] = operand[a] /\ e[2] = phi
    OBVIOUS
  <2>1. (e \in g.edges /\ e[2] # v) \/ e \in A \/ e \in B \/ e \in C
    BY <1>1, <1>2
  <2> QED
    BY <1>7, <1>8, <1>9, <2>1, Zenon
<1>11. \A e \in g.edges : e[2] # v => e \in h.edges
  BY <1>1, <1>2
<1>12. A \subseteq h.edges /\ B \subseteq h.edges /\ C \subseteq h.edges
  BY <1>1
<1>13. \A e \in g.edges : e[2] = v => \E d \in h.edges : d[1] = e[1] /\ d[2] = operand[e[1]]
  BY <1>3, <1>12
<1>14. /\ \E e \in h.edges : e[1] = phi /\ e[2] = asg
       /\ \E e \in h.edges : e[1] = asg /\ e[2] = v
       /\ \A a \in Sources(g, v) : \E e \in h.edges : e[1] = operand[a] /\ e[2] = phi
  BY <1>4, <1>5, <1>6, <1>12
<1> QED
  BY <1>10, <1>11, <1>13, <1>14, Zenon DEF EdgesWithPhi, phi, asg, operand, h

\* The phi node, its assignment and its operands are new.
NewFor(g, v) == {PhiOf(g), PhiAsgOf(g)} \cup OperandsFor(g, v)

LEMMA NewNodesAreNew ==
  ASSUME NEW g, Typed(g), NEW v, Sources(g, v) # {}
  PROVE  /\ NewFor(g, v) \cap Nodes(g) = {}
         /\ NewFor(g, v) \subseteq Nat /\ IsFiniteSet(NewFor(g, v))
         /\ PhiOf(g) # PhiAsgOf(g)
         /\ \A a \in Sources(g, v) : OperandFor(g, v)[a] \in OperandsFor(g, v)
         /\ PhiOf(g) \notin OperandsFor(g, v) /\ PhiAsgOf(g) \notin OperandsFor(g, v)
         /\ \A o \in OperandsFor(g, v) : \E a \in Sources(g, v) : OperandFor(g, v)[a] = o
<1> DEFINE phi == PhiOf(g)
           asg == PhiAsgOf(g)
           operand == OperandFor(g, v)
           O == OperandsFor(g, v)
<1>1. /\ phi \in Nat /\ asg \in Nat /\ asg = phi + 1
      /\ \A n \in Nodes(g) : n < phi
      /\ \A a \in Sources(g, v) : operand[a] \in Nat /\ operand[a] > asg
      /\ IsFiniteSet(O)
  BY NewNodes
<1>2. O = {operand[a] : a \in Sources(g, v)}
  BY DEF OperandsFor
<1>3. \A n \in Nodes(g) : n \in Nat
  BY DEF Typed
<1>4. IsFiniteSet(({phi, asg}) \cup O)
  <2>1. IsFiniteSet({phi}) /\ IsFiniteSet({asg})
    BY FS_Singleton
  <2>2. IsFiniteSet({phi} \cup {asg})
    BY <2>1, FS_Union
  <2>3. IsFiniteSet(({phi} \cup {asg}) \cup O)
    BY <1>1, <2>2, FS_Union
  <2>4. ({phi} \cup {asg}) \cup O = {phi, asg} \cup O
    OBVIOUS
  <2> QED
    BY <2>3, <2>4
<1> HIDE DEF phi, asg, operand, O
<1>5. \A o \in O : o \in Nat /\ o > asg /\ \E a \in Sources(g, v) : operand[a] = o
  BY <1>1, <1>2
<1>6. \A o \in O : o # phi /\ o # asg /\ o \notin Nodes(g)
  BY <1>1, <1>3, <1>5
<1>7. phi \notin Nodes(g) /\ asg \notin Nodes(g) /\ phi # asg
  BY <1>1, <1>3
<1> QED
  BY <1>1, <1>2, <1>4, <1>5, <1>6, <1>7 DEF NewFor, phi, asg, operand, O

LEMMA PhiCarriers ==
  ASSUME NEW g, Sound(g), NEW v \in OfKind(g, "var"), Sources(g, v) # {}, NEW s
  PROVE  Carriers(WithPhi(g, v, s)) = Carriers(g) \cup NewFor(g, v)
<1> DEFINE h == WithPhi(g, v, s)
           operand == OperandFor(g, v)
           O == OperandsFor(g, v)
           New == NewFor(g, v)
<1>1. EdgesWithPhi(g, h, v)
  BY WithPhiEdges DEF Sound
<1>2. /\ Nodes(h) = Nodes(g) \cup New
      /\ \A n \in Nodes(g) : h.kind[n] = g.kind[n]
      /\ h.kind[PhiOf(g)] = "phi" /\ h.kind[PhiAsgOf(g)] = "asg"
      /\ \A n \in O : h.kind[n] = "var"
  <2>1. New = {PhiOf(g), PhiAsgOf(g)} \cup O
    BY DEF NewFor
  <2> HIDE DEF New
  <2> QED
    BY <2>1, WithPhiIs DEF Sound
<1>3. /\ New \cap Nodes(g) = {} /\ New = {PhiOf(g), PhiAsgOf(g)} \cup O
      /\ \A a \in Sources(g, v) : operand[a] \in O
      /\ \A o \in O : \E a \in Sources(g, v) : operand[a] = o
  BY NewNodesAreNew DEF Sound, NewFor
<1> HIDE DEF h, operand, O, New
<1>4. ASSUME NEW w \in OfKind(g, "var")
      PROVE  (\E e \in h.edges : e[2] = w) <=> (\E e \in g.edges : e[2] = w)
  <2>1. CASE w = v
    <3>1. \E e \in g.edges : e[2] = v
      BY DEF Sources, Preds
    <3> QED
      BY <1>1, <2>1, <3>1 DEF EdgesWithPhi
  <2>2. CASE w # v
    <3>1. \A e \in g.edges : e[2] = w => e \in h.edges
      BY <1>1, <2>2 DEF EdgesWithPhi
    <3>2. ASSUME NEW e \in h.edges, e[2] = w PROVE e \in g.edges
      <4>1. w \notin New
        BY <1>3 DEF OfKind
      <4> QED
        BY <1>1, <1>3, <2>2, <3>2, <4>1 DEF EdgesWithPhi, operand
    <3> QED
      BY <3>1, <3>2
  <2> QED
    BY <2>1, <2>2
<1>5. ASSUME NEW o \in O PROVE \E e \in h.edges : e[2] = o
  <2>1. PICK a \in Sources(g, v) : operand[a] = o
    BY <1>3
  <2>2. PICK e \in g.edges : e[1] = a /\ e[2] = v
    BY DEF Sources, Preds
  <2> QED
    BY <1>1, <2>1, <2>2 DEF EdgesWithPhi, operand
<1>6. \A w : Sources(h, w) # {} <=> \E e \in h.edges : e[2] = w
  BY DEF Sources, Preds
<1>7. \A w : Sources(g, w) # {} <=> \E e \in g.edges : e[2] = w
  BY DEF Sources, Preds
<1>8. \A n \in Nodes(g) : n \in Carriers(h) <=> n \in Carriers(g)
  BY <1>2, <1>4, <1>6, <1>7 DEF Carriers, OfKind
<1>9. \A n \in New : n \in Carriers(h)
  BY <1>2, <1>3, <1>5, <1>6 DEF Carriers, OfKind
<1>10. Carriers(h) \subseteq Nodes(h) /\ Carriers(g) \subseteq Nodes(g)
  BY DEF Carriers, OfKind
<1> QED
  BY <1>2, <1>3, <1>8, <1>9, <1>10 DEF h, New

LEMMA PhiIsTyped ==
  ASSUME NEW g, Sound(g), NEW v \in OfKind(g, "var"), Sources(g, v) # {}, NEW s
  PROVE  Typed(WithPhi(g, v, s))
<1> DEFINE h == WithPhi(g, v, s)
           operand == OperandFor(g, v)
           O == OperandsFor(g, v)
           New == NewFor(g, v)
           phi == PhiOf(g)
           asg == PhiAsgOf(g)
           A == {<<e[1], operand[e[1]], e[3]>> : e \in InEdges(g, v)}
           B == {<<operand[a], phi, operand[a] - asg - 1>> : a \in Sources(g, v)}
<1>1. /\ DOMAIN h = DOMAIN g /\ Nodes(h) = Nodes(g) \cup New
      /\ h.edges = (g.edges \ InEdges(g, v)) \cup {<<phi, asg, 0>>, <<asg, v, 0>>} \cup A \cup B
  BY WithPhiIs DEF Sound, NewFor
<1>2. New = {phi, asg} \cup O /\ New \subseteq Nat /\ IsFiniteSet(New)
  BY NewNodesAreNew DEF Sound, NewFor
<1>3. \A a \in Sources(g, v) : operand[a] \in O /\ operand[a] - asg - 1 \in Nat
  <2>1. /\ asg \in Nat
        /\ \A a \in Sources(g, v) : operand[a] \in Nat /\ operand[a] > asg
    BY NewNodes DEF Sound
  <2>2. \A a \in Sources(g, v) : operand[a] \in O
    BY NewNodesAreNew DEF Sound
  <2> HIDE DEF asg, operand, O
  <2> QED
    BY <2>1, <2>2
<1>4. /\ IsFiniteSet(Nodes(g)) /\ Nodes(g) \subseteq Nat
      /\ IsFiniteSet(g.edges) /\ g.edges \subseteq Nodes(g) \X Nodes(g) \X Nat
      /\ DOMAIN g = {"kind", "label", "edges", "keep", "son", "inputs", "bb", "error"}
  BY DEF Sound, Typed
<1>5. IsFiniteSet(Nodes(g) \cup New)
  <2> HIDE DEF New
  <2> QED
    BY <1>2, <1>4, FS_Union
<1>6. A \subseteq Nodes(h) \X Nodes(h) \X Nat
  <2> SUFFICES ASSUME NEW e \in InEdges(g, v) PROVE <<e[1], operand[e[1]], e[3]>> \in Nodes(h) \X Nodes(h) \X Nat
    OBVIOUS
  <2>1. e \in g.edges /\ e[1] \in Sources(g, v)
    BY DEF InEdges, Sources, Preds
  <2>2. e[1] \in Nodes(g) /\ e[3] \in Nat
    BY <1>4, <2>1
  <2> HIDE DEF h, operand, New, O
  <2> QED
    BY <1>1, <1>2, <1>3, <2>1, <2>2
<1>7. B \subseteq Nodes(h) \X Nodes(h) \X Nat
  <2> HIDE DEF h, operand, New, O, phi, asg
  <2> QED
    BY <1>1, <1>2, <1>3
<1>8. <<phi, asg, 0>> \in Nodes(h) \X Nodes(h) \X Nat /\ <<asg, v, 0>> \in Nodes(h) \X Nodes(h) \X Nat
  <2>1. v \in Nodes(g)
    BY DEF OfKind
  <2> HIDE DEF h, New, O, phi, asg
  <2> QED
    BY <1>1, <1>2, <2>1
<1>9. h.edges \subseteq Nodes(h) \X Nodes(h) \X Nat
  <2>1. g.edges \subseteq Nodes(h) \X Nodes(h) \X Nat
    <3> HIDE DEF h, New
    <3> QED
      BY <1>1, <1>4
  <2> HIDE DEF h, A, B, phi, asg
  <2> QED
    BY <1>1, <1>6, <1>7, <1>8, <2>1
<1>10. IsFiniteSet(h.edges)
  <2>1. IsFiniteSet(InEdges(g, v)) /\ IsFiniteSet(Sources(g, v))
    BY <1>4, FS_Subset, SourcesAreFinite DEF InEdges, Sound
  <2>2. [e \in InEdges(g, v) |-> <<e[1], operand[e[1]], e[3]>>] \in Surjection(InEdges(g, v), A)
    <3> HIDE DEF operand
    <3> QED
      BY DEF Surjection
  <2>3. [a \in Sources(g, v) |-> <<operand[a], phi, operand[a] - asg - 1>>] \in Surjection(Sources(g, v), B)
    <3> HIDE DEF operand, phi, asg
    <3> QED
      BY DEF Surjection
  <2> HIDE DEF A, B, phi, asg, h
  <2>4. IsFiniteSet(A) /\ IsFiniteSet(B)
    BY <2>1, <2>2, <2>3, FS_Surjection
  <2>5. IsFiniteSet({<<phi, asg, 0>>, <<asg, v, 0>>})
    <3>1. IsFiniteSet({<<phi, asg, 0>>} \cup {<<asg, v, 0>>})
      BY FS_Singleton, FS_Union
    <3>2. {<<phi, asg, 0>>} \cup {<<asg, v, 0>>} = {<<phi, asg, 0>>, <<asg, v, 0>>}
      OBVIOUS
    <3> QED
      BY <3>1, <3>2
  <2>6. IsFiniteSet(g.edges \cup {<<phi, asg, 0>>, <<asg, v, 0>>})
    BY <1>4, <2>5, FS_Union
  <2>7. IsFiniteSet((g.edges \cup {<<phi, asg, 0>>, <<asg, v, 0>>}) \cup A)
    BY <2>4, <2>6, FS_Union
  <2>8. IsFiniteSet(((g.edges \cup {<<phi, asg, 0>>, <<asg, v, 0>>}) \cup A) \cup B)
    BY <2>4, <2>7, FS_Union
  <2>9. h.edges \subseteq ((g.edges \cup {<<phi, asg, 0>>, <<asg, v, 0>>}) \cup A) \cup B
    BY <1>1
  <2> QED
    BY <2>8, <2>9, FS_Subset
<1> HIDE DEF h, New
<1>11. IsFiniteSet(Nodes(h)) /\ Nodes(h) \subseteq Nat
  BY <1>1, <1>2, <1>4, <1>5
<1> QED
  BY <1>1, <1>4, <1>9, <1>10, <1>11 DEF Typed, h

LEMMA PhiOrigins ==
  ASSUME NEW g, Sound(g), NEW v \in OfKind(g, "var"), Sources(g, v) # {}, NEW s, NEW m \in Nodes(g)
  PROVE  Origins(WithPhi(g, v, s), m) = Origins(g, m)
<1> DEFINE h == WithPhi(g, v, s)
           operand == OperandFor(g, v)
           O == OperandsFor(g, v)
           New == NewFor(g, v)
           phi == PhiOf(g)
           asg == PhiAsgOf(g)
           R == Behind(g, m)
           S == Behind(h, m)
           T == R \cup (IF v \in R THEN New ELSE {})
<1>1. EdgesWithPhi(g, h, v)
  BY WithPhiEdges DEF Sound
<1>2. Carriers(h) = Carriers(g) \cup New
  BY PhiCarriers
<1>3. /\ New \cap Nodes(g) = {} /\ New = {phi, asg} \cup O
      /\ \A a \in Sources(g, v) : operand[a] \in O
  BY NewNodesAreNew DEF Sound, NewFor
<1>4. m \in Nodes(h)
  BY WithPhiIs DEF Sound
<1>5. /\ m \in R /\ R \subseteq Nodes(g) /\ HandsBack(g, R)
      /\ \A X : m \in X /\ HandsBack(g, X) => R \subseteq X
  BY BehindIsLeast DEF Sound
<1>6. /\ m \in S /\ HandsBack(h, S)
      /\ \A X : m \in X /\ HandsBack(h, X) => S \subseteq X
  BY <1>4, PhiIsTyped, BehindIsLeast
<1>7. v \in Carriers(g) /\ v \in Nodes(g)
  BY DEF Carriers, OfKind
<1>8. \A e \in g.edges : e[1] \in Nodes(g) /\ e[2] \in Nodes(g) /\ (e[2] = v => e[1] \in Sources(g, v))
  BY DEF Sound, Typed, Sources, Preds
<1> HIDE DEF h, operand, O, New, phi, asg, R, S
<1>9. HandsBack(g, S)
  <2> SUFFICES ASSUME NEW e \in g.edges, e[2] \in S, e[2] \in Carriers(g) PROVE e[1] \in S
    BY DEF HandsBack
  <2>1. CASE e[2] # v
    BY <1>1, <1>2, <1>6, <2>1 DEF EdgesWithPhi, HandsBack
  <2>2. CASE e[2] = v
    <3>1. v \in Carriers(h) /\ asg \in Carriers(h) /\ phi \in Carriers(h) /\ operand[e[1]] \in Carriers(h)
      BY <1>2, <1>3, <1>7, <1>8, <2>2
    <3>2. asg \in S
      BY <1>1, <1>6, <2>2, <3>1 DEF EdgesWithPhi, HandsBack, asg
    <3>3. phi \in S
      BY <1>1, <1>6, <3>1, <3>2 DEF EdgesWithPhi, HandsBack, asg, phi
    <3>4. operand[e[1]] \in S
      BY <1>1, <1>6, <1>8, <2>2, <3>1, <3>3 DEF EdgesWithPhi, HandsBack, phi, operand
    <3> QED
      BY <1>1, <1>6, <2>2, <3>1, <3>4 DEF EdgesWithPhi, HandsBack, operand
  <2> QED
    BY <2>1, <2>2
<1>10. HandsBack(h, T)
  <2> SUFFICES ASSUME NEW e \in h.edges, e[2] \in T, e[2] \in Carriers(h) PROVE e[1] \in T
    BY DEF HandsBack
  <2>1. e[2] \in New => v \in R
    BY <1>3, <1>5
  <2>2. e[2] \in Nodes(g) => e[2] \in R /\ e[2] \in Carriers(g)
    BY <1>2, <1>3
  <2>3. CASE e \in g.edges /\ e[2] # v
    BY <1>5, <1>8, <2>2, <2>3 DEF HandsBack
  <2>4. CASE e[1] = phi /\ e[2] = asg
    BY <1>3, <2>1, <2>4
  <2>5. CASE e[1] = asg /\ e[2] = v
    BY <1>3, <1>7, <2>2, <2>5
  <2>6. CASE \E d \in g.edges : d[2] = v /\ d[1] \in Sources(g, v) /\ e[1] = d[1] /\ e[2] = operand[d[1]]
    BY <1>3, <1>5, <1>7, <2>1, <2>6 DEF HandsBack
  <2>7. CASE \E a \in Sources(g, v) : e[1] = operand[a] /\ e[2] = phi
    BY <1>3, <2>1, <2>7
  <2> QED
    BY <1>1, <2>3, <2>4, <2>5, <2>6, <2>7 DEF EdgesWithPhi, operand, phi, asg
<1>11. R \subseteq S /\ S \subseteq T
  BY <1>5, <1>6, <1>9, <1>10
<1>12. S \ Carriers(h) = R \ Carriers(g)
  BY <1>2, <1>3, <1>5, <1>11
<1> QED
  BY <1>12, OriginsAreBehind DEF h, R, S

LEMMA PhiKeepsUsesOf ==
  ASSUME NEW g, Sound(g), NEW v \in OfKind(g, "var"), Sources(g, v) # {}, NEW s
  PROVE  Uses(WithPhi(g, v, s)) = Uses(g)
<1> DEFINE h == WithPhi(g, v, s)
           operand == OperandFor(g, v)
           New == NewFor(g, v)
<1>1. EdgesWithPhi(g, h, v)
  BY WithPhiEdges DEF Sound
<1>2. Carriers(h) = Carriers(g) \cup New
  BY PhiCarriers
<1>3. /\ New \cap Nodes(g) = {} /\ PhiOf(g) \in New /\ PhiAsgOf(g) \in New
      /\ \A a \in Sources(g, v) : operand[a] \in New
  BY NewNodesAreNew DEF Sound, NewFor
<1>4. \A m \in Nodes(g) : Origins(h, m) = Origins(g, m)
  BY PhiOrigins
<1>5. v \in Carriers(g)
  BY DEF Carriers, OfKind
<1>6. \A e \in g.edges : e[1] \in Nodes(g) /\ e[2] \in Nodes(g)
  BY DEF Sound, Typed
<1> HIDE DEF h, operand, New
<1>7. \A e \in h.edges : e[2] \notin Carriers(h) => e \in g.edges
  BY <1>1, <1>2, <1>3, <1>5 DEF EdgesWithPhi, operand
<1>8. \A e \in g.edges : e[2] \notin Carriers(g) => e \in h.edges /\ e[2] \notin Carriers(h)
  BY <1>1, <1>2, <1>3, <1>5, <1>6 DEF EdgesWithPhi
<1>9. ASSUME NEW u PROVE u \in Uses(h) <=> u \in Uses(g)
  <2>1. u \in Uses(h) <=> \E e \in h.edges : \E x \in Origins(h, e[1]) :
                             e[2] \notin Carriers(h) /\ u = <<x, e[2], e[3]>>
    BY UseOf
  <2>2. u \in Uses(g) <=> \E e \in g.edges : \E x \in Origins(g, e[1]) :
                             e[2] \notin Carriers(g) /\ u = <<x, e[2], e[3]>>
    BY UseOf
  <2> QED
    BY <1>2, <1>4, <1>6, <1>7, <1>8, <2>1, <2>2
<1> QED
  BY <1>9 DEF h

LEMMA BehindWhatIsBehind ==
  ASSUME NEW g, Typed(g), NEW n \in Nodes(g), NEW m \in Behind(g, n), Origins(g, m) # {}
  PROVE  Origins(g, n) # {}
<1>1. HandsBack(g, Behind(g, n)) /\ m \in Nodes(g)
  BY BehindIsLeast
<1>2. Behind(g, m) \subseteq Behind(g, n)
  BY <1>1, BehindIsLeast
<1> QED
  BY <1>2, OriginsAreBehind

LEMMA PhiKeepsAssigns ==
  ASSUME NEW g, Sound(g), NEW v \in OfKind(g, "var"), Sources(g, v) # {}, NEW s
  PROVE  Assigns(WithPhi(g, v, s))
<1> DEFINE h == WithPhi(g, v, s)
           operand == OperandFor(g, v)
           O == OperandsFor(g, v)
           New == NewFor(g, v)
           phi == PhiOf(g)
           asg == PhiAsgOf(g)
<1>1. EdgesWithPhi(g, h, v)
  BY WithPhiEdges DEF Sound
<1>2. /\ Nodes(h) = Nodes(g) \cup New
      /\ \A n \in Nodes(g) : h.kind[n] = g.kind[n]
      /\ h.kind[phi] = "phi" /\ h.kind[asg] = "asg"
      /\ \A n \in O : h.kind[n] = "var"
  <2>1. New = {phi, asg} \cup O
    BY DEF NewFor
  <2> HIDE DEF New
  <2> QED
    BY <2>1, WithPhiIs DEF Sound
<1>3. /\ New \cap Nodes(g) = {} /\ New = {phi, asg} \cup O
      /\ phi # asg /\ phi \notin O /\ asg \notin O
      /\ \A a \in Sources(g, v) : operand[a] \in O
  BY NewNodesAreNew DEF Sound, NewFor
<1>4. \A a, b \in Sources(g, v) : operand[a] = operand[b] => a = b
  BY NewNodes DEF Sound
<1>5. v \in Nodes(g) /\ g.kind[v] = "var"
  BY DEF OfKind
<1>6. /\ \A e \in g.edges : e[1] \in Nodes(g) /\ e[2] \in Nodes(g)
      /\ \A e \in g.edges : e[2] = v => e[1] \in Sources(g, v)
  BY DEF Sound, Typed, Sources, Preds
<1>7. \A a \in Sources(g, v) : a \in OfKind(g, "asg") /\ a \in Nodes(g) /\ g.kind[a] = "asg"
  BY DEF Sound, Assigns, OfKind
<1>8. /\ \A e \in g.edges : g.kind[e[1]] = "asg" => g.kind[e[2]] = "var"
      /\ \A w \in OfKind(g, "var") : \A e \in g.edges : e[2] = w => e[1] \in OfKind(g, "asg")
      /\ \A d, e \in g.edges : d[1] = e[1] /\ d[1] \in OfKind(g, "asg") => d = e
  BY DEF Sound, Assigns, Sources, Preds, OutEdges
<1>9. /\ \A e \in g.edges : e[2] # v => e \in h.edges
      /\ \E e \in h.edges : e[1] = phi /\ e[2] = asg
      /\ \A e \in h.edges :
           \/ e \in g.edges /\ e[2] # v
           \/ e = <<phi, asg, 0>> /\ e[1] = phi /\ e[2] = asg
           \/ e = <<asg, v, 0>> /\ e[1] = asg /\ e[2] = v
           \/ \E d \in g.edges : /\ d[2] = v /\ d[1] \in Sources(g, v)
                                 /\ e = <<d[1], operand[d[1]], d[3]>>
                                 /\ e[1] = d[1] /\ e[2] = operand[d[1]]
           \/ \E a \in Sources(g, v) : e[1] = operand[a] /\ e[2] = phi
  <2> HIDE DEF h
  <2> QED
    BY <1>1 DEF EdgesWithPhi
<1> HIDE DEF h, operand, O, New, phi, asg
<1>10. ASSUME NEW e \in h.edges, h.kind[e[1]] = "asg" PROVE h.kind[e[2]] = "var"
  <2>1. CASE e \in g.edges /\ e[2] # v
    BY <1>2, <1>6, <1>8, <1>10, <2>1
  <2>2. CASE e[1] = asg /\ e[2] = v
    BY <1>2, <1>5, <2>2
  <2>3. CASE \E d \in g.edges : d[1] \in Sources(g, v) /\ e[1] = d[1] /\ e[2] = operand[d[1]]
    BY <1>2, <1>3, <2>3
  <2>4. CASE e[1] = phi
    BY <1>2, <1>10, <2>4
  <2>5. CASE \E a \in Sources(g, v) : e[1] = operand[a]
    BY <1>2, <1>3, <1>10, <2>5
  <2> QED
    BY <1>9, <2>1, <2>2, <2>3, <2>4, <2>5
<1>11. ASSUME NEW a \in OfKind(h, "asg") PROVE \E e \in h.edges : InEdges(h, a) = {e}
  <2>1. a = asg \/ (a \in Nodes(g) /\ a \in OfKind(g, "asg"))
    BY <1>2, <1>3 DEF OfKind
  <2>2. CASE a = asg
    <3>1. PICK e \in h.edges : e[1] = phi /\ e[2] = asg
      BY <1>9
    <3>2. ASSUME NEW d \in h.edges, d[2] = asg PROVE d = <<phi, asg, 0>>
      BY <1>3, <1>5, <1>6, <1>9, <3>2
    <3>3. e = <<phi, asg, 0>> /\ \A d \in h.edges : d[2] = asg => d = e
      BY <3>1, <3>2
    <3> QED
      BY <2>2, <3>1, <3>3 DEF InEdges
  <2>3. CASE a \in Nodes(g) /\ a \in OfKind(g, "asg")
    <3>1. PICK e \in g.edges : InEdges(g, a) = {e}
      BY <2>3 DEF Sound, Assigns
    <3>2. e[2] = a /\ \A d \in g.edges : d[2] = a => d = e
      BY <3>1 DEF InEdges
    <3>3. a # v
      BY <1>5, <2>3 DEF OfKind
    <3>4. e \in h.edges
      BY <1>9, <3>2, <3>3
    <3>5. ASSUME NEW d \in h.edges, d[2] = a PROVE d = e
      <4>1. d \in g.edges
        BY <1>3, <1>9, <2>3, <3>3, <3>5
      <4> QED
        BY <3>2, <3>5, <4>1
    <3> QED
      BY <3>2, <3>4, <3>5 DEF InEdges
  <2> QED
    BY <2>1, <2>2, <2>3
<1>12. ASSUME NEW a \in OfKind(h, "asg"), NEW d \in OutEdges(h, a), NEW e \in OutEdges(h, a) PROVE d = e
  <2>0. d \in h.edges /\ e \in h.edges /\ d[1] = a /\ e[1] = a
    BY DEF OutEdges
  <2>1. a = asg \/ (a \in Nodes(g) /\ a \in OfKind(g, "asg"))
    BY <1>2, <1>3 DEF OfKind
  <2>2. CASE a = asg
    <3>1. ASSUME NEW c \in h.edges, c[1] = asg PROVE c = <<asg, v, 0>>
      BY <1>3, <1>6, <1>7, <1>9, <3>1
    <3> QED
      BY <2>0, <2>2, <3>1
  <2>3. CASE a \in Nodes(g) /\ a \in OfKind(g, "asg")
    <3>1. ASSUME NEW c \in h.edges, c[1] = a
          PROVE  \/ c \in g.edges /\ c[2] # v
                 \/ \E b \in g.edges : b[2] = v /\ b[1] = a /\ c = <<b[1], operand[b[1]], b[3]>>
      BY <1>3, <1>9, <2>3, <3>1
    <3>2. \A b, c \in g.edges : b[1] = a /\ c[1] = a => b = c
      BY <1>8, <2>3
    <3> QED
      BY <2>0, <3>1, <3>2
  <2> QED
    BY <2>1, <2>2, <2>3
<1>13. ASSUME NEW w \in OfKind(h, "var"), NEW e \in h.edges, e[2] = w PROVE e[1] \in OfKind(h, "asg")
  <2>1. CASE e \in g.edges /\ e[2] # v
    <3>1. w \in OfKind(g, "var")
      BY <1>2, <1>6, <1>13, <2>1 DEF OfKind
    <3> QED
      BY <1>2, <1>8, <1>13, <2>1, <3>1 DEF OfKind
  <2>2. CASE e[1] = asg
    BY <1>2, <1>3, <2>2 DEF OfKind
  <2>3. CASE \E d \in g.edges : d[1] \in Sources(g, v) /\ e[1] = d[1]
    BY <1>2, <1>7, <2>3 DEF OfKind
  <2>4. e[2] # phi /\ e[2] # asg
    BY <1>2, <1>13 DEF OfKind
  <2> QED
    BY <1>9, <2>1, <2>2, <2>3, <2>4
<1>14. \A w \in OfKind(h, "var") : Sources(h, w) \subseteq OfKind(h, "asg")
  BY <1>13 DEF Sources, Preds
<1> QED
  BY <1>10, <1>11, <1>12, <1>14 DEF Assigns, h

LEMMA PhiKeepsSound ==
  ASSUME NEW g, Sound(g), NEW v \in OfKind(g, "var"), Sources(g, v) # {}, NEW s
  PROVE  Sound(WithPhi(g, v, s))
<1> DEFINE h == WithPhi(g, v, s)
           operand == OperandFor(g, v)
           O == OperandsFor(g, v)
           New == NewFor(g, v)
           phi == PhiOf(g)
           asg == PhiAsgOf(g)
<1>1. EdgesWithPhi(g, h, v) /\ Typed(h) /\ Assigns(h)
  BY WithPhiEdges, PhiIsTyped, PhiKeepsAssigns DEF Sound
<1>2. Carriers(h) = Carriers(g) \cup New
  BY PhiCarriers
<1>3. /\ New = {phi, asg} \cup O
      /\ \A a \in Sources(g, v) : operand[a] \in O
      /\ \A o \in O : \E a \in Sources(g, v) : operand[a] = o
  BY NewNodesAreNew DEF Sound, NewFor
<1>4. Carriers(g) \subseteq Nodes(g) /\ Carriers(h) \subseteq Nodes(h)
  BY DEF Carriers, OfKind
<1>5. \A m \in Nodes(g) : Origins(h, m) = Origins(g, m)
  BY PhiOrigins
<1>6. \A c \in Carriers(g) : Origins(h, c) # {}
  BY <1>4, <1>5 DEF Sound, Grounded
<1>7. \A a \in Sources(g, v) : a \in Carriers(g) /\ \E e \in g.edges : e[1] = a /\ e[2] = v
  BY DEF Sound, Assigns, Carriers, Sources, Preds
<1>8. /\ \A e \in g.edges : e[2] = v => \E d \in h.edges : d[1] = e[1] /\ d[2] = operand[e[1]]
      /\ \E e \in h.edges : e[1] = phi /\ e[2] = asg
      /\ \A a \in Sources(g, v) : \E e \in h.edges : e[1] = operand[a] /\ e[2] = phi
  <2> HIDE DEF h
  <2> QED
    BY <1>1 DEF EdgesWithPhi
<1> HIDE DEF h, operand, O, New, phi, asg
<1>9. ASSUME NEW c \in Carriers(h), NEW e \in h.edges, e[2] = c, Origins(h, e[1]) # {}
      PROVE  Origins(h, c) # {}
  <2>1. c \in Behind(h, c) /\ HandsBack(h, Behind(h, c)) /\ c \in Nodes(h)
    BY <1>1, <1>4, BehindIsLeast
  <2>2. e[1] \in Behind(h, c)
    BY <1>9, <2>1 DEF HandsBack
  <2> QED
    BY <1>1, <1>9, <2>1, <2>2, BehindWhatIsBehind
<1>10. ASSUME NEW a \in Sources(g, v) PROVE Origins(h, operand[a]) # {}
  <2>1. operand[a] \in Carriers(h) /\ Origins(h, a) # {}
    BY <1>2, <1>3, <1>6, <1>7
  <2>2. \E d \in h.edges : d[1] = a /\ d[2] = operand[a]
    BY <1>7, <1>8
  <2> QED
    BY <1>9, <2>1, <2>2
<1>11. Origins(h, phi) # {}
  <2>1. PICK a \in Sources(g, v) : TRUE
    OBVIOUS
  <2>2. phi \in Carriers(h)
    BY <1>2, <1>3
  <2> QED
    BY <1>8, <1>9, <1>10, <2>1, <2>2
<1>12. Origins(h, asg) # {}
  <2>1. asg \in Carriers(h)
    BY <1>2, <1>3
  <2> QED
    BY <1>8, <1>9, <1>11, <2>1
<1>13. Grounded(h)
  BY <1>2, <1>3, <1>6, <1>10, <1>11, <1>12 DEF Grounded
<1> QED
  BY <1>1, <1>13 DEF Sound, h

LEMMA PhiExtends ==
  ASSUME NEW g, Sound(g), NEW v \in OfKind(g, "var"), Sources(g, v) # {}, NEW s
  PROVE  /\ WithPhi(g, v, s).error = g.error
         /\ Nodes(g) \subseteq Nodes(WithPhi(g, v, s))
         /\ \A n \in Nodes(g) : WithPhi(g, v, s).kind[n] = g.kind[n]
BY WithPhiIs DEF Sound

\* No step has failed on the graph so far.
Fine(g) == g.error = ""

\* What creating phi nodes leaves of the graph m that it begins with.
Grown(m, h) ==
  /\ Sound(h) /\ Uses(h) = Uses(m)
  /\ Nodes(m) \subseteq Nodes(h)
  /\ \A n \in Nodes(m) : h.kind[n] = m.kind[n]

LEMMA CreatingAPhiKeeps ==
  ASSUME NEW m, NEW g, NEW v \in OfKind(m, "var"), NEW blockOf, NEW cfg, NEW stateOf,
         Fine(g) => Grown(m, g),
         Fine(CreatePhi(g, v, blockOf, cfg, stateOf))
  PROVE  Grown(m, CreatePhi(g, v, blockOf, cfg, stateOf))
<1> DEFINE h == CreatePhi(g, v, blockOf, cfg, stateOf)
<1>1. CASE h = g
  BY <1>1
<1>2. CASE h = Fail(g, "merge points") /\ Fine(g)
  <2>1. h.error = "merge points"
    BY <1>2 DEF Fail, Grown, Sound, Typed
  <2>2. ~Fine(h)
    BY <2>1 DEF Fine
  <2> QED
    BY <2>2
<1>3. CASE Fine(g) /\ IsCandidate(g, v, blockOf) /\ \E s : h = WithPhi(g, v, s)
  <2>1. PICK s : h = WithPhi(g, v, s)
    BY <1>3
  <2>2. Grown(m, g) /\ v \in OfKind(g, "var")
    BY <1>3 DEF Grown, OfKind
  <2>3. Sources(g, v) # {}
    BY <1>3, FS_EmptySet DEF IsCandidate
  <2> HIDE DEF h
  <2>4. Sound(h) /\ Uses(h) = Uses(g)
    BY <2>1, <2>2, <2>3, PhiKeepsSound, PhiKeepsUsesOf DEF Grown
  <2>5. Nodes(g) \subseteq Nodes(h) /\ \A n \in Nodes(g) : h.kind[n] = g.kind[n]
    BY <2>1, <2>2, <2>3, PhiExtends DEF Grown
  <2> QED
    BY <2>2, <2>4, <2>5 DEF Grown, h
<1>4. \/ h = g
      \/ h = Fail(g, "merge points") /\ Fine(g)
      \/ Fine(g) /\ IsCandidate(g, v, blockOf) /\ \E s : h = WithPhi(g, v, s)
  BY DEF CreatePhi, Fine
<1> QED
  BY <1>1, <1>2, <1>3, <1>4

LEMMA CreatingPhisKeeps ==
  ASSUME NEW g, Sound(g), Fine(g), NEW blockOf, NEW cfg, NEW stateOf,
         Fine(CreatePhiNodes(g, blockOf, cfg, stateOf))
  PROVE  /\ Sound(CreatePhiNodes(g, blockOf, cfg, stateOf))
         /\ Uses(CreatePhiNodes(g, blockOf, cfg, stateOf)) = Uses(g)
<1> DEFINE m == MergeSameValues(g)
           q == InOrder(OfKind(m, "var"))
           n == Len(q)
           F == CHOOSE f : f = [i \in 0..n |-> IF i = 0 THEN m ELSE CreatePhi(f[i - 1], q[i], blockOf, cfg, stateOf)]
<1>1. Sound(m) /\ Uses(m) = Uses(g) /\ Fine(m)
  BY MergingAllKeeps DEF Fine
<1>2. CreatePhiNodes(g, blockOf, cfg, stateOf) = Checked(F[n], TRUE)
  BY DEF CreatePhiNodes
<1> HIDE DEF m
<1>3. /\ n \in Nat
      /\ \A i \in 1..n : q[i] \in OfKind(m, "var")
  <2>1. OfKind(m, "var") \in SUBSET Nat /\ IsFiniteSet(OfKind(m, "var"))
    BY <1>1, FS_Subset DEF OfKind, Sound, Typed
  <2> QED
    BY <2>1, InOrderEnumerates
<1> HIDE DEF n, q
<1>4. F = [i \in 0..n |-> IF i = 0 THEN m ELSE CreatePhi(F[i - 1], q[i], blockOf, cfg, stateOf)]
  <2> DEFINE Is(f, k) == f = [i \in 0..k |-> IF i = 0 THEN m ELSE CreatePhi(f[i - 1], q[i], blockOf, cfg, stateOf)]
             T == {k \in Nat : \E f : Is(f, k)}
  <2>1. 0 \in T
    <3>1. Is([i \in 0..0 |-> m], 0)
      OBVIOUS
    <3> QED
      BY <3>1
  <2>2. ASSUME NEW k \in T PROVE k + 1 \in T
    <3>1. PICK f : Is(f, k)
      OBVIOUS
    <3> DEFINE h == [i \in 0..(k + 1) |-> IF i = k + 1 THEN CreatePhi(f[k], q[k + 1], blockOf, cfg, stateOf) ELSE f[i]]
    <3>2. ASSUME NEW i \in 0..(k + 1)
          PROVE  h[i] = IF i = 0 THEN m ELSE CreatePhi(h[i - 1], q[i], blockOf, cfg, stateOf)
      <4>1. CASE i = k + 1
        BY <4>1
      <4>2. CASE i \in 0..k /\ i # 0
        <5>1. f[i] = CreatePhi(f[i - 1], q[i], blockOf, cfg, stateOf)
          BY <3>1, <4>2
        <5>2. i - 1 \in 0..(k + 1) /\ i - 1 # k + 1 /\ i # k + 1
          BY <4>2
        <5> QED
          BY <4>2, <5>1, <5>2
      <4>3. CASE i = 0
        BY <3>1, <4>3
      <4> QED
        BY <4>1, <4>2, <4>3
    <3>3. Is(h, k + 1)
      <4> HIDE DEF h
      <4>1. h = [i \in 0..(k + 1) |-> h[i]]
        BY DEF h
      <4> QED
        BY <3>2, <4>1
    <3> HIDE DEF h, Is
    <3> QED
      BY <3>3
  <2>3. T = Nat
    <3> HIDE DEF Is
    <3> QED
      BY <2>1, <2>2, Induction
  <2> QED
    BY <1>3, <2>3
<1> HIDE DEF F
<1> DEFINE J(h) == Fine(h) => Grown(m, h)
           T == {k \in Nat : k <= n => J(F[k])}
<1>5. 0 \in T
  BY <1>1, <1>3, <1>4 DEF Grown
<1>6. ASSUME NEW k \in T PROVE k + 1 \in T
  <2> SUFFICES ASSUME k + 1 <= n PROVE J(F[k + 1])
    OBVIOUS
  <2>1. F[k + 1] = CreatePhi(F[k], q[k + 1], blockOf, cfg, stateOf)
    BY <1>3, <1>4
  <2>2. J(F[k]) /\ q[k + 1] \in OfKind(m, "var")
    BY <1>3
  <2> QED
    BY <2>1, <2>2, CreatingAPhiKeeps
<1>7. n \in T
  <2> HIDE DEF J
  <2> QED
    BY <1>3, <1>5, <1>6, Induction
<1>8. J(F[n])
  BY <1>3, <1>7
<1>9. Checked(F[n], TRUE) = F[n] /\ Fine(F[n])
  <2>1. CASE ~Fine(F[n])
    BY <1>2, <2>1 DEF Checked, Fine
  <2>2. CASE Fine(F[n])
    <3>1. Fail(F[n], "invariant").error = "invariant"
      BY <1>8, <2>2 DEF Fail, Grown, Sound, Typed
    <3>2. ~Fine(Fail(F[n], "invariant"))
      BY <3>1 DEF Fine
    <3> QED
      BY <1>2, <2>2, <3>2 DEF Checked, Fine
  <2> QED
    BY <2>1, <2>2
<1> QED
  BY <1>1, <1>2, <1>8, <1>9 DEF Grown

----------------------------------------------------------------------------
(* The stage.                                                              *)

LEMMA LinkedAndCheckedIsSound ==
  ASSUME NEW g, Linked(g), WellFormed(g)
  PROVE  Sound(g)
<1>1. Typed(g) /\ Grounded(g)
  BY DEF Linked, Typed, Grounded
<1>2. ASSUME NEW a \in OfKind(g, "asg") PROVE \E e \in g.edges : InEdges(g, a) = {e}
  <2>1. IsFiniteSet(InEdges(g, a)) /\ Cardinality(InEdges(g, a)) = 1
    BY <1>1, FS_Subset DEF Typed, InEdges, WellFormed, AssignmentSound
  <2>2. PICK e : InEdges(g, a) = {e}
    BY <2>1, FS_Singleton
  <2>3. e \in g.edges
    BY <2>2 DEF InEdges
  <2> QED
    BY <2>2, <2>3
<1>3. ASSUME NEW a \in OfKind(g, "asg"), NEW d \in OutEdges(g, a), NEW e \in OutEdges(g, a) PROVE d = e
  <2>1. IsFiniteSet(OutEdges(g, a)) /\ Cardinality(OutEdges(g, a)) <= 1
    BY <1>1, FS_Subset DEF Typed, OutEdges, WellFormed, AssignmentSound
  <2>2. Cardinality(OutEdges(g, a)) \in Nat /\ Cardinality(OutEdges(g, a)) # 0
    BY <2>1, FS_CardinalityType, FS_EmptySet
  <2>3. Cardinality(OutEdges(g, a)) = 1
    BY <2>1, <2>2
  <2>4. \E x : OutEdges(g, a) = {x}
    BY <2>1, <2>3, FS_Singleton
  <2> QED
    BY <2>4
<1>4. Assigns(g)
  BY <1>2, <1>3 DEF Assigns, Linked, WellFormed
<1> QED
  BY <1>1, <1>4 DEF Sound

\* What is known of the graph until the phi nodes are created.
StageInv ==
  /\ prog \in Programs
  /\ stage = "associated" => graph = prog.graph
  /\ stage = "classified" => graph.error = "" /\ graph = ClassifyMemoryNodes(prog.graph)

LEMMA ClassifiedIsSound ==
  ASSUME StageInv, stage = "classified"
  PROVE  Sound(graph)
<1>1. PICK p \in Programs : graph = ClassifyMemoryNodes(p.graph) /\ graph.error = ""
  BY DEF StageInv
<1>2. Linked(graph)
  BY <1>1, ClassifiedAssumption
<1>3. PICK g1 : graph = Checked(g1, VariablesAreUnionsIn(g1))
  BY <1>1 DEF ClassifyMemoryNodes
<1>4. CASE g1.error = "" /\ ~(WellFormed(g1) /\ VariablesAreUnionsIn(g1))
  <2>1. graph = [g1 EXCEPT !.error = "invariant"]
    BY <1>3, <1>4 DEF Checked, Fail
  <2>2. DOMAIN graph = DOMAIN g1
    BY <2>1
  <2>3. "error" \in DOMAIN g1
    BY <1>2, <2>2 DEF Linked
  <2> QED
    BY <1>1, <2>1, <2>3
<1>5. CASE ~(g1.error = "" /\ ~(WellFormed(g1) /\ VariablesAreUnionsIn(g1)))
  <2>1. graph = g1
    BY <1>3, <1>5 DEF Checked
  <2>2. WellFormed(graph)
    BY <1>1, <1>5, <2>1
  <2> QED
    BY <1>2, <2>2, LinkedAndCheckedIsSound
<1> QED
  BY <1>4, <1>5

LEMMA StageInvInductive ==
  /\ Init => StageInv
  /\ StageInv /\ [Next]_vars => StageInv'
<1>1. Init => StageInv
  BY DEF Init, StageInv
<1>2. ASSUME StageInv, [Next]_vars PROVE StageInv'
  <2>1. CASE Classify
    BY <1>2, <2>1 DEF StageInv, Classify, Enter
  <2>2. CASE CreatePhis
    BY <1>2, <2>2 DEF StageInv, CreatePhis, Enter
  <2>3. CASE UnshareAll
    BY <1>2, <2>3 DEF StageInv, UnshareAll, Enter
  <2>4. CASE AssociateBlocks
    BY <1>2, <2>4 DEF StageInv, AssociateBlocks, Enter
  <2>5. CASE CreateBranches
    BY <1>2, <2>5 DEF StageInv, CreateBranches, Enter
  <2>6. CASE GenerateMlir
    BY <1>2, <2>6 DEF StageInv, GenerateMlir
  <2>7. CASE NoPhiInput
    BY <1>2, <2>7 DEF StageInv, NoPhiInput, Enter
  <2>8. CASE RunState
    <3>1. prog' = prog /\ stage' \in {"running", "ended"}
      BY <2>8 DEF RunState
    <3> QED
      BY <1>2, <3>1 DEF StageInv
  <2>9. CASE UNCHANGED vars
    BY <1>2, <2>9 DEF StageInv, vars
  <2> QED
    BY <1>2, <2>1, <2>2, <2>3, <2>4, <2>5, <2>6, <2>7, <2>8, <2>9 DEF Next
<1> QED
  BY <1>1, <1>2

\* Creating phi nodes takes no value from an operand and gives it none: what
\* may reach each use after create_phi_nodes is what might have before.
THEOREM PhisKeepUses == Spec => UsesKept
<1>1. ASSUME StageInv, [Next]_vars, stage = "classified", stage' = "merged"
      PROVE  Uses(graph') = Uses(graph)
  <2>1. CreatePhis
    <3>1. ~UNCHANGED vars
      BY <1>1 DEF vars
    <3>2. ~Classify /\ ~UnshareAll /\ ~AssociateBlocks /\ ~CreateBranches /\ ~NoPhiInput
      BY <1>1 DEF Classify, UnshareAll, AssociateBlocks, CreateBranches, NoPhiInput
    <3>3. ~GenerateMlir /\ ~RunState
      BY <1>1 DEF GenerateMlir, RunState
    <3> QED
      BY <1>1, <3>1, <3>2, <3>3 DEF Next
  <2>2. PICK stateOf : Enter(CreatePhiNodes(graph, layout.blockOf, layout.cfg, stateOf), "merged")
    BY <2>1 DEF CreatePhis
  <2>3. /\ graph' = CreatePhiNodes(graph, layout.blockOf, layout.cfg, stateOf)
        /\ Fine(graph')
    BY <1>1, <2>2 DEF Enter, Fine
  <2>4. Sound(graph) /\ Fine(graph)
    BY <1>1, ClassifiedIsSound DEF StageInv, Fine
  <2> QED
    BY <2>3, <2>4, CreatingPhisKeeps
<1>2. Spec => []StageInv
  BY StageInvInductive, PTL DEF Spec
<1> QED
  BY <1>1, <1>2, PTL DEF Spec, UsesKept
=============================================================================
