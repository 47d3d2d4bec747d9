---------------------------- MODULE ScalarProofs ----------------------------
(***************************************************************************)
(* The graph of abs_scalar.c for every number of nodes: traversals stay on *)
(* allocated nodes and leave no flag behind, a node outside the graph of   *)
(* the root keeps its gradient, free releases each node once, and a        *)
(* backward pass leaves derivatives.                                       *)
(*                                                                         *)
(* Graphs, gradients and stacks are arguments of the operators and of the  *)
(* lemmas here; the invariant applies them to the variables.               *)
(***************************************************************************)
EXTENDS Scalar, FiniteSetTheorems, SequenceTheorems, WellFoundedInduction, TLAPS

\* The sigmoid of a number is a number.
SigmoidOK == \A x \in Int : Sigmoid(x) \in Int

LEMMA LessIsWellFounded == IsWellFoundedOn({p \in Nat \X Nat : p[1] < p[2]}, Nat)
BY NatLessThanWellFounded, Zenon DEF OpToRel

\* A set of numbers has a least element: the least counterexample stands in
\* for induction below.
LEMMA LeastNat ==
    ASSUME NEW S \in SUBSET Nat, S # {}
    PROVE  \E x \in S : \A y \in S : x <= y
<1> DEFINE Less == {p \in Nat \X Nat : p[1] < p[2]}
<1>1. IsWellFoundedOn(Less, Nat)
    BY LessIsWellFounded
<1>2. PICK x \in S : \A y \in S : ~(<<y, x>> \in Less)
    <2> HIDE DEF Less
    <2> QED
        BY <1>1, WFMin
<1>3. \A y \in S : ~(y < x)
    <2>1. TAKE y \in S
    <2>2. <<y, x>> \in Nat \X Nat /\ <<y, x>> \notin Less
        BY <1>2
    <2> QED
        BY <2>2
<1> QED
    BY <1>3

-----------------------------------------------------------------------------
(* Graphs of scalars, and the nodes a root stands on                        *)

Graph(P) ==
    /\ P \in [Nodes -> Nat \X Nat]
    /\ \A v \in Nodes : P[v][1] \in 0 .. (v - 1) /\ P[v][2] \in 0 .. (v - 1)

\* Reach of a given graph.
ReachIn(P, r) ==
    LET below[v \in 0 .. r] ==
          IF v = Null THEN {} ELSE {v} \cup below[P[v][1]] \cup below[P[v][2]]
    IN  below[r]

Closed(P, S) == \A u \in S : (P[u][1] = Null \/ P[u][1] \in S) /\ (P[u][2] = Null \/ P[u][2] \in S)

\* The same without recursion: what every closed set with the root contains.
Cone(P, v) ==
    IF v = Null THEN {}
    ELSE {w \in Nodes : \A S \in SUBSET Nodes : v \in S /\ Closed(P, S) => w \in S}

LEMMA ReachIsReachIn == \A r : Reach(r) = ReachIn(parents, r)
BY DEF Reach, ReachIn

LEMMA MaxNodesNat == MaxNodes \in Nat /\ Leaves \subseteq Int
BY ScalarAssumption, Zenon

LEMMA ParentsBelow ==
    ASSUME NEW P, Graph(P), NEW v \in Nodes
    PROVE  /\ v \in Nat /\ v > 0 /\ v <= MaxNodes
           /\ P[v][1] \in 0 .. (v - 1) /\ P[v][2] \in 0 .. (v - 1)
           /\ P[v][1] # Null => P[v][1] \in Nodes
           /\ P[v][2] # Null => P[v][2] \in Nodes
<1>1. v \in Nat /\ v > 0 /\ v <= MaxNodes
    BY MaxNodesNat DEF Nodes
<1>2. P[v][1] \in 0 .. (v - 1) /\ P[v][2] \in 0 .. (v - 1)
    BY DEF Graph
<1>3. \A a \in 0 .. (v - 1) : a # Null => a \in Nodes
    BY <1>1, MaxNodesNat DEF Nodes, Null
<1> QED
    BY <1>1, <1>2, <1>3

LEMMA ConeFacts ==
    ASSUME NEW P, Graph(P), NEW v \in Nodes
    PROVE  /\ v \in Cone(P, v) /\ Cone(P, v) \subseteq 1 .. v /\ Cone(P, v) \subseteq Nodes
           /\ Closed(P, Cone(P, v))
           /\ \A S \in SUBSET Nodes : v \in S /\ Closed(P, S) => Cone(P, v) \subseteq S
<1>1. v # Null /\ v \in Nat /\ v <= MaxNodes
    BY ParentsBelow DEF Null
<1>2. Cone(P, v) = {w \in Nodes : \A S \in SUBSET Nodes : v \in S /\ Closed(P, S) => w \in S}
    BY <1>1 DEF Cone
<1>3. v \in Cone(P, v) /\ Cone(P, v) \subseteq Nodes
    BY <1>2
<1>4. \A S \in SUBSET Nodes : v \in S /\ Closed(P, S) => Cone(P, v) \subseteq S
    BY <1>2
<1>5. Cone(P, v) \subseteq 1 .. v
    <2>1. 1 .. v \in SUBSET Nodes /\ v \in 1 .. v
        BY <1>1, MaxNodesNat DEF Nodes, Null
    <2>2. Closed(P, 1 .. v)
        <3>1. SUFFICES ASSUME NEW u \in 1 .. v
                       PROVE  (P[u][1] = Null \/ P[u][1] \in 1 .. v) /\ (P[u][2] = Null \/ P[u][2] \in 1 .. v)
            BY DEF Closed
        <3>2. u \in Nodes
            BY <2>1
        <3> QED
            BY <1>1, <3>2, ParentsBelow DEF Null
    <2> QED
        BY <1>4, <2>1, <2>2
<1>6. Closed(P, Cone(P, v))
    <2>1. SUFFICES ASSUME NEW u \in Cone(P, v), NEW k \in {1, 2}, P[u][k] # Null
                   PROVE  P[u][k] \in Cone(P, v)
        BY DEF Closed
    <2>2. u \in Nodes
        BY <1>3
    <2>3. P[u][k] \in Nodes
        BY <2>1, <2>2, ParentsBelow
    <2>4. ASSUME NEW S \in SUBSET Nodes, v \in S, Closed(P, S)
          PROVE  P[u][k] \in S
        BY <1>2, <2>1, <2>4 DEF Closed
    <2> QED
        BY <1>2, <2>3, <2>4
<1> QED
    BY <1>3, <1>4, <1>5, <1>6

LEMMA ConeStep ==
    ASSUME NEW P, Graph(P), NEW v \in Nodes
    PROVE  Cone(P, v) = {v} \cup Cone(P, P[v][1]) \cup Cone(P, P[v][2])
<1> DEFINE a == P[v][1]
           b == P[v][2]
           T == {v} \cup Cone(P, a) \cup Cone(P, b)
<1>1. /\ a # Null => a \in Nodes
      /\ b # Null => b \in Nodes
    BY ParentsBelow
<1>2. Cone(P, Null) = {}
    BY DEF Cone
<1>3. \A w \in {a, b} : Cone(P, w) \subseteq Nodes /\ Closed(P, Cone(P, w)) /\ (w # Null => w \in Cone(P, w))
    <2>1. SUFFICES ASSUME NEW w \in {a, b}
                   PROVE  Cone(P, w) \subseteq Nodes /\ Closed(P, Cone(P, w)) /\ (w # Null => w \in Cone(P, w))
        OBVIOUS
    <2>2. CASE w = Null
        BY <1>2, <2>2 DEF Closed
    <2>3. CASE w # Null
        <3>1. w \in Nodes
            BY <1>1, <2>3
        <3> QED
            BY <3>1, ConeFacts
    <2> QED
        BY <2>2, <2>3
<1>4. T \in SUBSET Nodes /\ v \in T
    BY <1>3
<1>5. Closed(P, T)
    <2>1. SUFFICES ASSUME NEW u \in T, NEW k \in {1, 2}, P[u][k] # Null
                   PROVE  P[u][k] \in T
        BY DEF Closed
    <2>2. CASE u = v
        BY <1>3, <2>1, <2>2
    <2>3. CASE u \in Cone(P, a)
        BY <1>3, <2>1, <2>3 DEF Closed
    <2>4. CASE u \in Cone(P, b)
        BY <1>3, <2>1, <2>4 DEF Closed
    <2> QED
        BY <2>2, <2>3, <2>4
<1>6. Cone(P, v) \subseteq T
    BY <1>4, <1>5, ConeFacts
<1>7. \A w \in {a, b} : Cone(P, w) \subseteq Cone(P, v)
    <2>1. SUFFICES ASSUME NEW w \in {a, b}, w # Null
                   PROVE  Cone(P, w) \subseteq Cone(P, v)
        BY <1>2
    <2>2. w \in Nodes
        BY <1>1, <2>1
    <2>3. w \in Cone(P, v) /\ Closed(P, Cone(P, v)) /\ Cone(P, v) \in SUBSET Nodes
        BY <2>1, ConeFacts DEF Closed
    <2> QED
        BY <2>2, <2>3, ConeFacts
<1>8. v \in Cone(P, v)
    BY ConeFacts
<1> HIDE DEF a, b
<1> QED
    BY <1>6, <1>7, <1>8 DEF a, b

\* The recursion of Reach has one solution, the cones.
LEMMA ReachIsCone ==
    ASSUME NEW P, Graph(P), NEW r \in 0 .. MaxNodes
    PROVE  ReachIn(P, r) = Cone(P, r)
<1> DEFINE Rec(f) == f = [v \in 0 .. r |-> IF v = Null THEN {} ELSE {v} \cup f[P[v][1]] \cup f[P[v][2]]]
           g == [v \in 0 .. r |-> Cone(P, v)]
           f == CHOOSE h : Rec(h)
<1>0. r \in Nat /\ \A v \in 0 .. r : v # Null => v \in Nodes /\ P[v][1] \in 0 .. r /\ P[v][2] \in 0 .. r
                                                       /\ P[v][1] \in Nat /\ P[v][2] \in Nat
                                                       /\ P[v][1] < v /\ P[v][2] < v
    <2>1. r \in Nat /\ r <= MaxNodes
        BY MaxNodesNat
    <2>2. ASSUME NEW v \in 0 .. r, v # Null
          PROVE  v \in Nodes /\ P[v][1] \in 0 .. r /\ P[v][2] \in 0 .. r
                 /\ P[v][1] \in Nat /\ P[v][2] \in Nat
                 /\ P[v][1] < v /\ P[v][2] < v
        <3>1. v \in Nodes
            BY <2>1, <2>2, MaxNodesNat DEF Nodes, Null
        <3> QED
            BY <2>1, <3>1, ParentsBelow
    <2> QED
        BY <2>1, <2>2
<1>1. Rec(g)
    <2>1. ASSUME NEW v \in 0 .. r
          PROVE  Cone(P, v) = IF v = Null THEN {} ELSE {v} \cup g[P[v][1]] \cup g[P[v][2]]
        <3>1. CASE v = Null
            BY <3>1 DEF Cone
        <3>2. CASE v # Null
            BY <3>2, <1>0, ConeStep
        <3> QED
            BY <3>1, <3>2
    <2> QED
        BY <2>1
<1>2. Rec(f)
    <2> HIDE DEF Rec, g
    <2> QED
        BY <1>1
<1>3. ReachIn(P, r) = f[r]
    BY DEF ReachIn
<1> HIDE DEF f
<1>4. ASSUME NEW v \in 0 .. r PROVE f[v] = IF v = Null THEN {} ELSE {v} \cup f[P[v][1]] \cup f[P[v][2]]
    BY <1>2
<1> DEFINE Bad == {v \in 0 .. r : f[v] # Cone(P, v)}
<1>5. Bad = {}
    <2>1. SUFFICES ASSUME Bad # {} PROVE FALSE
        OBVIOUS
    <2>2. PICK v \in Bad : \A w \in Bad : v <= w
        <3>1. Bad \in SUBSET Nat
            BY <1>0
        <3> HIDE DEF Bad
        <3> QED
            BY <2>1, <3>1, LeastNat
    <2>3. v \in 0 .. r /\ f[v] # Cone(P, v)
        BY <2>2
    <2>4. v # Null
        BY <2>3, <1>4 DEF Cone
    <2>5. /\ v \in Nodes /\ P[v][1] \in 0 .. r /\ P[v][2] \in 0 .. r
          /\ P[v][1] \notin Bad /\ P[v][2] \notin Bad
        <3>1. /\ v \in Nodes /\ P[v][1] \in 0 .. r /\ P[v][2] \in 0 .. r
              /\ P[v][1] \in Nat /\ P[v][2] \in Nat /\ v \in Nat
              /\ P[v][1] < v /\ P[v][2] < v
            BY <2>3, <2>4, <1>0
        <3>2. ~(v <= P[v][1]) /\ ~(v <= P[v][2])
            BY <3>1
        <3> HIDE DEF Bad
        <3> QED
            BY <3>1, <3>2, <2>2
    <2>6. f[P[v][1]] = Cone(P, P[v][1]) /\ f[P[v][2]] = Cone(P, P[v][2])
        BY <2>5
    <2> QED
        BY <2>3, <2>4, <2>5, <2>6, <1>4, ConeStep
<1> QED
    BY <1>0, <1>3, <1>5

LEMMA ReachFacts ==
    ASSUME NEW P, Graph(P), NEW r \in Nodes
    PROVE  /\ r \in ReachIn(P, r) /\ ReachIn(P, r) \subseteq 1 .. r /\ ReachIn(P, r) \subseteq Nodes
           /\ Closed(P, ReachIn(P, r))
           /\ \A S \in SUBSET Nodes : r \in S /\ Closed(P, S) => ReachIn(P, r) \subseteq S
           /\ ReachIn(P, r) = {r} \cup ReachIn(P, P[r][1]) \cup ReachIn(P, P[r][2])
           /\ \A v \in ReachIn(P, r) : v \in Nodes /\ v <= r /\ ReachIn(P, v) \subseteq ReachIn(P, r)
<1>1. r \in Nat /\ \A v \in 0 .. r : v \in 0 .. MaxNodes
    BY MaxNodesNat DEF Nodes
<1>2. r \in 0 .. r /\ P[r][1] \in 0 .. r /\ P[r][2] \in 0 .. r
    BY <1>1, ParentsBelow
<1>3. \A v \in 0 .. r : ReachIn(P, v) = Cone(P, v)
    BY <1>1, ReachIsCone
<1>4. ReachIn(P, r) = {r} \cup ReachIn(P, P[r][1]) \cup ReachIn(P, P[r][2])
    BY <1>2, <1>3, ConeStep
<1>5. /\ r \in ReachIn(P, r) /\ ReachIn(P, r) \subseteq 1 .. r /\ ReachIn(P, r) \subseteq Nodes
      /\ Closed(P, ReachIn(P, r))
      /\ \A S \in SUBSET Nodes : r \in S /\ Closed(P, S) => ReachIn(P, r) \subseteq S
    BY <1>2, <1>3, ConeFacts
<1>6. ASSUME NEW v \in ReachIn(P, r)
      PROVE  v \in Nodes /\ v <= r /\ ReachIn(P, v) \subseteq ReachIn(P, r)
    <2>1. v \in Nodes /\ v \in 1 .. r /\ v \in 0 .. r
        BY <1>1, <1>5
    <2>2. ReachIn(P, v) = Cone(P, v)
        BY <1>3, <2>1
    <2> QED
        BY <1>1, <1>5, <2>1, <2>2, ConeFacts
<1> QED
    BY <1>4, <1>5, <1>6

LEMMA ReachNull == ASSUME NEW P, Graph(P) PROVE ReachIn(P, Null) = {}
<1>1. Null \in 0 .. MaxNodes
    BY MaxNodesNat DEF Null
<1> QED
    BY <1>1, ReachIsCone DEF Cone

\* Nodes above the root do not matter.
LEMMA ReachBelow ==
    ASSUME NEW P, NEW Q, Graph(P), Graph(Q), NEW r \in 0 .. MaxNodes,
           \A v \in 1 .. r : P[v] = Q[v]
    PROVE  ReachIn(P, r) = ReachIn(Q, r)
<1>1. CASE r = Null
    BY <1>1, ReachNull
<1>2. CASE r # Null
    <2>1. r \in Nodes
        BY <1>2, MaxNodesNat DEF Nodes, Null
    <2>2. ASSUME NEW A, NEW B, Graph(A), Graph(B), \A v \in 1 .. r : A[v] = B[v]
          PROVE  ReachIn(A, r) \subseteq ReachIn(B, r)
        <3>1. /\ r \in ReachIn(B, r) /\ ReachIn(B, r) \subseteq 1 .. r /\ ReachIn(B, r) \in SUBSET Nodes
              /\ Closed(B, ReachIn(B, r))
            BY <2>1, <2>2, ReachFacts
        <3>2. Closed(A, ReachIn(B, r))
            BY <2>2, <3>1 DEF Closed
        <3> QED
            BY <2>1, <2>2, <3>1, <3>2, ReachFacts
    <2> QED
        BY <2>2
<1> QED
    BY <1>1, <1>2

-----------------------------------------------------------------------------
(* Derivatives                                                              *)

Ops == {"leaf", "add", "mul", "relu", "sigmoid"}

\* The local derivatives, and the derivative of v from those of its parents.
LocalIn(P, O, V, v) ==
    LET a == P[v][1]  b == P[v][2]
    IN  CASE O[v] = "add"     -> <<1, 1>>
          [] O[v] = "mul"     -> <<V[b], V[a]>>
          [] O[v] = "relu"    -> <<IF V[v] > 0 THEN 1 ELSE 0, 0>>
          [] O[v] = "sigmoid" -> <<V[v] * (1 - V[v]), 0>>
          [] OTHER             -> <<0, 0>>

DerIn(P, O, V, r, x) ==
    LET d[v \in 0 .. r] ==
          LET a == P[v][1]  b == P[v][2]
          IN  IF v = x THEN 1
              ELSE IF v = Null THEN 0
              ELSE CASE O[v] = "add"     -> d[a] + d[b]
                     [] O[v] = "mul"     -> d[a] * V[b] + V[a] * d[b]
                     [] O[v] = "relu"    -> IF V[a] > 0 THEN d[a] ELSE 0
                     [] O[v] = "sigmoid" -> V[v] * (1 - V[v]) * d[a]
                     [] OTHER             -> 0
    IN  d[r]

ChainIn(P, O, V, v, d) ==
    CASE O[v] = "add"     -> d[P[v][1]] + d[P[v][2]]
      [] O[v] = "mul"     -> d[P[v][1]] * V[P[v][2]] + V[P[v][1]] * d[P[v][2]]
      [] O[v] = "relu"    -> IF V[P[v][1]] > 0 THEN d[P[v][1]] ELSE 0
      [] O[v] = "sigmoid" -> V[v] * (1 - V[v]) * d[P[v][1]]
      [] OTHER             -> 0

\* Products have two parents, and the value of a relu is that of its parent or 0.
Evaluated(P, O, V) ==
    /\ V \in [Nodes -> Int] /\ O \in [Nodes -> Ops]
    /\ \A v \in Nodes :
          /\ O[v] = "mul" => P[v][1] # Null /\ P[v][2] # Null
          /\ O[v] = "relu" => P[v][1] # Null /\ V[v] = IF V[P[v][1]] > 0 THEN V[P[v][1]] ELSE 0

LEMMA LocalIsLocalIn == \A v : Local(v) = LocalIn(parents, op, val, v)
BY DEF Local, LocalIn

LEMMA DerivativeIsDerIn == \A r, x : Derivative(r, x) = DerIn(parents, op, val, r, x)
BY DEF Derivative, DerIn

LEMMA Times == \A a, b \in Int : a * b \in Int /\ a * b = b * a /\ 0 * a = 0 /\ a * 0 = 0 /\ 1 * a = a
OBVIOUS

\* The chain rule at one node: the derivative computed forwards weighs the
\* parents by what the backward pass multiplies with.
LEMMA ChainRule ==
    ASSUME NEW P, NEW O, NEW V, Graph(P), Evaluated(P, O, V), NEW v \in Nodes
    PROVE  /\ LocalIn(P, O, V, v)[1] \in Int /\ LocalIn(P, O, V, v)[2] \in Int
           /\ \A d : d[P[v][1]] \in Int /\ d[P[v][2]] \in Int =>
                ChainIn(P, O, V, v, d) = LocalIn(P, O, V, v)[1] * d[P[v][1]]
                                         + LocalIn(P, O, V, v)[2] * d[P[v][2]]
<1> DEFINE a == P[v][1]
           b == P[v][2]
           L == LocalIn(P, O, V, v)
           Chains == \A d : d[a] \in Int /\ d[b] \in Int => ChainIn(P, O, V, v, d) = L[1] * d[a] + L[2] * d[b]
<1>1. V[v] \in Int /\ O[v] \in Ops
    BY DEF Evaluated
<1>2. ASSUME O[v] = "add" PROVE L[1] \in Int /\ L[2] \in Int /\ Chains
    <2>1. L = <<1, 1>> /\ \A d : ChainIn(P, O, V, v, d) = d[a] + d[b]
        BY <1>2 DEF LocalIn, ChainIn
    <2> HIDE DEF L, a, b
    <2> QED
        BY <2>1
<1>3. ASSUME O[v] = "mul" PROVE L[1] \in Int /\ L[2] \in Int /\ Chains
    <2>1. L = <<V[b], V[a]>> /\ \A d : ChainIn(P, O, V, v, d) = d[a] * V[b] + V[a] * d[b]
        BY <1>3 DEF LocalIn, ChainIn
    <2>2. V[a] \in Int /\ V[b] \in Int
        BY <1>3, ParentsBelow DEF Evaluated
    <2> HIDE DEF L, a, b
    <2>3. L[1] = V[b] /\ L[2] = V[a]
        BY <2>1
    <2>4. \A d : d[a] \in Int /\ d[b] \in Int => d[a] * V[b] = V[b] * d[a]
        BY <2>2, Times
    <2> QED
        BY <2>1, <2>2, <2>3, <2>4
<1>4. ASSUME O[v] = "relu" PROVE L[1] \in Int /\ L[2] \in Int /\ Chains
    <2>1. /\ L = <<IF V[v] > 0 THEN 1 ELSE 0, 0>>
          /\ \A d : ChainIn(P, O, V, v, d) = IF V[a] > 0 THEN d[a] ELSE 0
        BY <1>4 DEF LocalIn, ChainIn
    <2>2. V[a] \in Int /\ V[v] = IF V[a] > 0 THEN V[a] ELSE 0
        BY <1>4, ParentsBelow DEF Evaluated
    <2> HIDE DEF L, a, b
    <2>3. L[1] = (IF V[a] > 0 THEN 1 ELSE 0) /\ L[2] = 0
        BY <2>1, <2>2
    <2> QED
        BY <2>1, <2>2, <2>3, Times
<1>5. ASSUME O[v] = "sigmoid" PROVE L[1] \in Int /\ L[2] \in Int /\ Chains
    <2> DEFINE s == V[v] * (1 - V[v])
    <2>1. L = <<s, 0>> /\ \A d : ChainIn(P, O, V, v, d) = s * d[a]
        BY <1>5 DEF LocalIn, ChainIn
    <2>2. s \in Int
        BY <1>1
    <2> HIDE DEF L, a, b, s
    <2>3. L[1] = s /\ L[2] = 0
        BY <2>1
    <2> QED
        BY <2>1, <2>2, <2>3, Times
<1>6. ASSUME O[v] = "leaf" PROVE L[1] \in Int /\ L[2] \in Int /\ Chains
    <2>1. L = <<0, 0>> /\ \A d : ChainIn(P, O, V, v, d) = 0
        BY <1>6 DEF LocalIn, ChainIn
    <2> HIDE DEF L, a, b
    <2>2. L[1] = 0 /\ L[2] = 0
        BY <2>1
    <2> QED
        BY <2>1, <2>2, Times
<1> HIDE DEF L, a, b
<1>7. L[1] \in Int /\ L[2] \in Int /\ Chains
    BY <1>1, <1>2, <1>3, <1>4, <1>5, <1>6 DEF Ops
<1> QED
    BY <1>7 DEF L, a, b

\* f is on 0 .. r the derivative by x, in a graph with local derivatives A, B.
Solution(P, A, B, x, r, f) ==
    /\ f \in [0 .. r -> Int]
    /\ \A v \in 0 .. r : f[v] = IF v = x THEN 1 ELSE IF v = Null THEN 0
                                ELSE A[v] * f[P[v][1]] + B[v] * f[P[v][2]]

LEMMA Below ==
    ASSUME NEW P, Graph(P), NEW r \in 0 .. MaxNodes, NEW v \in 0 .. r, v # Null
    PROVE  /\ r \in Nat /\ v \in Nat /\ v \in Nodes
           /\ P[v][1] \in 0 .. r /\ P[v][1] \in Nat /\ P[v][1] < v /\ ~(v <= P[v][1])
           /\ P[v][2] \in 0 .. r /\ P[v][2] \in Nat /\ P[v][2] < v /\ ~(v <= P[v][2])
<1>1. r \in Nat /\ r <= MaxNodes
    BY MaxNodesNat
<1>2. v \in Nodes
    BY <1>1, MaxNodesNat DEF Nodes, Null
<1> QED
    BY <1>1, <1>2, ParentsBelow

LEMMA SolutionsAgree ==
    ASSUME NEW P, Graph(P), NEW A, NEW B, NEW x,
           NEW r \in 0 .. MaxNodes, NEW s \in 0 .. MaxNodes, NEW f, NEW g,
           Solution(P, A, B, x, r, f), Solution(P, A, B, x, s, g),
           NEW u \in 0 .. r, u \in 0 .. s
    PROVE  f[u] = g[u]
<1> DEFINE Bad == {v \in 0 .. r : v \in 0 .. s /\ f[v] # g[v]}
<1>1. SUFFICES ASSUME Bad # {} PROVE FALSE
    OBVIOUS
<1>2. PICK v \in Bad : \A w \in Bad : v <= w
    <2>1. Bad \in SUBSET Nat
        BY MaxNodesNat
    <2> HIDE DEF Bad
    <2> QED
        BY <1>1, <2>1, LeastNat
<1>3. v \in 0 .. r /\ v \in 0 .. s /\ f[v] # g[v]
    BY <1>2
<1>4. v # Null /\ v # x
    BY <1>3 DEF Solution
<1>5. /\ P[v][1] \in 0 .. r /\ P[v][1] \in 0 .. s /\ ~(v <= P[v][1])
      /\ P[v][2] \in 0 .. r /\ P[v][2] \in 0 .. s /\ ~(v <= P[v][2])
    BY <1>3, <1>4, Below
<1>6. P[v][1] \notin Bad /\ P[v][2] \notin Bad
    <2> HIDE DEF Bad
    <2> QED
        BY <1>2, <1>5
<1>7. f[P[v][1]] = g[P[v][1]] /\ f[P[v][2]] = g[P[v][2]]
    BY <1>5, <1>6
<1> QED
    BY <1>3, <1>4, <1>7 DEF Solution

LEMMA SolutionExists ==
    ASSUME NEW P, Graph(P), NEW A \in [Nodes -> Int], NEW B \in [Nodes -> Int], NEW x \in Nodes,
           NEW r \in 0 .. MaxNodes
    PROVE  \E f : Solution(P, A, B, x, r, f)
<1> DEFINE Bad == {m \in 0 .. MaxNodes : ~\E f : Solution(P, A, B, x, m, f)}
<1>1. SUFFICES ASSUME Bad # {} PROVE FALSE
    OBVIOUS
<1>2. PICK m \in Bad : \A y \in Bad : m <= y
    <2>1. Bad \in SUBSET Nat
        BY MaxNodesNat
    <2> HIDE DEF Bad
    <2> QED
        BY <1>1, <2>1, LeastNat
<1>3. m \in 0 .. MaxNodes /\ m \in Nat /\ ~\E f : Solution(P, A, B, x, m, f)
    BY <1>2, MaxNodesNat
<1>4. m # Null
    <2>1. x # 0
        BY DEF Nodes
    <2>2. Solution(P, A, B, x, 0, [v \in 0 .. 0 |-> 0])
        BY <2>1 DEF Solution, Null
    <2> QED
        BY <1>3, <2>2 DEF Null
<1>5. m - 1 \in 0 .. MaxNodes /\ m - 1 \in Nat /\ ~(m <= m - 1) /\ m \in Nodes
    BY <1>3, <1>4, MaxNodesNat DEF Null, Nodes
<1>6. m - 1 \notin Bad
    <2> HIDE DEF Bad
    <2> QED
        BY <1>2, <1>5
<1>7. PICK f : Solution(P, A, B, x, m - 1, f)
    BY <1>5, <1>6
<1> DEFINE a == P[m][1]
           b == P[m][2]
           y == IF m = x THEN 1 ELSE A[m] * f[a] + B[m] * f[b]
           g == [v \in 0 .. m |-> IF v = m THEN y ELSE f[v]]
<1>8. /\ a \in 0 .. (m - 1) /\ b \in 0 .. (m - 1)
    BY <1>5, ParentsBelow
<1>9. y \in Int
    <2>1. f[a] \in Int /\ f[b] \in Int /\ A[m] \in Int /\ B[m] \in Int
        BY <1>5, <1>7, <1>8 DEF Solution
    <2> HIDE DEF a, b
    <2>2. A[m] * f[a] \in Int /\ B[m] * f[b] \in Int
        BY <2>1, Times
    <2> QED
        BY <2>2
<1>10. \A v \in 0 .. m : v = m \/ v \in 0 .. (m - 1)
    BY <1>3
<1>11. g \in [0 .. m -> Int]
    <2> HIDE DEF y
    <2> QED
        BY <1>7, <1>9, <1>10 DEF Solution
<1>12. \A v \in 0 .. (m - 1) : g[v] = f[v] /\ v # m
    BY <1>3
<1>13. g[m] = y
    BY <1>3
<1>14. ASSUME NEW v \in 0 .. m
       PROVE  g[v] = IF v = x THEN 1 ELSE IF v = Null THEN 0
                     ELSE A[v] * g[P[v][1]] + B[v] * g[P[v][2]]
    <2>1. CASE v = m
        <3>1. g[a] = f[a] /\ g[b] = f[b]
            BY <1>8, <1>12
        <3> HIDE DEF g
        <3> QED
            BY <1>4, <1>13, <2>1, <3>1
    <2>2. CASE v # m
        <3>1. v \in 0 .. (m - 1)
            BY <1>10, <2>2
        <3>2. f[v] = IF v = x THEN 1 ELSE IF v = Null THEN 0
                     ELSE A[v] * f[P[v][1]] + B[v] * f[P[v][2]]
            BY <1>7, <3>1 DEF Solution
        <3>3. v # Null => P[v][1] \in 0 .. (m - 1) /\ P[v][2] \in 0 .. (m - 1)
            BY <1>5, <3>1, Below
        <3> HIDE DEF g
        <3> QED
            BY <1>12, <3>1, <3>2, <3>3
    <2> QED
        BY <2>1, <2>2
<1>15. Solution(P, A, B, x, m, g)
    <2> HIDE DEF g
    <2> QED
        BY <1>11, <1>14 DEF Solution
<1> QED
    BY <1>3, <1>15

Firsts(P, O, V) == [v \in Nodes |-> LocalIn(P, O, V, v)[1]]
Seconds(P, O, V) == [v \in Nodes |-> LocalIn(P, O, V, v)[2]]

LEMMA LocalFunctions ==
    ASSUME NEW P, NEW O, NEW V, Graph(P), Evaluated(P, O, V)
    PROVE  Firsts(P, O, V) \in [Nodes -> Int] /\ Seconds(P, O, V) \in [Nodes -> Int]
BY ChainRule DEF Firsts, Seconds

\* What the recursion of Derivative computes is such a solution.
LEMMA DerIsSolution ==
    ASSUME NEW P, NEW O, NEW V, Graph(P), Evaluated(P, O, V), NEW x \in Nodes, NEW r \in 0 .. MaxNodes
    PROVE  \E f : Solution(P, Firsts(P, O, V), Seconds(P, O, V), x, r, f) /\ DerIn(P, O, V, r, x) = f[r]
<1> DEFINE A == Firsts(P, O, V)
           B == Seconds(P, O, V)
           Term(v, h) == IF v = x THEN 1 ELSE IF v = Null THEN 0 ELSE ChainIn(P, O, V, v, h)
           Rec(h) == h = [v \in 0 .. r |-> Term(v, h)]
           d == CHOOSE h : Rec(h)
<1>1. DerIn(P, O, V, r, x) = d[r]
    BY DEF DerIn, ChainIn
<1>2. ASSUME NEW h, NEW v \in 0 .. r, v # Null, h[P[v][1]] \in Int, h[P[v][2]] \in Int
      PROVE  ChainIn(P, O, V, v, h) = A[v] * h[P[v][1]] + B[v] * h[P[v][2]] /\ ChainIn(P, O, V, v, h) \in Int
    <2>1. v \in Nodes
        BY <1>2, Below
    <2>2. A[v] = LocalIn(P, O, V, v)[1] /\ B[v] = LocalIn(P, O, V, v)[2]
        BY <2>1 DEF Firsts, Seconds
    <2>3. A[v] \in Int /\ B[v] \in Int
        BY <2>1, LocalFunctions
    <2>4. ChainIn(P, O, V, v, h) = LocalIn(P, O, V, v)[1] * h[P[v][1]] + LocalIn(P, O, V, v)[2] * h[P[v][2]]
        BY <1>2, <2>1, ChainRule
    <2> HIDE DEF A, B
    <2>5. A[v] * h[P[v][1]] \in Int /\ B[v] * h[P[v][2]] \in Int
        BY <1>2, <2>3, Times
    <2> QED
        BY <2>2, <2>4, <2>5
<1>3. \E h : Rec(h)
    <2>1. PICK f : Solution(P, A, B, x, r, f)
        BY LocalFunctions, SolutionExists
    <2>2. ASSUME NEW v \in 0 .. r PROVE f[v] = Term(v, f)
        <3>1. CASE v = Null \/ v = x
            BY <2>1, <3>1 DEF Solution
        <3>2. CASE ~(v = Null \/ v = x)
            <4>1. f[P[v][1]] \in Int /\ f[P[v][2]] \in Int
                BY <2>1, <3>2, Below DEF Solution
            <4>2. f[v] = A[v] * f[P[v][1]] + B[v] * f[P[v][2]]
                BY <2>1, <3>2 DEF Solution
            <4> HIDE DEF A, B
            <4> QED
                BY <1>2, <3>2, <4>1, <4>2
        <3> QED
            BY <3>1, <3>2
    <2>3. f \in [0 .. r -> Int]
        BY <2>1 DEF Solution
    <2> HIDE DEF Term
    <2> QED
        BY <2>2, <2>3
<1>4. Rec(d)
    <2> HIDE DEF Rec
    <2> QED
        BY <1>3
<1> HIDE DEF d, A, B
<1>5. \A v \in 0 .. r : d[v] = Term(v, d)
    <2> HIDE DEF Term
    <2> QED
        BY <1>4
<1> DEFINE Bad == {v \in 0 .. r : d[v] \notin Int}
<1>6. Bad = {}
    <2>1. SUFFICES ASSUME Bad # {} PROVE FALSE
        OBVIOUS
    <2>2. PICK v \in Bad : \A w \in Bad : v <= w
        <3>1. Bad \in SUBSET Nat
            BY MaxNodesNat
        <3> HIDE DEF Bad
        <3> QED
            BY <2>1, <3>1, LeastNat
    <2>3. v \in 0 .. r /\ d[v] \notin Int
        BY <2>2
    <2>4. v # Null /\ v # x
        BY <1>5, <2>3
    <2>5. /\ P[v][1] \in 0 .. r /\ ~(v <= P[v][1])
          /\ P[v][2] \in 0 .. r /\ ~(v <= P[v][2])
        BY <2>3, <2>4, Below
    <2>6. P[v][1] \notin Bad /\ P[v][2] \notin Bad
        <3> HIDE DEF Bad
        <3> QED
            BY <2>2, <2>5
    <2>7. d[P[v][1]] \in Int /\ d[P[v][2]] \in Int
        BY <2>5, <2>6
    <2>8. d[v] = ChainIn(P, O, V, v, d)
        BY <1>5, <2>3, <2>4
    <2> QED
        BY <1>2, <2>3, <2>4, <2>7, <2>8
<1>7. d \in [0 .. r -> Int]
    <2>1. \A v \in 0 .. r : d[v] \in Int
        BY <1>6
    <2> HIDE DEF Term, Bad
    <2> QED
        BY <1>4, <2>1
<1>8. ASSUME NEW v \in 0 .. r
      PROVE  d[v] = IF v = x THEN 1 ELSE IF v = Null THEN 0 ELSE A[v] * d[P[v][1]] + B[v] * d[P[v][2]]
    <2>1. CASE v = x \/ v = Null
        BY <1>5, <2>1
    <2>2. CASE ~(v = x \/ v = Null)
        <3>1. d[P[v][1]] \in Int /\ d[P[v][2]] \in Int
            BY <1>7, <2>2, Below
        <3>2. d[v] = ChainIn(P, O, V, v, d)
            BY <1>5, <2>2
        <3> QED
            BY <1>2, <2>2, <3>1, <3>2
    <2> QED
        BY <2>1, <2>2
<1>9. Solution(P, A, B, x, r, d)
    <2> HIDE DEF Term
    <2> QED
        BY <1>7, <1>8 DEF Solution
<1> QED
    BY <1>1, <1>9 DEF A, B

LEMMA DerStep ==
    ASSUME NEW P, NEW O, NEW V, Graph(P), Evaluated(P, O, V), NEW x \in Nodes, NEW v \in 0 .. MaxNodes
    PROVE  /\ DerIn(P, O, V, v, x) \in Int
           /\ v = x => DerIn(P, O, V, v, x) = 1
           /\ v = Null => DerIn(P, O, V, v, x) = 0
           /\ v # x /\ v # Null =>
                 DerIn(P, O, V, v, x) = LocalIn(P, O, V, v)[1] * DerIn(P, O, V, P[v][1], x)
                                        + LocalIn(P, O, V, v)[2] * DerIn(P, O, V, P[v][2], x)
<1> DEFINE A == Firsts(P, O, V)
           B == Seconds(P, O, V)
<1>1. PICK f : Solution(P, A, B, x, v, f) /\ DerIn(P, O, V, v, x) = f[v]
    BY DerIsSolution
<1>2. v \in 0 .. v /\ Null \in 0 .. v /\ x # Null /\ v \in Nat
    BY MaxNodesNat DEF Null, Nodes
<1>3. f[v] \in Int /\ f[v] = IF v = x THEN 1 ELSE IF v = Null THEN 0 ELSE A[v] * f[P[v][1]] + B[v] * f[P[v][2]]
    BY <1>1, <1>2 DEF Solution
<1>4. ASSUME NEW u \in 0 .. v
      PROVE  f[u] = DerIn(P, O, V, u, x)
    <2>1. u \in 0 .. MaxNodes /\ u \in 0 .. u
        BY <1>2, MaxNodesNat
    <2>2. PICK g : Solution(P, A, B, x, u, g) /\ DerIn(P, O, V, u, x) = g[u]
        BY <2>1, DerIsSolution
    <2>3. Solution(P, A, B, x, v, f) /\ Solution(P, A, B, x, u, g)
        BY <1>1, <2>2
    <2> HIDE DEF A, B
    <2>4. f[u] = g[u]
        BY <2>1, <2>3, SolutionsAgree
    <2> QED
        BY <2>2, <2>4
<1>5. v # Null => A[v] = LocalIn(P, O, V, v)[1] /\ B[v] = LocalIn(P, O, V, v)[2]
    <2>1. v # Null => v \in Nodes
        BY MaxNodesNat DEF Null, Nodes
    <2> QED
        BY <2>1 DEF Firsts, Seconds
<1> HIDE DEF A, B
<1>6. v # Null => P[v][1] \in 0 .. v /\ P[v][2] \in 0 .. v
    BY <1>2, Below
<1> QED
    BY <1>1, <1>2, <1>3, <1>4, <1>5, <1>6

\* A node has no influence on those that do not stand on it.
LEMMA DerOutside ==
    ASSUME NEW P, NEW O, NEW V, Graph(P), Evaluated(P, O, V), NEW x \in Nodes,
           NEW u \in 0 .. MaxNodes, x \notin ReachIn(P, u)
    PROVE  DerIn(P, O, V, u, x) = 0
<1> DEFINE D(v) == DerIn(P, O, V, v, x)
           Bad == {v \in 0 .. MaxNodes : x \notin ReachIn(P, v) /\ D(v) # 0}
<1>1. SUFFICES ASSUME Bad # {} PROVE FALSE
    OBVIOUS
<1>2. PICK v \in Bad : \A w \in Bad : v <= w
    <2>1. Bad \in SUBSET Nat
        BY MaxNodesNat
    <2> HIDE DEF Bad
    <2> QED
        BY <1>1, <2>1, LeastNat
<1>3. v \in 0 .. MaxNodes /\ x \notin ReachIn(P, v) /\ D(v) # 0
    BY <1>2
<1>4. v # Null
    BY <1>3, DerStep
<1>5. /\ v \in Nodes
      /\ P[v][1] \in 0 .. MaxNodes /\ ~(v <= P[v][1])
      /\ P[v][2] \in 0 .. MaxNodes /\ ~(v <= P[v][2])
    <2>1. MaxNodes \in 0 .. MaxNodes
        BY MaxNodesNat
    <2> QED
        BY <1>3, <1>4, <2>1, Below
<1>6. v # x /\ x \notin ReachIn(P, P[v][1]) /\ x \notin ReachIn(P, P[v][2])
    BY <1>3, <1>5, ReachFacts
<1>7. P[v][1] \notin Bad /\ P[v][2] \notin Bad
    <2> HIDE DEF Bad
    <2> QED
        BY <1>2, <1>5
<1>8. D(P[v][1]) = 0 /\ D(P[v][2]) = 0
    BY <1>5, <1>6, <1>7
<1>9. D(v) = LocalIn(P, O, V, v)[1] * D(P[v][1]) + LocalIn(P, O, V, v)[2] * D(P[v][2])
    BY <1>3, <1>4, <1>6, DerStep
<1>10. LocalIn(P, O, V, v)[1] \in Int /\ LocalIn(P, O, V, v)[2] \in Int
    BY <1>5, ChainRule
<1> HIDE DEF D
<1> QED
    BY <1>3, <1>8, <1>9, <1>10, Times

\* Nodes above the root do not matter.
LEMMA DerBelow ==
    ASSUME NEW P, NEW O, NEW V, Graph(P), Evaluated(P, O, V),
           NEW Q, NEW N, NEW W, Graph(Q), Evaluated(Q, N, W),
           NEW x \in Nodes, NEW r \in 0 .. MaxNodes,
           \A v \in 1 .. r : P[v] = Q[v] /\ O[v] = N[v] /\ V[v] = W[v]
    PROVE  DerIn(P, O, V, r, x) = DerIn(Q, N, W, r, x)
<1>1. PICK f : Solution(P, Firsts(P, O, V), Seconds(P, O, V), x, r, f) /\ DerIn(P, O, V, r, x) = f[r]
    BY DerIsSolution
<1>2. PICK g : Solution(Q, Firsts(Q, N, W), Seconds(Q, N, W), x, r, g) /\ DerIn(Q, N, W, r, x) = g[r]
    BY DerIsSolution
<1>3. ASSUME NEW v \in 0 .. r, v # Null
      PROVE  /\ v \in Nodes /\ P[v] = Q[v]
             /\ Firsts(P, O, V)[v] = Firsts(Q, N, W)[v]
             /\ Seconds(P, O, V)[v] = Seconds(Q, N, W)[v]
    <2>1. /\ v \in Nodes /\ v \in 1 .. r
          /\ P[v][1] # Null => P[v][1] \in 1 .. r
          /\ P[v][2] # Null => P[v][2] \in 1 .. r
        <3>1. \A w \in 0 .. r : w # Null => w \in 1 .. r
            BY MaxNodesNat DEF Null
        <3> QED
            BY <1>3, <3>1, Below
    <2>2. P[v] = Q[v] /\ O[v] = N[v] /\ V[v] = W[v]
        BY <2>1
    <2>3. LocalIn(P, O, V, v) = LocalIn(Q, N, W, v)
        <3>1. O[v] \in Ops
            BY <2>1 DEF Evaluated
        <3>2. CASE O[v] = "mul"
            <4>1. V[P[v][1]] = W[P[v][1]] /\ V[P[v][2]] = W[P[v][2]]
                BY <2>1, <3>2 DEF Evaluated
            <4> QED
                BY <2>2, <3>2, <4>1 DEF LocalIn
        <3>3. CASE O[v] # "mul"
            BY <2>2, <3>1, <3>3 DEF LocalIn, Ops
        <3> QED
            BY <3>2, <3>3
    <2> QED
        BY <2>1, <2>2, <2>3 DEF Firsts, Seconds
<1>4. Solution(P, Firsts(P, O, V), Seconds(P, O, V), x, r, g)
    BY <1>2, <1>3 DEF Solution
<1>5. r \in 0 .. r
    BY MaxNodesNat
<1> QED
    BY <1>1, <1>2, <1>4, <1>5, SolutionsAgree

-----------------------------------------------------------------------------
(* The backward sweep                                                       *)

\* A topological order of the nodes the root stands on: each once, its parents first.
ParentsFirst(P, s) ==
    \A j \in 1 .. Len(s) : \A c \in {1, 2} :
        P[s[j]][c] = Null \/ \E k \in 1 .. (j - 1) : s[k] = P[s[j]][c]
Distinct(s) == \A j, k \in 1 .. Len(s) : s[j] = s[k] => j = k
Members(s) == {s[k] : k \in 1 .. Len(s)}
Ordered(P, r, s) == s \in Seq(Nodes) /\ Distinct(s) /\ Members(s) = ReachIn(P, r) /\ ParentsFirst(P, s)

BackwardIn(P, O, V, g, v) ==
    [u \in Nodes |->
        g[u] + (IF u = P[v][1] THEN g[v] * LocalIn(P, O, V, v)[1] ELSE 0)
             + (IF u = P[v][2] THEN g[v] * LocalIn(P, O, V, v)[2] ELSE 0)]

\* The gradients of the first m nodes, each times its derivative by x, sum up to y;
\* the sum is given by its partial sums.
SumIs(P, O, V, s, g, m, x, y) ==
    \E t \in [0 .. m -> Int] :
        /\ t[0] = 0 /\ t[m] = y
        /\ \A j \in 1 .. m : t[j] = t[j - 1] + g[s[j]] * DerIn(P, O, V, s[j], x)

\* With the last nodes done down to m: these have their derivative, and the
\* derivative by the others is what the gradients of the others still stand for.
Swept(P, O, V, r, s, g, m) ==
    /\ m \in 0 .. Len(s) /\ g \in [Nodes -> Int]
    /\ \A k \in 1 .. Len(s) :
          IF k > m THEN g[s[k]] = DerIn(P, O, V, r, s[k])
                   ELSE SumIs(P, O, V, s, g, m, s[k], DerIn(P, O, V, r, s[k]))

LEMMA SequenceFacts ==
    ASSUME NEW s \in Seq(Nodes)
    PROVE  Len(s) \in Nat /\ \A k \in 1 .. Len(s) : s[k] \in Nodes /\ s[k] \in 0 .. MaxNodes /\ s[k] # Null
BY MaxNodesNat DEF Nodes, Null

LEMMA Distribute3 ==
    \A a, b, c, d \in Int : (a + b + c) * d = a * d + b * d + c * d
OBVIOUS

LEMMA Weighed ==
    \A g, a, b, c, d \in Int : g * (a * b + c * d) = (g * a) * b + (g * c) * d
OBVIOUS

\* In a topological order no node stands on a later one.
LEMMA EarlierOutside ==
    ASSUME NEW P, Graph(P), NEW s \in Seq(Nodes), Distinct(s), ParentsFirst(P, s),
           NEW j \in 1 .. Len(s), NEW k \in 1 .. Len(s), j < k
    PROVE  s[k] \notin ReachIn(P, s[j])
<1> DEFINE T == {s[l] : l \in 1 .. j}
<1>1. Len(s) \in Nat /\ \A l \in 1 .. j : l \in 1 .. Len(s) /\ s[l] \in Nodes
    BY SequenceFacts
<1>2. T \in SUBSET Nodes /\ s[j] \in T /\ s[j] \in Nodes
    BY <1>1
<1>3. Closed(P, T)
    <2>1. SUFFICES ASSUME NEW u \in T, NEW c \in {1, 2}, P[u][c] # Null
                   PROVE  P[u][c] \in T
        BY DEF Closed
    <2>2. PICK l \in 1 .. j : u = s[l]
        OBVIOUS
    <2>3. PICK q \in 1 .. (l - 1) : s[q] = P[u][c]
        BY <1>1, <2>1, <2>2 DEF ParentsFirst
    <2>4. q \in 1 .. j
        BY <1>1
    <2> QED
        BY <2>3, <2>4
<1>4. ReachIn(P, s[j]) \subseteq T
    <2> HIDE DEF T
    <2> QED
        BY <1>2, <1>3, ReachFacts
<1>5. s[k] \notin T
    <2>1. SUFFICES ASSUME NEW l \in 1 .. j, s[l] = s[k] PROVE FALSE
        OBVIOUS
    <2> QED
        BY <1>1, <2>1 DEF Distinct
<1> QED
    BY <1>4, <1>5

LEMMA SweepStarts ==
    ASSUME NEW P, NEW O, NEW V, Graph(P), Evaluated(P, O, V), NEW r \in Nodes, NEW s, Ordered(P, r, s),
           NEW g \in [Nodes -> Int], g[r] = 1, \A w \in ReachIn(P, r) : w # r => g[w] = 0
    PROVE  Swept(P, O, V, r, s, g, Len(s))
<1>1. /\ s \in Seq(Nodes) /\ Len(s) \in Nat
      /\ \A k \in 1 .. Len(s) : s[k] \in Nodes /\ s[k] \in 0 .. MaxNodes /\ s[k] # Null /\ s[k] \in ReachIn(P, r)
    BY SequenceFacts DEF Ordered, Members
<1>2. PICK q \in 1 .. Len(s) : s[q] = r
    <2>1. r \in Members(s)
        BY ReachFacts DEF Ordered
    <2> QED
        BY <2>1 DEF Members
<1>3. SUFFICES ASSUME NEW k \in 1 .. Len(s)
               PROVE  SumIs(P, O, V, s, g, Len(s), s[k], DerIn(P, O, V, r, s[k]))
    <2>1. (\A k \in 1 .. Len(s) : ~(k > Len(s))) /\ Len(s) \in 0 .. Len(s)
        BY <1>1
    <2> QED
        BY <2>1 DEF Swept
<1> DEFINE D(u) == DerIn(P, O, V, u, s[k])
           t == [j \in 0 .. Len(s) |-> IF q <= j THEN D(r) ELSE 0]
<1>4. \A u \in 0 .. MaxNodes : D(u) \in Int
    BY <1>1, DerStep
<1>5. D(r) \in Int
    BY <1>1, <1>2, <1>4
<1> HIDE DEF D
<1>6. t \in [0 .. Len(s) -> Int] /\ t[0] = 0 /\ t[Len(s)] = D(r)
    BY <1>1, <1>2, <1>5
<1>7. ASSUME NEW j \in 1 .. Len(s)
      PROVE  t[j] = t[j - 1] + g[s[j]] * D(s[j])
    <2>1. j \in 0 .. Len(s) /\ j - 1 \in 0 .. Len(s) /\ j \in Int
        BY <1>1
    <2>2. t[j] = (IF q <= j THEN D(r) ELSE 0) /\ t[j - 1] = (IF q <= j - 1 THEN D(r) ELSE 0)
        BY <2>1
    <2> HIDE DEF t
    <2>3. CASE q = j
        <3>1. g[s[j]] * D(s[j]) = D(r)
            BY <1>2, <1>5, <2>3, Times
        <3> QED
            BY <1>1, <1>5, <2>1, <2>2, <2>3, <3>1
    <2>4. CASE q # j
        <3>1. s[j] # r
            BY <1>2, <2>4 DEF Ordered, Distinct
        <3>2. g[s[j]] = 0 /\ D(s[j]) \in Int
            BY <1>1, <1>4, <3>1
        <3>3. g[s[j]] * D(s[j]) = 0
            BY <3>2, Times
        <3> QED
            BY <1>1, <1>5, <2>1, <2>2, <2>4, <3>3
    <2> QED
        BY <2>3, <2>4
<1> HIDE DEF t
<1> QED
    BY <1>6, <1>7 DEF SumIs, D

LEMMA SweepEnded ==
    ASSUME NEW P, NEW O, NEW V, NEW r, NEW s, Ordered(P, r, s), NEW g, Swept(P, O, V, r, s, g, 0)
    PROVE  \A x \in ReachIn(P, r) : g[x] = DerIn(P, O, V, r, x)
<1>1. SUFFICES ASSUME NEW x \in Members(s) PROVE g[x] = DerIn(P, O, V, r, x)
    BY DEF Ordered
<1>2. PICK k \in 1 .. Len(s) : x = s[k]
    BY DEF Members
<1>3. k > 0
    OBVIOUS
<1> QED
    BY <1>2, <1>3 DEF Swept

\* One node of the sweep: the derivative by its node is complete, and what its
\* gradient stood for now stands in those of its parents.
LEMMA SweepStep ==
    ASSUME NEW P, NEW O, NEW V, Graph(P), Evaluated(P, O, V), NEW r \in Nodes, NEW s, Ordered(P, r, s),
           NEW g, NEW m, m > 0, Swept(P, O, V, r, s, g, m)
    PROVE  Swept(P, O, V, r, s, BackwardIn(P, O, V, g, s[m]), m - 1)
<1> DEFINE v == s[m]
           a == P[v][1]
           b == P[v][2]
           L1 == LocalIn(P, O, V, v)[1]
           L2 == LocalIn(P, O, V, v)[2]
           h == BackwardIn(P, O, V, g, v)
<1>1. /\ s \in Seq(Nodes) /\ Len(s) \in Nat /\ Distinct(s) /\ ParentsFirst(P, s)
      /\ \A k \in 1 .. Len(s) : s[k] \in Nodes /\ s[k] \in 0 .. MaxNodes /\ s[k] # Null
    BY SequenceFacts DEF Ordered
<1>2. m \in 1 .. Len(s) /\ m \in Nat /\ m - 1 \in 0 .. Len(s) /\ g \in [Nodes -> Int]
    BY <1>1 DEF Swept
<1>3. v \in Nodes /\ a \in 0 .. MaxNodes /\ b \in 0 .. MaxNodes /\ a # v /\ b # v
    <2>1. v \in Nodes
        BY <1>1, <1>2
    <2> HIDE DEF v
    <2>2. a \in 0 .. (v - 1) /\ b \in 0 .. (v - 1) /\ v \in Nat /\ v <= MaxNodes
        BY <2>1, ParentsBelow
    <2> HIDE DEF a, b
    <2> QED
        BY <2>1, <2>2, MaxNodesNat
<1>4. L1 \in Int /\ L2 \in Int /\ g[v] \in Int /\ g[v] * L1 \in Int /\ g[v] * L2 \in Int
    <2>1. L1 \in Int /\ L2 \in Int /\ g[v] \in Int
        BY <1>2, <1>3, ChainRule
    <2> HIDE DEF L1, L2, v
    <2> QED
        BY <2>1, Times
<1>5. \A u \in Nodes : h[u] = g[u] + (IF u = a THEN g[v] * L1 ELSE 0) + (IF u = b THEN g[v] * L2 ELSE 0)
    BY DEF BackwardIn
<1>6. h \in [Nodes -> Int]
    <2>1. h = [u \in Nodes |-> g[u] + (IF u = a THEN g[v] * L1 ELSE 0) + (IF u = b THEN g[v] * L2 ELSE 0)]
        BY DEF BackwardIn
    <2> HIDE DEF h, a, b, v, L1, L2
    <2>2. ASSUME NEW u \in Nodes
          PROVE  g[u] + (IF u = a THEN g[v] * L1 ELSE 0) + (IF u = b THEN g[v] * L2 ELSE 0) \in Int
        <3>1. g[u] \in Int
            BY <1>2
        <3> QED
            BY <1>4, <3>1
    <2> QED
        BY <2>1, <2>2
<1>7. PICK ka \in 0 .. (m - 1) : IF a = Null THEN ka = 0 ELSE ka \in 1 .. (m - 1) /\ s[ka] = a
    <2>1. a = Null \/ \E k \in 1 .. (m - 1) : s[k] = a
        BY <1>1, <1>2 DEF ParentsFirst
    <2> HIDE DEF a
    <2> QED
        BY <1>2, <2>1
<1>8. PICK kb \in 0 .. (m - 1) : IF b = Null THEN kb = 0 ELSE kb \in 1 .. (m - 1) /\ s[kb] = b
    <2>1. b = Null \/ \E k \in 1 .. (m - 1) : s[k] = b
        BY <1>1, <1>2 DEF ParentsFirst
    <2> HIDE DEF b
    <2> QED
        BY <1>2, <2>1
<1>9. \A k \in 1 .. Len(s) : (s[k] = a <=> k = ka) /\ (s[k] = b <=> k = kb)
    <2>1. ka \in 0 .. Len(s) /\ kb \in 0 .. Len(s)
        BY <1>1, <1>2
    <2> HIDE DEF a, b
    <2> QED
        BY <1>1, <1>2, <1>7, <1>8, <2>1 DEF Distinct
<1>10. SUFFICES ASSUME NEW k \in 1 .. Len(s)
                PROVE  IF k > m - 1 THEN h[s[k]] = DerIn(P, O, V, r, s[k])
                       ELSE SumIs(P, O, V, s, h, m - 1, s[k], DerIn(P, O, V, r, s[k]))
    <2> HIDE DEF h
    <2>1. m - 1 \in 0 .. Len(s) /\ h \in [Nodes -> Int]
        BY <1>2, <1>6
    <2> QED
        BY <2>1 DEF Swept, h, v
<1> DEFINE x == s[k]
           y == DerIn(P, O, V, r, x)
           D(u) == DerIn(P, O, V, u, x)
<1>11. x \in Nodes /\ x # Null
    BY <1>1
<1>12. \A u \in 0 .. MaxNodes : D(u) \in Int
    BY <1>11, DerStep
<1>13. k > m => g[x] = y
    BY DEF Swept
<1>14. ~(k > m) => \E t \in [0 .. m -> Int] :
            /\ t[0] = 0 /\ t[m] = y
            /\ \A j \in 1 .. m : t[j] = t[j - 1] + g[s[j]] * D(s[j])
    BY DEF Swept, SumIs
<1>15. ASSUME k > m - 1 PROVE h[x] = g[x]
    <2>1. k # ka /\ k # kb
        BY <1>2, <1>7, <1>8, <1>15
    <2>2. x # a /\ x # b
        BY <1>9, <2>1
    <2>3. g[x] \in Int
        BY <1>2, <1>11
    <2> HIDE DEF h, x, a, b
    <2> QED
        BY <1>5, <1>11, <2>2, <2>3
<1>16. ASSUME k = m PROVE g[x] = y
    <2>1. PICK t \in [0 .. m -> Int] :
            /\ t[0] = 0 /\ t[m] = y
            /\ \A j \in 1 .. m : t[j] = t[j - 1] + g[s[j]] * D(s[j])
        <3>1. ~(k > m)
            BY <1>2, <1>16
        <3> HIDE DEF D, y
        <3> QED
            BY <1>14, <3>1
    <2>2. ASSUME NEW j \in 1 .. (m - 1) PROVE t[j] = t[j - 1]
        <3>1. j \in 1 .. m /\ j - 1 \in 0 .. m /\ j \in 1 .. Len(s) /\ j < k
            BY <1>2, <1>16
        <3>2. x \notin ReachIn(P, s[j])
            BY <1>1, <3>1, EarlierOutside
        <3>3. D(s[j]) = 0
            BY <1>1, <1>11, <3>1, <3>2, DerOutside
        <3>4. g[s[j]] \in Int
            BY <1>1, <1>2, <3>1
        <3>5. t[j] = t[j - 1] + g[s[j]] * 0 /\ t[j - 1] \in Int
            BY <2>1, <3>1, <3>3
        <3>6. g[s[j]] * 0 = 0
            BY <3>4, Times
        <3> QED
            BY <3>5, <3>6
    <2> DEFINE Bad == {j \in 0 .. (m - 1) : t[j] # 0}
    <2>3. Bad = {}
        <3>1. SUFFICES ASSUME Bad # {} PROVE FALSE
            OBVIOUS
        <3>2. PICK j \in Bad : \A l \in Bad : j <= l
            <4>1. Bad \in SUBSET Nat
                OBVIOUS
            <4> HIDE DEF Bad
            <4> QED
                BY <3>1, <4>1, LeastNat
        <3>3. j \in 0 .. (m - 1) /\ t[j] # 0
            BY <3>2
        <3>4. j \in 1 .. (m - 1) /\ j - 1 \in 0 .. (m - 1) /\ ~(j <= j - 1)
            BY <1>2, <2>1, <3>3
        <3>5. j - 1 \notin Bad
            <4> HIDE DEF Bad
            <4> QED
                BY <3>2, <3>4
        <3> QED
            BY <2>2, <3>3, <3>4, <3>5
    <2>4. t[m - 1] = 0
        <3>1. m - 1 \in 0 .. (m - 1)
            BY <1>2
        <3> QED
            BY <2>3, <3>1
    <2>5. D(x) = 1
        BY <1>1, <1>11, DerStep
    <2>6. y = 0 + g[x] * 1 /\ g[x] \in Int
        <3>1. m \in 1 .. m
            BY <1>2
        <3> HIDE DEF D, y
        <3> QED
            BY <1>2, <1>11, <1>16, <2>1, <2>4, <2>5, <3>1
    <2> HIDE DEF D, y, x
    <2> QED
        BY <2>6
<1>17. CASE k > m - 1
    <2>1. k = m \/ k > m
        BY <1>2, <1>17
    <2> HIDE DEF h
    <2> QED
        BY <1>13, <1>15, <1>16, <1>17, <2>1
<1>18. ASSUME ~(k > m - 1) PROVE SumIs(P, O, V, s, h, m - 1, x, y)
    <2>1. PICK t \in [0 .. m -> Int] :
            /\ t[0] = 0 /\ t[m] = y
            /\ \A j \in 1 .. m : t[j] = t[j - 1] + g[s[j]] * D(s[j])
        <3>1. ~(k > m)
            BY <1>2, <1>18
        <3> QED
            BY <1>14, <3>1
    <2> DEFINE ca == (g[v] * L1) * D(a)
               cb == (g[v] * L2) * D(b)
    <2>2. D(a) \in Int /\ D(b) \in Int /\ D(v) \in Int
        <3>1. v \in 0 .. MaxNodes
            BY <1>1, <1>2
        <3> HIDE DEF a, b, v, D
        <3> QED
            BY <1>3, <1>12, <3>1
    <2>3. ca \in Int /\ cb \in Int
        <3> HIDE DEF D, v, a, b, L1, L2
        <3> QED
            BY <1>4, <2>2, Times
    <2>4. (ka = 0 => ca = 0) /\ (kb = 0 => cb = 0)
        <3>1. (ka = 0 => D(a) = 0) /\ (kb = 0 => D(b) = 0)
            <4>1. D(Null) = 0
                <5>1. Null \in 0 .. MaxNodes
                    BY MaxNodesNat DEF Null
                <5> QED
                    BY <1>11, <5>1, DerStep
            <4> HIDE DEF a, b, D
            <4> QED
                BY <1>7, <1>8, <4>1
        <3> HIDE DEF D, v, a, b, L1, L2
        <3> QED
            BY <1>4, <3>1, Times
    <2>5. g[v] * D(v) = ca + cb
        <3>1. x # v
            BY <1>1, <1>2, <1>18 DEF Distinct
        <3>2. D(v) = L1 * D(a) + L2 * D(b)
            <4>1. v \in 0 .. MaxNodes /\ v # Null
                BY <1>1, <1>2
            <4> HIDE DEF v, x
            <4> QED
                BY <1>11, <3>1, <4>1, DerStep
        <3> HIDE DEF D, v, a, b, L1, L2
        <3>3. PICK q, da, db \in Int : q = g[v] /\ da = D(a) /\ db = D(b)
            BY <1>4, <2>2
        <3>4. q * (L1 * da + L2 * db) = (q * L1) * da + (q * L2) * db
            BY <1>4, Weighed
        <3> QED
            BY <3>2, <3>3, <3>4
    <2> DEFINE u == [j \in 0 .. (m - 1) |-> t[j] + (IF ka <= j THEN ca ELSE 0) + (IF kb <= j THEN cb ELSE 0)]
    <2> HIDE DEF ca, cb
    <2>6. u \in [0 .. (m - 1) -> Int]
        <3>1. ASSUME NEW j \in 0 .. (m - 1)
              PROVE  t[j] + (IF ka <= j THEN ca ELSE 0) + (IF kb <= j THEN cb ELSE 0) \in Int
            <4>1. t[j] \in Int
                BY <1>2, <2>1
            <4> QED
                BY <2>3, <4>1
        <3> QED
            BY <3>1
    <2>7. u[0] = 0
        <3>1. 0 \in 0 .. (m - 1)
            BY <1>2
        <3> QED
            BY <1>7, <1>8, <2>1, <2>3, <2>4, <3>1
    <2>8. u[m - 1] = y
        <3>1. u[m - 1] = t[m - 1] + ca + cb
            <4>1. m - 1 \in 0 .. (m - 1)
                BY <1>2
            <4>2. ka <= m - 1 /\ kb <= m - 1
                BY <1>2
            <4> QED
                BY <4>1, <4>2
        <3>2. m \in 1 .. m /\ m - 1 \in 0 .. m
            BY <1>2
        <3>3. y = t[m - 1] + g[v] * D(v)
            <4> HIDE DEF D, y
            <4> QED
                BY <2>1, <3>2
        <3>4. t[m - 1] \in Int
            BY <2>1, <3>2
        <3> HIDE DEF u, D, v, y
        <3> QED
            BY <2>3, <2>5, <3>1, <3>3, <3>4
    <2>9. ASSUME NEW j \in 1 .. (m - 1)
          PROVE  u[j] = u[j - 1] + h[s[j]] * D(s[j])
        <3>1. /\ j \in 1 .. m /\ j - 1 \in 0 .. m /\ j \in 0 .. m /\ j \in 1 .. Len(s) /\ j \in Int
              /\ j \in 0 .. (m - 1) /\ j - 1 \in 0 .. (m - 1)
            BY <1>2
        <3> DEFINE ea == IF j = ka THEN g[v] * L1 ELSE 0
                   eb == IF j = kb THEN g[v] * L2 ELSE 0
        <3>2. h[s[j]] = g[s[j]] + ea + eb
            <4>1. (s[j] = a <=> j = ka) /\ (s[j] = b <=> j = kb) /\ s[j] \in Nodes
                BY <1>1, <1>9, <3>1
            <4> HIDE DEF h, a, b, v, L1, L2
            <4> QED
                BY <1>5, <4>1
        <3>3. ea \in Int /\ eb \in Int /\ g[s[j]] \in Int /\ D(s[j]) \in Int
            <4>1. g[s[j]] \in Int /\ D(s[j]) \in Int
                BY <1>1, <1>2, <1>12, <3>1
            <4> HIDE DEF L1, L2, v, D
            <4> QED
                BY <1>4, <4>1
        <3>4. /\ ea * D(s[j]) = IF j = ka THEN ca ELSE 0
              /\ eb * D(s[j]) = IF j = kb THEN cb ELSE 0
            <4>1. (j = ka => s[j] = a) /\ (j = kb => s[j] = b)
                BY <1>9, <3>1
            <4> HIDE DEF L1, L2, v, D, a, b
            <4> QED
                BY <3>3, <4>1, Times DEF ca, cb
        <3>5. h[s[j]] * D(s[j]) = g[s[j]] * D(s[j]) + ea * D(s[j]) + eb * D(s[j])
            <4> HIDE DEF D, h, ea, eb
            <4> QED
                BY <3>2, <3>3, Distribute3
        <3>6. t[j] = t[j - 1] + g[s[j]] * D(s[j]) /\ t[j] \in Int /\ t[j - 1] \in Int
            BY <2>1, <3>1
        <3>7. g[s[j]] * D(s[j]) \in Int
            <4> HIDE DEF D
            <4> QED
                BY <3>3, Times
        <3>8. /\ u[j] = t[j] + (IF ka <= j THEN ca ELSE 0) + (IF kb <= j THEN cb ELSE 0)
              /\ u[j - 1] = t[j - 1] + (IF ka <= j - 1 THEN ca ELSE 0) + (IF kb <= j - 1 THEN cb ELSE 0)
            BY <3>1
        <3> DEFINE p == g[s[j]] * D(s[j])
                   w == h[s[j]] * D(s[j])
        <3>9. w = p + (IF j = ka THEN ca ELSE 0) + (IF j = kb THEN cb ELSE 0)
            <4> HIDE DEF ea, eb, h, D
            <4> QED
                BY <3>4, <3>5
        <3>10. ka \in Int /\ kb \in Int /\ p \in Int /\ t[j] = t[j - 1] + p
            BY <3>6, <3>7
        <3> HIDE DEF p, w, u
        <3>11. \A q \in Int, c \in Int :
                  (IF q <= j THEN c ELSE 0) = (IF q <= j - 1 THEN c ELSE 0) + (IF j = q THEN c ELSE 0)
            BY <3>1
        <3> DEFINE pa == IF ka <= j - 1 THEN ca ELSE 0
                   pb == IF kb <= j - 1 THEN cb ELSE 0
                   ja == IF j = ka THEN ca ELSE 0
                   jb == IF j = kb THEN cb ELSE 0
        <3>12. /\ pa \in Int /\ pb \in Int /\ ja \in Int /\ jb \in Int
               /\ (IF ka <= j THEN ca ELSE 0) = pa + ja
               /\ (IF kb <= j THEN cb ELSE 0) = pb + jb
            BY <2>3, <3>10, <3>11
        <3>13. /\ u[j] = t[j] + (pa + ja) + (pb + jb)
               /\ u[j - 1] = t[j - 1] + pa + pb
               /\ w = p + ja + jb
            BY <3>8, <3>9, <3>12
        <3> HIDE DEF pa, pb, ja, jb
        <3>14. u[j] = u[j - 1] + w
            <4>1. t[j - 1] \in Int /\ p \in Int /\ t[j] = t[j - 1] + p
                BY <3>6, <3>10
            <4>2. PICK t1 \in Int : t1 = t[j - 1]
                BY <4>1
            <4>3. (t1 + p) + (pa + ja) + (pb + jb) = (t1 + pa + pb) + (p + ja + jb)
                BY <3>12, <4>1
            <4> QED
                BY <3>13, <4>1, <4>2, <4>3
        <3> QED
            BY <3>14 DEF w
    <2> HIDE DEF u, h, y
    <2> QED
        BY <2>6, <2>7, <2>8, <2>9 DEF SumIs
<1> QED
    BY <1>17, <1>18

-----------------------------------------------------------------------------
(* Stacks                                                                   *)

Frames(F) == F \X (0 .. MaxNodes) \X {"enter", "leave"}

\* Frames of functions F in the graph of r; above a node that will be left are
\* smaller ones.
StackOK(F, P, r, st) ==
    /\ st \in Seq(Frames(F))
    /\ \A k \in 1 .. Len(st) :
          /\ st[k][2] # Null => st[k][2] \in ReachIn(P, r)
          /\ st[k][3] = "leave" => st[k][2] # Null
    /\ \A j, k \in 1 .. Len(st) : j < k /\ st[j][3] = "leave" => st[k][2] < st[j][2]

\* What Enter and Leave do to a stack.
Push(st, a, b, c) == SubSeq(st, 1, Len(st) - 1) \o <<a, b, c>>
Swap(st, a) == SubSeq(st, 1, Len(st) - 1) \o <<a>>
Pop(st) == SubSeq(st, 1, Len(st) - 1)

LEMMA PopIs ==
    ASSUME NEW S, NEW st \in Seq(S), st # <<>>
    PROVE  /\ Len(st) \in Nat /\ Len(st) > 0
           /\ Pop(st) \in Seq(S) /\ Len(Pop(st)) = Len(st) - 1
           /\ \A k \in 1 .. (Len(st) - 1) : Pop(st)[k] = st[k] /\ k \in 1 .. Len(st)
<1>1. Len(st) \in Nat /\ Len(st) > 0
    BY EmptySeq
<1> DEFINE m == Len(st) - 1
<1>2. m \in Nat /\ (\A k \in 1 .. m : st[k] \in S /\ k \in 1 .. Len(st)) /\ 1 \in Int /\ m \in Int
    BY <1>1
<1> HIDE DEF m
<1>3. /\ SubSeq(st, 1, m) \in Seq(S)
      /\ Len(SubSeq(st, 1, m)) = IF 1 <= m THEN m - 1 + 1 ELSE 0
      /\ \A k \in 1 .. (m - 1 + 1) : SubSeq(st, 1, m)[k] = st[1 + k - 1]
    BY <1>2, SubSeqProperties
<1>4. m - 1 + 1 = m /\ \A k \in 1 .. m : 1 + k - 1 = k
    BY <1>2
<1>5. /\ SubSeq(st, 1, m) \in Seq(S) /\ Len(SubSeq(st, 1, m)) = m
      /\ \A k \in 1 .. m : SubSeq(st, 1, m)[k] = st[k] /\ k \in 1 .. Len(st)
    BY <1>2, <1>3, <1>4
<1> QED
    BY <1>1, <1>5 DEF Pop, m

\* The frames a, b, c in place of the top one.
Pushed(S, st, a, b, c, t) ==
    /\ t \in Seq(S) /\ Len(t) = Len(st) + 2
    /\ t[Len(st)] = a /\ t[Len(st) + 1] = b /\ t[Len(st) + 2] = c
    /\ \A k \in 1 .. (Len(st) - 1) : t[k] = st[k]
    /\ \A k \in 1 .. Len(t) : \/ k \in 1 .. (Len(st) - 1)
                              \/ k = Len(st) \/ k = Len(st) + 1 \/ k = Len(st) + 2

LEMMA PushIs ==
    ASSUME NEW S, NEW st \in Seq(S), st # <<>>, NEW a \in S, NEW b \in S, NEW c \in S
    PROVE  Pushed(S, st, a, b, c, Push(st, a, b, c))
<1> DEFINE t == Push(st, a, b, c)
           p == Pop(st)
           q == <<a, b, c>>
<1>1. /\ Len(st) \in Nat /\ Len(st) > 0 /\ p \in Seq(S) /\ Len(p) = Len(st) - 1
      /\ \A k \in 1 .. (Len(st) - 1) : p[k] = st[k]
    BY PopIs
<1>2. q \in Seq(S) /\ Len(q) = 3 /\ q[1] = a /\ q[2] = b /\ q[3] = c
    OBVIOUS
<1> HIDE DEF p, q, t
<1>3. /\ p \o q \in Seq(S) /\ Len(p \o q) = Len(p) + Len(q)
      /\ \A k \in 1 .. Len(p) + Len(q) : (p \o q)[k] = IF k <= Len(p) THEN p[k] ELSE q[k - Len(p)]
    BY <1>1, <1>2, ConcatProperties
<1>4. t = p \o q
    BY DEF Push, Pop, p, q, t
<1> DEFINE N == Len(st)
<1>5. N \in Nat /\ N > 0 /\ Len(p) = N - 1 /\ Len(p) + Len(q) = N + 2
    BY <1>1, <1>2
<1> HIDE DEF N
<1>6. /\ t \in Seq(S) /\ Len(t) = N + 2
      /\ \A k \in 1 .. (N + 2) : t[k] = IF k <= N - 1 THEN p[k] ELSE q[k - (N - 1)]
    BY <1>3, <1>4, <1>5
<1>7. /\ N \in 1 .. (N + 2) /\ ~(N <= N - 1) /\ N - (N - 1) = 1
      /\ N + 1 \in 1 .. (N + 2) /\ ~(N + 1 <= N - 1) /\ N + 1 - (N - 1) = 2
      /\ N + 2 \in 1 .. (N + 2) /\ ~(N + 2 <= N - 1) /\ N + 2 - (N - 1) = 3
    BY <1>5
<1>8. t[N] = a /\ t[N + 1] = b /\ t[N + 2] = c
    <2>1. t[N] = q[1]
        BY <1>6, <1>7
    <2>2. t[N + 1] = q[2]
        BY <1>6, <1>7
    <2>3. t[N + 2] = q[3]
        BY <1>6, <1>7
    <2> QED
        BY <1>2, <2>1, <2>2, <2>3
<1>9. \A k \in 1 .. (N - 1) : t[k] = p[k]
    BY <1>5, <1>6
<1>10. \A k \in 1 .. (N + 2) : k \in 1 .. (N - 1) \/ k = N \/ k = N + 1 \/ k = N + 2
    BY <1>5
<1> QED
    BY <1>1, <1>6, <1>8, <1>9, <1>10 DEF N, t, Pushed

Swapped(S, st, a, t) ==
    /\ t \in Seq(S) /\ Len(t) = Len(st) /\ t[Len(st)] = a
    /\ \A k \in 1 .. (Len(st) - 1) : t[k] = st[k]
    /\ \A k \in 1 .. Len(t) : k \in 1 .. (Len(st) - 1) \/ k = Len(st)

LEMMA SwapIs ==
    ASSUME NEW S, NEW st \in Seq(S), st # <<>>, NEW a \in S
    PROVE  Swapped(S, st, a, Swap(st, a))
<1> DEFINE t == Swap(st, a)
           p == Pop(st)
           q == <<a>>
<1>1. /\ Len(st) \in Nat /\ Len(st) > 0 /\ p \in Seq(S) /\ Len(p) = Len(st) - 1
      /\ \A k \in 1 .. (Len(st) - 1) : p[k] = st[k]
    BY PopIs
<1>2. q \in Seq(S) /\ Len(q) = 1 /\ q[1] = a
    OBVIOUS
<1> HIDE DEF p, q, t
<1>3. /\ p \o q \in Seq(S) /\ Len(p \o q) = Len(p) + Len(q)
      /\ \A k \in 1 .. Len(p) + Len(q) : (p \o q)[k] = IF k <= Len(p) THEN p[k] ELSE q[k - Len(p)]
    BY <1>1, <1>2, ConcatProperties
<1>4. t = p \o q
    BY DEF Swap, Pop, p, q, t
<1> DEFINE N == Len(st)
<1>5. N \in Nat /\ N > 0 /\ Len(p) = N - 1 /\ Len(p) + Len(q) = N
    BY <1>1, <1>2
<1> HIDE DEF N
<1>6. /\ t \in Seq(S) /\ Len(t) = N
      /\ \A k \in 1 .. N : t[k] = IF k <= N - 1 THEN p[k] ELSE q[k - (N - 1)]
    BY <1>3, <1>4, <1>5
<1>7. N \in 1 .. N /\ ~(N <= N - 1) /\ N - (N - 1) = 1
    BY <1>5
<1>8. t[N] = a
    <2>1. t[N] = q[1]
        BY <1>6, <1>7
    <2> QED
        BY <1>2, <2>1
<1>9. (\A k \in 1 .. (N - 1) : t[k] = p[k]) /\ \A k \in 1 .. N : k \in 1 .. (N - 1) \/ k = N
    BY <1>5, <1>6
<1> QED
    BY <1>1, <1>6, <1>8, <1>9 DEF N, t, Swapped

LEMMA FrameIs ==
    ASSUME NEW F, NEW e \in Frames(F)
    PROVE  e[1] \in F /\ e[2] \in 0 .. MaxNodes /\ e[2] \in Nat /\ e[3] \in {"enter", "leave"} /\ e = <<e[1], e[2], e[3]>>
BY MaxNodesNat DEF Frames

LEMMA FrameOf ==
    ASSUME NEW F, NEW f \in F, NEW v \in 0 .. MaxNodes, NEW m \in {"enter", "leave"}
    PROVE  <<f, v, m>> \in Frames(F) /\ <<f, v, m>>[1] = f /\ <<f, v, m>>[2] = v /\ <<f, v, m>>[3] = m
BY DEF Frames

\* A traversal starts with the root.
Started(f, r, st) == Len(st) = 1 /\ st[1][1] = f /\ st[1][2] = r /\ st[1][3] = "enter"

LEMMA StackStarts ==
    ASSUME NEW F, NEW P, Graph(P), NEW r \in Nodes, NEW f \in F
    PROVE  /\ StackOK(F, P, r, <<<<f, r, "enter">>>>)
           /\ Started(f, r, <<<<f, r, "enter">>>>)
<1> DEFINE e == <<f, r, "enter">>
<1>1. r \in 0 .. MaxNodes /\ r \in ReachIn(P, r)
    BY MaxNodesNat, ReachFacts DEF Nodes
<1>2. e \in Frames(F) /\ e[1] = f /\ e[2] = r /\ e[3] = "enter"
    BY <1>1, FrameOf
<1> HIDE DEF e
<1>3. <<e>> \in Seq(Frames(F)) /\ Len(<<e>>) = 1 /\ <<e>>[1] = e
    BY <1>2
<1>4. StackOK(F, P, r, <<e>>)
    BY <1>1, <1>2, <1>3 DEF StackOK
<1> QED
    BY <1>2, <1>3, <1>4 DEF e, Started

\* The stack without its top.
Shorter(st, t) ==
    /\ Len(st) \in Nat /\ Len(st) > 0 /\ Len(t) = Len(st) - 1
    /\ \A k \in 1 .. Len(t) : t[k] = st[k] /\ k \in 1 .. Len(st) /\ k # Len(st)
    /\ \A k \in 1 .. Len(st) : k \in 1 .. Len(t) \/ k = Len(st)

LEMMA StackPops ==
    ASSUME NEW F, NEW P, NEW r, NEW st, StackOK(F, P, r, st), st # <<>>
    PROVE  StackOK(F, P, r, Pop(st)) /\ Shorter(st, Pop(st))
<1>1. /\ Len(st) \in Nat /\ Len(st) > 0
      /\ Pop(st) \in Seq(Frames(F)) /\ Len(Pop(st)) = Len(st) - 1
      /\ \A k \in 1 .. (Len(st) - 1) : Pop(st)[k] = st[k] /\ k \in 1 .. Len(st)
    BY PopIs DEF StackOK
<1> DEFINE t == Pop(st)
<1> HIDE DEF t
<1>2. Shorter(st, t)
    BY <1>1 DEF Shorter, t
<1>3. StackOK(F, P, r, t)
    BY <1>1, <1>2 DEF StackOK, Shorter, t
<1> QED
    BY <1>2, <1>3 DEF t

\* The frames of a node and its parents, in place of the node on top.
Descent(f, P, v, st) == Push(st, <<f, v, "leave">>, <<f, P[v][2], "enter">>, <<f, P[v][1], "enter">>)

Deeper(f, P, v, st, t) ==
    /\ Len(st) \in Nat /\ Len(st) > 0 /\ Len(t) = Len(st) + 2
    /\ t[Len(st)][1] = f /\ t[Len(st)][2] = v /\ t[Len(st)][3] = "leave"
    /\ t[Len(st) + 1][1] = f /\ t[Len(st) + 1][2] = P[v][2] /\ t[Len(st) + 1][3] = "enter"
    /\ t[Len(st) + 2][1] = f /\ t[Len(st) + 2][2] = P[v][1] /\ t[Len(st) + 2][3] = "enter"
    /\ \A k \in 1 .. Len(st) : k # Len(st) => t[k] = st[k] /\ k \in 1 .. Len(t)
    /\ \A k \in 1 .. Len(t) : \/ k \in 1 .. Len(st) /\ k # Len(st)
                              \/ k = Len(st) \/ k = Len(st) + 1 \/ k = Len(st) + 2

LEMMA StackPushes ==
    ASSUME NEW F, NEW P, Graph(P), NEW r \in Nodes, NEW st, StackOK(F, P, r, st), st # <<>>,
           NEW f \in F, NEW v, v = st[Len(st)][2], v # Null
    PROVE  /\ StackOK(F, P, r, Descent(f, P, v, st))
           /\ Deeper(f, P, v, st, Descent(f, P, v, st))
           /\ v \in ReachIn(P, r)
<1> DEFINE a == <<f, v, "leave">>
           b == <<f, P[v][2], "enter">>
           c == <<f, P[v][1], "enter">>
           L == Len(st)
           G == ReachIn(P, r)
           t == Push(st, a, b, c)
<1>1. st \in Seq(Frames(F)) /\ L \in Nat /\ L > 0 /\ L \in 1 .. L
    <2>1. st \in Seq(Frames(F))
        BY DEF StackOK
    <2> QED
        BY <2>1, EmptySeq
<1>2. v \in G /\ v \in Nodes
    <2>1. v \in G
        BY <1>1 DEF StackOK
    <2> QED
        BY <2>1, ReachFacts
<1>3. /\ v \in 0 .. MaxNodes /\ v \in Nat
      /\ P[v][1] \in 0 .. MaxNodes /\ P[v][1] \in Nat /\ P[v][1] < v /\ (P[v][1] # Null => P[v][1] \in G)
      /\ P[v][2] \in 0 .. MaxNodes /\ P[v][2] \in Nat /\ P[v][2] < v /\ (P[v][2] # Null => P[v][2] \in G)
    <2>1. v \in Nat /\ v <= MaxNodes /\ P[v][1] \in 0 .. (v - 1) /\ P[v][2] \in 0 .. (v - 1)
        BY <1>2, ParentsBelow
    <2>2. (P[v][1] # Null => P[v][1] \in G) /\ (P[v][2] # Null => P[v][2] \in G)
        BY <1>2, ReachFacts DEF Closed
    <2> HIDE DEF G
    <2> QED
        BY <2>1, <2>2, MaxNodesNat
<1>4. /\ a \in Frames(F) /\ b \in Frames(F) /\ c \in Frames(F)
      /\ a[1] = f /\ a[2] = v /\ a[3] = "leave"
      /\ b[1] = f /\ b[2] = P[v][2] /\ b[3] = "enter"
      /\ c[1] = f /\ c[2] = P[v][1] /\ c[3] = "enter"
    BY <1>3, FrameOf
<1> HIDE DEF a, b, c, G
<1>5. /\ t \in Seq(Frames(F)) /\ Len(t) = L + 2
      /\ t[L] = a /\ t[L + 1] = b /\ t[L + 2] = c
      /\ \A k \in 1 .. (L - 1) : t[k] = st[k]
      /\ \A k \in 1 .. Len(t) : k \in 1 .. (L - 1) \/ k = L \/ k = L + 1 \/ k = L + 2
    <2>1. Pushed(Frames(F), st, a, b, c, t)
        BY <1>1, <1>4, PushIs
    <2> HIDE DEF t
    <2> QED
        BY <2>1 DEF Pushed
<1> HIDE DEF t
<1>6. /\ \A k \in 1 .. L : /\ st[k][2] # Null => st[k][2] \in G
                           /\ st[k][3] = "leave" => st[k][2] # Null
      /\ \A j, k \in 1 .. L : j < k /\ st[j][3] = "leave" => st[k][2] < st[j][2]
    BY DEF StackOK, G
<1>7. ASSUME NEW k \in 1 .. Len(t)
      PROVE  (t[k][2] # Null => t[k][2] \in G) /\ (t[k][3] = "leave" => t[k][2] # Null)
    <2>1. CASE k \in 1 .. (L - 1)
        BY <1>1, <1>5, <1>6, <2>1
    <2>2. CASE k \notin 1 .. (L - 1)
        BY <1>2, <1>3, <1>4, <1>5, <2>2
    <2> QED
        BY <2>1, <2>2
<1>8. ASSUME NEW j \in 1 .. Len(t), NEW k \in 1 .. Len(t), j < k, t[j][3] = "leave"
      PROVE  t[k][2] < t[j][2]
    <2>1. CASE j \in 1 .. (L - 1)
        <3>1. t[j] = st[j] /\ st[L][2] < st[j][2] /\ j \in 1 .. L /\ st[j][2] \in Nat
            <4>1. t[j] = st[j] /\ j \in 1 .. L /\ j < L
                BY <1>1, <1>5, <2>1
            <4>2. st[j] \in Frames(F)
                BY <1>1, <4>1
            <4> QED
                BY <1>1, <1>6, <1>8, <4>1, <4>2, FrameIs
        <3>2. CASE k \in 1 .. (L - 1)
            BY <1>1, <1>5, <1>6, <1>8, <3>1, <3>2
        <3>3. CASE k \notin 1 .. (L - 1)
            <4>1. t[k][2] = v \/ t[k][2] = P[v][1] \/ t[k][2] = P[v][2]
                BY <1>4, <1>5, <3>3
            <4> QED
                BY <1>3, <3>1, <4>1
        <3> QED
            BY <3>2, <3>3
    <2>2. CASE j \notin 1 .. (L - 1)
        <3>1. j = L /\ (k = L + 1 \/ k = L + 2)
            BY <1>1, <1>4, <1>5, <1>8, <2>2
        <3> QED
            BY <1>3, <1>4, <1>5, <3>1
    <2> QED
        BY <2>1, <2>2
<1>9. StackOK(F, P, r, t)
    BY <1>5, <1>7, <1>8 DEF StackOK, G
<1>10. Deeper(f, P, v, st, t)
    <2>1. /\ \A k \in 1 .. L : k # L => t[k] = st[k] /\ k \in 1 .. Len(t)
          /\ \A k \in 1 .. (L - 1) : k \in 1 .. L /\ k # L
        BY <1>1, <1>5
    <2> QED
        BY <1>1, <1>4, <1>5, <2>1 DEF Deeper
<1>11. t = Descent(f, P, v, st)
    BY DEF t, a, b, c, Descent
<1> QED
    BY <1>2, <1>9, <1>10, <1>11 DEF G

-----------------------------------------------------------------------------
(* The traversals that count, unmark and order                              *)

\* A frame above position k will enter w.
Waiting(st, k, w) == \E j \in 1 .. Len(st) : j > k /\ st[j][2] = w /\ st[j][3] = "enter"

Covered(st, Seen, k, w) == w = Null \/ w \in Seen \/ Waiting(st, k, w)

\* Seen holds the nodes the traversal has gone down; the parents of each are
\* seen or wait, those of a node to be left above its own frame.
Walk(f, P, r, st, Seen) ==
    /\ StackOK({f}, P, r, st)
    /\ Seen \subseteq ReachIn(P, r)
    /\ Covered(st, Seen, 0, r)
    /\ \A u \in Seen : \A c \in {1, 2} : Covered(st, Seen, 0, P[u][c])
    /\ \A k \in 1 .. Len(st) : st[k][3] = "leave" =>
          st[k][2] \in Seen /\ \A c \in {1, 2} : Covered(st, Seen, k, P[st[k][2]][c])

LEMMA WalkStarts ==
    ASSUME NEW P, Graph(P), NEW r \in Nodes, NEW f
    PROVE  Walk(f, P, r, <<<<f, r, "enter">>>>, {})
<1> DEFINE st == <<<<f, r, "enter">>>>
<1>1. StackOK({f}, P, r, st) /\ Started(f, r, st)
    BY StackStarts
<1> HIDE DEF st
<1>2. Waiting(st, 0, r)
    BY <1>1 DEF Started, Waiting
<1>3. \A k \in 1 .. Len(st) : st[k][3] # "leave"
    BY <1>1 DEF Started
<1>4. Walk(f, P, r, st, {})
    BY <1>1, <1>2, <1>3 DEF Walk, Covered
<1> QED
    BY <1>4 DEF st

LEMMA TopIs ==
    ASSUME NEW F, NEW P, Graph(P), NEW r \in Nodes, NEW st, StackOK(F, P, r, st), st # <<>>
    PROVE  /\ Len(st) \in Nat /\ Len(st) > 0 /\ Len(st) \in 1 .. Len(st)
           /\ st[Len(st)][1] \in F /\ st[Len(st)][3] \in {"enter", "leave"}
           /\ st[Len(st)][2] \in 0 .. MaxNodes
           /\ st[Len(st)][2] # Null => st[Len(st)][2] \in ReachIn(P, r) /\ st[Len(st)][2] \in Nodes
           /\ st[Len(st)][3] = "leave" => st[Len(st)][2] # Null
<1>1. st \in Seq(Frames(F))
    BY DEF StackOK
<1>2. Len(st) \in Nat /\ Len(st) > 0
    BY <1>1, EmptySeq
<1> DEFINE L == Len(st)
           e == st[L]
<1>3. L \in 1 .. L
    BY <1>2
<1>4. e \in Frames(F)
    BY <1>1, <1>3
<1>5. (e[2] # Null => e[2] \in ReachIn(P, r)) /\ (e[3] = "leave" => e[2] # Null)
    BY <1>3 DEF StackOK
<1> HIDE DEF e
<1>6. e[1] \in F /\ e[3] \in {"enter", "leave"} /\ e[2] \in 0 .. MaxNodes
    BY <1>4, FrameIs
<1>7. e[2] # Null => e[2] \in Nodes
    BY <1>5, ReachFacts
<1> QED
    BY <1>2, <1>3, <1>5, <1>6, <1>7 DEF e

\* The node on top is seen, and its parents wait above it.
LEMMA WalkEnters ==
    ASSUME NEW P, Graph(P), NEW r \in Nodes, NEW f, NEW st, NEW Seen, Walk(f, P, r, st, Seen), st # <<>>,
           NEW v, v = st[Len(st)][2], v # Null
    PROVE  Walk(f, P, r, Descent(f, P, v, st), Seen \cup {v})
<1> DEFINE t == Descent(f, P, v, st)
           L == Len(st)
           S == Seen \cup {v}
<1>1. StackOK({f}, P, r, st)
    BY DEF Walk
<1>2. StackOK({f}, P, r, t) /\ Deeper(f, P, v, st, t) /\ v \in ReachIn(P, r)
    BY <1>1, StackPushes
<1> HIDE DEF t
<1>3. L \in Nat /\ L > 0 /\ Len(t) = L + 2
    BY <1>2 DEF Deeper
<1>4. ASSUME NEW k, NEW w, Covered(st, Seen, k, w) PROVE Covered(t, S, k, w)
    <2>1. SUFFICES ASSUME NEW j \in 1 .. L, j > k, st[j][2] = w, st[j][3] = "enter", j # L
                   PROVE  Waiting(t, k, w)
        BY <1>4 DEF Covered, Waiting
    <2>2. t[j] = st[j] /\ j \in 1 .. Len(t)
        BY <1>2, <2>1 DEF Deeper
    <2> QED
        BY <2>1, <2>2 DEF Waiting
<1>5. ASSUME NEW c \in {1, 2}, NEW k, k = 0 \/ k = L PROVE Covered(t, S, k, P[v][c])
    <2>1. L + 1 \in 1 .. Len(t) /\ L + 1 > k /\ L + 2 \in 1 .. Len(t) /\ L + 2 > k
        BY <1>3, <1>5
    <2>2. /\ t[L + 1][2] = P[v][2] /\ t[L + 1][3] = "enter"
          /\ t[L + 2][2] = P[v][1] /\ t[L + 2][3] = "enter"
        BY <1>2 DEF Deeper
    <2> QED
        BY <2>1, <2>2 DEF Covered, Waiting
<1>6. S \subseteq ReachIn(P, r) /\ Covered(t, S, 0, r)
    BY <1>2, <1>4 DEF Walk
<1>7. ASSUME NEW u \in S, NEW c \in {1, 2} PROVE Covered(t, S, 0, P[u][c])
    BY <1>4, <1>5 DEF Walk
<1>8. ASSUME NEW k \in 1 .. Len(t), t[k][3] = "leave"
      PROVE  t[k][2] \in S /\ \A c \in {1, 2} : Covered(t, S, k, P[t[k][2]][c])
    <2>1. CASE k \in 1 .. L /\ k # L
        <3>1. t[k] = st[k]
            BY <1>2, <2>1 DEF Deeper
        <3>2. st[k][2] \in Seen /\ \A c \in {1, 2} : Covered(st, Seen, k, P[st[k][2]][c])
            BY <1>8, <2>1, <3>1 DEF Walk
        <3> QED
            BY <1>4, <3>1, <3>2
    <2>2. CASE ~(k \in 1 .. L /\ k # L)
        <3>1. k = L /\ t[k][2] = v
            BY <1>2, <1>8, <2>2 DEF Deeper
        <3> QED
            BY <1>5, <3>1
    <2> QED
        BY <2>1, <2>2
<1>9. Walk(f, P, r, t, S)
    <2> HIDE DEF S
    <2> QED
        BY <1>2, <1>6, <1>7, <1>8 DEF Walk
<1> QED
    BY <1>9 DEF t

\* A node that is left, NULL and a node seen before are dropped.
LEMMA WalkPops ==
    ASSUME NEW P, Graph(P), NEW r \in Nodes, NEW f, NEW st, NEW Seen, Walk(f, P, r, st, Seen), st # <<>>,
           st[Len(st)][3] = "leave" \/ st[Len(st)][2] = Null \/ st[Len(st)][2] \in Seen
    PROVE  Walk(f, P, r, Pop(st), Seen)
<1> DEFINE t == Pop(st)
<1>1. StackOK({f}, P, r, t) /\ Shorter(st, t)
    BY StackPops DEF Walk
<1> HIDE DEF t
<1>2. ASSUME NEW k, NEW w, Covered(st, Seen, k, w) PROVE Covered(t, Seen, k, w)
    <2>1. SUFFICES ASSUME NEW j \in 1 .. Len(st), j > k, st[j][2] = w, st[j][3] = "enter", j # Len(st)
                   PROVE  Waiting(t, k, w)
        BY <1>2 DEF Covered, Waiting
    <2>2. t[j] = st[j] /\ j \in 1 .. Len(t)
        BY <1>1, <2>1 DEF Shorter
    <2> QED
        BY <2>1, <2>2 DEF Waiting
<1>3. /\ Seen \subseteq ReachIn(P, r) /\ Covered(t, Seen, 0, r)
      /\ \A u \in Seen : \A c \in {1, 2} : Covered(t, Seen, 0, P[u][c])
    BY <1>2 DEF Walk
<1>4. ASSUME NEW k \in 1 .. Len(t), t[k][3] = "leave"
      PROVE  t[k][2] \in Seen /\ \A c \in {1, 2} : Covered(t, Seen, k, P[t[k][2]][c])
    <2>1. t[k] = st[k] /\ k \in 1 .. Len(st)
        BY <1>1 DEF Shorter
    <2>2. st[k][2] \in Seen /\ \A c \in {1, 2} : Covered(st, Seen, k, P[st[k][2]][c])
        BY <1>4, <2>1 DEF Walk
    <2> QED
        BY <1>2, <2>1, <2>2
<1>5. Walk(f, P, r, t, Seen)
    BY <1>1, <1>3, <1>4 DEF Walk
<1> QED
    BY <1>5 DEF t

LEMMA WalkEnds ==
    ASSUME NEW P, Graph(P), NEW r \in Nodes, NEW f, NEW Seen, Walk(f, P, r, <<>>, Seen)
    PROVE  Seen = ReachIn(P, r)
<1>1. ~\E j \in 1 .. Len(<<>>) : TRUE
    OBVIOUS
<1>2. \A k, w : ~Waiting(<<>>, k, w)
    BY <1>1 DEF Waiting
<1>3. Seen \subseteq ReachIn(P, r) /\ Covered(<<>>, Seen, 0, r)
      /\ \A u \in Seen : \A c \in {1, 2} : Covered(<<>>, Seen, 0, P[u][c])
    BY DEF Walk
<1>4. r \in Seen /\ Closed(P, Seen)
    <2>1. r # Null
        BY DEF Nodes, Null
    <2> QED
        BY <1>2, <1>3, <2>1 DEF Covered, Closed
<1>5. Seen \in SUBSET Nodes
    BY <1>3, ReachFacts
<1> QED
    BY <1>3, <1>4, <1>5, ReachFacts

LEMMA ReachIsFinite ==
    ASSUME NEW P, Graph(P), NEW r \in Nodes
    PROVE  /\ IsFiniteSet(ReachIn(P, r)) /\ r \in Nat
           /\ \A S \in SUBSET ReachIn(P, r) :
                 /\ IsFiniteSet(S) /\ Cardinality(S) \in Nat /\ Cardinality(S) <= r
                 /\ \A v \in ReachIn(P, r) \ S :
                       /\ Cardinality(S \cup {v}) = Cardinality(S) + 1
                       /\ Cardinality(S) < Cardinality(ReachIn(P, r))
<1> DEFINE G == ReachIn(P, r)
<1>1. G \subseteq 1 .. r /\ r \in Nat
    BY ReachFacts, ParentsBelow
<1>2. IsFiniteSet(1 .. r) /\ Cardinality(1 .. r) = r
    <2>1. Cardinality(1 .. r) = r
        BY <1>1, FS_Interval
    <2> QED
        BY <1>1, <2>1, FS_Interval
<1>3. IsFiniteSet(G)
    BY <1>1, <1>2, FS_Subset
<1> HIDE DEF G
<1>4. ASSUME NEW S \in SUBSET G
      PROVE  IsFiniteSet(S) /\ Cardinality(S) \in Nat /\ Cardinality(S) <= r
    <2>1. IsFiniteSet(S) /\ S \subseteq 1 .. r
        BY <1>1, <1>3, FS_Subset
    <2>2. Cardinality(S) <= Cardinality(1 .. r)
        BY <1>2, <2>1, FS_Subset
    <2> QED
        BY <1>2, <2>1, <2>2, FS_CardinalityType
<1>5. ASSUME NEW S \in SUBSET G, NEW v \in G \ S
      PROVE  Cardinality(S \cup {v}) = Cardinality(S) + 1 /\ Cardinality(S) < Cardinality(G)
    <2>1. IsFiniteSet(S) /\ Cardinality(S) \in Nat
        BY <1>4
    <2>2. Cardinality(S \cup {v}) = Cardinality(S) + 1
        BY <2>1, FS_AddElement
    <2>3. Cardinality(S \cup {v}) <= Cardinality(G)
        <3>1. S \cup {v} \subseteq G
            OBVIOUS
        <3> QED
            BY <1>3, <3>1, FS_Subset
    <2>4. Cardinality(G) \in Nat
        BY <1>3, FS_CardinalityType
    <2> QED
        BY <2>1, <2>2, <2>3, <2>4
<1> QED
    BY <1>1, <1>3, <1>4, <1>5 DEF G

\* The nodes gone down are in the order or still to be left, and those in the
\* order have their parents before them.
Ordering(f, P, r, st, Seen, s) ==
    /\ Walk(f, P, r, st, Seen)
    /\ s \in Seq(Nodes) /\ Distinct(s) /\ ParentsFirst(P, s)
    /\ Members(s) \subseteq Seen /\ Cardinality(Members(s)) = Len(s)
    /\ \A u \in Seen : u \in Members(s) \/ \E k \in 1 .. Len(st) : st[k][2] = u /\ st[k][3] = "leave"
    /\ \A k \in 1 .. Len(st) : st[k][3] = "leave" => st[k][2] \notin Members(s)

LEMMA OrderingStarts ==
    ASSUME NEW P, Graph(P), NEW r \in Nodes, NEW f
    PROVE  Ordering(f, P, r, <<<<f, r, "enter">>>>, {}, <<>>)
<1> DEFINE st == <<<<f, r, "enter">>>>
<1>1. StackOK({f}, P, r, st) /\ Started(f, r, st) /\ Walk(f, P, r, st, {})
    BY StackStarts, WalkStarts
<1> HIDE DEF st
<1>2. \A k \in 1 .. Len(st) : st[k][3] # "leave"
    BY <1>1 DEF Started
<1>3. /\ <<>> \in Seq(Nodes) /\ Len(<<>>) = 0 /\ Distinct(<<>>) /\ ParentsFirst(P, <<>>)
      /\ Members(<<>>) = {}
    BY DEF Distinct, ParentsFirst, Members
<1>4. Cardinality({}) = 0
    BY FS_EmptySet
<1>5. Ordering(f, P, r, st, {}, <<>>)
    BY <1>1, <1>2, <1>3, <1>4 DEF Ordering
<1> QED
    BY <1>5 DEF st

LEMMA OrderingEnters ==
    ASSUME NEW P, Graph(P), NEW r \in Nodes, NEW f, NEW st, NEW Seen, NEW s, Ordering(f, P, r, st, Seen, s),
           st # <<>>, NEW v, v = st[Len(st)][2], v # Null, v \notin Seen, st[Len(st)][3] = "enter"
    PROVE  Ordering(f, P, r, Descent(f, P, v, st), Seen \cup {v}, s)
<1> DEFINE t == Descent(f, P, v, st)
           L == Len(st)
<1>1. StackOK({f}, P, r, st) /\ Walk(f, P, r, st, Seen)
    BY DEF Ordering, Walk
<1>2. Deeper(f, P, v, st, t)
    BY <1>1, StackPushes
<1>3. Walk(f, P, r, t, Seen \cup {v})
    BY <1>1, WalkEnters
<1> HIDE DEF t
<1>4. /\ L \in 1 .. Len(t) /\ t[L][2] = v /\ t[L][3] = "leave"
    BY <1>2 DEF Deeper
<1>5. ASSUME NEW u \in Seen \cup {v}
      PROVE  u \in Members(s) \/ \E k \in 1 .. Len(t) : t[k][2] = u /\ t[k][3] = "leave"
    <2>1. CASE u = v
        BY <1>4, <2>1
    <2>2. ASSUME NEW k \in 1 .. Len(st), st[k][2] = u, st[k][3] = "leave"
          PROVE  \E q \in 1 .. Len(t) : t[q][2] = u /\ t[q][3] = "leave"
        <3>1. t[k] = st[k] /\ k \in 1 .. Len(t)
            BY <1>2, <2>2 DEF Deeper
        <3> QED
            BY <2>2, <3>1
    <2> QED
        BY <2>1, <2>2 DEF Ordering
<1>6. ASSUME NEW k \in 1 .. Len(t), t[k][3] = "leave" PROVE t[k][2] \notin Members(s)
    <2>1. CASE k = L
        BY <1>4, <2>1 DEF Ordering
    <2>2. CASE k # L
        <3>1. k \in 1 .. Len(st) /\ t[k] = st[k]
            BY <1>2, <1>6, <2>2 DEF Deeper
        <3> QED
            BY <1>6, <3>1 DEF Ordering
    <2> QED
        BY <2>1, <2>2
<1>7. Ordering(f, P, r, t, Seen \cup {v}, s)
    BY <1>3, <1>5, <1>6 DEF Ordering
<1> QED
    BY <1>7 DEF t

LEMMA OrderingSkips ==
    ASSUME NEW P, Graph(P), NEW r \in Nodes, NEW f, NEW st, NEW Seen, NEW s, Ordering(f, P, r, st, Seen, s),
           st # <<>>, st[Len(st)][2] = Null \/ st[Len(st)][2] \in Seen, st[Len(st)][3] = "enter"
    PROVE  Ordering(f, P, r, Pop(st), Seen, s)
<1> DEFINE t == Pop(st)
<1>1. Shorter(st, t)
    BY StackPops DEF Ordering, Walk
<1>2. Walk(f, P, r, t, Seen)
    BY WalkPops DEF Ordering
<1> HIDE DEF t
<1>3. ASSUME NEW u \in Seen
      PROVE  u \in Members(s) \/ \E k \in 1 .. Len(t) : t[k][2] = u /\ t[k][3] = "leave"
    <2>1. ASSUME NEW k \in 1 .. Len(st), st[k][2] = u, st[k][3] = "leave"
          PROVE  \E q \in 1 .. Len(t) : t[q][2] = u /\ t[q][3] = "leave"
        <3>1. t[k] = st[k] /\ k \in 1 .. Len(t)
            BY <1>1, <2>1 DEF Shorter
        <3> QED
            BY <2>1, <3>1
    <2> QED
        BY <2>1 DEF Ordering
<1>4. ASSUME NEW k \in 1 .. Len(t), t[k][3] = "leave" PROVE t[k][2] \notin Members(s)
    BY <1>1, <1>4 DEF Shorter, Ordering
<1>5. Ordering(f, P, r, t, Seen, s)
    BY <1>2, <1>3, <1>4 DEF Ordering
<1> QED
    BY <1>5 DEF t

\* A node is left once its parents are in the order, and there is room for it.
LEMMA OrderingLeaves ==
    ASSUME NEW P, Graph(P), NEW r \in Nodes, NEW f, NEW st, NEW Seen, NEW s, Ordering(f, P, r, st, Seen, s),
           st # <<>>, NEW v, v = st[Len(st)][2], st[Len(st)][3] = "leave"
    PROVE  /\ Ordering(f, P, r, Pop(st), Seen, Append(s, v))
           /\ Len(s) < Cardinality(ReachIn(P, r))
           /\ Len(Append(s, v)) = Len(s) + 1
<1> DEFINE t == Pop(st)
           L == Len(st)
           q == Append(s, v)
           m == Len(s)
<1>1. StackOK({f}, P, r, st) /\ Walk(f, P, r, st, Seen)
    BY DEF Ordering, Walk
<1>2. Shorter(st, t)
    BY <1>1, StackPops
<1>3. Walk(f, P, r, t, Seen)
    BY <1>1, WalkPops
<1>4. L \in 1 .. L /\ L \in Nat /\ v \in Nodes /\ v \in ReachIn(P, r)
    BY <1>1, TopIs
<1> HIDE DEF t
<1>5. v \in Seen /\ v \notin Members(s)
    BY <1>1, <1>4 DEF Walk, Ordering
<1>6. s \in Seq(Nodes) /\ m \in Nat
    BY DEF Ordering
<1>7. /\ q \in Seq(Nodes) /\ Len(q) = m + 1 /\ q[m + 1] = v
      /\ \A k \in 1 .. m : q[k] = s[k] /\ k \in 1 .. Len(q)
      /\ \A k \in 1 .. Len(q) : k \in 1 .. m \/ k = m + 1
    BY <1>4, <1>6, AppendProperties
<1> HIDE DEF q, m
<1>8. Members(q) = Members(s) \cup {v}
    <2>1. m + 1 \in 1 .. Len(q)
        BY <1>6, <1>7
    <2> QED
        BY <1>7, <2>1 DEF Members, m
<1>9. Distinct(q)
    <2>1. SUFFICES ASSUME NEW j \in 1 .. Len(q), NEW k \in 1 .. Len(q), q[j] = q[k] PROVE j = k
        BY DEF Distinct
    <2>2. \A k1 \in 1 .. m : s[k1] # v
        BY <1>5 DEF Members, m
    <2> QED
        BY <1>7, <2>1, <2>2 DEF Ordering, Distinct, m
<1>10. ASSUME NEW c \in {1, 2}, P[v][c] # Null
       PROVE  \E k \in 1 .. m : s[k] = P[v][c]
    <2> DEFINE w == P[v][c]
    <2>1. w \in Nat /\ v \in Nat /\ w < v
        BY <1>4, ParentsBelow
    <2> HIDE DEF w
    <2>2. Covered(st, Seen, L, w)
        BY <1>1, <1>4 DEF Walk, w
    <2>3. ~Waiting(st, L, w)
        BY <1>4 DEF Waiting
    <2>4. w \in Seen
        BY <1>10, <2>2, <2>3 DEF Covered, w
    <2>5. ASSUME NEW k \in 1 .. L, st[k][2] = w, st[k][3] = "leave" PROVE FALSE
        <3>1. k # L
            BY <2>1, <2>5
        <3>2. v < w
            BY <1>1, <1>4, <2>5, <3>1 DEF StackOK
        <3> QED
            BY <2>1, <3>2
    <2>6. w \in Members(s)
        BY <2>4, <2>5 DEF Ordering
    <2> QED
        BY <2>6 DEF Members, w, m
<1>11. ParentsFirst(P, q)
    <2>1. SUFFICES ASSUME NEW j \in 1 .. Len(q), NEW c \in {1, 2}, P[q[j]][c] # Null
                   PROVE  \E k \in 1 .. (j - 1) : q[k] = P[q[j]][c]
        BY DEF ParentsFirst
    <2>2. CASE j = m + 1
        <3>1. q[j] = v
            BY <1>7, <2>2
        <3>2. PICK k \in 1 .. m : s[k] = P[v][c]
            BY <1>10, <2>1, <3>1
        <3>3. k \in 1 .. (j - 1)
            BY <1>6, <2>2
        <3> QED
            BY <1>7, <3>1, <3>2, <3>3
    <2>3. CASE j \in 1 .. m
        <3>1. PICK k \in 1 .. (j - 1) : s[k] = P[s[j]][c]
            BY <1>7, <2>1, <2>3 DEF Ordering, ParentsFirst, m
        <3>2. k \in 1 .. m
            BY <1>6, <2>3
        <3> QED
            BY <1>7, <2>3, <3>1, <3>2
    <2> QED
        BY <1>7, <2>2, <2>3
<1>12. Members(q) \subseteq Seen /\ Cardinality(Members(q)) = Len(q) /\ Len(s) < Cardinality(ReachIn(P, r))
    <2>1. Members(s) \in SUBSET ReachIn(P, r) /\ v \in ReachIn(P, r) \ Members(s) /\ Members(s) \subseteq Seen
        BY <1>4, <1>5 DEF Ordering, Walk
    <2>2. Cardinality(Members(s)) = m
        BY DEF Ordering, m
    <2>3. Cardinality(Members(q)) = m + 1 /\ m < Cardinality(ReachIn(P, r))
        <3>1. PICK S : S = Members(s)
            OBVIOUS
        <3>2. Cardinality(S \cup {v}) = Cardinality(S) + 1 /\ Cardinality(S) < Cardinality(ReachIn(P, r))
            BY <2>1, <3>1, ReachIsFinite
        <3> QED
            BY <1>8, <2>2, <3>1, <3>2
    <2> QED
        BY <1>5, <1>7, <1>8, <2>1, <2>3 DEF m
<1>13. ASSUME NEW u \in Seen
       PROVE  u \in Members(q) \/ \E k \in 1 .. Len(t) : t[k][2] = u /\ t[k][3] = "leave"
    <2>1. ASSUME NEW k \in 1 .. Len(st), st[k][2] = u, st[k][3] = "leave", u # v
          PROVE  \E j \in 1 .. Len(t) : t[j][2] = u /\ t[j][3] = "leave"
        <3>1. t[k] = st[k] /\ k \in 1 .. Len(t)
            BY <1>2, <2>1 DEF Shorter
        <3> QED
            BY <2>1, <3>1
    <2> QED
        BY <1>8, <2>1 DEF Ordering
<1>14. ASSUME NEW k \in 1 .. Len(t), t[k][3] = "leave" PROVE t[k][2] \notin Members(q)
    <2>1. t[k] = st[k] /\ k \in 1 .. Len(st) /\ k < L
        BY <1>2, <1>4 DEF Shorter
    <2>2. st[k][2] \notin Members(s)
        BY <1>14, <2>1 DEF Ordering
    <2>3. v < st[k][2]
        BY <1>1, <1>4, <1>14, <2>1 DEF StackOK
    <2>4. v \in Nat
        BY <1>4, ParentsBelow
    <2> QED
        BY <1>8, <2>1, <2>2, <2>3, <2>4
<1>15. Ordering(f, P, r, t, Seen, q)
    BY <1>3, <1>7, <1>9, <1>11, <1>12, <1>13, <1>14 DEF Ordering
<1> QED
    BY <1>7, <1>12, <1>15 DEF t, q, m

LEMMA OrderingEnds ==
    ASSUME NEW P, Graph(P), NEW r \in Nodes, NEW f, NEW Seen, NEW s, Ordering(f, P, r, <<>>, Seen, s)
    PROVE  Ordered(P, r, s) /\ Seen = ReachIn(P, r)
<1>1. Seen = ReachIn(P, r)
    BY WalkEnds DEF Ordering
<1>2. ~\E k \in 1 .. Len(<<>>) : TRUE
    OBVIOUS
<1>3. Members(s) = Seen
    BY <1>2 DEF Ordering
<1> QED
    BY <1>1, <1>3 DEF Ordering, Ordered

-----------------------------------------------------------------------------
(* abs_scalar_zero_grad: unmarking the nodes below each node it leaves      *)

\* A frame that will unmark w.
Unmarks(e) == (e[1] = "zero" /\ e[3] = "leave") \/ (e[1] = "clear" /\ e[3] = "enter")
Unmarked(st, w) == \E k \in 1 .. Len(st) : st[k][2] = w /\ Unmarks(st[k])

\* A frame that will reset the gradient of w.
Resets(P, e, w) == e[1] = "zero" /\ e[3] = "enter" /\ w \in ReachIn(P, e[2])
Reset(P, st, w) == \E k \in 1 .. Len(st) : Resets(P, st[k], w)

\* clear runs above zero_grad; each mark will be taken back, and each gradient
\* is reset or will be.
Zeroing(P, r, st, vis, g) ==
    /\ StackOK({"zero", "clear"}, P, r, st)
    /\ \A j, k \in 1 .. Len(st) : j < k /\ st[j][1] = "clear" => st[k][1] = "clear"
    /\ \A w \in ReachIn(P, r) : (vis[w] => Unmarked(st, w)) /\ (g[w] = 0 \/ Reset(P, st, w))

LEMMA ZeroingStarts ==
    ASSUME NEW P, Graph(P), NEW r \in Nodes, NEW vis, NEW g, \A w \in ReachIn(P, r) : ~vis[w]
    PROVE  Zeroing(P, r, <<<<"zero", r, "enter">>>>, vis, g)
<1> DEFINE st == <<<<"zero", r, "enter">>>>
<1>1. StackOK({"zero", "clear"}, P, r, st) /\ Started("zero", r, st)
    BY StackStarts
<1> HIDE DEF st
<1>2. \A w \in ReachIn(P, r) : Reset(P, st, w)
    BY <1>1 DEF Started, Reset, Resets
<1>3. Zeroing(P, r, st, vis, g)
    BY <1>1, <1>2 DEF Zeroing, Started
<1> QED
    BY <1>3 DEF st

\* zero_grad meets no marked node: those on its way are larger than the node it enters.
LEMMA ZeroingMeets ==
    ASSUME NEW P, Graph(P), NEW r \in Nodes, NEW st, NEW vis, NEW g, Zeroing(P, r, st, vis, g),
           st # <<>>, st[Len(st)][1] = "zero", st[Len(st)][3] = "enter", st[Len(st)][2] # Null
    PROVE  ~vis[st[Len(st)][2]]
<1> DEFINE L == Len(st)
           v == st[L][2]
<1>1. StackOK({"zero", "clear"}, P, r, st)
    BY DEF Zeroing
<1>2. L \in Nat /\ L \in 1 .. L /\ v \in ReachIn(P, r) /\ v \in Nodes
    BY <1>1, TopIs
<1>3. v \in Nat
    BY <1>2, ParentsBelow
<1> HIDE DEF v
<1>4. vis[v] => Unmarked(st, v)
    BY <1>2, Zenon DEF Zeroing, v
<1>5. SUFFICES ASSUME NEW k \in 1 .. L, st[k][2] = v, Unmarks(st[k]) PROVE FALSE
    BY <1>4, Zenon DEF Unmarked, v
<1>6. k < L
    BY <1>2, <1>5 DEF Unmarks
<1>7. CASE st[k][1] = "zero" /\ st[k][3] = "leave"
    <2>1. v < v
        BY <1>1, <1>2, <1>5, <1>6, <1>7 DEF StackOK, v
    <2> QED
        BY <1>3, <2>1
<1>8. CASE st[k][1] = "clear"
    BY <1>2, <1>6, <1>8 DEF Zeroing
<1> QED
    BY <1>5, <1>7, <1>8 DEF Unmarks

\* What a step on the top frame does to the marks and gradients of others.
SameBelow(st, t) == \A k \in 1 .. Len(st) : k # Len(st) => k \in 1 .. Len(t) /\ t[k] = st[k]

LEMMA ZeroingKeeps ==
    ASSUME NEW st, NEW t, SameBelow(st, t), NEW P, NEW w
    PROVE  /\ Unmarked(st, w) => Unmarked(t, w) \/ (st[Len(st)][2] = w /\ Unmarks(st[Len(st)]))
           /\ Reset(P, st, w) => Reset(P, t, w) \/ Resets(P, st[Len(st)], w)
<1>1. ASSUME NEW k \in 1 .. Len(st), st[k][2] = w, Unmarks(st[k])
      PROVE  Unmarked(t, w) \/ (st[Len(st)][2] = w /\ Unmarks(st[Len(st)]))
    BY <1>1 DEF Unmarked, SameBelow
<1>2. ASSUME NEW k \in 1 .. Len(st), Resets(P, st[k], w)
      PROVE  Reset(P, t, w) \/ Resets(P, st[Len(st)], w)
    BY <1>2 DEF Reset, SameBelow
<1> QED
    BY <1>1, <1>2 DEF Unmarked, Reset

LEMMA ZeroingEnters ==
    ASSUME NEW P, Graph(P), NEW r \in Nodes, NEW st, NEW vis \in [Nodes -> BOOLEAN], NEW g \in [Nodes -> Int],
           Zeroing(P, r, st, vis, g),
           st # <<>>, st[Len(st)][1] = "zero", st[Len(st)][3] = "enter",
           NEW v, v = st[Len(st)][2], v # Null
    PROVE  Zeroing(P, r, Descent("zero", P, v, st), [vis EXCEPT ![v] = TRUE], [g EXCEPT ![v] = 0])
<1> DEFINE t == Descent("zero", P, v, st)
           L == Len(st)
           vis2 == [vis EXCEPT ![v] = TRUE]
           g2 == [g EXCEPT ![v] = 0]
<1>1. StackOK({"zero", "clear"}, P, r, st)
    BY DEF Zeroing
<1>2. /\ StackOK({"zero", "clear"}, P, r, t) /\ Deeper("zero", P, v, st, t) /\ v \in ReachIn(P, r)
    <2>1. PICK F : F = {"zero", "clear"}
        OBVIOUS
    <2>2. "zero" \in F /\ StackOK(F, P, r, st)
        BY <1>1, <2>1
    <2>3. StackOK(F, P, r, t) /\ Deeper("zero", P, v, st, t) /\ v \in ReachIn(P, r)
        BY <2>2, StackPushes
    <2> QED
        BY <2>1, <2>3
<1>3. v \in Nodes /\ \A w \in ReachIn(P, r) : w \in Nodes
    BY <1>2, ReachFacts
<1> HIDE DEF t
<1>4. L \in 1 .. Len(st) /\ L \in Nat /\ L \in 1 .. Len(t) /\ L + 1 \in 1 .. Len(t) /\ L + 2 \in 1 .. Len(t)
    BY <1>2 DEF Deeper
<1>5. /\ t[L][1] = "zero" /\ t[L][2] = v /\ t[L][3] = "leave"
      /\ t[L + 1][1] = "zero" /\ t[L + 1][2] = P[v][2] /\ t[L + 1][3] = "enter"
      /\ t[L + 2][1] = "zero" /\ t[L + 2][2] = P[v][1] /\ t[L + 2][3] = "enter"
      /\ \A k \in 1 .. Len(st) : k # L => k \in 1 .. Len(t) /\ t[k] = st[k]
      /\ \A k \in 1 .. Len(t) : (k \in 1 .. Len(st) /\ k # L) \/ k = L \/ k = L + 1 \/ k = L + 2
    BY <1>2 DEF Deeper
<1>6. SameBelow(st, t)
    BY <1>5 DEF SameBelow
<1>7. ASSUME NEW j \in 1 .. Len(t), NEW k \in 1 .. Len(t), j < k, t[j][1] = "clear" PROVE t[k][1] = "clear"
    <2>1. j \in 1 .. Len(st) /\ j # L /\ t[j] = st[j]
        BY <1>5, <1>7
    <2>2. j < L
        BY <1>4, <2>1
    <2>3. st[L][1] = "clear"
        BY <1>4, <1>7, <2>1, <2>2 DEF Zeroing
    <2> QED
        BY <2>3
<1>8. ASSUME NEW w \in ReachIn(P, r)
      PROVE  (vis2[w] => Unmarked(t, w)) /\ (g2[w] = 0 \/ Reset(P, t, w))
    <2>1. CASE w = v
        <3>1. Unmarked(t, w) /\ g2[w] = 0
            BY <1>3, <1>4, <1>5, <2>1 DEF Unmarked, Unmarks
        <3> QED
            BY <3>1
    <2>2. CASE w # v
        <3>1. vis2[w] = vis[w] /\ g2[w] = g[w]
            BY <1>3, <2>2
        <3>2. vis[w] => Unmarked(t, w)
            <4>1. vis[w] => Unmarked(st, w)
                BY Zenon DEF Zeroing
            <4>2. Unmarked(st, w) => Unmarked(t, w)
                BY <1>6, <2>2, ZeroingKeeps
            <4> QED
                BY <4>1, <4>2, Zenon
        <3>3. Resets(P, st[L], w) => Reset(P, t, w)
            <4>1. SUFFICES ASSUME w \in ReachIn(P, v) PROVE Reset(P, t, w)
                BY DEF Resets
            <4>2. w \in ReachIn(P, P[v][1]) \/ w \in ReachIn(P, P[v][2])
                BY <1>3, <2>2, <4>1, ReachFacts
            <4> QED
                BY <1>4, <1>5, <4>2 DEF Reset, Resets
        <3>4. g[w] = 0 \/ Reset(P, t, w)
            BY <1>6, <3>3, ZeroingKeeps DEF Zeroing
        <3> HIDE DEF vis2, g2
        <3> QED
            BY <3>1, <3>2, <3>4
    <2> QED
        BY <2>1, <2>2
<1> HIDE DEF vis2, g2
<1>9. Zeroing(P, r, t, vis2, g2)
    BY <1>2, <1>7, <1>8 DEF Zeroing
<1> QED
    BY <1>9 DEF t, vis2, g2

LEMMA ClearingEnters ==
    ASSUME NEW P, Graph(P), NEW r \in Nodes, NEW st, NEW vis \in [Nodes -> BOOLEAN], NEW g,
           Zeroing(P, r, st, vis, g),
           st # <<>>, st[Len(st)][1] = "clear", st[Len(st)][3] = "enter",
           NEW v, v = st[Len(st)][2], v # Null
    PROVE  Zeroing(P, r, Descent("clear", P, v, st), [vis EXCEPT ![v] = FALSE], g)
<1> DEFINE t == Descent("clear", P, v, st)
           L == Len(st)
           vis2 == [vis EXCEPT ![v] = FALSE]
<1>1. StackOK({"zero", "clear"}, P, r, st)
    BY DEF Zeroing
<1>2. /\ StackOK({"zero", "clear"}, P, r, t) /\ Deeper("clear", P, v, st, t) /\ v \in ReachIn(P, r)
    BY <1>1, StackPushes
<1>3. v \in Nodes /\ \A w \in ReachIn(P, r) : w \in Nodes
    BY <1>2, ReachFacts
<1> HIDE DEF t
<1>4. L \in 1 .. Len(st) /\ L \in Nat
    BY <1>2 DEF Deeper
<1>5. /\ t[L][1] = "clear" /\ t[L + 1][1] = "clear" /\ t[L + 2][1] = "clear"
      /\ \A k \in 1 .. Len(st) : k # L => k \in 1 .. Len(t) /\ t[k] = st[k]
      /\ \A k \in 1 .. Len(t) : (k \in 1 .. Len(st) /\ k # L) \/ k = L \/ k = L + 1 \/ k = L + 2
    BY <1>2 DEF Deeper
<1>6. SameBelow(st, t)
    BY <1>5 DEF SameBelow
<1>7. ASSUME NEW j \in 1 .. Len(t), NEW k \in 1 .. Len(t), j < k, t[j][1] = "clear" PROVE t[k][1] = "clear"
    <2>1. CASE k \in 1 .. Len(st) /\ k # L
        <3>1. j \in 1 .. Len(st) /\ j # L
            BY <1>4, <1>7, <2>1
        <3> QED
            BY <1>5, <1>7, <2>1, <3>1 DEF Zeroing
    <2>2. CASE ~(k \in 1 .. Len(st) /\ k # L)
        BY <1>5, <2>2
    <2> QED
        BY <2>1, <2>2
<1>8. ASSUME NEW w \in ReachIn(P, r)
      PROVE  (vis2[w] => Unmarked(t, w)) /\ (g[w] = 0 \/ Reset(P, t, w))
    <2>1. g[w] = 0 \/ Reset(P, t, w)
        BY <1>6, ZeroingKeeps DEF Zeroing, Resets
    <2>2. CASE w = v
        BY <1>3, <2>1, <2>2
    <2>3. CASE w # v
        <3>1. vis2[w] = vis[w]
            BY <1>3, <2>3
        <3>2. vis[w] => Unmarked(t, w)
            <4>1. vis[w] => Unmarked(st, w)
                BY Zenon DEF Zeroing
            <4>2. Unmarked(st, w) => Unmarked(t, w)
                BY <1>6, <2>3, ZeroingKeeps
            <4> QED
                BY <4>1, <4>2, Zenon
        <3> HIDE DEF vis2
        <3> QED
            BY <2>1, <3>1, <3>2
    <2> QED
        BY <2>2, <2>3
<1> HIDE DEF vis2
<1>9. Zeroing(P, r, t, vis2, g)
    BY <1>2, <1>7, <1>8 DEF Zeroing
<1> QED
    BY <1>9 DEF t, vis2

LEMMA ZeroingPops ==
    ASSUME NEW P, Graph(P), NEW r \in Nodes, NEW st, NEW vis, NEW g, Zeroing(P, r, st, vis, g), st # <<>>,
           \/ st[Len(st)][2] = Null
           \/ st[Len(st)][1] = "clear" /\ ~vis[st[Len(st)][2]]
           \/ st[Len(st)][1] = "clear" /\ st[Len(st)][3] = "leave"
    PROVE  Zeroing(P, r, Pop(st), vis, g)
<1> DEFINE t == Pop(st)
           L == Len(st)
<1>1. StackOK({"zero", "clear"}, P, r, t) /\ Shorter(st, t)
    BY StackPops DEF Zeroing
<1> HIDE DEF t
<1>2. /\ \A k \in 1 .. Len(st) : k # L => k \in 1 .. Len(t) /\ t[k] = st[k]
      /\ \A k \in 1 .. Len(t) : k \in 1 .. Len(st) /\ t[k] = st[k]
    BY <1>1 DEF Shorter
<1>3. SameBelow(st, t)
    BY <1>2 DEF SameBelow
<1>4. \A j, k \in 1 .. Len(t) : j < k /\ t[j][1] = "clear" => t[k][1] = "clear"
    BY <1>2 DEF Zeroing
<1>5. ASSUME NEW w \in ReachIn(P, r)
      PROVE  (vis[w] => Unmarked(t, w)) /\ (g[w] = 0 \/ Reset(P, t, w))
    <2>1. w # Null /\ w \notin ReachIn(P, Null)
        <3>1. w \in Nodes
            BY ReachFacts
        <3> QED
            BY <3>1, ReachNull DEF Nodes, Null
    <2>2. ~Resets(P, st[L], w)
        BY <2>1 DEF Resets
    <2>3. vis[w] => ~(st[L][2] = w /\ Unmarks(st[L]))
        BY <2>1 DEF Unmarks
    <2> QED
        BY <1>3, <2>2, <2>3, ZeroingKeeps DEF Zeroing
<1>6. Zeroing(P, r, t, vis, g)
    BY <1>1, <1>4, <1>5 DEF Zeroing
<1> QED
    BY <1>6 DEF t

LEMMA ZeroingLeaves ==
    ASSUME NEW P, Graph(P), NEW r \in Nodes, NEW st, NEW vis, NEW g, Zeroing(P, r, st, vis, g), st # <<>>,
           st[Len(st)][1] = "zero", st[Len(st)][3] = "leave", NEW v, v = st[Len(st)][2]
    PROVE  Zeroing(P, r, Swap(st, <<"clear", v, "enter">>), vis, g)
<1> DEFINE L == Len(st)
           F == {"zero", "clear"}
           e == <<"clear", v, "enter">>
           t == Swap(st, e)
<1>1. StackOK(F, P, r, st) /\ st \in Seq(Frames(F))
    BY DEF Zeroing, StackOK
<1>2. L \in Nat /\ L \in 1 .. L /\ v \in 0 .. MaxNodes /\ v \in ReachIn(P, r)
    BY <1>1, TopIs
<1>3. e \in Frames(F) /\ e[1] = "clear" /\ e[2] = v /\ e[3] = "enter"
    BY <1>2, FrameOf
<1> HIDE DEF e, F
<1>4. Swapped(Frames(F), st, e, t)
    BY <1>1, <1>3, SwapIs
<1> HIDE DEF t
<1>5. /\ t \in Seq(Frames(F)) /\ Len(t) = L /\ t[L] = e
      /\ \A k \in 1 .. L : k # L => k \in 1 .. Len(t) /\ t[k] = st[k]
    <2>1. \A k \in 1 .. L : k # L => k \in 1 .. (L - 1)
        BY <1>2
    <2> QED
        BY <1>4, <2>1 DEF Swapped
<1>6. SameBelow(st, t)
    BY <1>5 DEF SameBelow
<1>7. StackOK(F, P, r, t)
    <2>1. ASSUME NEW k \in 1 .. L
          PROVE  t[k][2] = st[k][2] /\ (t[k][3] = "leave" => st[k][3] = "leave")
        BY <1>3, <1>5
    <2> QED
        BY <1>1, <1>5, <2>1 DEF StackOK
<1>8. ASSUME NEW j \in 1 .. L, NEW k \in 1 .. L, j < k, t[j][1] = "clear" PROVE t[k][1] = "clear"
    <2>1. CASE k = L
        BY <1>3, <1>5, <2>1
    <2>2. CASE k # L
        <3>1. j # L
            BY <1>2, <1>8, <2>2
        <3> QED
            BY <1>5, <1>8, <2>2, <3>1 DEF Zeroing
    <2> QED
        BY <2>1, <2>2
<1>9. ASSUME NEW w \in ReachIn(P, r)
      PROVE  (vis[w] => Unmarked(t, w)) /\ (g[w] = 0 \/ Reset(P, t, w))
    <2>1. ~Resets(P, st[L], w)
        BY DEF Resets
    <2>2. w = v => Unmarked(t, w)
        BY <1>2, <1>3, <1>5 DEF Unmarked, Unmarks
    <2> QED
        BY <1>6, <2>1, <2>2, ZeroingKeeps DEF Zeroing
<1>10. Zeroing(P, r, t, vis, g)
    BY <1>5, <1>7, <1>8, <1>9 DEF Zeroing, F
<1> QED
    BY <1>10 DEF t, e

LEMMA ZeroingEnds ==
    ASSUME NEW P, NEW r, NEW vis, NEW g, Zeroing(P, r, <<>>, vis, g)
    PROVE  \A w \in ReachIn(P, r) : ~vis[w] /\ g[w] = 0
<1>1. ~\E k \in 1 .. Len(<<>>) : TRUE
    OBVIOUS
<1> QED
    BY <1>1 DEF Zeroing, Unmarked, Reset

-----------------------------------------------------------------------------
(* The invariant: how far the running call has come                         *)

\* The nodes a traversal has marked, or has unmarked.
Marked(P, r, vis) == {v \in ReachIn(P, r) : vis[v]}
Bare(P, r, vis) == {v \in ReachIn(P, r) : ~vis[v]}

\* What abs_scalar_zero_grad, _backward and _free have left to do.
R == <<"return">>
Z1 == <<"zero", "return">>
B8 == <<"sweep", "return">>
B7 == <<"seed", "sweep", "return">>
B6 == <<"clear", "seed", "sweep", "return">>
B5 == <<"order", "clear", "seed", "sweep", "return">>
B4 == <<"malloc", "order", "clear", "seed", "sweep", "return">>
B3 == <<"clear", "malloc", "order", "clear", "seed", "sweep", "return">>
B2 == <<"count", "clear", "malloc", "order", "clear", "seed", "sweep", "return">>
B1 == <<"zero", "count", "clear", "malloc", "order", "clear", "seed", "sweep", "return">>
F5 == <<"release", "return">>
F4 == <<"order", "release", "return">>
F3 == <<"malloc", "order", "release", "return">>
F2 == <<"clear", "malloc", "order", "release", "return">>
F1 == <<"count", "clear", "malloc", "order", "release", "return">>

\* The list t goes on with phase p, and u after it.
GoesOn(t, p, u) == t # <<>> /\ Head(t) = p /\ Tail(t) = u

LEMMA GoesOnOnce ==
    \A t, p, u, q, w : GoesOn(t, p, u) /\ GoesOn(t, q, w) => t # <<>> /\ p = q /\ u = w
BY DEF GoesOn

LEMMA Phases ==
    /\ GoesOn(Z1, "zero", R)
    /\ GoesOn(B1, "zero", B2)
    /\ GoesOn(B2, "count", B3)
    /\ GoesOn(B3, "clear", B4)
    /\ GoesOn(B4, "malloc", B5)
    /\ GoesOn(B5, "order", B6)
    /\ GoesOn(B6, "clear", B7)
    /\ GoesOn(B7, "seed", B8)
    /\ GoesOn(B8, "sweep", R)
    /\ GoesOn(F1, "count", F2)
    /\ GoesOn(F2, "clear", F3)
    /\ GoesOn(F3, "malloc", F4)
    /\ GoesOn(F4, "order", F5)
    /\ GoesOn(F5, "release", R)
    /\ GoesOn(R, "return", <<>>)
<1>1. GoesOn(Z1, "zero", R)
    BY DEF GoesOn, Z1, R
<1>2. GoesOn(B1, "zero", B2)
    BY DEF GoesOn, B1, B2
<1>3. GoesOn(B2, "count", B3)
    BY DEF GoesOn, B2, B3
<1>4. GoesOn(B3, "clear", B4)
    BY DEF GoesOn, B3, B4
<1>5. GoesOn(B4, "malloc", B5)
    BY DEF GoesOn, B4, B5
<1>6. GoesOn(B5, "order", B6)
    BY DEF GoesOn, B5, B6
<1>7. GoesOn(B6, "clear", B7)
    BY DEF GoesOn, B6, B7
<1>8. GoesOn(B7, "seed", B8)
    BY DEF GoesOn, B7, B8
<1>9. GoesOn(B8, "sweep", R)
    BY DEF GoesOn, B8, R
<1>10. GoesOn(F1, "count", F2)
    BY DEF GoesOn, F1, F2
<1>11. GoesOn(F2, "clear", F3)
    BY DEF GoesOn, F2, F3
<1>12. GoesOn(F3, "malloc", F4)
    BY DEF GoesOn, F3, F4
<1>13. GoesOn(F4, "order", F5)
    BY DEF GoesOn, F4, F5
<1>14. GoesOn(F5, "release", R)
    BY DEF GoesOn, F5, R
<1>15. GoesOn(R, "return", <<>>)
    BY DEF GoesOn, R
<1> QED
    BY <1>1, <1>2, <1>3, <1>4, <1>5, <1>6, <1>7, <1>8, <1>9, <1>10, <1>11, <1>12, <1>13, <1>14, <1>15

\* t after s, element by element.
Joined(s, t, u) ==
    /\ Len(u) = Len(s) + Len(t)
    /\ \A k \in 1 .. Len(s) : u[k] = s[k]
    /\ \A k \in 1 .. Len(t) : u[Len(s) + k] = t[k]

LEMMA JoinedIs ==
    ASSUME NEW S, NEW s \in Seq(S), NEW t \in Seq(S), NEW u \in Seq(S), Joined(s, t, u)
    PROVE  s \o t = u
<1>1. s \o t \in Seq(S) /\ Len(s \o t) = Len(u) /\ Len(u) \in Nat /\ Len(s) \in Nat /\ Len(t) \in Nat
    BY ConcatProperties DEF Joined
<1>2. \A k \in 1 .. Len(u) : (s \o t)[k] = u[k]
    <2>1. TAKE k \in 1 .. Len(u)
    <2>2. CASE k <= Len(s)
        BY <2>2, <1>1, ConcatProperties DEF Joined
    <2>3. CASE k > Len(s)
        <3>1. (s \o t)[k] = t[k - Len(s)] /\ k - Len(s) \in 1 .. Len(t) /\ Len(s) + (k - Len(s)) = k
            BY <2>3, <1>1, ConcatProperties
        <3> QED
            BY <3>1 DEF Joined
    <2> QED
        BY <2>2, <2>3, <1>1
<1> QED
    BY <1>1, <1>2, SeqEqual

\* The lists as the calls write them.
LEMMA Calls ==
    /\ <<"zero">> \o <<"return">> = Z1
    /\ <<"zero", "count", "clear", "malloc", "order", "clear", "seed", "sweep">> \o <<"return">> = B1
    /\ <<"count", "clear", "malloc", "order", "release">> \o <<"return">> = F1
    /\ <<"return">> = R
<1> DEFINE z == <<"zero">>
           b == <<"zero", "count", "clear", "malloc", "order", "clear", "seed", "sweep">>
           f == <<"count", "clear", "malloc", "order", "release">>
           Names == {"zero", "count", "clear", "malloc", "order", "seed", "sweep", "release", "return"}
<1>1. R \in Seq(Names) /\ Len(R) = 1 /\ R[1] = "return"
    BY DEF R
<1>2. z \o R = Z1
    <2>1. z \in Seq(Names) /\ Z1 \in Seq(Names)
        BY DEF Z1
    <2>2. Len(z) = 1 /\ Len(Z1) = 2
        BY DEF Z1
    <2>3. \A k \in 1 .. Len(z) : Z1[k] = z[k]
        BY DEF Z1
    <2>4. Z1[2] = R[1]
        BY DEF Z1, R
    <2> HIDE DEF z, Names
    <2>5. \A k \in 1 .. Len(R) : Z1[Len(z) + k] = R[k]
        BY <1>1, <2>2, <2>4
    <2>6. Joined(z, R, Z1)
        BY <1>1, <2>2, <2>3, <2>5 DEF Joined
    <2>7. z \o R = Z1
        BY <1>1, <2>1, <2>6, JoinedIs
    <2> QED
        BY <2>7 DEF z
<1>3. b \o R = B1
    <2>1. b \in Seq(Names) /\ B1 \in Seq(Names)
        BY DEF B1
    <2>2. Len(b) = 8 /\ Len(B1) = 9
        BY DEF B1
    <2>3. \A k \in 1 .. Len(b) : B1[k] = b[k]
        BY DEF B1
    <2>4. B1[9] = R[1]
        BY DEF B1, R
    <2> HIDE DEF b, Names
    <2>5. \A k \in 1 .. Len(R) : B1[Len(b) + k] = R[k]
        BY <1>1, <2>2, <2>4
    <2>6. Joined(b, R, B1)
        BY <1>1, <2>2, <2>3, <2>5 DEF Joined
    <2>7. b \o R = B1
        BY <1>1, <2>1, <2>6, JoinedIs
    <2> QED
        BY <2>7 DEF b
<1>4. f \o R = F1
    <2>1. f \in Seq(Names) /\ F1 \in Seq(Names)
        BY DEF F1
    <2>2. Len(f) = 5 /\ Len(F1) = 6
        BY DEF F1
    <2>3. \A k \in 1 .. Len(f) : F1[k] = f[k]
        BY DEF F1
    <2>4. F1[6] = R[1]
        BY DEF F1, R
    <2> HIDE DEF f, Names
    <2>5. \A k \in 1 .. Len(R) : F1[Len(f) + k] = R[k]
        BY <1>1, <2>2, <2>4
    <2>6. Joined(f, R, F1)
        BY <1>1, <2>2, <2>3, <2>5 DEF Joined
    <2>7. f \o R = F1
        BY <1>1, <2>1, <2>6, JoinedIs
    <2> QED
        BY <2>7 DEF f
<1> QED
    BY <1>2, <1>3, <1>4 DEF R

\* The gradients stay what they are of the graphs made so far; flags are set
\* only below the root of the running call, or on nodes freed with their flag.
Types ==
    /\ made \in 0 .. MaxNodes /\ root \in 0 .. made /\ last \in 0 .. made
    /\ Graph(parents) /\ Evaluated(parents, op, val)
    /\ grad \in [Nodes -> Int]
    /\ visited \in [Nodes -> BOOLEAN] /\ alive \in [Nodes -> BOOLEAN]
    /\ \A v \in Nodes : v > made => op[v] = "leaf"
Outside == \A v \in Nodes : alive[v] /\ visited[v] => v \in ReachIn(parents, root)
Known == last # Null => \A x \in ReachIn(parents, last) : grad[x] = DerIn(parents, op, val, last, x)
Base == Types /\ Outside /\ Known

NoMarks == \A v \in ReachIn(parents, root) : ~visited[v]
NoGradients == \A v \in ReachIn(parents, root) : grad[v] = 0
Whole == root # Null /\ \A v \in ReachIn(parents, root) : alive[v]
Fresh == n = 0 /\ order = <<>> /\ i = 0
Left(b, f) == (todo = b /\ NoGradients) \/ todo = f
Counted == n = Cardinality(ReachIn(parents, root))

\* The phases a call goes through, one formula for each.
Resting == todo = <<>> /\ stack = <<>> /\ root = Null /\ Fresh
Calling == todo \in {Z1, B1, F1} /\ stack = <<>> /\ Whole /\ NoMarks /\ Fresh /\ last = Null
Resetting ==
    /\ todo \in {R, B2} /\ Whole /\ Fresh /\ last = Null
    /\ Zeroing(parents, root, stack, visited, grad)
Counting ==
    /\ Left(B3, F2) /\ Whole /\ order = <<>> /\ i = 0 /\ last = Null
    /\ Walk("count", parents, root, stack, Marked(parents, root, visited))
    /\ n = Cardinality(Marked(parents, root, visited))
Unmarking ==
    /\ Left(B4, F3) /\ Whole /\ Counted /\ order = <<>> /\ i = 0 /\ last = Null
    /\ Walk("clear", parents, root, stack, Bare(parents, root, visited))
Ready ==
    /\ Left(B5, F4) /\ stack = <<>> /\ Whole /\ NoMarks
    /\ Counted /\ order = <<>> /\ i = 0 /\ last = Null
Listing ==
    /\ Left(B6, F5) /\ Whole /\ Counted /\ Len(order) <= n /\ i = 0 /\ last = Null
    /\ Ordering("order", parents, root, stack, Marked(parents, root, visited), order)
Clearing ==
    /\ todo = B7 /\ NoGradients /\ Whole /\ Counted /\ Len(order) <= n /\ i = 0 /\ last = Null
    /\ Ordered(parents, root, order)
    /\ Walk("clear", parents, root, stack, Bare(parents, root, visited))
Sweeping ==
    /\ todo = B8 /\ stack = <<>> /\ Whole /\ NoMarks /\ Counted /\ Len(order) <= n /\ last = Null
    /\ Ordered(parents, root, order)
    /\ Swept(parents, op, val, root, order, grad, i)
Releasing ==
    /\ todo = F5 /\ stack = <<>> /\ root # Null /\ Counted /\ Len(order) <= n /\ last = Null
    /\ Ordered(parents, root, order)
    /\ i \in 0 .. Len(order) /\ \A k \in 1 .. Len(order) : alive[order[k]] <=> k > i
Finished ==
    /\ todo = R /\ stack = <<>> /\ root # Null
    /\ \A v \in Nodes : alive[v] => ~visited[v]
    /\ n \in 0 .. made /\ order \in Seq(Nodes) /\ Len(order) <= n /\ i \in 0 .. Len(order)

Mode ==
    \/ Resting \/ Calling \/ Resetting \/ Counting \/ Unmarking \/ Ready
    \/ Listing \/ Clearing \/ Sweeping \/ Releasing \/ Finished
IInv == Base /\ Mode

LEMMA BaseKept ==
    ASSUME Base, UNCHANGED <<made, op, parents, val, grad, visited, alive, root, last>>
    PROVE  Base'
BY DEF Base, Types, Outside, Known

LEMMA RootIs ==
    ASSUME Types, root # Null
    PROVE  /\ root \in Nodes /\ root \in 0 .. MaxNodes /\ Graph(parents) /\ Evaluated(parents, op, val)
           /\ root \in Nat /\ made \in Nat /\ root <= made /\ made <= MaxNodes
BY MaxNodesNat DEF Types, Nodes, Null

LEMMA NoMarksMarked == ASSUME NoMarks PROVE Marked(parents, root, visited) = {}
BY DEF NoMarks, Marked

LEMMA AllMarked ==
    ASSUME Marked(parents, root, visited) = ReachIn(parents, root)
    PROVE  Bare(parents, root, visited) = {}
BY DEF Marked, Bare

LEMMA AllBare ==
    ASSUME Bare(parents, root, visited) = ReachIn(parents, root)
    PROVE  NoMarks
BY DEF Bare, NoMarks

\* A traversal begins.
LEMMA BeginOK == ASSUME IInv, Begin PROVE IInv'
<1>1. Base' /\ Types
    BY BaseKept DEF IInv, Base, Begin, node
<1>2. PICK p \in {"zero", "count", "clear", "order"} : Phase(p) /\ stack' = <<<<p, root, "enter">>>>
    BY DEF Begin
<1>3. /\ GoesOn(todo, p, todo') /\ todo # <<>> /\ stack = <<>>
      /\ parents' = parents /\ root' = root /\ visited' = visited /\ grad' = grad /\ alive' = alive
      /\ n' = n /\ order' = order /\ i' = i /\ last' = last
    BY <1>2 DEF Begin, Phase, node, GoesOn
<1>4. ASSUME Whole
      PROVE  Whole' /\ root \in Nodes /\ Graph(parents)
    BY <1>1, <1>3, <1>4, RootIs DEF Whole
<1>5. CASE Calling /\ todo \in {Z1, B1}
    <2>1. p = "zero" /\ todo' \in {R, B2}
        BY <1>3, <1>5, Phases, GoesOnOnce
    <2>2. Zeroing(parents, root, stack', visited, grad)
        BY <1>2, <1>4, <1>5, <2>1, ZeroingStarts DEF Calling, NoMarks
    <2>3. Resetting'
        BY <1>3, <1>4, <1>5, <2>1, <2>2 DEF Calling, Resetting, Fresh
    <2> QED
        BY <1>1, <2>3 DEF IInv, Mode
<1>6. CASE Calling /\ todo = F1
    <2>1. p = "count" /\ todo' = F2
        BY <1>3, <1>6, Phases, GoesOnOnce
    <2>2. Marked(parents, root, visited) = {}
        BY <1>6, NoMarksMarked DEF Calling
    <2>3. Walk("count", parents, root, stack', Marked(parents, root, visited))
        BY <1>2, <1>4, <1>6, <2>1, <2>2, WalkStarts DEF Calling
    <2>4. n = Cardinality(Marked(parents, root, visited))
        BY <1>6, <2>2, FS_EmptySet DEF Calling, Fresh
    <2>5. Counting'
        BY <1>3, <1>4, <1>6, <2>1, <2>3, <2>4 DEF Calling, Counting, Fresh, Left
    <2> QED
        BY <1>1, <2>5 DEF IInv, Mode
<1>7. CASE Resetting
    <2>1. p = "count" /\ todo = B2 /\ todo' = B3
        BY <1>3, <1>7, Phases, GoesOnOnce DEF Resetting
    <2>2. NoMarks /\ NoGradients
        BY <1>3, <1>7, ZeroingEnds DEF Resetting, NoMarks, NoGradients
    <2>3. Marked(parents, root, visited) = {}
        BY <2>2, NoMarksMarked
    <2>4. Walk("count", parents, root, stack', Marked(parents, root, visited))
        BY <1>2, <1>4, <1>7, <2>1, <2>3, WalkStarts DEF Resetting
    <2>5. n = Cardinality(Marked(parents, root, visited))
        BY <1>7, <2>3, FS_EmptySet DEF Resetting, Fresh
    <2>6. NoGradients'
        BY <2>2, <1>3 DEF NoGradients
    <2>7. Counting'
        BY <1>3, <1>4, <1>7, <2>1, <2>4, <2>5, <2>6 DEF Resetting, Counting, Fresh, Left
    <2> QED
        BY <1>1, <2>7 DEF IInv, Mode
<1>8. CASE Counting
    <2>1. p = "clear" /\ Left(B4, F3)'
        BY <1>3, <1>8, Phases, GoesOnOnce DEF Counting, Left, NoGradients
    <2>2. Marked(parents, root, visited) = ReachIn(parents, root)
        BY <1>3, <1>4, <1>8, WalkEnds DEF Counting
    <2>3. Bare(parents, root, visited) = {} /\ Counted
        BY <1>8, <2>2, AllMarked DEF Counting, Counted
    <2>4. Walk("clear", parents, root, stack', Bare(parents, root, visited))
        BY <1>2, <1>4, <1>8, <2>1, <2>3, WalkStarts DEF Counting
    <2>5. Unmarking'
        BY <1>3, <1>4, <1>8, <2>1, <2>3, <2>4 DEF Counting, Unmarking, Counted
    <2> QED
        BY <1>1, <2>5 DEF IInv, Mode
<1>9. CASE Ready
    <2>1. p = "order" /\ Left(B6, F5)'
        BY <1>3, <1>9, Phases, GoesOnOnce DEF Ready, Left, NoGradients
    <2>2. Marked(parents, root, visited) = {}
        BY <1>9, NoMarksMarked DEF Ready
    <2>3. Ordering("order", parents, root, stack', Marked(parents, root, visited), order)
        BY <1>2, <1>4, <1>9, <2>1, <2>2, OrderingStarts DEF Ready
    <2>4. Len(order) <= n
        <3>1. n \in Nat
            BY <1>4, <1>9, ReachIsFinite, FS_CardinalityType DEF Ready, Counted
        <3> QED
            BY <3>1, <1>9 DEF Ready
    <2>5. Listing'
        BY <1>3, <1>4, <1>9, <2>1, <2>3, <2>4 DEF Ready, Listing, Counted
    <2> QED
        BY <1>1, <2>5 DEF IInv, Mode
<1>10. CASE Listing
    <2>1. p = "clear" /\ todo' = B7 /\ NoGradients
        BY <1>3, <1>10, Phases, GoesOnOnce DEF Listing, Left
    <2>2. Ordered(parents, root, order) /\ Marked(parents, root, visited) = ReachIn(parents, root)
        BY <1>3, <1>4, <1>10, OrderingEnds DEF Listing
    <2>3. Bare(parents, root, visited) = {}
        BY <2>2, AllMarked
    <2>4. Walk("clear", parents, root, stack', Bare(parents, root, visited))
        BY <1>2, <1>4, <1>10, <2>1, <2>3, WalkStarts DEF Listing
    <2>5. Clearing'
        BY <1>3, <1>4, <1>10, <2>1, <2>2, <2>4 DEF Listing, Clearing, Counted, NoGradients
    <2> QED
        BY <1>1, <2>5 DEF IInv, Mode
<1>11. ~Resting /\ ~Unmarking /\ ~Clearing /\ ~Sweeping /\ ~Releasing /\ ~Finished
    BY <1>3, Phases, GoesOnOnce DEF Resting, Unmarking, Clearing, Sweeping, Releasing, Finished, Left
<1> QED
    BY <1>5, <1>6, <1>7, <1>8, <1>9, <1>10, <1>11 DEF IInv, Mode, Calling

\* The memory for the order is there.
LEMMA MallocOK == ASSUME IInv, Malloc PROVE IInv'
<1>1. Base' /\ Types
    BY BaseKept DEF IInv, Base, Malloc, node
<1>2. /\ GoesOn(todo, "malloc", todo') /\ stack = <<>> /\ stack' = <<>>
      /\ parents' = parents /\ root' = root /\ visited' = visited /\ grad' = grad /\ alive' = alive
      /\ n' = n /\ order' = order /\ i' = i /\ last' = last
    BY DEF Malloc, Phase, node, GoesOn
<1>3. CASE Unmarking
    <2>1. Left(B5, F4)'
        BY <1>2, <1>3, Phases, GoesOnOnce DEF Unmarking, Left, NoGradients
    <2>2. Bare(parents, root, visited) = ReachIn(parents, root)
        BY <1>1, <1>2, <1>3, RootIs, WalkEnds DEF Unmarking, Whole
    <2>3. NoMarks
        BY <2>2, AllBare
    <2>4. Ready'
        BY <1>2, <1>3, <2>1, <2>3 DEF Unmarking, Ready, Whole, NoMarks, Counted
    <2> QED
        BY <1>1, <2>4 DEF IInv, Mode
<1>4. ~Resting /\ ~Calling /\ ~Resetting /\ ~Counting /\ ~Ready
    BY <1>2, Phases, GoesOnOnce DEF Resting, Calling, Resetting, Counting, Ready, Left
<1>5. ~Listing /\ ~Clearing /\ ~Sweeping /\ ~Releasing /\ ~Finished
    BY <1>2, Phases, GoesOnOnce DEF Listing, Clearing, Sweeping, Releasing, Finished, Left
<1> QED
    BY <1>3, <1>4, <1>5 DEF IInv, Mode

\* Without it the call ends with nothing marked.
LEMMA MallocFailsOK == ASSUME IInv, MallocFails PROVE IInv'
<1>1. Base' /\ Types /\ Outside
    BY BaseKept DEF IInv, Base, MallocFails, node
<1>2. /\ GoesOn(todo, "malloc", Tail(todo)) /\ stack = <<>> /\ stack' = <<>> /\ todo' = R
      /\ made' = made /\ root' = root /\ visited' = visited /\ alive' = alive
      /\ n' = n /\ order' = order /\ i' = i
    BY Calls DEF MallocFails, Phase, node, GoesOn
<1>3. CASE Unmarking
    <2>1. /\ root # Null /\ root \in Nodes /\ Graph(parents) /\ root \in Nat /\ root <= made /\ made \in Nat
        BY <1>1, <1>3, RootIs DEF Unmarking, Whole
    <2>2. Bare(parents, root, visited) = ReachIn(parents, root)
        BY <1>2, <1>3, <2>1, WalkEnds DEF Unmarking
    <2>3. NoMarks
        BY <2>2, AllBare
    <2>4. \A v \in Nodes : alive'[v] => ~visited'[v]
        BY <1>1, <1>2, <2>3 DEF Outside, NoMarks
    <2>5. n \in Nat /\ n <= root
        BY <2>1, <1>3, ReachIsFinite DEF Unmarking, Counted
    <2>6. n \in 0 .. made /\ order = <<>> /\ i = 0 /\ <<>> \in Seq(Nodes) /\ Len(order) = 0
        BY <2>1, <2>5, <1>3 DEF Unmarking
    <2>7. Finished'
        BY <1>2, <2>1, <2>4, <2>5, <2>6 DEF Finished
    <2> QED
        BY <1>1, <2>7 DEF IInv, Mode
<1>4. ~Resting /\ ~Calling /\ ~Resetting /\ ~Counting /\ ~Ready
    BY <1>2, Phases, GoesOnOnce DEF Resting, Calling, Resetting, Counting, Ready, Left
<1>5. ~Listing /\ ~Clearing /\ ~Sweeping /\ ~Releasing /\ ~Finished
    BY <1>2, Phases, GoesOnOnce DEF Listing, Clearing, Sweeping, Releasing, Finished, Left
<1> QED
    BY <1>3, <1>4, <1>5 DEF IInv, Mode

\* The gradient of the root is 1, those below it are 0.
LEMMA SeedOK == ASSUME IInv, Seed PROVE IInv'
<1>1. Types /\ Outside
    BY DEF IInv, Base
<1>2. /\ GoesOn(todo, "seed", todo') /\ stack = <<>> /\ stack' = <<>>
      /\ made' = made /\ op' = op /\ parents' = parents /\ val' = val
      /\ root' = root /\ visited' = visited /\ alive' = alive
      /\ grad' = [grad EXCEPT ![root] = 1] /\ i' = Len(order)
      /\ n' = n /\ order' = order /\ last' = last
    BY DEF Seed, Phase, node, GoesOn
<1>3. CASE Clearing
    <2>1. todo' = B8
        BY <1>2, <1>3, Phases, GoesOnOnce DEF Clearing
    <2>2. root \in Nodes /\ Graph(parents) /\ Evaluated(parents, op, val)
        BY <1>1, <1>3, RootIs DEF Clearing, Whole
    <2>3. grad' \in [Nodes -> Int] /\ grad'[root] = 1 /\ \A w \in Nodes : w # root => grad'[w] = grad[w]
        BY <1>1, <1>2, <2>2 DEF Types
    <2>4. \A w \in ReachIn(parents, root) : w # root => grad'[w] = 0
        BY <2>2, <2>3, <1>3, ReachFacts DEF Clearing, NoGradients
    <2>5. PICK g : g = grad'
        OBVIOUS
    <2>6. Swept(parents, op, val, root, order, g, Len(order))
        BY <2>2, <2>3, <2>4, <2>5, <1>3, SweepStarts DEF Clearing
    <2>7. Bare(parents, root, visited) = ReachIn(parents, root)
        BY <1>2, <1>3, <2>2, WalkEnds DEF Clearing
    <2>8. NoMarks
        BY <2>7, AllBare
    <2>9. Sweeping'
        BY <1>2, <1>3, <2>1, <2>5, <2>6, <2>8 DEF Clearing, Sweeping, Whole, NoMarks, Counted
    <2>10. Base'
        BY <1>1, <1>2, <1>3, <2>3 DEF Base, Types, Outside, Known, Clearing
    <2> QED
        BY <2>9, <2>10 DEF IInv, Mode
<1>4. ~Resting /\ ~Calling /\ ~Resetting /\ ~Counting /\ ~Ready
    BY <1>2, Phases, GoesOnOnce DEF Resting, Calling, Resetting, Counting, Ready, Left
<1>5. ~Unmarking /\ ~Listing /\ ~Sweeping /\ ~Releasing /\ ~Finished
    BY <1>2, Phases, GoesOnOnce DEF Unmarking, Listing, Sweeping, Releasing, Finished, Left
<1> QED
    BY <1>3, <1>4, <1>5 DEF IInv, Mode

LEMMA BackwardNodeIs ==
    \A v : BackwardNode(v) = BackwardIn(parents, op, val, grad, v)
BY LocalIsLocalIn DEF BackwardNode, BackwardIn

\* The states in which the sweep runs.
LEMMA AtSweep ==
    ASSUME IInv, Phase("sweep")
    PROVE  /\ Sweeping /\ GoesOn(todo, "sweep", R) /\ Types /\ Outside /\ stack = <<>>
           /\ root \in Nodes /\ Graph(parents) /\ Evaluated(parents, op, val)
<1>1. GoesOn(todo, "sweep", Tail(todo)) /\ stack = <<>> /\ Types /\ Outside
    BY DEF Phase, GoesOn, IInv, Base
<1>2. ~Resting /\ ~Calling /\ ~Resetting /\ ~Counting /\ ~Ready
    BY <1>1, Phases, GoesOnOnce DEF Resting, Calling, Resetting, Counting, Ready, Left
<1>3. ~Unmarking /\ ~Listing /\ ~Clearing /\ ~Releasing /\ ~Finished
    BY <1>1, Phases, GoesOnOnce DEF Unmarking, Listing, Clearing, Releasing, Finished, Left
<1>4. Sweeping
    BY <1>2, <1>3 DEF IInv, Mode
<1>5. root # Null /\ GoesOn(todo, "sweep", R)
    BY <1>4, Phases DEF Sweeping, Whole
<1> QED
    BY <1>1, <1>4, <1>5, RootIs

LEMMA SweepOK == ASSUME IInv, Sweep PROVE IInv'
<1>1. /\ Sweeping /\ Types /\ Outside
      /\ root \in Nodes /\ Graph(parents) /\ Evaluated(parents, op, val)
    BY AtSweep DEF Sweep
<1>2. /\ i > 0 /\ i' = i - 1 /\ grad' = BackwardNode(order[i])
      /\ made' = made /\ op' = op /\ parents' = parents /\ val' = val
      /\ root' = root /\ visited' = visited /\ alive' = alive
      /\ todo' = todo /\ stack' = stack /\ n' = n /\ order' = order /\ last' = last
    BY DEF Sweep, node
<1>3. PICK m : m = i
    OBVIOUS
<1>4. PICK g : g = grad
    OBVIOUS
<1>5. Swept(parents, op, val, root, order, BackwardIn(parents, op, val, g, order[m]), m - 1)
    BY <1>1, <1>2, <1>3, <1>4, SweepStep DEF Sweeping
<1>6. Swept(parents, op, val, root, order, grad', i')
    BY <1>2, <1>3, <1>4, <1>5, BackwardNodeIs
<1>7. Sweeping'
    BY <1>1, <1>2, <1>6 DEF Sweeping, Whole, NoMarks, Counted
<1>8. grad' \in [Nodes -> Int]
    BY <1>6 DEF Swept
<1>9. Base'
    BY <1>1, <1>2, <1>8 DEF Base, Types, Outside, Known, Sweeping
<1> QED
    BY <1>7, <1>9 DEF IInv, Mode

LEMMA SweepEndsOK == ASSUME IInv, SweepEnds PROVE IInv'
<1>1. /\ Sweeping /\ Types /\ Outside /\ GoesOn(todo, "sweep", R) /\ stack = <<>>
      /\ root \in Nodes /\ Graph(parents) /\ Evaluated(parents, op, val)
    BY AtSweep DEF SweepEnds
<1>2. /\ i = 0 /\ todo' = Tail(todo) /\ last' = root
      /\ made' = made /\ op' = op /\ parents' = parents /\ val' = val /\ grad' = grad
      /\ root' = root /\ visited' = visited /\ alive' = alive
      /\ stack' = stack /\ n' = n /\ order' = order /\ i' = i
    BY DEF SweepEnds, node
<1>3. \A x \in ReachIn(parents, root) : grad[x] = DerIn(parents, op, val, root, x)
    BY <1>1, <1>2, SweepEnded DEF Sweeping
<1>4. Base'
    BY <1>1, <1>2, <1>3 DEF Base, Types, Outside, Known
<1>5. \A v \in Nodes : alive[v] => ~visited[v]
    BY <1>1 DEF Sweeping, Outside, NoMarks
<1>6. /\ root # Null /\ root \in Nat /\ root <= made /\ made \in Nat /\ n \in Nat /\ n <= root
    BY <1>1, RootIs, ReachIsFinite DEF Sweeping, Whole, Counted
<1>7. order \in Seq(Nodes) /\ Len(order) \in Nat
    BY <1>1, LenProperties DEF Sweeping, Ordered
<1>8. Finished'
    BY <1>1, <1>2, <1>5, <1>6, <1>7 DEF Finished, Sweeping, GoesOn
<1> QED
    BY <1>4, <1>8 DEF IInv, Mode

\* The states in which nodes are released: the order is whole, and its first i
\* nodes are gone.
LEMMA AtRelease ==
    ASSUME IInv, Phase("release")
    PROVE  /\ Releasing /\ GoesOn(todo, "release", R) /\ Types /\ Outside /\ stack = <<>>
           /\ root \in Nodes /\ Graph(parents)
<1>1. GoesOn(todo, "release", Tail(todo)) /\ stack = <<>> /\ Types /\ Outside
    BY DEF Phase, GoesOn, IInv, Base
<1>2. ~Resting /\ ~Calling /\ ~Resetting /\ ~Counting /\ ~Ready
    BY <1>1, Phases, GoesOnOnce DEF Resting, Calling, Resetting, Counting, Ready, Left
<1>3. ~Unmarking /\ ~Clearing /\ ~Sweeping /\ ~Finished
    BY <1>1, Phases, GoesOnOnce DEF Unmarking, Clearing, Sweeping, Finished, Left
<1>4. ASSUME Listing PROVE Releasing
    <2>1. todo = F5
        BY <1>1, <1>4, Phases, GoesOnOnce DEF Listing, Left
    <2>2. root # Null /\ root \in Nodes /\ Graph(parents)
        BY <1>1, <1>4, RootIs DEF Listing, Whole
    <2>3. Ordered(parents, root, order)
        BY <1>1, <1>4, <2>2, OrderingEnds DEF Listing
    <2>4. Len(order) \in Nat /\ \A k \in 1 .. Len(order) : order[k] \in ReachIn(parents, root)
        BY <2>3, LenProperties DEF Ordered, Members
    <2>5. \A k \in 1 .. Len(order) : alive[order[k]] /\ k > 0
        BY <2>4, <1>4 DEF Listing, Whole
    <2>6. \A k \in 1 .. Len(order) : alive[order[k]] <=> k > 0
        BY <2>5
    <2> QED
        BY <1>1, <1>4, <2>1, <2>2, <2>3, <2>4, <2>6 DEF Listing, Releasing
<1>5. Releasing
    BY <1>2, <1>3, <1>4 DEF IInv, Mode
<1>6. root # Null /\ GoesOn(todo, "release", R)
    BY <1>5, Phases DEF Releasing
<1> QED
    BY <1>1, <1>5, <1>6, RootIs

LEMMA ReleaseOK == ASSUME IInv, Release PROVE IInv'
<1>1. /\ Releasing /\ Types /\ Outside /\ root \in Nodes /\ Graph(parents)
    BY AtRelease DEF Release
<1>2. /\ i < Len(order) /\ i' = i + 1 /\ alive' = [alive EXCEPT ![order[i + 1]] = FALSE]
      /\ made' = made /\ op' = op /\ parents' = parents /\ val' = val /\ grad' = grad
      /\ root' = root /\ visited' = visited
      /\ todo' = todo /\ stack' = stack /\ n' = n /\ order' = order /\ last' = last
    BY DEF Release, node
<1>3. PICK m : m = i + 1
    OBVIOUS
<1>4. /\ order \in Seq(Nodes) /\ Distinct(order) /\ Len(order) \in Nat /\ m \in 1 .. Len(order)
      /\ i \in Nat /\ m = i + 1 /\ order[m] \in Nodes
      /\ \A k \in 1 .. Len(order) : order[k] \in Nodes /\ (alive[order[k]] <=> k > i)
    <2>1. order \in Seq(Nodes) /\ Distinct(order) /\ Len(order) \in Nat
        BY <1>1, LenProperties DEF Releasing, Ordered
    <2>2. i \in Nat /\ m \in 1 .. Len(order)
        BY <1>1, <1>2, <1>3, <2>1 DEF Releasing
    <2>3. \A k \in 1 .. Len(order) : order[k] \in Nodes
        BY <2>1, SequenceFacts
    <2> QED
        BY <1>1, <1>3, <2>1, <2>2, <2>3 DEF Releasing
<1>5. /\ alive' \in [Nodes -> BOOLEAN] /\ ~alive'[order[m]]
      /\ \A v \in Nodes : v # order[m] => alive'[v] = alive[v]
    BY <1>1, <1>2, <1>3, <1>4 DEF Types
<1>6. \A k \in 1 .. Len(order) : alive'[order[k]] <=> k > m
    <2>1. TAKE k \in 1 .. Len(order)
    <2>2. CASE k = m
        BY <2>2, <1>4, <1>5
    <2>3. CASE k # m
        <3>1. order[k] # order[m] /\ order[k] \in Nodes
            BY <2>3, <1>4 DEF Distinct
        <3>2. alive'[order[k]] = alive[order[k]] /\ (alive[order[k]] <=> k > i)
            BY <3>1, <1>4, <1>5
        <3>3. k > i <=> k > m
            BY <2>3, <1>4
        <3> QED
            BY <3>2, <3>3
    <2> QED
        BY <2>2, <2>3
<1>7. Releasing'
    BY <1>1, <1>2, <1>3, <1>4, <1>6 DEF Releasing, Counted
<1>8. Outside'
    <2>1. \A v \in Nodes : alive'[v] => alive[v]
        BY <1>5
    <2> QED
        BY <2>1, <1>1, <1>2 DEF Outside
<1>9. Base'
    BY <1>1, <1>2, <1>5, <1>8 DEF Base, Types, Known, Releasing
<1> QED
    BY <1>7, <1>9 DEF IInv, Mode

\* Once all are released, no flag is set on a node that is left.
LEMMA ReleaseEndsOK == ASSUME IInv, ReleaseEnds PROVE IInv'
<1>1. /\ Releasing /\ GoesOn(todo, "release", R) /\ Types /\ Outside /\ stack = <<>>
      /\ root \in Nodes /\ Graph(parents)
    BY AtRelease DEF ReleaseEnds
<1>2. /\ i = Len(order) /\ todo' = R
      /\ made' = made /\ op' = op /\ parents' = parents /\ val' = val /\ grad' = grad /\ last' = last
      /\ root' = root /\ visited' = visited /\ alive' = alive
      /\ stack' = stack /\ n' = n /\ order' = order /\ i' = i
    BY <1>1 DEF ReleaseEnds, node, GoesOn
<1>3. Base'
    BY <1>2, BaseKept DEF IInv
<1>4. /\ order \in Seq(Nodes) /\ Len(order) \in Nat /\ Members(order) = ReachIn(parents, root)
      /\ \A k \in 1 .. Len(order) : ~alive[order[k]]
    BY <1>1, <1>2, LenProperties DEF Releasing, Ordered
<1>5. \A v \in ReachIn(parents, root) : ~alive[v]
    BY <1>4 DEF Members
<1>6. \A v \in Nodes : alive[v] => ~visited[v]
    BY <1>1, <1>5 DEF Outside
<1>7. /\ root # Null /\ root \in Nat /\ root <= made /\ made \in Nat /\ n \in Nat /\ n <= root
    BY <1>1, RootIs, ReachIsFinite DEF Releasing, Counted
<1>8. Finished'
    BY <1>1, <1>2, <1>4, <1>6, <1>7 DEF Finished, Releasing
<1> QED
    BY <1>3, <1>8 DEF IInv, Mode

\* The call returns.
LEMMA ReturnOK == ASSUME IInv, Return PROVE IInv'
<1>1. Types /\ Outside /\ Known
    BY DEF IInv, Base
<1>2. /\ GoesOn(todo, "return", Tail(todo)) /\ stack = <<>> /\ stack' = <<>> /\ todo' = <<>>
      /\ root' = Null /\ n' = 0 /\ order' = <<>> /\ i' = 0
      /\ made' = made /\ op' = op /\ parents' = parents /\ val' = val /\ grad' = grad /\ last' = last
      /\ visited' = visited /\ alive' = alive
    BY DEF Return, Phase, node, GoesOn
<1>3. ASSUME Resetting PROVE \A v \in Nodes : alive[v] => ~visited[v]
    <2>1. \A v \in ReachIn(parents, root) : ~visited[v]
        BY <1>2, <1>3, ZeroingEnds DEF Resetting
    <2> QED
        BY <2>1, <1>1 DEF Outside
<1>4. ~Resting /\ ~Calling /\ ~Counting /\ ~Unmarking /\ ~Ready
    BY <1>2, Phases, GoesOnOnce DEF Resting, Calling, Counting, Unmarking, Ready, Left
<1>5. ~Listing /\ ~Clearing /\ ~Sweeping /\ ~Releasing
    BY <1>2, Phases, GoesOnOnce DEF Listing, Clearing, Sweeping, Releasing, Left
<1>6. \A v \in Nodes : alive[v] => ~visited[v]
    BY <1>3, <1>4, <1>5 DEF IInv, Mode, Finished
<1>7. Types'
    BY <1>1, <1>2 DEF Types, Null
<1>8. Outside' /\ Known'
    BY <1>1, <1>2, <1>6 DEF Outside, Known
<1>9. Resting'
    BY <1>2 DEF Resting, Fresh
<1> QED
    BY <1>7, <1>8, <1>9 DEF IInv, Mode, Base

-----------------------------------------------------------------------------
(* The caller has control                                                   *)

LEMMA AtRest == ASSUME IInv, Idle PROVE Resting /\ Types /\ Known /\ \A v \in Nodes : alive[v] => ~visited[v]
<1>1. Types /\ Known /\ Outside /\ todo = <<>> /\ stack = <<>>
    BY DEF Idle, IInv, Base
<1>2. /\ R # <<>> /\ Z1 # <<>> /\ F1 # <<>> /\ F2 # <<>> /\ F3 # <<>> /\ F4 # <<>> /\ F5 # <<>>
      /\ B1 # <<>> /\ B2 # <<>> /\ B3 # <<>> /\ B4 # <<>> /\ B5 # <<>> /\ B6 # <<>> /\ B7 # <<>> /\ B8 # <<>>
    BY Phases DEF GoesOn
<1>3. ~Calling /\ ~Resetting /\ ~Counting /\ ~Unmarking /\ ~Ready
    BY <1>1, <1>2 DEF Calling, Resetting, Counting, Unmarking, Ready, Left
<1>4. ~Listing /\ ~Clearing /\ ~Sweeping /\ ~Releasing /\ ~Finished
    BY <1>1, <1>2 DEF Listing, Clearing, Sweeping, Releasing, Finished, Left
<1>5. Resting
    BY <1>3, <1>4 DEF IInv, Mode
<1>6. ReachIn(parents, root) = {}
    BY <1>1, <1>5, ReachNull DEF Resting, Types
<1> QED
    BY <1>1, <1>5, <1>6 DEF Outside

LEMMA UsableIs ==
    ASSUME Types, NEW r \in Usable
    PROVE  /\ r \in Nodes /\ r \in 1 .. made /\ r # Null /\ r \in 0 .. made
           /\ \A v \in ReachIn(parents, r) : alive[v]
BY MaxNodesNat, ReachIsReachIn DEF Usable, Types, Nodes, Null

\* A call starts on a graph that is whole.
LEMMA CallOK ==
    ASSUME IInv, NEW r \in Usable, NEW phases, Call(r, phases), phases \o <<"return">> \in {Z1, B1, F1}
    PROVE  IInv'
<1>1. Resting /\ Types /\ \A v \in Nodes : alive[v] => ~visited[v]
    BY AtRest DEF Call
<1>2. /\ root' = r /\ todo' = phases \o <<"return">> /\ last' = Null
      /\ made' = made /\ op' = op /\ parents' = parents /\ val' = val /\ grad' = grad
      /\ visited' = visited /\ alive' = alive
      /\ stack' = stack /\ n' = n /\ order' = order /\ i' = i
    BY DEF Call, node
<1>3. /\ r \in Nodes /\ r \in 1 .. made /\ r # Null /\ r \in 0 .. made
      /\ \A v \in ReachIn(parents, r) : alive[v]
    BY <1>1, UsableIs
<1>4. ReachIn(parents, r) \subseteq Nodes
    BY <1>1, <1>3, ReachFacts DEF Types
<1>5. Types'
    BY <1>1, <1>2, <1>3 DEF Types, Null
<1>6. Outside' /\ Known'
    BY <1>1, <1>2 DEF Outside, Known
<1>7. Calling'
    BY <1>1, <1>2, <1>3, <1>4 DEF Resting, Calling, Whole, NoMarks, Fresh
<1> QED
    BY <1>5, <1>6, <1>7 DEF IInv, Mode, Base

\* A node is made on parents made before.
LEMMA MakeOK ==
    ASSUME IInv, NEW o \in Ops, NEW x \in Int, NEW a \in 0 .. made, NEW b \in 0 .. made, Make(o, x, a, b),
           o = "mul" => a # Null /\ b # Null,
           o = "relu" => a # Null /\ x = IF val[a] > 0 THEN val[a] ELSE 0
    PROVE  IInv'
<1>1. Resting /\ Types /\ Known /\ \A u \in Nodes : alive[u] => ~visited[u]
    BY AtRest DEF Make
<1>2. PICK v : v = made + 1
    OBVIOUS
<1>3. PICK P : P = parents'
    OBVIOUS
<1>4. PICK O : O = op'
    OBVIOUS
<1>5. PICK W : W = val'
    OBVIOUS
<1>6. /\ made < MaxNodes /\ made' = v /\ made \in Nat /\ MaxNodes \in Nat /\ v \in Nodes
      /\ O = [op EXCEPT ![v] = o] /\ P = [parents EXCEPT ![v] = <<a, b>>]
      /\ W = [val EXCEPT ![v] = x] /\ grad' = [grad EXCEPT ![v] = 0]
      /\ visited' = [visited EXCEPT ![v] = FALSE] /\ alive' = [alive EXCEPT ![v] = TRUE]
      /\ root' = root /\ todo' = todo /\ stack' = stack /\ n' = n /\ order' = order /\ i' = i
      /\ last' = last
    BY <1>1, <1>2, <1>3, <1>4, <1>5, MaxNodesNat DEF Make, call, Types, Nodes
<1>7. /\ Graph(parents) /\ Evaluated(parents, op, val) /\ grad \in [Nodes -> Int]
      /\ visited \in [Nodes -> BOOLEAN] /\ alive \in [Nodes -> BOOLEAN]
      /\ root \in 0 .. made /\ last \in 0 .. made
    BY <1>1 DEF Types
<1>8. /\ P \in [Nodes -> Nat \X Nat] /\ P[v] = <<a, b>> /\ P[v][1] = a /\ P[v][2] = b
      /\ \A u \in Nodes : u # v => P[u] = parents[u]
    BY <1>6, <1>7 DEF Graph
<1>9. Graph(P)
    <2>1. a \in 0 .. (v - 1) /\ b \in 0 .. (v - 1)
        BY <1>2, <1>6
    <2> QED
        BY <2>1, <1>7, <1>8 DEF Graph
<1>10. /\ O \in [Nodes -> Ops] /\ O[v] = o /\ \A u \in Nodes : u # v => O[u] = op[u]
       /\ W \in [Nodes -> Int] /\ W[v] = x /\ \A u \in Nodes : u # v => W[u] = val[u]
    BY <1>6, <1>7 DEF Evaluated
<1>11. Evaluated(P, O, W)
    <2> SUFFICES ASSUME NEW u \in Nodes
                 PROVE  /\ O[u] = "mul" => P[u][1] # Null /\ P[u][2] # Null
                        /\ O[u] = "relu" => P[u][1] # Null /\ W[u] = IF W[P[u][1]] > 0 THEN W[P[u][1]] ELSE 0
        BY <1>10 DEF Evaluated
    <2>1. CASE u = v
        <3>1. o = "relu" => a # v /\ a \in Nodes
            BY <1>2, <1>6, MaxNodesNat DEF Nodes, Null
        <3> QED
            BY <2>1, <3>1, <1>8, <1>10
    <2>2. CASE u # v
        <3>1. O[u] = op[u] /\ P[u] = parents[u] /\ W[u] = val[u]
            BY <2>2, <1>8, <1>10
        <3>2. ASSUME O[u] = "relu" PROVE parents[u][1] # v /\ parents[u][1] # Null /\ parents[u][1] \in Nodes
            <4>1. u <= made /\ u \in Nat
                <5>1. ~(u > made)
                    BY <3>1, <3>2, <1>1 DEF Types
                <5> QED
                    BY <5>1, <1>6, MaxNodesNat DEF Nodes
            <4>2. parents[u][1] \in 0 .. (u - 1) /\ parents[u][1] # Null
                BY <3>1, <3>2, <1>7 DEF Graph, Evaluated
            <4> QED
                BY <4>1, <4>2, <1>2, <1>6, MaxNodesNat DEF Nodes, Null
        <3>3. O[u] = "mul" => P[u][1] # Null /\ P[u][2] # Null
            BY <3>1, <1>7 DEF Evaluated
        <3>4. O[u] = "relu" => W[P[u][1]] = val[parents[u][1]]
            BY <3>1, <3>2, <1>10
        <3>5. O[u] = "relu" => W[u] = IF W[P[u][1]] > 0 THEN W[P[u][1]] ELSE 0
            BY <3>1, <3>4, <1>7 DEF Evaluated
        <3>6. O[u] = "relu" => P[u][1] # Null
            BY <3>1, <3>2
        <3> QED
            BY <3>3, <3>5, <3>6
    <2> QED
        BY <2>1, <2>2
<1>12. /\ grad' \in [Nodes -> Int] /\ visited' \in [Nodes -> BOOLEAN] /\ alive' \in [Nodes -> BOOLEAN]
       /\ ~visited'[v]
       /\ \A u \in Nodes : u # v => grad'[u] = grad[u] /\ visited'[u] = visited[u] /\ alive'[u] = alive[u]
    BY <1>6, <1>7
<1>13. Types'
    <2>1. made' \in 0 .. MaxNodes /\ root' \in 0 .. made' /\ last' \in 0 .. made'
        BY <1>2, <1>6, <1>7
    <2>2. \A u \in Nodes : u > made' => op'[u] = "leaf"
        <3>1. TAKE u \in Nodes
        <3>2. u > made' => u > made /\ u # v
            BY <1>2, <1>6, MaxNodesNat DEF Nodes
        <3> QED
            BY <3>2, <1>1, <1>4, <1>10 DEF Types
    <2> QED
        BY <2>1, <2>2, <1>3, <1>4, <1>5, <1>9, <1>11, <1>12 DEF Types
<1>14. Outside'
    <2>1. \A u \in Nodes : ~(alive'[u] /\ visited'[u])
        BY <1>1, <1>12
    <2> QED
        BY <2>1 DEF Outside
<1>15. Known'
    <2> SUFFICES ASSUME last # Null, NEW y \in ReachIn(P, last)
                 PROVE  grad'[y] = DerIn(P, O, W, last, y)
        BY <1>3, <1>4, <1>5, <1>6 DEF Known
    <2>1. last \in 0 .. MaxNodes /\ last \in Nodes /\ last < v
        BY <1>2, <1>6, <1>7 DEF Nodes, Null
    <2>2. \A u \in 1 .. last : P[u] = parents[u] /\ O[u] = op[u] /\ W[u] = val[u]
        BY <2>1, <1>2, <1>6, <1>8, <1>10, MaxNodesNat DEF Nodes
    <2>3. ReachIn(P, last) = ReachIn(parents, last)
        BY <2>1, <2>2, <1>7, <1>9, ReachBelow
    <2>4. y \in ReachIn(parents, last) /\ y \in Nodes /\ y # v
        BY <2>1, <2>3, <1>7, <1>2, <1>6, ReachFacts DEF Nodes
    <2>5. DerIn(P, O, W, last, y) = DerIn(parents, op, val, last, y)
        BY <2>1, <2>2, <2>4, <1>7, <1>9, <1>11, DerBelow
    <2>6. grad[y] = DerIn(parents, op, val, last, y)
        BY <2>4, <1>1 DEF Known
    <2> QED
        BY <2>4, <2>5, <2>6, <1>12
<1>16. Resting'
    BY <1>1, <1>6 DEF Resting, Fresh
<1> QED
    BY <1>13, <1>14, <1>15, <1>16 DEF IInv, Mode, Base

LEMMA MakesOK ==
    ASSUME IInv, SigmoidOK, New \/ Add \/ Mul \/ Relu \/ SigmoidOf
    PROVE  IInv'
<1>1. Types /\ made \in Nat /\ val \in [Nodes -> Int]
    BY MaxNodesNat DEF IInv, Base, Types, Evaluated
<1>2. \A a \in Usable : a \in 0 .. made /\ a # Null /\ val[a] \in Int
    <2>1. TAKE a \in Usable
    <2>2. a \in Nodes /\ a # Null /\ a \in 0 .. made
        BY <1>1, UsableIs
    <2> QED
        BY <2>2, <1>1
<1>3. CASE New
    <2>1. PICK x \in Leaves : Make("leaf", x, Null, Null)
        BY <1>3 DEF New
    <2>2. x \in Int /\ Null \in 0 .. made /\ "leaf" \in Ops
        BY <1>1, MaxNodesNat DEF Null, Ops
    <2> QED
        BY <2>1, <2>2, MakeOK
<1>4. CASE Add
    <2>1. PICK a \in Usable, b \in Usable : Make("add", val[a] + val[b], a, b)
        BY <1>4 DEF Add
    <2>2. PICK x : x = val[a] + val[b]
        OBVIOUS
    <2>3. x \in Int /\ "add" \in Ops /\ Make("add", x, a, b)
        BY <1>2, <2>1, <2>2 DEF Ops
    <2> QED
        BY <1>2, <2>3, MakeOK
<1>5. CASE Mul
    <2>1. PICK a \in Usable, b \in Usable : Make("mul", val[a] * val[b], a, b)
        BY <1>5 DEF Mul
    <2>2. PICK x : x = val[a] * val[b]
        OBVIOUS
    <2>3. x \in Int
        BY <1>2, <2>2, Times
    <2>4. "mul" \in Ops /\ Make("mul", x, a, b)
        BY <2>1, <2>2 DEF Ops
    <2> QED
        BY <1>2, <2>3, <2>4, MakeOK
<1>6. CASE Relu
    <2>1. PICK a \in Usable : Make("relu", IF val[a] > 0 THEN val[a] ELSE 0, a, Null)
        BY <1>6 DEF Relu
    <2>2. PICK x : x = IF val[a] > 0 THEN val[a] ELSE 0
        OBVIOUS
    <2>3. x \in Int /\ "relu" \in Ops /\ Make("relu", x, a, Null) /\ Null \in 0 .. made
        BY <1>1, <1>2, <2>1, <2>2 DEF Ops, Null
    <2> QED
        BY <1>2, <2>2, <2>3, MakeOK
<1>7. CASE SigmoidOf
    <2>1. PICK a \in Usable : Make("sigmoid", Sigmoid(val[a]), a, Null)
        BY <1>7 DEF SigmoidOf
    <2>2. PICK x : x = Sigmoid(val[a])
        OBVIOUS
    <2>3. x \in Int /\ "sigmoid" \in Ops /\ Make("sigmoid", x, a, Null) /\ Null \in 0 .. made
        BY <1>1, <1>2, <2>1, <2>2 DEF SigmoidOK, Ops, Null
    <2> QED
        BY <1>2, <2>3, MakeOK
<1> QED
    BY <1>3, <1>4, <1>5, <1>6, <1>7

-----------------------------------------------------------------------------
(* Steps of the traversals                                                  *)

Flagged(vis, v, m) == [vis EXCEPT ![v] = m]

Gains(S, v, T) == T = S \cup {v}

LEMMA MarksOne ==
    ASSUME NEW P, NEW r, ReachIn(P, r) \subseteq Nodes, NEW vis \in [Nodes -> BOOLEAN], NEW v \in ReachIn(P, r)
    PROVE  /\ Gains(Marked(P, r, vis), v, Marked(P, r, Flagged(vis, v, TRUE)))
           /\ Gains(Bare(P, r, vis), v, Bare(P, r, Flagged(vis, v, FALSE)))
<1>1. /\ [vis EXCEPT ![v] = TRUE][v] = TRUE /\ [vis EXCEPT ![v] = FALSE][v] = FALSE
      /\ \A u \in Nodes : u # v => [vis EXCEPT ![v] = TRUE][u] = vis[u] /\ [vis EXCEPT ![v] = FALSE][u] = vis[u]
    OBVIOUS
<1>2. PICK S : S = ReachIn(P, r)
    OBVIOUS
<1>3. PICK t : t = [vis EXCEPT ![v] = TRUE]
    OBVIOUS
<1>4. PICK f : f = [vis EXCEPT ![v] = FALSE]
    OBVIOUS
<1>5. {u \in S : t[u]} = {u \in S : vis[u]} \cup {v}
    BY <1>1, <1>2, <1>3
<1>6. {u \in S : ~f[u]} = {u \in S : ~vis[u]} \cup {v}
    BY <1>1, <1>2, <1>4
<1> QED
    BY <1>2, <1>3, <1>4, <1>5, <1>6 DEF Gains, Marked, Bare, Flagged

\* The traversals whose stack is not empty are those of the calls.
LEMMA AtFrame ==
    ASSUME IInv, stack # <<>>
    PROVE  /\ Resetting \/ Counting \/ Unmarking \/ Listing \/ Clearing
           /\ Types /\ Outside /\ Known /\ Whole /\ last = Null
           /\ root \in Nodes /\ Graph(parents) /\ ReachIn(parents, root) \subseteq Nodes
<1>1. ~Resting /\ ~Calling /\ ~Ready /\ ~Sweeping /\ ~Releasing /\ ~Finished
    BY DEF Resting, Calling, Ready, Sweeping, Releasing, Finished
<1>2. Resetting \/ Counting \/ Unmarking \/ Listing \/ Clearing
    BY <1>1 DEF IInv, Mode
<1>3. Whole /\ last = Null
    BY <1>2 DEF Resetting, Counting, Unmarking, Listing, Clearing
<1>4. Types /\ Outside /\ Known /\ root # Null
    BY <1>3 DEF IInv, Base, Whole
<1> QED
    BY <1>2, <1>3, <1>4, RootIs, ReachFacts

\* Their frames are those of one function, or of zero_grad and clear_visited.
LEMMA FrameOnTop ==
    ASSUME IInv, stack # <<>>
    PROVE  /\ Len(stack) \in Nat /\ Len(stack) > 0 /\ Len(stack) \in 1 .. Len(stack)
           /\ stack[Len(stack)][3] \in {"enter", "leave"} /\ stack[Len(stack)][2] \in 0 .. MaxNodes
           /\ stack[Len(stack)][2] # Null => stack[Len(stack)][2] \in ReachIn(parents, root)
                                             /\ stack[Len(stack)][2] \in Nodes
           /\ stack[Len(stack)][3] = "leave" => stack[Len(stack)][2] # Null
           /\ Resetting => stack[Len(stack)][1] \in {"zero", "clear"}
           /\ Counting => stack[Len(stack)][1] = "count"
           /\ Unmarking => stack[Len(stack)][1] = "clear"
           /\ Listing => stack[Len(stack)][1] = "order"
           /\ Clearing => stack[Len(stack)][1] = "clear"
           /\ \E F : StackOK(F, parents, root, stack)
<1>1. PICK F : F = {"zero", "clear"}
    OBVIOUS
<1>2. /\ Resetting => StackOK(F, parents, root, stack)
      /\ Counting => StackOK({"count"}, parents, root, stack)
      /\ Unmarking => StackOK({"clear"}, parents, root, stack)
      /\ Listing => StackOK({"order"}, parents, root, stack)
      /\ Clearing => StackOK({"clear"}, parents, root, stack)
    BY <1>1 DEF Resetting, Counting, Unmarking, Listing, Clearing, Zeroing, Walk, Ordering
<1>3. \A G : StackOK(G, parents, root, stack) =>
           /\ Len(stack) \in Nat /\ Len(stack) > 0 /\ Len(stack) \in 1 .. Len(stack)
           /\ stack[Len(stack)][1] \in G
           /\ stack[Len(stack)][3] \in {"enter", "leave"} /\ stack[Len(stack)][2] \in 0 .. MaxNodes
           /\ stack[Len(stack)][2] # Null => stack[Len(stack)][2] \in ReachIn(parents, root)
                                             /\ stack[Len(stack)][2] \in Nodes
           /\ stack[Len(stack)][3] = "leave" => stack[Len(stack)][2] # Null
    BY AtFrame, TopIs
<1>4. \E G : StackOK(G, parents, root, stack)
    BY <1>2, AtFrame
<1> QED
    BY <1>1, <1>2, <1>3, <1>4

\* A mark set or taken back below the root disturbs nothing outside.
LEMMA BaseEnters ==
    ASSUME IInv, stack # <<>>, NEW v \in ReachIn(parents, root), NEW m \in BOOLEAN,
           visited' = [visited EXCEPT ![v] = m], grad' = grad \/ grad' = [grad EXCEPT ![v] = 0],
           UNCHANGED <<made, op, parents, val, alive, root, last>>
    PROVE  Base'
<1>1. Types /\ Outside /\ last = Null /\ v \in Nodes
    BY AtFrame
<1>2. /\ visited' \in [Nodes -> BOOLEAN] /\ \A u \in Nodes : u # v => visited'[u] = visited[u]
      /\ grad' \in [Nodes -> Int]
    BY <1>1 DEF Types
<1>3. Types' /\ Known'
    BY <1>1, <1>2 DEF Types, Known
<1>4. Outside'
    BY <1>1, <1>2 DEF Outside
<1> QED
    BY <1>3, <1>4 DEF Base

\* What Enter does with the node v on top, in function f.
Goes(f, v) ==
    /\ stack' = Descent(f, parents, v, stack)
    /\ visited' = [visited EXCEPT ![v] = (f # "clear")]
    /\ grad' = IF f = "zero" THEN [grad EXCEPT ![v] = 0] ELSE grad
    /\ n' = IF f = "count" THEN n + 1 ELSE n
Skips == stack' = Pop(stack) /\ visited' = visited /\ grad' = grad /\ n' = n

LEMMA EnterIs ==
    ASSUME Enter
    PROVE  /\ stack # <<>> /\ stack[Len(stack)][3] = "enter"
           /\ Enters(stack[Len(stack)][1], stack[Len(stack)][2]) =>
                 Goes(stack[Len(stack)][1], stack[Len(stack)][2])
           /\ ~Enters(stack[Len(stack)][1], stack[Len(stack)][2]) => Skips
           /\ made' = made /\ op' = op /\ parents' = parents /\ val' = val /\ alive' = alive
           /\ root' = root /\ todo' = todo /\ order' = order /\ i' = i /\ last' = last
<1>1. /\ stack # <<>> /\ stack[Len(stack)][3] = "enter"
      /\ made' = made /\ op' = op /\ parents' = parents /\ val' = val /\ alive' = alive
      /\ root' = root /\ todo' = todo /\ order' = order /\ i' = i /\ last' = last
    BY DEF Enter, Top, node
<1>2. ASSUME Enters(stack[Len(stack)][1], stack[Len(stack)][2])
      PROVE  Goes(stack[Len(stack)][1], stack[Len(stack)][2])
    BY <1>2, Zenon DEF Enter, Top, Popped, Goes, Descent, Push
<1>3. ASSUME ~Enters(stack[Len(stack)][1], stack[Len(stack)][2])
      PROVE  Skips
    BY <1>3, Zenon DEF Enter, Top, Popped, Skips, Pop
<1> QED
    BY <1>1, <1>2, <1>3

LEMMA EnterOK == ASSUME IInv, Enter PROVE IInv'
<1>1. PICK f : f = stack[Len(stack)][1]
    OBVIOUS
<1>2. PICK v : v = stack[Len(stack)][2]
    OBVIOUS
<1>3. /\ stack # <<>> /\ stack[Len(stack)][3] = "enter"
      /\ Enters(f, v) => Goes(f, v)
      /\ ~Enters(f, v) => Skips
      /\ made' = made /\ op' = op /\ parents' = parents /\ val' = val /\ alive' = alive
      /\ root' = root /\ todo' = todo /\ order' = order /\ i' = i /\ last' = last
    BY <1>1, <1>2, EnterIs
<1>4. /\ Resetting \/ Counting \/ Unmarking \/ Listing \/ Clearing
      /\ Types /\ Whole /\ last = Null
      /\ root \in Nodes /\ Graph(parents) /\ ReachIn(parents, root) \subseteq Nodes
      /\ visited \in [Nodes -> BOOLEAN] /\ grad \in [Nodes -> Int]
    BY <1>3, AtFrame DEF Types
<1>5. /\ v # Null => v \in ReachIn(parents, root) /\ v \in Nodes
      /\ Resetting => f \in {"zero", "clear"}
      /\ Counting => f = "count"
      /\ Unmarking \/ Clearing => f = "clear"
      /\ Listing => f = "order"
    BY <1>1, <1>2, <1>3, FrameOnTop
<1>6. Base'
    <2>1. CASE Enters(f, v)
        <3>1. Goes(f, v) /\ v \in ReachIn(parents, root)
            BY <2>1, <1>3, <1>5 DEF Enters
        <3>2. /\ visited' = [visited EXCEPT ![v] = (f # "clear")] /\ (f # "clear") \in BOOLEAN
              /\ grad' = grad \/ grad' = [grad EXCEPT ![v] = 0]
            BY <3>1 DEF Goes
        <3> QED
            BY <1>3, <3>1, <3>2, BaseEnters
    <2>2. CASE ~Enters(f, v)
        BY <2>2, <1>3, BaseKept DEF Skips, IInv
    <2> QED
        BY <2>1, <2>2
<1>7. Whole'
    BY <1>3, <1>4 DEF Whole
<1>8. ASSUME f # "zero" PROVE grad' = grad
    BY <1>3, <1>8 DEF Goes, Skips
<1>9. ASSUME f # "count" PROVE n' = n
    BY <1>3, <1>9 DEF Goes, Skips
<1>10. CASE Resetting
    <2>1. Zeroing(parents, root, stack', visited', grad')
        <3>1. CASE f = "zero" /\ v # Null
            <4>1. ~visited[v]
                BY <3>1, <1>1, <1>2, <1>3, <1>4, <1>10, ZeroingMeets DEF Resetting
            <4>2. Goes(f, v)
                BY <3>1, <4>1, <1>3 DEF Enters
            <4>3. /\ stack' = Descent("zero", parents, v, stack)
                  /\ visited' = [visited EXCEPT ![v] = TRUE] /\ grad' = [grad EXCEPT ![v] = 0]
                BY <3>1, <4>2 DEF Goes
            <4>4. Zeroing(parents, root, Descent("zero", parents, v, stack), [visited EXCEPT ![v] = TRUE],
                          [grad EXCEPT ![v] = 0])
                BY <3>1, <1>1, <1>2, <1>3, <1>4, <1>10, ZeroingEnters DEF Resetting
            <4> QED
                BY <4>3, <4>4
        <3>2. CASE v = Null
            <4>1. Skips
                BY <3>2, <1>3 DEF Enters
            <4>2. Zeroing(parents, root, Pop(stack), visited, grad)
                BY <3>2, <1>2, <1>3, <1>4, <1>10, ZeroingPops DEF Resetting
            <4> QED
                BY <4>1, <4>2 DEF Skips
        <3>3. CASE f = "clear" /\ v # Null /\ visited[v]
            <4>1. Goes(f, v)
                BY <3>3, <1>3 DEF Enters
            <4>2. /\ stack' = Descent("clear", parents, v, stack)
                  /\ visited' = [visited EXCEPT ![v] = FALSE] /\ grad' = grad
                BY <3>3, <4>1 DEF Goes
            <4>3. Zeroing(parents, root, Descent("clear", parents, v, stack), [visited EXCEPT ![v] = FALSE], grad)
                BY <3>3, <1>1, <1>2, <1>3, <1>4, <1>10, ClearingEnters DEF Resetting
            <4> QED
                BY <4>2, <4>3
        <3>4. CASE f = "clear" /\ v # Null /\ ~visited[v]
            <4>1. Skips
                BY <3>4, <1>3 DEF Enters
            <4>2. Zeroing(parents, root, Pop(stack), visited, grad)
                BY <3>4, <1>1, <1>2, <1>3, <1>4, <1>10, ZeroingPops DEF Resetting
            <4> QED
                BY <4>1, <4>2 DEF Skips
        <3> QED
            BY <3>1, <3>2, <3>3, <3>4, <1>5, <1>10
    <2>2. Resetting'
        BY <1>3, <1>5, <1>7, <1>9, <1>10, <2>1 DEF Resetting, Fresh
    <2> QED
        BY <1>6, <2>2 DEF IInv, Mode
<1>11. CASE Counting
    <2>1. f = "count" /\ Walk("count", parents, root, stack, Marked(parents, root, visited))
          /\ n = Cardinality(Marked(parents, root, visited))
        BY <1>5, <1>11 DEF Counting
    <2>2. /\ Walk("count", parents, root, stack', Marked(parents, root, visited'))
          /\ n' = Cardinality(Marked(parents, root, visited'))
        <3>1. CASE v # Null /\ ~visited[v]
            <4>1. /\ stack' = Descent("count", parents, v, stack)
                  /\ visited' = [visited EXCEPT ![v] = TRUE] /\ n' = n + 1
                BY <3>1, <2>1, <1>3 DEF Enters, Goes
            <4>2. Marked(parents, root, visited') = Marked(parents, root, visited) \cup {v}
                <5>1. visited' = Flagged(visited, v, TRUE)
                    BY <4>1 DEF Flagged
                <5>2. v \in ReachIn(parents, root)
                    BY <3>1, <1>5
                <5>3. Gains(Marked(parents, root, visited), v, Marked(parents, root, Flagged(visited, v, TRUE)))
                    BY <5>2, <1>4, MarksOne
                <5> QED
                    BY <5>1, <5>3 DEF Gains
            <4>3. v \in ReachIn(parents, root) \ Marked(parents, root, visited)
                  /\ Marked(parents, root, visited) \in SUBSET ReachIn(parents, root)
                BY <3>1, <1>5 DEF Marked
            <4>4. n' = Cardinality(Marked(parents, root, visited) \cup {v})
                BY <4>1, <4>3, <2>1, <1>4, ReachIsFinite
            <4>5. Walk("count", parents, root, Descent("count", parents, v, stack),
                       Marked(parents, root, visited) \cup {v})
                BY <3>1, <2>1, <1>2, <1>3, <1>4, WalkEnters
            <4> QED
                BY <4>1, <4>2, <4>4, <4>5
        <3>2. CASE ~(v # Null /\ ~visited[v])
            <4>1. Skips
                BY <3>2, <2>1, <1>3 DEF Enters
            <4>2. v = Null \/ v \in Marked(parents, root, visited)
                BY <3>2, <1>5 DEF Marked
            <4>3. Walk("count", parents, root, Pop(stack), Marked(parents, root, visited))
                BY <4>2, <2>1, <1>2, <1>3, <1>4, WalkPops
            <4> QED
                BY <4>1, <4>3, <2>1 DEF Skips
        <3> QED
            BY <3>1, <3>2
    <2>3. grad' = grad
        BY <2>1, <1>8
    <2>4. Left(B3, F2)'
        BY <2>3, <1>3, <1>11 DEF Counting, Left, NoGradients
    <2>5. Counting'
        BY <1>3, <1>7, <1>11, <2>2, <2>4 DEF Counting
    <2> QED
        BY <1>6, <2>5 DEF IInv, Mode
<1>12. ASSUME f = "clear", Walk("clear", parents, root, stack, Bare(parents, root, visited))
       PROVE  Walk("clear", parents, root, stack', Bare(parents, root, visited'))
    <2>1. CASE v # Null /\ visited[v]
        <3>1. stack' = Descent("clear", parents, v, stack) /\ visited' = [visited EXCEPT ![v] = FALSE]
            BY <2>1, <1>3, <1>12 DEF Enters, Goes
        <3>2. Bare(parents, root, visited') = Bare(parents, root, visited) \cup {v}
            <4>1. visited' = Flagged(visited, v, FALSE)
                BY <3>1 DEF Flagged
            <4>2. v \in ReachIn(parents, root)
                BY <2>1, <1>5
            <4>3. Gains(Bare(parents, root, visited), v, Bare(parents, root, Flagged(visited, v, FALSE)))
                BY <4>2, <1>4, MarksOne
            <4> QED
                BY <4>1, <4>3 DEF Gains
        <3>3. Walk("clear", parents, root, Descent("clear", parents, v, stack), Bare(parents, root, visited) \cup {v})
            BY <2>1, <1>2, <1>3, <1>4, <1>12, WalkEnters
        <3> QED
            BY <3>1, <3>2, <3>3
    <2>2. CASE ~(v # Null /\ visited[v])
        <3>1. Skips
            BY <2>2, <1>3, <1>12 DEF Enters
        <3>2. v = Null \/ v \in Bare(parents, root, visited)
            BY <2>2, <1>5 DEF Bare
        <3>3. Walk("clear", parents, root, Pop(stack), Bare(parents, root, visited))
            BY <3>2, <1>2, <1>3, <1>4, <1>12, WalkPops
        <3> QED
            BY <3>1, <3>3 DEF Skips
    <2> QED
        BY <2>1, <2>2
<1>13. CASE Unmarking
    <2>1. f = "clear" /\ grad' = grad /\ n' = n
        BY <1>5, <1>8, <1>9, <1>13
    <2>2. Walk("clear", parents, root, stack', Bare(parents, root, visited'))
        BY <2>1, <1>12, <1>13 DEF Unmarking
    <2>3. Unmarking'
        BY <2>1, <2>2, <1>3, <1>7, <1>13 DEF Unmarking, Left, NoGradients, Counted
    <2> QED
        BY <1>6, <2>3 DEF IInv, Mode
<1>14. CASE Clearing
    <2>1. f = "clear" /\ grad' = grad /\ n' = n
        BY <1>5, <1>8, <1>9, <1>14
    <2>2. Walk("clear", parents, root, stack', Bare(parents, root, visited'))
        BY <2>1, <1>12, <1>14 DEF Clearing
    <2>3. Clearing'
        BY <2>1, <2>2, <1>3, <1>7, <1>14 DEF Clearing, NoGradients, Counted
    <2> QED
        BY <1>6, <2>3 DEF IInv, Mode
<1>15. CASE Listing
    <2>1. f = "order" /\ Ordering("order", parents, root, stack, Marked(parents, root, visited), order)
        BY <1>5, <1>15 DEF Listing
    <2>2. Ordering("order", parents, root, stack', Marked(parents, root, visited'), order)
        <3>1. CASE v # Null /\ ~visited[v]
            <4>1. stack' = Descent("order", parents, v, stack) /\ visited' = [visited EXCEPT ![v] = TRUE]
                BY <3>1, <2>1, <1>3 DEF Enters, Goes
            <4>2. Marked(parents, root, visited') = Marked(parents, root, visited) \cup {v}
                <5>1. visited' = Flagged(visited, v, TRUE)
                    BY <4>1 DEF Flagged
                <5>2. v \in ReachIn(parents, root)
                    BY <3>1, <1>5
                <5>3. Gains(Marked(parents, root, visited), v, Marked(parents, root, Flagged(visited, v, TRUE)))
                    BY <5>2, <1>4, MarksOne
                <5> QED
                    BY <5>1, <5>3 DEF Gains
            <4>3. v \notin Marked(parents, root, visited)
                BY <3>1 DEF Marked
            <4>4. Ordering("order", parents, root, Descent("order", parents, v, stack),
                           Marked(parents, root, visited) \cup {v}, order)
                BY <3>1, <4>3, <2>1, <1>2, <1>3, <1>4, OrderingEnters
            <4> QED
                BY <4>1, <4>2, <4>4
        <3>2. CASE ~(v # Null /\ ~visited[v])
            <4>1. Skips
                BY <3>2, <2>1, <1>3 DEF Enters
            <4>2. v = Null \/ v \in Marked(parents, root, visited)
                BY <3>2, <1>5 DEF Marked
            <4>3. Ordering("order", parents, root, Pop(stack), Marked(parents, root, visited), order)
                BY <4>2, <2>1, <1>2, <1>3, <1>4, OrderingSkips
            <4> QED
                BY <4>1, <4>3 DEF Skips
        <3> QED
            BY <3>1, <3>2
    <2>3. grad' = grad /\ n' = n
        BY <2>1, <1>8, <1>9
    <2>4. Listing'
        BY <2>2, <2>3, <1>3, <1>7, <1>15 DEF Listing, Left, NoGradients, Counted
    <2> QED
        BY <1>6, <2>4 DEF IInv, Mode
<1> QED
    BY <1>4, <1>10, <1>11, <1>13, <1>14, <1>15

LEMMA LeaveOK == ASSUME IInv, Leave PROVE IInv'
<1>1. PICK f : f = stack[Len(stack)][1]
    OBVIOUS
<1>2. PICK v : v = stack[Len(stack)][2]
    OBVIOUS
<1>3. /\ stack # <<>> /\ stack[Len(stack)][3] = "leave"
      /\ f = "zero" => stack' = Swap(stack, <<"clear", v, "enter">>)
      /\ f # "zero" => stack' = Pop(stack)
      /\ f = "order" /\ Len(order) < n => order' = Append(order, v)
      /\ f # "order" => order' = order
    BY <1>1, <1>2 DEF Leave, Top, Popped, Swap, Pop
<1>4. /\ made' = made /\ op' = op /\ parents' = parents /\ val' = val /\ alive' = alive
      /\ root' = root /\ todo' = todo /\ n' = n /\ i' = i /\ last' = last
      /\ grad' = grad /\ visited' = visited
    BY DEF Leave, node
<1>5. /\ Resetting \/ Counting \/ Unmarking \/ Listing \/ Clearing
      /\ Whole /\ root \in Nodes /\ Graph(parents)
    BY <1>3, AtFrame
<1>6. /\ v # Null
      /\ Resetting => f \in {"zero", "clear"}
      /\ Counting => f = "count"
      /\ Unmarking \/ Clearing => f = "clear"
      /\ Listing => f = "order"
    BY <1>1, <1>2, <1>3, FrameOnTop
<1>7. Base'
    BY <1>4, BaseKept DEF IInv
<1>8. Whole'
    BY <1>4, <1>5 DEF Whole
<1>9. CASE Resetting
    <2>1. CASE f = "zero"
        <3>1. Zeroing(parents, root, Swap(stack, <<"clear", v, "enter">>), visited, grad)
            BY <2>1, <1>1, <1>2, <1>3, <1>5, <1>9, ZeroingLeaves DEF Resetting
        <3>2. Resetting'
            BY <2>1, <3>1, <1>3, <1>4, <1>8, <1>9 DEF Resetting, Fresh
        <3> QED
            BY <3>2, <1>7 DEF IInv, Mode
    <2>2. CASE f = "clear"
        <3>1. Zeroing(parents, root, Pop(stack), visited, grad)
            BY <2>2, <1>1, <1>3, <1>5, <1>9, ZeroingPops DEF Resetting
        <3>2. Resetting'
            BY <2>2, <3>1, <1>3, <1>4, <1>8, <1>9 DEF Resetting, Fresh
        <3> QED
            BY <3>2, <1>7 DEF IInv, Mode
    <2> QED
        BY <2>1, <2>2, <1>6, <1>9
<1>10. CASE Counting
    <2>1. Walk("count", parents, root, Pop(stack), Marked(parents, root, visited))
        BY <1>3, <1>5, <1>10, WalkPops DEF Counting
    <2>2. Counting'
        BY <2>1, <1>3, <1>4, <1>6, <1>8, <1>10 DEF Counting, Left, NoGradients
    <2> QED
        BY <2>2, <1>7 DEF IInv, Mode
<1>11. CASE Unmarking
    <2>1. Walk("clear", parents, root, Pop(stack), Bare(parents, root, visited))
        BY <1>3, <1>5, <1>11, WalkPops DEF Unmarking
    <2>2. Unmarking'
        BY <2>1, <1>3, <1>4, <1>6, <1>8, <1>11 DEF Unmarking, Left, NoGradients, Counted
    <2> QED
        BY <2>2, <1>7 DEF IInv, Mode
<1>12. CASE Clearing
    <2>1. Walk("clear", parents, root, Pop(stack), Bare(parents, root, visited))
        BY <1>3, <1>5, <1>12, WalkPops DEF Clearing
    <2>2. Clearing'
        BY <2>1, <1>3, <1>4, <1>6, <1>8, <1>12 DEF Clearing, NoGradients, Counted
    <2> QED
        BY <2>2, <1>7 DEF IInv, Mode
<1>13. CASE Listing
    <2>1. /\ Ordering("order", parents, root, Pop(stack), Marked(parents, root, visited), Append(order, v))
          /\ Len(order) < Cardinality(ReachIn(parents, root))
          /\ Len(Append(order, v)) = Len(order) + 1
        BY <1>2, <1>3, <1>5, <1>13, OrderingLeaves DEF Listing
    <2>2. Len(order) < n
        BY <2>1, <1>13 DEF Listing, Counted
    <2>3. order' = Append(order, v) /\ stack' = Pop(stack)
        BY <2>2, <1>3, <1>6, <1>13
    <2>4. Len(order') <= n'
        <3>1. n \in Nat
            BY <1>5, <1>13, ReachIsFinite DEF Listing, Counted
        <3>2. Len(order) \in Nat
            <4>1. order \in Seq(Nodes)
                BY <1>13 DEF Listing, Ordering
            <4> QED
                BY <4>1, LenProperties
        <3> QED
            BY <3>1, <3>2, <2>1, <2>2, <2>3, <1>4
    <2>5. Listing'
        BY <2>1, <2>3, <2>4, <1>4, <1>8, <1>13 DEF Listing, Left, NoGradients, Counted
    <2> QED
        BY <2>5, <1>7 DEF IInv, Mode
<1> QED
    BY <1>5, <1>9, <1>10, <1>11, <1>12, <1>13

-----------------------------------------------------------------------------
(* The invariant holds                                                      *)

LEMMA InitOK == ASSUME Init PROVE IInv
<1>1. made = 0 /\ root = 0 /\ last = 0 /\ 0 \in 0 .. MaxNodes /\ 0 \in 0 .. made
    BY MaxNodesNat DEF Init, Null
<1>2. Graph(parents)
    <2>1. \A v \in Nodes : 0 \in 0 .. (v - 1)
        BY MaxNodesNat DEF Nodes
    <2> QED
        BY <2>1 DEF Init, Graph, Null
<1>3. Evaluated(parents, op, val)
    BY DEF Init, Evaluated, Ops
<1>4. Types
    BY <1>1, <1>2, <1>3 DEF Init, Types
<1>5. Outside /\ Known
    BY <1>1 DEF Init, Outside, Known, Null
<1>6. Resting
    BY DEF Init, Resting, Fresh
<1> QED
    BY <1>4, <1>5, <1>6 DEF IInv, Base, Mode

LEMMA StepOK == ASSUME IInv, Step PROVE IInv'
BY BeginOK, MallocOK, MallocFailsOK, EnterOK, LeaveOK, SeedOK, SweepOK, SweepEndsOK, ReleaseOK,
   ReleaseEndsOK, ReturnOK DEF Step

LEMMA NextOK == ASSUME SigmoidOK, IInv, Next PROVE IInv'
<1>1. CASE New \/ Add \/ Mul \/ Relu \/ SigmoidOf
    BY <1>1, MakesOK
<1>2. CASE ZeroGrad
    <2>1. PICK r \in Usable : Call(r, <<"zero">>)
        BY <1>2 DEF ZeroGrad
    <2> QED
        BY <2>1, CallOK, Calls
<1>3. CASE Backward
    <2>1. PICK r \in Usable : Call(r, <<"zero", "count", "clear", "malloc", "order", "clear", "seed", "sweep">>)
        BY <1>3 DEF Backward
    <2> QED
        BY <2>1, CallOK, Calls
<1>4. CASE Free
    <2>1. PICK r \in Usable : Call(r, <<"count", "clear", "malloc", "order", "release">>)
        BY <1>4 DEF Free
    <2> QED
        BY <2>1, CallOK, Calls
<1>5. CASE Step
    BY <1>5, StepOK
<1> QED
    BY <1>1, <1>2, <1>3, <1>4, <1>5 DEF Next

LEMMA StutterOK == ASSUME IInv, UNCHANGED vars PROVE IInv'
<1>1. /\ made' = made /\ op' = op /\ parents' = parents /\ val' = val /\ grad' = grad
      /\ visited' = visited /\ alive' = alive /\ root' = root /\ todo' = todo /\ stack' = stack
      /\ n' = n /\ order' = order /\ i' = i /\ last' = last
    BY DEF vars, node, call
<1>2. Base'
    BY <1>1, BaseKept DEF IInv
<1>3. Resting \/ Calling => Resting' \/ Calling'
    BY <1>1 DEF Resting, Calling, Whole, NoMarks, Fresh
<1>4. Resetting => Resetting'
    BY <1>1 DEF Resetting, Whole, Fresh
<1>5. Counting => Counting'
    BY <1>1 DEF Counting, Whole, Left, NoGradients
<1>6. Unmarking => Unmarking'
    BY <1>1 DEF Unmarking, Whole, Left, NoGradients, Counted
<1>7. Ready => Ready'
    BY <1>1 DEF Ready, Whole, Left, NoGradients, NoMarks, Counted
<1>8. Listing => Listing'
    BY <1>1 DEF Listing, Whole, Left, NoGradients, Counted
<1>9. Clearing => Clearing'
    BY <1>1 DEF Clearing, Whole, NoGradients, Counted
<1>10. Sweeping => Sweeping'
    BY <1>1 DEF Sweeping, Whole, NoMarks, Counted
<1>11. Releasing => Releasing'
    BY <1>1 DEF Releasing, Counted
<1>12. Finished => Finished'
    BY <1>1 DEF Finished
<1> QED
    BY <1>2, <1>3, <1>4, <1>5, <1>6, <1>7, <1>8, <1>9, <1>10, <1>11, <1>12 DEF IInv, Mode

LEMMA Invariance == ASSUME SigmoidOK PROVE Spec => []IInv
<1>1. Init => IInv
    BY InitOK
<1>2. IInv /\ [Next]_vars => IInv'
    BY NextOK, StutterOK
<1> QED
    BY <1>1, <1>2, PTL DEF Spec

\* What the locals of a call count stays within the nodes made.
LEMMA CountsOK ==
    ASSUME IInv
    PROVE  n \in 0 .. made /\ Len(order) <= n /\ i \in 0 .. Len(order)
<1>1. Types /\ made \in Nat
    BY MaxNodesNat DEF IInv, Base, Types
<1>2. ASSUME Fresh PROVE n \in 0 .. made /\ Len(order) <= n /\ i \in 0 .. Len(order)
    BY <1>1, <1>2 DEF Fresh
<1>3. CASE Resting \/ Calling \/ Resetting
    BY <1>2, <1>3 DEF Resting, Calling, Resetting
<1>4. ASSUME root # Null
      PROVE  /\ root \in Nodes /\ Graph(parents) /\ root \in Nat /\ root <= made
             /\ Cardinality(ReachIn(parents, root)) \in Nat /\ Cardinality(ReachIn(parents, root)) <= root
             /\ Cardinality(Marked(parents, root, visited)) \in Nat
             /\ Cardinality(Marked(parents, root, visited)) <= root
    <2>1. root \in Nodes /\ Graph(parents) /\ root \in Nat /\ root <= made
        BY <1>1, <1>4, RootIs
    <2>2. Marked(parents, root, visited) \in SUBSET ReachIn(parents, root)
          /\ ReachIn(parents, root) \in SUBSET ReachIn(parents, root)
        BY DEF Marked
    <2> QED
        BY <2>1, <2>2, ReachIsFinite
<1>5. CASE Counting \/ Unmarking \/ Ready
    <2>1. root # Null /\ order = <<>> /\ i = 0
        BY <1>5 DEF Counting, Unmarking, Ready, Whole
    <2>2. n \in Nat /\ n <= root /\ root \in Nat /\ root <= made
        BY <1>4, <1>5, <2>1 DEF Counting, Unmarking, Ready, Counted
    <2> QED
        BY <1>1, <2>1, <2>2
<1>6. CASE Listing \/ Clearing \/ Sweeping \/ Releasing
    <2>1. root # Null /\ Counted /\ Len(order) <= n
        BY <1>6 DEF Listing, Clearing, Sweeping, Releasing, Whole
    <2>2. n \in Nat /\ n <= root /\ root \in Nat /\ root <= made
        BY <1>4, <2>1 DEF Counted
    <2>3. order \in Seq(Nodes)
        BY <1>6 DEF Listing, Clearing, Sweeping, Releasing, Ordering, Ordered
    <2>4. Len(order) \in Nat
        BY <2>3, LenProperties
    <2>5. i \in 0 .. Len(order)
        BY <1>6, <2>4 DEF Listing, Clearing, Sweeping, Releasing, Swept
    <2> QED
        BY <1>1, <2>1, <2>2, <2>4, <2>5
<1>7. CASE Finished
    BY <1>7 DEF Finished
<1> QED
    BY <1>3, <1>5, <1>6, <1>7 DEF IInv, Mode

Remembers == clean \in BOOLEAN

LEMMA CleanIsBoolean == Spec => []Remembers
<1>1. Init => Remembers
    BY DEF Init, Remembers
<1>2. ASSUME NEW r, NEW phases, Call(r, phases) PROVE clean' \in BOOLEAN
    <2>1. clean' = (\A v \in Reach(r) : grad[v] = 0)
        BY <1>2 DEF Call
    <2> QED
        BY <2>1, Zenon
<1>3. ASSUME clean \in BOOLEAN, Next PROVE clean' \in BOOLEAN
    <2>1. CASE New \/ Add \/ Mul \/ Relu \/ SigmoidOf
        BY <1>3, <2>1 DEF New, Add, Mul, Relu, SigmoidOf, Make
    <2>2. CASE ZeroGrad \/ Backward \/ Free
        <3>1. PICK r \in Usable : \E phases : Call(r, phases)
            BY <2>2, Zenon DEF ZeroGrad, Backward, Free
        <3> QED
            BY <1>2, <3>1, Zenon
    <2>3. CASE Step
        <3>1. clean' = clean
            BY <2>3 DEF Step, Begin, Malloc, MallocFails, Enter, Leave, Seed, Sweep, SweepEnds,
                        Release, ReleaseEnds, Return
        <3> QED
            BY <1>3, <3>1
    <2> QED
        BY <1>3, <2>1, <2>2, <2>3 DEF Next
<1>4. clean \in BOOLEAN /\ UNCHANGED vars => clean' \in BOOLEAN
    BY DEF vars
<1>5. Remembers /\ [Next]_vars => Remembers'
    BY <1>3, <1>4 DEF Remembers
<1> QED
    BY <1>1, <1>5, PTL DEF Spec

\* The graph of abs_scalar.c is sound, for every number of nodes: counts stay
\* in range, no call leaves a flag on a node that is still allocated, every
\* frame and every node of a sweep is allocated, and free has the whole graph
\* of its root in its list, each node once and each still to be released.
THEOREM GraphOKAlways ==
    ASSUME SigmoidOK
    PROVE  Spec => []GraphOK
<1>1. ASSUME IInv, clean \in BOOLEAN PROVE TypeOK
    <2>1. /\ Types /\ Graph(parents) /\ Evaluated(parents, op, val)
          /\ n \in 0 .. made /\ Len(order) <= n /\ i \in 0 .. Len(order)
        BY <1>1, CountsOK DEF IInv, Base, Types
    <2>2. \A v \in Nodes : parents[v] \in (0 .. v - 1) \X (0 .. v - 1)
        BY <2>1 DEF Graph
    <2> QED
        BY <1>1, <2>1, <2>2 DEF TypeOK, Types, Evaluated, Ops
<1>2. ASSUME IInv PROVE FlagsAreClear
    <2> SUFFICES ASSUME Idle, NEW v \in 1 .. made, alive[v] PROVE ~visited[v]
        BY DEF FlagsAreClear
    <2>1. (\A u \in Nodes : alive[u] => ~visited[u]) /\ Types
        BY <1>2, AtRest
    <2>2. v \in Nodes
        BY <2>1, MaxNodesNat DEF Types, Nodes
    <2> QED
        BY <2>1, <2>2
<1>3. ASSUME IInv PROVE OnlyLiveNodes
    <2>1. ASSUME NEW k \in 1 .. Len(stack), stack[k][2] # Null
          PROVE  alive[stack[k][2]]
        <3>1. CASE stack = <<>>
            BY <3>1, <2>1
        <3>2. CASE stack # <<>>
            <4>1. PICK F : StackOK(F, parents, root, stack)
                BY <1>3, <3>2, FrameOnTop
            <4>2. stack[k][2] \in ReachIn(parents, root)
                BY <2>1, <4>1 DEF StackOK
            <4> QED
                BY <4>2, <1>3, <3>2, AtFrame DEF Whole
        <3> QED
            BY <3>1, <3>2
    <2>2. ASSUME Phase("sweep"), NEW k \in 1 .. i
          PROVE  alive[order[k]]
        <3>1. Sweeping
            BY <1>3, <2>2, AtSweep
        <3>2. i \in 0 .. Len(order) /\ order \in Seq(Nodes) /\ Members(order) = ReachIn(parents, root)
            BY <3>1 DEF Sweeping, Swept, Ordered
        <3>3. k \in 1 .. Len(order)
            BY <3>2, LenProperties
        <3> QED
            BY <3>1, <3>2, <3>3 DEF Sweeping, Whole, Members
    <2> QED
        BY <2>1, <2>2 DEF OnlyLiveNodes
<1>4. ASSUME IInv PROVE FreeReleasesAll
    <2> SUFFICES ASSUME Phase("release")
                 PROVE  /\ \A k \in i + 1 .. Len(order) : alive[order[k]]
                        /\ \A j, k \in 1 .. Len(order) : order[j] = order[k] => j = k
                        /\ {order[k] : k \in 1 .. Len(order)} = Reach(root)
        BY DEF FreeReleasesAll
    <2>1. Releasing
        BY <1>4, AtRelease
    <2>2. order \in Seq(Nodes) /\ Distinct(order) /\ Members(order) = ReachIn(parents, root)
        BY <2>1 DEF Releasing, Ordered
    <2>3. \A k \in i + 1 .. Len(order) : k \in 1 .. Len(order) /\ k > i
        BY <2>1, <2>2, LenProperties DEF Releasing
    <2>4. \A k \in i + 1 .. Len(order) : alive[order[k]]
        BY <2>1, <2>3 DEF Releasing
    <2> QED
        BY <2>2, <2>4, ReachIsReachIn DEF Distinct, Members
<1>5. IInv /\ Remembers => GraphOK
    BY <1>1, <1>2, <1>3, <1>4 DEF GraphOK, Remembers
<1> QED
    BY <1>5, Invariance, CleanIsBoolean, PTL

\* A backward pass of abs_scalar_backward that ran to its end on zero gradients
\* leaves in every node below its root the derivative of the root by that node,
\* for every graph, however it shares its nodes.
THEOREM BackwardDifferentiates ==
    ASSUME SigmoidOK
    PROVE  Spec => []GradientsAreDerivatives
<1>1. IInv => GradientsAreDerivatives
    BY ReachIsReachIn, DerivativeIsDerIn DEF IInv, Base, Known, GradientsAreDerivatives
<1> QED
    BY <1>1, Invariance, PTL

\* No step of a call touches the gradient of a node that does not stand below
\* its root, and making a node touches the gradient of no other.
THEOREM OthersKeepTheirGradients ==
    ASSUME SigmoidOK
    PROVE  Spec => OthersKeepGradients
<1>1. ASSUME IInv, Next, NEW v \in 1 .. made, grad'[v] # grad[v]
      PROVE  v \in Reach(root)
    <2>1. Types /\ grad \in [Nodes -> Int] /\ v \in Nodes /\ v # made + 1
        BY <1>1, MaxNodesNat DEF IInv, Base, Types, Nodes
    <2>2. ASSUME NEW o, NEW x, NEW a, NEW b, Make(o, x, a, b) PROVE FALSE
        BY <2>1, <2>2, <1>1 DEF Make
    <2>3. ~New /\ ~Add /\ ~Mul /\ ~Relu /\ ~SigmoidOf
        BY <2>2 DEF New, Add, Mul, Relu, SigmoidOf
    <2>4. ~ZeroGrad /\ ~Backward /\ ~Free
        BY <1>1 DEF ZeroGrad, Backward, Free, Call
    <2>5. ~Begin /\ ~Malloc /\ ~MallocFails /\ ~Leave /\ ~SweepEnds /\ ~Release /\ ~ReleaseEnds /\ ~Return
        BY <1>1 DEF Begin, Malloc, MallocFails, Leave, SweepEnds, Release, ReleaseEnds, Return
    <2>6. CASE Enter
        <3>1. PICK f : f = stack[Len(stack)][1]
            OBVIOUS
        <3>2. PICK w : w = stack[Len(stack)][2]
            OBVIOUS
        <3>3. /\ stack # <<>> /\ (Enters(f, w) => Goes(f, w)) /\ (~Enters(f, w) => Skips)
            BY <2>6, <3>1, <3>2, EnterIs
        <3>4. Enters(f, w) /\ Goes(f, w)
            BY <1>1, <3>3 DEF Skips
        <3>5. w \in ReachIn(parents, root)
            BY <1>1, <3>2, <3>3, <3>4, FrameOnTop DEF Enters
        <3>6. v = w
            BY <1>1, <2>1, <3>4 DEF Goes
        <3> QED
            BY <3>5, <3>6, ReachIsReachIn
    <2>7. CASE Seed
        <3>1. GoesOn(todo, "seed", Tail(todo)) /\ stack = <<>>
            BY <2>7 DEF Seed, Phase, GoesOn
        <3>2. ~Resting /\ ~Calling /\ ~Resetting /\ ~Counting /\ ~Ready
            BY <3>1, Phases, GoesOnOnce DEF Resting, Calling, Resetting, Counting, Ready, Left
        <3>3. ~Unmarking /\ ~Listing /\ ~Sweeping /\ ~Releasing /\ ~Finished
            BY <3>1, Phases, GoesOnOnce DEF Unmarking, Listing, Sweeping, Releasing, Finished, Left
        <3>4. root # Null
            BY <1>1, <3>2, <3>3 DEF IInv, Mode, Clearing, Whole
        <3>5. root \in Nodes /\ root \in ReachIn(parents, root)
            BY <2>1, <3>4, RootIs, ReachFacts
        <3>6. v = root
            BY <1>1, <2>1, <2>7 DEF Seed
        <3> QED
            BY <3>5, <3>6, ReachIsReachIn
    <2>8. CASE Sweep
        <3>1. Sweeping /\ i > 0 /\ root \in Nodes /\ Graph(parents) /\ grad' = BackwardNode(order[i])
            BY <1>1, <2>8, AtSweep DEF Sweep
        <3>2. order \in Seq(Nodes) /\ Members(order) = ReachIn(parents, root) /\ i \in 1 .. Len(order)
            BY <3>1, LenProperties DEF Sweeping, Ordered, Swept
        <3>3. PICK w : w = order[i]
            OBVIOUS
        <3>4. w \in ReachIn(parents, root)
            BY <3>2, <3>3 DEF Members
        <3>5. v = parents[w][1] \/ v = parents[w][2]
            <4>1. grad'[v] = grad[v] + (IF v = parents[w][1] THEN grad[w] * Local(w)[1] ELSE 0)
                                     + (IF v = parents[w][2] THEN grad[w] * Local(w)[2] ELSE 0)
                BY <2>1, <3>1, <3>3 DEF BackwardNode
            <4> QED
                BY <4>1, <1>1, <2>1
        <3>6. v # Null
            BY <2>1, MaxNodesNat DEF Nodes, Null
        <3>7. v \in ReachIn(parents, root)
            BY <3>1, <3>4, <3>5, <3>6, ReachFacts DEF Closed
        <3> QED
            BY <3>7, ReachIsReachIn
    <2> QED
        BY <1>1, <2>3, <2>4, <2>5, <2>6, <2>7, <2>8 DEF Next, Step
<1>2. ASSUME IInv, [Next]_vars, NEW v \in 1 .. made, grad'[v] # grad[v]
      PROVE  v \in Reach(root)
    <2>1. grad' # grad => ~UNCHANGED vars
        BY DEF vars
    <2> QED
        BY <1>1, <1>2, <2>1
<1>3. IInv /\ [Next]_vars => [\A v \in 1 .. made : grad'[v] # grad[v] => v \in Reach(root)]_vars
    BY <1>2
<1> QED
    BY <1>3, Invariance, PTL DEF Spec, OthersKeepGradients
=============================================================================
