------------------------------- MODULE Scalar -------------------------------
(***************************************************************************)
(* abs_scalar.c: a graph of scalars with reverse-mode differentiation.     *)
(*                                                                         *)
(* Nodes are numbered in the order malloc returned them, 0 is NULL; the    *)
(* parents of a node were made before it.  Doubles are integers and the    *)
(* sigmoid is a constant operator: the chain rule is the same for them.    *)
(* The recursive traversals are steps over an explicit stack of frames     *)
(* <<function, node, "enter" or "leave">>, and a public function is the    *)
(* list of phases it has left to do.                                       *)
(*                                                                         *)
(* Operators whose name ends in _bug are the wrong versions against which  *)
(* the properties below were tried; the specification uses none of them.   *)
(***************************************************************************)
EXTENDS Integers, Sequences

CONSTANTS
    MaxNodes,     \* bound: nodes made in one behaviour
    Leaves,       \* values given to abs_scalar_new
    Sigmoid(_)    \* 1 / (1 + exp(-x))

ASSUME ScalarAssumption == MaxNodes \in Nat /\ Leaves \subseteq Int

Nodes == 1 .. MaxNodes
Null == 0

VARIABLES
    made,         \* nodes made so far
    op, parents, val, grad, visited,  \* struct AbsScalar
    alive,        \* not freed yet
    root, todo,   \* argument of the running call, and its remaining phases
    stack,        \* the recursion
    n, order, i,  \* locals of abs_scalar_backward and abs_scalar_free
    last, clean   \* history: the root whose backward pass ended last, and whether
                  \* the gradients below the root of the last call were zero before it

node == <<made, op, parents, val>>
call == <<root, todo, stack, n, order, i>>
vars == <<node, grad, visited, alive, call, last, clean>>

Init ==
    /\ made = 0
    /\ op = [v \in Nodes |-> "leaf"] /\ parents = [v \in Nodes |-> <<Null, Null>>]
    /\ val = [v \in Nodes |-> 0] /\ grad = [v \in Nodes |-> 0]
    /\ visited = [v \in Nodes |-> FALSE] /\ alive = [v \in Nodes |-> FALSE]
    /\ root = Null /\ todo = <<>> /\ stack = <<>>
    /\ n = 0 /\ order = <<>> /\ i = 0
    /\ last = Null /\ clean = FALSE

\* The nodes a root stands on: abs_scalar_free releases all of them.
Reach(r) ==
    LET below[v \in 0 .. r] ==
          IF v = Null THEN {} ELSE {v} \cup below[parents[v][1]] \cup below[parents[v][2]]
    IN  below[r]

\* The caller has control, and knows which graphs are still whole.
Idle == todo = <<>> /\ stack = <<>>
Usable == {v \in 1 .. made : \A u \in Reach(v) : alive[u]}

-----------------------------------------------------------------------------
\* abs_scalar_node, from abs_scalar_new, _add, _mul, _relu and _sigmoid

Make(o, x, a, b) ==
    /\ Idle /\ made < MaxNodes
    /\ LET v == made + 1 IN
       /\ made' = v
       /\ op' = [op EXCEPT ![v] = o] /\ parents' = [parents EXCEPT ![v] = <<a, b>>]
       /\ val' = [val EXCEPT ![v] = x] /\ grad' = [grad EXCEPT ![v] = 0]
       /\ visited' = [visited EXCEPT ![v] = FALSE]
       /\ alive' = [alive EXCEPT ![v] = TRUE]
    /\ UNCHANGED <<call, last, clean>>

New == \E x \in Leaves : Make("leaf", x, Null, Null)
Add == \E a, b \in Usable : Make("add", val[a] + val[b], a, b)
Mul == \E a, b \in Usable : Make("mul", val[a] * val[b], a, b)
Relu == \E a \in Usable : Make("relu", IF val[a] > 0 THEN val[a] ELSE 0, a, Null)
SigmoidOf == \E a \in Usable : Make("sigmoid", Sigmoid(val[a]), a, Null)

-----------------------------------------------------------------------------
\* The public functions, as the phases their bodies go through

Call(r, phases) ==
    /\ Idle
    /\ root' = r /\ todo' = phases \o <<"return">>
    /\ last' = Null /\ clean' = (\A v \in Reach(r) : grad[v] = 0)
    /\ UNCHANGED <<node, grad, visited, alive, stack, n, order, i>>

ZeroGrad == \E r \in Usable : Call(r, <<"zero">>)

\* Bug: the flags of the second traversal stay set.
Backward_bug == \E r \in Usable : Call(r, <<"zero", "count", "clear", "malloc", "order", "seed", "sweep">>)

Backward == \E r \in Usable : Call(r, <<"zero", "count", "clear", "malloc", "order", "clear", "seed", "sweep">>)

\* Bug: the flags count leaves are taken for those of build_order.
Free_bug == \E r \in Usable : Call(r, <<"count", "malloc", "order", "release">>)

\* Bug: the flags are cleared once the nodes are gone.
FreeThenClear_bug == \E r \in Usable : Call(r, <<"count", "clear", "malloc", "order", "release", "clear">>)

Free == \E r \in Usable : Call(r, <<"count", "clear", "malloc", "order", "release">>)

Phase(p) == todo # <<>> /\ stack = <<>> /\ Head(todo) = p

\* A traversal starts at the root.
Begin ==
    /\ \E p \in {"zero", "count", "clear", "order"} :
          Phase(p) /\ stack' = <<<<p, root, "enter">>>>
    /\ todo' = Tail(todo)
    /\ UNCHANGED <<node, grad, visited, alive, root, n, order, i, last, clean>>

Malloc ==
    /\ Phase("malloc") /\ todo' = Tail(todo)
    /\ UNCHANGED <<node, grad, visited, alive, root, stack, n, order, i, last, clean>>

\* Out of memory: the call returns without having done its work.
MallocFails ==
    /\ Phase("malloc") /\ todo' = <<"return">>
    /\ UNCHANGED <<node, grad, visited, alive, root, stack, n, order, i, last, clean>>

-----------------------------------------------------------------------------
\* abs_scalar_zero_grad, _count, _clear_visited and _build_order

Top == stack[Len(stack)]
Popped == SubSeq(stack, 1, Len(stack) - 1)

\* Bug: shared nodes are counted once per path.
Enters_bug(f, v) == v # Null /\ (f = "count" \/ (visited[v] <=> f = "clear"))

\* Unmarking goes down the marked nodes, the others down the unmarked ones.
Enters(f, v) == v # Null /\ (visited[v] <=> f = "clear")

\* The parents are entered in turn, the first one first, then the node is left.
Enter ==
    /\ stack # <<>> /\ Top[3] = "enter"
    /\ LET f == Top[1]  v == Top[2]
       IN  IF Enters(f, v)
           THEN /\ visited' = [visited EXCEPT ![v] = (f # "clear")]
                /\ grad' = IF f = "zero" THEN [grad EXCEPT ![v] = 0] ELSE grad
                /\ n' = IF f = "count" THEN n + 1 ELSE n
                /\ stack' = Popped \o <<<<f, v, "leave">>, <<f, parents[v][2], "enter">>,
                                       <<f, parents[v][1], "enter">>>>
           ELSE stack' = Popped /\ UNCHANGED <<visited, grad, n>>
    /\ UNCHANGED <<node, alive, root, todo, order, i, last, clean>>

\* zero_grad unmarks the subtree of every node it leaves, not only the root's.
Leave ==
    /\ stack # <<>> /\ Top[3] = "leave"
    /\ stack' = IF Top[1] = "zero" THEN Popped \o <<<<"clear", Top[2], "enter">>>> ELSE Popped
    /\ order' = IF Top[1] = "order" /\ Len(order) < n THEN Append(order, Top[2]) ELSE order
    /\ UNCHANGED <<node, grad, visited, alive, root, todo, n, i, last, clean>>

-----------------------------------------------------------------------------
\* The local derivative of v by its first and second parent.
Local(v) ==
    LET a == parents[v][1]  b == parents[v][2]
    IN  CASE op[v] = "add"     -> <<1, 1>>
          [] op[v] = "mul"     -> <<val[b], val[a]>>
          [] op[v] = "relu"    -> <<IF val[v] > 0 THEN 1 ELSE 0, 0>>
          [] op[v] = "sigmoid" -> <<val[v] * (1 - val[v]), 0>>
          [] OTHER             -> <<0, 0>>

\* Bug: every gradient is reset, also outside the graph.
Seed_bug ==
    /\ Phase("seed") /\ todo' = Tail(todo)
    /\ grad' = [v \in Nodes |-> IF v = root THEN 1 ELSE 0]
    /\ i' = Len(order)
    /\ UNCHANGED <<node, visited, alive, root, stack, n, order, last, clean>>

Seed ==
    /\ Phase("seed") /\ todo' = Tail(todo)
    /\ grad' = [grad EXCEPT ![root] = 1]
    /\ i' = Len(order)
    /\ UNCHANGED <<node, visited, alive, root, stack, n, order, last, clean>>

\* Bug: a gradient is assigned instead of added to.
BackwardNode_bug(v) == [u \in Nodes |->
        IF u = parents[v][1] THEN grad[v] * Local(v)[1]
        ELSE IF u = parents[v][2] THEN grad[v] * Local(v)[2] ELSE grad[u]]

\* abs_scalar_backward_node; both parents may be the same node.
BackwardNode(v) == [u \in Nodes |->
        grad[u] + (IF u = parents[v][1] THEN grad[v] * Local(v)[1] ELSE 0)
                + (IF u = parents[v][2] THEN grad[v] * Local(v)[2] ELSE 0)]

Sweep ==
    /\ Phase("sweep") /\ i > 0
    /\ grad' = BackwardNode(order[i])
    /\ i' = i - 1
    /\ UNCHANGED <<node, visited, alive, root, todo, stack, n, order, last, clean>>

SweepEnds ==
    /\ Phase("sweep") /\ i = 0
    /\ todo' = Tail(todo) /\ last' = root
    /\ UNCHANGED <<node, grad, visited, alive, root, stack, n, order, i, clean>>

\* Bug: the loop over the nodes does not advance.
Release_bug ==
    /\ Phase("release") /\ i < Len(order)
    /\ alive' = [alive EXCEPT ![order[i + 1]] = FALSE]
    /\ UNCHANGED <<node, grad, visited, root, todo, stack, n, order, i, last, clean>>

Release ==
    /\ Phase("release") /\ i < Len(order)
    /\ i' = i + 1
    /\ alive' = [alive EXCEPT ![order[i + 1]] = FALSE]
    /\ UNCHANGED <<node, grad, visited, root, todo, stack, n, order, last, clean>>

ReleaseEnds ==
    /\ Phase("release") /\ i = Len(order)
    /\ todo' = Tail(todo)
    /\ UNCHANGED <<node, grad, visited, alive, root, stack, n, order, i, last, clean>>

\* The locals of the call are gone.
Return ==
    /\ Phase("return") /\ todo' = <<>>
    /\ root' = Null /\ n' = 0 /\ order' = <<>> /\ i' = 0
    /\ UNCHANGED <<node, grad, visited, alive, stack, last, clean>>

Step ==
    \/ Begin \/ Malloc \/ MallocFails
    \/ Enter \/ Leave
    \/ Seed \/ Sweep \/ SweepEnds
    \/ Release \/ ReleaseEnds
    \/ Return

Next ==
    \/ New \/ Add \/ Mul \/ Relu \/ SigmoidOf
    \/ ZeroGrad \/ Backward \/ Free
    \/ Step

Spec == Init /\ [][Next]_vars

\* The thread that made the call keeps running.
FairSpec == Spec /\ WF_vars(Step)

-----------------------------------------------------------------------------
\* The sorts of the variables.
TypeOK ==
    /\ made \in 0 .. MaxNodes /\ root \in 0 .. made /\ last \in 0 .. made /\ clean \in BOOLEAN
    /\ op \in [Nodes -> {"leaf", "add", "mul", "relu", "sigmoid"}]
    /\ \A v \in Nodes : parents[v] \in (0 .. v - 1) \X (0 .. v - 1)
    /\ val \in [Nodes -> Int] /\ grad \in [Nodes -> Int]
    /\ visited \in [Nodes -> BOOLEAN] /\ alive \in [Nodes -> BOOLEAN]
    /\ n \in 0 .. made /\ Len(order) <= n /\ i \in 0 .. Len(order)

\* The derivative of r by x, computed forwards along the graph.
Derivative(r, x) ==
    LET d[v \in 0 .. r] ==
          LET a == parents[v][1]  b == parents[v][2]
          IN  IF v = x THEN 1
              ELSE IF v = Null THEN 0
              ELSE CASE op[v] = "add"     -> d[a] + d[b]
                     [] op[v] = "mul"     -> d[a] * val[b] + val[a] * d[b]
                     [] op[v] = "relu"    -> IF val[a] > 0 THEN d[a] ELSE 0
                     [] op[v] = "sigmoid" -> val[v] * (1 - val[v]) * d[a]
                     [] OTHER             -> 0
    IN  d[r]

\* A backward pass that ran to its end on gradients that were zero leaves in
\* every node the derivative of the root by that node, however the graph shares
\* its nodes and whatever the calls before it did to the flags: the order is
\* topological and complete.  Nothing is said of a pass on other gradients: the
\* manual has it accumulate on top of them, the code resets them.
GradientsAreDerivatives ==
    last # Null /\ clean => \A v \in Reach(last) : grad[v] = Derivative(last, v)

\* No call leaves a visited flag behind: a stale one would cut the next
\* traversal short.
FlagsAreClear == Idle => \A v \in 1 .. made : alive[v] => ~visited[v]

\* A traversal and a sweep only ever reach nodes that are allocated.
OnlyLiveNodes ==
    /\ \A k \in 1 .. Len(stack) : stack[k][2] # Null => alive[stack[k][2]]
    /\ Phase("sweep") => \A k \in 1 .. i : alive[order[k]]

\* free releases the whole subtree and each node once.
FreeReleasesAll ==
    Phase("release") =>
        /\ \A k \in i + 1 .. Len(order) : alive[order[k]]
        /\ \A j, k \in 1 .. Len(order) : order[j] = order[k] => j = k
        /\ {order[k] : k \in 1 .. Len(order)} = Reach(root)

\* The graph of abs_scalar.c is sound: traversals start without stale flags,
\* stay on allocated nodes, and free releases what it reached once.
GraphOK == TypeOK /\ FlagsAreClear /\ OnlyLiveNodes /\ FreeReleasesAll

\* A node outside the graph of the root keeps its gradient.
OthersKeepGradients == [][\A v \in 1 .. made : grad'[v] # grad[v] => v \in Reach(root)]_vars

\* Every call returns.
CallsReturn == ~Idle ~> Idle
=============================================================================
