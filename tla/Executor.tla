------------------------------ MODULE Executor ------------------------------
(***************************************************************************)
(* The evaluation half of the kernel (src/stat_kernel/executor.cpp): lazy  *)
(* recomputation of cached node values.  A mutation marks what it affects  *)
(* dirty; a read, or a sweep over the listed dirty leaves, recomputes the  *)
(* dirty nodes it needs, dependencies first, with one of two hand-written  *)
(* depth-first walks: an explicit stack (evaluateIterative) or the C++     *)
(* call stack (evaluateRecursive).  One action below is one iteration of   *)
(* the loop, or one call or return of the recursion.                       *)
(*                                                                         *)
(* The engine is single-threaded: no API call starts while `call' says one *)
(* is running.  "aborted" is the process after a failed assertion or an    *)
(* unreachable() (the build always has assertions on).                     *)
(***************************************************************************)
EXTENDS Marking

CONSTANTS
    NodeValue,         \* the numbers a node can hold
    Zero,              \* what a new formula or collection node holds
    Formula,           \* the formula texts that parse
    Refs,              \* Refs[f]: the names f reads, sorted, each once
    Undefined,         \* the formulas dsl::evaluate cannot evaluate
    Operation,         \* the members of SF_CollectionOperation
    Apply(_, _),       \* Apply(f, args): what f computes from the values args
    NoFormula,         \* an empty std::function
    NoNode             \* no name

ASSUME KernelConstants ==
    /\ Zero \in NodeValue
    /\ Refs \in [Formula -> Seq(NodeId)]
    /\ \A f \in Formula : IsInjective(Refs[f])
    /\ Undefined \subseteq Formula
    /\ Formula \cap Operation = {}
    /\ NoFormula \notin Formula \cup Operation
    /\ NoNode \notin NodeId

ASSUME ApplyType ==
    \A f \in Formula \cup Operation : \A S \in SUBSET NodeId :
        \A args \in [S -> NodeValue] : Apply(f, args) \in NodeValue

VARIABLES
    graph,             \* _nodes (the types), _dependenciesMap, _dependentsMap
    formula,           \* Node::formula: what it was compiled from
    value,             \* Node::value: the cached value
    dirty,             \* the nodes whose Node::dirty is set
    dirtyLeaves,       \* _dirtyLeaves
    evaluateImpl,      \* which walk evaluate(id) uses
    call,              \* the API call that is running
    requested,         \* the argument of the running getNodeValue, or NoNode
    position,          \* the entry of dirtyLeaves the running sweep is at
    stack, visitState, \* the locals of evaluateIterative
    frames,            \* the activations of evaluateRecursive
    reply              \* what the last call returned, or NoReply

nodeVars == <<graph, formula, value, dirty>>
walkVars == <<stack, visitState, frames>>
callVars == <<call, requested, position>>
vars == <<nodeVars, dirtyLeaves, evaluateImpl, callVars, walkVars, reply>>

EvaluationType == {"Iterative", "Recursive"}
Unvisited == [n \in NodeId |-> "Unvisited"]
Frame == [node: NodeId, rest: SUBSET NodeId]

\* The members of SF_ErrorCode that the kernel returns.
ErrorCode == {"OK", "NODE_ALREADY_EXISTS", "NODE_NOT_FOUND", "NODE_TYPE_MISMATCH",
              "DEPENDENCY_DOESNT_EXIST", "SELF_REFERENCE", "DEPENDENCY_LOOP",
              "DUPLICATE_DEPENDENCY", "DEPENDENT_FORMULA_NODE", "INVALID_DSL",
              "INVALID_COLLECTION_OPERATION"}

Reply(code) == [code |-> code, value |-> Zero]
NoReply == Reply("running")
Returned(v) == [code |-> "OK", value |-> v]

ExecutorInit ==
    /\ dirtyLeaves = << >>
    /\ evaluateImpl = "Iterative"
    /\ call = "none"
    /\ requested = NoNode
    /\ position = 0
    /\ stack = << >>
    /\ visitState = Unvisited
    /\ frames = << >>
    /\ reply = Reply("OK")

-----------------------------------------------------------------------------
(***************************************************************************)
(* Marking.                                                                *)
(***************************************************************************)

\* markDirty, called for each of `roots': what the walk reaches turns dirty,
\* and the nodes among it that nobody reads are listed for the next sweep.
MarkDirty(g, dirtyNodes, leaves, roots) ==
    LET marked == Marked(g, dirtyNodes, roots)
    IN  /\ dirty' = dirtyNodes \cup marked
        /\ \E order \in Orders({n \in marked : g.dependents[n] = {}}) :
              dirtyLeaves' = leaves \o order

-----------------------------------------------------------------------------
(***************************************************************************)
(* Evaluating a node.                                                      *)
(***************************************************************************)

\* The nodes a compiled formula looks up: the references of its AST, or, for
\* a collection, its dependencies at the time of the evaluation.
Operands(n) ==
    IF formula[n] \in Formula THEN Range(Refs[formula[n]]) ELSE graph.dependencies[n]

\* node.formula() returns, rather than ending the process.
Computable(n) ==
    /\ formula[n] \notin Undefined
    /\ Operands(n) \subseteq Nodes(graph)

\* Wrong variant: computing one node makes all of them clean.
ComputeValue_CleansAll(n) ==
    /\ value' = [value EXCEPT ![n] =
                    Apply(formula[n], [m \in Operands(n) |-> value[m]])]
    /\ dirty' = {}

\* node.value = node.formula(); node.dirty = false;
ComputeValue(n) ==
    /\ value' = IF formula[n] = NoFormula THEN value
                ELSE [value EXCEPT ![n] =
                        Apply(formula[n], [m \in Operands(n) |-> value[m]])]
    /\ dirty' = dirty \ {n}

WalkDone == stack = << >> /\ frames = << >>

\* evaluate(id) for a dirty node: the first iteration or activation is set up.
StartWalk(id) ==
    IF evaluateImpl = "Iterative"
    THEN stack' = <<id>> /\ UNCHANGED <<visitState, frames>>
    ELSE /\ frames' = <<[node |-> id, rest |-> graph.dependencies[id]]>>
         /\ UNCHANGED <<stack, visitState>>

\* The process ends.  What it leaves in memory is gone.
Abort ==
    /\ call' = "aborted"
    /\ stack' = << >>
    /\ visitState' = Unvisited
    /\ frames' = << >>
    /\ UNCHANGED <<nodeVars, dirtyLeaves, evaluateImpl, requested, position, reply>>

\* Pops the stack; when it was the last entry the walk returns, and with it go
\* its locals.
PopStack(visited) ==
    /\ stack' = Front(stack)
    /\ visitState' = IF Len(stack) = 1 THEN Unvisited ELSE visited
    /\ frames' = frames

\* Wrong variant: the loop goes on without popping the entry.
PopVisited_Stays ==
    /\ stack # << >>
    /\ visitState[Last(stack)] = "Visited"
    /\ UNCHANGED <<nodeVars, dirtyLeaves, evaluateImpl, callVars, walkVars, reply>>

\* evaluateIterative, top entry already Visited: it was pushed twice.
PopVisited ==
    /\ stack # << >>
    /\ visitState[Last(stack)] = "Visited"
    /\ PopStack(visitState)
    /\ UNCHANGED <<nodeVars, dirtyLeaves, evaluateImpl, callVars, reply>>

\* evaluateIterative, first visit of a clean node.
VisitClean ==
    /\ stack # << >>
    /\ visitState[Last(stack)] = "Unvisited"
    /\ Last(stack) \notin dirty
    /\ PopStack([visitState EXCEPT ![Last(stack)] = "Visited"])
    /\ UNCHANGED <<nodeVars, dirtyLeaves, evaluateImpl, callVars, reply>>

\* Wrong variant: the node is not marked, and opens again when it is back on top.
VisitDirty_Unmarked ==
    /\ stack # << >>
    /\ visitState[Last(stack)] = "Unvisited"
    /\ Last(stack) \in dirty
    /\ \E order \in Orders({d \in graph.dependencies[Last(stack)] : visitState[d] # "Visited"}) :
          stack' = stack \o order
    /\ UNCHANGED <<nodeVars, dirtyLeaves, evaluateImpl, callVars, visitState, frames, reply>>

\* Wrong variant: the node is pushed again below its dependencies, although its
\* own entry was never popped.
VisitDirty_PushedAgain ==
    /\ stack # << >>
    /\ visitState[Last(stack)] = "Unvisited"
    /\ Last(stack) \in dirty
    /\ LET visiting == [visitState EXCEPT ![Last(stack)] = "Visiting"]
       IN  /\ visitState' = visiting
           /\ \E order \in Orders({d \in graph.dependencies[Last(stack)] :
                                      visiting[d] # "Visited"}) :
                 stack' = stack \o <<Last(stack)>> \o order
    /\ UNCHANGED <<nodeVars, dirtyLeaves, evaluateImpl, callVars, frames, reply>>

\* evaluateIterative, first visit of a dirty node: it stays on the stack below
\* the dependencies that are not Visited yet.
VisitDirty ==
    /\ stack # << >>
    /\ visitState[Last(stack)] = "Unvisited"
    /\ Last(stack) \in dirty
    /\ LET visiting == [visitState EXCEPT ![Last(stack)] = "Visiting"]
       IN  /\ visitState' = visiting
           /\ \E order \in Orders({d \in graph.dependencies[Last(stack)] :
                                      visiting[d] # "Visited"}) :
                 stack' = stack \o order
    /\ UNCHANGED <<nodeVars, dirtyLeaves, evaluateImpl, callVars, frames, reply>>

\* evaluateIterative, back at a node whose dependencies are done.
ComputeVisiting ==
    /\ stack # << >>
    /\ visitState[Last(stack)] = "Visiting"
    /\ Computable(Last(stack))
    /\ ComputeValue(Last(stack))
    /\ PopStack([visitState EXCEPT ![Last(stack)] = "Visited"])
    /\ UNCHANGED <<graph, formula, dirtyLeaves, evaluateImpl, callVars, reply>>

\* Wrong variant: a clean dependency is computed again.
CallDependency_NoCheck(d) ==
    /\ frames # << >>
    /\ d \in Last(frames).rest
    /\ frames' = Front(frames) \o
                 << [Last(frames) EXCEPT !.rest = @ \ {d}],
                    [node |-> d, rest |-> graph.dependencies[d]] >>
    /\ UNCHANGED <<nodeVars, dirtyLeaves, evaluateImpl, callVars, stack, visitState, reply>>

\* Wrong variant: the loop does not get past a clean dependency.
CallDependency_Repeats(d) ==
    /\ frames # << >>
    /\ d \in Last(frames).rest
    /\ frames' = IF d \in dirty
                 THEN Append(frames, [node |-> d, rest |-> graph.dependencies[d]])
                 ELSE frames
    /\ UNCHANGED <<nodeVars, dirtyLeaves, evaluateImpl, callVars, stack, visitState, reply>>

\* evaluateRecursive, the call on the next dependency.  A clean one returns at
\* once; a dirty one gets an activation of its own.
CallDependency(d) ==
    /\ frames # << >>
    /\ d \in Last(frames).rest
    /\ LET caller == [Last(frames) EXCEPT !.rest = @ \ {d}]
           callee == [node |-> d, rest |-> graph.dependencies[d]]
       IN  frames' = Front(frames) \o
                     (IF d \in dirty THEN <<caller, callee>> ELSE <<caller>>)
    /\ UNCHANGED <<nodeVars, dirtyLeaves, evaluateImpl, callVars, stack, visitState, reply>>

\* evaluateRecursive, after the loop: compute and return.
ComputeReturning ==
    /\ frames # << >>
    /\ Last(frames).rest = {}
    /\ Computable(Last(frames).node)
    /\ ComputeValue(Last(frames).node)
    /\ frames' = Front(frames)
    /\ UNCHANGED <<graph, formula, dirtyLeaves, evaluateImpl, callVars, stack, visitState, reply>>

\* Either walk, when the formula of the node ends the process.
ComputeAborts ==
    /\ \E n \in NodeId :
          /\ ~Computable(n)
          /\ \/ stack # << >> /\ n = Last(stack) /\ visitState[n] = "Visiting"
             \/ frames # << >> /\ n = Last(frames).node /\ Last(frames).rest = {}
    /\ Abort

-----------------------------------------------------------------------------
(***************************************************************************)
(* The two calls that evaluate.                                            *)
(***************************************************************************)

\* Wrong variant: the cached value answers, dirty or not.
GetNodeValue_Cached(id) ==
    /\ call = "none"
    /\ reply' = IF id \in Nodes(graph) THEN Returned(value[id])
                ELSE Reply("NODE_NOT_FOUND")
    /\ UNCHANGED <<nodeVars, dirtyLeaves, evaluateImpl, callVars, walkVars>>

\* Executor::getNodeValue up to the walk.  A clean node answers from the cache.
GetNodeValue(id) ==
    /\ call = "none"
    /\ IF id \in dirty
       THEN /\ call' = "getNodeValue"
            /\ requested' = id
            /\ StartWalk(id)
            /\ reply' = NoReply
       ELSE /\ reply' = IF id \in Nodes(graph) THEN Returned(value[id])
                        ELSE Reply("NODE_NOT_FOUND")
            /\ UNCHANGED <<call, requested, walkVars>>
    /\ UNCHANGED <<nodeVars, dirtyLeaves, evaluateImpl, position>>

\* Executor::getNodeValue after the walk.
ReturnNodeValue ==
    /\ call = "getNodeValue"
    /\ WalkDone
    /\ call' = "none"
    /\ requested' = NoNode
    /\ reply' = Returned(value[requested])
    /\ UNCHANGED <<nodeVars, dirtyLeaves, evaluateImpl, position, walkVars>>

\* Executor::evaluate enters its loop.
Evaluate ==
    /\ call = "none"
    /\ call' = "evaluate"
    /\ position' = 0
    /\ reply' = NoReply
    /\ UNCHANGED <<nodeVars, dirtyLeaves, evaluateImpl, requested, walkVars>>

\* The next iteration of that loop: evaluate(node), which looks the node up
\* (the program ends when it does not exist) and returns when it is clean.
EvaluateLeaf ==
    /\ call = "evaluate"
    /\ WalkDone
    /\ position < Len(dirtyLeaves)
    /\ LET leaf == dirtyLeaves[position + 1]
       IN  /\ leaf \in Nodes(graph)
           /\ IF leaf \in dirty THEN StartWalk(leaf) ELSE UNCHANGED walkVars
    /\ position' = position + 1
    /\ UNCHANGED <<nodeVars, dirtyLeaves, evaluateImpl, call, requested, reply>>

EvaluateLeafAborts ==
    /\ call = "evaluate"
    /\ WalkDone
    /\ position < Len(dirtyLeaves)
    /\ dirtyLeaves[position + 1] \notin Nodes(graph)
    /\ Abort

\* Wrong variant: the sweep returns one leaf early.
ReturnEvaluate_Early ==
    /\ call = "evaluate"
    /\ WalkDone
    /\ position + 1 >= Len(dirtyLeaves)
    /\ call' = "none"
    /\ position' = 0
    /\ dirtyLeaves' = << >>
    /\ reply' = Reply("OK")
    /\ UNCHANGED <<nodeVars, evaluateImpl, requested, walkVars>>

\* Wrong variant: the place in the list outlives the list.
ReturnEvaluate_KeepsPosition ==
    /\ call = "evaluate"
    /\ WalkDone
    /\ position = Len(dirtyLeaves)
    /\ call' = "none"
    /\ dirtyLeaves' = << >>
    /\ reply' = Reply("OK")
    /\ UNCHANGED <<nodeVars, evaluateImpl, requested, position, walkVars>>

\* After the loop: _dirtyLeaves.clear().
ReturnEvaluate ==
    /\ call = "evaluate"
    /\ WalkDone
    /\ position = Len(dirtyLeaves)
    /\ call' = "none"
    /\ position' = 0
    /\ dirtyLeaves' = << >>
    /\ reply' = Reply("OK")
    /\ UNCHANGED <<nodeVars, evaluateImpl, requested, walkVars>>

\* The steps a running call takes by itself.
ExecutorStep ==
    \/ PopVisited \/ VisitClean \/ VisitDirty \/ ComputeVisiting
    \/ \E d \in NodeId : CallDependency(d)
    \/ ComputeReturning
    \/ ComputeAborts
    \/ ReturnNodeValue
    \/ EvaluateLeaf \/ EvaluateLeafAborts \/ ReturnEvaluate
=============================================================================
