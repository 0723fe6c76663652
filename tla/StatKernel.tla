----------------------------- MODULE StatKernel -----------------------------
(***************************************************************************)
(* The kernel as its callers see it (src/stat_kernel/stat_kernel.cpp, with *)
(* the checks of src/stat_kernel/compiler.cpp): one action per public      *)
(* method, over the graph of DependencyGraph and the caches and walks of   *)
(* Executor.  A mutating method is one atomic action with everything it    *)
(* calls in it, the roll-back of a failed creation included; the methods   *)
(* that evaluate begin here and go on as ExecutorSteps.                    *)
(***************************************************************************)
EXTENDS Executor

CONSTANTS
    IllFormed,         \* formula texts the tokenizer or the parser rejects
    BadOperation,      \* integers outside SF_CollectionOperation
    DependencyLists,   \* the vectors callers pass as dependencies
    SameValue(_, _),   \* operator== of double
    Inputs,            \* the numbers callers write (a bound)
    Naming,            \* Naming[n]: the types callers create n with (a bound)
    EvaluationTypes,   \* the walks callers select (a bound)
    MaxListed          \* the longest _dirtyLeaves explored (a bound)

ASSUME CallerConstants ==
    /\ IllFormed \cap Formula = {}
    /\ BadOperation \cap Operation = {}
    /\ DependencyLists \subseteq Seq(NodeId)
    /\ Inputs \subseteq NodeValue
    /\ Naming \in [NodeId -> SUBSET NodeType]
    /\ EvaluationTypes \subseteq EvaluationType
    /\ MaxListed \in Nat

Init ==
    /\ graph = EmptyGraph
    /\ formula = [n \in NodeId |-> NoFormula]
    /\ value = [n \in NodeId |-> Zero]
    /\ dirty = {}
    /\ ExecutorInit

\* A public method returns: callers see the code, and no call is left running.
Return(code) ==
    /\ call = "none"
    /\ reply' = Reply(code)
    /\ UNCHANGED <<evaluateImpl, callVars, walkVars>>

\* A mutating method that returns the error of `result', an operation on the
\* graph, and leaves the graph as that operation left it.
Fail(result) ==
    /\ result.code # "OK"
    /\ Return(result.code)
    /\ graph' = result.graph
    /\ UNCHANGED <<formula, value, dirty, dirtyLeaves>>

\* One that returns before it touches anything.
Reject(code) == Fail([code |-> code, graph |-> graph])

\* _dirtyLeaves.emplace_back(id).
MarkAsDirtyLeaf(id) ==
    /\ Len(dirtyLeaves) < MaxListed
    /\ dirtyLeaves' = Append(dirtyLeaves, id)

-----------------------------------------------------------------------------
\* Wrong variant: a creation that fails half-way leaves the node.
RollBackUnless_Forgets(linked, id) == linked

\* The second half of an operation that adds id: what it adds is removed again
\* when `linked', its next step, fails.
RollBackUnless(linked, id) ==
    IF linked.code = "OK" THEN linked
    ELSE [linked EXCEPT !.graph = RemoveNode(linked.graph, id).graph]

\* Adding a node that reads `deps': addNode, then setNodeDependencies without
\* the cycle check, since nothing can read a name that was free.
AddDependentNode(g, id, type, deps) ==
    LET added == AddNode(g, id, type)
    IN  IF added.code # "OK" THEN added
        ELSE RollBackUnless(SetNodeDependencies(added.graph, id, deps, TRUE), id)

\* Adding a formula node.  It is added before its text is parsed, so a taken
\* name is reported first, and a text that does not parse rolls the node back.
AddFormulaNode(g, id, text) ==
    IF text \in Formula THEN AddDependentNode(g, id, "Formula", Refs[text])
    ELSE LET added == AddNode(g, id, "Formula")
         IN  IF added.code # "OK" THEN added
             ELSE RollBackUnless([added EXCEPT !.code = "INVALID_DSL"], id)

\* The new node's fields, and its place in _dirtyLeaves, once it is added.
InstallDependentNode(id, f, newGraph) ==
    /\ graph' = newGraph
    /\ formula' = [formula EXCEPT ![id] = f]
    /\ value' = [value EXCEPT ![id] = Zero]
    /\ dirty' = dirty \cup {id}
    /\ MarkAsDirtyLeaf(id)

CreateCollectionNode(id, deps, operation) ==
    LET added == AddDependentNode(graph, id, "Collection", deps)
    IN  IF operation \in BadOperation
        THEN Reject("INVALID_COLLECTION_OPERATION")
        ELSE \/ Fail(added)
             \/ /\ added.code = "OK"
                /\ Return("OK")
                /\ InstallDependentNode(id, operation, added.graph)

CreateFormulaNode(id, text) ==
    LET added == AddFormulaNode(graph, id, text)
    IN  \/ Fail(added)
        \/ /\ added.code = "OK"
           /\ Return("OK")
           /\ InstallDependentNode(id, text, added.graph)

CreateValueNode(id, v) ==
    LET added == AddNode(graph, id, "Value")
    IN  \/ Fail(added)
        \/ /\ added.code = "OK"
           /\ Return("OK")
           /\ graph' = added.graph
           /\ formula' = [formula EXCEPT ![id] = NoFormula]
           /\ value' = [value EXCEPT ![id] = v]
           /\ UNCHANGED <<dirty, dirtyLeaves>>

\* Wrong variant: the dependents are read after the node, and its list, are gone.
DeleteNode_ReadsLate(id) ==
    LET removed == RemoveNode(graph, id)
    IN  \/ Fail(removed)
        \/ /\ removed.code = "OK"
           /\ Return("OK")
           /\ graph' = removed.graph
           /\ formula' = [formula EXCEPT ![id] = NoFormula]
           /\ value' = [value EXCEPT ![id] = Zero]
           /\ MarkDirty(removed.graph, dirty \ {id}, RemoveFirst(dirtyLeaves, id),
                        removed.graph.dependents[id])
           /\ Len(dirtyLeaves') <= MaxListed

\* The dependents are read before the node goes and marked after it; one entry
\* of the node in _dirtyLeaves, if there is one, is erased.
DeleteNode(id) ==
    LET removed == RemoveNode(graph, id)
    IN  \/ Fail(removed)
        \/ /\ removed.code = "OK"
           /\ Return("OK")
           /\ graph' = removed.graph
           /\ formula' = [formula EXCEPT ![id] = NoFormula]
           /\ value' = [value EXCEPT ![id] = Zero]
           /\ MarkDirty(removed.graph, dirty \ {id}, RemoveFirst(dirtyLeaves, id),
                        graph.dependents[id])
           /\ Len(dirtyLeaves') <= MaxListed

\* A number equal to the old one changes nothing.
SetNodeValue(id, v) ==
    \/ id \notin Nodes(graph) /\ Reject("NODE_NOT_FOUND")
    \/ id \in Nodes(graph) /\ graph.type[id] # "Value" /\ Reject("NODE_TYPE_MISMATCH")
    \/ /\ graph.type[id] = "Value"
       /\ Return("OK")
       /\ \/ /\ SameValue(value[id], v)
             /\ UNCHANGED <<nodeVars, dirtyLeaves>>
          \/ /\ ~SameValue(value[id], v)
             /\ value' = [value EXCEPT ![id] = v]
             /\ UNCHANGED <<graph, formula>>
             /\ MarkDirty(graph, dirty, dirtyLeaves, {id})
             /\ Len(dirtyLeaves') <= MaxListed

\* Wrong variant: the dependencies change and the formula does not.
SetNodeFormula_KeepsFormula(id, text) ==
    LET linked == SetNodeDependencies(graph, id, Refs[text], FALSE)
    IN  /\ graph.type[id] = "Formula" /\ text \in Formula
        /\ linked.code = "OK"
        /\ Return("OK")
        /\ graph' = linked.graph
        /\ UNCHANGED <<formula, value>>
        /\ MarkDirty(linked.graph, dirty, dirtyLeaves, {id})
        /\ Len(dirtyLeaves') <= MaxListed

SetNodeFormula(id, text) ==
    LET linked == SetNodeDependencies(graph, id, Refs[text], FALSE)
    IN  \/ id \notin Nodes(graph) /\ Reject("NODE_NOT_FOUND")
        \/ id \in Nodes(graph) /\ graph.type[id] # "Formula" /\ Reject("NODE_TYPE_MISMATCH")
        \/ graph.type[id] = "Formula" /\ text \in IllFormed /\ Reject("INVALID_DSL")
        \/ /\ graph.type[id] = "Formula" /\ text \in Formula
           /\ \/ Fail(linked)
              \/ /\ linked.code = "OK"
                 /\ Return("OK")
                 /\ graph' = linked.graph
                 /\ formula' = [formula EXCEPT ![id] = text]
                 /\ UNCHANGED value
                 /\ MarkDirty(linked.graph, dirty, dirtyLeaves, {id})
                 /\ Len(dirtyLeaves') <= MaxListed

\* setNodeDependencies of the kernel: only the edges of a collection are set by
\* hand.
SetCollectionDependencies(id, deps) ==
    LET linked == SetNodeDependencies(graph, id, deps, FALSE)
    IN  \/ id \in Nodes(graph) /\ graph.type[id] # "Collection" /\ Reject("NODE_TYPE_MISMATCH")
        \/ id \notin Nodes(graph) /\ Reject("NODE_NOT_FOUND")
        \/ /\ graph.type[id] = "Collection"
           /\ \/ Fail(linked)
              \/ /\ linked.code = "OK"
                 /\ Return("OK")
                 /\ graph' = linked.graph
                 /\ UNCHANGED <<formula, value>>
                 /\ MarkDirty(linked.graph, dirty, dirtyLeaves, {id})
                 /\ Len(dirtyLeaves') <= MaxListed

Reset ==
    /\ Return("OK")
    /\ graph' = EmptyGraph
    /\ formula' = [n \in NodeId |-> NoFormula]
    /\ value' = [n \in NodeId |-> Zero]
    /\ dirty' = {}
    /\ dirtyLeaves' = << >>

SetEvaluationType(type) ==
    /\ call = "none"
    /\ evaluateImpl' = type
    /\ UNCHANGED <<nodeVars, dirtyLeaves, callVars, walkVars, reply>>

-----------------------------------------------------------------------------
\* Everything a caller may ask of an idle kernel.
Call ==
    \/ \E id \in NodeId :
          \/ "Collection" \in Naming[id]
             /\ \E deps \in DependencyLists, op \in Operation \cup BadOperation :
                   CreateCollectionNode(id, deps, op)
          \/ "Formula" \in Naming[id]
             /\ \E text \in Formula \cup IllFormed : CreateFormulaNode(id, text)
          \/ "Value" \in Naming[id] /\ \E v \in Inputs : CreateValueNode(id, v)
          \/ DeleteNode(id)
          \/ \E v \in Inputs : SetNodeValue(id, v)
          \/ \E text \in Formula \cup IllFormed : SetNodeFormula(id, text)
          \/ \E deps \in DependencyLists : SetCollectionDependencies(id, deps)
          \/ GetNodeValue(id)
    \/ Evaluate
    \/ Reset
    \/ \E type \in EvaluationTypes : SetEvaluationType(type)

\* An aborted process stays as it is.
Aborted == call = "aborted" /\ UNCHANGED vars

Next == Call \/ ExecutorStep \/ Aborted

\* A running call is a C++ function: it goes on until it returns.  No caller
\* has to call anything.
Fairness == WF_vars(ExecutorStep)

Spec == Init /\ [][Next]_vars

FairSpec == Spec /\ Fairness

-----------------------------------------------------------------------------
(***************************************************************************)
(* Correctness.                                                            *)
(***************************************************************************)

\* Every variable holds what its declaration in the code allows.
TypeOK ==
    /\ graph \in Graphs
    /\ formula \in [NodeId -> Formula \cup Operation \cup {NoFormula}]
    /\ value \in [NodeId -> NodeValue]
    /\ dirty \subseteq NodeId
    /\ dirtyLeaves \in Seq(NodeId)
    /\ evaluateImpl \in EvaluationType
    /\ call \in {"none", "getNodeValue", "evaluate", "aborted"}
    /\ requested \in NodeId \cup {NoNode}
    /\ position \in 0 .. Len(dirtyLeaves)
    /\ stack \in Seq(NodeId)
    /\ visitState \in [NodeId -> {"Unvisited", "Visiting", "Visited"}]
    /\ frames \in Seq(Frame)
    /\ reply \in [code: ErrorCode \cup {"running"}, value: NodeValue]

\* Whatever was created, re-linked, removed, rolled back and created again, the
\* two adjacency maps of the graph agree, name only nodes that exist and have
\* no cycle.  Creation skips the cycle check (compiler.cpp:48, 164), so this
\* also says that skipping it is safe.
GraphWellFormed == WellFormed(graph)

\* The checks of setNodeDependencies refuse what they must and nothing else: a
\* new list of dependencies is accepted exactly when its entries are distinct
\* existing nodes and the edges it asks for can still be put in an order.  (The
\* checks are made between walks, and no walk changes the graph.)
DependencyChecksExact ==
    call = "none" =>
      \A id \in Nodes(graph) : \A deps \in DependencyLists \cup Range(Refs) :
        DependenciesCode(graph, id, deps, FALSE) = "OK" <=>
            /\ IsInjective(deps)
            /\ Range(deps) \subseteq Nodes(graph)
            /\ Orderable([graph.dependencies EXCEPT ![id] = Range(deps)])

\* What the compiled formula of a node will look up is what the graph records
\* as its dependencies, also after the formula was replaced or a replacement
\* was refused; a value node has neither.  Evaluation does no checks of its
\* own, so this is what keeps Graph::node from failing inside a formula.
FormulaBindings ==
    \A n \in NodeId :
        /\ graph.type[n] = "Formula" =>
              formula[n] \in Formula /\ graph.dependencies[n] = Range(Refs[formula[n]])
        /\ graph.type[n] = "Collection" => formula[n] \in Operation
        /\ graph.type[n] \in {"Value", Absent} =>
              formula[n] = NoFormula /\ graph.dependencies[n] = {} /\ n \notin dirty

\* markDirty stops at nodes that are dirty already.  That is sound only while
\* everything that reads a dirty node is dirty too, in every state: between
\* calls, and at each step of a walk that cleans nodes one by one.
DirtyPropagated ==
    \A n \in dirty : graph.dependents[n] \subseteq dirty

\* "Never allow reading a dirty value" (doc/design_document.md:24): a clean
\* node holds what its formula gives on the values its operands hold now, after
\* any sequence of mutations and partial evaluations.
CacheCorrect ==
    \A n \in Nodes(graph) \ dirty :
        graph.type[n] # "Value" =>
            value[n] = Apply(formula[n], [m \in Operands(n) |-> value[m]])

\* The walks work only on nodes that still need it: a node that is being
\* visited, or has an activation, is dirty, so nothing is computed twice; the
\* nodes below the top wait for something above them that they depend on.
WalkOnDirtyNodes ==
    /\ \A n \in NodeId : visitState[n] = "Visiting" => n \in dirty
    /\ \A i \in DOMAIN frames :
          /\ frames[i].node \in dirty
          /\ \A j \in 1 .. i - 1 :
                HasPath(frames[j].node, frames[i].node, graph.dependencies)

\* The explicit stack of evaluateIterative may hold a node more than once, but
\* never more entries than the graph has edges, and the one it began with.  The
\* recursion is never deeper than the graph has nodes.
StackBounded ==
    /\ Len(stack) <= 1 + Cardinality({e \in NodeId \X NodeId : e[2] \in graph.dependencies[e[1]]})
    /\ Len(frames) <= Cardinality(Nodes(graph))

\* "Failed calls are rolled back automatically" (doc/design_document.md:45), and
\* error.h:15: a call that returns an error, a creation that fails half-way
\* included, leaves every node, edge and cache as it found them.
FailedCallChangesNothing ==
    [][call = "none" /\ call' = "none" /\ reply'.code # "OK"
        => UNCHANGED <<nodeVars, dirtyLeaves>>]_vars

\* "Exact dirty-flag propagation" (doc/design_document.md:23): a call on one
\* node turns only nodes dirty that read it, directly or through others.
OnlyDownstreamMarked ==
    [][dirty' \ dirty # {} =>
        \E n \in NodeId : dirty' \ dirty \subseteq Reach(graph.dependents, {n})]_vars

\* "Only affected nodes are reevaluated": a read computes nothing but what the
\* node it asks for depends on, and a sweep nothing but what its current leaf
\* depends on.
OnlyUpstreamComputed ==
    [][dirty \ dirty' # {} /\ call # "none" =>
        LET root == IF call = "evaluate" THEN dirtyLeaves[position] ELSE requested
        IN  dirty \ dirty' \subseteq Reach(graph.dependencies, {root})]_vars

\* After evaluate() no node it had listed is dirty, and the list is empty.
SweepCleansLeaves ==
    [][call = "evaluate" /\ call' = "none" =>
        /\ Range(dirtyLeaves) \cap dirty' = {}
        /\ dirtyLeaves' = << >>]_vars

\* A read or a sweep always comes to an end, shared dependencies and all.
EvaluationTerminates ==
    call \in {"getNodeValue", "evaluate"} ~> call \in {"none", "aborted"}

\* What is left of a call: the call, the leaves of its sweep, the walk, the
\* dirty nodes, the visits (a node is Unvisited, Visiting, Visited; an
\* activation waits for a deeper one) and the entries to look at.
CallsLeft == IF call \in {"getNodeValue", "evaluate"} THEN 1 ELSE 0
LeavesLeft == Len(dirtyLeaves) - position
WalksLeft == IF WalkDone THEN 0 ELSE 1
DirtyLeft == Cardinality(dirty)
VisitsLeft ==
    Cardinality({n \in NodeId : visitState[n] = "Unvisited"})
       + Cardinality({n \in NodeId : visitState[n] # "Visited"})
       + (Cardinality(NodeId) - Len(frames))
EntriesLeft == Len(stack) + (IF frames = << >> THEN 0 ELSE Cardinality(Last(frames).rest))

Remaining == <<CallsLeft, LeavesLeft, WalksLeft, DirtyLeft, VisitsLeft, EntriesLeft>>

\* Smaller in the first place in which they differ.
Below(s, t) == \E i \in DOMAIN t : s[i] < t[i] /\ \A j \in 1 .. i - 1 : s[j] = t[j]

\* Why it does: no step of a running call, in whichever walk and whatever is
\* pushed again, leaves as much to do as it found, so none can go on for ever.
StepsDescend ==
    [][ExecutorStep => Remaining' \in [1 .. 6 -> Nat] /\ Below(Remaining', Remaining)]_vars

\* graph.hpp:13 makes node() on a missing node the end of the program and asks
\* callers to look first; doc/design_document.md:18 has creation-time checks
\* make checks at evaluation unnecessary.  So no sequence of calls aborts.
NeverAborts == call # "aborted"
-----------------------------------------------------------------------------
\* The sheet the kernel holds: its nodes without their caches.  The number of a
\* value node is its cached value.
SheetOf ==
    [n \in Nodes(graph) |->
        [type |-> graph.type[n], formula |-> formula[n],
         inputs |-> graph.dependencies[n],
         number |-> IF graph.type[n] = "Value" THEN value[n] ELSE Zero]]

Abstract == INSTANCE Spreadsheet WITH sheet <- SheetOf, asked <- requested

\* Every edit takes the sheet to the sheet the caller described, every refusal
\* leaves it alone, and every read, answered from the cache or after a walk,
\* returns what the node means in the sheet as it is when the read answers.
ImplementsSpreadsheet == Abstract!Spec
=============================================================================
