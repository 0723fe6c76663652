-------------------------- MODULE StatKernelProofs --------------------------
(***************************************************************************)
(* Theorems about the kernel, for every set of names, numbers, formulas    *)
(* and operations: its variables keep their types, its graph stays well    *)
(* formed, a compiled formula reads exactly the recorded dependencies, and *)
(* a call that fails changes nothing.                                      *)
(*                                                                         *)
(* None of this is inductive by itself.  IInv joins it with what holds     *)
(* between calls (the sweep is at its start, no walk is under way) and     *)
(* with the fact that a running read knows its node.                       *)
(***************************************************************************)
EXTENDS StatKernel, DependencyGraphProofs

\* No walk is under way between calls or after the process has ended, and outside
\* a sweep its place is the front.
IdleRests ==
    /\ call \in {"none", "aborted"} => WalkDone
    /\ call \in {"none", "getNodeValue"} => position = 0

\* A running getNodeValue was asked for a node.
ReadKnowsItsNode == call = "getNodeValue" => requested \in NodeId

\* The inductive invariant.
IInv == TypeOK /\ GraphWellFormed /\ FormulaBindings /\ IdleRests /\ ReadKnowsItsNode

-----------------------------------------------------------------------------
(***************************************************************************)
(* Sequences.                                                              *)
(***************************************************************************)

\* Removing an element leaves a sequence over the same set.
LEMMA RemoveFirstType ==
    ASSUME NEW S, NEW s \in Seq(S), NEW e
    PROVE  RemoveFirst(s, e) \in Seq(S)
<1> DEFINE I == {i \in 1 .. Len(s) : s[i] = e}
<1>1. CASE I = {}
  BY <1>1 DEF RemoveFirst
<1>2. CASE I # {}
  <2> DEFINE least == CHOOSE i \in I : \A j \in I : i <= j
  <2>1. \E i \in I : \A j \in I : i <= j
    <3>1. I \in SUBSET Nat
      OBVIOUS
    <3> HIDE DEF I
    <3> QED
      BY <3>1, <1>2, LeastNatural
  <2>2. least \in 1 .. Len(s)
    BY <2>1
  <2>3. RemoveFirst(s, e) = SubSeq(s, 1, least - 1) \o SubSeq(s, least + 1, Len(s))
    BY <1>2 DEF RemoveFirst, RemoveAt, SelectInSeq, Min
  <2> HIDE DEF least
  <2>4. SubSeq(s, 1, least - 1) \in Seq(S) /\ SubSeq(s, least + 1, Len(s)) \in Seq(S)
    BY <2>2
  <2> QED
    BY <2>3, <2>4
<1> QED
  BY <1>1, <1>2

\* markDirty leaves sets and sequences of names.
LEMMA MarkDirtyType ==
    ASSUME NEW g \in Graphs, NEW D \in SUBSET NodeId, NEW L \in Seq(NodeId), NEW roots,
           MarkDirty(g, D, L, roots)
    PROVE  dirty' \in SUBSET NodeId /\ dirtyLeaves' \in Seq(NodeId)
<1> DEFINE marked == Marked(g, D, roots)
           leaves == {n \in marked : g.dependents[n] = {}}
<1>1. marked \in SUBSET NodeId
  BY DEF Marked, Reach
<1>2. PICK order \in Orders(leaves) : dirtyLeaves' = L \o order
  BY DEF MarkDirty
<1>3. order \in Seq(NodeId)
  BY <1>1, OrdersType
<1>4. dirty' = D \cup marked
  BY DEF MarkDirty
<1> QED
  BY <1>1, <1>2, <1>3, <1>4

-----------------------------------------------------------------------------
(***************************************************************************)
(* The operations on the graph, with their roll-back.                      *)
(***************************************************************************)

\* The codes of the graph operations are members of SF_ErrorCode.
LEMMA CodeTypes ==
    ASSUME NEW g, NEW id, NEW deps, NEW skip, NEW type
    PROVE  /\ AddNode(g, id, type).code \in ErrorCode
           /\ SetNodeDependencies(g, id, deps, skip).code \in ErrorCode
           /\ RemoveNode(g, id).code \in ErrorCode
<1>1. \A d : DependencyCode(g, id, d, skip) \in ErrorCode
  BY DEF DependencyCode, ErrorCode
<1>2. DependenciesCode(g, id, deps, skip) \in ErrorCode
  BY <1>1 DEF DependenciesCode, ErrorCode
<1>3. RemoveNodeCode(g, id) \in ErrorCode
  BY DEF RemoveNodeCode, ErrorCode
<1> QED
  BY <1>2, <1>3 DEF AddNode, SetNodeDependencies, RemoveNode, ErrorCode

\* A name the graph does not hold has no edges in either map.
LEMMA AbsentHasNoEdges ==
    ASSUME NEW g \in Graphs, WellFormed(g), NEW id \in NodeId, id \notin Nodes(g)
    PROVE  g.dependencies[id] = {} /\ g.dependents[id] = {}
<1>1. g.dependencies[id] = {}
  BY DEF WellFormed, DependenciesExist
<1>2. \A n \in NodeId : id \notin g.dependencies[n]
  BY DEF WellFormed, DependenciesExist
<1>3. g.dependents[id] \in SUBSET NodeId
  BY DEF Graphs
<1>4. g.dependents[id] = {}
  BY <1>2, <1>3 DEF WellFormed, MirroredEdges
<1> QED
  BY <1>1, <1>4

\* removeNode right after addNode restores the graph, and reports no error.
LEMMA RemoveUndoesAdd ==
    ASSUME NEW g \in Graphs, WellFormed(g), NEW id \in NodeId, NEW type \in NodeType,
           AddNode(g, id, type).code = "OK"
    PROVE  RemoveNode(AddNode(g, id, type).graph, id).graph = g
<1> DEFINE added == AddNode(g, id, type).graph
<1>1. /\ added \in Graphs
      /\ id \notin Nodes(g)
      /\ added.type = [g.type EXCEPT ![id] = type]
      /\ added.dependencies = g.dependencies
      /\ added.dependents = g.dependents
  BY AddNodePreserves
<1>2. g.dependencies[id] = {} /\ g.dependents[id] = {}
  BY <1>1, AbsentHasNoEdges
<1>3. type # Absent
  BY DEF NodeType, Absent
<1> HIDE DEF added
<1>4. RemoveNodeCode(added, id) = "OK"
  BY <1>1, <1>2, <1>3 DEF RemoveNodeCode, Nodes, Graphs
<1>5. WithoutNode(added, id) =
          [type |-> [g.type EXCEPT ![id] = Absent],
           dependencies |-> [n \in NodeId |-> IF n = id THEN {} ELSE g.dependencies[n]],
           dependents |-> [n \in NodeId |-> IF n = id THEN {} ELSE g.dependents[n]]]
  BY <1>1, <1>2 DEF WithoutNode, Graphs
<1>6. [g.type EXCEPT ![id] = Absent] = g.type
  BY <1>1 DEF Nodes, Graphs
<1>7. /\ [n \in NodeId |-> IF n = id THEN {} ELSE g.dependencies[n]] = g.dependencies
      /\ [n \in NodeId |-> IF n = id THEN {} ELSE g.dependents[n]] = g.dependents
  BY <1>2 DEF Graphs
<1>8. WithoutNode(added, id) = g
  BY <1>5, <1>6, <1>7 DEF Graphs
<1> QED
  BY <1>4, <1>8 DEF RemoveNode, added

\* What creating a node comes to: either the node is there, with the dependencies
\* it was given, or the graph is as it was.
Created(g, result, id, type, deps) ==
    /\ result.graph \in Graphs
    /\ WellFormed(result.graph)
    /\ result.code \in ErrorCode
    /\ result.code # "OK" => result.graph = g
    /\ result.code = "OK" =>
          /\ result.graph.type = [g.type EXCEPT ![id] = type]
          /\ result.graph.dependencies = [g.dependencies EXCEPT ![id] = deps]

\* addNode, setNodeDependencies and the roll-back, together.
LEMMA AddDependentNodeCreates ==
    ASSUME NEW g \in Graphs, WellFormed(g), NEW id \in NodeId, NEW type \in NodeType,
           NEW deps \in Seq(NodeId)
    PROVE  Created(g, AddDependentNode(g, id, type, deps), id, type, Range(deps))
<1> DEFINE first == AddNode(g, id, type)
           linked == SetNodeDependencies(first.graph, id, deps, TRUE)
<1>1. /\ first.graph \in Graphs
      /\ WellFormed(first.graph)
      /\ first.code # "OK" => first.graph = g
      /\ first.code = "OK" =>
            /\ id \notin Nodes(g)
            /\ first.graph.type = [g.type EXCEPT ![id] = type]
            /\ first.graph.dependencies = g.dependencies
            /\ first.graph.dependents = g.dependents
  BY AddNodePreserves
<1>2. first.code \in ErrorCode /\ linked.code \in ErrorCode
  BY CodeTypes
<1>3. CASE first.code # "OK"
  <2>1. AddDependentNode(g, id, type, deps) = first
    BY <1>3 DEF AddDependentNode
  <2> HIDE DEF first
  <2> QED
    BY <1>1, <1>2, <1>3, <2>1 DEF Created
<1>4. CASE first.code = "OK"
  <2>1. first.graph.dependents[id] = {}
    BY <1>1, <1>4, AbsentHasNoEdges
  <2>2. /\ linked.graph \in Graphs
        /\ WellFormed(linked.graph)
        /\ linked.graph.type = first.graph.type
        /\ linked.code # "OK" => linked.graph = first.graph
        /\ linked.code = "OK" => linked.graph.dependencies =
                                   [first.graph.dependencies EXCEPT ![id] = Range(deps)]
    BY <1>1, <2>1, LinkNewNode, Zenon
  <2>3. RemoveNode(first.graph, id).graph = g
    BY <1>4, RemoveUndoesAdd
  <2>4. AddDependentNode(g, id, type, deps) = RollBackUnless(linked, id)
    BY <1>4 DEF AddDependentNode
  <2>5. linked = [code |-> linked.code, graph |-> linked.graph]
    BY DEF SetNodeDependencies
  <2> HIDE DEF first, linked
  <2>6. CASE linked.code = "OK"
    <3>1. AddDependentNode(g, id, type, deps) = linked
      BY <2>4, <2>6 DEF RollBackUnless
    <3>2. linked.graph.dependencies = [g.dependencies EXCEPT ![id] = Range(deps)]
      BY <1>1, <1>4, <2>2, <2>6
    <3> QED
      BY <1>1, <1>4, <2>2, <2>6, <3>1, <3>2, <1>2 DEF Created
  <2>7. CASE linked.code # "OK"
    <3>1. AddDependentNode(g, id, type, deps) = [code |-> linked.code, graph |-> g]
      BY <2>2, <2>3, <2>4, <2>5, <2>7 DEF RollBackUnless
    <3> QED
      BY <1>2, <2>7, <3>1 DEF Created
  <2> QED
    BY <2>6, <2>7
<1> QED
  BY <1>3, <1>4

\* The same for a formula node, whose text is parsed after addNode.
LEMMA AddFormulaNodeCreates ==
    ASSUME NEW g \in Graphs, WellFormed(g), NEW id \in NodeId,
           NEW text \in Formula \cup IllFormed
    PROVE  LET added == AddFormulaNode(g, id, text)
           IN  /\ Created(g, added, id, "Formula", Range(Refs[text]))
               /\ added.code = "OK" => text \in Formula
<1>1. "Formula" \in NodeType
  BY DEF NodeType
<1>2. CASE text \in Formula
  <2>1. Refs[text] \in Seq(NodeId)
    BY <1>2, KernelConstants
  <2>2. AddFormulaNode(g, id, text) = AddDependentNode(g, id, "Formula", Refs[text])
    BY <1>2 DEF AddFormulaNode
  <2> QED
    BY <1>1, <1>2, <2>1, <2>2, AddDependentNodeCreates
<1>3. CASE text \notin Formula
  <2> DEFINE first == AddNode(g, id, "Formula")
             added == AddFormulaNode(g, id, text)
  <2>1. added.graph = g /\ added.code # "OK" /\ added.code \in ErrorCode
    <3>1. CASE first.code # "OK"
      <4>1. added = first
        BY <1>3, <3>1 DEF AddFormulaNode
      <4>2. first.graph = g /\ first.code \in ErrorCode
        BY <1>1, <3>1, AddNodePreserves, CodeTypes
      <4> QED
        BY <3>1, <4>1, <4>2
    <3>2. CASE first.code = "OK"
      <4>1. RemoveNode(first.graph, id).graph = g
        BY <1>1, <3>2, RemoveUndoesAdd
      <4>2. [first EXCEPT !.code = "INVALID_DSL"] =
               [code |-> "INVALID_DSL", graph |-> first.graph]
        BY DEF AddNode
      <4>3. added = [code |-> "INVALID_DSL", graph |-> g]
        BY <1>3, <3>2, <4>1, <4>2 DEF AddFormulaNode, RollBackUnless
      <4> QED
        BY <4>3 DEF ErrorCode
    <3> QED
      BY <3>1, <3>2
  <2> HIDE DEF added
  <2> QED
    BY <2>1 DEF Created, added
<1> QED
  BY <1>2, <1>3

-----------------------------------------------------------------------------
(***************************************************************************)
(* The calls that return at once.                                          *)
(***************************************************************************)

\* FormulaBindings, as a relation between the parts of a state.
Bound(g, f, D) ==
    \A n \in NodeId :
        /\ g.type[n] = "Formula" => f[n] \in Formula /\ g.dependencies[n] = Range(Refs[f[n]])
        /\ g.type[n] = "Collection" => f[n] \in Operation
        /\ g.type[n] \in {"Value", Absent} =>
              f[n] = NoFormula /\ g.dependencies[n] = {} /\ n \notin D

Formulas == [NodeId -> Formula \cup Operation \cup {NoFormula}]

\* A method that returns at once preserves the invariant when what it leaves in
\* the nodes is well typed, well formed and bound.
LEMMA ReturnPreserves ==
    ASSUME IInv, NEW code \in ErrorCode, Return(code),
           graph' \in Graphs, WellFormed(graph'), formula' \in Formulas,
           value' \in [NodeId -> NodeValue], dirty' \in SUBSET NodeId,
           dirtyLeaves' \in Seq(NodeId), Bound(graph', formula', dirty')
    PROVE  IInv'
<1>1. position' = 0 /\ call' = "none" /\ WalkDone'
  BY DEF IInv, IdleRests, Return, callVars, walkVars, WalkDone
<1>2. reply' \in [code: ErrorCode \cup {"running"}, value: NodeValue]
  BY KernelConstants DEF Return, Reply
<1>3. position' \in 0 .. Len(dirtyLeaves')
  BY <1>1
<1>4. TypeOK'
  BY <1>1, <1>2, <1>3 DEF IInv, TypeOK, Return, callVars, walkVars, Formulas
<1>5. FormulaBindings'
  BY DEF FormulaBindings, Bound
<1> QED
  BY <1>1, <1>4, <1>5 DEF IInv, GraphWellFormed, IdleRests, ReadKnowsItsNode

\* A refusal leaves the nodes as they were.
LEMMA FailPreserves ==
    ASSUME IInv, NEW result, result.code \in ErrorCode, result.graph = graph, Fail(result)
    PROVE  IInv'
<1>1. UNCHANGED <<graph, formula, value, dirty, dirtyLeaves>> /\ Return(result.code)
  BY DEF Fail
<1>2. Bound(graph', formula', dirty')
  BY <1>1 DEF IInv, FormulaBindings, Bound
<1> QED
  BY <1>1, <1>2, ReturnPreserves DEF IInv, TypeOK, GraphWellFormed, Formulas

LEMMA RejectPreserves ==
    ASSUME IInv, NEW code \in ErrorCode, Reject(code)
    PROVE  IInv'
<1> DEFINE result == [code |-> code, graph |-> graph]
<1>1. result.code \in ErrorCode /\ result.graph = graph /\ Fail(result)
  BY DEF Reject
<1> HIDE DEF result
<1> QED
  BY <1>1, FailPreserves

\* A node that was just created reads what it was given and is in the list.
LEMMA InstallPreserves ==
    ASSUME IInv, NEW id \in NodeId, NEW f \in Formula \cup Operation,
           NEW added, NEW type \in {"Formula", "Collection"}, NEW deps \in SUBSET NodeId,
           Created(graph, added, id, type, deps), added.code = "OK",
           type = "Formula" => f \in Formula /\ deps = Range(Refs[f]),
           type = "Collection" => f \in Operation,
           Return("OK"), InstallDependentNode(id, f, added.graph)
    PROVE  IInv'
<1>1. /\ graph' \in Graphs
      /\ WellFormed(graph')
      /\ graph'.type = [graph.type EXCEPT ![id] = type]
      /\ graph'.dependencies = [graph.dependencies EXCEPT ![id] = deps]
  BY DEF Created, InstallDependentNode
<1>2. /\ formula' = [formula EXCEPT ![id] = f]
      /\ value' = [value EXCEPT ![id] = Zero]
      /\ dirty' = dirty \cup {id}
      /\ dirtyLeaves' = Append(dirtyLeaves, id)
  BY DEF InstallDependentNode, MarkAsDirtyLeaf
<1>3. /\ graph \in Graphs /\ formula \in Formulas
      /\ value \in [NodeId -> NodeValue] /\ dirty \in SUBSET NodeId
      /\ dirtyLeaves \in Seq(NodeId)
  BY DEF IInv, TypeOK, Formulas
<1>4. /\ formula' \in Formulas
      /\ value' \in [NodeId -> NodeValue]
      /\ dirty' \in SUBSET NodeId
      /\ dirtyLeaves' \in Seq(NodeId)
  BY <1>2, <1>3, KernelConstants DEF Formulas
<1>5. Bound(graph', formula', dirty')
  <2> SUFFICES ASSUME NEW n \in NodeId
               PROVE  /\ graph'.type[n] = "Formula" =>
                            /\ formula'[n] \in Formula
                            /\ graph'.dependencies[n] = Range(Refs[formula'[n]])
                      /\ graph'.type[n] = "Collection" => formula'[n] \in Operation
                      /\ graph'.type[n] \in {"Value", Absent} =>
                            /\ formula'[n] = NoFormula
                            /\ graph'.dependencies[n] = {}
                            /\ n \notin dirty'
    BY DEF Bound
  <2>1. CASE n = id
    <3>1. graph'.type[n] = type /\ graph'.dependencies[n] = deps /\ formula'[n] = f
      BY <1>1, <1>2, <1>3, <2>1 DEF Graphs, Formulas
    <3> QED
      BY <3>1 DEF Absent
  <2>2. CASE n # id
    <3>1. /\ graph'.type[n] = graph.type[n] /\ formula'[n] = formula[n]
          /\ graph'.dependencies[n] = graph.dependencies[n]
          /\ n \in dirty' <=> n \in dirty
      BY <1>1, <1>2, <1>3, <2>2 DEF Graphs, Formulas
    <3> QED
      BY <3>1 DEF IInv, FormulaBindings
  <2> QED
    BY <2>1, <2>2
<1>6. "OK" \in ErrorCode
  BY DEF ErrorCode
<1> QED
  BY <1>1, <1>4, <1>5, <1>6, ReturnPreserves

\* Marking keeps a bound graph bound.
LEMMA MarkDirtyBound ==
    ASSUME NEW g \in Graphs, WellFormed(g), NEW f, NEW D \in SUBSET NodeId,
           NEW L \in Seq(NodeId), NEW roots \in SUBSET Nodes(g),
           Bound(g, f, D), MarkDirty(g, D, L, roots)
    PROVE  Bound(g, f, dirty')
<1>1. dirty' = D \cup Marked(g, D, roots)
  BY DEF MarkDirty
<1>2. \A n \in Marked(g, D, roots) : g.type[n] \in {"Formula", "Collection"}
  BY MarkedAreComputed
<1>3. \A n \in NodeId : g.type[n] \in {"Value", Absent} => n \notin Marked(g, D, roots)
  BY <1>2 DEF Absent
<1> QED
  BY <1>1, <1>3 DEF Bound

\* The marking operations, all at once.
LEMMA MarkingPreserves ==
    ASSUME IInv, Return("OK"),
           NEW D \in SUBSET NodeId, NEW L \in Seq(NodeId), NEW roots \in SUBSET Nodes(graph'),
           graph' \in Graphs, WellFormed(graph'), formula' \in Formulas,
           value' \in [NodeId -> NodeValue],
           Bound(graph', formula', D), MarkDirty(graph', D, L, roots)
    PROVE  IInv'
<1>1. dirty' \in SUBSET NodeId /\ dirtyLeaves' \in Seq(NodeId)
  BY MarkDirtyType
<1>2. Bound(graph', formula', dirty')
  BY MarkDirtyBound
<1>3. "OK" \in ErrorCode
  BY DEF ErrorCode
<1> QED
  BY <1>1, <1>2, <1>3, ReturnPreserves

\* Giving a formula or collection node new dependencies, and a formula that
\* reads them.
LEMMA RelinkPreserves ==
    ASSUME IInv, Return("OK"), NEW id \in Nodes(graph), NEW deps \in SUBSET NodeId, NEW f,
           graph' \in Graphs, WellFormed(graph'), graph'.type = graph.type,
           graph'.dependencies = [graph.dependencies EXCEPT ![id] = deps],
           \/ graph.type[id] = "Formula" /\ f \in Formula /\ deps = Range(Refs[f])
           \/ graph.type[id] = "Collection" /\ f \in Operation,
           formula' = [formula EXCEPT ![id] = f], UNCHANGED value,
           MarkDirty(graph', dirty, dirtyLeaves, {id})
    PROVE  IInv'
<1>1. /\ graph \in Graphs /\ formula \in Formulas
      /\ value' \in [NodeId -> NodeValue] /\ dirty \in SUBSET NodeId
      /\ dirtyLeaves \in Seq(NodeId)
  BY DEF IInv, TypeOK, Formulas
<1>2. formula' \in Formulas
  BY <1>1 DEF Formulas
<1>3. {id} \in SUBSET Nodes(graph')
  BY DEF Nodes
<1>4. id \in NodeId
  BY DEF Nodes
<1>5. Bound(graph', formula', dirty)
  <2> SUFFICES ASSUME NEW n \in NodeId
               PROVE  /\ graph'.type[n] = "Formula" =>
                            /\ formula'[n] \in Formula
                            /\ graph'.dependencies[n] = Range(Refs[formula'[n]])
                      /\ graph'.type[n] = "Collection" => formula'[n] \in Operation
                      /\ graph'.type[n] \in {"Value", Absent} =>
                            /\ formula'[n] = NoFormula
                            /\ graph'.dependencies[n] = {}
                            /\ n \notin dirty
    BY DEF Bound
  <2>1. CASE n = id
    <3>1. graph'.type[n] = graph.type[id] /\ graph'.dependencies[n] = deps /\ formula'[n] = f
      BY <1>1, <1>4, <2>1 DEF Graphs, Formulas
    <3> QED
      BY <3>1 DEF Absent
  <2>2. CASE n # id
    <3>1. /\ graph'.type[n] = graph.type[n] /\ formula'[n] = formula[n]
          /\ graph'.dependencies[n] = graph.dependencies[n]
      BY <1>1, <1>4, <2>2 DEF Graphs, Formulas
    <3> QED
      BY <3>1 DEF IInv, FormulaBindings
  <2> QED
    BY <2>1, <2>2
<1> QED
  BY <1>1, <1>2, <1>3, <1>5, MarkingPreserves

LEMMA CreateCollectionNodePreserves ==
    ASSUME IInv, NEW id \in NodeId, NEW deps \in DependencyLists,
           NEW op \in Operation \cup BadOperation, CreateCollectionNode(id, deps, op)
    PROVE  IInv'
<1> DEFINE added == AddDependentNode(graph, id, "Collection", deps)
<1>1. CASE op \in BadOperation
  <2>1. Reject("INVALID_COLLECTION_OPERATION")
    BY <1>1 DEF CreateCollectionNode
  <2> QED
    BY <2>1, RejectPreserves DEF ErrorCode
<1>2. CASE op \notin BadOperation
  <2>1. deps \in Seq(NodeId) /\ "Collection" \in NodeType
    BY CallerConstants DEF NodeType
  <2>2. Range(deps) \in SUBSET NodeId
    BY <2>1 DEF Range
  <2>3. Created(graph, added, id, "Collection", Range(deps))
    BY <2>1, AddDependentNodeCreates DEF IInv, TypeOK, GraphWellFormed
  <2>4. \/ Fail(added)
        \/ added.code = "OK" /\ Return("OK") /\ InstallDependentNode(id, op, added.graph)
    BY <1>2 DEF CreateCollectionNode
  <2> HIDE DEF added
  <2>5. CASE Fail(added)
    <3>1. added.code \in ErrorCode /\ added.graph = graph
      BY <2>3, <2>5 DEF Created, Fail
    <3> QED
      BY <2>5, <3>1, FailPreserves
  <2>6. CASE added.code = "OK" /\ Return("OK") /\ InstallDependentNode(id, op, added.graph)
    BY <1>2, <2>2, <2>3, <2>6, InstallPreserves
  <2> QED
    BY <2>4, <2>5, <2>6
<1> QED
  BY <1>1, <1>2

LEMMA CreateFormulaNodePreserves ==
    ASSUME IInv, NEW id \in NodeId, NEW text \in Formula \cup IllFormed,
           CreateFormulaNode(id, text)
    PROVE  IInv'
<1> DEFINE added == AddFormulaNode(graph, id, text)
<1>1. /\ Created(graph, added, id, "Formula", Range(Refs[text]))
      /\ added.code = "OK" => text \in Formula
  BY AddFormulaNodeCreates DEF IInv, TypeOK, GraphWellFormed
<1>2. \/ Fail(added)
      \/ added.code = "OK" /\ Return("OK") /\ InstallDependentNode(id, text, added.graph)
  BY DEF CreateFormulaNode
<1> HIDE DEF added
<1>3. CASE Fail(added)
  <2>1. added.code \in ErrorCode /\ added.graph = graph
    BY <1>1, <1>3 DEF Created, Fail
  <2> QED
    BY <1>3, <2>1, FailPreserves
<1>4. CASE added.code = "OK" /\ Return("OK") /\ InstallDependentNode(id, text, added.graph)
  <2>1. Refs[text] \in Seq(NodeId) /\ text \in Formula
    BY <1>1, <1>4, KernelConstants
  <2>2. Range(Refs[text]) \in SUBSET NodeId
    BY <2>1 DEF Range
  <2> QED
    BY <1>1, <1>4, <2>1, <2>2, InstallPreserves
<1> QED
  BY <1>2, <1>3, <1>4

LEMMA CreateValueNodePreserves ==
    ASSUME IInv, NEW id \in NodeId, NEW v \in Inputs, CreateValueNode(id, v)
    PROVE  IInv'
<1> DEFINE added == AddNode(graph, id, "Value")
<1>1. /\ added.graph \in Graphs
      /\ WellFormed(added.graph)
      /\ added.code # "OK" => added.graph = graph
      /\ added.code = "OK" =>
            /\ id \notin Nodes(graph)
            /\ added.graph.type = [graph.type EXCEPT ![id] = "Value"]
            /\ added.graph.dependencies = graph.dependencies
  <2>1. "Value" \in NodeType
    BY DEF NodeType
  <2> QED
    BY <2>1, AddNodePreserves DEF IInv, TypeOK, GraphWellFormed
<1>2. added.code \in ErrorCode
  BY CodeTypes
<1>3. CASE Fail(added)
  BY <1>1, <1>2, <1>3, FailPreserves DEF Fail
<1>4. CASE /\ added.code = "OK"
           /\ Return("OK")
           /\ graph' = added.graph
           /\ formula' = [formula EXCEPT ![id] = NoFormula]
           /\ value' = [value EXCEPT ![id] = v]
           /\ UNCHANGED <<dirty, dirtyLeaves>>
  <2> HIDE DEF added
  <2>1. /\ graph \in Graphs /\ WellFormed(graph) /\ formula \in Formulas
        /\ value \in [NodeId -> NodeValue] /\ dirty \in SUBSET NodeId
        /\ dirtyLeaves \in Seq(NodeId) /\ v \in NodeValue
    BY CallerConstants DEF IInv, TypeOK, Formulas, GraphWellFormed
  <2>2. /\ formula' \in Formulas
        /\ value' \in [NodeId -> NodeValue]
    BY <1>4, <2>1 DEF Formulas
  <2>3. graph.dependencies[id] = {}
    BY <1>1, <1>4, <2>1, AbsentHasNoEdges
  <2>4. id \notin dirty
    BY <1>1, <1>4 DEF IInv, FormulaBindings, Nodes
  <2>5. Bound(graph', formula', dirty')
    <3> SUFFICES ASSUME NEW n \in NodeId
                 PROVE  /\ graph'.type[n] = "Formula" =>
                              /\ formula'[n] \in Formula
                              /\ graph'.dependencies[n] = Range(Refs[formula'[n]])
                        /\ graph'.type[n] = "Collection" => formula'[n] \in Operation
                        /\ graph'.type[n] \in {"Value", Absent} =>
                              /\ formula'[n] = NoFormula
                              /\ graph'.dependencies[n] = {}
                              /\ n \notin dirty'
      BY DEF Bound
    <3>1. CASE n = id
      <4>1. /\ graph'.type[n] = "Value" /\ graph'.dependencies[n] = {}
            /\ formula'[n] = NoFormula /\ n \notin dirty'
        BY <1>1, <1>4, <2>1, <2>3, <2>4, <3>1 DEF Graphs, Formulas
      <4> QED
        BY <4>1
    <3>2. CASE n # id
      <4>1. /\ graph'.type[n] = graph.type[n] /\ formula'[n] = formula[n]
            /\ graph'.dependencies[n] = graph.dependencies[n] /\ dirty' = dirty
        BY <1>1, <1>4, <2>1, <3>2 DEF Graphs, Formulas
      <4> QED
        BY <4>1 DEF IInv, FormulaBindings
    <3> QED
      BY <3>1, <3>2
  <2>6. "OK" \in ErrorCode
    BY DEF ErrorCode
  <2> QED
    BY <1>1, <1>4, <2>1, <2>2, <2>5, <2>6, ReturnPreserves
<1> QED
  BY <1>3, <1>4 DEF CreateValueNode

\* No formula reads the node that goes, so no formula loses a dependency.
LEMMA DeleteNodePreserves ==
    ASSUME IInv, NEW id \in NodeId, DeleteNode(id)
    PROVE  IInv'
<1> DEFINE removed == RemoveNode(graph, id)
<1>1. /\ graph \in Graphs /\ WellFormed(graph) /\ formula \in Formulas
      /\ value \in [NodeId -> NodeValue] /\ dirty \in SUBSET NodeId
      /\ dirtyLeaves \in Seq(NodeId)
  BY DEF IInv, TypeOK, Formulas, GraphWellFormed
<1>2. /\ removed.graph \in Graphs
      /\ WellFormed(removed.graph)
      /\ removed.code # "OK" => removed.graph = graph
      /\ removed.code = "OK" =>
            /\ removed.graph = WithoutNode(graph, id)
            /\ id \in Nodes(graph)
            /\ \A n \in graph.dependents[id] : graph.type[n] # "Formula"
  BY <1>1, RemoveNodePreserves
<1>3. removed.code \in ErrorCode
  BY CodeTypes
<1>4. CASE Fail(removed)
  BY <1>2, <1>3, <1>4, FailPreserves DEF Fail
<1>5. CASE /\ removed.code = "OK"
           /\ Return("OK")
           /\ graph' = removed.graph
           /\ formula' = [formula EXCEPT ![id] = NoFormula]
           /\ value' = [value EXCEPT ![id] = Zero]
           /\ MarkDirty(removed.graph, dirty \ {id}, RemoveFirst(dirtyLeaves, id),
                        graph.dependents[id])
  <2> HIDE DEF removed
  <2>1. /\ graph'.type = [graph.type EXCEPT ![id] = Absent]
        /\ \A n \in NodeId : graph'.dependencies[n] =
              IF n = id THEN {} ELSE graph.dependencies[n] \ {id}
    <3>1. graph' = WithoutNode(graph, id)
      BY <1>2, <1>5
    <3>2. LET h == WithoutNode(graph, id)
          IN  /\ h \in Graphs
              /\ h.type = [graph.type EXCEPT ![id] = Absent]
              /\ \A n \in NodeId :
                    /\ h.dependencies[n] = IF n = id THEN {} ELSE graph.dependencies[n] \ {id}
                    /\ h.dependents[n] = IF n = id THEN {} ELSE graph.dependents[n] \ {id}
      BY <1>1, WithoutNodeMaps, Zenon
    <3> QED
      BY <3>1, <3>2
  <2>2. /\ formula' \in Formulas
        /\ value' \in [NodeId -> NodeValue]
    BY <1>1, <1>5, KernelConstants DEF Formulas
  <2>3. /\ dirty \ {id} \in SUBSET NodeId
        /\ RemoveFirst(dirtyLeaves, id) \in Seq(NodeId)
    BY <1>1, RemoveFirstType
  <2>4. graph.dependents[id] \in SUBSET Nodes(graph')
    <3> SUFFICES ASSUME NEW n \in graph.dependents[id]
                 PROVE  n \in Nodes(graph')
      OBVIOUS
    <3>1. n \in NodeId /\ id \in graph.dependencies[n]
      BY <1>1 DEF Graphs, WellFormed, MirroredEdges
    <3>2. n \in Nodes(graph)
      BY <1>1, <3>1 DEF WellFormed, DependenciesExist
    <3>3. n # id
      <4>1. graph.dependencies[id] \in SUBSET NodeId
        BY <1>1 DEF Graphs
      <4>2. id \notin Reach(graph.dependencies, graph.dependencies[id])
        BY <1>1 DEF WellFormed, Acyclic
      <4>3. id \notin graph.dependencies[id]
        BY <4>1, <4>2, ReachHoldsRoots
      <4> QED
        BY <3>1, <4>3
    <3> QED
      BY <1>1, <2>1, <3>1, <3>2, <3>3 DEF Nodes, Graphs
  <2>5. Bound(graph', formula', dirty \ {id})
    <3> SUFFICES ASSUME NEW n \in NodeId
                 PROVE  /\ graph'.type[n] = "Formula" =>
                              /\ formula'[n] \in Formula
                              /\ graph'.dependencies[n] = Range(Refs[formula'[n]])
                        /\ graph'.type[n] = "Collection" => formula'[n] \in Operation
                        /\ graph'.type[n] \in {"Value", Absent} =>
                              /\ formula'[n] = NoFormula
                              /\ graph'.dependencies[n] = {}
                              /\ n \notin dirty \ {id}
      BY DEF Bound
    <3>1. CASE n = id
      <4>1. /\ graph'.type[n] = Absent /\ graph'.dependencies[n] = {}
            /\ formula'[n] = NoFormula
        BY <1>1, <1>5, <2>1, <3>1 DEF Graphs, Formulas
      <4> QED
        BY <3>1, <4>1 DEF Absent
    <3>2. CASE n # id
      <4>1. /\ graph'.type[n] = graph.type[n] /\ formula'[n] = formula[n]
            /\ graph'.dependencies[n] = graph.dependencies[n] \ {id}
        BY <1>1, <1>5, <2>1, <3>2 DEF Graphs, Formulas
      <4>2. graph.type[n] = "Formula" => id \notin graph.dependencies[n]
        BY <1>1, <1>2, <1>5 DEF WellFormed, MirroredEdges
      <4> QED
        BY <4>1, <4>2 DEF IInv, FormulaBindings
    <3> QED
      BY <3>1, <3>2
  <2>6. MarkDirty(graph', dirty \ {id}, RemoveFirst(dirtyLeaves, id), graph.dependents[id])
    BY <1>5
  <2>7. graph' \in Graphs /\ WellFormed(graph')
    BY <1>2, <1>5
  <2> QED
    BY <1>5, <2>2, <2>3, <2>4, <2>5, <2>6, <2>7, MarkingPreserves
<1> QED
  BY <1>4, <1>5 DEF DeleteNode

LEMMA SetNodeValuePreserves ==
    ASSUME IInv, NEW id \in NodeId, NEW v \in Inputs, SetNodeValue(id, v)
    PROVE  IInv'
<1>1. /\ graph \in Graphs /\ WellFormed(graph) /\ formula \in Formulas
      /\ value \in [NodeId -> NodeValue] /\ dirty \in SUBSET NodeId
      /\ dirtyLeaves \in Seq(NodeId) /\ v \in NodeValue
  BY CallerConstants DEF IInv, TypeOK, Formulas, GraphWellFormed
<1>2. Bound(graph, formula, dirty) /\ "OK" \in ErrorCode
  BY DEF IInv, FormulaBindings, Bound, ErrorCode
<1>3. CASE Reject("NODE_NOT_FOUND") \/ Reject("NODE_TYPE_MISMATCH")
  BY <1>3, RejectPreserves DEF ErrorCode
<1>4. CASE Return("OK") /\ UNCHANGED <<nodeVars, dirtyLeaves>>
  <2>1. UNCHANGED <<graph, formula, value, dirty, dirtyLeaves>>
    BY <1>4 DEF nodeVars
  <2> QED
    BY <1>1, <1>2, <1>4, <2>1, ReturnPreserves
<1>5. CASE /\ graph.type[id] = "Value"
           /\ Return("OK")
           /\ value' = [value EXCEPT ![id] = v]
           /\ UNCHANGED <<graph, formula>>
           /\ MarkDirty(graph, dirty, dirtyLeaves, {id})
  <2>1. {id} \in SUBSET Nodes(graph')
    BY <1>5 DEF Nodes, Absent
  <2>2. value' \in [NodeId -> NodeValue]
    BY <1>1, <1>5
  <2>3. MarkDirty(graph', dirty, dirtyLeaves, {id}) /\ Bound(graph', formula', dirty)
    BY <1>2, <1>5
  <2>4. graph' \in Graphs /\ WellFormed(graph') /\ formula' \in Formulas
    BY <1>1, <1>5
  <2> QED
    BY <1>1, <1>5, <2>1, <2>2, <2>3, <2>4, MarkingPreserves
<1> QED
  BY <1>3, <1>4, <1>5 DEF SetNodeValue

\* What both setters of dependencies need of setNodeDependencies.
LEMMA LinkOutcome ==
    ASSUME IInv, NEW id \in NodeId, NEW deps \in Seq(NodeId)
    PROVE  LET linked == SetNodeDependencies(graph, id, deps, FALSE)
           IN  /\ linked.graph \in Graphs
               /\ WellFormed(linked.graph)
               /\ linked.graph.type = graph.type
               /\ linked.code \in ErrorCode
               /\ linked.code # "OK" => linked.graph = graph
               /\ linked.code = "OK" => linked.graph.dependencies =
                                          [graph.dependencies EXCEPT ![id] = Range(deps)]
<1> DEFINE Linked(r) == /\ r.graph \in Graphs
                        /\ WellFormed(r.graph)
                        /\ r.graph.type = graph.type
                        /\ r.code \in ErrorCode
                        /\ r.code # "OK" => r.graph = graph
                        /\ r.code = "OK" => r.graph.dependencies =
                                             [graph.dependencies EXCEPT ![id] = Range(deps)]
<1>1. graph \in Graphs /\ WellFormed(graph)
  BY DEF IInv, TypeOK, GraphWellFormed
<1>2. \A skip \in BOOLEAN : (skip => graph.dependents[id] = {}) =>
          Linked(SetNodeDependencies(graph, id, deps, skip))
  <2> SUFFICES ASSUME NEW skip \in BOOLEAN, skip => graph.dependents[id] = {}
               PROVE  Linked(SetNodeDependencies(graph, id, deps, skip))
    OBVIOUS
  <2>1. SetNodeDependencies(graph, id, deps, skip).code \in ErrorCode
    BY CodeTypes
  <2> QED
    BY <1>1, <2>1, SetNodeDependenciesPreserves
<1> HIDE DEF Linked
<1>3. Linked(SetNodeDependencies(graph, id, deps, FALSE))
  BY <1>2, Zenon
<1> QED
  BY <1>3 DEF Linked

LEMMA SetNodeFormulaPreserves ==
    ASSUME IInv, NEW id \in NodeId, NEW text \in Formula \cup IllFormed,
           SetNodeFormula(id, text)
    PROVE  IInv'
<1> DEFINE linked == SetNodeDependencies(graph, id, Refs[text], FALSE)
<1>1. CASE \E code \in ErrorCode : Reject(code)
  BY <1>1, RejectPreserves
<1>2. CASE /\ graph.type[id] = "Formula" /\ text \in Formula
           /\ \/ Fail(linked)
              \/ /\ linked.code = "OK"
                 /\ Return("OK")
                 /\ graph' = linked.graph
                 /\ formula' = [formula EXCEPT ![id] = text]
                 /\ UNCHANGED value
                 /\ MarkDirty(linked.graph, dirty, dirtyLeaves, {id})
  <2>1. Refs[text] \in Seq(NodeId)
    BY <1>2, KernelConstants
  <2>2. /\ linked.graph \in Graphs
        /\ WellFormed(linked.graph)
        /\ linked.graph.type = graph.type
        /\ linked.code \in ErrorCode
        /\ linked.code # "OK" => linked.graph = graph
        /\ linked.code = "OK" => linked.graph.dependencies =
                                   [graph.dependencies EXCEPT ![id] = Range(Refs[text])]
    BY <2>1, LinkOutcome
  <2> HIDE DEF linked
  <2>3. CASE Fail(linked)
    BY <2>2, <2>3, FailPreserves DEF Fail
  <2>4. CASE ~Fail(linked)
    <3> DEFINE deps == Range(Refs[text])
    <3>1. deps \in SUBSET NodeId
      BY <2>1 DEF Range
    <3>2. id \in Nodes(graph)
      BY <1>2 DEF Nodes, Absent
    <3>3. /\ graph' \in Graphs /\ WellFormed(graph') /\ graph'.type = graph.type
          /\ graph'.dependencies = [graph.dependencies EXCEPT ![id] = deps]
          /\ MarkDirty(graph', dirty, dirtyLeaves, {id})
      BY <1>2, <2>2, <2>4
    <3>4. deps = Range(Refs[text])
      OBVIOUS
    <3> HIDE DEF deps
    <3> QED
      BY <1>2, <2>4, <3>1, <3>2, <3>3, <3>4, RelinkPreserves
  <2> QED
    BY <2>3, <2>4
<1>3. {"NODE_NOT_FOUND", "NODE_TYPE_MISMATCH", "INVALID_DSL"} \subseteq ErrorCode
  BY DEF ErrorCode
<1> HIDE DEF linked
<1> QED
  BY <1>1, <1>2, <1>3 DEF SetNodeFormula, linked

LEMMA SetCollectionDependenciesPreserves ==
    ASSUME IInv, NEW id \in NodeId, NEW list \in DependencyLists,
           SetCollectionDependencies(id, list)
    PROVE  IInv'
<1> DEFINE linked == SetNodeDependencies(graph, id, list, FALSE)
<1>1. CASE \E code \in ErrorCode : Reject(code)
  BY <1>1, RejectPreserves
<1>2. CASE /\ graph.type[id] = "Collection"
           /\ \/ Fail(linked)
              \/ /\ linked.code = "OK"
                 /\ Return("OK")
                 /\ graph' = linked.graph
                 /\ UNCHANGED <<formula, value>>
                 /\ MarkDirty(linked.graph, dirty, dirtyLeaves, {id})
  <2>1. list \in Seq(NodeId)
    BY CallerConstants
  <2>2. /\ linked.graph \in Graphs
        /\ WellFormed(linked.graph)
        /\ linked.graph.type = graph.type
        /\ linked.code \in ErrorCode
        /\ linked.code # "OK" => linked.graph = graph
        /\ linked.code = "OK" => linked.graph.dependencies =
                                   [graph.dependencies EXCEPT ![id] = Range(list)]
    BY <2>1, LinkOutcome
  <2> HIDE DEF linked
  <2>3. CASE Fail(linked)
    BY <2>2, <2>3, FailPreserves DEF Fail
  <2>4. CASE ~Fail(linked)
    <3> DEFINE deps == Range(list)
    <3>1. deps \in SUBSET NodeId
      BY <2>1 DEF Range
    <3>2. id \in Nodes(graph)
      BY <1>2 DEF Nodes, Absent
    <3>3. /\ graph' \in Graphs /\ WellFormed(graph') /\ graph'.type = graph.type
          /\ graph'.dependencies = [graph.dependencies EXCEPT ![id] = deps]
          /\ MarkDirty(graph', dirty, dirtyLeaves, {id})
      BY <1>2, <2>2, <2>4
    <3>4. /\ formula[id] \in Operation
          /\ formula' = [formula EXCEPT ![id] = formula[id]]
      BY <1>2, <2>4 DEF IInv, FormulaBindings, TypeOK
    <3> HIDE DEF deps
    <3> QED
      BY <1>2, <2>4, <3>1, <3>2, <3>3, <3>4, RelinkPreserves
  <2> QED
    BY <2>3, <2>4
<1>3. {"NODE_NOT_FOUND", "NODE_TYPE_MISMATCH"} \subseteq ErrorCode
  BY DEF ErrorCode
<1> HIDE DEF linked
<1> QED
  BY <1>1, <1>2, <1>3 DEF SetCollectionDependencies, linked

LEMMA ResetPreserves ==
    ASSUME IInv, Reset
    PROVE  IInv'
<1>1. Return("OK") /\ "OK" \in ErrorCode
  BY DEF Reset, ErrorCode
<1>2. graph' \in Graphs /\ WellFormed(graph')
  BY EmptyGraphWellFormed DEF Reset
<1>3. /\ formula' \in Formulas
      /\ value' \in [NodeId -> NodeValue]
      /\ dirty' \in SUBSET NodeId
      /\ dirtyLeaves' \in Seq(NodeId)
  BY KernelConstants DEF Reset, Formulas
<1>4. Bound(graph', formula', dirty')
  BY DEF Reset, Bound, EmptyGraph, Absent
<1> QED
  BY <1>1, <1>2, <1>3, <1>4, ReturnPreserves

\* What a call that leaves the nodes alone preserves of the invariant.
LEMMA NodesUnchanged ==
    ASSUME IInv, UNCHANGED <<nodeVars, dirtyLeaves>>
    PROVE  /\ GraphWellFormed' /\ FormulaBindings'
           /\ graph' \in Graphs /\ formula' \in Formulas /\ value' \in [NodeId -> NodeValue]
           /\ dirty' \subseteq NodeId /\ dirtyLeaves' \in Seq(NodeId)
BY DEF IInv, TypeOK, Formulas, nodeVars, GraphWellFormed, FormulaBindings

\* The first frame or the first stack entry of a walk.
LEMMA StartWalkType ==
    ASSUME TypeOK, NEW id \in NodeId, StartWalk(id)
    PROVE  /\ stack' \in Seq(NodeId)
           /\ visitState' \in [NodeId -> {"Unvisited", "Visiting", "Visited"}]
           /\ frames' \in Seq(Frame)
<1>1. [node |-> id, rest |-> graph.dependencies[id]] \in Frame
  BY DEF TypeOK, Graphs, Frame
<1>2. CASE evaluateImpl = "Iterative"
  <2>1. stack' = <<id>> /\ UNCHANGED <<visitState, frames>>
    BY <1>2 DEF StartWalk
  <2>2. <<id>> \in Seq(NodeId)
    OBVIOUS
  <2> QED
    BY <2>1, <2>2 DEF TypeOK
<1>3. CASE evaluateImpl # "Iterative"
  <2> DEFINE frame == [node |-> id, rest |-> graph.dependencies[id]]
  <2>1. frames' = <<frame>> /\ UNCHANGED <<stack, visitState>>
    BY <1>3 DEF StartWalk
  <2> HIDE DEF frame
  <2>2. <<frame>> \in Seq(Frame)
    BY <1>1 DEF frame
  <2> QED
    BY <2>1, <2>2 DEF TypeOK
<1> QED
  BY <1>2, <1>3

LEMMA SetEvaluationTypePreserves ==
    ASSUME IInv, NEW type \in EvaluationTypes, SetEvaluationType(type)
    PROVE  IInv'
<1>1. evaluateImpl' \in EvaluationType /\ UNCHANGED <<callVars, walkVars, reply>>
  BY CallerConstants DEF SetEvaluationType
<1>2. UNCHANGED <<nodeVars, dirtyLeaves>>
  BY DEF SetEvaluationType
<1>3. TypeOK'
  BY <1>1, <1>2, NodesUnchanged DEF IInv, TypeOK, Formulas, callVars, walkVars
<1> QED
  BY <1>1, <1>2, <1>3, NodesUnchanged
  DEF IInv, IdleRests, ReadKnowsItsNode, WalkDone, callVars, walkVars

LEMMA GetNodeValuePreserves ==
    ASSUME IInv, NEW id \in NodeId, GetNodeValue(id)
    PROVE  IInv'
<1>1. UNCHANGED <<nodeVars, dirtyLeaves, evaluateImpl, position>> /\ call = "none"
  BY DEF GetNodeValue
<1>2. CASE id \in dirty
  <2>1. call' = "getNodeValue" /\ requested' = id /\ StartWalk(id) /\ reply' = NoReply
    BY <1>2 DEF GetNodeValue
  <2>2. reply' \in [code: ErrorCode \cup {"running"}, value: NodeValue]
    BY <2>1, KernelConstants DEF NoReply, Reply
  <2>3. TypeOK'
    BY <1>1, <2>1, <2>2, NodesUnchanged, StartWalkType DEF IInv, TypeOK, Formulas
  <2> QED
    BY <1>1, <2>1, <2>3, NodesUnchanged DEF IInv, IdleRests, ReadKnowsItsNode
<1>3. CASE id \notin dirty
  <2>1. UNCHANGED <<call, requested, walkVars>>
    BY <1>3 DEF GetNodeValue
  <2>2. reply' \in [code: ErrorCode \cup {"running"}, value: NodeValue]
    <3>1. value[id] \in NodeValue
      BY DEF IInv, TypeOK
    <3>2. \/ reply' = [code |-> "OK", value |-> value[id]]
          \/ reply' = [code |-> "NODE_NOT_FOUND", value |-> Zero]
      BY <1>3 DEF GetNodeValue, Returned, Reply
    <3> QED
      BY <3>1, <3>2, KernelConstants DEF ErrorCode
  <2>3. TypeOK'
    BY <1>1, <2>1, <2>2, NodesUnchanged DEF IInv, TypeOK, Formulas, walkVars
  <2> QED
    BY <1>1, <2>1, <2>3, NodesUnchanged DEF IInv, IdleRests, ReadKnowsItsNode, WalkDone, walkVars
<1> QED
  BY <1>2, <1>3

LEMMA EvaluatePreserves ==
    ASSUME IInv, Evaluate
    PROVE  IInv'
<1>1. UNCHANGED <<nodeVars, dirtyLeaves, evaluateImpl, requested, walkVars>>
  BY DEF Evaluate
<1>2. call' = "evaluate" /\ position' = 0 /\ reply' = NoReply
  BY DEF Evaluate
<1>3. reply' \in [code: ErrorCode \cup {"running"}, value: NodeValue]
  BY <1>2, KernelConstants DEF NoReply, Reply
<1>4. position' \in 0 .. Len(dirtyLeaves')
  BY <1>1, <1>2 DEF IInv, TypeOK
<1>5. TypeOK'
  BY <1>1, <1>2, <1>3, <1>4, NodesUnchanged DEF IInv, TypeOK, Formulas, walkVars
<1> QED
  BY <1>1, <1>2, <1>5, NodesUnchanged DEF IInv, IdleRests, ReadKnowsItsNode

-----------------------------------------------------------------------------
(***************************************************************************)
(* The steps of a running call.  They compute nodes and move the walk; the *)
(* graph, the formulas and the list of leaves stay.                        *)
(***************************************************************************)

\* What a step of a walk has to preserve: the types of what it moves.
LEMMA WalkStepPreserves ==
    ASSUME IInv, ~WalkDone,
           UNCHANGED <<graph, formula, dirtyLeaves, evaluateImpl, callVars, reply>>,
           value' \in [NodeId -> NodeValue], dirty' \subseteq dirty,
           stack' \in Seq(NodeId), frames' \in Seq(Frame),
           visitState' \in [NodeId -> {"Unvisited", "Visiting", "Visited"}]
    PROVE  IInv'
<1>1. UNCHANGED <<graph, formula, dirtyLeaves, evaluateImpl, call, requested, position, reply>>
  BY DEF callVars
<1>2. TypeOK'
  BY <1>1 DEF IInv, TypeOK
<1>3. FormulaBindings'
  BY <1>1 DEF IInv, FormulaBindings
<1>4. call # "none"
  BY DEF IInv, IdleRests
<1> QED
  BY <1>1, <1>2, <1>3, <1>4 DEF IInv, GraphWellFormed, IdleRests, ReadKnowsItsNode

\* A computed value is a number.
LEMMA ComputeValueType ==
    ASSUME TypeOK, NEW n \in NodeId, ComputeValue(n)
    PROVE  value' \in [NodeId -> NodeValue] /\ dirty' \subseteq dirty
<1>1. dirty' = dirty \ {n}
  BY DEF ComputeValue
<1>2. CASE formula[n] = NoFormula
  BY <1>1, <1>2 DEF ComputeValue, TypeOK
<1>3. CASE formula[n] # NoFormula
  <2> DEFINE args == [m \in Operands(n) |-> value[m]]
  <2>1. formula[n] \in Formula \cup Operation
    BY <1>3 DEF TypeOK
  <2>2. Operands(n) \in SUBSET NodeId
    <3>1. CASE formula[n] \in Formula
      <4>1. Refs[formula[n]] \in Seq(NodeId)
        BY <3>1, KernelConstants
      <4> QED
        BY <3>1, <4>1 DEF Operands, Range
    <3>2. CASE formula[n] \notin Formula
      BY <3>2 DEF Operands, TypeOK, Graphs
    <3> QED
      BY <3>1, <3>2
  <2>3. args \in [Operands(n) -> NodeValue]
    BY <2>2 DEF TypeOK
  <2>4. value' = [value EXCEPT ![n] = Apply(formula[n], args)]
    BY <1>3 DEF ComputeValue
  <2> HIDE DEF args
  <2>5. Apply(formula[n], args) \in NodeValue
    BY <2>1, <2>2, <2>3, ApplyType
  <2> QED
    BY <1>1, <2>4, <2>5 DEF TypeOK
<1> QED
  BY <1>2, <1>3

\* Popping the stack.
LEMMA PopStackType ==
    ASSUME TypeOK, stack # << >>,
           NEW visited \in [NodeId -> {"Unvisited", "Visiting", "Visited"}], PopStack(visited)
    PROVE  /\ stack' \in Seq(NodeId)
           /\ frames' \in Seq(Frame)
           /\ visitState' \in [NodeId -> {"Unvisited", "Visiting", "Visited"}]
<1>1. stack' \in Seq(NodeId)
  BY FrontType DEF PopStack, TypeOK
<1> QED
  BY <1>1 DEF PopStack, TypeOK, Unvisited

LEMMA PopVisitedPreserves ==
    ASSUME IInv, PopVisited
    PROVE  IInv'
<1>1. /\ stack # << >> /\ PopStack(visitState)
      /\ UNCHANGED <<graph, formula, value, dirty, dirtyLeaves, evaluateImpl, callVars, reply>>
  BY DEF PopVisited, nodeVars
<1>2. TypeOK /\ visitState \in [NodeId -> {"Unvisited", "Visiting", "Visited"}]
  BY DEF IInv, TypeOK
<1>3. /\ value' \in [NodeId -> NodeValue] /\ dirty' \subseteq dirty /\ ~WalkDone
  BY <1>1, <1>2 DEF TypeOK, WalkDone
<1> QED
  BY <1>1, <1>2, <1>3, PopStackType, WalkStepPreserves

LEMMA VisitCleanPreserves ==
    ASSUME IInv, VisitClean
    PROVE  IInv'
<1> DEFINE visited == [visitState EXCEPT ![Last(stack)] = "Visited"]
<1>1. /\ stack # << >> /\ PopStack(visited)
      /\ UNCHANGED <<graph, formula, value, dirty, dirtyLeaves, evaluateImpl, callVars, reply>>
  BY DEF VisitClean, nodeVars
<1>2. TypeOK /\ visited \in [NodeId -> {"Unvisited", "Visiting", "Visited"}]
  BY DEF IInv, TypeOK
<1>3. /\ value' \in [NodeId -> NodeValue] /\ dirty' \subseteq dirty /\ ~WalkDone
  BY <1>1, <1>2 DEF TypeOK, WalkDone
<1> HIDE DEF visited
<1> QED
  BY <1>1, <1>2, <1>3, PopStackType, WalkStepPreserves

LEMMA VisitDirtyPreserves ==
    ASSUME IInv, VisitDirty
    PROVE  IInv'
<1> DEFINE visiting == [visitState EXCEPT ![Last(stack)] = "Visiting"]
           waiting == {d \in graph.dependencies[Last(stack)] : visiting[d] # "Visited"}
<1>1. /\ stack # << >> /\ visitState' = visiting
      /\ UNCHANGED <<graph, formula, value, dirty, dirtyLeaves, evaluateImpl, callVars, frames,
                     reply>>
      /\ \E order \in Orders(waiting) : stack' = stack \o order
  BY DEF VisitDirty, nodeVars
<1>2. TypeOK /\ visiting \in [NodeId -> {"Unvisited", "Visiting", "Visited"}]
  BY DEF IInv, TypeOK
<1>3. Last(stack) \in NodeId
  BY <1>1, <1>2, FrontType DEF TypeOK
<1>4. waiting \in SUBSET NodeId
  BY <1>2, <1>3 DEF TypeOK, Graphs
<1> HIDE DEF visiting, waiting
<1>5. stack' \in Seq(NodeId)
  <2>1. PICK order \in Orders(waiting) : stack' = stack \o order
    BY <1>1
  <2>2. order \in Seq(NodeId)
    BY <1>4, OrdersType
  <2> QED
    BY <1>2, <2>1, <2>2 DEF TypeOK
<1>6. /\ value' \in [NodeId -> NodeValue] /\ dirty' \subseteq dirty /\ ~WalkDone
      /\ frames' \in Seq(Frame)
  BY <1>1, <1>2 DEF TypeOK, WalkDone
<1> QED
  BY <1>1, <1>2, <1>5, <1>6, WalkStepPreserves

LEMMA ComputeVisitingPreserves ==
    ASSUME IInv, ComputeVisiting
    PROVE  IInv'
<1> DEFINE visited == [visitState EXCEPT ![Last(stack)] = "Visited"]
<1>1. /\ stack # << >> /\ PopStack(visited) /\ ComputeValue(Last(stack))
      /\ UNCHANGED <<graph, formula, dirtyLeaves, evaluateImpl, callVars, reply>>
  BY DEF ComputeVisiting
<1>2. TypeOK /\ visited \in [NodeId -> {"Unvisited", "Visiting", "Visited"}]
  BY DEF IInv, TypeOK
<1>3. Last(stack) \in NodeId /\ ~WalkDone
  BY <1>1, <1>2, FrontType DEF TypeOK, WalkDone
<1> HIDE DEF visited
<1> QED
  BY <1>1, <1>2, <1>3, PopStackType, ComputeValueType, WalkStepPreserves

LEMMA CallDependencyPreserves ==
    ASSUME IInv, NEW d \in NodeId, CallDependency(d)
    PROVE  IInv'
<1> DEFINE caller == [Last(frames) EXCEPT !.rest = @ \ {d}]
           callee == [node |-> d, rest |-> graph.dependencies[d]]
<1>1. /\ frames # << >>
      /\ frames' = Front(frames) \o (IF d \in dirty THEN <<caller, callee>> ELSE <<caller>>)
      /\ UNCHANGED <<graph, formula, value, dirty, dirtyLeaves, evaluateImpl, callVars, stack,
                     visitState, reply>>
  BY DEF CallDependency, nodeVars
<1>2. TypeOK
  BY DEF IInv
<1>3. Front(frames) \in Seq(Frame) /\ Last(frames) \in Frame
  BY <1>1, <1>2, FrontType DEF TypeOK
<1>4. caller \in Frame
  BY <1>3 DEF Frame
<1>5. callee \in Frame
  BY <1>2 DEF TypeOK, Graphs, Frame
<1> HIDE DEF caller, callee
<1>6. frames' \in Seq(Frame)
  <2>1. <<caller, callee>> \in Seq(Frame) /\ <<caller>> \in Seq(Frame)
    BY <1>4, <1>5
  <2>2. \/ frames' = Front(frames) \o <<caller, callee>>
        \/ frames' = Front(frames) \o <<caller>>
    BY <1>1
  <2> QED
    BY <1>3, <2>1, <2>2, ConcatProperties
<1>7. /\ value' \in [NodeId -> NodeValue] /\ dirty' \subseteq dirty /\ ~WalkDone
      /\ stack' \in Seq(NodeId)
      /\ visitState' \in [NodeId -> {"Unvisited", "Visiting", "Visited"}]
  BY <1>1, <1>2 DEF TypeOK, WalkDone
<1> QED
  BY <1>1, <1>6, <1>7, WalkStepPreserves

LEMMA ComputeReturningPreserves ==
    ASSUME IInv, ComputeReturning
    PROVE  IInv'
<1>1. /\ frames # << >> /\ ComputeValue(Last(frames).node) /\ frames' = Front(frames)
      /\ UNCHANGED <<graph, formula, dirtyLeaves, evaluateImpl, callVars, stack, visitState,
                     reply>>
  BY DEF ComputeReturning
<1>2. TypeOK
  BY DEF IInv
<1>3. Front(frames) \in Seq(Frame) /\ Last(frames) \in Frame
  BY <1>1, <1>2, FrontType DEF TypeOK
<1>4. Last(frames).node \in NodeId
  BY <1>3 DEF Frame
<1>5. value' \in [NodeId -> NodeValue] /\ dirty' \subseteq dirty
  BY <1>1, <1>2, <1>4, ComputeValueType
<1>6. /\ ~WalkDone /\ stack' \in Seq(NodeId)
      /\ visitState' \in [NodeId -> {"Unvisited", "Visiting", "Visited"}]
  BY <1>1, <1>2 DEF TypeOK, WalkDone
<1> QED
  BY <1>1, <1>3, <1>5, <1>6, WalkStepPreserves

LEMMA AbortPreserves ==
    ASSUME IInv, Abort
    PROVE  IInv'
<1>1. /\ UNCHANGED <<graph, formula, value, dirty, dirtyLeaves, evaluateImpl, requested,
                     position, reply>>
      /\ call' = "aborted" /\ stack' = << >> /\ visitState' = Unvisited /\ frames' = << >>
  BY DEF Abort, nodeVars
<1>2. stack' \in Seq(NodeId) /\ frames' \in Seq(Frame)
  BY <1>1
<1>3. visitState' \in [NodeId -> {"Unvisited", "Visiting", "Visited"}]
  BY <1>1 DEF Unvisited
<1>4. TypeOK'
  BY <1>1, <1>2, <1>3 DEF IInv, TypeOK
<1>5. FormulaBindings'
  BY <1>1 DEF IInv, FormulaBindings
<1> QED
  BY <1>1, <1>4, <1>5 DEF IInv, GraphWellFormed, IdleRests, ReadKnowsItsNode, WalkDone

LEMMA ReturnNodeValuePreserves ==
    ASSUME IInv, ReturnNodeValue
    PROVE  IInv'
<1>1. /\ call = "getNodeValue" /\ WalkDone /\ call' = "none" /\ requested' = NoNode
      /\ reply' = [code |-> "OK", value |-> value[requested]]
      /\ UNCHANGED <<nodeVars, dirtyLeaves, evaluateImpl, position, walkVars>>
  BY DEF ReturnNodeValue, Returned
<1>2. value[requested] \in NodeValue
  BY <1>1 DEF IInv, TypeOK, ReadKnowsItsNode
<1>3. reply' \in [code: ErrorCode \cup {"running"}, value: NodeValue]
  BY <1>1, <1>2 DEF ErrorCode
<1>4. TypeOK'
  BY <1>1, <1>3, NodesUnchanged DEF IInv, TypeOK, Formulas, walkVars
<1>5. position' = 0 /\ WalkDone'
  BY <1>1 DEF IInv, IdleRests, WalkDone, walkVars
<1> QED
  BY <1>1, <1>4, <1>5, NodesUnchanged DEF IInv, IdleRests, ReadKnowsItsNode

LEMMA EvaluateLeafPreserves ==
    ASSUME IInv, EvaluateLeaf
    PROVE  IInv'
<1> DEFINE leaf == dirtyLeaves[position + 1]
<1>1. /\ call = "evaluate" /\ position < Len(dirtyLeaves) /\ position' = position + 1
      /\ leaf \in Nodes(graph)
      /\ IF leaf \in dirty THEN StartWalk(leaf) ELSE UNCHANGED walkVars
      /\ UNCHANGED <<nodeVars, dirtyLeaves, evaluateImpl, call, requested, reply>>
  BY DEF EvaluateLeaf
<1>2. TypeOK
  BY DEF IInv
<1>3. position' \in 0 .. Len(dirtyLeaves')
  BY <1>1, <1>2 DEF TypeOK
<1>4. leaf \in NodeId
  BY <1>1 DEF Nodes
<1> HIDE DEF leaf
<1>5. /\ stack' \in Seq(NodeId)
      /\ visitState' \in [NodeId -> {"Unvisited", "Visiting", "Visited"}]
      /\ frames' \in Seq(Frame)
  <2>1. CASE leaf \in dirty
    BY <1>1, <1>2, <1>4, <2>1, StartWalkType
  <2>2. CASE leaf \notin dirty
    BY <1>1, <1>2, <2>2 DEF TypeOK, walkVars
  <2> QED
    BY <2>1, <2>2
<1>6. TypeOK'
  BY <1>1, <1>2, <1>3, <1>5, NodesUnchanged DEF TypeOK, Formulas
<1> QED
  BY <1>1, <1>6, NodesUnchanged DEF IInv, IdleRests, ReadKnowsItsNode

LEMMA ReturnEvaluatePreserves ==
    ASSUME IInv, ReturnEvaluate
    PROVE  IInv'
<1>1. /\ WalkDone /\ call' = "none" /\ position' = 0 /\ dirtyLeaves' = << >>
      /\ reply' = Reply("OK")
      /\ UNCHANGED <<graph, formula, value, dirty, evaluateImpl, requested, walkVars>>
  BY DEF ReturnEvaluate, nodeVars
<1>2. reply' \in [code: ErrorCode \cup {"running"}, value: NodeValue]
  BY <1>1, KernelConstants DEF Reply, ErrorCode
<1>3. dirtyLeaves' \in Seq(NodeId) /\ position' \in 0 .. Len(dirtyLeaves')
  BY <1>1
<1>4. TypeOK'
  BY <1>1, <1>2, <1>3 DEF IInv, TypeOK, walkVars
<1>5. FormulaBindings'
  BY <1>1 DEF IInv, FormulaBindings
<1> QED
  BY <1>1, <1>4, <1>5
  DEF IInv, GraphWellFormed, IdleRests, ReadKnowsItsNode, WalkDone, walkVars

-----------------------------------------------------------------------------
(***************************************************************************)
(* The theorems.                                                           *)
(***************************************************************************)

LEMMA InitEstablishes == Init => IInv
<1> SUFFICES ASSUME Init PROVE IInv
  OBVIOUS
<1>1. /\ graph = EmptyGraph
      /\ formula = [n \in NodeId |-> NoFormula]
      /\ value = [n \in NodeId |-> Zero]
      /\ dirty = {} /\ dirtyLeaves = << >> /\ evaluateImpl = "Iterative" /\ call = "none"
      /\ requested = NoNode /\ position = 0 /\ stack = << >> /\ visitState = Unvisited
      /\ frames = << >> /\ reply = Reply("OK")
  BY DEF Init, ExecutorInit
<1>2. graph \in Graphs /\ WellFormed(graph)
  BY <1>1, EmptyGraphWellFormed
<1>3. /\ formula \in [NodeId -> Formula \cup Operation \cup {NoFormula}]
      /\ value \in [NodeId -> NodeValue]
      /\ visitState \in [NodeId -> {"Unvisited", "Visiting", "Visited"}]
      /\ reply \in [code: ErrorCode \cup {"running"}, value: NodeValue]
  BY <1>1, KernelConstants DEF Unvisited, Reply, ErrorCode
<1>4. /\ dirtyLeaves \in Seq(NodeId) /\ stack \in Seq(NodeId) /\ frames \in Seq(Frame)
      /\ position \in 0 .. Len(dirtyLeaves)
  BY <1>1
<1>5. TypeOK
  BY <1>1, <1>2, <1>3, <1>4 DEF TypeOK, EvaluationType
<1>6. FormulaBindings
  BY <1>1 DEF FormulaBindings, EmptyGraph, Absent
<1> QED
  BY <1>1, <1>2, <1>5, <1>6
  DEF IInv, GraphWellFormed, IdleRests, ReadKnowsItsNode, WalkDone

LEMMA CallPreserves ==
    ASSUME IInv, Call
    PROVE  IInv'
<1>1. CASE Evaluate \/ Reset \/ \E type \in EvaluationTypes : SetEvaluationType(type)
  BY <1>1, EvaluatePreserves, ResetPreserves, SetEvaluationTypePreserves
<1>2. CASE \E id \in NodeId :
             \/ \E deps \in DependencyLists, op \in Operation \cup BadOperation :
                   CreateCollectionNode(id, deps, op)
             \/ \E text \in Formula \cup IllFormed : CreateFormulaNode(id, text)
             \/ \E v \in Inputs : CreateValueNode(id, v)
             \/ DeleteNode(id)
  BY <1>2, CreateCollectionNodePreserves, CreateFormulaNodePreserves,
     CreateValueNodePreserves, DeleteNodePreserves
<1>3. CASE \E id \in NodeId :
             \/ \E v \in Inputs : SetNodeValue(id, v)
             \/ \E text \in Formula \cup IllFormed : SetNodeFormula(id, text)
             \/ \E deps \in DependencyLists : SetCollectionDependencies(id, deps)
             \/ GetNodeValue(id)
  BY <1>3, SetNodeValuePreserves, SetNodeFormulaPreserves,
     SetCollectionDependenciesPreserves, GetNodeValuePreserves
<1> QED
  BY <1>1, <1>2, <1>3 DEF Call

LEMMA ExecutorStepPreserves ==
    ASSUME IInv, ExecutorStep
    PROVE  IInv'
<1>1. CASE PopVisited \/ VisitClean \/ VisitDirty \/ ComputeVisiting
  BY <1>1, PopVisitedPreserves, VisitCleanPreserves, VisitDirtyPreserves,
     ComputeVisitingPreserves
<1>2. CASE (\E d \in NodeId : CallDependency(d)) \/ ComputeReturning
  BY <1>2, CallDependencyPreserves, ComputeReturningPreserves
<1>3. CASE ComputeAborts \/ EvaluateLeafAborts
  BY <1>3, AbortPreserves DEF ComputeAborts, EvaluateLeafAborts
<1>4. CASE ReturnNodeValue \/ EvaluateLeaf \/ ReturnEvaluate
  BY <1>4, ReturnNodeValuePreserves, EvaluateLeafPreserves, ReturnEvaluatePreserves
<1> QED
  BY <1>1, <1>2, <1>3, <1>4 DEF ExecutorStep

LEMMA StutterPreserves ==
    ASSUME IInv, UNCHANGED vars
    PROVE  IInv'
<1>1. UNCHANGED <<graph, formula, value, dirty, dirtyLeaves, evaluateImpl, call, requested,
                 position, stack, visitState, frames, reply>>
  BY DEF vars, nodeVars, callVars, walkVars
<1>2. TypeOK'
  BY <1>1 DEF IInv, TypeOK
<1>3. FormulaBindings'
  BY <1>1 DEF IInv, FormulaBindings
<1> QED
  BY <1>1, <1>2, <1>3
  DEF IInv, GraphWellFormed, IdleRests, ReadKnowsItsNode, WalkDone

\* The inductive invariant holds in every state the kernel can be in.
THEOREM Invariance == Spec => []IInv
<1>1. IInv /\ [Next]_vars => IInv'
  BY CallPreserves, ExecutorStepPreserves, StutterPreserves DEF Next, Aborted
<1> QED
  BY InitEstablishes, <1>1, PTL DEF Spec

\* Every variable of the kernel holds what its declaration in the code allows,
\* through any sequence of calls and in the middle of any walk.
THEOREM TypeCorrect == Spec => []TypeOK
<1>1. IInv => TypeOK
  BY DEF IInv
<1> QED
  BY Invariance, <1>1, PTL

\* Whatever is created, re-linked, removed and rolled back, the two hand-kept
\* adjacency maps of the graph mirror each other, name only nodes that exist,
\* and have no cycle: also where creation skips the cycle check.
THEOREM GraphStaysWellFormed == Spec => []GraphWellFormed
<1>1. IInv => GraphWellFormed
  BY DEF IInv
<1> QED
  BY Invariance, <1>1, PTL

\* What a compiled formula looks up is what the graph records as the node's
\* dependencies, so with GraphStaysWellFormed it only looks up existing nodes.
THEOREM FormulasStayBound == Spec => []FormulaBindings
<1>1. IInv => FormulaBindings
  BY DEF IInv
<1> QED
  BY Invariance, <1>1, PTL

-----------------------------------------------------------------------------
(***************************************************************************)
(* Failed calls.                                                           *)
(***************************************************************************)

\* A method that succeeds says so.
LEMMA ReturnsOK ==
    ASSUME NEW code, Return(code)
    PROVE  reply'.code = code
BY DEF Return, Reply

\* A refusal that leaves the graph alone leaves everything alone.
LEMMA RefusalChangesNothing ==
    ASSUME NEW result, result.graph = graph, Fail(result)
    PROVE  UNCHANGED <<nodeVars, dirtyLeaves>>
BY DEF Fail, nodeVars

LEMMA RejectChangesNothing ==
    ASSUME NEW code, Reject(code)
    PROVE  UNCHANGED <<nodeVars, dirtyLeaves>>
BY DEF Reject, Fail, nodeVars

\* A creation that fails, at either of its steps, changes nothing.
LEMMA FailedCreation ==
    ASSUME IInv, NEW id \in NodeId, reply'.code # "OK",
           \/ \E deps \in DependencyLists, op \in Operation \cup BadOperation :
                 CreateCollectionNode(id, deps, op)
           \/ \E text \in Formula \cup IllFormed : CreateFormulaNode(id, text)
           \/ \E v \in Inputs : CreateValueNode(id, v)
    PROVE  UNCHANGED <<nodeVars, dirtyLeaves>>
<1>1. graph \in Graphs /\ WellFormed(graph) /\ NodeType = {"Value", "Formula", "Collection"}
  BY DEF IInv, TypeOK, GraphWellFormed, NodeType
<1>2. ~Return("OK")
  BY ReturnsOK
<1>3. ASSUME NEW deps \in DependencyLists, NEW op \in Operation \cup BadOperation,
             CreateCollectionNode(id, deps, op)
      PROVE  UNCHANGED <<nodeVars, dirtyLeaves>>
  <2> DEFINE added == AddDependentNode(graph, id, "Collection", deps)
  <2>1. deps \in Seq(NodeId)
    BY CallerConstants
  <2>2. Created(graph, added, id, "Collection", Range(deps))
    BY <1>1, <2>1, AddDependentNodeCreates
  <2>3. Fail(added) \/ Reject("INVALID_COLLECTION_OPERATION")
    BY <1>2, <1>3 DEF CreateCollectionNode
  <2> HIDE DEF added
  <2>4. Fail(added) => added.graph = graph
    BY <2>2 DEF Created, Fail
  <2> QED
    BY <2>3, <2>4, RefusalChangesNothing, RejectChangesNothing
<1>4. ASSUME NEW text \in Formula \cup IllFormed, CreateFormulaNode(id, text)
      PROVE  UNCHANGED <<nodeVars, dirtyLeaves>>
  <2> DEFINE added == AddFormulaNode(graph, id, text)
  <2>1. Created(graph, added, id, "Formula", Range(Refs[text]))
    BY <1>1, AddFormulaNodeCreates
  <2>2. Fail(added)
    BY <1>2, <1>4 DEF CreateFormulaNode
  <2> HIDE DEF added
  <2>3. added.graph = graph
    BY <2>1, <2>2 DEF Created, Fail
  <2> QED
    BY <2>2, <2>3, RefusalChangesNothing
<1>5. ASSUME NEW v \in Inputs, CreateValueNode(id, v)
      PROVE  UNCHANGED <<nodeVars, dirtyLeaves>>
  <2> DEFINE added == AddNode(graph, id, "Value")
  <2>1. Fail(added)
    BY <1>2, <1>5 DEF CreateValueNode
  <2>2. added.graph = graph
    BY <2>1 DEF Fail, AddNode
  <2> HIDE DEF added
  <2> QED
    BY <2>1, <2>2, RefusalChangesNothing
<1> QED
  BY <1>3, <1>4, <1>5

\* Nor does an edit that fails.
LEMMA FailedEdit ==
    ASSUME IInv, NEW id \in NodeId, reply'.code # "OK",
           \/ DeleteNode(id)
           \/ \E v \in Inputs : SetNodeValue(id, v)
           \/ \E text \in Formula \cup IllFormed : SetNodeFormula(id, text)
           \/ \E deps \in DependencyLists : SetCollectionDependencies(id, deps)
    PROVE  UNCHANGED <<nodeVars, dirtyLeaves>>
<1>1. ~Return("OK")
  BY ReturnsOK
<1>2. ASSUME DeleteNode(id)
      PROVE  UNCHANGED <<nodeVars, dirtyLeaves>>
  <2> DEFINE removed == RemoveNode(graph, id)
  <2>1. Fail(removed)
    BY <1>1, <1>2 DEF DeleteNode
  <2>2. removed.graph = graph
    BY <2>1 DEF Fail, RemoveNode
  <2> HIDE DEF removed
  <2> QED
    BY <2>1, <2>2, RefusalChangesNothing
<1>3. ASSUME NEW v \in Inputs, SetNodeValue(id, v)
      PROVE  UNCHANGED <<nodeVars, dirtyLeaves>>
  BY <1>1, <1>3, RejectChangesNothing DEF SetNodeValue
<1>4. \A deps : LET linked == SetNodeDependencies(graph, id, deps, FALSE)
                IN  Fail(linked) => linked.graph = graph
  BY DEF Fail, SetNodeDependencies
<1>5. ASSUME NEW text \in Formula \cup IllFormed, SetNodeFormula(id, text)
      PROVE  UNCHANGED <<nodeVars, dirtyLeaves>>
  <2> DEFINE linked == SetNodeDependencies(graph, id, Refs[text], FALSE)
  <2>1. Fail(linked) \/ \E code \in ErrorCode : Reject(code)
    BY <1>1, <1>5 DEF SetNodeFormula, ErrorCode
  <2>2. Fail(linked) => linked.graph = graph
    BY <1>4
  <2> HIDE DEF linked
  <2> QED
    BY <2>1, <2>2, RefusalChangesNothing, RejectChangesNothing
<1>6. ASSUME NEW deps \in DependencyLists, SetCollectionDependencies(id, deps)
      PROVE  UNCHANGED <<nodeVars, dirtyLeaves>>
  <2> DEFINE linked == SetNodeDependencies(graph, id, deps, FALSE)
  <2>1. Fail(linked) \/ \E code \in ErrorCode : Reject(code)
    BY <1>1, <1>6 DEF SetCollectionDependencies, ErrorCode
  <2>2. Fail(linked) => linked.graph = graph
    BY <1>4
  <2> HIDE DEF linked
  <2> QED
    BY <2>1, <2>2, RefusalChangesNothing, RejectChangesNothing
<1> QED
  BY <1>2, <1>3, <1>5, <1>6

\* No step of a walk starts and ends between calls.
LEMMA ExecutorStepNotIdle ==
    ASSUME IInv, ExecutorStep, call = "none"
    PROVE  FALSE
<1>1. stack = << >> /\ frames = << >>
  BY DEF IInv, IdleRests, WalkDone
<1> QED
  BY <1>1 DEF ExecutorStep, PopVisited, VisitClean, VisitDirty, ComputeVisiting, CallDependency,
              ComputeReturning, ComputeAborts, ReturnNodeValue, EvaluateLeaf,
              EvaluateLeafAborts, ReturnEvaluate

\* A call that returns an error leaves every node, edge, formula, cached value,
\* dirty flag and listed leaf as it found them, a creation that is rolled back
\* half-way included.
THEOREM FailuresRollBack == Spec => FailedCallChangesNothing
<1>1. ASSUME IInv, Next, call = "none", call' = "none", reply'.code # "OK"
      PROVE  UNCHANGED <<nodeVars, dirtyLeaves>>
  <2>1. ~ExecutorStep
    BY <1>1, ExecutorStepNotIdle
  <2>2. CASE Aborted
    BY <1>1, <2>2 DEF Aborted
  <2>3. CASE Call
    <3>1. CASE \E id \in NodeId :
                 \/ \E deps \in DependencyLists, op \in Operation \cup BadOperation :
                       CreateCollectionNode(id, deps, op)
                 \/ \E text \in Formula \cup IllFormed : CreateFormulaNode(id, text)
                 \/ \E v \in Inputs : CreateValueNode(id, v)
      BY <1>1, <3>1, FailedCreation
    <3>2. CASE \E id \in NodeId :
                 \/ DeleteNode(id)
                 \/ \E v \in Inputs : SetNodeValue(id, v)
                 \/ \E text \in Formula \cup IllFormed : SetNodeFormula(id, text)
                 \/ \E deps \in DependencyLists : SetCollectionDependencies(id, deps)
      BY <1>1, <3>2, FailedEdit
    <3>3. CASE \E id \in NodeId : GetNodeValue(id)
      BY <3>3 DEF GetNodeValue
    <3>4. CASE \E type \in EvaluationTypes : SetEvaluationType(type)
      BY <3>4 DEF SetEvaluationType
    <3>5. ~Reset
      BY <1>1, ReturnsOK DEF Reset
    <3>6. ~Evaluate
      BY <1>1 DEF Evaluate
    <3> QED
      BY <2>3, <3>1, <3>2, <3>3, <3>4, <3>5, <3>6 DEF Call
  <2> QED
    BY <1>1, <2>1, <2>2, <2>3 DEF Next
<1>2. IInv /\ [Next]_vars =>
        [call = "none" /\ call' = "none" /\ reply'.code # "OK"
            => UNCHANGED <<nodeVars, dirtyLeaves>>]_vars
  BY <1>1
<1> QED
  BY Invariance, <1>2, PTL DEF Spec, FailedCallChangesNothing
=============================================================================
