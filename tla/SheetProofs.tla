---------------------------- MODULE SheetProofs -----------------------------
(***************************************************************************)
(* Theorems about what the kernel promises, for every set of names,        *)
(* numbers, formulas and operations: its checks refuse exactly the edits   *)
(* that would leave no order to compute the nodes in, and it implements    *)
(* the sheet of Spreadsheet, which has no caches, flags or walks.          *)
(*                                                                         *)
(* In a graph without a cycle the number of nodes a node can reach is a    *)
(* rank that grows from what is read to who reads it; that links the code's*)
(* searches for a path to the orders the two properties speak of.  The     *)
(* refinement then follows from the soundness of the caches: what a read   *)
(* answers is the value of a clean node, and the values of the clean nodes *)
(* together are numbers that fit all their formulas.                       *)
(***************************************************************************)
EXTENDS ExecutorProofs

-----------------------------------------------------------------------------
(***************************************************************************)
(* Orders.                                                                 *)
(***************************************************************************)

\* Edges with no cycle have an order.
LEMMA AcyclicIsOrderable ==
    ASSUME NEW edges \in Edges, NoCycle(edges),
           NEW S \in SUBSET NodeId, ClosedUnder(edges, S)
    PROVE  \E rank \in [S -> 1 .. Cardinality(S)] :
              \A n \in S : \A d \in edges[n] : rank[d] < rank[n]
<1> DEFINE rank == [n \in S |-> Cardinality(Reach(edges, {n}))]
<1>1. IsFiniteSet(S) /\ Cardinality(S) \in Nat
  BY FiniteNodeIds, FS_Subset, FS_CardinalityType
<1>2. ASSUME NEW n \in S
      PROVE  /\ Reach(edges, {n}) \in SUBSET S /\ n \in Reach(edges, {n})
             /\ IsFiniteSet(Reach(edges, {n}))
             /\ Cardinality(Reach(edges, {n})) \in 1 .. Cardinality(S)
  <2> DEFINE R == Reach(edges, {n})
  <2>1. {n} \in SUBSET NodeId /\ {n} \subseteq S
    OBVIOUS
  <2>2. R \subseteq S
    BY <2>1, ReachLeast
  <2>3. n \in R
    BY <2>1, ReachHoldsRoots
  <2> HIDE DEF R
  <2>4. IsFiniteSet(R) /\ Cardinality(R) <= Cardinality(S) /\ Cardinality(R) \in Nat
    BY <1>1, <2>2, FS_Subset, FS_CardinalityType
  <2>5. Cardinality(R) # 0
    BY <2>3, <2>4, FS_EmptySet
  <2>6. Cardinality(R) \in 1 .. Cardinality(S)
    BY <1>1, <2>4, <2>5
  <2> QED
    BY <2>2, <2>3, <2>4, <2>6 DEF R
<1>3. rank \in [S -> 1 .. Cardinality(S)]
  BY <1>2
<1>4. ASSUME NEW n \in S, NEW d \in edges[n]
      PROVE  rank[d] < rank[n]
  <2> DEFINE lower == Reach(edges, {d})
             upper == Reach(edges, {n})
  <2>1. d \in S /\ edges[n] \in SUBSET NodeId
    BY DEF ClosedUnder, Edges
  <2>2. upper \in SUBSET NodeId /\ ClosedUnder(edges, upper) /\ n \in upper
    BY <1>2, ReachClosed
  <2>3. lower \subseteq upper
    <3>1. {d} \subseteq upper
      BY <2>2 DEF ClosedUnder
    <3> HIDE DEF upper
    <3> QED
      BY <2>2, <3>1, ReachLeast
  <2>4. n \notin lower
    <3> DEFINE below == Reach(edges, edges[n])
    <3>1. below \in SUBSET NodeId /\ ClosedUnder(edges, below) /\ edges[n] \subseteq below
      BY <2>1, ReachClosed, ReachHoldsRoots
    <3>2. n \notin below
      BY DEF NoCycle
    <3> HIDE DEF below
    <3>3. lower \subseteq below
      BY <3>1, ReachLeast
    <3> QED
      BY <3>2, <3>3
  <2>5. IsFiniteSet(upper)
    BY <1>2
  <2> HIDE DEF lower, upper
  <2>6. /\ Cardinality(lower) <= Cardinality(upper)
        /\ Cardinality(upper) = Cardinality(lower) => upper = lower
    BY <2>3, <2>5, FS_Subset
  <2>7. Cardinality(lower) \in Nat /\ Cardinality(upper) \in Nat
    BY <2>3, <2>5, FS_Subset, FS_CardinalityType
  <2>8. Cardinality(lower) < Cardinality(upper)
    BY <2>2, <2>4, <2>6, <2>7
  <2> QED
    BY <2>1, <2>8 DEF lower, upper
<1> HIDE DEF rank
<1> QED
  BY <1>3, <1>4

\* When the edges id would have can be put in an order, none of their ends has
\* a path to id along the edges there are.
LEMMA OrderedHasNoPath ==
    ASSUME NEW edges \in Edges, NEW id \in NodeId, NEW deps \in SUBSET NodeId,
           Orderable([edges EXCEPT ![id] = deps]), NEW d \in deps
    PROVE  d # id /\ ~HasPath(d, id, edges)
<1>1. PICK rank \in [NodeId -> 1 .. Cardinality(NodeId)] :
         \A n \in NodeId : \A m \in [edges EXCEPT ![id] = deps][n] : rank[m] < rank[n]
  BY DEF Orderable
<1>2. \A n \in NodeId : rank[n] \in Int
  OBVIOUS
<1>3. rank[d] < rank[id]
  BY <1>1 DEF Edges
<1> DEFINE S == {n \in NodeId : rank[n] <= rank[d]}
<1>4. S \in SUBSET NodeId /\ d \in S /\ id \notin S
  BY <1>2, <1>3
<1>5. ASSUME NEW n \in S, NEW m \in edges[n] PROVE m \in S
  <2>1. n \in NodeId /\ n # id /\ rank[n] <= rank[d] /\ m \in NodeId
    BY <1>4 DEF Edges
  <2>2. rank[m] < rank[n]
    BY <1>1, <2>1 DEF Edges
  <2>3. rank[m] <= rank[d]
    BY <1>2, <2>1, <2>2
  <2> QED
    BY <2>1, <2>3
<1> HIDE DEF S
<1>6. ClosedUnder(edges, S)
  BY <1>5 DEF ClosedUnder
<1>7. Reach(edges, {d}) \subseteq S
  BY <1>4, <1>6, ReachLeast
<1> QED
  BY <1>4, <1>7 DEF HasPath

\* The checks of setNodeDependencies, taken together.
LEMMA ChecksExact ==
    ASSUME NEW g \in Graphs, WellFormed(g), NEW id \in Nodes(g), NEW deps \in Seq(NodeId)
    PROVE  DependenciesCode(g, id, deps, FALSE) = "OK" <=>
              /\ IsInjective(deps)
              /\ Range(deps) \subseteq Nodes(g)
              /\ Orderable([g.dependencies EXCEPT ![id] = Range(deps)])
<1> DEFINE edges == [g.dependencies EXCEPT ![id] = Range(deps)]
           bad == {i \in DOMAIN deps : DependencyCode(g, id, deps[i], FALSE) # "OK"}
<1>1. /\ id \in NodeId /\ g.dependencies \in Edges /\ Range(deps) \in SUBSET NodeId
      /\ edges \in Edges
  BY DEF Nodes, Graphs, Edges, Range
<1>2. ASSUME DependenciesCode(g, id, deps, FALSE) = "OK"
      PROVE  IsInjective(deps) /\ Range(deps) \subseteq Nodes(g) /\ Orderable(edges)
  <2>1. \A d \in Range(deps) : DependencyCode(g, id, d, FALSE) = "OK"
    <3>1. FALSE \in BOOLEAN
      OBVIOUS
    <3> QED
      BY <1>2, <3>1, AcceptedDependencies
  <2>2. Range(deps) \subseteq Nodes(g)
    BY <2>1 DEF DependencyCode
  <2>3. bad = {}
    BY <2>1 DEF Range
  <2>4. IsInjective(deps)
    BY <1>2, <2>3 DEF DependenciesCode
  <2>5. NoCycle(edges)
    <3> DEFINE linked == SetNodeDependencies(g, id, deps, FALSE)
    <3>1. WellFormed(linked.graph) /\ (linked.code = "OK" => linked.graph.dependencies = edges)
      BY <1>1, SetNodeDependenciesPreserves
    <3>2. linked.code = "OK"
      BY <1>2 DEF SetNodeDependencies
    <3> HIDE DEF linked, edges
    <3> QED
      BY <3>1, <3>2 DEF WellFormed, Acyclic, NoCycle
  <2>6. Orderable(edges)
    <3> HIDE DEF edges
    <3>1. ClosedUnder(edges, NodeId) /\ NodeId \in SUBSET NodeId
      BY <1>1 DEF ClosedUnder, Edges
    <3> QED
      BY <1>1, <2>5, <3>1, AcyclicIsOrderable DEF Orderable
  <2> QED
    BY <2>2, <2>4, <2>6
<1>3. ASSUME IsInjective(deps), Range(deps) \subseteq Nodes(g), Orderable(edges)
      PROVE  DependenciesCode(g, id, deps, FALSE) = "OK"
  <2>1. ASSUME NEW d \in Range(deps)
        PROVE  DependencyCode(g, id, d, FALSE) = "OK"
    <3>1. d # id /\ ~HasPath(d, id, g.dependencies)
      BY <1>1, <1>3, OrderedHasNoPath
    <3> QED
      BY <1>3, <3>1 DEF DependencyCode
  <2>2. bad = {}
    BY <2>1 DEF Range
  <2> QED
    BY <1>3, <2>2 DEF DependenciesCode
<1> QED
  BY <1>2, <1>3

\* Between calls, a list of dependencies is accepted exactly when its entries
\* are distinct existing nodes and the edges it asks for can be put in an order.
THEOREM DependencyChecksAreExact == Spec => []DependencyChecksExact
<1>1. ASSUME NEW deps \in DependencyLists \cup Range(Refs)
      PROVE  deps \in Seq(NodeId)
  BY CallerConstants, KernelConstants DEF Range
<1>2. IInv => DependencyChecksExact
  BY <1>1, ChecksExact DEF IInv, TypeOK, GraphWellFormed, DependencyChecksExact
<1> QED
  BY Invariance, <1>2, PTL

-----------------------------------------------------------------------------
(***************************************************************************)
(* The sheet.                                                              *)
(***************************************************************************)

\* What callers see of a node.
CellOf(g, f, v, n) ==
    [type |-> g.type[n], formula |-> f[n], inputs |-> g.dependencies[n],
     number |-> IF g.type[n] = "Value" THEN v[n] ELSE Zero]

LEMMA SheetCells ==
    /\ DOMAIN SheetOf = Nodes(graph)
    /\ \A n \in Nodes(graph) : SheetOf[n] = CellOf(graph, formula, value, n)
    /\ SheetOf = [n \in Nodes(graph) |-> CellOf(graph, formula, value, n)]
BY DEF SheetOf, CellOf

LEMMA NextSheetCells ==
    /\ DOMAIN SheetOf' = Nodes(graph')
    /\ \A n \in Nodes(graph') : SheetOf'[n] = CellOf(graph', formula', value', n)
    /\ SheetOf' = [n \in Nodes(graph') |-> CellOf(graph', formula', value', n)]
BY DEF SheetOf, CellOf

\* The sheet stays when its cells do; the caches are not part of it.
LEMMA SheetStays ==
    ASSUME Nodes(graph') = Nodes(graph),
           \A n \in Nodes(graph) :
              CellOf(graph', formula', value', n) = CellOf(graph, formula, value, n)
    PROVE  SheetOf' = SheetOf
BY SheetCells, NextSheetCells

\* The sheet with one cell more, or another cell in its place.
LEMMA SheetWith ==
    ASSUME NEW id \in NodeId, NEW cell, Nodes(graph') = Nodes(graph) \cup {id},
           CellOf(graph', formula', value', id) = cell,
           \A n \in Nodes(graph) : n # id =>
              CellOf(graph', formula', value', n) = CellOf(graph, formula, value, n)
    PROVE  SheetOf' = Abstract!With(SheetOf, id, cell)
<1> DEFINE s == SheetOf
           t == SheetOf'
<1>1. /\ DOMAIN s = Nodes(graph)
      /\ \A n \in Nodes(graph) : s[n] = CellOf(graph, formula, value, n)
  BY SheetCells
<1>2. t = [n \in Nodes(graph) \cup {id} |-> CellOf(graph', formula', value', n)]
  BY NextSheetCells
<1> HIDE DEF s, t
<1>3. \A n \in Nodes(graph) \cup {id} :
         CellOf(graph', formula', value', n) = IF n = id THEN cell ELSE s[n]
  BY <1>1
<1>4. t = [n \in Nodes(graph) \cup {id} |-> IF n = id THEN cell ELSE s[n]]
  BY <1>2, <1>3
<1>5. t = Abstract!With(s, id, cell)
  BY <1>1, <1>4 DEF Abstract!With
<1> QED
  BY <1>5 DEF s, t

\* Spreadsheet counts as the modules here do.
LEMMA SameCardinality == \A T : Abstract!Cardinality(T) = Cardinality(T)
BY Zenon DEF Abstract!Cardinality, Cardinality, Abstract!IsFiniteSet, IsFiniteSet

\* A well-formed graph is a sound sheet.
LEMMA SheetIsSound ==
    ASSUME IInv
    PROVE  Abstract!Sound(SheetOf)
<1> DEFINE S == Nodes(graph)
           edges == graph.dependencies
<1>1. edges \in Edges /\ NoCycle(edges) /\ S \in SUBSET NodeId /\ ClosedUnder(edges, S)
  BY DEF IInv, TypeOK, Graphs, Edges, GraphWellFormed, WellFormed, Acyclic, NoCycle,
         DependenciesExist, ClosedUnder, Nodes
<1>2. DOMAIN SheetOf = S /\ \A n \in S : SheetOf[n].inputs = edges[n]
  BY SheetCells DEF CellOf
<1> HIDE DEF S, edges
<1>3. \E rank \in [S -> 1 .. Cardinality(S)] :
         \A n \in S : \A d \in edges[n] : rank[d] < rank[n]
  BY <1>1, AcyclicIsOrderable
<1> QED
  BY <1>1, <1>2, <1>3, SameCardinality DEF Abstract!Sound, ClosedUnder

LEMMA NextSheetIsSound ==
    ASSUME IInv'
    PROVE  Abstract!Sound(SheetOf')
<1> DEFINE S == Nodes(graph')
           edges == graph'.dependencies
           s == SheetOf'
<1>1. edges \in Edges /\ NoCycle(edges) /\ S \in SUBSET NodeId /\ ClosedUnder(edges, S)
  BY DEF IInv, TypeOK, Graphs, Edges, GraphWellFormed, WellFormed, Acyclic, NoCycle,
         DependenciesExist, ClosedUnder, Nodes
<1>2. DOMAIN s = S /\ \A n \in S : s[n].inputs = edges[n]
  BY NextSheetCells DEF CellOf
<1> HIDE DEF S, edges, s
<1>3. \E rank \in [S -> 1 .. Cardinality(S)] :
         \A n \in S : \A d \in edges[n] : rank[d] < rank[n]
  BY <1>1, AcyclicIsOrderable
<1>4. Abstract!Sound(s)
  BY <1>1, <1>2, <1>3, SameCardinality DEF Abstract!Sound, ClosedUnder
<1> QED
  BY <1>4 DEF s

\* A clean node holds what it means: the clean nodes read only each other, and
\* their values fit their formulas.
LEMMA CleanNodeMeans ==
    ASSUME IInv, CInv, NEW id \in Nodes(graph), id \notin dirty
    PROVE  Abstract!Means(SheetOf, id, value[id])
<1> DEFINE s == SheetOf
           S == Nodes(graph) \ dirty
           number == [n \in S |-> value[n]]
<1>1. /\ DOMAIN s = Nodes(graph)
      /\ \A n \in Nodes(graph) : s[n] = CellOf(graph, formula, value, n)
  BY SheetCells
<1>2. /\ graph \in Graphs /\ WellFormed(graph) /\ value \in [NodeId -> NodeValue]
      /\ Nodes(graph) \in SUBSET NodeId
  BY DEF IInv, TypeOK, GraphWellFormed, Nodes
<1>3. S \in SUBSET DOMAIN s /\ id \in S
  BY <1>1
<1>4. ASSUME NEW n \in S
      PROVE  /\ s[n].type = graph.type[n] /\ s[n].formula = formula[n]
             /\ s[n].inputs = graph.dependencies[n]
             /\ graph.type[n] = "Value" => s[n].number = value[n]
  BY <1>1 DEF CellOf
<1>5. ASSUME NEW n \in S
      PROVE  graph.dependencies[n] \subseteq S
  <2>1. n \in NodeId /\ graph.dependencies[n] \in SUBSET NodeId
    BY <1>2 DEF Graphs
  <2>2. graph.dependencies[n] \subseteq Nodes(graph)
    BY <1>2, <2>1 DEF WellFormed, DependenciesExist
  <2>3. \A m \in graph.dependencies[n] : m \notin dirty
    BY <2>1 DEF CInv, Fresh, Propagated
  <2> QED
    BY <2>2, <2>3
<1>6. number \in [S -> NodeValue] /\ number[id] = value[id]
  BY <1>2, <1>3
<1>7. ASSUME NEW n \in S
      PROVE  number[n] = IF s[n].type = "Value" THEN s[n].number
                         ELSE Apply(s[n].formula, Abstract!Restrict(number, s[n].inputs))
  <2>1. CASE graph.type[n] = "Value"
    BY <1>4, <2>1
  <2>2. CASE graph.type[n] # "Value"
    <3> DEFINE args == [m \in graph.dependencies[n] |-> value[m]]
    <3>1. n \in Computed(graph) \ dirty
      BY <1>2, <2>2 DEF Computed, Nodes, Graphs, NodeType
    <3>2. value[n] = Apply(formula[n], args)
      BY <3>1 DEF CInv, Fresh, Cached
    <3>3. [m \in graph.dependencies[n] |-> number[m]] = args
      BY <1>5
    <3>4. Abstract!Restrict(number, s[n].inputs) = [m \in graph.dependencies[n] |-> number[m]]
      BY <1>4 DEF Abstract!Restrict
    <3>5. number[n] = value[n]
      OBVIOUS
    <3> HIDE DEF number, args, s
    <3> QED
      BY <1>4, <2>2, <3>2, <3>3, <3>4, <3>5
  <2> QED
    BY <2>1, <2>2
<1>8. \A n \in S : s[n].inputs \subseteq S
  BY <1>4, <1>5
<1> HIDE DEF number, s, S
<1>9. Abstract!Means(s, id, value[id])
  BY <1>3, <1>6, <1>7, <1>8 DEF Abstract!Means
<1> QED
  BY <1>9 DEF s

-----------------------------------------------------------------------------
(***************************************************************************)
(* The calls, as edits of the sheet.                                       *)
(***************************************************************************)

\* What the kernel remembers of the read or the sweep that is running.
Asks ==
    /\ call \in {"none", "evaluate"} => requested = NoNode
    /\ call = "getNodeValue" => requested \in Nodes(graph)
    /\ call = "evaluate" => reply = NoReply

\* A call that returns OK and leaves the sheet s.
LEMMA EditImplements ==
    ASSUME IInv', Asks, Return("OK"), NEW s, SheetOf' = s
    PROVE  Abstract!Edited(s)
<1>1. requested = NoNode /\ requested' = requested /\ reply' = Reply("OK")
  BY DEF Asks, Return, callVars
<1>2. Abstract!Sound(s)
  BY NextSheetIsSound
<1> QED
  BY <1>1, <1>2 DEF Abstract!Edited, Reply

\* A call that is refused.
LEMMA FailImplements ==
    ASSUME Asks, NEW result, result.graph = graph, Fail(result)
    PROVE  Abstract!Refuse
<1>1. /\ requested = NoNode /\ requested' = requested
      /\ reply' = Reply(result.code) /\ result.code # "OK"
      /\ UNCHANGED <<graph, formula, value>>
  BY DEF Asks, Fail, Return, callVars
<1>2. SheetOf' = SheetOf
  BY <1>1, SheetStays
<1>3. reply'.code # "OK"
  BY <1>1 DEF Reply
<1> QED
  BY <1>1, <1>2, <1>3 DEF Abstract!Refuse

LEMMA RejectImplements ==
    ASSUME Asks, NEW code, Reject(code)
    PROVE  Abstract!Refuse
<1> DEFINE result == [code |-> code, graph |-> graph]
<1>1. result.graph = graph /\ Fail(result)
  BY DEF Reject
<1> HIDE DEF result
<1> QED
  BY <1>1, FailImplements

\* One cell, new or not, as a call leaves it.
Cell(type, f, deps, number) ==
    [type |-> type, formula |-> f, inputs |-> deps, number |-> number]

Put(id, type, f, deps, v) ==
    /\ graph'.type = [graph.type EXCEPT ![id] = type]
    /\ graph'.dependencies = [graph.dependencies EXCEPT ![id] = deps]
    /\ formula' = [formula EXCEPT ![id] = f]
    /\ value' = [value EXCEPT ![id] = v]

LEMMA PutCell ==
    ASSUME IInv, NEW id \in NodeId, NEW type \in NodeType, NEW deps \in SUBSET NodeId,
           NEW f \in Formula \cup Operation \cup {NoFormula}, NEW v \in NodeValue,
           Put(id, type, f, deps, v),
           NEW number \in NodeValue, number = IF type = "Value" THEN v ELSE Zero
    PROVE  SheetOf' = Abstract!With(SheetOf, id, Cell(type, f, deps, number))
<1> DEFINE cell == Cell(type, f, deps, number)
<1>1. graph \in Graphs /\ formula \in Formulas /\ value \in [NodeId -> NodeValue]
  BY NodeTypes
<1>2. Nodes(graph') = Nodes(graph) \cup {id}
  BY <1>1 DEF Put, Nodes, Graphs, NodeType, Absent
<1>3. CellOf(graph', formula', value', id) = cell
  BY <1>1 DEF CellOf, Cell, Put, Graphs, Formulas
<1>4. ASSUME NEW n \in Nodes(graph), n # id
      PROVE  CellOf(graph', formula', value', n) = CellOf(graph, formula, value, n)
  <2>1. n \in NodeId
    BY DEF Nodes
  <2>2. /\ graph'.type[n] = graph.type[n] /\ graph'.dependencies[n] = graph.dependencies[n]
        /\ formula'[n] = formula[n] /\ value'[n] = value[n]
    BY <1>1, <1>4, <2>1 DEF Put, Graphs, Formulas
  <2> QED
    BY <2>2 DEF CellOf
<1> HIDE DEF cell
<1>5. SheetOf' = Abstract!With(SheetOf, id, cell)
  BY <1>2, <1>3, <1>4, SheetWith
<1> QED
  BY <1>5 DEF cell

LEMMA InstallImplements ==
    ASSUME IInv, IInv', Asks, NEW id \in NodeId, id \notin Nodes(graph),
           NEW f \in Formula \cup Operation, NEW added,
           NEW type \in {"Formula", "Collection"}, NEW deps \in SUBSET NodeId,
           Created(graph, added, id, type, deps), added.code = "OK",
           Return("OK"), InstallDependentNode(id, f, added.graph)
    PROVE  Abstract!Create(id, Cell(type, f, deps, Zero))
<1> DEFINE cell == Cell(type, f, deps, Zero)
<1>1. Put(id, type, f, deps, Zero)
  BY DEF Created, InstallDependentNode, Put
<1>2. type \in NodeType /\ Zero = (IF type = "Value" THEN Zero ELSE Zero) /\ Zero \in NodeValue
      /\ f \in Formula \cup Operation \cup {NoFormula}
  BY KernelConstants DEF NodeType
<1>3. SheetOf' = Abstract!With(SheetOf, id, cell)
  BY <1>1, <1>2, PutCell
<1> HIDE DEF cell
<1>4. Abstract!Edited(Abstract!With(SheetOf, id, cell))
  BY <1>3, EditImplements
<1>5. Abstract!Create(id, cell)
  BY <1>4, SheetCells DEF Abstract!Create
<1> QED
  BY <1>5 DEF cell

LEMMA CreateCollectionNodeImplements ==
    ASSUME IInv, IInv', Asks, NEW id \in NodeId, NEW deps \in DependencyLists,
           NEW op \in Operation \cup BadOperation, CreateCollectionNode(id, deps, op)
    PROVE  Abstract!Next
<1> DEFINE added == AddDependentNode(graph, id, "Collection", deps)
<1>1. CASE op \in BadOperation
  BY <1>1, RejectImplements DEF CreateCollectionNode, Abstract!Next
<1>2. CASE op \notin BadOperation
  <2>1. deps \in Seq(NodeId) /\ "Collection" \in NodeType
    BY CallerConstants DEF NodeType
  <2>2. Range(deps) \in SUBSET NodeId
    BY <2>1 DEF Range
  <2>3. Created(graph, added, id, "Collection", Range(deps))
    BY <2>1, AddDependentNodeCreates DEF IInv, TypeOK, GraphWellFormed
  <2>4. added.code = "OK" => id \notin Nodes(graph)
    BY <2>1, CreatedNameWasFree
  <2>5. \/ Fail(added)
        \/ added.code = "OK" /\ Return("OK") /\ InstallDependentNode(id, op, added.graph)
    BY <1>2 DEF CreateCollectionNode
  <2> HIDE DEF added
  <2>6. CASE Fail(added)
    <3>1. added.graph = graph
      BY <2>3, <2>6 DEF Created, Fail
    <3> QED
      BY <2>6, <3>1, FailImplements DEF Abstract!Next
  <2>7. CASE added.code = "OK" /\ Return("OK") /\ InstallDependentNode(id, op, added.graph)
    <3>1. op \in Operation
      BY <1>2
    <3>2. Abstract!Create(id, Abstract!CollectionCell(op, Range(deps)))
      BY <2>2, <2>3, <2>4, <2>7, <3>1, InstallImplements DEF Abstract!CollectionCell, Cell
    <3> QED
      BY <2>2, <3>1, <3>2 DEF Abstract!Next
  <2> QED
    BY <2>5, <2>6, <2>7
<1> QED
  BY <1>1, <1>2

LEMMA CreateFormulaNodeImplements ==
    ASSUME IInv, IInv', Asks, NEW id \in NodeId, NEW text \in Formula \cup IllFormed,
           CreateFormulaNode(id, text)
    PROVE  Abstract!Next
<1> DEFINE added == AddFormulaNode(graph, id, text)
<1>1. /\ Created(graph, added, id, "Formula", Range(Refs[text]))
      /\ added.code = "OK" => text \in Formula
  BY AddFormulaNodeCreates DEF IInv, TypeOK, GraphWellFormed
<1>2. added.code = "OK" => id \notin Nodes(graph)
  BY <1>1, CreatedNameWasFree
<1>3. \/ Fail(added)
      \/ added.code = "OK" /\ Return("OK") /\ InstallDependentNode(id, text, added.graph)
  BY DEF CreateFormulaNode
<1> HIDE DEF added
<1>4. CASE Fail(added)
  <2>1. added.graph = graph
    BY <1>1, <1>4 DEF Created, Fail
  <2> QED
    BY <1>4, <2>1, FailImplements DEF Abstract!Next
<1>5. CASE added.code = "OK" /\ Return("OK") /\ InstallDependentNode(id, text, added.graph)
  <2>1. text \in Formula /\ Refs[text] \in Seq(NodeId)
    BY <1>1, <1>5, KernelConstants
  <2>2. Range(Refs[text]) \in SUBSET NodeId
    BY <2>1 DEF Range
  <2>3. Abstract!Create(id, Cell("Formula", text, Range(Refs[text]), Zero))
    BY <1>1, <1>2, <1>5, <2>1, <2>2, InstallImplements
  <2>4. Abstract!Create(id, Abstract!FormulaCell(text))
    BY <2>3 DEF Abstract!FormulaCell, Abstract!Range, Range, Cell
  <2> QED
    BY <2>1, <2>4 DEF Abstract!Next
<1> QED
  BY <1>3, <1>4, <1>5

LEMMA CreateValueNodeImplements ==
    ASSUME IInv, IInv', Asks, NEW id \in NodeId, NEW v \in Inputs, CreateValueNode(id, v)
    PROVE  Abstract!Next
<1> DEFINE added == AddNode(graph, id, "Value")
<1>1. /\ added.code # "OK" => added.graph = graph
      /\ added.code = "OK" =>
            /\ id \notin Nodes(graph)
            /\ added.graph.type = [graph.type EXCEPT ![id] = "Value"]
            /\ added.graph.dependencies = graph.dependencies
  <2>1. "Value" \in NodeType
    BY DEF NodeType
  <2> QED
    BY <2>1, AddNodePreserves DEF IInv, TypeOK, GraphWellFormed
<1>2. CASE Fail(added)
  BY <1>1, <1>2, FailImplements DEF Fail, Abstract!Next
<1>3. CASE /\ added.code = "OK" /\ Return("OK")
           /\ graph' = added.graph
           /\ formula' = [formula EXCEPT ![id] = NoFormula]
           /\ value' = [value EXCEPT ![id] = v]
           /\ UNCHANGED <<dirty, dirtyLeaves>>
  <2> HIDE DEF added
  <2>1. graph \in Graphs /\ WellFormed(graph)
    BY DEF IInv, TypeOK, GraphWellFormed
  <2>2. graph.dependencies[id] = {}
    BY <1>1, <1>3, <2>1, AbsentHasNoEdges
  <2>3. graph'.dependencies = [graph.dependencies EXCEPT ![id] = {}]
    BY <1>1, <1>3, <2>1, <2>2 DEF Graphs
  <2>4. Put(id, "Value", NoFormula, {}, v) /\ id \notin Nodes(graph)
    BY <1>1, <1>3, <2>3 DEF Put
  <2>5. /\ "Value" \in NodeType /\ {} \in SUBSET NodeId /\ v \in NodeValue
        /\ NoFormula \in Formula \cup Operation \cup {NoFormula}
    BY CallerConstants DEF NodeType
  <2>6. SheetOf' = Abstract!With(SheetOf, id, Cell("Value", NoFormula, {}, v))
    <3> DEFINE type == "Value"
               deps == {}
    <3>1. /\ Put(id, type, NoFormula, deps, v) /\ type \in NodeType /\ deps \in SUBSET NodeId
          /\ v = IF type = "Value" THEN v ELSE Zero
      BY <2>4, <2>5
    <3> HIDE DEF type, deps
    <3>2. SheetOf' = Abstract!With(SheetOf, id, Cell(type, NoFormula, deps, v))
      BY <2>5, <3>1, PutCell
    <3> QED
      BY <3>2 DEF type, deps
  <2>7. Abstract!Edited(Abstract!With(SheetOf, id, Cell("Value", NoFormula, {}, v)))
    BY <1>3, <2>6, EditImplements
  <2>8. Abstract!Create(id, Abstract!ValueCell(v))
    BY <2>4, <2>7, SheetCells DEF Abstract!Create, Abstract!ValueCell, Cell
  <2> QED
    BY <2>5, <2>8 DEF Abstract!Next
<1> QED
  BY <1>2, <1>3 DEF CreateValueNode

LEMMA SetNodeValueImplements ==
    ASSUME IInv, IInv', Asks, NEW id \in NodeId, NEW v \in Inputs, SetNodeValue(id, v)
    PROVE  Abstract!Next
<1>1. CASE Reject("NODE_NOT_FOUND") \/ Reject("NODE_TYPE_MISMATCH")
  BY <1>1, RejectImplements DEF Abstract!Next
<1>2. ASSUME graph.type[id] = "Value", Return("OK"),
             \/ SameValue(value[id], v) /\ UNCHANGED <<nodeVars, dirtyLeaves>>
             \/ /\ ~SameValue(value[id], v)
                /\ value' = [value EXCEPT ![id] = v]
                /\ UNCHANGED <<graph, formula>>
      PROVE  Abstract!Next
  <2>1. v \in NodeValue
    BY CallerConstants
  <2>2. id \in Nodes(graph)
    BY <1>2 DEF Nodes, Absent
  <2>3. /\ SheetOf[id].type = "Value" /\ SheetOf[id].number = value[id]
        /\ id \in DOMAIN SheetOf
    BY <1>2, <2>2, SheetCells DEF CellOf
  <2>4. CASE SameValue(value[id], v) /\ UNCHANGED <<nodeVars, dirtyLeaves>>
    <3>1. SheetOf' = SheetOf
      BY <2>4, SheetStays DEF nodeVars
    <3>2. Abstract!Edited(SheetOf)
      BY <1>2, <3>1, EditImplements
    <3>3. Abstract!SetNumber(id, v)
      BY <2>3, <2>4, <3>2 DEF Abstract!SetNumber
    <3> QED
      BY <2>1, <3>3 DEF Abstract!Next
  <2>5. CASE /\ ~SameValue(value[id], v)
             /\ value' = [value EXCEPT ![id] = v]
             /\ UNCHANGED <<graph, formula>>
    <3> DEFINE deps == {}
    <3>1. graph \in Graphs /\ formula \in Formulas
      BY NodeTypes
    <3>2. formula[id] = NoFormula /\ graph.dependencies[id] = deps
      BY <1>2 DEF IInv, FormulaBindings
    <3>3. Put(id, graph.type[id], NoFormula, deps, v)
      BY <2>5, <3>1, <3>2 DEF Put, Graphs, Formulas
    <3>4. /\ graph.type[id] \in NodeType /\ deps \in SUBSET NodeId
          /\ NoFormula \in Formula \cup Operation \cup {NoFormula}
          /\ v = IF graph.type[id] = "Value" THEN v ELSE Zero
      BY <1>2 DEF NodeType
    <3> HIDE DEF deps
    <3>5. SheetOf' = Abstract!With(SheetOf, id, Cell(graph.type[id], NoFormula, deps, v))
      BY <2>1, <3>3, <3>4, PutCell
    <3>6. Cell(graph.type[id], NoFormula, deps, v) = Abstract!ValueCell(v)
      BY <1>2 DEF Cell, Abstract!ValueCell, deps
    <3>7. Abstract!Edited(Abstract!With(SheetOf, id, Abstract!ValueCell(v)))
      BY <1>2, <3>5, <3>6, EditImplements
    <3>8. Abstract!SetNumber(id, v)
      BY <2>3, <2>5, <3>7 DEF Abstract!SetNumber
    <3> QED
      BY <2>1, <3>8 DEF Abstract!Next
  <2> QED
    BY <1>2, <2>4, <2>5
<1> QED
  BY <1>1, <1>2 DEF SetNodeValue

LEMMA SetNodeFormulaImplements ==
    ASSUME IInv, IInv', Asks, NEW id \in NodeId, NEW text \in Formula \cup IllFormed,
           SetNodeFormula(id, text)
    PROVE  Abstract!Next
<1> DEFINE linked == SetNodeDependencies(graph, id, Refs[text], FALSE)
<1>1. CASE \E code \in ErrorCode : Reject(code)
  BY <1>1, RejectImplements DEF Abstract!Next
<1>2. CASE /\ graph.type[id] = "Formula" /\ text \in Formula
           /\ \/ Fail(linked)
              \/ /\ linked.code = "OK" /\ Return("OK")
                 /\ graph' = linked.graph
                 /\ formula' = [formula EXCEPT ![id] = text]
                 /\ UNCHANGED value
  <2>1. Refs[text] \in Seq(NodeId)
    BY <1>2, KernelConstants
  <2>2. /\ linked.graph.type = graph.type
        /\ linked.code # "OK" => linked.graph = graph
        /\ linked.code = "OK" => linked.graph.dependencies =
                                   [graph.dependencies EXCEPT ![id] = Range(Refs[text])]
    BY <2>1, LinkOutcome
  <2> HIDE DEF linked
  <2>3. CASE Fail(linked)
    BY <2>2, <2>3, FailImplements DEF Fail, Abstract!Next
  <2>4. CASE ~Fail(linked)
    <3> DEFINE deps == Range(Refs[text])
    <3>1. graph \in Graphs /\ value \in [NodeId -> NodeValue]
      BY NodeTypes
    <3>2. Put(id, graph.type[id], text, deps, value[id])
      BY <1>2, <2>2, <2>4, <3>1 DEF Put, Graphs
    <3>3. /\ graph.type[id] \in NodeType /\ deps \in SUBSET NodeId /\ value[id] \in NodeValue
          /\ text \in Formula \cup Operation \cup {NoFormula}
          /\ Zero \in NodeValue /\ Zero = IF graph.type[id] = "Value" THEN value[id] ELSE Zero
      BY <1>2, <2>1, <3>1, KernelConstants DEF NodeType, Range
    <3>4. Cell(graph.type[id], text, deps, Zero) = Abstract!FormulaCell(text)
      BY <1>2 DEF Cell, Abstract!FormulaCell, Abstract!Range, Range
    <3>5. id \in Nodes(graph)
      BY <1>2 DEF Nodes, Absent
    <3>6. SheetOf[id].type = "Formula" /\ id \in DOMAIN SheetOf
      BY <1>2, <3>5, SheetCells DEF CellOf
    <3> HIDE DEF deps
    <3>7. SheetOf' = Abstract!With(SheetOf, id, Cell(graph.type[id], text, deps, Zero))
      BY <3>2, <3>3, PutCell
    <3>8. Abstract!Edited(Abstract!With(SheetOf, id, Abstract!FormulaCell(text)))
      BY <1>2, <2>4, <3>4, <3>7, EditImplements
    <3>9. Abstract!SetFormula(id, text)
      BY <3>6, <3>8 DEF Abstract!SetFormula
    <3> QED
      BY <1>2, <3>9 DEF Abstract!Next
  <2> QED
    BY <2>3, <2>4
<1>3. {"NODE_NOT_FOUND", "NODE_TYPE_MISMATCH", "INVALID_DSL"} \subseteq ErrorCode
  BY DEF ErrorCode
<1> HIDE DEF linked
<1> QED
  BY <1>1, <1>2, <1>3 DEF SetNodeFormula, linked

LEMMA SetCollectionDependenciesImplements ==
    ASSUME IInv, IInv', Asks, NEW id \in NodeId, NEW list \in DependencyLists,
           SetCollectionDependencies(id, list)
    PROVE  Abstract!Next
<1> DEFINE linked == SetNodeDependencies(graph, id, list, FALSE)
<1>1. CASE \E code \in ErrorCode : Reject(code)
  BY <1>1, RejectImplements DEF Abstract!Next
<1>2. CASE /\ graph.type[id] = "Collection"
           /\ \/ Fail(linked)
              \/ /\ linked.code = "OK" /\ Return("OK")
                 /\ graph' = linked.graph
                 /\ UNCHANGED <<formula, value>>
  <2>1. list \in Seq(NodeId)
    BY CallerConstants
  <2>2. /\ linked.graph.type = graph.type
        /\ linked.code # "OK" => linked.graph = graph
        /\ linked.code = "OK" => linked.graph.dependencies =
                                   [graph.dependencies EXCEPT ![id] = Range(list)]
    BY <2>1, LinkOutcome
  <2> HIDE DEF linked
  <2>3. CASE Fail(linked)
    BY <2>2, <2>3, FailImplements DEF Fail, Abstract!Next
  <2>4. CASE ~Fail(linked)
    <3> DEFINE deps == Range(list)
    <3>1. graph \in Graphs /\ formula \in Formulas /\ value \in [NodeId -> NodeValue]
      BY NodeTypes
    <3>2. Put(id, graph.type[id], formula[id], deps, value[id])
      BY <1>2, <2>2, <2>4, <3>1 DEF Put, Graphs, Formulas
    <3>3. /\ graph.type[id] \in NodeType /\ deps \in SUBSET NodeId /\ value[id] \in NodeValue
          /\ formula[id] \in Formula \cup Operation \cup {NoFormula}
          /\ Zero \in NodeValue /\ Zero = IF graph.type[id] = "Value" THEN value[id] ELSE Zero
      BY <1>2, <2>1, <3>1, KernelConstants DEF NodeType, Range, Formulas
    <3>4. id \in Nodes(graph)
      BY <1>2 DEF Nodes, Absent
    <3>5. /\ SheetOf[id] = CellOf(graph, formula, value, id) /\ id \in DOMAIN SheetOf
      BY <3>4, SheetCells
    <3>6. /\ Cell(graph.type[id], formula[id], deps, Zero) = [SheetOf[id] EXCEPT !.inputs = deps]
          /\ SheetOf[id].type = "Collection"
      BY <1>2, <3>5 DEF Cell, CellOf
    <3> HIDE DEF deps
    <3>7. SheetOf' = Abstract!With(SheetOf, id, Cell(graph.type[id], formula[id], deps, Zero))
      BY <3>2, <3>3, PutCell
    <3>8. Abstract!Edited(Abstract!With(SheetOf, id, [SheetOf[id] EXCEPT !.inputs = deps]))
      BY <1>2, <2>4, <3>6, <3>7, EditImplements
    <3>9. Abstract!SetInputs(id, deps)
      BY <3>5, <3>6, <3>8 DEF Abstract!SetInputs
    <3> QED
      BY <3>3, <3>9 DEF Abstract!Next
  <2> QED
    BY <2>3, <2>4
<1>3. {"NODE_NOT_FOUND", "NODE_TYPE_MISMATCH"} \subseteq ErrorCode
  BY DEF ErrorCode
<1> HIDE DEF linked
<1> QED
  BY <1>1, <1>2, <1>3 DEF SetCollectionDependencies, linked

LEMMA DeleteNodeImplements ==
    ASSUME IInv, IInv', Asks, NEW id \in NodeId, DeleteNode(id)
    PROVE  Abstract!Next
<1> DEFINE removed == RemoveNode(graph, id)
<1>1. /\ graph \in Graphs /\ WellFormed(graph) /\ ValuesReadNothing(graph)
      /\ formula \in Formulas /\ value \in [NodeId -> NodeValue]
  BY NodeTypes
<1>2. /\ removed.code # "OK" => removed.graph = graph
      /\ removed.code = "OK" =>
            /\ removed.graph = WithoutNode(graph, id)
            /\ id \in Nodes(graph)
            /\ \A n \in graph.dependents[id] : graph.type[n] # "Formula"
  BY <1>1, RemoveNodePreserves
<1>3. CASE Fail(removed)
  BY <1>2, <1>3, FailImplements DEF Fail, Abstract!Next
<1>4. CASE /\ removed.code = "OK" /\ Return("OK")
           /\ graph' = removed.graph
           /\ formula' = [formula EXCEPT ![id] = NoFormula]
           /\ value' = [value EXCEPT ![id] = Zero]
  <2> HIDE DEF removed
  <2>1. /\ graph'.type = [graph.type EXCEPT ![id] = Absent]
        /\ \A n \in NodeId : graph'.dependencies[n] =
              IF n = id THEN {} ELSE graph.dependencies[n] \ {id}
    <3>1. graph' = WithoutNode(graph, id)
      BY <1>2, <1>4
    <3>2. LET h == WithoutNode(graph, id)
          IN  /\ h \in Graphs
              /\ h.type = [graph.type EXCEPT ![id] = Absent]
              /\ \A n \in NodeId :
                    /\ h.dependencies[n] = IF n = id THEN {} ELSE graph.dependencies[n] \ {id}
                    /\ h.dependents[n] = IF n = id THEN {} ELSE graph.dependents[n] \ {id}
      BY <1>1, WithoutNodeMaps, Zenon
    <3> QED
      BY <3>1, <3>2
  <2>2. Nodes(graph') = Nodes(graph) \ {id}
    BY <1>1, <2>1 DEF Nodes, Graphs
  <2> DEFINE s == SheetOf
             t == SheetOf'
  <2>3. ASSUME NEW n \in Nodes(graph) \ {id}
        PROVE  CellOf(graph', formula', value', n) = [s[n] EXCEPT !.inputs = @ \ {id}]
    <3>1. n \in NodeId /\ n # id
      BY DEF Nodes
    <3>2. /\ graph'.type[n] = graph.type[n]
          /\ graph'.dependencies[n] = graph.dependencies[n] \ {id}
          /\ formula'[n] = formula[n] /\ value'[n] = value[n]
      BY <1>1, <1>4, <2>1, <3>1 DEF Graphs, Formulas
    <3>3. s[n] = CellOf(graph, formula, value, n)
      BY SheetCells
    <3> HIDE DEF s
    <3> QED
      BY <3>2, <3>3 DEF CellOf
  <2>4. DOMAIN s = Nodes(graph)
    BY SheetCells
  <2>5. t = [n \in Nodes(graph') |-> CellOf(graph', formula', value', n)]
    BY NextSheetCells
  <2>6. ASSUME NEW m \in DOMAIN s, id \in s[m].inputs
        PROVE  s[m].type = "Collection"
    <3>1. m \in NodeId /\ id \in graph.dependencies[m] /\ s[m].type = graph.type[m]
          /\ graph.type[m] \in NodeType
      BY <1>1, <2>6, SheetCells DEF CellOf, Nodes, Graphs
    <3>2. m \in graph.dependents[id]
      BY <1>1, <3>1 DEF WellFormed, MirroredEdges
    <3> QED
      BY <1>1, <1>2, <1>4, <3>1, <3>2 DEF ValuesReadNothing, NodeType
  <2> HIDE DEF s, t
  <2>7. t = [n \in DOMAIN s \ {id} |-> [s[n] EXCEPT !.inputs = @ \ {id}]]
    BY <2>2, <2>3, <2>4, <2>5
  <2>8. SheetOf' = [n \in DOMAIN SheetOf \ {id} |-> [SheetOf[n] EXCEPT !.inputs = @ \ {id}]]
    BY <2>7 DEF s, t
  <2>9. Abstract!Edited([n \in DOMAIN SheetOf \ {id} |->
                            [SheetOf[n] EXCEPT !.inputs = @ \ {id}]])
    BY <1>4, <2>8, EditImplements
  <2>10. Abstract!Remove(id)
    BY <1>2, <1>4, <2>4, <2>6, <2>9 DEF Abstract!Remove, s
  <2> QED
    BY <2>10 DEF Abstract!Next
<1> QED
  BY <1>3, <1>4 DEF DeleteNode

LEMMA ResetImplements ==
    ASSUME IInv, IInv', Asks, Reset
    PROVE  Abstract!Next
<1>1. graph' = EmptyGraph /\ Return("OK")
  BY DEF Reset
<1>2. Nodes(graph') = {}
  BY <1>1 DEF EmptyGraph, Nodes, Absent
<1>3. SheetOf' = << >>
  BY <1>2, NextSheetCells
<1>4. Abstract!Edited(<< >>)
  BY <1>1, <1>3, EditImplements
<1> QED
  BY <1>4 DEF Abstract!Clear, Abstract!Next

\* A clean node answers from its cache, a missing one with an error; a dirty
\* one starts a walk.
LEMMA GetNodeValueImplements ==
    ASSUME IInv, CInv, Asks, NEW id \in NodeId, GetNodeValue(id)
    PROVE  Abstract!Next
<1>1. call = "none" /\ requested = NoNode /\ UNCHANGED <<graph, formula, value, dirty>>
  BY DEF GetNodeValue, Asks, nodeVars
<1>2. SheetOf' = SheetOf
  BY <1>1, SheetStays
<1>3. CASE id \in dirty
  <2>1. requested' = id /\ reply' = NoReply
    BY <1>3 DEF GetNodeValue
  <2> QED
    BY <1>1, <1>2, <2>1 DEF Abstract!Next, Abstract!Ask, Abstract!Running, NoReply, Reply
<1>4. CASE id \notin dirty /\ id \in Nodes(graph)
  <2>1. reply' = Returned(value[id]) /\ requested' = requested
    BY <1>4 DEF GetNodeValue
  <2>2. reply'.code = "OK" /\ reply'.value = value[id]
    BY <2>1 DEF Returned
  <2>3. Abstract!Means(SheetOf, id, value[id]) /\ id \in DOMAIN SheetOf
    BY <1>4, CleanNodeMeans, SheetCells
  <2> QED
    BY <1>1, <1>2, <2>1, <2>2, <2>3 DEF Abstract!Next, Abstract!Read, Abstract!Answer
<1>5. CASE id \notin dirty /\ id \notin Nodes(graph)
  <2>1. reply' = Reply("NODE_NOT_FOUND") /\ requested' = requested
    BY <1>5 DEF GetNodeValue
  <2>2. reply'.code # "OK"
    BY <2>1 DEF Reply
  <2> QED
    BY <1>1, <1>2, <2>1, <2>2 DEF Abstract!Next, Abstract!Refuse
<1> QED
  BY <1>3, <1>4, <1>5

LEMMA EvaluateImplements ==
    ASSUME Asks, Evaluate
    PROVE  Abstract!Next
<1>1. /\ requested = NoNode /\ requested' = requested /\ reply' = NoReply
      /\ UNCHANGED <<graph, formula, value>>
  BY DEF Evaluate, Asks, nodeVars
<1>2. SheetOf' = SheetOf
  BY <1>1, SheetStays
<1> QED
  BY <1>1, <1>2 DEF Abstract!Next, Abstract!BeginRecompute, Abstract!Running, NoReply, Reply

LEMMA CallImplements ==
    ASSUME IInv, CInv, Asks, Call
    PROVE  Abstract!Next \/ UNCHANGED Abstract!vars
<1>1. IInv'
  BY CallPreserves
<1>2. CASE \E id \in NodeId :
             \/ \E deps \in DependencyLists, op \in Operation \cup BadOperation :
                   CreateCollectionNode(id, deps, op)
             \/ \E text \in Formula \cup IllFormed : CreateFormulaNode(id, text)
             \/ \E v \in Inputs : CreateValueNode(id, v)
             \/ DeleteNode(id)
  BY <1>1, <1>2, CreateCollectionNodeImplements, CreateFormulaNodeImplements,
     CreateValueNodeImplements, DeleteNodeImplements
<1>3. CASE \E id \in NodeId :
             \/ \E v \in Inputs : SetNodeValue(id, v)
             \/ \E text \in Formula \cup IllFormed : SetNodeFormula(id, text)
             \/ \E deps \in DependencyLists : SetCollectionDependencies(id, deps)
             \/ GetNodeValue(id)
  BY <1>1, <1>3, SetNodeValueImplements, SetNodeFormulaImplements,
     SetCollectionDependenciesImplements, GetNodeValueImplements
<1>4. CASE Evaluate \/ Reset
  BY <1>1, <1>4, EvaluateImplements, ResetImplements
<1>5. CASE \E type \in EvaluationTypes : SetEvaluationType(type)
  <2>1. UNCHANGED <<graph, formula, value, requested, reply>>
    BY <1>5 DEF SetEvaluationType, nodeVars, callVars
  <2>2. SheetOf' = SheetOf
    BY <2>1, SheetStays
  <2> QED
    BY <2>1, <2>2 DEF Abstract!vars
<1> QED
  BY <1>2, <1>3, <1>4, <1>5 DEF Call

-----------------------------------------------------------------------------
(***************************************************************************)
(* The steps of a running call.                                            *)
(***************************************************************************)

\* A walk writes the caches of dirty nodes, and numbers are never dirty.
LEMMA ComputingKeepsSheet ==
    ASSUME IInv, NEW n \in NodeId, n \in dirty, ComputeValue(n), UNCHANGED <<graph, formula>>
    PROVE  SheetOf' = SheetOf
<1>1. graph.type[n] # "Value"
  BY DEF IInv, FormulaBindings
<1>2. \A m \in NodeId : m # n => value'[m] = value[m]
  BY DEF ComputeValue, IInv, TypeOK
<1>3. \A m \in Nodes(graph) :
         CellOf(graph', formula', value', m) = CellOf(graph, formula, value, m)
  BY <1>1, <1>2 DEF CellOf, Nodes
<1> QED
  BY <1>3, SheetStays

LEMMA ExecutorStepImplements ==
    ASSUME IInv, CInv, Asks, ExecutorStep
    PROVE  Abstract!Next \/ UNCHANGED Abstract!vars
<1>1. CASE \/ PopVisited \/ VisitClean \/ VisitDirty
           \/ \E d \in NodeId : CallDependency(d)
           \/ EvaluateLeaf
           \/ Abort
  <2>1. UNCHANGED <<graph, formula, value, requested, reply>>
    BY <1>1 DEF PopVisited, VisitClean, VisitDirty, CallDependency, EvaluateLeaf, Abort,
                nodeVars, callVars
  <2>2. SheetOf' = SheetOf
    BY <2>1, SheetStays
  <2> QED
    BY <2>1, <2>2 DEF Abstract!vars
<1>2. CASE ComputeVisiting
  <2>1. /\ stack # << >> /\ visitState[Last(stack)] = "Visiting" /\ ComputeValue(Last(stack))
        /\ UNCHANGED <<graph, formula, requested, reply>>
    BY <1>2 DEF ComputeVisiting, callVars
  <2>2. Last(stack) \in NodeId
    BY <2>1, FrontType DEF IInv, TypeOK
  <2>3. Last(stack) \in dirty
    BY <2>1, <2>2 DEF CInv, WalksSound, StackSound
  <2>4. SheetOf' = SheetOf
    BY <2>1, <2>2, <2>3, ComputingKeepsSheet
  <2> QED
    BY <2>1, <2>4 DEF Abstract!vars
<1>3. CASE ComputeReturning
  <2>1. /\ frames # << >> /\ ComputeValue(Last(frames).node)
        /\ UNCHANGED <<graph, formula, requested, reply>>
    BY <1>3 DEF ComputeReturning, callVars
  <2>2. frames \in Seq(Frame)
    BY DEF IInv, TypeOK
  <2>3. Last(frames) = frames[Len(frames)] /\ Len(frames) \in 1 .. Len(frames)
    BY <2>1, <2>2 DEF Last
  <2>4. Last(frames).node \in NodeId
    <3>1. Last(frames) \in Frame
      BY <2>2, <2>3
    <3> QED
      BY <3>1 DEF Frame
  <2>5. Last(frames).node \in dirty
    BY <2>3 DEF CInv, WalksSound, FramesSound
  <2>6. SheetOf' = SheetOf
    BY <2>1, <2>4, <2>5, ComputingKeepsSheet
  <2> QED
    BY <2>1, <2>6 DEF Abstract!vars
<1>4. CASE ReturnNodeValue
  <2>1. /\ call = "getNodeValue" /\ WalkDone /\ requested' = NoNode
        /\ reply' = Returned(value[requested]) /\ UNCHANGED <<graph, formula, value>>
    BY <1>4 DEF ReturnNodeValue, nodeVars
  <2>2. requested \in Nodes(graph) /\ requested # NoNode
    BY <2>1, KernelConstants DEF Asks, Nodes
  <2>3. requested \notin dirty
    BY <2>1 DEF CInv, WalksSound, RootsClean, Root
  <2>4. Abstract!Means(SheetOf, requested, value[requested]) /\ requested \in DOMAIN SheetOf
    BY <2>2, <2>3, CleanNodeMeans, SheetCells
  <2>5. reply'.code = "OK" /\ reply'.value = value[requested]
    BY <2>1 DEF Returned
  <2>6. SheetOf' = SheetOf
    BY <2>1, SheetStays
  <2> QED
    BY <2>1, <2>2, <2>4, <2>5, <2>6 DEF Abstract!Next, Abstract!AnswerAsked, Abstract!Answer
<1>5. CASE ReturnEvaluate
  <2>1. /\ requested = NoNode /\ requested' = requested /\ reply = NoReply /\ reply' = Reply("OK")
        /\ UNCHANGED <<graph, formula, value>>
    BY <1>5 DEF ReturnEvaluate, Asks, nodeVars
  <2>2. SheetOf' = SheetOf
    BY <2>1, SheetStays
  <2> QED
    BY <2>1, <2>2 DEF Abstract!Next, Abstract!EndRecompute, Abstract!Running, NoReply, Reply
<1> QED
  BY <1>1, <1>2, <1>3, <1>4, <1>5 DEF ExecutorStep, ComputeAborts, EvaluateLeafAborts

LEMMA AsksPreserved ==
    ASSUME IInv, Asks, [Next]_vars
    PROVE  Asks'
<1>1. CASE Call /\ \A id \in NodeId : ~GetNodeValue(id)
  BY <1>1, CallsReturn DEF Asks
<1>2. CASE \E id \in NodeId : GetNodeValue(id)
  <2>1. PICK id \in NodeId : GetNodeValue(id)
    BY <1>2
  <2>2. CASE id \in dirty
    <3>1. id \in Nodes(graph)
      BY <2>2 DEF IInv, FormulaBindings, Nodes
    <3> QED
      BY <2>1, <2>2, <3>1 DEF GetNodeValue, nodeVars, Asks
  <2>3. CASE id \notin dirty
    BY <2>1, <2>3 DEF GetNodeValue, nodeVars, Asks
  <2> QED
    BY <2>2, <2>3
<1>3. CASE ReturnNodeValue \/ ReturnEvaluate \/ Abort
  BY <1>3 DEF ReturnNodeValue, ReturnEvaluate, Abort, Asks
<1>4. CASE \/ PopVisited \/ VisitClean \/ VisitDirty \/ ComputeVisiting
           \/ \E d \in NodeId : CallDependency(d)
           \/ ComputeReturning \/ EvaluateLeaf \/ UNCHANGED vars
  <2>1. UNCHANGED <<graph, call, requested, reply>>
    BY <1>4 DEF PopVisited, VisitClean, VisitDirty, ComputeVisiting, CallDependency,
                ComputeReturning, EvaluateLeaf, nodeVars, callVars, vars
  <2> QED
    BY <2>1 DEF Asks
<1> QED
  BY <1>1, <1>2, <1>3, <1>4
  DEF Next, ExecutorStep, ComputeAborts, EvaluateLeafAborts, Aborted

LEMMA InitImplements == Init => Abstract!Init /\ Asks
<1> SUFFICES ASSUME Init PROVE Abstract!Init /\ Asks
  OBVIOUS
<1>1. graph = EmptyGraph /\ call = "none" /\ requested = NoNode /\ reply = Reply("OK")
  BY DEF Init, ExecutorInit
<1>2. Nodes(graph) = {}
  BY <1>1 DEF EmptyGraph, Nodes, Absent
<1>3. SheetOf = << >>
  BY <1>2, SheetCells
<1> QED
  BY <1>1, <1>3 DEF Abstract!Init, Reply, Asks

\* The kernel implements the sheet: every call is an edit of it, a refusal or a
\* read, every read answers what the cell means in the sheet as it is when it
\* answers, and what the walks do in between cannot be seen.
THEOREM ImplementsSheet == Spec => ImplementsSpreadsheet
<1>1. Init => Abstract!Init /\ Asks
  BY InitImplements
<1>2. IInv /\ Asks /\ [Next]_vars => Asks'
  BY AsksPreserved
<1>3. ASSUME IInv, CInv, Asks, [Next]_vars
      PROVE  [Abstract!Next]_(Abstract!vars)
  <2>1. CASE UNCHANGED vars
    <3>1. UNCHANGED <<graph, formula, value, requested, reply>>
      BY <2>1 DEF vars, nodeVars, callVars
    <3>2. SheetOf' = SheetOf
      BY <3>1, SheetStays
    <3> QED
      BY <3>1, <3>2 DEF Abstract!vars
  <2> QED
    BY <1>3, <2>1, CallImplements, ExecutorStepImplements DEF Next, Aborted
<1> QED
  BY CacheInvariance, <1>1, <1>2, <1>3, PTL DEF Spec, ImplementsSpreadsheet, Abstract!Spec
=============================================================================
