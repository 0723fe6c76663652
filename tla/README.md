# StatForge in TLA+

TLA+ specifications of [StatForge](../src/README.md), a single-threaded,
spreadsheet-like computation engine in C++: named value, formula and collection
nodes, cached results, dirty flags, and lazy recomputation when a node is read
or `evaluate()` is called. Source paths below are relative to the repository
(`src/stat_kernel/executor.cpp`); in `PROJECT.json` they have the mount prefix
`src/` in front.

## 1. Inventory

| Component | Source | State it keeps | Operations |
|---|---|---|---|
| Dependency graph | `src/stat_kernel/graph.cpp`, `node.hpp` | `_nodes`, `_dependenciesMap` (what a node reads), `_dependentsMap` (who reads it), the last two redundant and kept in step by hand | `addNode`, `setNodeDependencies` (existence, self, cycle, duplicate checks), `removeNode`, `clear`, lookups |
| Executor | `src/stat_kernel/executor.cpp` | `Node::dirty`, `Node::value`, `_dirtyLeaves`, the selected walk, the locals of the walks | `markDirty`, `markAsDirtyLeaf`, `remove`, `getNodeValue`, `evaluate()`, `evaluateIterative`, `evaluateRecursive` |
| Kernel interface and compiler | `stat_kernel.cpp`, `compiler.cpp` | `Node::formula` (compiled closures) | create value / formula / collection, remove, set value / formula / dependencies, get, evaluate, reset, set evaluation type; roll-back of failed creations; the collection operations |
| Engine runtime | `src/runtime/engine.cpp` | owns one kernel | `parseDependencies` (text to names), error hand-over |
| C and C++ interfaces | `src/api/c.cpp`, `cpp.cpp` | none | argument checks, delegation |
| Error channel | `src/error/error.c`, `error.h` | one message buffer for the whole process, one static copy that callers get a pointer to | `sf_set_error`, `sf_last_error` |
| DSL front end | `src/dsl/tokenizer.cpp`, `parser.cpp`, `ast.hpp` | a position in the text, the tokens so far, a position in the tokens | tokens, precedence climbing, constant folding |
| DSL evaluator | `src/dsl/evaluator.cpp` | none (pure) | `evaluate` (arithmetic, logic, conditionals, calls), `extractDependencies` |
| AST dump | `src/dsl/ast.cpp` | none (pure) | `dumpSExpr`, by which the parser's tests compare trees |
| Graph export, rule engine | `src/debug/puml.cpp`, `src/state/rule_engine.cpp` | none | output; stubs |

**Interactions.** The C interface checks handles and strings and calls the
engine; the engine turns dependency texts into vectors and calls the kernel;
the kernel asks the compiler to change the graph and to install a closure, and
then has the executor mark what the change affects. For a formula the compiler
tokenizes, parses and folds the text, links the node to the names that are left
in the tree, and keeps the tree in the closure. Closures hold a reference to
the graph and look nodes up *by name at evaluation time*, with an assertion as
the only check. Errors travel up as values and leave a message in the buffer.

**Hard behaviours.** Nothing runs concurrently, so the difficulty is in
long sequences of legal calls: redundant state (two adjacency maps, closures
versus edges, flags versus the list of dirty leaves) that every operation must
keep consistent, also when it fails half-way; a marking walk that is allowed to
stop early only because of an invariant nobody checks; two hand-written
depth-first walks over shared dependencies; a cache that answers without a
check; and one error buffer shared by all engines. In the formula language the
same facts are written down twice: the left and the right binding powers, the
arithmetic of the folding and of the evaluator, the names a tree reads as the
extraction finds them and as the evaluator looks them up. The full list, with its
lines, is under `hazards` in `PROJECT.json`.

**What makes each component correct.**

- Graph: the two maps are inverses, name only existing nodes, and have no
  cycle; a check refuses exactly what it must.
- Executor: everything downstream of a dirty node is dirty; a clean node holds
  what its formula gives on its operands now; a walk computes only dirty nodes,
  only what was asked for, once, inputs first; it ends.
- Kernel: what a closure looks up is what the graph records; a call that fails
  changes nothing; only nodes downstream of the edited one are marked; together
  they implement a spreadsheet without caches.
- Engine runtime: exactly the names in the text.
- C interface and error channel: an error is told once, a failed read writes
  nothing, an edit touches one engine.
- DSL: every token is the longest the text allows; the tree of an accepted text
  says the whole text, with the precedences and associativity of a grammar, and no
  formula is refused; folding agrees with evaluation and refuses exactly the
  divisions of constants by zero; what is evaluated
  reads no name that was not extracted; a dump shows the whole tree but for digits
  it rounds away.

## 2. Modules

| Module | Models | Kind |
|---|---|---|
| `DependencyGraph` | `graph.cpp` | operators on a graph value; an operation that can fail returns `[code, graph]` |
| `Marking` | `markDirty` | the nodes it marks, as an operator on a graph and a set of dirty nodes; the settled graphs |
| `Executor` | `executor.cpp` | EXTENDS `Marking`; variables and the actions a running call takes |
| `StatKernel` | `stat_kernel.cpp`, `compiler.cpp` | EXTENDS `Executor`; the calls, `Spec`, the properties |
| `WorkLists` | `markDirty`, `hasPath` | EXTENDS `Marking`; the two loops over their stacks, one iteration an action, from any settled graph |
| `Spreadsheet` | what the kernel promises | abstract specification: no caches, flags, leaves or walks |
| `CollectionFormulas` | `compileCollectionFormula` | the loops over the vector of dependencies, one iteration an action; between evaluations the vector grows, shrinks and changes its order |
| `DependencyText` | `parseDependencies` | one action per character |
| `CApi` | `c.cpp`, `engine.cpp`'s error hand-over, `error.c` | several engines behind one error buffer |
| `SmallDouble` | the `double`s of formulas | a number format with halves, infinities and NaN |
| `Tokenizer` | `tokenizer.cpp` | variables and one action per iteration of `tokenize()` |
| `Parser` | `parser.cpp`, `ast.hpp` | EXTENDS `Tokenizer`; the tree, the stack of calls, one action per call, return or iteration of `parsePrimary` and `parseExpression`; the folding, one node a step |
| `Evaluator` | `evaluator.cpp` | EXTENDS `Parser`; functions on the nodes of a tree |
| `FormulaCompiler` | `compileAst` | EXTENDS `Evaluator`; `Spec`, the grammar, the properties of the language |
| `AstDump` | `ast.cpp` | EXTENDS `FormulaCompiler`; `dumpSExpr`, with literals rounded as a stream prints them, and how a dump is read back |
| `MCStatKernel`, `MCWorkLists`, `MCCollectionFormulas`, `MCFormulaCompiler` | values of the constants for TLC | |
| `DependencyGraphProofs`, `StatKernelProofs`, `ExecutorProofs`, `SheetProofs` | theorems about `DependencyGraph`, `StatKernel`, its walks and caches, and its refinement of `Spreadsheet`, each module on top of the one before | checked by TLAPS |
| `WorkListsProofs` | theorems about `WorkLists`, on top of `DependencyGraphProofs` | checked by TLAPS |
| `CollectionProofs`, `EngineProofs`, `FormulaProofs` | theorems about `CollectionFormulas`, about `CApi` and `DependencyText`, and about `FormulaCompiler` | checked by TLAPS |

The kernel and the formula language meet in one place: the kernel model takes
from the language which texts parse and which names they read, and treats what
they compute as opaque. `DependenciesSuffice` of `FormulaCompiler` is what makes
that split sound: a formula computes from the names the kernel linked it to, and
from nothing else.

### State and actions against the code

`graph` is the three maps of `Graph`. A missing entry and an empty vector answer
every query alike, so both are the empty set, and the order inside a vector is
dropped: where an iteration order could show (which dependency a walk visits
first, the order new leaves are listed in) the action allows *every* order, by
`Orders` or `\E d`. What order does to the *results* of collection operations is
`CollectionFormulas`' question.

`formula[n]` stands for the closure in `Node::formula`: the text, or the
collection operation, it was compiled from. A text is a model value with the
names it reads (`Refs`, sorted and without duplicates, as `extractDependencies`
returns them); texts that the tokenizer or the parser rejects are `IllFormed`;
texts that parse but that `evaluate` cannot evaluate (an unknown function, a
wrong number of arguments) are `Undefined`. `Apply(f, args)` is what a formula
computes.

A mutating call is one atomic action with everything it calls in it: the
roll-back of a failed creation, the marking, the erasing of one leaf entry. A
read or a sweep begins in one action (`GetNodeValue`, `Evaluate`) and goes on in
`ExecutorStep`s: one iteration of the loop in `evaluateIterative` (`PopVisited`,
`VisitClean`, `VisitDirty`, `ComputeVisiting`), one call or return of
`evaluateRecursive` (`CallDependency`, `ComputeReturning`), one iteration of the
sweep (`EvaluateLeaf`), and the return. The intermediate states of a walk are
therefore states of the model, and the invariants are checked in each of them.
The action `Abort` is a failed assertion or `unreachable()`, both of which the
build always has on.

The marking walk, and the search for a path in the cycle check, are modelled
by what they reach (`Reach`, the least set closed under the edges), not by their
work lists. `WorkLists` has the lists. Between calls a graph is *settled*: well
formed, and whoever reads a dirty node is dirty; `KernelStaysSettled` of section 4
says that the kernel's always is. The kernel calls markDirty in three places, and
`WorkLists` has an action for each, which changes a settled graph as the kernel
does before the loop begins: `Change` (a number), `Relink` (a formula or a vector:
the node may then read a dirty one and be clean itself, so the graph is settled
again only when the loop is done) and `Delete` (the node is gone, the loop runs
for those that read it). What the loops are shown to do is what `Marked` and
`HasPath` say, also when the static variables of `hasPath` hold what an earlier
search left.

A loop of `CollectionFormulas` is `Begin...`, one `Accumulate` per operand, and
`Return`. An answer is a fraction. The copy that MEDIAN sorts is a permutation
of the places (`Sortings`): one that sorts them when all operands are numbers, and
any at all when one is NaN, where the code's call of `std::ranges::sort` is
undefined. The sums are exact; see section 7 on rounding.

In the language modules a text is a sequence of characters, where one member of
`Letter` may stand for a word whose letters are only ever read together. A step
of `Tokenizer` is one iteration of the loop. A number is a count
of halves up to `Largest`; rounding, overflow, division by zero and the square
root of a negative number give what IEEE 754 gives in so small a format. A digit
string the format cannot hold leaves 0, as `std::from_chars` leaves its argument.

The recursion of the parser is a stack, `calls`. An entry is an activation of
`parsePrimary` or `parseExpression` that waits for an operand: its `role` says which
operand of what (`"right"` of a binary operator, `"then"` of a conditional, ...), its
`token` where the operator stands, its `operands` what it has in its local
variables. `lhs` is the local variable of the running `parseExpression`, and `None`
while `parsePrimary` runs for it. What the running one was called with,
`MinBindingPower`, follows from who waits for it. A tree is the vector `nodes` of
its nodes in the order `make_unique` makes them, each with the place of its token
and the numbers of its operands, which are smaller. So the recursive functions of
the code that visit the operands before the node (`foldConstants`, `evaluate`) are
functions on the numbers of the nodes, and `foldConstants` goes through `nodes` from
the first to the last, which is the order of its recursion: what it leaves in the
place of a node (a literal, the node, or what was left of a branch) is appended to
`folded`. `unreachable()` in the evaluator is the value `Unreachable`, which every
node that evaluates it hands on.

The grammar of `FormulaCompiler` does not mention binding powers, positions or
stacks. A `Phrase` is a stretch of tokens with the strengths that decide what may
stand beside it; `Phrases[k]` are the stretches that say node k, by one rule for each
kind of node. `Readings` is the same grammar without precedences, over the tokens
alone: which stretches are a formula at all.

Definitions whose names end in `_<Something>` and are commented "Wrong variant"
are slips that would be easy to make in the code. No specification uses them;
each shows that a property would notice the slip.

## 3. Runs

Every bound is a constant: the names and the types callers create them with
(`NodeId`, `Naming`), the texts (`Formula`, `Refs`), the vectors callers pass
(`DependencyLists`), the numbers they write (`Inputs`), the walks they select
(`EvaluationTypes`), the longest list of leaves (`MaxListed`), `MaxOperands`
and `MaxLength` of the two small modules, `Typings` and `MaxLeft` of `WorkLists`, and `Texts`, `Held` and `Largest` of
the language. In the kernel runs numbers are 0..2 and
every formula is a sum modulo 3, a formula adding one, so that a value computed
from an input that has changed since is a different number. In `KernelThree`
-0.0 (`MinusZero`) equals 0 and counts as one in sums: any formula that, like
`1/<v>`, tells the two zeros apart would do. In `KernelFour` NaN equals nothing.

| Run | Instance | What it shows |
|---|---|---|
| `KernelThree` | three names, one of each type; texts that read one node, two, the node itself (self-reference when set on `f`, an absent name otherwise), and each other's node (a cycle through `c`); vectors with duplicates; ill-formed texts, a bad operation; the numbers 0, 1 and -0.0, which is not stored over 0; both walks; up to three listed leaves | Type correctness, the graph, the exactness of the dependency checks against an independent definition (`Orderable`), bindings, dirty propagation, cache correctness in every state of every walk, the bounds of the two stacks, roll-back, exact marking, exact computing, what a sweep leaves, that every step of a walk leaves less to do, and that every read and sweep ends |
| `KernelFour` | four names `v f g c`, texts that let `f`, `g` and `c` form chains and diamonds, one that cannot be evaluated; the numbers 1 and NaN, which equals nothing; the iterative walk and one listed leaf only | a walk meets shared dependencies and pushes a node twice, and ends all the same; the kernel implements `Spreadsheet` (step simulation, under the mapping `SheetOf`), also up to the point where an evaluation ends the process |
| `WorkLists` | every settled graph over a value, two formulas and a collection, and over the first three with the fourth name free; changes, new dependencies, removals and searches one after another, in every order of the vectors; a marking begins while an earlier search has left at most one name visited (`MaxLeft`), which markDirty does not read | the two loops end, do what the kernel model takes as done, and look up no node that is gone |
| `CollectionFormulas` | every vector of up to four of -3, -1, 0, 2, NaN, edited and put in every order between evaluations | median, average, extremes, independence of order, and where NaN shows |
| `DependencyText` | every text of up to six characters over two characters of names and a separator | the names and nothing but the names |
| `CApi` | two engines, two sheets, null handles and strings | errors are told once, failed reads give nothing, edits stay in one engine |
| `Formulas` | every text of up to two characters, and of up to four of those that meet in numbers, references and comparisons; sequences of up to four tokens; every operator beside every other, with signs between them and with parentheses around each; conditionals with operators before, inside and behind them; three of a few operators; constants that overflow, vanish, are NaN or divide by zero; calls; literals that print alike | the language from text to evaluation: tokens, the tree against the grammar, what is refused, folding against evaluating, extracted names, dumps |
| `StaleLeaf`, `UndefinedFormula`, `ErrorPointer`, `InvalidState`, `FormulaPrecedence` | as above | five statements of the repository that the code does not keep: section 5 |

*Why the bounds are enough.* The invariants relate a node to its neighbours, or
a node to what a path leads to. With three names there are a chain of three
(value, formula, collection), a node with two readers, and a node with two
inputs; the cycles there can be have length one (refused as self-reference) and
two. Four names add the diamond, which is the case the iterative walk's
`Visited` pops and the duplicate pushes exist for. Three list entries are enough
for a node to be listed twice and a third leaf to lie behind it. Capping
`_dirtyLeaves` disables the mutations that would make it longer, so growth of
that list is not examined. The theorems of section 4 have no such bounds.

In the language, a mistake in a binding power shows where two operators meet,
so all pairs are there, and where one operator stands between two others, so
there are threes. `Largest` of eight halves is enough for a sum, a quotient and a power
of the literals to overflow, to vanish and to be NaN. A token takes at most two
characters of look-ahead, so every text of four of the characters that can be
looked ahead at has every case. In the properties that evaluate, a name holds 0,
1 or NaN (`Held`), which are the values the logic tells apart; the theorems are for any. Longer
texts and deeper nesting are covered by the theorems of section 4, but for dumps.

*Deadlock.* Checked in every run but `DependencyText`, whose program is a
function that returns, and `WorkLists`, where a sheet from which all is removed
leaves nothing to mark or to search. The other systems never stop: some call is always
possible, an aborted process stutters by `Aborted`, and a compilation that has
returned by `Returned`; so in `Formulas` the check shows that every text gets as
far as a formula or a refusal.

*Fairness.* `WF_vars(ExecutorStep)`: a call that runs is a C++ function, which
goes on until it returns. Callers owe nothing, so no action of `Call` is fair.
In `WorkLists`, `WF_vars(LoopStep)` for the same reason. Only
`EvaluationTerminates` and `LoopsEnd` depend on it.

## 4. Proofs

The eight proof modules are checked by TLAPS with Z3, Zenon and LS4. Five are
about the kernel and assume only what `DependencyGraph`, `Executor`, `StatKernel`
and `WorkLists` assume of their constants: there are finitely many names
(`FiniteNodeIds`), `Apply` returns numbers (`ApplyType`), texts and operations are
distinct and a text's references are distinct names (`KernelConstants`), callers
pass vectors of names and numbers of the engine (`CallerConstants`), types are
types (`TypingsAreTypes`). The number of nodes, texts, numbers and the bound on
the list are arbitrary. `CollectionProofs` assumes whole numbers and a NaN that is
none (`NumbersAreIntegers`), `FormulaProofs` that the character classes do not
overlap (`CharacterClasses`), that texts are sequences of characters
(`TextsAreTexts`), that names hold numbers (`HeldAreNumbers`) and what `SmallDouble` says of its numbers, `EngineProofs` that
separators are no characters of names (`TextConstants`); vectors and texts have any length.

**`DependencyGraphProofs`.** `Reach` is a least closed set, so a statement about
paths is proved by exhibiting a closed set. The central lemma, `NewEdgesAcyclic`,
is the argument the cycle check of `setNodeDependencies` relies on and does not
state: it searches the *old* edges for a path from each new dependency, one at a
time, and if none is found the new edges *together* make no cycle. (The nodes
the new dependencies reach are closed under the new edges as well, because the
re-linked node is not among them; a cycle through it would have to enter that
set and leave it again.) `LinkNewNode` is the argument for skipping the check
when a node is created: nothing reads it. `WithDependenciesPreserves`,
`RemoveNodePreserves` and `SetNodeDependenciesPreserves` then carry all three
parts of `WellFormed` through every operation.

**`StatKernelProofs`.** The inductive invariant is

    IInv == TypeOK /\ GraphWellFormed /\ FormulaBindings /\ IdleRests /\ ReadKnowsItsNode

None of the three properties is inductive by itself. A creation skips the cycle
check, so acyclicity needs that a free name has no edges (the mirror of the two
maps with `DependenciesExist`). `FormulaBindings` needs the mirror too:
`removeNode` looks for formulas only among the recorded dependents of the node it
removes, so a formula that reads the node and is not recorded there would lose a
dependency it still looks up. `IdleRests` (no walk is left over between calls) and
`ReadKnowsItsNode` (a running read knows a name) are needed because a call
starts its walk without clearing anything, and a read replies with the value at
the name it was given. One lemma per action shows that it preserves
`IInv`; then

| Theorem | Says |
|---|---|
| `TypeCorrect` | `Spec => []TypeOK` |
| `GraphStaysWellFormed` | `Spec => []GraphWellFormed` |
| `FormulasStayBound` | `Spec => []FormulaBindings` |
| `FailuresRollBack` | `Spec => FailedCallChangesNothing`: a call that returns an error leaves nodes, edges, caches, flags and leaves as they were. The interesting case is the failed creation: `RemoveUndoesAdd` shows that removing the new node restores the very graph there was before, which again needs that a free name has no edges |

**`ExecutorProofs`.** The theorems about caches and walks need a second invariant,

    CInv == Fresh /\ WalksSound

`Fresh` says that what reads a dirty node is dirty and that a clean node fits
its formula. It is not inductive by itself: a walk cleans nodes one by one, and
keeps `Fresh` only if it computes a node when nothing that node reads is dirty.
`WalksSound` says why it does. For the explicit stack (`StackSound`): a Visited
node is clean; a Visiting node is dirty and still on the stack, with everything
above it upstream of it and everything it reads Visited or above it. So when it
comes back to the top, all it reads is clean. For the recursion (`FramesSound`):
what an activation has been through is clean, but for the dependency it waits
for, which is the next activation. `OneWalk` adds that the walk started at the
node that was asked for and stays upstream of it, `RootsClean` that a root is
clean when its walk is over.

A mutation is the other half. Between the change and the end of the marking the
dirty nodes are *not* propagated to what reads the changed node, and only that:
`PropagatedBut`. `MarkingPropagates` shows that one marking walk, which stops at
dirty nodes, repairs exactly this. Each operation gets a lemma that its changes
leave no other defect; `DeleteNode` is the one where it matters that the
dependents are read before the node goes.

| Theorem | Says |
|---|---|
| `DirtyIsPropagated` | `Spec => []DirtyPropagated` |
| `CachesCorrect` | `Spec => []CacheCorrect` |
| `WalksOnDirtyNodes` | `Spec => []WalkOnDirtyNodes` |
| `SweepsCleanLeaves` | `Spec => SweepCleansLeaves` |
| `OnlyUpstreamIsComputed`, `OnlyDownstreamIsMarked` | `Spec => OnlyUpstreamComputed`, `Spec => OnlyDownstreamMarked` |
| `StacksAreBounded` | `Spec => []StackBounded` |
| `StepsAlwaysDescend` | `Spec => StepsDescend`: each step of a read or a sweep leaves less to do |
| `KernelStaysSettled` | `Spec => []Settled(graph, dirty)`: what `WorkLists` starts from is what the kernel is in |

An entry of the explicit stack is pushed for an edge, by its reader. A node
pushes when it turns from Unvisited to Visiting and never again, so no two entries
have the same reader and the same node. `SInv` says that such a naming of pushers
exists; it is an injection of the entries, without the first, into the edges. The
activations of the recursion stand for distinct nodes because each is strictly
upstream of those below it and the graph has no cycle.

`StepsDescend` is the safety half of "every walk ends". `Remaining` lists what is
left of a call from the coarsest to the finest: the call, the leaves of the sweep,
the walk, the dirty nodes, the visits, the entries of the stack. A step may make a
later number grow (a node that turns Visiting pushes all it reads) but only when
an earlier one shrinks, so the list gets smaller in the lexical order of six
naturals, which is well founded. That a node leaves Unvisited or Visiting for good,
and that a walk that ends has cleaned its root, come from `CInv`.

**`SheetProofs`.** In a graph without cycles, the number of nodes a node can reach
is smaller for what it reads than for itself, so it is a rank
(`AcyclicIsOrderable`); in the other direction a rank leaves no room for a cycle.
That links the searches of the code to orders, and proves

| Theorem | Says |
|---|---|
| `DependencyChecksAreExact` | `Spec => []DependencyChecksExact`: the checks of `setNodeDependencies` accept every legal edit and no other |
| `ImplementsSheet` | `Spec => ImplementsSpreadsheet`: the kernel implements `Spreadsheet` under the mapping `SheetOf` |

The refinement goes action by action. An edit maps to the edit of the abstract
sheet (`PutCell`), whose soundness is the acyclicity of the new graph; a refusal
to `Refuse`; a step of a walk to a stutter, since it writes only caches, which
the mapping does not show; a call to `Read` or `Ask`, and the end of a walk to
`AnswerAsked`. An answer is right because the clean nodes, which read only clean
nodes, hold numbers that fit all their formulas (`CleanNodeMeans`), which is what
`Means` asks for. The one addition to the invariants is `Asks`: a node is asked
for only while a read runs.

**`EngineProofs`**, about what surrounds the kernel, takes any set of engines, sheets and codes. `Outcome` says what
a function that returns a code may do; every function has one, and the three
properties of `CApi` follow: `ErrorsAreToldOnce`, `SheetsStayApart`,
`FailedReadsGiveNothing`.

`NamesAreParsed` is `TextSpec => []ParsesNames` for `DependencyText`. A name has a rank,
the number of names that start before it. `ParseInv` says that the names whose end
has been passed are in `parsed` at their ranks, and that `current` is the stretch
since the last separator; so the vector grows in the order of the text, by each
name once.

**`WorkListsProofs`.** Both loops have an invariant about the border of what they
have handled: no edge leaves it, except to names that are still on the stack. When
the stack is empty the handled set is closed, and so holds all that can be reached
(`ReachLeast`); that it holds nothing else is the other half of the invariant. For
markDirty (`MarkSound`) the border includes nodes that an *earlier* call of the
same operation marked, because the calls for the former dependents of a removed
node share the flags. `SettledBut` is a settled graph but for the names that are
still to be marked: `RelinkingSettles` shows that new edges leave one.

| Theorem | Says |
|---|---|
| `MarkingMarksOnce` | `Spec => MarkDirtyMarksOnce`: the loop marks exactly `Marked`, lists each new leaf once, and leaves a settled graph, in every order of the vectors |
| `MarkingNeverMisses` | `Spec => []MarkingFindsNodes`: `Graph::node` never fails in it |
| `SearchesForget` | `Spec => SearchForgetsTheLast`: `hasPath` answers whether there is a path, whatever its static variables hold |

**`CollectionProofs`.** Each loop has an invariant about the operands it has seen
(`InLoop`): a sum of n lies between n times one of them and n times another; an
extreme is one of them and bounds the rest. When it has seen all, that is what the
answer promises (`Exact`). The median goes through places: the copy is sorted by a
permutation, so fewer than k operands are below the k-th in its order and at least
k are not above it (`SortedKth`, by counting with an injection), and only one
number is like that (`OneKthSmallest`). A reordering maps places one to one and
keeps both counts (`ReorderKth`). The theorems state the five properties of the
run `CollectionFormulas`: `MediansSplit`, `MeansAreWithin`, `ExtremesAreBounds`,
`NaNShows`, `OrderDoesNotShow`.

**`FormulaProofs`** is about texts of any length and formulas of any depth. Its
invariant, `FormulaInv`, goes by how far a compilation has come. `Spec => []FormulaInv`
is the theorem `FormulaInvariant`.

- *Tokens.* `TInv` is a type invariant. The grammar of lexemes says nothing of
  look-ahead; the proof restates it about the places of the text and goes through
  the first characters as the switch does. `RunEnds` (a loop over digits or letters
  stops at the first character that does not belong) takes a least element of a set
  of numbers.
- *The tree says the text.* `ParseInv` reads the stack as a row of pieces. `FrameOK`
  says what a waiting call has read so far: the operator before the operand it waits
  for, and to the left of that a phrase that its operator can take for its left
  operand, or a list of arguments with a comma behind each. What it needs of its
  operand (`NeedOf`) is no less than what its own caller needs, unless it is a
  parenthesis, a call or a branch that shuts it off; this is what `MinBindingPower`
  amounts to, once `Binding` has compared the two tables of the code with the
  strengths of the grammar. `Push` and `Pop` move a piece on and off the stack,
  `SameStack` says that a longer tree leaves what has been read alone.
- *No wrong turn.* Take a reader who goes through the tokens and knows only whether
  an operand or an operator comes next and which brackets are open, the `?` before
  its `:` among them. Whether he can get to the end (`EndsWell`, a least set) depends on no
  precedence. If the tokens are a formula he can (`FormulaEndsWell`, by steps of
  `Readings`), and while the parser is in a place from which he can (`OnTheWay`), each step of the parser is
  one of his or leaves him where he is, and the parser never refuses (`NoWayOfOperand`,
  `NoWayOfOperator`). The stack of calls forgets operators and remembers brackets,
  so `Opened` gets the one from the other.
- *Folding.* What stands in a place is a literal or a node made no later
  (`StandsWell`), so a function on the nodes, each by those before it, exists and is
  unique (`EvaluateIs`). A place is folded to a literal exactly if it is constant, and
  to the number it evaluates to (`LiteralsAre`); from this come the soundness of
  folding and what is refused. The queue of `extractDependencies` is a closed set
  (`QueueCloses`), so two lookups that agree on the names it finds agree on all that
  is evaluated (`OthersDoNotMatter`).

| Theorem | Says |
|---|---|
| `TokensAreLongest` | `Spec => TakesLongestToken` |
| `TreesSayTheirTexts` | `Spec => []ParsesByGrammar`: precedence and associativity, and no token lost, read twice or moved |
| `NoFormulaIsRefused` | `Spec => []RefusesNoFormula` |
| `ParserStaysInside` | `Spec => []StaysWithinTokens`: the unchecked index of `advance()` |
| `FoldingIsSound`, `ZeroDivisorsAreRefused` | `Spec => []FoldingAgrees`, `Spec => []RefusesConstantZeroDivisors` |
| `DependenciesAreEnough` | `Spec => []DependenciesSuffice`: the assumption the kernel model makes of the language |

Statements about all nodes of a tree, all readings or all digits are proved by a
least counterexample (`Upward`, `Stepwise`), since the induction theorems of the
library take an operator as a parameter and the installed provers cannot
instantiate it.

**Only model-checked.** `EvaluationTerminates` and `LoopsEnd`, which are liveness
under fairness and, like `ENABLED`, out of the prover's reach (`StepsDescend` is
proved and says why the first holds). `DumpsHideOnlyDigits`, whose reader of dumps is a
RECURSIVE operator (its recursion is over the dump and not over the tree), which
the prover does not support; it stands in `AstDump`, apart from what the theorems
are about. Every other property that a passing run checks is also proved. The
`violation` runs are counterexamples, and need no proof.

## 5. Where the code and its documentation part

1. **A removed node can stay listed** (`StaleLeaf`; `executor.cpp:50`).
   `Executor::remove` erases the first entry of a node from `_dirtyLeaves`, and a
   node can have two: create a formula (listed), read it (clean), change its
   input (listed again), remove it, call `evaluate()`. The sweep calls
   `Graph::node` on a missing node, which `graph.hpp:13` says terminates the
   program and leaves to callers to avoid.
2. **Formulas that cannot be evaluated are accepted** (`UndefinedFormula`).
   Unknown functions and wrong argument counts are found by `evaluate`, which
   ends the process. `doc/design_document.md:18` promises checks at mutation time
   so that evaluation needs none; `parser.cpp:12` has a FIXME.
3. **The pointer of `sf_last_error` is overwritten by the next
   `sf_last_error`** (`ErrorPointer`), not only "until a new error is written"
   (`error.h:93`).
4. **A null argument returns the code of an engine beyond repair**
   (`InvalidState`; `c.cpp:23` against `error.h:69`), and the engine works on.
5. **A conditional takes only the operand before its `?` as its condition**
   (`FormulaPrecedence`; `parser.cpp:262`). The loop of `parseExpression` accepts
   `?` at any binding power, so `<a> == 1 ? 2 : 3` is read as `<a> == (1 ? 2 : 3)`
   and `-<a> ? 1 : 0` as `-(<a> ? 1 : 0)`. The tests have a conditional inside a
   binary operator only in parentheses (`tests/dsl/parser.cpp:69`).
   The grammar that `ParsesByGrammar` compares with gives `?` the operand before it
   for this reason (`NeedsLeft`); in all else it is the usual one.

More differences came up that contradict nothing the repository says:

- `foldConstants` compares a literal condition with zero, so a literal NaN counts
  as true; `evaluate` counts NaN as false. `((0-1)^0.5) ? 1 : 2` is folded to 1 and
  would be evaluated to 2. `!` of a literal NaN gives 0 folded and 1 evaluated.
  `FoldingAgrees` and `RefusesConstantZeroDivisors` leave out trees that test a
  literal NaN, and nothing else.
- A division of constants by a constant zero is refused also in a branch that
  can never be taken. Any other division by zero, and any overflow, is evaluated to an
  infinity or NaN that is read as any number: `SF_ERR_EVAL_DIV_BY_ZERO` and the two
  codes after it (`error.h:57-64`) are returned nowhere, and a FIXME at
  `evaluator.cpp:55` says so of the division. No property is about this.
- `dumpSExpr` prints a literal with the default precision of a stream, six digits
  (`ast.cpp:49`): the trees of `1000000` and `1000001` have one dump, `1e+06`. A test
  that compares dumps does not see the difference; `DumpsHideOnlyDigits` says that it
  sees every other. The small format has one digit in the place of six, so 1.5, 2.5
  and 2 print alike (`PrintedNumber`).
- `setNodeValue` of -0.0 on a node that holds 0.0 (or the reverse) succeeds and does
  nothing, though `1/<v>` would tell the two apart. `Spreadsheet` allows it: its
  `SetNumber` keeps a number that equals the new one.

## 6. Plan

Order: the kernel first, because every promise of the engine is about it; then
its surroundings; then the language; then the theorems. All of this is done: the
modules of section 2, the runs of section 3, the theorems of section 4. What is
left, in the order of what it would add:

1. The two maps as vectors with their append and erase loops, shown to implement
   the set-level `WithDependencies` and `WithoutNode`.
2. The rule engine, once `src/state/rule_engine.cpp` has a behaviour.
3. That dumps hide only digits, as a theorem: the reader of dumps would have to be a
   machine with a stack, as the parser is.

Runs stay within a few minutes each by keeping the language modules apart from
the kernel, whose formulas remain opaque.

## 7. Not modelled

- Of the language: the spans of tokens and the wording of errors; the sign of
  zero; characters outside the listed classes; the depth of the C++ stack, which
  the parser's and the evaluator's recursion uses without a limit.
- `src/debug/puml.cpp` writes a picture of the graph to a file and keeps no state.
- `src/state/rule_engine.cpp` and the rule methods of the C++ class are stubs.
- The wording of messages and the 1024-byte buffers that may truncate them.
- Floating-point rounding: numbers are integers, fractions or NaN, so a sum does
  not depend on the order of its operands, as one of `double`s may in its last
  digit (`OrderInvisible` says nothing of sums for that reason). The modulo-3
  sums of the kernel runs stand for any function of the operands; refinement
  and cache correctness are about *which* values are combined, not how.
- Memory: allocation failure, iterator validity of `std::unordered_map` and the
  lifetime of engine handles (using a destroyed handle is the caller's error).
- Benchmarks, examples and vendored code.
